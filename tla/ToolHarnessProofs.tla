------------------------- MODULE ToolHarnessProofs -------------------------
(***************************************************************************)
(* Proofs about ToolHarness, for any harnesses, callers, runs, calls and   *)
(* bodies.                                                                 *)
(***************************************************************************)
EXTENDS ToolHarness, TLAPS

Past  == {"bind", "body", "acted"}      \* after a claim, before its settlement
Asked == {"policy", "claim"}            \* after the identity check, before the claim

\* Past the identity check, the row is the call's.
RowsDescribe ==
  \A c \in Callers : call[c].pc \in Asked \cup Past =>
     Describes(rows[call[c].call.id], call[c].run, call[c].call)

\* A caller past its claim has the row, under its token, and the body it is about to run
\* is the tool's; a row that was put to a human it has on his word.
Owns(c) ==
  LET f == call[c]
      i == f.call.id IN
  /\ rows[i].status = "claimed" /\ rows[i].token = f.token
  /\ f.impl \in Impls /\ f.impl = dispatchers[f.harness][f.call.tool]
  /\ f.pc = "bind" => entered[i] = <<>>
  /\ i \in parked => f.approved

ClaimersOwn == \A c \in Callers : call[c].pc \in Past => Owns(c)

\* Nobody else has it.
ClaimersAreAlone ==
  \A c, d \in Callers :
     call[c].pc \in Past /\ call[d].pc \in Past /\ call[c].call.id = call[d].call.id => c = d

\* What was executed has been claimed, and what was put to a human is not merely intended.
ExecutedWasClaimed == \A i \in Ids : entered[i] # <<>> => rows[i].status \in Claimed
ParkedIsNoted == \A i \in parked : rows[i].status \notin {"none", "intended"}

IInv == /\ TypeOK /\ RowsDescribe /\ ClaimersOwn /\ ClaimersAreAlone
        /\ ExecutedWasClaimed /\ ParkedIsNoted
        /\ BodyMatchesRow /\ ParkedNeedsApproval /\ ClaimsAreAttended

----------------------------------------------------------------------------
(* The invariant. *)

\* The step changes the row of no effect that has been claimed.
ClaimedStay ==
  \A i \in Ids :
    \/ rows'[i] = rows[i]
    \/ /\ rows[i].status \notin Claimed
       /\ rows'[i].status \notin Claimed \cup {"none"}
       /\ rows[i] # NoRow =>
            /\ rows'[i].run = rows[i].run /\ rows'[i].tool = rows[i].tool
            /\ rows'[i].args = rows[i].args /\ rows'[i].status # "intended"

\* No caller past its claim moves, and no caller gets there.
ClaimersStay ==
  \A c \in Callers :
    \/ call'[c] = call[c]
    \/ /\ call[c].pc \notin Past /\ call'[c].pc \notin Past
       /\ call'[c].pc \in Asked =>
            Describes(rows[call[c].call.id], call[c].run, call[c].call)'

ParkedWhenIntended ==
  \A i \in parked' : i \in parked \/
                     (rows[i].status = "intended" /\ rows'[i].status = "awaiting_approval")

BodiesStay ==
  \A h \in Harnesses, t \in Tools :
    dispatchers[h][t] # None => dispatchers'[h][t] = dispatchers[h][t]

LEMMA FrameFacts ==
  /\ Idle.pc \notin Asked \cup Past
  /\ \A f \in Frame : /\ f # Idle
                     /\ f.call \in Calls /\ f.call.id \in Ids /\ f.call.tool \in Tools
                     /\ f.harness \in Harnesses /\ f.run \in Runs
  /\ NoRow.status = "none" /\ NoRow \notin Row
  /\ \A c \in Callers : TypeOK /\ call[c].pc \in Asked \cup Past => call[c] \in Frame
<1>1. Idle.pc \notin Asked \cup Past
  BY DEF Idle, Asked, Past
<1>2. \A f \in Frame : /\ f.call \in Calls /\ f.harness \in Harnesses /\ f.run \in Runs
                     /\ f.pc # "idle"
  BY DEF Frame
<1>3. \A k \in Calls : k.id \in Ids /\ k.tool \in Tools
  BY CallsAreCalls
<1>4. \A f \in Frame : f # Idle
  BY <1>2 DEF Idle
<1>5. NoRow.status = "none" /\ NoRow \notin Row
  BY DEF NoRow, Row, Unclaimed, Claimed
<1>6. \A c \in Callers : TypeOK => call[c] \in Frame \/ call[c] = Idle
  BY DEF TypeOK
<1> QED BY <1>1, <1>2, <1>3, <1>4, <1>5, <1>6

LEMMA InitHasIInv == Init => IInv
<1> SUFFICES ASSUME Init PROVE IInv
  OBVIOUS
<1>1. TypeOK
  BY NoneIsNothing DEF Init, TypeOK, Idle, NoRow
<1>2. \A c \in Callers : call[c].pc \notin Asked \cup Past
  BY FrameFacts DEF Init
<1>3. \A i \in Ids : entered[i] = <<>> /\ rows[i].status = "none"
  BY FrameFacts DEF Init
<1>4. BodyMatchesRow /\ ParkedNeedsApproval
  BY <1>3 DEF BodyMatchesRow, ParkedNeedsApproval, Range, Init
<1>5. ClaimsAreAttended
  BY <1>3 DEF ClaimsAreAttended
<1> QED BY <1>1, <1>2, <1>3, <1>4, <1>5 DEF IInv, RowsDescribe, ClaimersOwn, ClaimersAreAlone,
          ExecutedWasClaimed, ParkedIsNoted, Init

\* A step that stays on this side of a claim.
LEMMA BeforeAClaim ==
  ASSUME IInv, TypeOK', ClaimedStay, ClaimersStay, ParkedWhenIntended, BodiesStay,
         UNCHANGED <<entered, stranded>>
  PROVE  IInv'
<1> USE DEF Past, Asked
<1>0. /\ \A c \in Callers : call[c].pc \in Asked \cup Past =>
            call[c] \in Frame /\ call[c].call.id \in Ids /\ call[c].call.tool \in Tools
              /\ call[c].harness \in Harnesses
      /\ \A i \in Ids : rows[i].status = "none" <=> rows[i] = NoRow
  BY FrameFacts DEF IInv, TypeOK, Row, Unclaimed, Claimed
<1>1. RowsDescribe'
  <2> SUFFICES ASSUME NEW c \in Callers, call'[c].pc \in Asked \cup Past
               PROVE  Describes(rows[call[c].call.id], call[c].run, call[c].call)'
    BY DEF RowsDescribe
  <2>1. CASE call'[c] = call[c]
    BY <1>0, <2>1 DEF IInv, RowsDescribe, Describes, ClaimedStay, Claimed, NoRow
  <2>2. CASE call'[c] # call[c]
    BY <2>2 DEF ClaimersStay
  <2> QED BY <2>1, <2>2
<1>2. \A c \in Callers : call'[c].pc \in Past =>
         call'[c] = call[c] /\ rows'[call[c].call.id] = rows[call[c].call.id]
  BY <1>0 DEF IInv, ClaimersStay, ClaimersOwn, Owns, ClaimedStay, Claimed
<1>3. ClaimersOwn'
  BY <1>0, <1>2, NoneIsNothing DEF IInv, ClaimersOwn, Owns, ParkedWhenIntended, BodiesStay
<1>4. ClaimersAreAlone'
  BY <1>2 DEF IInv, ClaimersAreAlone
<1>5. \A i \in Ids : rows[i].status \in Claimed => rows'[i] = rows[i]
  BY DEF ClaimedStay
<1>6. ExecutedWasClaimed'
  BY <1>5 DEF IInv, ExecutedWasClaimed
<1>7. ParkedIsNoted'
  BY <1>0 DEF IInv, TypeOK, ParkedIsNoted, ParkedWhenIntended, ClaimedStay, NoRow, Claimed
<1>8. \A i \in Ids : \A e \in Range(entered[i]) : entered[i] # <<>> /\ e \in Execution
  BY DEF IInv, TypeOK, Range
<1>9. BodyMatchesRow'
  <2> SUFFICES ASSUME NEW i \in Ids, NEW e \in Range(entered[i])
               PROVE  /\ Len(entered[i]) = 1
                      /\ rows'[i].run = e.run /\ rows'[i].tool = e.call.tool
                      /\ rows'[i].args = e.call.args
                      /\ dispatchers'[e.harness][rows'[i].tool] = e.impl
    BY DEF BodyMatchesRow
  <2>1. e \in Execution /\ rows'[i] = rows[i]
    BY <1>5, <1>8 DEF IInv, ExecutedWasClaimed
  <2>2. e.harness \in Harnesses /\ e.call \in Calls /\ e.impl # None
    BY <2>1, NoneIsNothing DEF Execution
  <2>3. e.call.tool \in Tools
    BY <2>2, CallsAreCalls
  <2>4. /\ Len(entered[i]) = 1
        /\ rows[i].run = e.run /\ rows[i].tool = e.call.tool /\ rows[i].args = e.call.args
        /\ dispatchers[e.harness][rows[i].tool] = e.impl
    BY DEF IInv, BodyMatchesRow
  <2> QED BY <2>1, <2>2, <2>3, <2>4 DEF BodiesStay
<1>10. ParkedNeedsApproval'
  BY <1>8 DEF IInv, TypeOK, ParkedNeedsApproval, ParkedWhenIntended, ExecutedWasClaimed, Claimed
<1>11. ClaimsAreAttended'
  <2> SUFFICES ASSUME NEW i \in Ids \ stranded, rows'[i].status = "claimed"
               PROVE  \E c \in Callers : /\ call'[c] # Idle /\ call'[c].pc \in Past
                                         /\ call'[c].call.id = i
                                         /\ call'[c].token = rows'[i].token
    BY DEF ClaimsAreAttended
  <2>1. rows[i].status = "claimed" /\ rows'[i] = rows[i]
    BY DEF ClaimedStay, Claimed
  <2>2. PICK c \in Callers : /\ call[c] # Idle /\ call[c].pc \in Past
                             /\ call[c].call.id = i /\ call[c].token = rows[i].token
    BY <2>1 DEF IInv, ClaimsAreAttended
  <2>3. call'[c] = call[c]
    BY <2>2 DEF ClaimersStay
  <2> QED BY <2>1, <2>2, <2>3
<1> QED BY <1>1, <1>3, <1>4, <1>6, <1>7, <1>9, <1>10, <1>11 DEF IInv

----------------------------------------------------------------------------
(* Rows and callers. *)

RowsTyped ==
  /\ rows \in [Ids -> Row \cup {NoRow}]
  /\ \A i \in Ids : rows[i] # NoRow => (rows[i].status \in Claimed <=> rows[i].token # None)

\* A row gets another status.
LEMMA StatusChanges ==
  ASSUME TypeOK, NEW i \in Ids, rows[i] # NoRow,
         NEW s \in Unclaimed \cup Claimed, s \in Claimed <=> rows[i].token # None,
         rows' = [rows EXCEPT ![i].status = s]
  PROVE  /\ RowsTyped'
         /\ rows'[i].status = s /\ rows'[i].run = rows[i].run /\ rows'[i].tool = rows[i].tool
         /\ rows'[i].args = rows[i].args /\ rows'[i].token = rows[i].token
         /\ \A j \in Ids \ {i} : rows'[j] = rows[j]
<1>1. rows \in [Ids -> Row \cup {NoRow}] /\ rows[i] \in Row
  BY DEF TypeOK
<1>2. rows' = [rows EXCEPT ![i] = [rows[i] EXCEPT !.status = s]]
  OBVIOUS
<1>3. [rows[i] EXCEPT !.status = s] \in Row
  BY <1>1 DEF Row
<1>4. /\ rows'[i] = [rows[i] EXCEPT !.status = s]
      /\ \A j \in Ids \ {i} : rows'[j] = rows[j]
      /\ rows' \in [Ids -> Row \cup {NoRow}]
  BY <1>1, <1>2, <1>3
<1>5. /\ rows'[i].status = s /\ rows'[i].run = rows[i].run /\ rows'[i].tool = rows[i].tool
      /\ rows'[i].args = rows[i].args /\ rows'[i].token = rows[i].token
  BY <1>1, <1>4 DEF Row
<1>6. \A j \in Ids : rows'[j] # NoRow => (rows'[j].status \in Claimed <=> rows'[j].token # None)
  BY <1>4, <1>5 DEF TypeOK
<1> QED BY <1>4, <1>5, <1>6 DEF RowsTyped

\* Nothing else than rows and callers changes.
LEMMA TypeStays ==
  ASSUME TypeOK, RowsTyped', call' \in [Callers -> Frame \cup {Idle}],
         minted' \in Nat, parked' \in SUBSET Ids,
         leases' \in [Harnesses -> [Runs -> {"none", "valid", "expired"}]],
         UNCHANGED <<config, entered, acted, stranded>>
  PROVE  TypeOK'
BY DEF TypeOK, RowsTyped, config

LEMMA SameRows == TypeOK /\ UNCHANGED rows => RowsTyped'
BY DEF TypeOK, RowsTyped

LEMMA CallerGoes ==
  ASSUME TypeOK, NEW c \in Callers, NEW g \in Frame \cup {Idle}, Goes(c, g)
  PROVE  /\ call' \in [Callers -> Frame \cup {Idle}]
         /\ call'[c] = g
         /\ \A d \in Callers \ {c} : call'[d] = call[d]
BY DEF TypeOK, Goes

\* A dispatch that returns goes on to the next call of its turn, or ends.
LEMMA CallerReturns ==
  ASSUME TypeOK, NEW c \in Callers, call[c] \in Frame, Returns(c)
  PROVE  \E g \in Frame \cup {Idle} : Goes(c, g) /\ g.pc \notin Asked \cup Past
<1> DEFINE f == call[c]
           n == [f EXCEPT !.pc = "intend", !.call = Head(f.rest), !.rest = Tail(f.rest),
                          !.impl = None, !.token = None]
<1>1. f.rest \in Seq(Calls)
  BY DEF Frame
<1>2. CASE f.rest = <<>>
  BY <1>2, FrameFacts DEF Returns
<1>3. CASE f.rest # <<>>
  <2>1. Head(f.rest) \in Calls /\ Tail(f.rest) \in Seq(Calls)
    BY <1>1, <1>3
  <2>2. n \in Frame
    BY <2>1 DEF Frame
  <2>3. n.pc = "intend"
    BY DEF Frame
  <2>4. Goes(c, n)
    BY <1>3 DEF Returns
  <2> HIDE DEF n
  <2> QED BY <2>2, <2>3, <2>4 DEF Asked, Past
<1> QED BY <1>2, <1>3

----------------------------------------------------------------------------
(* Settlement. *)

\* A caller that has a row writes its outcome and leaves.
LEMMA SettlingKeepsIInv ==
  ASSUME IInv, NEW c \in Callers, call[c].pc \in Past,
         NEW s \in {"succeeded", "failed", "indeterminate"}, rows' = Settled(call[c], s),
         NEW g \in Frame \cup {Idle}, g.pc \notin Asked \cup Past, Goes(c, g),
         UNCHANGED <<minted, config, leases, history>>
  PROVE  IInv'
<1> DEFINE i == call[c].call.id
<1>1. TypeOK /\ i \in Ids
  BY FrameFacts DEF IInv
<1>2. rows[i].status = "claimed" /\ rows[i].token = call[c].token
  BY DEF IInv, ClaimersOwn, Owns
<1>3. rows[i] # NoRow /\ rows[i].token # None
  BY <1>1, <1>2, FrameFacts DEF TypeOK, Claimed
<1>4. rows' = [rows EXCEPT ![i].status = s]
  BY <1>2 DEF Settled, MaySettle
<1>5. s \in Claimed /\ s # "claimed" /\ s \notin {"none", "intended"}
  BY DEF Claimed
<1> HIDE DEF i
<1>6. /\ RowsTyped'
      /\ rows'[i].status = s /\ rows'[i].run = rows[i].run /\ rows'[i].tool = rows[i].tool
      /\ rows'[i].args = rows[i].args /\ rows'[i].token = rows[i].token
      /\ \A j \in Ids \ {i} : rows'[j] = rows[j]
  BY <1>1, <1>3, <1>4, <1>5, StatusChanges
<1>7. /\ call' \in [Callers -> Frame \cup {Idle}]
      /\ call'[c] = g
      /\ \A d \in Callers \ {c} : call'[d] = call[d]
  BY <1>1, CallerGoes
<1>8. TypeOK'
  BY <1>1, <1>6, <1>7, TypeStays DEF TypeOK, history
<1>9. \A d \in Callers : call'[d].pc \in Asked \cup Past =>
         d # c /\ call'[d] = call[d] /\ call[d].call.id \in Ids
  BY <1>1, <1>7, FrameFacts
<1>10. RowsDescribe'
  <2> SUFFICES ASSUME NEW d \in Callers, call'[d].pc \in Asked \cup Past
               PROVE  Describes(rows[call[d].call.id], call[d].run, call[d].call)'
    BY DEF RowsDescribe
  <2>1. Describes(rows[call[d].call.id], call[d].run, call[d].call)
    BY <1>9 DEF IInv, RowsDescribe
  <2>2. rows'[i] # NoRow
    BY <1>5, <1>6, FrameFacts
  <2> QED BY <1>6, <1>9, <2>1, <2>2 DEF Describes
<1>11. \A d \in Callers : call'[d].pc \in Past => call[d].call.id # i
  BY <1>9 DEF IInv, ClaimersAreAlone, i
<1>12. ClaimersOwn'
  BY <1>6, <1>9, <1>11 DEF IInv, ClaimersOwn, Owns, config, history
<1>13. ClaimersAreAlone'
  BY <1>9 DEF IInv, ClaimersAreAlone
<1>14. ExecutedWasClaimed' /\ ParkedIsNoted'
  BY <1>1, <1>5, <1>6 DEF IInv, TypeOK, ExecutedWasClaimed, ParkedIsNoted, history
<1>15. BodyMatchesRow' /\ ParkedNeedsApproval'
  BY <1>6 DEF IInv, BodyMatchesRow, ParkedNeedsApproval, config, history
<1>16. ClaimsAreAttended'
  <2> SUFFICES ASSUME NEW j \in Ids \ stranded, rows'[j].status = "claimed"
               PROVE  \E d \in Callers : /\ call'[d] # Idle /\ call'[d].pc \in Past
                                         /\ call'[d].call.id = j
                                         /\ call'[d].token = rows'[j].token
    BY DEF ClaimsAreAttended, history, Past
  <2>1. j # i /\ rows'[j] = rows[j]
    BY <1>5, <1>6
  <2>2. PICK d \in Callers : /\ call[d] # Idle /\ call[d].pc \in Past
                             /\ call[d].call.id = j /\ call[d].token = rows[j].token
    BY <2>1 DEF IInv, ClaimsAreAttended, Past
  <2>3. call'[d] = call[d]
    BY <1>7, <2>1, <2>2 DEF i
  <2> QED BY <2>1, <2>2, <2>3
<1> QED BY <1>8, <1>10, <1>12, <1>13, <1>14, <1>15, <1>16 DEF IInv

----------------------------------------------------------------------------
(* The steps that reach the ledger or a body. *)

\* A claim that succeeds.
LEMMA ClaimingKeepsIInv ==
  ASSUME IInv, NEW c \in Callers, claim(c), call'[c].pc \in Past
  PROVE  IInv'
<1> DEFINE f    == call[c]
           i    == call[c].call.id
           impl == dispatchers[call[c].harness][call[c].call.tool]
           g    == [f EXCEPT !.pc = "bind", !.impl = impl, !.token = minted + 1]
<1>1. /\ TypeOK /\ i \in Ids /\ f \in Frame /\ f.pc = "claim"
      /\ f.harness \in Harnesses /\ f.run \in Runs /\ f.call.tool \in Tools
  BY FrameFacts DEF IInv, claim, Asked
<1>2. impl \in Impls \cup {None}
  BY <1>1 DEF TypeOK
<1>3. ~Raises(c)
  BY <1>1, CallerGoes, FrameFacts DEF Raises
<1>4. /\ impl # None /\ Claimable(i, f.approved)
      /\ minted' = minted + 1
      /\ rows' = [rows EXCEPT ![i].status = "claimed", ![i].token = minted']
      /\ Goes(c, [f EXCEPT !.pc = "bind", !.impl = impl, !.token = minted'])
      /\ leases' = LeasesFor(f.harness, f.run)
      /\ UNCHANGED <<config, history>>
  BY <1>3 DEF claim
<1>5. minted + 1 \in Nat /\ minted' \in Nat /\ minted' # None
  BY <1>1, <1>4, NoneIsNothing DEF TypeOK
<1>6. g \in Frame /\ Goes(c, g)
  BY <1>1, <1>2, <1>4, <1>5 DEF Frame
<1>7. /\ g.pc = "bind" /\ g.impl = impl /\ g.token = minted' /\ g.call = f.call
      /\ g.run = f.run /\ g.harness = f.harness /\ g.approved = f.approved
  BY <1>1, <1>4 DEF Frame
<1> HIDE DEF g
<1>8. /\ call' \in [Callers -> Frame \cup {Idle}]
      /\ call'[c] = g
      /\ \A d \in Callers \ {c} : call'[d] = call[d]
  BY <1>1, <1>6, CallerGoes
<1>9. rows[i] \in Row /\ rows[i].status \in {"intended", "awaiting_approval"}
  BY <1>1, <1>4, FrameFacts DEF Claimable, TypeOK
<1>10. rows \in [Ids -> Row \cup {NoRow}]
  BY <1>1 DEF TypeOK
<1> DEFINE r == [rows[i] EXCEPT !.status = "claimed", !.token = minted']
<1>11. /\ r \in Row /\ r.status = "claimed" /\ r.token = minted'
       /\ r.run = rows[i].run /\ r.tool = rows[i].tool /\ r.args = rows[i].args
  BY <1>5, <1>9 DEF Row, Claimed
<1>12. rows' = [rows EXCEPT ![i] = r]
  BY <1>1, <1>4, <1>10
<1> HIDE DEF r
<1>13. /\ rows'[i] = r
       /\ \A j \in Ids \ {i} : rows'[j] = rows[j]
       /\ rows' \in [Ids -> Row \cup {NoRow}]
  BY <1>1, <1>10, <1>11, <1>12
<1>14. RowsTyped'
  BY <1>1, <1>5, <1>11, <1>13 DEF RowsTyped, TypeOK, Claimed
<1>15. leases' \in [Harnesses -> [Runs -> {"none", "valid", "expired"}]]
  BY <1>1, <1>4 DEF LeasesFor, TypeOK
<1>16. TypeOK'
  BY <1>1, <1>4, <1>5, <1>8, <1>14, <1>15, TypeStays DEF history, TypeOK
<1>17. \A d \in Callers \ {c} : call'[d].pc \in Asked \cup Past =>
          call'[d] = call[d] /\ call[d].call.id \in Ids
  BY <1>1, <1>8, FrameFacts
<1>18. \A d \in Callers \ {c} : call'[d].pc \in Past =>
          call'[d] = call[d] /\ call[d].call.id \in Ids \ {i}
  BY <1>9, <1>17 DEF IInv, ClaimersOwn, Owns
<1>19. RowsDescribe'
  <2>1. Describes(rows[i], f.run, f.call)
    BY <1>1 DEF IInv, RowsDescribe, Asked
  <2>2. ASSUME NEW d \in Callers \ {c}, call'[d].pc \in Asked \cup Past
        PROVE  Describes(rows[call[d].call.id], call[d].run, call[d].call)'
    <3>1. call'[d] = call[d] /\ Describes(rows[call[d].call.id], call[d].run, call[d].call)
      BY <1>17, <2>2 DEF IInv, RowsDescribe
    <3> QED BY <1>11, <1>13, <1>17, <2>2, <3>1, FrameFacts DEF Describes
  <2>3. Describes(rows'[i], f.run, f.call)
    BY <1>11, <1>13, <2>1, FrameFacts DEF Describes
  <2> QED BY <1>7, <1>8, <2>2, <2>3 DEF RowsDescribe
<1>20. entered[i] = <<>>
  BY <1>1, <1>9 DEF IInv, ExecutedWasClaimed, Claimed
<1>21. ClaimersOwn'
  <2>1. Owns(c)'
    BY <1>1, <1>2, <1>4, <1>7, <1>8, <1>9, <1>11, <1>13, <1>20
       DEF Owns, config, history, IInv, ParkedIsNoted, Claimable
  <2>2. ASSUME NEW d \in Callers \ {c}, call'[d].pc \in Past PROVE Owns(d)'
    <3>1. /\ Owns(d) /\ call'[d] = call[d]
          /\ rows'[call[d].call.id] = rows[call[d].call.id]
      BY <1>13, <1>18, <2>2 DEF IInv, ClaimersOwn
    <3> QED BY <1>4, <3>1 DEF Owns, config, history
  <2> QED BY <2>1, <2>2 DEF ClaimersOwn
<1>22. ClaimersAreAlone'
  BY <1>7, <1>8, <1>18 DEF IInv, ClaimersAreAlone
<1>23. ExecutedWasClaimed' /\ ParkedIsNoted'
  BY <1>1, <1>4, <1>11, <1>13 DEF IInv, TypeOK, ExecutedWasClaimed, ParkedIsNoted, history, Claimed
<1>24. BodyMatchesRow' /\ ParkedNeedsApproval'
  <2>1. \A j \in Ids : /\ rows'[j].run = rows[j].run /\ rows'[j].tool = rows[j].tool
                       /\ rows'[j].args = rows[j].args
    BY <1>11, <1>13
  <2>2. /\ dispatchers' = dispatchers /\ entered' = entered /\ parked' = parked
    BY <1>4 DEF config, history
  <2>3. BodyMatchesRow'
    BY <2>1, <2>2 DEF IInv, BodyMatchesRow
  <2>4. ParkedNeedsApproval'
    BY <2>2 DEF IInv, ParkedNeedsApproval
  <2> QED BY <2>3, <2>4
<1>25. ClaimsAreAttended'
  <2> SUFFICES ASSUME NEW j \in Ids \ stranded, rows'[j].status = "claimed"
               PROVE  \E d \in Callers : /\ call'[d] # Idle /\ call'[d].pc \in Past
                                         /\ call'[d].call.id = j
                                         /\ call'[d].token = rows'[j].token
    BY <1>4 DEF ClaimsAreAttended, history, Past
  <2>1. CASE j = i
    BY <1>6, <1>7, <1>8, <1>11, <1>13, <2>1, FrameFacts DEF Past
  <2>2. CASE j # i
    <3>1. PICK d \in Callers : /\ call[d] # Idle /\ call[d].pc \in Past
                               /\ call[d].call.id = j /\ call[d].token = rows[j].token
      BY <1>13, <2>2 DEF IInv, ClaimsAreAttended, Past
    <3>2. d # c
      BY <1>1, <3>1 DEF Past
    <3> QED BY <1>8, <1>13, <2>2, <3>1, <3>2
  <2> QED BY <2>1, <2>2
<1> QED BY <1>16, <1>19, <1>21, <1>22, <1>23, <1>24, <1>25 DEF IInv

\* The body is entered.
LEMMA EnteringKeepsIInv ==
  ASSUME IInv, NEW c \in Callers, enter_impl(c)
  PROVE  IInv'
<1> DEFINE f == call[c]
           i == call[c].call.id
           g == [f EXCEPT !.pc = "body"]
           e == [harness |-> f.harness, run |-> f.run, call |-> f.call,
                 impl |-> f.impl, approved |-> f.approved]
<1>1. /\ TypeOK /\ f.pc = "bind" /\ f \in Frame /\ i \in Ids
  BY FrameFacts DEF IInv, enter_impl, Past
<1>2. Owns(c) /\ Describes(rows[i], f.run, f.call) /\ entered[i] = <<>>
  BY <1>1 DEF IInv, ClaimersOwn, RowsDescribe, Past, Asked, Owns
<1>3. e \in Execution
  BY <1>1, <1>2 DEF Execution, Frame, Owns
<1>4. /\ entered' = [entered EXCEPT ![i] = Append(entered[i], e)]
      /\ UNCHANGED <<rows, minted, dispatchers, built, lease, leases, acted, parked, stranded>>
  BY DEF enter_impl, config
<1>5. g \in Frame /\ Goes(c, g)
  BY <1>1 DEF enter_impl, Frame
<1>6. /\ g.pc = "body" /\ g.call = f.call /\ g.token = f.token /\ g.impl = f.impl
      /\ g.run = f.run /\ g.harness = f.harness /\ g.approved = f.approved
  BY <1>1 DEF Frame
<1>7. e.harness = f.harness /\ e.run = f.run /\ e.call = f.call /\ e.impl = f.impl
      /\ e.approved = f.approved
  OBVIOUS
<1> HIDE DEF g, e
<1>8. /\ call' \in [Callers -> Frame \cup {Idle}]
      /\ call'[c] = g
      /\ \A d \in Callers \ {c} : call'[d] = call[d]
  BY <1>1, <1>5, CallerGoes
<1>9. entered[i] \in Seq(Execution) /\ Append(entered[i], e) \in Seq(Execution)
  BY <1>1, <1>3 DEF TypeOK
<1>10. /\ entered' \in [Ids -> Seq(Execution)]
       /\ entered'[i] = Append(entered[i], e)
       /\ \A j \in Ids \ {i} : entered'[j] = entered[j]
  BY <1>1, <1>4, <1>9 DEF TypeOK
<1>11. Append(entered[i], e) = <<e>>
  BY <1>2
<1>12. Len(entered'[i]) = 1 /\ Range(entered'[i]) = {e}
  BY <1>10, <1>11 DEF Range
<1>13. TypeOK'
  BY <1>1, <1>4, <1>8, <1>10 DEF TypeOK
<1>14. RowsDescribe'
  BY <1>1, <1>4, <1>6, <1>8 DEF IInv, RowsDescribe, Past, Asked
<1>15. \A d \in Callers \ {c} : call[d].pc \in Past => call[d].call.id \in Ids \ {i}
  BY <1>1, FrameFacts DEF IInv, ClaimersAreAlone, Past
<1>16. ClaimersOwn'
  <2>1. Owns(c)'
    BY <1>2, <1>4, <1>6, <1>8 DEF Owns
  <2>2. ASSUME NEW d \in Callers \ {c}, call'[d].pc \in Past PROVE Owns(d)'
    BY <1>4, <1>8, <1>10, <1>15, <2>2 DEF IInv, ClaimersOwn, Owns
  <2> QED BY <2>1, <2>2 DEF ClaimersOwn
<1>17. ClaimersAreAlone'
  BY <1>1, <1>6, <1>8 DEF IInv, ClaimersAreAlone, Past
<1>18. ExecutedWasClaimed' /\ ParkedIsNoted'
  BY <1>2, <1>4, <1>10 DEF IInv, ExecutedWasClaimed, ParkedIsNoted, Owns, Claimed
<1>19. BodyMatchesRow'
  <2>1. ASSUME NEW x \in Range(entered'[i])
        PROVE  /\ rows[i].run = x.run /\ rows[i].tool = x.call.tool /\ rows[i].args = x.call.args
               /\ dispatchers[x.harness][rows[i].tool] = x.impl
    BY <1>2, <1>7, <1>12, <2>1 DEF Describes, Owns
  <2> QED BY <1>4, <1>10, <1>12, <2>1 DEF IInv, BodyMatchesRow
<1>20. ParkedNeedsApproval'
  <2>1. i \in parked => e.approved
    BY <1>2, <1>7 DEF Owns
  <2>2. parked \subseteq Ids
    BY <1>1 DEF TypeOK
  <2> QED BY <1>4, <1>10, <1>12, <2>1, <2>2 DEF IInv, ParkedNeedsApproval
<1>21. ClaimsAreAttended'
  <2>1. \A d \in Callers : call[d] # Idle /\ call[d].pc \in Past =>
          /\ call'[d] # Idle /\ call'[d].pc \in Past
          /\ call'[d].call = call[d].call /\ call'[d].token = call[d].token
    BY <1>5, <1>6, <1>8, FrameFacts DEF Past
  <2> QED BY <1>4, <2>1 DEF IInv, ClaimsAreAttended, Past
<1> QED BY <1>13, <1>14, <1>16, <1>17, <1>18, <1>19, <1>20, <1>21 DEF IInv

\* The body acts.
LEMMA ActingKeepsIInv ==
  ASSUME IInv, NEW c \in Callers, impl_acts(c)
  PROVE  IInv'
<1> DEFINE g == [call[c] EXCEPT !.pc = "acted"]
<1>1. /\ TypeOK /\ call[c].pc = "body" /\ call[c] \in Frame /\ call[c].call.id \in Ids
  BY FrameFacts DEF IInv, impl_acts, Past
<1>2. /\ acted' = [acted EXCEPT ![call[c].call.id] = acted[call[c].call.id] + 1]
      /\ UNCHANGED <<rows, minted, dispatchers, built, lease, leases, entered, parked, stranded>>
  BY DEF impl_acts, config
<1>3. g \in Frame /\ Goes(c, g)
  BY <1>1 DEF impl_acts, Frame
<1>4. /\ g.pc = "acted" /\ g.call = call[c].call /\ g.token = call[c].token
      /\ g.impl = call[c].impl /\ g.run = call[c].run /\ g.harness = call[c].harness
      /\ g.approved = call[c].approved
  BY <1>1 DEF Frame
<1> HIDE DEF g
<1>5. /\ call' \in [Callers -> Frame \cup {Idle}]
      /\ call'[c] = g
      /\ \A d \in Callers \ {c} : call'[d] = call[d]
  BY <1>1, <1>3, CallerGoes
<1>6. acted' \in [Ids -> Nat]
  BY <1>1, <1>2 DEF TypeOK
<1>7. TypeOK'
  BY <1>1, <1>2, <1>5, <1>6 DEF TypeOK
<1>8. RowsDescribe'
  BY <1>1, <1>2, <1>4, <1>5 DEF IInv, RowsDescribe, Past, Asked
<1>9. ClaimersOwn'
  <2>1. Owns(c)'
    BY <1>1, <1>2, <1>4, <1>5 DEF IInv, ClaimersOwn, Owns, Past
  <2>2. ASSUME NEW d \in Callers \ {c}, call'[d].pc \in Past PROVE Owns(d)'
    BY <1>2, <1>5, <2>2 DEF IInv, ClaimersOwn, Owns
  <2> QED BY <2>1, <2>2 DEF ClaimersOwn
<1>10. ClaimersAreAlone'
  BY <1>1, <1>4, <1>5 DEF IInv, ClaimersAreAlone, Past
<1>11. /\ ExecutedWasClaimed' /\ ParkedIsNoted' /\ BodyMatchesRow' /\ ParkedNeedsApproval'
  BY <1>2 DEF IInv, ExecutedWasClaimed, ParkedIsNoted, BodyMatchesRow, ParkedNeedsApproval
<1>12. ClaimsAreAttended'
  <2>1. \A d \in Callers : call[d] # Idle /\ call[d].pc \in Past =>
          /\ call'[d] # Idle /\ call'[d].pc \in Past
          /\ call'[d].call = call[d].call /\ call'[d].token = call[d].token
    BY <1>3, <1>4, <1>5, FrameFacts DEF Past
  <2> QED BY <1>2, <2>1 DEF IInv, ClaimsAreAttended, Past
<1> QED BY <1>7, <1>8, <1>9, <1>10, <1>11, <1>12 DEF IInv

\* A dispatch is interrupted.
LEMMA InterruptingKeepsIInv ==
  ASSUME IInv, NEW c \in Callers, interrupt(c)
  PROVE  IInv'
<1>1. TypeOK /\ call[c] # Idle /\ call[c] \in Frame /\ call[c].call.id \in Ids
  BY FrameFacts DEF IInv, TypeOK, interrupt
<1>2. /\ stranded' = IF call[c].pc \in Past THEN stranded \cup {call[c].call.id} ELSE stranded
      /\ UNCHANGED <<rows, minted, dispatchers, built, lease, leases, entered, acted, parked>>
  BY DEF interrupt, config, Past
<1>3. /\ call' \in [Callers -> Frame \cup {Idle}]
      /\ call'[c] = Idle
      /\ \A d \in Callers \ {c} : call'[d] = call[d]
  BY <1>1, CallerGoes DEF interrupt, Raises
<1>4. TypeOK'
  BY <1>1, <1>2, <1>3 DEF TypeOK
<1>5. \A d \in Callers : call'[d].pc \in Asked \cup Past => call'[d] = call[d]
  BY <1>3, FrameFacts
<1>6. RowsDescribe' /\ ClaimersAreAlone'
  BY <1>2, <1>5 DEF IInv, RowsDescribe, ClaimersAreAlone
<1>7. ClaimersOwn'
  BY <1>2, <1>5 DEF IInv, ClaimersOwn, Owns
<1>8. /\ ExecutedWasClaimed' /\ ParkedIsNoted' /\ BodyMatchesRow' /\ ParkedNeedsApproval'
  BY <1>2 DEF IInv, ExecutedWasClaimed, ParkedIsNoted, BodyMatchesRow, ParkedNeedsApproval
<1>9. ClaimsAreAttended'
  BY <1>1, <1>2, <1>3 DEF IInv, ClaimsAreAttended, Past
<1> QED BY <1>4, <1>6, <1>7, <1>8, <1>9 DEF IInv

----------------------------------------------------------------------------
(* The other steps. *)

LEMMA SameRowsStay == UNCHANGED rows => ClaimedStay
BY DEF ClaimedStay

LEMMA AppendingStays ==
  ASSUME TypeOK, NEW r \in Runs, NEW k \in Calls, rows' = Appended(r, k)
  PROVE  RowsTyped' /\ ClaimedStay
<1>1. CASE rows[k.id] # NoRow
  BY <1>1, SameRows, SameRowsStay DEF Appended
<1>2. CASE rows[k.id] = NoRow
  <2> DEFINE row == [run |-> r, tool |-> k.tool, args |-> k.args,
                     status |-> "intended", token |-> None]
  <2>1. k.id \in Ids /\ k.tool \in Tools /\ k.args \in Args
    BY CallsAreCalls DEF Args
  <2>2. row \in Row /\ row.status = "intended" /\ row.token = None
    BY <2>1 DEF Row, Unclaimed
  <2>3. rows' = [rows EXCEPT ![k.id] = row]
    BY <1>2 DEF Appended
  <2> HIDE DEF row
  <2>4. /\ rows' \in [Ids -> Row \cup {NoRow}]
        /\ rows'[k.id] = row
        /\ \A j \in Ids \ {k.id} : rows'[j] = rows[j]
    BY <2>1, <2>2, <2>3 DEF TypeOK
  <2>5. RowsTyped'
    BY <2>2, <2>4 DEF RowsTyped, TypeOK, Claimed
  <2>6. ClaimedStay
    BY <1>2, <2>2, <2>4, FrameFacts DEF ClaimedStay, Claimed
  <2> QED BY <2>5, <2>6
<1> QED BY <1>1, <1>2

\* A row that was not claimed gets a status without a claim.
LEMMA RefusingStays ==
  ASSUME TypeOK, NEW i \in Ids, Refusable(i),
         NEW s \in {"awaiting_approval", "denied", "abandoned"}, SetStatus(i, s)
  PROVE  /\ RowsTyped' /\ ClaimedStay
         /\ rows'[i].status = s
<1>1. rows[i] # NoRow /\ rows[i].status \in Unclaimed /\ rows[i].status \notin Claimed
  BY FrameFacts DEF Refusable, Unclaimed, Claimed
<1>2. rows[i].token = None
  BY <1>1 DEF TypeOK
<1>3. s \in Unclaimed \cup Claimed /\ s \notin Claimed \cup {"none", "intended"}
  BY DEF Unclaimed, Claimed
<1>4. /\ RowsTyped'
      /\ rows'[i].status = s /\ rows'[i].run = rows[i].run /\ rows'[i].tool = rows[i].tool
      /\ rows'[i].args = rows[i].args /\ rows'[i].token = rows[i].token
      /\ \A j \in Ids \ {i} : rows'[j] = rows[j]
  BY <1>1, <1>2, <1>3, StatusChanges DEF SetStatus
<1>5. ClaimedStay
  BY <1>1, <1>3, <1>4 DEF ClaimedStay
<1> QED BY <1>4, <1>5

LEMMA ParkedAsBefore == parked' = parked => ParkedWhenIntended
BY DEF ParkedWhenIntended

\* A caller that is not past a claim goes on.
LEMMA CallerStays ==
  ASSUME TypeOK, NEW c \in Callers, call[c].pc \notin Past,
         NEW g \in Frame \cup {Idle}, Goes(c, g), g.pc \notin Past,
         g.pc \in Asked => Describes(rows'[g.call.id], g.run, g.call)
  PROVE  ClaimersStay /\ call' \in [Callers -> Frame \cup {Idle}]
BY CallerGoes DEF ClaimersStay

LEMMA CallerLeaves ==
  ASSUME TypeOK, NEW c \in Callers, call[c].pc \notin Past, Raises(c)
  PROVE  ClaimersStay /\ call' \in [Callers -> Frame \cup {Idle}]
BY CallerStays, FrameFacts DEF Raises

LEMMA CallerReturnsBefore ==
  ASSUME TypeOK, NEW c \in Callers, call[c].pc \notin Past, call[c] \in Frame, Returns(c)
  PROVE  ClaimersStay /\ call' \in [Callers -> Frame \cup {Idle}]
BY CallerReturns, CallerStays

LEMMA BuildingKeepsIInv ==
  ASSUME IInv,
         \/ \E h \in Harnesses, t \in Tools, b \in Impls : register(h, t, b)
         \/ \E h \in Harnesses : build(h)
         \/ \E h \in Harnesses, r \in Runs : run_lease_expires(h, r)
  PROVE  IInv'
<1>1. UNCHANGED <<rows, minted, lease, call, entered, acted, parked, stranded>>
  BY DEF register, build, run_lease_expires, config, history
<1>2. ClaimedStay /\ ClaimersStay /\ ParkedWhenIntended
  BY <1>1 DEF ClaimedStay, ClaimersStay, ParkedWhenIntended
<1>3. BodiesStay /\ dispatchers' \in [Harnesses -> [Tools -> Impls \cup {None}]]
  <2>1. CASE \E h \in Harnesses, t \in Tools, b \in Impls : register(h, t, b)
    BY <2>1 DEF register, BodiesStay, IInv, TypeOK
  <2>2. CASE dispatchers' = dispatchers
    BY <2>2 DEF BodiesStay, IInv, TypeOK
  <2> QED BY <2>1, <2>2 DEF build, run_lease_expires, config
<1>4. /\ built' \in SUBSET Harnesses
      /\ leases' \in [Harnesses -> [Runs -> {"none", "valid", "expired"}]]
  <2>1. /\ built \in SUBSET Harnesses
        /\ leases \in [Harnesses -> [Runs -> {"none", "valid", "expired"}]]
    BY DEF IInv, TypeOK
  <2>2. ASSUME NEW h \in Harnesses, NEW t \in Tools, NEW b \in Impls, register(h, t, b)
        PROVE  built' = built /\ leases' = leases
    BY <2>2 DEF register
  <2>3. ASSUME NEW h \in Harnesses, build(h)
        PROVE  built' \in SUBSET Harnesses /\ leases' = leases
    BY <2>1, <2>3 DEF build
  <2>4. ASSUME NEW h \in Harnesses, NEW r \in Runs, run_lease_expires(h, r)
        PROVE  /\ built' = built
               /\ leases' \in [Harnesses -> [Runs -> {"none", "valid", "expired"}]]
    BY <2>1, <2>4 DEF run_lease_expires, config
  <2> QED BY <2>1, <2>2, <2>3, <2>4
<1>5. TypeOK'
  BY <1>1, <1>3, <1>4 DEF IInv, TypeOK
<1> QED BY <1>1, <1>2, <1>3, <1>5, BeforeAClaim

LEMMA BodiesAsBefore == UNCHANGED dispatchers => BodiesStay
BY DEF BodiesStay

LEMMA IntendKeepsIInv ==
  ASSUME IInv, NEW r \in Runs, NEW k \in Calls, intend(r, k)
  PROVE  IInv'
<1>1. RowsTyped' /\ ClaimedStay
  BY AppendingStays DEF IInv, intend
<1>2. UNCHANGED <<minted, dispatchers, built, lease, leases, call, entered, acted, parked, stranded>>
  BY DEF intend, config, history
<1>3. TypeOK'
  BY <1>1, <1>2 DEF IInv, TypeOK, RowsTyped
<1>4. ClaimersStay /\ ParkedWhenIntended /\ BodiesStay
  BY <1>2 DEF ClaimersStay, ParkedWhenIntended, BodiesStay
<1> QED BY <1>1, <1>2, <1>3, <1>4, BeforeAClaim

LEMMA ResolveKeepsIInv ==
  ASSUME IInv, NEW c \in Callers, NEW h \in Harnesses, NEW turn \in Turns,
         resolve(c, h, turn[1], turn[2])
  PROVE  IInv'
<1> DEFINE g == [pc |-> "intend", harness |-> h, run |-> turn[1], call |-> Head(turn[2]),
                 rest |-> Tail(turn[2]), approved |-> FALSE, impl |-> None, token |-> None]
<1>1. turn[1] \in Runs /\ turn[2] \in Seq(Calls) \ {<<>>}
  BY TurnsAreCalls
<1>2. Head(turn[2]) \in Calls /\ Tail(turn[2]) \in Seq(Calls)
  BY <1>1
<1>3. g \in Frame /\ g.pc = "intend"
  BY <1>1, <1>2 DEF Frame
<1>4. Goes(c, g) /\ call[c] = Idle
  BY DEF resolve
<1> HIDE DEF g
<1>5. UNCHANGED <<rows, minted, dispatchers, built, lease, leases, entered, acted, parked, stranded>>
  BY DEF resolve, config, history
<1>6. ClaimersStay /\ call' \in [Callers -> Frame \cup {Idle}]
  BY <1>3, <1>4, FrameFacts, CallerStays DEF IInv, Asked, Past
<1>7. TypeOK'
  BY <1>5, <1>6 DEF IInv, TypeOK
<1> QED BY <1>5, <1>6, <1>7, BeforeAClaim, SameRowsStay, ParkedAsBefore, BodiesAsBefore

LEMMA NextCallKeepsIInv ==
  ASSUME IInv, NEW c \in Callers, next_call(c)
  PROVE  IInv'
<1> DEFINE f == call[c]
           g == [f EXCEPT !.pc = "policy"]
<1>1. TypeOK /\ f.pc = "intend" /\ f \in Frame
  BY DEF IInv, next_call, TypeOK, Idle
<1>2. f.run \in Runs /\ f.call \in Calls /\ f.pc \notin Past
  BY <1>1 DEF Frame, Past
<1>3. RowsTyped' /\ ClaimedStay
  BY <1>1, <1>2, AppendingStays DEF next_call
<1>4. UNCHANGED <<minted, dispatchers, built, lease, leases, entered, acted, parked, stranded>>
  BY DEF next_call, config, history
<1>5. ClaimersStay /\ call' \in [Callers -> Frame \cup {Idle}]
  <2>1. CASE Describes(rows'[f.call.id], f.run, f.call)
    <3>1. g \in Frame /\ g.pc = "policy" /\ g.call = f.call /\ g.run = f.run
      BY <1>1 DEF Frame
    <3>2. Goes(c, g)
      BY <2>1 DEF next_call
    <3> HIDE DEF g
    <3>3. g.pc \notin Past
      BY <3>1 DEF Past
    <3> QED BY <1>1, <1>2, <2>1, <3>1, <3>2, <3>3, CallerStays
  <2>2. CASE ~Describes(rows'[f.call.id], f.run, f.call)
    BY <1>1, <1>2, <2>2, CallerLeaves DEF next_call
  <2> QED BY <2>1, <2>2
<1>6. TypeOK'
  BY <1>1, <1>3, <1>4, <1>5 DEF TypeOK, RowsTyped
<1> QED BY <1>3, <1>4, <1>5, <1>6, BeforeAClaim, ParkedAsBefore, BodiesAsBefore

LEMMA DispatchKeepsIInv ==
  ASSUME IInv, NEW c \in Callers, NEW h \in Harnesses, NEW r \in Runs, NEW k \in Calls,
         NEW approved \in BOOLEAN, dispatch(c, h, r, k, approved)
  PROVE  IInv'
<1> DEFINE g == [pc |-> IF approved THEN "claim" ELSE "policy", harness |-> h, run |-> r,
                 call |-> k, rest |-> <<>>, approved |-> approved,
                 impl |-> None, token |-> None]
<1>1. g \in Frame /\ g.pc \in {"claim", "policy"} /\ g.call = k /\ g.run = r
  BY DEF Frame
<1>2. Goes(c, g) /\ call[c] = Idle /\ Describes(rows[k.id], r, k)
  BY DEF dispatch
<1> HIDE DEF g
<1>3. UNCHANGED <<rows, minted, dispatchers, built, lease, leases, entered, acted, parked, stranded>>
  BY DEF dispatch, config, history
<1>4. g.pc \notin Past /\ Describes(rows'[g.call.id], g.run, g.call)
  BY <1>1, <1>2, <1>3 DEF Past
<1>5. ClaimersStay /\ call' \in [Callers -> Frame \cup {Idle}]
  BY <1>1, <1>2, <1>4, FrameFacts, CallerStays DEF IInv
<1>6. TypeOK'
  BY <1>3, <1>5 DEF IInv, TypeOK
<1> QED BY <1>3, <1>5, <1>6, BeforeAClaim, SameRowsStay, ParkedAsBefore, BodiesAsBefore

LEMMA RefuseKeepsIInv ==
  ASSUME IInv, NEW i \in Ids, NEW s \in {"denied", "abandoned"}, refuse(i, s)
  PROVE  IInv'
<1>1. RowsTyped' /\ ClaimedStay
  BY RefusingStays DEF IInv, refuse
<1>2. UNCHANGED <<minted, dispatchers, built, lease, leases, call, entered, acted, parked, stranded>>
  BY DEF refuse, config, history
<1>3. TypeOK'
  BY <1>1, <1>2 DEF IInv, TypeOK, RowsTyped
<1>4. ClaimersStay
  BY <1>2 DEF ClaimersStay
<1> QED BY <1>1, <1>2, <1>3, <1>4, BeforeAClaim, ParkedAsBefore, BodiesAsBefore

LEMMA PolicyKeepsIInv ==
  ASSUME IInv, NEW c \in Callers, NEW verdict, policy_answers(c, verdict)
  PROVE  IInv'
<1> DEFINE f == call[c]
           i == call[c].call.id
<1>1. /\ TypeOK /\ f.pc = "policy" /\ f \in Frame /\ i \in Ids /\ f.pc \notin Past
  BY FrameFacts DEF IInv, policy_answers, Asked, Past
<1>2. UNCHANGED <<minted, dispatchers, built, lease, leases, entered, acted, stranded>>
  BY DEF policy_answers, config
<1>3. ASSUME RowsTyped', ClaimedStay, ParkedWhenIntended, parked' \in SUBSET Ids,
             ClaimersStay, call' \in [Callers -> Frame \cup {Idle}]
      PROVE  IInv'
  <2>1. TypeOK'
    BY <1>1, <1>2, <1>3 DEF TypeOK, RowsTyped
  <2> QED BY <1>2, <1>3, <2>1, BeforeAClaim, BodiesAsBefore
<1>4. parked \in SUBSET Ids
  BY <1>1 DEF TypeOK
<1>5. CASE /\ verdict = "allow"
           /\ Goes(c, [f EXCEPT !.pc = "claim"])
           /\ UNCHANGED <<rows, parked>>
  <2> DEFINE g == [f EXCEPT !.pc = "claim"]
  <2>1. g \in Frame /\ g.pc = "claim" /\ g.call = f.call /\ g.run = f.run
    BY <1>1 DEF Frame
  <2>2. Describes(rows'[f.call.id], f.run, f.call)
    BY <1>1, <1>5 DEF IInv, RowsDescribe, Asked
  <2>3. Goes(c, g)
    BY <1>5
  <2> HIDE DEF g
  <2>4. g.pc \notin Past
    BY <2>1 DEF Past
  <2>5. ClaimersStay /\ call' \in [Callers -> Frame \cup {Idle}]
    BY <1>1, <2>1, <2>2, <2>3, <2>4, CallerStays
  <2> QED BY <1>1, <1>3, <1>4, <1>5, <2>5, SameRows, SameRowsStay, ParkedAsBefore
<1>6. CASE /\ verdict = "require_approval" /\ rows[i].status = "intended"
           /\ SetStatus(i, "awaiting_approval")
           /\ parked' = parked \cup {i}
           /\ Returns(c)
  <2>1. RowsTyped' /\ ClaimedStay /\ rows'[i].status = "awaiting_approval"
    BY <1>1, <1>6, RefusingStays DEF Refusable
  <2>2. ParkedWhenIntended
    BY <1>6, <2>1 DEF ParkedWhenIntended
  <2> QED BY <1>1, <1>3, <1>4, <1>6, <2>1, <2>2, CallerReturnsBefore
<1>7. CASE /\ verdict = "deny" /\ Refusable(i)
           /\ SetStatus(i, "denied")
           /\ Returns(c)
           /\ UNCHANGED parked
  <2>1. RowsTyped' /\ ClaimedStay
    BY <1>1, <1>7, RefusingStays
  <2> QED BY <1>1, <1>3, <1>4, <1>7, <2>1, CallerReturnsBefore, ParkedAsBefore
<1>8. CASE Raises(c) /\ UNCHANGED <<rows, parked>>
  BY <1>1, <1>3, <1>4, <1>8, CallerLeaves, SameRows, SameRowsStay, ParkedAsBefore
<1> QED BY <1>5, <1>6, <1>7, <1>8 DEF policy_answers

\* A claim that is refused.
LEMMA ClaimRefusedKeepsIInv ==
  ASSUME IInv, NEW c \in Callers, claim(c), call'[c].pc \notin Past
  PROVE  IInv'
<1> DEFINE f == call[c]
           i == call[c].call.id
           impl == dispatchers[call[c].harness][call[c].call.tool]
<1>1. /\ TypeOK /\ f.pc = "claim" /\ f \in Frame /\ i \in Ids /\ f.pc \notin Past
      /\ f.harness \in Harnesses /\ f.run \in Runs
  BY FrameFacts DEF IInv, claim, Asked, Past
<1>2. UNCHANGED <<dispatchers, built, lease, entered, acted, parked, stranded>>
  BY DEF claim, config, history
<1>3. Raises(c)
  <2>1. CASE call' = [call EXCEPT ![c] = [f EXCEPT !.pc = "bind", !.impl = impl, !.token = minted']]
    <3>1. call'[c] = [f EXCEPT !.pc = "bind", !.impl = impl, !.token = minted']
      BY <1>1, <2>1 DEF TypeOK
    <3>2. call'[c].pc = "bind"
      BY <1>1, <3>1 DEF Frame
    <3> QED BY <3>2 DEF Past
  <2> QED BY <2>1 DEF claim, Goes
<1>4. ClaimersStay /\ call' \in [Callers -> Frame \cup {Idle}]
  BY <1>1, <1>3, CallerLeaves
<1>5. \/ Refusable(i) /\ SetStatus(i, "abandoned") /\ UNCHANGED <<minted, leases>>
      \/ UNCHANGED <<rows, minted>> /\ leases' = LeasesFor(f.harness, f.run)
      \/ UNCHANGED <<rows, minted, leases>>
  <2>1. CASE impl = None
    BY <2>1 DEF claim
  <2>2. CASE impl # None
    <3>1. ~Goes(c, [f EXCEPT !.pc = "bind", !.impl = impl, !.token = minted'])
      <4>1. [f EXCEPT !.pc = "bind", !.impl = impl, !.token = minted'].pc = "bind"
        BY <1>1 DEF Frame
      <4>2. call'[c] = Idle
        BY <1>1, <1>3, CallerGoes DEF Raises
      <4>3. Idle.pc = "idle"
        BY DEF Idle
      <4> QED BY <1>1, <4>1, <4>2, <4>3 DEF Goes, TypeOK
    <3> QED BY <2>2, <3>1 DEF claim
  <2> QED BY <2>1, <2>2
<1>6. minted' \in Nat /\ leases' \in [Harnesses -> [Runs -> {"none", "valid", "expired"}]]
  <2>1. minted \in Nat /\ leases \in [Harnesses -> [Runs -> {"none", "valid", "expired"}]]
    BY <1>1 DEF TypeOK
  <2>2. LeasesFor(f.harness, f.run) \in [Harnesses -> [Runs -> {"none", "valid", "expired"}]]
    BY <1>1, <2>1 DEF LeasesFor
  <2> QED BY <1>5, <2>1, <2>2
<1>7. RowsTyped' /\ ClaimedStay
  BY <1>1, <1>5, RefusingStays, SameRows, SameRowsStay
<1>8. TypeOK'
  BY <1>1, <1>2, <1>4, <1>6, <1>7 DEF TypeOK, RowsTyped
<1> QED BY <1>2, <1>4, <1>7, <1>8, BeforeAClaim, ParkedAsBefore, BodiesAsBefore

LEMMA SettlementKeepsIInv ==
  ASSUME IInv, NEW c \in Callers,
         arguments_refused(c) \/ impl_returns(c) \/ impl_raises(c)
  PROVE  IInv'
<1>1. call[c].pc \in Past /\ TypeOK /\ call[c] \in Frame
  BY FrameFacts DEF IInv, Past, arguments_refused, impl_returns, impl_raises
<1>2. CASE arguments_refused(c)
  BY <1>1, <1>2, SettlingKeepsIInv, FrameFacts DEF arguments_refused, Raises
<1>3. CASE impl_raises(c)
  BY <1>1, <1>3, SettlingKeepsIInv, FrameFacts DEF impl_raises, AfterRaise, Raises
<1>4. CASE impl_returns(c)
  <2>1. MaySettle(call[c])
    BY <1>1 DEF IInv, ClaimersOwn, Owns, MaySettle
  <2>2. PICK g \in Frame \cup {Idle} : Goes(c, g) /\ g.pc \notin Asked \cup Past
    BY <1>1, <1>4, <2>1, CallerReturns DEF impl_returns
  <2> QED BY <1>1, <1>4, <2>2, SettlingKeepsIInv DEF impl_returns
<1> QED BY <1>2, <1>3, <1>4

LEMMA NextKeepsIInv == IInv /\ [Next]_vars => IInv'
<1> SUFFICES ASSUME IInv, [Next]_vars PROVE IInv'
  OBVIOUS
<1>1. CASE \/ \E h \in Harnesses, t \in Tools, b \in Impls : register(h, t, b)
           \/ \E h \in Harnesses : build(h)
           \/ \E h \in Harnesses, r \in Runs : run_lease_expires(h, r)
  BY <1>1, BuildingKeepsIInv
<1>2. ASSUME NEW request \in Requests, intend(request[1], request[2]) PROVE IInv'
  BY <1>2, IntendKeepsIInv, RequestsAreCalls
<1>3. ASSUME NEW c \in Callers, NEW h \in Harnesses, NEW turn \in Turns,
             resolve(c, h, turn[1], turn[2])
      PROVE  IInv'
  BY <1>3, ResolveKeepsIInv
<1>4. ASSUME NEW c \in Callers, NEW h \in Harnesses, NEW request \in Requests,
             NEW approved \in BOOLEAN, dispatch(c, h, request[1], request[2], approved)
      PROVE  IInv'
  <2>1. request[1] \in Runs /\ request[2] \in Calls
    BY RequestsAreCalls
  <2> QED BY <1>4, <2>1, DispatchKeepsIInv
<1>5. ASSUME NEW i \in Ids, NEW s \in {"denied", "abandoned"}, refuse(i, s) PROVE IInv'
  BY <1>5, RefuseKeepsIInv
<1>6. ASSUME NEW c \in Callers, NEW verdict, policy_answers(c, verdict) PROVE IInv'
  BY <1>6, PolicyKeepsIInv
<1>7. ASSUME NEW c \in Callers, next_call(c) PROVE IInv'
  BY <1>7, NextCallKeepsIInv
<1>8. ASSUME NEW c \in Callers, claim(c) PROVE IInv'
  BY <1>8, ClaimingKeepsIInv, ClaimRefusedKeepsIInv
<1>9. ASSUME NEW c \in Callers, enter_impl(c) \/ impl_acts(c) \/ interrupt(c) PROVE IInv'
  BY <1>9, EnteringKeepsIInv, ActingKeepsIInv, InterruptingKeepsIInv
<1>10. ASSUME NEW c \in Callers, arguments_refused(c) \/ impl_returns(c) \/ impl_raises(c)
       PROVE  IInv'
  BY <1>10, SettlementKeepsIInv
<1>11. CASE UNCHANGED vars
  <2>1. UNCHANGED <<rows, minted, dispatchers, built, lease, leases, call,
                    entered, acted, parked, stranded>>
    BY <1>11 DEF vars
  <2>2. TypeOK'
    BY <2>1 DEF IInv, TypeOK
  <2> QED BY <2>1, <2>2, BeforeAClaim DEF ClaimedStay, ClaimersStay, ParkedWhenIntended, BodiesStay
<1> QED BY <1>1, <1>2, <1>3, <1>4, <1>5, <1>6, <1>7, <1>8, <1>9, <1>10, <1>11 DEF Next

LEMMA IInvHolds == Spec => []IInv
BY InitHasIInv, NextKeepsIInv, PTL DEF Spec

----------------------------------------------------------------------------
(* What it is for. *)

\* The type invariant: the ledger's rows, its CHECK constraints included, the callers'
\* frames and what was executed hold what their types say.
THEOREM TypeCorrect == Spec => []TypeOK
BY IInvHolds, PTL DEF IInv

\* A body that ran has a ledger row for exactly that call, and ran once: the claim that
\* made the row its caller's was possible once only (harness.py:667, 708).
THEOREM NoBodyWithoutItsRow == Spec => []BodyMatchesRow
BY IInvHolds, PTL DEF IInv

\* What any policy has put to a human runs on his word only, whatever another caller's
\* policy had answered before (harness.py:689).
THEOREM ParkedWaitsForItsApproval == Spec => []ParkedNeedsApproval
BY IInvHolds, PTL DEF IInv

\* No claim is left behind but by an interruption: a claimed row has the caller that
\* claimed it, with its token, still at work (harness.py:708-768).
THEOREM ClaimsAreNeverLeft == Spec => []ClaimsAreAttended
BY IInvHolds, PTL DEF IInv

----------------------------------------------------------------------------
(* ToolHarness implements EffectPromise. *)

\* Nothing acts before it is entered, and a body acts once.
Attempts ==
  /\ \A i \in Ids : entered[i] = <<>> => acted[i] = 0
  /\ \A c \in Callers :
       /\ call[c].pc = "body" => entered[call[c].call.id] # <<>> /\ acted[call[c].call.id] = 0
       /\ call[c].pc = "acted" => entered[call[c].call.id] # <<>> /\ acted[call[c].call.id] = 1

\* The callers that execute a body have entered it before.
NobodyEnters ==
  \A c \in Callers : call'[c].pc \in {"body", "acted"} => call'[c] = call[c]

LEMMA GoesElsewhere ==
  ASSUME TypeOK, NEW c \in Callers, NEW g, Goes(c, g), g.pc \notin {"body", "acted"}
  PROVE  NobodyEnters
BY DEF TypeOK, Goes, NobodyEnters

LEMMA ReturnsElsewhere ==
  ASSUME TypeOK, NEW c \in Callers, call[c] \in Frame, Returns(c)
  PROVE  NobodyEnters
<1>1. PICK g \in Frame \cup {Idle} : Goes(c, g) /\ g.pc \notin Asked \cup Past
  BY CallerReturns
<1> QED BY <1>1, GoesElsewhere DEF Past

LEMMA RaisesElsewhere ==
  ASSUME TypeOK, NEW c \in Callers, Raises(c)
  PROVE  NobodyEnters
BY GoesElsewhere, FrameFacts DEF Raises, Past

LEMMA OthersEnterNothing ==
  ASSUME IInv, [Next]_vars,
         ~\E c \in Callers : enter_impl(c) \/ impl_acts(c)
  PROVE  NobodyEnters /\ UNCHANGED <<entered, acted>>
<1>1. TypeOK /\ \A c \in Callers : call[c] # Idle => call[c] \in Frame
  BY DEF IInv, TypeOK
<1>2. \A c \in Callers : call[c].pc # "idle" => call[c] # Idle
  BY DEF Idle
<1>3. CASE UNCHANGED <<call, entered, acted>>
  BY <1>3 DEF NobodyEnters
<1>4. ASSUME NEW c \in Callers, NEW h \in Harnesses, NEW r, NEW turn, resolve(c, h, r, turn)
      PROVE  NobodyEnters /\ UNCHANGED <<entered, acted>>
  BY <1>1, <1>4, GoesElsewhere DEF resolve, history
<1>5. ASSUME NEW c \in Callers, NEW h \in Harnesses, NEW r, NEW k, NEW approved \in BOOLEAN,
             dispatch(c, h, r, k, approved)
      PROVE  NobodyEnters /\ UNCHANGED <<entered, acted>>
  BY <1>1, <1>5, GoesElsewhere DEF dispatch, history
<1>6. ASSUME NEW c \in Callers, NEW verdict, policy_answers(c, verdict)
      PROVE  NobodyEnters /\ UNCHANGED <<entered, acted>>
  <2>1. call[c] \in Frame
    BY <1>1, <1>2, <1>6 DEF policy_answers
  <2>2. [call[c] EXCEPT !.pc = "claim"].pc = "claim"
    BY <2>1 DEF Frame
  <2>3. CASE Goes(c, [call[c] EXCEPT !.pc = "claim"])
    BY <1>1, <1>6, <2>2, <2>3, GoesElsewhere DEF policy_answers
  <2>4. CASE Returns(c) \/ Raises(c)
    BY <1>1, <1>6, <2>1, <2>4, ReturnsElsewhere, RaisesElsewhere DEF policy_answers
  <2> QED BY <1>6, <2>3, <2>4 DEF policy_answers
<1>7. ASSUME NEW c \in Callers, next_call(c)
      PROVE  NobodyEnters /\ UNCHANGED <<entered, acted>>
  <2>1. call[c] \in Frame
    BY <1>1, <1>2, <1>7 DEF next_call
  <2>2. [call[c] EXCEPT !.pc = "policy"].pc = "policy"
    BY <2>1 DEF Frame
  <2> QED BY <1>1, <1>7, <2>2, GoesElsewhere, RaisesElsewhere DEF next_call, history
<1>8. ASSUME NEW c \in Callers, claim(c)
      PROVE  NobodyEnters /\ UNCHANGED <<entered, acted>>
  <2> DEFINE impl == dispatchers[call[c].harness][call[c].call.tool]
             g == [call[c] EXCEPT !.pc = "bind", !.impl = impl, !.token = minted']
  <2>1. call[c] \in Frame
    BY <1>1, <1>2, <1>8 DEF claim
  <2>2. g.pc = "bind"
    BY <2>1 DEF Frame
  <2>3. Goes(c, g) \/ Raises(c)
    BY <1>8 DEF claim
  <2>4. UNCHANGED <<entered, acted>>
    BY <1>8 DEF claim, history
  <2> HIDE DEF g
  <2> QED BY <1>1, <2>2, <2>3, <2>4, GoesElsewhere, RaisesElsewhere
<1>9. ASSUME NEW c \in Callers,
             \/ arguments_refused(c) \/ impl_returns(c) \/ impl_raises(c) \/ interrupt(c)
      PROVE  NobodyEnters /\ UNCHANGED <<entered, acted>>
  <2>1. call[c] \in Frame
    BY <1>1, <1>2, <1>9 DEF arguments_refused, impl_returns, impl_raises, interrupt
  <2>2. Returns(c) \/ Raises(c)
    BY <1>9 DEF arguments_refused, impl_returns, impl_raises, interrupt
  <2>3. UNCHANGED <<entered, acted>>
    BY <1>9 DEF arguments_refused, impl_returns, impl_raises, interrupt, history
  <2> QED BY <1>1, <2>1, <2>2, <2>3, ReturnsElsewhere, RaisesElsewhere
<1>10. ASSUME \/ \E h \in Harnesses, t \in Tools, b \in Impls : register(h, t, b)
              \/ \E h \in Harnesses : build(h)
              \/ \E h \in Harnesses, r \in Runs : run_lease_expires(h, r)
              \/ \E request \in Requests : intend(request[1], request[2])
              \/ \E i \in Ids, s \in {"denied", "abandoned"} : refuse(i, s)
       PROVE  UNCHANGED <<call, entered, acted>>
  BY <1>10 DEF register, build, run_lease_expires, intend, refuse, history
<1>11. CASE UNCHANGED vars
  BY <1>3, <1>11 DEF vars
<1>12. CASE Next
  <2>1. CASE \E c \in Callers, h \in Harnesses, turn \in Turns : resolve(c, h, turn[1], turn[2])
    BY <1>4, <2>1
  <2>2. CASE \E c \in Callers, h \in Harnesses, request \in Requests, approved \in BOOLEAN :
               dispatch(c, h, request[1], request[2], approved)
    BY <1>5, <2>2
  <2>3. CASE \E c \in Callers, verdict \in Verdicts \cup {"invalid"} : policy_answers(c, verdict)
    BY <1>6, <2>3
  <2>4. CASE \E c \in Callers :
               \/ next_call(c) \/ claim(c) \/ arguments_refused(c)
               \/ impl_returns(c) \/ impl_raises(c) \/ interrupt(c)
    BY <1>7, <1>8, <1>9, <2>4
  <2> QED BY <1>3, <1>10, <1>12, <2>1, <2>2, <2>3, <2>4 DEF Next
<1> QED BY <1>11, <1>12

LEMMA AttemptsKept == IInv /\ Attempts /\ [Next]_vars => Attempts'
<1> SUFFICES ASSUME IInv, Attempts, [Next]_vars PROVE Attempts'
  OBVIOUS
<1>1. CASE ~\E c \in Callers : enter_impl(c) \/ impl_acts(c)
  BY <1>1, OthersEnterNothing DEF Attempts, NobodyEnters
<1>2. ASSUME NEW c \in Callers, enter_impl(c) PROVE Attempts'
  <2> DEFINE f == call[c]
             e == [harness |-> f.harness, run |-> f.run, call |-> f.call,
                   impl |-> f.impl, approved |-> f.approved]
  <2>1. /\ TypeOK /\ f.pc = "bind" /\ f \in Frame /\ f.call.id \in Ids
        /\ entered[f.call.id] = <<>>
    BY <1>2, FrameFacts DEF IInv, enter_impl, Past, ClaimersOwn, Owns
  <2>2. /\ entered' = [entered EXCEPT ![f.call.id] = Append(entered[f.call.id], e)]
        /\ call' = [call EXCEPT ![c] = [f EXCEPT !.pc = "body"]]
        /\ acted' = acted
    BY <1>2 DEF enter_impl, Goes
  <2> HIDE DEF e
  <2>3. /\ entered'[f.call.id] = Append(entered[f.call.id], e)
        /\ \A j \in Ids \ {f.call.id} : entered'[j] = entered[j]
    BY <2>1, <2>2 DEF TypeOK
  <2>4. entered'[f.call.id] # <<>>
    BY <2>1, <2>3
  <2>5. /\ call'[c].pc = "body" /\ call'[c].call = f.call
        /\ \A d \in Callers \ {c} : call'[d] = call[d]
    BY <2>1, <2>2 DEF TypeOK, Frame
  <2>6. \A d \in Callers \ {c} : call[d].pc \in Past => call[d].call.id \in Ids \ {f.call.id}
    BY <2>1, FrameFacts DEF IInv, ClaimersAreAlone, Past
  <2>7. ASSUME NEW d \in Callers
        PROVE  /\ call'[d].pc = "body" =>
                    entered'[call'[d].call.id] # <<>> /\ acted[call'[d].call.id] = 0
               /\ call'[d].pc = "acted" =>
                    entered'[call'[d].call.id] # <<>> /\ acted[call'[d].call.id] = 1
    <3>1. CASE d = c
      BY <2>1, <2>4, <2>5, <3>1 DEF Attempts
    <3>2. CASE d # c
      BY <2>3, <2>5, <2>6, <3>2 DEF Attempts, Past
    <3> QED BY <3>1, <3>2
  <2> QED BY <2>2, <2>3, <2>4, <2>7 DEF Attempts
<1>3. ASSUME NEW c \in Callers, impl_acts(c) PROVE Attempts'
  <2> DEFINE i == call[c].call.id
  <2>1. /\ TypeOK /\ call[c].pc = "body" /\ call[c] \in Frame /\ i \in Ids
        /\ entered[i] # <<>> /\ acted[i] = 0
    BY <1>3, FrameFacts DEF IInv, impl_acts, Past, Attempts
  <2>2. /\ acted' = [acted EXCEPT ![i] = acted[i] + 1]
        /\ call' = [call EXCEPT ![c] = [call[c] EXCEPT !.pc = "acted"]]
        /\ entered' = entered
    BY <1>3 DEF impl_acts, Goes
  <2>3. acted'[i] = 1 /\ \A j \in Ids \ {i} : acted'[j] = acted[j]
    BY <2>1, <2>2 DEF TypeOK
  <2>4. /\ call'[c].pc = "acted" /\ call'[c].call = call[c].call
        /\ \A d \in Callers \ {c} : call'[d] = call[d]
    BY <2>1, <2>2 DEF TypeOK, Frame
  <2>5. \A d \in Callers \ {c} : call[d].pc \in Past => call[d].call.id \in Ids \ {i}
    BY <2>1, FrameFacts DEF IInv, ClaimersAreAlone, Past
  <2>6. ASSUME NEW d \in Callers
        PROVE  /\ call'[d].pc = "body" =>
                    entered[call'[d].call.id] # <<>> /\ acted'[call'[d].call.id] = 0
               /\ call'[d].pc = "acted" =>
                    entered[call'[d].call.id] # <<>> /\ acted'[call'[d].call.id] = 1
    <3>1. CASE d = c
      BY <2>1, <2>3, <2>4, <3>1
    <3>2. CASE d # c
      BY <2>3, <2>4, <2>5, <3>2 DEF Attempts, Past
    <3> QED BY <3>1, <3>2
  <2> QED BY <2>1, <2>2, <2>3, <2>6 DEF Attempts
<1> QED BY <1>1, <1>2, <1>3

LEMMA InitAttempts == Init => Attempts
<1> SUFFICES ASSUME Init PROVE Attempts
  OBVIOUS
<1>1. \A c \in Callers : call[c].pc = "idle"
  BY DEF Init, Idle
<1> QED BY <1>1 DEF Init, Attempts

Undecided == {"none", "intended", "awaiting_approval"}

\* No verdict changes, and nothing happens.
LEMMA VerdictsStay ==
  ASSUME UNCHANGED <<entered, acted>>,
         \A i \in Ids : \/ rows'[i].status = rows[i].status
                        \/ /\ entered[i] = <<>>
                           /\ rows[i].status \in Undecided
                           /\ rows'[i].status \in Undecided \cup {"claimed"}
  PROVE  UNCHANGED Promise!vars
<1>1. ASSUME NEW i \in Ids PROVE Verdict(i)' = Verdict(i)
  BY <1>1 DEF Verdict, Undecided
<1> QED BY <1>1 DEF Promise!vars

\* The verdict of one effect changes.
LEMMA OneVerdict ==
  ASSUME NEW i \in Ids, NEW v, Verdict(i)' = v, \A j \in Ids \ {i} : Verdict(j)' = Verdict(j)
  PROVE  [j \in Ids |-> Verdict(j)]' = [[j \in Ids |-> Verdict(j)] EXCEPT ![i] = v]
OBVIOUS

LEMMA SetsOneStatus ==
  ASSUME TypeOK, NEW i \in Ids, NEW s, SetStatus(i, s)
  PROVE  rows'[i].status = s /\ \A j \in Ids \ {i} : rows'[j] = rows[j]
<1>1. rows \in [Ids -> Row \cup {NoRow}]
  BY DEF TypeOK
<1>2. "status" \in DOMAIN rows[i]
  BY <1>1 DEF Row, NoRow
<1>3. rows' = [rows EXCEPT ![i] = [rows[i] EXCEPT !.status = s]]
  BY DEF SetStatus
<1>4. rows'[i] = [rows[i] EXCEPT !.status = s] /\ \A j \in Ids \ {i} : rows'[j] = rows[j]
  BY <1>1, <1>3
<1> QED BY <1>2, <1>4

\* An effect is refused, before its body is entered.
LEMMA RefusalRefines ==
  ASSUME TypeOK, NEW i \in Ids, NEW s \in {"denied", "abandoned", "failed"},
         rows[i].status \in Undecided \/ (rows[i].status = "claimed" /\ entered[i] = <<>>),
         SetStatus(i, s), UNCHANGED <<entered, acted>>
  PROVE  Promise!Refuse(i)
<1>1. rows'[i].status = s /\ \A j \in Ids \ {i} : rows'[j] = rows[j]
  BY SetsOneStatus
<1>2. Verdict(i) = "wanted"
  BY DEF Verdict, Undecided
<1>3. Verdict(i)' = "refused"
  BY <1>1 DEF Verdict
<1>4. ASSUME NEW j \in Ids \ {i} PROVE Verdict(j)' = Verdict(j)
  BY <1>1 DEF Verdict
<1>5. [j \in Ids |-> Verdict(j)]' = [[j \in Ids |-> Verdict(j)] EXCEPT ![i] = "refused"]
  BY <1>3, <1>4, OneVerdict
<1> QED BY <1>2, <1>5 DEF Promise!Refuse

\* Writing the outcome of a row that its caller has.
LEMMA SettlementWrites ==
  ASSUME IInv, NEW c \in Callers, call[c].pc \in Past, NEW s, rows' = Settled(call[c], s)
  PROVE  /\ TypeOK /\ call[c].call.id \in Ids /\ rows[call[c].call.id].status = "claimed"
         /\ SetStatus(call[c].call.id, s)
<1>1. TypeOK /\ call[c].call.id \in Ids
  BY FrameFacts DEF IInv
<1>2. rows[call[c].call.id].status = "claimed" /\ rows[call[c].call.id].token = call[c].token
  BY DEF IInv, ClaimersOwn, Owns
<1> QED BY <1>1, <1>2 DEF Settled, MaySettle, SetStatus

\* A body is entered, acts, returns or raises.
LEMMA EnteringRefines ==
  ASSUME IInv, NEW c \in Callers, enter_impl(c)
  PROVE  Promise!Attempt(call[c].call.id)
<1> DEFINE e == [harness |-> call[c].harness, run |-> call[c].run, call |-> call[c].call,
                 impl |-> call[c].impl, approved |-> call[c].approved]
<1>0. PICK i \in Ids : i = call[c].call.id
  BY FrameFacts DEF IInv, enter_impl, Past
<1>1. TypeOK /\ i \in Ids /\ rows[i].status = "claimed" /\ entered[i] = <<>>
  BY <1>0 DEF IInv, enter_impl, ClaimersOwn, Owns, Past
<1>2. entered' = [entered EXCEPT ![i] = Append(entered[i], e)] /\ UNCHANGED <<rows, acted>>
  BY <1>0 DEF enter_impl
<1> HIDE DEF e
<1>3. entered'[i] # <<>> /\ \A j \in Ids \ {i} : entered'[j] = entered[j]
  BY <1>1, <1>2 DEF TypeOK
<1>4. Verdict(i) = "wanted" /\ Verdict(i)' = "attempted"
  BY <1>1, <1>2, <1>3 DEF Verdict
<1>5. ASSUME NEW j \in Ids \ {i} PROVE Verdict(j)' = Verdict(j)
  BY <1>2, <1>3 DEF Verdict
<1>6. [j \in Ids |-> Verdict(j)]' = [[j \in Ids |-> Verdict(j)] EXCEPT ![i] = "attempted"]
  BY <1>1, <1>4, <1>5, OneVerdict
<1>7. Promise!Attempt(i)
  BY <1>1, <1>2, <1>4, <1>6 DEF Promise!Attempt
<1> QED BY <1>0, <1>7

LEMMA ActingRefines ==
  ASSUME IInv, Attempts, NEW c \in Callers, impl_acts(c)
  PROVE  Promise!Happen(call[c].call.id)
<1> DEFINE i == call[c].call.id
<1>1. /\ i \in Ids /\ rows[i].status = "claimed"
      /\ entered[i] # <<>> /\ acted[i] = 0
  BY FrameFacts DEF IInv, impl_acts, ClaimersOwn, Owns, Past, Attempts
<1>2. /\ acted' = [acted EXCEPT ![i] = acted[i] + 1]
      /\ UNCHANGED <<rows, entered>>
  BY DEF impl_acts
<1>3. Verdict(i) = "attempted"
  BY <1>1 DEF Verdict
<1>4. ASSUME NEW j \in Ids PROVE Verdict(j)' = Verdict(j)
  BY <1>2 DEF Verdict
<1>5. acted' = [acted EXCEPT ![i] = 1]
  BY <1>1, <1>2
<1> QED BY <1>1, <1>3, <1>4, <1>5 DEF Promise!Happen

LEMMA SettlingRefines ==
  ASSUME IInv, Attempts, NEW c \in Callers, impl_returns(c) \/ impl_raises(c)
  PROVE  \/ Promise!Conclude(call[c].call.id)
         \/ Promise!WriteOff({call[c].call.id})
<1>1. call[c].pc \in {"body", "acted"} /\ call[c].pc \in Past /\ UNCHANGED <<entered, acted>>
  BY DEF impl_returns, impl_raises, Past, history
<1>0. PICK i \in Ids : i = call[c].call.id
  BY <1>1, FrameFacts DEF IInv
<1>2. entered[i] # <<>> /\ (call[c].pc = "acted" => acted[i] = 1)
  BY <1>0, <1>1 DEF Attempts
<1>3. PICK s \in {"succeeded", "indeterminate"} :
        /\ rows' = Settled(call[c], s)
        /\ s = "succeeded" => call[c].pc = "acted"
  BY DEF impl_returns, impl_raises, AfterRaise
<1>4. TypeOK /\ i \in Ids /\ rows[i].status = "claimed" /\ SetStatus(i, s)
  BY <1>0, <1>1, <1>3, SettlementWrites
<1>5. rows'[i].status = s /\ \A j \in Ids \ {i} : rows'[j] = rows[j]
  BY <1>4, SetsOneStatus
<1>6. Verdict(i) = "attempted"
  BY <1>2, <1>4 DEF Verdict
<1>7. ASSUME NEW j \in Ids \ {i} PROVE Verdict(j)' = Verdict(j)
  BY <1>1, <1>5 DEF Verdict
<1>8. CASE s = "succeeded"
  <2>1. Verdict(i)' = "done"
    BY <1>5, <1>8 DEF Verdict
  <2>2. [j \in Ids |-> Verdict(j)]' = [[j \in Ids |-> Verdict(j)] EXCEPT ![i] = "done"]
    BY <1>4, <1>7, <2>1, OneVerdict
  <2>3. Promise!Conclude(i)
    BY <1>1, <1>2, <1>3, <1>4, <1>6, <1>8, <2>2 DEF Promise!Conclude
  <2> QED BY <1>0, <2>3
<1>9. CASE s = "indeterminate"
  <2>1. Verdict(i)' = "unknown"
    BY <1>5, <1>9 DEF Verdict
  <2>2. Promise!WriteOff({i})
    BY <1>1, <1>4, <1>6, <1>7, <2>1 DEF Promise!WriteOff
  <2> QED BY <1>0, <2>2
<1> QED BY <1>3, <1>8, <1>9

\* Everything short of an execution leaves the verdicts alone or refuses an effect.
LEMMA RowsBeforeExecution ==
  ASSUME IInv, UNCHANGED <<entered, acted>>,
         \/ UNCHANGED rows
         \/ \E i \in Ids : /\ rows[i].status \notin Claimed
                           /\ rows'[i].status \in Undecided \cup {"claimed"}
                           /\ rows[i].status \in Undecided
                           /\ \A j \in Ids \ {i} : rows'[j] = rows[j]
         \/ \E i \in Ids, s \in {"denied", "abandoned"} : Refusable(i) /\ SetStatus(i, s)
  PROVE  [Promise!Next]_(Promise!vars)
<1>1. CASE UNCHANGED rows
  BY <1>1, VerdictsStay
<1>2. ASSUME NEW i \in Ids,
             /\ rows[i].status \notin Claimed
             /\ rows'[i].status \in Undecided \cup {"claimed"}
             /\ rows[i].status \in Undecided
             /\ \A j \in Ids \ {i} : rows'[j] = rows[j]
      PROVE  UNCHANGED Promise!vars
  <2>1. entered[i] = <<>>
    BY <1>2 DEF IInv, ExecutedWasClaimed
  <2> QED BY <1>2, <2>1, VerdictsStay
<1>3. ASSUME NEW i \in Ids, NEW s \in {"denied", "abandoned"}, Refusable(i), SetStatus(i, s)
      PROVE  Promise!Next
  BY <1>3, RefusalRefines DEF IInv, Refusable, Undecided, Promise!Next
<1> QED BY <1>1, <1>2, <1>3

LEMMA IntendedRows ==
  ASSUME TypeOK, NEW r \in Runs, NEW k \in Calls, rows' = Appended(r, k)
  PROVE  \/ UNCHANGED rows
         \/ \E i \in Ids : /\ rows[i].status \notin Claimed
                           /\ rows'[i].status \in Undecided \cup {"claimed"}
                           /\ rows[i].status \in Undecided
                           /\ \A j \in Ids \ {i} : rows'[j] = rows[j]
<1>1. k.id \in Ids /\ rows \in [Ids -> Row \cup {NoRow}]
  BY CallsAreCalls DEF TypeOK
<1>2. CASE rows[k.id] = NoRow
  <2> DEFINE n == [run |-> r, tool |-> k.tool, args |-> k.args,
                   status |-> "intended", token |-> None]
  <2>1. rows' = [rows EXCEPT ![k.id] = n]
    BY <1>2 DEF Appended
  <2>2. n.status = "intended"
    OBVIOUS
  <2> HIDE DEF n
  <2>3. rows'[k.id] = n /\ \A j \in Ids \ {k.id} : rows'[j] = rows[j]
    BY <1>1, <2>1
  <2>4. rows[k.id].status = "none"
    BY <1>2 DEF NoRow
  <2> QED BY <1>1, <2>2, <2>3, <2>4 DEF Undecided, Claimed
<1>3. CASE rows[k.id] # NoRow
  BY <1>3 DEF Appended
<1> QED BY <1>2, <1>3

LEMMA NextRefines == IInv /\ Attempts /\ [Next]_vars => [Promise!Next]_(Promise!vars)
<1> SUFFICES ASSUME IInv, Attempts, [Next]_vars PROVE [Promise!Next]_(Promise!vars)
  OBVIOUS
<1>1. TypeOK /\ \A c \in Callers : call[c] # Idle => call[c] \in Frame
  BY DEF IInv, TypeOK
<1>2. ASSUME \/ \E h \in Harnesses, t \in Tools, b \in Impls : register(h, t, b)
             \/ \E h \in Harnesses : build(h)
             \/ \E h \in Harnesses, r \in Runs : run_lease_expires(h, r)
             \/ \E c \in Callers, h \in Harnesses, turn \in Turns :
                  resolve(c, h, turn[1], turn[2])
             \/ \E c \in Callers, h \in Harnesses, request \in Requests, approved \in BOOLEAN :
                  dispatch(c, h, request[1], request[2], approved)
             \/ \E c \in Callers : interrupt(c)
      PROVE  [Promise!Next]_(Promise!vars)
  <2>1. UNCHANGED <<rows, entered, acted>>
    BY <1>2 DEF register, build, run_lease_expires, resolve, dispatch, interrupt, history
  <2> QED BY <2>1, RowsBeforeExecution
<1>3. ASSUME NEW request \in Requests, intend(request[1], request[2])
      PROVE  [Promise!Next]_(Promise!vars)
  <2>1. request[1] \in Runs /\ request[2] \in Calls
    BY RequestsAreCalls
  <2>2. rows' = Appended(request[1], request[2]) /\ UNCHANGED <<entered, acted>>
    BY <1>3 DEF intend, history
  <2> QED BY <1>1, <2>1, <2>2, IntendedRows, RowsBeforeExecution
<1>4. ASSUME NEW c \in Callers, next_call(c)
      PROVE  [Promise!Next]_(Promise!vars)
  <2>1. call[c].run \in Runs /\ call[c].call \in Calls
    BY <1>1, <1>4, FrameFacts DEF next_call, Idle
  <2>2. rows' = Appended(call[c].run, call[c].call) /\ UNCHANGED <<entered, acted>>
    BY <1>4 DEF next_call, history
  <2> QED BY <1>1, <2>1, <2>2, IntendedRows, RowsBeforeExecution
<1>5. ASSUME NEW i \in Ids, NEW s \in {"denied", "abandoned"}, refuse(i, s)
      PROVE  [Promise!Next]_(Promise!vars)
  <2>1. Refusable(i) /\ SetStatus(i, s) /\ UNCHANGED <<entered, acted>>
    BY <1>5 DEF refuse, history
  <2> QED BY <2>1, RowsBeforeExecution
<1>6. ASSUME NEW c \in Callers, NEW verdict, policy_answers(c, verdict)
      PROVE  [Promise!Next]_(Promise!vars)
  <2>1. PICK i \in Ids : i = call[c].call.id
    BY <1>1, <1>6, FrameFacts DEF policy_answers, Asked
  <2>2. UNCHANGED <<entered, acted>>
    BY <1>6 DEF policy_answers
  <2>3. CASE UNCHANGED rows
    BY <2>2, <2>3, RowsBeforeExecution
  <2>4. CASE rows[i].status = "intended" /\ SetStatus(i, "awaiting_approval")
    <3>1. rows'[i].status = "awaiting_approval" /\ \A j \in Ids \ {i} : rows'[j] = rows[j]
      BY <1>1, <2>4, SetsOneStatus
    <3> QED BY <2>2, <2>4, <3>1, RowsBeforeExecution DEF Undecided, Claimed
  <2>5. CASE Refusable(i) /\ SetStatus(i, "denied")
    BY <2>2, <2>5, RowsBeforeExecution
  <2> QED BY <1>6, <2>1, <2>3, <2>4, <2>5 DEF policy_answers
<1>7. ASSUME NEW c \in Callers, claim(c)
      PROVE  [Promise!Next]_(Promise!vars)
  <2>1. PICK i \in Ids : i = call[c].call.id
    BY <1>1, <1>7, FrameFacts DEF claim, Asked
  <2>2. UNCHANGED <<entered, acted>>
    BY <1>7 DEF claim, history
  <2>3. CASE UNCHANGED rows
    BY <2>2, <2>3, RowsBeforeExecution
  <2>4. CASE Refusable(i) /\ SetStatus(i, "abandoned")
    BY <2>2, <2>4, RowsBeforeExecution
  <2>5. CASE /\ Claimable(i, call[c].approved)
             /\ rows' = [rows EXCEPT ![i].status = "claimed", ![i].token = minted']
    <3>1. rows \in [Ids -> Row \cup {NoRow}] /\ rows[i].status \in {"intended", "awaiting_approval"}
      BY <1>1, <2>5 DEF TypeOK, Claimable
    <3>2. rows[i] \in Row
      BY <3>1 DEF NoRow
    <3>3. rows' = [rows EXCEPT ![i] = [rows[i] EXCEPT !.status = "claimed", !.token = minted']]
      BY <2>5
    <3>4. /\ rows'[i] = [rows[i] EXCEPT !.status = "claimed", !.token = minted']
          /\ \A j \in Ids \ {i} : rows'[j] = rows[j]
      BY <3>1, <3>3
    <3>5. rows'[i].status = "claimed"
      BY <3>2, <3>4 DEF Row
    <3> QED BY <2>2, <3>1, <3>4, <3>5, RowsBeforeExecution DEF Undecided, Claimed
  <2> QED BY <1>7, <2>1, <2>3, <2>4, <2>5 DEF claim
<1>8. ASSUME NEW c \in Callers, arguments_refused(c)
      PROVE  [Promise!Next]_(Promise!vars)
  <2>1. PICK i \in Ids : i = call[c].call.id
    BY <1>1, <1>8, FrameFacts DEF arguments_refused, Past
  <2>2. TypeOK /\ rows[i].status = "claimed" /\ SetStatus(i, "failed")
    BY <1>8, <2>1, SettlementWrites DEF arguments_refused, Past
  <2>3. entered[i] = <<>> /\ UNCHANGED <<entered, acted>>
    BY <1>8, <2>1 DEF IInv, ClaimersOwn, Owns, arguments_refused, Past, history
  <2>4. Promise!Refuse(i)
    BY <2>2, <2>3, RefusalRefines
  <2> QED BY <2>4 DEF Promise!Next
<1>9. ASSUME NEW c \in Callers,
             enter_impl(c) \/ impl_acts(c) \/ impl_returns(c) \/ impl_raises(c)
      PROVE  [Promise!Next]_(Promise!vars)
  <2>1. call[c].call.id \in Ids
    BY <1>1, <1>9, FrameFacts DEF enter_impl, impl_acts, impl_returns, impl_raises, Past
  <2> QED BY <1>9, <2>1, EnteringRefines, ActingRefines, SettlingRefines DEF Promise!Next
<1>10. CASE UNCHANGED vars
  BY <1>10, RowsBeforeExecution DEF vars
<1> QED BY <1>2, <1>3, <1>4, <1>5, <1>6, <1>7, <1>8, <1>9, <1>10 DEF Next

LEMMA InitRefines == Init => Promise!Init
<1> SUFFICES ASSUME Init PROVE Promise!Init
  OBVIOUS
<1>1. ASSUME NEW i \in Ids PROVE Verdict(i) = "wanted"
  BY DEF Init, Verdict, NoRow
<1> QED BY <1>1 DEF Init, Promise!Init

\* The harness keeps the ledger's promise to its callers: whatever the policies and
\* the bodies do and call, a refused effect never happens, an attempted one happens at
\* most once, `succeeded' is said only of one that happened, and a verdict is final.
THEOREM ImplementsPromise == Spec => KeepsPromise
<1>1. Spec => []Attempts
  BY InitAttempts, AttemptsKept, IInvHolds, PTL DEF Spec
<1> QED
  BY <1>1, InitRefines, NextRefines, IInvHolds, PTL DEF Spec, KeepsPromise, Promise!Spec

=============================================================================
