-------------------------- MODULE PgRunLeaseProofs --------------------------
(***************************************************************************)
(* Proofs about PgRunLease, for any processes, names and approvals and any *)
(* number of fence tokens.                                                 *)
(*                                                                         *)
(* The argument: a process has a row locked exactly while its transaction  *)
(* has written it (LocksAreHeld), so two transactions are never past the   *)
(* same row.  What a statement found in its snapshot may be stale; what it *)
(* evaluated again when it got the row stays true until its commit,        *)
(* because whoever would change it needs the row.                          *)
(***************************************************************************)
EXTENDS PgRunLease, TLAPS

\* The transaction of p has written row r.
HasWritten(p, r) ==
  \/ r = "history" /\ Ready(p, "acquire")
  \/ r = "run" /\ Ready(p, "write")
  \/ r = "effect" /\ Ready(p, "claim")

LocksAreHeld == \A p \in Processes, r \in Rows : lock[r] = p <=> HasWritten(p, r)

\* What the transactions in flight may be.
TxnsAreWhole ==
  \A p \in Processes :
    LET t == txn[p] IN
    /\ t.op = "none" => t = NoTxn
    /\ t.op = "acquire" => t.pc = "done" /\ t.name \in Names
    /\ t.op = "deny" => t.approval \in Approvals
    /\ t.op = "claim" => mem[p].name # None

\* A token that is about to be used is the next one.
TokensAreFresh ==
  /\ issued <= max_fence_token
  /\ \A p \in Processes : Ready(p, "acquire") => txn[p].token = max_fence_token + 1

\* Whoever has the row of runs still finds the state it compared.
WritesAreSwaps ==
  /\ IF state = "running" THEN writes = 0 ELSE writes = 1
  /\ \A p \in Processes : Ready(p, "write") => state = "running"

\* Whoever has the row of the effect still finds it claimable.
ClaimsAreFirst ==
  /\ IF effect.status \in Unclaimed THEN claims = 0 ELSE claims = 1
  /\ \A p \in Processes : Ready(p, "claim") => StillClaimable(p)

\* An approval that a claim saw stands as long as the effect waits for it.
SnapshotsStand ==
  \A p \in Processes :
    txn[p].op = "claim" /\ txn[p].approved /\ effect.status = "awaiting_approval" => Approved

IInv == /\ TypeOK /\ LocksAreHeld /\ TxnsAreWhole /\ TokensAreFresh
        /\ WritesAreSwaps /\ ClaimsAreFirst /\ SnapshotsStand

----------------------------------------------------------------------------
(* Transactions and their rows. *)

LEMMA NoTxnIsIdle ==
  NoTxn \in Txn /\ NoTxn.op = "none" /\ NoTxn.pc = "none"
BY DEF NoTxn, Txn

\* Two transactions never have the same row.
LEMMA OneHolder ==
  ASSUME LocksAreHeld, NEW p \in Processes, NEW q \in Processes,
         NEW op \in {"acquire", "write", "claim"}, Ready(p, op), Ready(q, op)
  PROVE  p = q
<1>1. PICK r \in Rows : HasWritten(p, r) /\ HasWritten(q, r)
  BY DEF Rows, HasWritten
<1> QED BY <1>1 DEF LocksAreHeld

\* A free row has been written by no transaction in flight.
LEMMA FreeIsUnwritten ==
  ASSUME LocksAreHeld, NEW r \in Rows, Free(r)
  PROVE  \A p \in Processes : ~HasWritten(p, r)
BY NoneIsNoId DEF LocksAreHeld, Free

LEMMA InitHasIInv == Init => IInv
<1> SUFFICES ASSUME Init PROVE IInv
  OBVIOUS
<1>1. \A p \in Processes : txn[p] = NoTxn /\ txn[p].op = "none" /\ txn[p].pc = "none"
  BY NoTxnIsIdle DEF Init
<1>2. TypeOK
  <2>1. effect \in Effect /\ effect.status \in Unclaimed /\ effect.status \notin Claimed
        /\ effect.claim_owner = None
    BY TTLIsPositive DEF Init, Effect, Unclaimed, Claimed
  <2> QED BY <1>1, <2>1, NoTxnIsIdle DEF Init, TypeOK, Mem
<1>3. LocksAreHeld
  BY <1>1, NoneIsNoId DEF Init, LocksAreHeld, HasWritten, Ready
<1>4. TxnsAreWhole
  BY <1>1 DEF TxnsAreWhole
<1>5. TokensAreFresh
  BY <1>1 DEF Init, TokensAreFresh, Ready
<1>6. WritesAreSwaps
  BY <1>1 DEF Init, WritesAreSwaps, Ready
<1>7. ClaimsAreFirst
  BY <1>1 DEF Init, ClaimsAreFirst, Ready, Unclaimed
<1>8. SnapshotsStand
  BY <1>1 DEF SnapshotsStand
<1> QED BY <1>2, <1>3, <1>4, <1>5, <1>6, <1>7, <1>8 DEF IInv

\* The end of a transaction gives its rows back and concerns no other.
LEMMA Ended ==
  ASSUME TypeOK, LocksAreHeld, TxnsAreWhole, NEW p \in Processes, End(p),
         \A q \in Processes : mem[q].name # None => mem'[q].name # None
  PROVE  /\ txn' \in [Processes -> Txn] /\ lock' \in [Rows -> Processes \cup {None}]
         /\ LocksAreHeld' /\ TxnsAreWhole'
         /\ \A q \in Processes : txn'[q].op # "none" => q # p /\ txn'[q] = txn[q]
<1>1. txn'[p] = NoTxn /\ \A q \in Processes \ {p} : txn'[q] = txn[q]
  BY DEF End, TypeOK
<1>2. txn' \in [Processes -> Txn] /\ lock' \in [Rows -> Processes \cup {None}]
  BY NoTxnIsIdle DEF End, TypeOK
<1>3. \A q \in Processes : txn'[q].op # "none" => q # p /\ txn'[q] = txn[q]
  BY <1>1, NoTxnIsIdle
<1>4. TxnsAreWhole'
  BY <1>1, <1>3, NoTxnIsIdle DEF TxnsAreWhole
<1>5. LocksAreHeld'
  <2> SUFFICES ASSUME NEW q \in Processes, NEW r \in Rows
               PROVE  lock'[r] = q <=> HasWritten(q, r)'
    BY DEF LocksAreHeld
  <2>1. lock'[r] = IF lock[r] = p THEN None ELSE lock[r]
    BY DEF End
  <2>2. CASE q = p
    BY <1>1, <2>1, <2>2, NoTxnIsIdle, NoneIsNoId DEF HasWritten, Ready
  <2>3. CASE q # p
    BY <1>1, <2>1, <2>3, NoneIsNoId DEF LocksAreHeld, HasWritten, Ready
  <2> QED BY <2>2, <2>3
<1> QED BY <1>2, <1>3, <1>4, <1>5

\* What a transaction that ends leaves to the others, if it committed nothing.
LEMMA AbandoningKeepsIInv ==
  ASSUME IInv, NEW p \in Processes, End(p), UNCHANGED <<tables, mem, history>>
  PROVE  IInv'
<1>1. UNCHANGED <<max_fence_token, lease, state, effect, approvals, mem, issued, claims, writes>>
  BY DEF tables, history
<1>2. /\ txn' \in [Processes -> Txn] /\ lock' \in [Rows -> Processes \cup {None}]
      /\ LocksAreHeld' /\ TxnsAreWhole'
      /\ \A q \in Processes : txn'[q].op # "none" => q # p /\ txn'[q] = txn[q]
  BY <1>1, Ended DEF IInv
<1>3. TypeOK'
  BY <1>1, <1>2 DEF IInv, TypeOK
<1>4. TokensAreFresh'
  BY <1>1, <1>2 DEF IInv, TokensAreFresh, Ready
<1>5. WritesAreSwaps'
  BY <1>1, <1>2 DEF IInv, WritesAreSwaps, Ready
<1>6. ClaimsAreFirst'
  BY <1>1, <1>2 DEF IInv, ClaimsAreFirst, Ready, StillClaimable, ClaimableRow
<1>7. SnapshotsStand'
  BY <1>1, <1>2 DEF IInv, SnapshotsStand, Approved
<1> QED BY <1>2, <1>3, <1>4, <1>5, <1>6, <1>7 DEF IInv

\* A statement that has to wait for a row changes nothing yet.
LEMMA WaitingKeepsIInv ==
  ASSUME IInv, NEW p \in Processes, NEW t \in Txn, Begin(p, t), t.pc = "waiting",
         t.op \in {"write", "claim", "deny"}, t.op = "deny" => t.approval \in Approvals,
         t.op = "claim" => mem[p].name # None /\ (t.approved => Approved),
         UNCHANGED <<tables, lock, mem, history>>
  PROVE  IInv'
<1>1. UNCHANGED <<max_fence_token, lease, state, effect, approvals, lock, mem,
                  issued, claims, writes>>
  BY DEF tables, history
<1>2. txn[p].op = "none" /\ txn[p].pc = "none"
  BY NoTxnIsIdle DEF Begin
<1>3. txn'[p] = t /\ \A q \in Processes \ {p} : txn'[q] = txn[q]
  BY DEF Begin, IInv, TypeOK
<1>4. TypeOK'
  BY <1>1 DEF IInv, TypeOK, Begin
<1>5. \A q \in Processes, op \in {"acquire", "write", "claim"} :
        Ready(q, op)' <=> Ready(q, op) /\ q # p
  BY <1>2, <1>3 DEF Ready
<1>6. LocksAreHeld'
  BY <1>1, <1>2, <1>5 DEF IInv, LocksAreHeld, HasWritten, Ready
<1>7. TxnsAreWhole'
  BY <1>1, <1>3 DEF IInv, TxnsAreWhole
<1>8. TokensAreFresh'
  BY <1>1, <1>3, <1>5 DEF IInv, TokensAreFresh
<1>9. WritesAreSwaps'
  BY <1>1, <1>5 DEF IInv, WritesAreSwaps
<1>10. ClaimsAreFirst'
  BY <1>1, <1>3, <1>5 DEF IInv, ClaimsAreFirst, StillClaimable, ClaimableRow
<1>11. SnapshotsStand'
  BY <1>1, <1>3 DEF IInv, SnapshotsStand, Approved
<1> QED BY <1>4, <1>6, <1>7, <1>8, <1>9, <1>10, <1>11 DEF IInv

\* A statement gets its row: what it evaluates again is what it may rely on.
LEMMA TakingKeepsIInv ==
  ASSUME IInv, NEW p \in Processes, NEW op \in {"write", "claim"},
         NEW r \in Rows, r = (IF op = "write" THEN "run" ELSE "effect"),
         Waits(p, op), Free(r), Take(p, r),
         op = "write" => state = "running", op = "claim" => StillClaimable(p),
         UNCHANGED <<tables, mem, history>>
  PROVE  IInv'
<1>1. UNCHANGED <<max_fence_token, lease, state, effect, approvals, mem, issued, claims, writes>>
  BY DEF tables, history
<1>2. /\ txn'[p].op = op /\ txn'[p].pc = "done" /\ txn'[p].approved = txn[p].approved
      /\ \A q \in Processes \ {p} : txn'[q] = txn[q]
      /\ txn' \in [Processes -> Txn]
  BY DEF Take, Waits, IInv, TypeOK, Txn
<1>3. lock' \in [Rows -> Processes \cup {None}] /\ lock'[r] = p
      /\ \A s \in Rows \ {r} : lock'[s] = lock[s]
  BY DEF Take, IInv, TypeOK
<1>4. TypeOK'
  BY <1>1, <1>2, <1>3 DEF IInv, TypeOK
<1>5. \A q \in Processes \ {p} : ~HasWritten(q, r) /\ \A s \in Rows : HasWritten(q, s)' <=> HasWritten(q, s)
  BY <1>2, FreeIsUnwritten DEF IInv, HasWritten, Ready
<1>6. \A s \in Rows : HasWritten(p, s)' <=> s = r
  BY <1>2 DEF HasWritten, Ready
<1>7. \A s \in Rows : lock[s] # p
  BY DEF IInv, LocksAreHeld, HasWritten, Ready, Waits
<1>8. LocksAreHeld'
  BY <1>3, <1>5, <1>6, <1>7 DEF IInv, LocksAreHeld
<1>9. TxnsAreWhole'
  BY <1>1, <1>2 DEF IInv, TxnsAreWhole, Waits
<1>10. TokensAreFresh'
  BY <1>1, <1>2 DEF IInv, TokensAreFresh, Ready
<1>11. WritesAreSwaps'
  BY <1>1, <1>2 DEF IInv, WritesAreSwaps, Ready
<1>12. ClaimsAreFirst'
  BY <1>1, <1>2 DEF IInv, ClaimsAreFirst, Ready, StillClaimable, ClaimableRow
<1>13. SnapshotsStand'
  BY <1>1, <1>2 DEF IInv, SnapshotsStand, Approved, Waits
<1> QED BY <1>4, <1>8, <1>9, <1>10, <1>11, <1>12, <1>13 DEF IInv

----------------------------------------------------------------------------
(* The lease. *)

LEMMA BumpKeepsIInv ==
  ASSUME IInv, NEW p \in Processes, NEW n \in Names, acquire_bump(p, n)
  PROVE  IInv'
<1> DEFINE t == [NoTxn EXCEPT !.op = "acquire", !.pc = "done", !.name = n,
                              !.token = max_fence_token + 1]
<1>1. /\ t \in Txn /\ t.op = "acquire" /\ t.pc = "done" /\ t.name = n
      /\ t.token = max_fence_token + 1
  <2>1. max_fence_token + 1 \in Nat
    BY DEF IInv, TypeOK
  <2>2. \A u \in Txn : /\ [u EXCEPT !.op = "acquire"] \in Txn /\ [u EXCEPT !.pc = "done"] \in Txn
                       /\ [u EXCEPT !.name = n] \in Txn
                       /\ [u EXCEPT !.token = max_fence_token + 1] \in Txn
    BY <2>1 DEF Txn
  <2>3. t = [[[[NoTxn EXCEPT !.op = "acquire"] EXCEPT !.pc = "done"] EXCEPT !.name = n]
               EXCEPT !.token = max_fence_token + 1]
    BY NoTxnIsIdle DEF Txn
  <2>4. t \in Txn
    BY <2>2, <2>3, NoTxnIsIdle
  <2>5. t.op = "acquire" /\ t.pc = "done" /\ t.name = n /\ t.token = max_fence_token + 1
    BY DEF NoTxn
  <2> QED BY <2>4, <2>5
<1>2. /\ Free("history") /\ txn[p] = NoTxn /\ txn' = [txn EXCEPT ![p] = t]
      /\ lock' = [lock EXCEPT !["history"] = p]
      /\ UNCHANGED <<max_fence_token, lease, state, effect, approvals, mem, issued, claims, writes>>
  BY DEF acquire_bump, HistoryFree, Begin, tables, history
<1> HIDE DEF t
<1>3. txn'[p] = t /\ \A q \in Processes \ {p} : txn'[q] = txn[q]
  BY <1>2 DEF IInv, TypeOK
<1>4. TypeOK'
  BY <1>1, <1>2 DEF IInv, TypeOK
<1>5. \A q \in Processes \ {p} : ~Ready(q, "acquire")
  BY <1>2, FreeIsUnwritten DEF IInv, HasWritten, Rows
<1>6. LocksAreHeld'
  <2>1. "history" \in Rows /\ lock'["history"] = p /\ \A r \in Rows \ {"history"} : lock'[r] = lock[r]
    BY <1>2 DEF IInv, TypeOK, Rows
  <2>2. \A r \in Rows : HasWritten(p, r)' <=> r = "history"
    BY <1>1, <1>3 DEF HasWritten, Ready
  <2>3. \A r \in Rows : lock[r] # p
    BY <1>2, NoTxnIsIdle DEF IInv, LocksAreHeld, HasWritten, Ready
  <2>4. \A q \in Processes \ {p}, r \in Rows : /\ HasWritten(q, r)' <=> HasWritten(q, r)
                                               /\ ~HasWritten(q, "history")
    BY <1>3, <1>5 DEF HasWritten, Ready
  <2> QED BY <2>1, <2>2, <2>3, <2>4 DEF IInv, LocksAreHeld
<1>7. TxnsAreWhole'
  BY <1>1, <1>2, <1>3 DEF IInv, TxnsAreWhole
<1>8. TokensAreFresh'
  BY <1>1, <1>2, <1>3, <1>5 DEF IInv, TokensAreFresh, Ready
<1>9. WritesAreSwaps'
  BY <1>1, <1>2, <1>3 DEF IInv, WritesAreSwaps, Ready
<1>10. ClaimsAreFirst'
  BY <1>1, <1>2, <1>3 DEF IInv, ClaimsAreFirst, Ready, StillClaimable, ClaimableRow
<1>11. SnapshotsStand'
  BY <1>1, <1>2, <1>3 DEF IInv, SnapshotsStand, Approved
<1> QED BY <1>4, <1>6, <1>7, <1>8, <1>9, <1>10, <1>11 DEF IInv

LEMMA InsertKeepsIInv ==
  ASSUME IInv, NEW p \in Processes, acquire_insert(p)
  PROVE  IInv'
<1> DEFINE token == txn[p].token
           name  == txn[p].name
<1>1. /\ Ready(p, "acquire") /\ End(p) /\ UNCHANGED <<state, effect, approvals, claims, writes>>
      /\ name \in Names /\ token = max_fence_token + 1 /\ max_fence_token' = token
  BY DEF acquire_insert, IInv, TxnsAreWhole, TokensAreFresh, Ready
<1>2. /\ lease' \in Lease \cup {NoLease} /\ issued' \in {issued, token}
      /\ mem' \in [Processes -> Mem]
      /\ \A q \in Processes : mem[q].name # None => mem'[q].name # None
  <2>1. CASE lease = NoLease
    <3>1. lease' = [holder |-> name, fence_token |-> token, left |-> TTL] /\ issued' = token
          /\ mem' = [mem EXCEPT ![p].name = name, ![p].fence = token]
      BY <2>1 DEF acquire_insert
    <3>2. lease' \in Lease
      BY <1>1, <3>1, TTLIsPositive DEF IInv, TypeOK, Lease
    <3>3. name # None
      BY <1>1, NoneIsNoId
    <3>4. mem' \in [Processes -> Mem]
      <4>1. mem[p] \in Mem /\ token \in Nat
        BY <1>1 DEF IInv, TypeOK
      <4>2. [[mem[p] EXCEPT !.name = name] EXCEPT !.fence = token] \in Mem
        BY <1>1, <4>1 DEF Mem
      <4>3. mem' = [mem EXCEPT ![p] = [[mem[p] EXCEPT !.name = name] EXCEPT !.fence = token]]
        BY <3>1 DEF IInv, TypeOK
      <4> QED BY <4>2, <4>3 DEF IInv, TypeOK
    <3>5. \A q \in Processes : mem[q].name # None => mem'[q].name # None
      BY <3>1, <3>3 DEF IInv, TypeOK, Mem
    <3> QED BY <3>1, <3>2, <3>4, <3>5
  <2>2. CASE lease # NoLease
    BY <2>2 DEF acquire_insert, IInv, TypeOK
  <2> QED BY <2>1, <2>2
<1>3. /\ txn' \in [Processes -> Txn] /\ lock' \in [Rows -> Processes \cup {None}]
      /\ LocksAreHeld' /\ TxnsAreWhole'
      /\ \A q \in Processes : txn'[q].op # "none" => q # p /\ txn'[q] = txn[q]
  BY <1>1, <1>2, Ended DEF IInv
<1>4. TypeOK'
  BY <1>1, <1>2, <1>3 DEF IInv, TypeOK
<1>5. \A q \in Processes : ~Ready(q, "acquire")'
  BY <1>1, <1>3, OneHolder DEF IInv, Ready
<1>6. TokensAreFresh'
  BY <1>1, <1>2, <1>5 DEF IInv, TypeOK, TokensAreFresh
<1>7. WritesAreSwaps'
  BY <1>1, <1>3 DEF IInv, WritesAreSwaps, Ready
<1>8. ClaimsAreFirst'
  BY <1>1, <1>3 DEF IInv, ClaimsAreFirst, Ready, StillClaimable, ClaimableRow
<1>9. SnapshotsStand'
  BY <1>1, <1>3 DEF IInv, SnapshotsStand, Approved
<1> QED BY <1>3, <1>4, <1>6, <1>7, <1>8, <1>9 DEF IInv

\* The lease and the time left of the claim decide who may begin, and nothing else here.
LEMMA LeaseStepKeepsIInv ==
  ASSUME IInv, lease' \in Lease \cup {NoLease}, effect' \in Effect,
         effect'.status = effect.status, effect'.claim_owner = effect.claim_owner,
         effect'.claim_token = effect.claim_token,
         UNCHANGED <<max_fence_token, state, approvals, lock, txn, mem, history>>
  PROVE  IInv'
<1>1. UNCHANGED <<issued, claims, writes>>
  BY DEF history
<1>2. TypeOK'
  BY <1>1 DEF IInv, TypeOK
<1>3. LocksAreHeld' /\ TxnsAreWhole'
  BY DEF IInv, LocksAreHeld, HasWritten, Ready, TxnsAreWhole
<1>4. TokensAreFresh' /\ WritesAreSwaps'
  BY <1>1 DEF IInv, TokensAreFresh, WritesAreSwaps, Ready
<1>5. ClaimsAreFirst' /\ SnapshotsStand'
  BY <1>1 DEF IInv, ClaimsAreFirst, Ready, StillClaimable, ClaimableRow, SnapshotsStand, Approved
<1> QED BY <1>2, <1>3, <1>4, <1>5 DEF IInv

LEMMA LeaseActionsKeepIInv ==
  ASSUME IInv, reclaim \/ tick \/ \E p \in Processes : renew(p)
  PROVE  IInv'
<1>1. lease \in Lease \cup {NoLease} /\ effect \in Effect /\ TTL \in Nat
  BY TTLIsPositive DEF IInv, TypeOK
<1>2. ASSUME NEW p \in Processes, renew(p) PROVE IInv'
  <2>1. [lease EXCEPT !.left = TTL] \in Lease
    BY <1>1, <1>2, TTLIsPositive DEF renew, Holds, Lease, NoLease
  <2> QED BY <1>1, <1>2, <2>1, LeaseStepKeepsIInv DEF renew
<1>3. CASE reclaim
  BY <1>1, <1>3, LeaseStepKeepsIInv DEF reclaim
<1>4. CASE tick
  <2>1. lease.left > 0 => [lease EXCEPT !.left = @ - 1] \in Lease
    BY <1>1, TTLIsPositive DEF Lease, NoLease
  <2>2. effect.left > 0 => [effect EXCEPT !.left = @ - 1] \in Effect
    BY <1>1, TTLIsPositive DEF Effect
  <2>3. lease' \in Lease \cup {NoLease} /\ effect' \in Effect
    BY <1>1, <1>4, <2>1, <2>2 DEF tick
  <2>4. /\ effect'.status = effect.status /\ effect'.claim_owner = effect.claim_owner
        /\ effect'.claim_token = effect.claim_token
    BY <1>1, <1>4 DEF tick, Effect
  <2> QED BY <1>4, <2>3, <2>4, LeaseStepKeepsIInv DEF tick
<1> QED BY <1>2, <1>3, <1>4

----------------------------------------------------------------------------
(* The write of the run's state. *)

LEMMA WriteActionsKeepIInv ==
  ASSUME IInv, NEW p \in Processes, write_start(p) \/ write_row(p)
  PROVE  IInv'
<1>1. CASE write_start(p)
  <2> DEFINE t == [NoTxn EXCEPT !.op = "write", !.pc = "waiting"]
  <2>1. t \in Txn /\ t.op = "write" /\ t.pc = "waiting"
    BY NoTxnIsIdle DEF Txn
  <2>2. Begin(p, t) /\ UNCHANGED <<tables, lock, mem, history>>
    BY <1>1 DEF write_start
  <2> HIDE DEF t
  <2> QED BY <2>1, <2>2, WaitingKeepsIInv
<1>2. CASE write_row(p)
  <2>1. CASE state = "running"
    <3>1. "run" \in Rows /\ Waits(p, "write") /\ Free("run") /\ Take(p, "run")
          /\ UNCHANGED <<tables, mem, history>>
      BY <1>2, <2>1 DEF write_row, CasHolds, Rows
    <3> QED BY <2>1, <3>1, TakingKeepsIInv
  <2>2. CASE state # "running"
    <3>1. NoRow(p)
      BY <1>2, <2>2 DEF write_row, CasHolds
    <3> QED BY <3>1, AbandoningKeepsIInv DEF NoRow
  <2> QED BY <2>1, <2>2
<1> QED BY <1>1, <1>2

LEMMA WriteCommitKeepsIInv ==
  ASSUME IInv, NEW p \in Processes, write_commit(p)
  PROVE  IInv'
<1>1. /\ Ready(p, "write") /\ End(p) /\ state' = "succeeded" /\ writes' = writes + 1
      /\ UNCHANGED <<max_fence_token, lease, effect, approvals, mem, issued, claims>>
  BY DEF write_commit
<1>2. /\ txn' \in [Processes -> Txn] /\ lock' \in [Rows -> Processes \cup {None}]
      /\ LocksAreHeld' /\ TxnsAreWhole'
      /\ \A q \in Processes : txn'[q].op # "none" => q # p /\ txn'[q] = txn[q]
  BY <1>1, Ended DEF IInv
<1>3. TypeOK'
  BY <1>1, <1>2 DEF IInv, TypeOK
<1>4. \A q \in Processes : ~Ready(q, "write")'
  BY <1>1, <1>2, OneHolder DEF IInv, Ready
<1>5. WritesAreSwaps'
  BY <1>1, <1>4 DEF IInv, WritesAreSwaps
<1>6. TokensAreFresh'
  BY <1>1, <1>2 DEF IInv, TokensAreFresh, Ready
<1>7. ClaimsAreFirst' /\ SnapshotsStand'
  BY <1>1, <1>2 DEF IInv, ClaimsAreFirst, Ready, StillClaimable, ClaimableRow,
                    SnapshotsStand, Approved
<1> QED BY <1>2, <1>3, <1>5, <1>6, <1>7 DEF IInv

----------------------------------------------------------------------------
(* The claim. *)

LEMMA ClaimActionsKeepIInv ==
  ASSUME IInv, NEW p \in Processes, claim_start(p) \/ claim_row(p)
  PROVE  IInv'
<1>1. CASE claim_start(p)
  <2> DEFINE t == [NoTxn EXCEPT !.op = "claim", !.pc = "waiting", !.approved = Approved]
  <2>1. t \in Txn /\ t.op = "claim" /\ t.pc = "waiting" /\ t.approved = Approved
    <3>1. Approved \in BOOLEAN
      BY DEF Approved
    <3>2. \A u \in Txn : /\ [u EXCEPT !.op = "claim"] \in Txn /\ [u EXCEPT !.pc = "waiting"] \in Txn
                         /\ [u EXCEPT !.approved = Approved] \in Txn
      BY <3>1 DEF Txn
    <3>3. t = [[[NoTxn EXCEPT !.op = "claim"] EXCEPT !.pc = "waiting"] EXCEPT !.approved = Approved]
      BY NoTxnIsIdle DEF Txn
    <3>4. t \in Txn
      BY <3>2, <3>3, NoTxnIsIdle
    <3> QED BY <3>4 DEF NoTxn
  <2>2. Begin(p, t) /\ mem[p].name # None /\ UNCHANGED <<tables, lock, mem, history>>
    BY <1>1 DEF claim_start
  <2> HIDE DEF t
  <2> QED BY <2>1, <2>2, WaitingKeepsIInv
<1>2. CASE claim_row(p)
  <2>1. CASE StillClaimable(p)
    <3>1. "effect" \in Rows /\ Waits(p, "claim") /\ Free("effect") /\ Take(p, "effect")
          /\ UNCHANGED <<tables, mem, history>>
      BY <1>2, <2>1 DEF claim_row, Rows
    <3> QED BY <2>1, <3>1, TakingKeepsIInv
  <2>2. CASE ~StillClaimable(p)
    <3>1. NoRow(p)
      BY <1>2, <2>2 DEF claim_row
    <3> QED BY <3>1, AbandoningKeepsIInv DEF NoRow
  <2> QED BY <2>1, <2>2
<1> QED BY <1>1, <1>2

\* A claim that commits finds the effect unclaimed, and its approval standing.
LEMMA CommitFindsClaimable ==
  ASSUME IInv, NEW p \in Processes, claim_commit(p)
  PROVE  /\ effect.status \in {"intended", "awaiting_approval"} /\ claims = 0
         /\ effect.status = "awaiting_approval" => Approved
<1>1. StillClaimable(p) /\ txn[p].op = "claim"
  BY DEF claim_commit, Ready, IInv, ClaimsAreFirst
<1> QED BY <1>1 DEF IInv, ClaimsAreFirst, SnapshotsStand, StillClaimable, ClaimableRow, Unclaimed

LEMMA ClaimCommitKeepsIInv ==
  ASSUME IInv, NEW p \in Processes, claim_commit(p)
  PROVE  IInv'
<1>1. /\ Ready(p, "claim") /\ End(p) /\ claims' = 1 /\ claims = 0
      /\ effect' = [status |-> "claimed", claim_owner |-> mem[p].name,
                    claim_token |-> 1, left |-> TTL]
      /\ mem' = [mem EXCEPT ![p].token = 1]
      /\ UNCHANGED <<max_fence_token, lease, state, approvals, issued, writes>>
  <2>1. claims = 0 /\ claims + 1 = 1
    BY CommitFindsClaimable
  <2> QED BY <2>1 DEF claim_commit
<1>2. /\ mem' \in [Processes -> Mem]
      /\ \A q \in Processes : mem'[q].name = mem[q].name
  <2>1. [mem[p] EXCEPT !.token = 1] \in Mem
    BY DEF IInv, TypeOK, Mem
  <2> QED BY <1>1, <2>1 DEF IInv, TypeOK, Mem
<1>3. /\ txn' \in [Processes -> Txn] /\ lock' \in [Rows -> Processes \cup {None}]
      /\ LocksAreHeld' /\ TxnsAreWhole'
      /\ \A q \in Processes : txn'[q].op # "none" => q # p /\ txn'[q] = txn[q]
  BY <1>1, <1>2, Ended DEF IInv
<1>4. mem[p].name \in Names /\ mem[p].name # None
  BY <1>1 DEF IInv, TypeOK, Mem, TxnsAreWhole, Ready
<1>5. effect' \in Effect /\ effect'.status = "claimed" /\ effect'.status \in Claimed
      /\ effect'.status \notin Unclaimed /\ effect'.claim_owner # None /\ effect'.claim_token > 0
  BY <1>1, <1>4, TTLIsPositive DEF Effect, Claimed, Unclaimed
<1>6. TypeOK'
  BY <1>1, <1>2, <1>3, <1>5 DEF IInv, TypeOK
<1>7. \A q \in Processes : ~Ready(q, "claim")'
  BY <1>1, <1>3, OneHolder DEF IInv, Ready
<1>8. ClaimsAreFirst'
  BY <1>1, <1>5, <1>7 DEF ClaimsAreFirst
<1>9. SnapshotsStand'
  BY <1>5 DEF SnapshotsStand
<1>10. TokensAreFresh' /\ WritesAreSwaps'
  BY <1>1, <1>3 DEF IInv, TokensAreFresh, WritesAreSwaps, Ready
<1> QED BY <1>3, <1>6, <1>8, <1>9, <1>10 DEF IInv

----------------------------------------------------------------------------
(* Approvals. *)

LEMMA DenyStartKeepsIInv ==
  ASSUME IInv, NEW p \in Processes, NEW a \in Approvals, deny_approval(p, a)
  PROVE  IInv'
<1> DEFINE t == [NoTxn EXCEPT !.op = "deny", !.pc = "waiting", !.approval = a]
<1>1. t \in Txn /\ t.op = "deny" /\ t.pc = "waiting" /\ t.approval = a
  <2>1. \A u \in Txn : /\ [u EXCEPT !.op = "deny"] \in Txn /\ [u EXCEPT !.pc = "waiting"] \in Txn
                       /\ [u EXCEPT !.approval = a] \in Txn
    BY DEF Txn
  <2>2. t = [[[NoTxn EXCEPT !.op = "deny"] EXCEPT !.pc = "waiting"] EXCEPT !.approval = a]
    BY NoTxnIsIdle DEF Txn
  <2>3. t \in Txn
    BY <2>1, <2>2, NoTxnIsIdle
  <2> QED BY <2>3 DEF NoTxn
<1>2. Begin(p, t) /\ UNCHANGED <<tables, lock, mem, history>>
  BY DEF deny_approval
<1> HIDE DEF t
<1> QED BY <1>1, <1>2, WaitingKeepsIInv

\* A change of the approvals that takes back none, or of an effect out of reach of claims.
LEMMA FilingKeepsIInv ==
  ASSUME IInv, NEW a \in Approvals, NEW s \in {"pending", "approved"}, file_approval(a, s)
  PROVE  IInv'
<1>1. /\ approvals[a] = "absent" /\ approvals' = [approvals EXCEPT ![a] = s]
      /\ UNCHANGED <<max_fence_token, lease, state, effect, lock, txn, mem, issued, claims, writes>>
  BY DEF file_approval, history
<1>2. TypeOK'
  BY <1>1 DEF IInv, TypeOK
<1>3. Approved => Approved'
  BY <1>1 DEF IInv, TypeOK, Approved
<1>4. SnapshotsStand'
  BY <1>1, <1>3 DEF IInv, SnapshotsStand
<1>5. LocksAreHeld' /\ TxnsAreWhole' /\ TokensAreFresh' /\ WritesAreSwaps'
  BY <1>1 DEF IInv, LocksAreHeld, HasWritten, Ready, TxnsAreWhole, TokensAreFresh, WritesAreSwaps
<1>6. ClaimsAreFirst'
  BY <1>1 DEF IInv, ClaimsAreFirst, Ready, StillClaimable, ClaimableRow
<1> QED BY <1>2, <1>4, <1>5, <1>6 DEF IInv

\* A denial gets at a gated effect only when no claim has its row.
LEMMA DenyCommitKeepsIInv ==
  ASSUME IInv, NEW p \in Processes, deny_commit(p)
  PROVE  IInv'
<1> DEFINE a == txn[p].approval
<1>1. /\ Waits(p, "deny") /\ End(p) /\ a \in Approvals
      /\ effect.status = "awaiting_approval" => Free("effect")
      /\ approvals' = [approvals EXCEPT ![a] = "denied"]
      /\ UNCHANGED <<max_fence_token, lease, state, mem, issued, claims, writes>>
  BY DEF deny_commit, history, IInv, TxnsAreWhole, Waits
<1>2. /\ effect' \in Effect /\ effect'.status # "awaiting_approval"
      /\ effect'.status \in Unclaimed <=> effect.status \in Unclaimed
      /\ effect'.claim_owner = effect.claim_owner /\ effect'.claim_token = effect.claim_token
      /\ effect'.status \in Claimed <=> effect.status \in Claimed
      /\ effect.status # "awaiting_approval" => effect' = effect
  BY DEF deny_commit, DeniesEffect, IInv, TypeOK, Effect, Unclaimed, Claimed
<1>3. /\ txn' \in [Processes -> Txn] /\ lock' \in [Rows -> Processes \cup {None}]
      /\ LocksAreHeld' /\ TxnsAreWhole'
      /\ \A q \in Processes : txn'[q].op # "none" => q # p /\ txn'[q] = txn[q]
  BY <1>1, Ended DEF IInv
<1>4. TypeOK'
  BY <1>1, <1>2, <1>3 DEF IInv, TypeOK
<1>5. ClaimsAreFirst'
  <2>1. \A q \in Processes : Ready(q, "claim")' => StillClaimable(q)'
    <3>1. CASE effect.status = "awaiting_approval"
      <4>1. \A q \in Processes : ~Ready(q, "claim")
        BY <1>1, <3>1, FreeIsUnwritten DEF IInv, HasWritten, Rows
      <4> QED BY <1>3, <4>1 DEF Ready
    <3>2. CASE effect.status # "awaiting_approval"
      BY <1>2, <1>3, <3>2 DEF IInv, ClaimsAreFirst, Ready, StillClaimable, ClaimableRow
    <3> QED BY <3>1, <3>2
  <2> QED BY <1>1, <1>2, <2>1 DEF IInv, ClaimsAreFirst
<1>6. SnapshotsStand'
  BY <1>2 DEF SnapshotsStand
<1>7. TokensAreFresh' /\ WritesAreSwaps'
  BY <1>1, <1>3 DEF IInv, TokensAreFresh, WritesAreSwaps, Ready
<1> QED BY <1>3, <1>4, <1>5, <1>6, <1>7 DEF IInv

\* A settlement and the sweeper find a claim committed, so nobody has the row any more.
LEMMA SettlingKeepsIInv ==
  ASSUME IInv, sweep \/ \E p \in Processes : settle(p)
  PROVE  IInv'
<1>1. /\ effect.status = "claimed"
      /\ \E s \in {"succeeded", "indeterminate"} : effect' = [effect EXCEPT !.status = s]
      /\ UNCHANGED <<max_fence_token, lease, state, approvals, lock, txn, mem,
                     issued, claims, writes>>
  BY DEF sweep, settle, MaySettle, history
<1>2. /\ effect' \in Effect /\ effect'.status \in {"succeeded", "indeterminate"}
      /\ effect'.claim_owner = effect.claim_owner /\ effect'.claim_token = effect.claim_token
      /\ effect.status \in Claimed /\ effect'.status \in Claimed
      /\ effect.status \notin Unclaimed /\ effect'.status \notin Unclaimed
  BY <1>1 DEF IInv, TypeOK, Effect, Claimed, Unclaimed
<1>3. TypeOK'
  BY <1>1, <1>2 DEF IInv, TypeOK
<1>4. LocksAreHeld' /\ TxnsAreWhole' /\ TokensAreFresh' /\ WritesAreSwaps'
  BY <1>1 DEF IInv, LocksAreHeld, HasWritten, Ready, TxnsAreWhole, TokensAreFresh, WritesAreSwaps
<1>5. ClaimsAreFirst'
  <2>1. \A q \in Processes : ~Ready(q, "claim")
    BY <1>1 DEF IInv, ClaimsAreFirst, StillClaimable, ClaimableRow
  <2> QED BY <1>1, <1>2, <2>1 DEF IInv, ClaimsAreFirst, Ready
<1>6. SnapshotsStand'
  BY <1>2 DEF SnapshotsStand
<1> QED BY <1>3, <1>4, <1>5, <1>6 DEF IInv

----------------------------------------------------------------------------
LEMMA NextKeepsIInv == IInv /\ [Next]_vars => IInv'
<1> SUFFICES ASSUME IInv, [Next]_vars PROVE IInv'
  OBVIOUS
<1>1. ASSUME NEW p \in Processes, NEW n \in Names, acquire_bump(p, n) PROVE IInv'
  BY <1>1, BumpKeepsIInv
<1>2. ASSUME NEW p \in Processes, acquire_insert(p) \/ renew(p) PROVE IInv'
  BY <1>2, InsertKeepsIInv, LeaseActionsKeepIInv
<1>3. ASSUME NEW p \in Processes, write_start(p) \/ write_row(p) \/ write_commit(p) PROVE IInv'
  BY <1>3, WriteActionsKeepIInv, WriteCommitKeepsIInv
<1>4. ASSUME NEW p \in Processes, claim_start(p) \/ claim_row(p) \/ claim_commit(p) PROVE IInv'
  BY <1>4, ClaimActionsKeepIInv, ClaimCommitKeepsIInv
<1>5. ASSUME NEW p \in Processes, deny_commit(p) \/ settle(p) PROVE IInv'
  BY <1>5, DenyCommitKeepsIInv, SettlingKeepsIInv
<1>6. ASSUME NEW p \in Processes, rollback(p) PROVE IInv'
  BY <1>6, AbandoningKeepsIInv DEF rollback
<1>7. ASSUME NEW p \in Processes, NEW a \in Approvals, deny_approval(p, a) PROVE IInv'
  BY <1>7, DenyStartKeepsIInv
<1>8. ASSUME NEW a \in Approvals, NEW s \in {"pending", "approved"}, file_approval(a, s) PROVE IInv'
  BY <1>8, FilingKeepsIInv
<1>9. CASE reclaim \/ sweep \/ tick
  BY <1>9, LeaseActionsKeepIInv, SettlingKeepsIInv
<1>10. CASE UNCHANGED vars
  <2>1. UNCHANGED <<max_fence_token, lease, state, effect, approvals, lock, txn, mem,
                    issued, claims, writes>>
    BY <1>10 DEF vars
  <2>2. TypeOK' /\ LocksAreHeld' /\ TxnsAreWhole' /\ TokensAreFresh' /\ WritesAreSwaps'
    BY <2>1 DEF IInv, TypeOK, LocksAreHeld, HasWritten, Ready, TxnsAreWhole, TokensAreFresh,
                WritesAreSwaps
  <2>3. ClaimsAreFirst' /\ SnapshotsStand'
    BY <2>1 DEF IInv, ClaimsAreFirst, Ready, StillClaimable, ClaimableRow, SnapshotsStand, Approved
  <2> QED BY <2>2, <2>3 DEF IInv
<1> QED BY <1>1, <1>2, <1>3, <1>4, <1>5, <1>6, <1>7, <1>8, <1>9, <1>10 DEF Next

LEMMA IInvHolds == Spec => []IInv
BY InitHasIInv, NextKeepsIInv, PTL DEF Spec

----------------------------------------------------------------------------
(* What it is for. *)

\* The type invariant: the tables, the locks, the open transactions and what the workers
\* remember keep their types, and the CHECK of effect_ledger on claim_owner and claim_token
\* holds.
THEOREM TypeCorrect == Spec => []TypeOK
BY IInvHolds, PTL DEF IInv

\* Whoever races for the effect or for the run's state, one claim and one write commit
\* (test_postgres.py, scenarios 3 and 7).
THEOREM OneClaimOneWriteEver == Spec => []OneClaimOneWrite
<1>1. IInv => OneClaimOneWrite
  BY DEF IInv, WritesAreSwaps, ClaimsAreFirst, OneClaimOneWrite
<1> QED BY <1>1, IInvHolds, PTL

----------------------------------------------------------------------------
(* What a step never does. *)

\* Who changes the row of run_leases.
LEMMA OnlyTheLeaseActions ==
  ASSUME [Next]_vars, lease' # lease
  PROVE  reclaim \/ tick \/ \E p \in Processes : acquire_insert(p) \/ renew(p)
<1>1. Next
  BY DEF vars
<1>2. ASSUME NEW p \in Processes
      PROVE  /\ \A n \in Names : ~acquire_bump(p, n)
             /\ ~write_start(p) /\ ~write_row(p) /\ ~write_commit(p)
             /\ ~claim_start(p) /\ ~claim_row(p) /\ ~claim_commit(p)
             /\ ~deny_commit(p) /\ ~settle(p) /\ ~rollback(p)
             /\ \A a \in Approvals : ~deny_approval(p, a)
  BY DEF acquire_bump, write_start, write_row, NoRow, write_commit, claim_start, claim_row,
         claim_commit, deny_commit, settle, rollback, deny_approval, tables
<1>3. (\A a \in Approvals, s \in {"pending", "approved"} : ~file_approval(a, s)) /\ ~sweep
  BY DEF file_approval, sweep
<1> QED BY <1>1, <1>2, <1>3 DEF Next

\* A fence token that appears in run_leases was never there before, whoever acquires, gives
\* up or dies half-way (test_postgres.py, scenario 7).
THEOREM FenceTokensAlwaysGrow == Spec => FenceTokensGrow
<1>1. ASSUME IInv, [Next]_vars, lease'.fence_token \notin {0, lease.fence_token}
      PROVE  lease'.fence_token > issued
  <2>1. lease \in Lease \cup {NoLease} /\ lease' # lease
    BY <1>1 DEF IInv, TypeOK
  <2>2. ~reclaim /\ ~tick /\ \A p \in Processes : ~renew(p)
    BY <1>1, <2>1 DEF reclaim, tick, renew, NoLease, Lease
  <2>3. PICK p \in Processes : acquire_insert(p)
    BY <1>1, <2>1, <2>2, OnlyTheLeaseActions
  <2>4. lease'.fence_token = txn[p].token /\ txn[p].token = max_fence_token + 1
    BY <1>1, <2>1, <2>3 DEF acquire_insert, IInv, TokensAreFresh
  <2> QED BY <1>1, <2>4 DEF IInv, TypeOK, TokensAreFresh
<1>2. IInv /\ [Next]_vars =>
        [lease'.fence_token \notin {0, lease.fence_token} => lease'.fence_token > issued]_vars
  BY <1>1
<1> QED BY <1>2, IInvHolds, PTL DEF Spec, FenceTokensGrow

\* Who changes the number of claims, and the row of the effect.
LEMMA OnlyTheEffectActions ==
  ASSUME [Next]_vars
  PROVE  /\ claims' # claims => \E p \in Processes : claim_commit(p)
         /\ effect' # effect =>
              sweep \/ tick \/ \E p \in Processes : claim_commit(p) \/ deny_commit(p) \/ settle(p)
<1>1. ASSUME NEW p \in Processes,
             \/ acquire_insert(p) \/ renew(p) \/ write_start(p) \/ write_row(p) \/ write_commit(p)
             \/ claim_start(p) \/ claim_row(p) \/ rollback(p)
             \/ \E n \in Names : acquire_bump(p, n)
             \/ \E a \in Approvals : deny_approval(p, a)
      PROVE  claims' = claims /\ effect' = effect
  BY <1>1 DEF acquire_bump, acquire_insert, renew, write_start, write_row, NoRow, write_commit,
              claim_start, claim_row, rollback, deny_approval, tables, history
<1>2. ASSUME reclaim \/ \E a \in Approvals, s \in {"pending", "approved"} : file_approval(a, s)
      PROVE  claims' = claims /\ effect' = effect
  BY <1>2 DEF reclaim, file_approval, history
<1>3. ASSUME sweep \/ tick \/ \E p \in Processes : deny_commit(p) \/ settle(p)
      PROVE  claims' = claims
  BY <1>3 DEF sweep, tick, deny_commit, settle, history
<1>4. UNCHANGED vars => claims' = claims /\ effect' = effect
  BY DEF vars
<1> QED BY <1>1, <1>2, <1>3, <1>4 DEF Next

\* When the claim of a gated effect commits, its approval still stands, although the claim
\* read it in a snapshot and a denial may have been waiting (test_postgres.py, scenario 4).
THEOREM ClaimsCommitApproved == Spec => ClaimCommitsApproved
<1>1. IInv /\ [Next]_vars =>
        [claims' # claims /\ effect.status = "awaiting_approval" => Approved]_vars
  BY OnlyTheEffectActions, CommitFindsClaimable
<1> QED BY <1>1, IInvHolds, PTL DEF Spec, ClaimCommitsApproved

\* A verdict is final: no settlement, denial, claim or sweep that comes late changes it
\* (test_postgres.py, scenario 6).
THEOREM VerdictsStayFinal == Spec => VerdictsAreFinal
<1>1. ASSUME IInv, [Next]_vars, effect.status \in {"succeeded", "indeterminate", "denied"}
      PROVE  effect'.status = effect.status
  <2>1. ~sweep /\ \A p \in Processes : ~settle(p) /\ ~claim_commit(p)
    BY <1>1, CommitFindsClaimable DEF sweep, settle, MaySettle
  <2>2. tick => effect'.status = effect.status
    BY <1>1 DEF tick, IInv, TypeOK, Effect
  <2>3. \A p \in Processes : deny_commit(p) => effect' = effect
    BY <1>1 DEF deny_commit, DeniesEffect
  <2> QED BY <1>1, <2>1, <2>2, <2>3, OnlyTheEffectActions
<1>2. IInv /\ [Next]_vars =>
        [effect.status \in {"succeeded", "indeterminate", "denied"}
           => effect'.status = effect.status]_vars
  BY <1>1
<1> QED BY <1>2, IInvHolds, PTL DEF Spec, VerdictsAreFinal

=============================================================================
