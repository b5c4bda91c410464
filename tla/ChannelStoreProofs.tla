------------------------- MODULE ChannelStoreProofs -------------------------
(***************************************************************************)
(* Proofs about ChannelStore, for any processes, paths and texts.          *)
(***************************************************************************)
EXTENDS ChannelStore, SequenceTheorems, TLAPS

\* What is pending is what is committed, but for the paths of calls that raised and that of
\* the append under way; there it is what the append found, and after its second statement
\* its text behind that, from the offset on.
PendingIsTheAppends ==
  /\ \A r \in Paths \ left :
       pending[r] = blobs[r] \/ \E p \in Processes : InTransaction(p) /\ proc[p].path = r
  /\ \A p \in Processes :
       LET q == proc[p].path IN
       /\ proc[p].pc = "inserted" => /\ pending[q] \in Seq(STRING)
                                     /\ q \notin left => pending[q] = Bytes(blobs[q])
       /\ proc[p].pc = "updated" =>
            \E b \in Seq(STRING) : /\ pending[q] = b \o proc[p].text
                                   /\ proc[p].offset = Len(b)
                                   /\ q \notin left => b = Bytes(blobs[q])

\* An empty row is that of a failed append, or of one between its two statements.
RowsHaveText ==
  \A q \in Paths :
    /\ blobs[q] = <<>> => q \in halves
    /\ pending[q] = <<>> =>
         q \in halves \/ \E p \in Processes : proc[p].pc = "inserted" /\ proc[p].path = q

\* A key that is about to be posted, or has been, was claimed; nobody else is about it, and
\* before its text is written it was posted nowhere, the open transaction included.
Posting(p, k) == proc[p].pc # "idle" /\ proc[p].key = k

PostsAreClaimed ==
  \A k \in Keys :
    /\ \A p \in Processes : Posting(p, k) => k \in claims
    /\ \A p \in Processes : Posting(p, k) /\ proc[p].pc # "updated" => posting[k] = 0
    /\ \A p, q \in Processes : Posting(p, k) /\ Posting(q, k) => p = q
    /\ posted[k] <= posting[k] /\ posting[k] <= 1
    /\ posting[k] # 0 => k \in claims

IInv == TypeOK /\ PendingIsTheAppends /\ RowsHaveText /\ PostsAreClaimed

----------------------------------------------------------------------------
LEMMA Facts ==
  /\ Idle.pc = "idle" /\ Idle \notin Call
  /\ \A r \in Call : /\ r.pc # "idle" /\ r.path \in Paths /\ r.text \in AllTexts
                     /\ r.key \in Keys \cup {None} /\ r.offset \in Nat
  /\ \A t \in AllTexts : t \in Seq(STRING) /\ t # <<>>
  /\ None \notin Keys /\ None \notin Processes
  /\ \A b \in Seq(STRING) \cup {None} : Bytes(b) \in Seq(STRING)
  /\ None # <<>> /\ \A b \in Seq(STRING) : Bytes(b) = b
<1>1. Idle.pc = "idle"
  BY DEF Idle
<1>2. \A r \in Call : /\ r.pc # "idle" /\ r.path \in Paths /\ r.text \in AllTexts
                      /\ r.key \in Keys \cup {None} /\ r.offset \in Nat
  BY DEF Call
<1>3. \A t \in AllTexts : t \in Seq(STRING) /\ t # <<>>
  BY TextsAreTexts DEF AllTexts
<1>4. None \notin Keys /\ None \notin Processes
  BY NoneIsNothing DEF Keys
<1>5. \A b \in Seq(STRING) \cup {None} : Bytes(b) \in Seq(STRING)
  BY EmptySeq DEF Bytes
<1>6. None # <<>> /\ \A b \in Seq(STRING) : Bytes(b) = b
  BY EmptySeq, NoneIsNothing DEF Bytes
<1> QED BY <1>1, <1>2, <1>3, <1>4, <1>5, <1>6

LEMMA InitHasIInv == Init => IInv
<1> SUFFICES ASSUME Init PROVE IInv
  OBVIOUS
<1>1. \A p \in Processes : proc[p] = Idle /\ proc[p].pc = "idle"
  BY Facts DEF Init
<1>2. TypeOK
  BY <1>1, Facts DEF Init, TypeOK, Blobs, InTransaction
<1>3. RowsHaveText
  BY Facts DEF Init, RowsHaveText
<1>4. PendingIsTheAppends
  BY <1>1 DEF Init, PendingIsTheAppends
<1>5. PostsAreClaimed
  BY <1>1 DEF Init, PostsAreClaimed, Posting
<1> QED BY <1>2, <1>3, <1>4, <1>5 DEF IInv

\* Concatenation of what two texts hold.
LEMMA Appended ==
  ASSUME NEW b \in Seq(STRING), NEW t \in Seq(STRING), t # <<>>
  PROVE  /\ b \o t \in Seq(STRING) /\ b \o t # <<>> /\ Len(b \o t) = Len(b) + Len(t)
         /\ SubSeq(b \o t, 1, Len(b)) = b
         /\ SubSeq(b \o t, Len(b) + 1, Len(b) + Len(t)) = t
<1>1. /\ b \o t \in Seq(STRING) /\ Len(b \o t) = Len(b) + Len(t)
      /\ Len(b) \in Nat /\ Len(t) \in Nat /\ Len(t) # 0
  BY ConcatProperties, LenProperties, EmptySeq
<1>2. b \o t # <<>>
  BY <1>1, EmptySeq
<1>3. SubSeq(b \o t, 1, Len(b)) = b
  <2>1. SubSeq(b \o t, 1, Len(b)) = SubSeq(b, 1, Len(b))
    BY <1>1, SubSeqOfConcat1
  <2> QED BY <2>1, SubSeqFull
<1>4. SubSeq(b \o t, Len(b) + 1, Len(b) + Len(t)) = t
  <2>1. SubSeq(b \o t, Len(b) + 1, Len(b) + Len(t)) = SubSeq(t, 1, Len(t))
    BY <1>1, SubSeqOfConcat2
  <2> QED BY <2>1, SubSeqFull
<1> QED BY <1>1, <1>2, <1>3, <1>4
----------------------------------------------------------------------------
(* The steps. *)

LEMMA CallIsACall ==
  ASSUME TypeOK, NEW p \in Processes, proc[p].pc # "idle"
  PROVE  /\ proc[p] \in Call /\ proc[p].path \in Paths /\ proc[p].text \in AllTexts
         /\ proc[p].text \in Seq(STRING) /\ proc[p].text # <<>>
         /\ proc[p].key \in Keys \cup {None} /\ proc[p].offset \in Nat
<1>1. proc[p] \in Call
  BY Facts DEF TypeOK
<1> QED BY <1>1, Facts

\* The write lock is one.
LEMMA OneWriter ==
  ASSUME TypeOK
  PROVE  \A p \in Processes : /\ InTransaction(p) => writer = p
                              /\ writer = p => InTransaction(p) \/ left # {}
BY Zenon DEF TypeOK

LEMMA NobodyElseWrites ==
  ASSUME TypeOK, NEW p \in Processes, MayLock(p)
  PROVE  \A r \in Processes \ {p} : ~InTransaction(r) /\ writer # r
BY Facts, OneWriter DEF MayLock

\* A call ends, or an append goes one statement further: who is posting what.
LEMMA StepKeepsPosts ==
  ASSUME IInv, NEW p \in Processes, NEW f \in Call \cup {Idle},
         proc' = [proc EXCEPT ![p] = f],
         f.pc = "idle" \/ (f.key = proc[p].key /\ f.pc = "inserted" /\ proc[p].pc = "begin"),
         UNCHANGED claims,
         posted' \in {posted, posting}, posting' \in {posting, posted},
         posted' = posting => posting' = posting
  PROVE  PostsAreClaimed'
<1>1. TypeOK /\ PostsAreClaimed
  BY DEF IInv
<1>2. proc'[p] = f /\ \A r \in Processes \ {p} : proc'[r] = proc[r]
  BY <1>1 DEF TypeOK
<1>3. \A r \in Processes, k \in Keys : Posting(r, k)' =>
        Posting(r, k) /\ (proc'[r].pc # "updated" => proc[r].pc # "updated")
  BY <1>2 DEF Posting
<1>4. ASSUME NEW k \in Keys
      PROVE  posted[k] \in Nat /\ posting[k] \in Nat /\ posted'[k] \in Nat /\ posting'[k] \in Nat
  BY <1>1 DEF TypeOK
<1>5. ASSUME NEW k \in Keys
      PROVE  /\ posted'[k] <= posting'[k] /\ posting'[k] <= 1
             /\ posting'[k] # 0 => posting[k] # 0
  BY <1>1, <1>4 DEF PostsAreClaimed
<1>6. ASSUME NEW k \in Keys, posting[k] = 0 PROVE posting'[k] = 0
  BY <1>4, <1>5, <1>6
<1> QED BY <1>1, <1>3, <1>5, <1>6 DEF PostsAreClaimed

\* One process changes without the lock.
LEMMA ElsewhereKeepsPending ==
  ASSUME IInv, NEW p \in Processes, NEW f \in Call \cup {Idle},
         f.pc \in {"idle", "begin"}, ~InTransaction(p),
         proc' = [proc EXCEPT ![p] = f],
         UNCHANGED <<blobs, writer, pending, left, posted, posting, halves>>,
         claims' \subseteq Keys
  PROVE  /\ TypeOK' /\ PendingIsTheAppends' /\ RowsHaveText'
         /\ proc'[p] = f /\ \A q \in Processes \ {p} : proc'[q] = proc[q]
<1>1. TypeOK /\ PendingIsTheAppends /\ RowsHaveText
  BY DEF IInv
<1>2. proc'[p] = f /\ \A q \in Processes \ {p} : proc'[q] = proc[q]
  BY <1>1 DEF TypeOK
<1>3. proc' \in [Processes -> Call \cup {Idle}]
  BY <1>1 DEF TypeOK
<1>4. \A q \in Processes : InTransaction(q)' <=> InTransaction(q)
  BY <1>2 DEF InTransaction
<1>5. TypeOK'
  BY <1>1, <1>3, <1>4 DEF TypeOK
<1>6. \A q \in Processes : InTransaction(q) => proc'[q] = proc[q]
  BY <1>2
<1>7. PendingIsTheAppends'
  <2>1. ASSUME NEW r \in Paths \ left
        PROVE  pending[r] = blobs[r] \/ \E q \in Processes : InTransaction(q)' /\ proc'[q].path = r
    BY <1>1, <1>4, <1>6 DEF PendingIsTheAppends
  <2>2. ASSUME NEW q \in Processes, proc'[q].pc \in {"inserted", "updated"}
        PROVE  proc'[q] = proc[q]
    BY <1>4, <1>6, <2>2 DEF InTransaction
  <2>3. ASSUME NEW q \in Processes, proc'[q].pc = "inserted"
        PROVE  LET x == proc'[q].path IN
               pending'[x] \in Seq(STRING) /\ (x \notin left' => pending'[x] = Bytes(blobs'[x]))
    <3>1. proc'[q] = proc[q] /\ proc[q].pc = "inserted"
      BY <2>2, <2>3
    <3> QED BY <1>1, <3>1 DEF PendingIsTheAppends
  <2>4. ASSUME NEW q \in Processes, proc'[q].pc = "updated"
        PROVE  LET x == proc'[q].path IN
               \E b \in Seq(STRING) : /\ pending'[x] = b \o proc'[q].text
                                      /\ proc'[q].offset = Len(b)
                                      /\ x \notin left' => b = Bytes(blobs'[x])
    <3>1. proc'[q] = proc[q] /\ proc[q].pc = "updated"
      BY <2>2, <2>4
    <3> QED BY <1>1, <3>1 DEF PendingIsTheAppends
  <2> QED BY <2>1, <2>3, <2>4 DEF PendingIsTheAppends
<1>8. RowsHaveText'
  BY <1>1, <1>6 DEF RowsHaveText, InTransaction
<1> QED BY <1>2, <1>5, <1>7, <1>8

\* A transaction ends with nobody in an append, or stays open: what is left of the types.
LEMMA EndedOrOpen ==
  ASSUME IInv, NEW p \in Processes, MayLock(p), NEW q \in Paths,
         proc' = [proc EXCEPT ![p] = Idle], pending' \in Blobs,
         posting' \in [Keys -> Nat], halves' \in SUBSET Paths, UNCHANGED claims,
         Commit \/ StaysOpen(p, q)
  PROVE  /\ TypeOK' /\ \A r \in Processes : ~InTransaction(r)'
         /\ \A r \in Processes : proc'[r].pc = "idle" \/ (r # p /\ proc'[r] = proc[r])
<1>1. TypeOK
  BY DEF IInv
<1>2. proc'[p] = Idle /\ \A r \in Processes \ {p} : proc'[r] = proc[r]
  BY <1>1 DEF TypeOK
<1>3. \A r \in Processes : ~InTransaction(r)'
  BY <1>1, <1>2, Facts, NobodyElseWrites DEF InTransaction
<1>4. proc' \in [Processes -> Call \cup {Idle}]
  BY <1>1 DEF TypeOK
<1>5. CASE Commit
  BY <1>1, <1>3, <1>4, <1>5, Facts DEF TypeOK, Commit
<1>6. CASE StaysOpen(p, q)
  BY <1>1, <1>3, <1>4, <1>6, Facts DEF TypeOK, StaysOpen
<1> QED BY <1>2, <1>3, <1>5, <1>6, Facts

LEMMA ReplaceKeepsIInv ==
  ASSUME IInv, NEW p \in Processes, NEW q \in Paths, NEW b \in AllTexts \cup {None},
         Replace(p, q, b)
  PROVE  IInv'
<1>1. TypeOK /\ PendingIsTheAppends /\ RowsHaveText /\ PostsAreClaimed
  BY DEF IInv
<1>2. b \in Seq(STRING) \cup {None} /\ b # <<>>
  BY Facts
<1>3. /\ proc[p].pc = "idle" /\ MayLock(p) /\ pending' = [pending EXCEPT ![q] = b]
      /\ UNCHANGED <<proc, claims, posting, halves>>
      /\ Commit \/ StaysOpen(p, q)
  BY DEF Replace
<1>4. pending' \in Blobs
  BY <1>1, <1>2, <1>3 DEF TypeOK, Blobs
<1>5. proc[p] = Idle
  BY <1>1, <1>3, Facts DEF TypeOK
<1>6. proc' = [proc EXCEPT ![p] = Idle]
  BY <1>1, <1>3, <1>5 DEF TypeOK
<1>7. posting' \in [Keys -> Nat] /\ halves' \in SUBSET Paths
  BY <1>1, <1>3 DEF TypeOK
<1>8. TypeOK' /\ \A r \in Processes : ~InTransaction(r)'
  BY <1>3, <1>4, <1>6, <1>7, EndedOrOpen
<1>9. \A r \in Processes : ~InTransaction(r)
  BY <1>3, <1>8 DEF InTransaction
<1>10. \A r \in Paths \ {q} : pending'[r] = pending[r]
  BY <1>1, <1>3 DEF TypeOK, Blobs
<1>11. \A r \in Paths : blobs'[r] = pending'[r] \/ (blobs'[r] = blobs[r] /\ left' = left \cup {q})
  BY <1>3 DEF Commit, StaysOpen
<1>12. PendingIsTheAppends'
  <2>1. \A r \in Paths \ left' : pending'[r] = blobs'[r]
    BY <1>1, <1>9, <1>10, <1>11 DEF PendingIsTheAppends
  <2> QED BY <1>8, <2>1 DEF PendingIsTheAppends, InTransaction
<1>13. RowsHaveText'
  <2>1. \A r \in Paths : pending'[r] = <<>> => r \in halves
    <3>1. pending'[q] = b
      BY <1>1, <1>3 DEF TypeOK, Blobs
    <3> QED BY <1>1, <1>2, <1>9, <1>10, <3>1 DEF RowsHaveText, InTransaction
  <2>2. \A r \in Paths : blobs'[r] = <<>> => r \in halves
    BY <1>1, <1>11, <2>1 DEF RowsHaveText
  <2> QED BY <1>3, <2>1, <2>2 DEF RowsHaveText
<1>14. PostsAreClaimed'
  BY <1>3, <1>6, Facts, StepKeepsPosts DEF Commit, StaysOpen
<1> QED BY <1>8, <1>12, <1>13, <1>14 DEF IInv

\* An append begins: somebody's, or that of a claim just won.
LEMMA CallingKeepsIInv ==
  ASSUME IInv, NEW p \in Processes, NEW q \in Paths, NEW t \in AllTexts, NEW k \in Keys \cup {None},
         Calls(p, q, t, k),
         k = None => claims' = claims,
         k # None => Wins(k) /\ claims' = claims \cup {k}
  PROVE  IInv'
<1> DEFINE f == [pc |-> "begin", path |-> q, text |-> t, key |-> k, offset |-> 0]
<1>1. TypeOK /\ PostsAreClaimed
  BY DEF IInv
<1>2. /\ proc[p].pc = "idle" /\ proc' = [proc EXCEPT ![p] = f]
      /\ UNCHANGED <<blobs, writer, pending, left, posted, posting, halves>>
  BY DEF Calls
<1>3. f \in Call /\ f.pc = "begin" /\ f.key = k
  BY DEF Call
<1> HIDE DEF f
<1>4. claims' \subseteq Keys
  BY <1>1 DEF TypeOK
<1>5. /\ TypeOK' /\ PendingIsTheAppends' /\ RowsHaveText'
      /\ proc'[p] = f /\ \A r \in Processes \ {p} : proc'[r] = proc[r]
  BY <1>2, <1>3, <1>4, ElsewhereKeepsPending DEF InTransaction
<1>6. PostsAreClaimed'
  <2> SUFFICES ASSUME NEW j \in Keys
               PROVE  /\ \A r \in Processes : Posting(r, j)' => j \in claims'
                      /\ \A r \in Processes : Posting(r, j)' /\ proc'[r].pc # "updated" => posting[j] = 0
                      /\ \A r, d \in Processes : Posting(r, j)' /\ Posting(d, j)' => r = d
                      /\ posted[j] <= posting[j] /\ posting[j] <= 1
                      /\ posting[j] # 0 => j \in claims'
    BY <1>2 DEF PostsAreClaimed
  <2>1. \A r \in Processes \ {p} : Posting(r, j)' <=> Posting(r, j)
    BY <1>5 DEF Posting
  <2>2. Posting(p, j)' <=> j = k
    BY <1>3, <1>5 DEF Posting
  <2>3. CASE j = k
    <3>1. k # None /\ j \notin claims /\ j \in claims'
      BY <2>3, Facts DEF Wins
    <3>2. posting[j] = 0 /\ \A r \in Processes : ~Posting(r, j)
      BY <1>1, <3>1 DEF PostsAreClaimed
    <3>3. posted[j] <= posting[j] /\ posting[j] <= 1
      BY <1>1 DEF PostsAreClaimed
    <3> QED BY <2>1, <3>1, <3>2, <3>3
  <2>4. CASE j # k
    <3>1. j \in claims' <=> j \in claims
      BY <2>4
    <3>2. \A r \in Processes : Posting(r, j)' => Posting(r, j) /\ proc'[r] = proc[r]
      BY <1>5, <2>1, <2>2, <2>4
    <3> QED BY <1>1, <2>4, <3>1, <3>2 DEF PostsAreClaimed
  <2> QED BY <2>3, <2>4
<1> QED BY <1>5, <1>6 DEF IInv

LEMMA InsertKeepsIInv ==
  ASSUME IInv, NEW p \in Processes, append_insert(p)
  PROVE  IInv'
<1> DEFINE q == proc[p].path
           b == Bytes(pending[q])
           f == [proc[p] EXCEPT !.pc = "inserted"]
<1>1. TypeOK /\ PendingIsTheAppends /\ RowsHaveText /\ proc[p].pc = "begin"
  BY DEF IInv, append_insert
<1>2. proc[p] \in Call /\ q \in Paths
  BY <1>1, CallIsACall
<1>3. f \in Call /\ f.pc = "inserted" /\ f.path = q /\ f.key = proc[p].key
  BY <1>2 DEF Call
<1>4. /\ proc' = [proc EXCEPT ![p] = f] /\ MayLock(p) /\ writer' = p
      /\ pending' = [pending EXCEPT ![q] = b]
      /\ UNCHANGED <<blobs, left, claims, posted, posting, halves>>
  BY DEF append_insert
<1>5. b \in Seq(STRING)
  BY <1>1, <1>2, Facts DEF TypeOK, Blobs
<1> HIDE DEF f
<1>6. proc'[p] = f /\ \A r \in Processes \ {p} : proc'[r] = proc[r]
  BY <1>1, <1>4 DEF TypeOK
<1>7. pending' \in Blobs /\ pending'[q] = b /\ \A r \in Paths \ {q} : pending'[r] = pending[r]
  BY <1>1, <1>2, <1>4, <1>5 DEF TypeOK, Blobs
<1>8. \A r \in Processes : ~InTransaction(r)
  BY <1>1, <1>4, NobodyElseWrites DEF InTransaction
<1>9. \A r \in Processes : InTransaction(r)' <=> r = p
  BY <1>3, <1>6, <1>8 DEF InTransaction
<1>10. proc' \in [Processes -> Call \cup {Idle}]
  BY <1>1, <1>3, <1>4 DEF TypeOK
<1>11. TypeOK'
  BY <1>1, <1>4, <1>7, <1>9, <1>10, Facts DEF TypeOK
<1>12. \A r \in Paths \ left : pending[r] = blobs[r]
  BY <1>1, <1>8 DEF PendingIsTheAppends
<1>13. PendingIsTheAppends'
  <2>1. \A r \in Paths \ left : pending'[r] = blobs[r] \/ r = q
    BY <1>7, <1>12
  <2>2. q \notin left => b = Bytes(blobs[q])
    BY <1>2, <1>12
  <2>3. ASSUME NEW r \in Processes, proc'[r].pc \in {"inserted", "updated"}
        PROVE  r = p /\ proc'[r] = f
    BY <1>6, <1>9, <2>3 DEF InTransaction
  <2> QED BY <1>3, <1>4, <1>5, <1>6, <1>7, <1>9, <2>1, <2>2, <2>3 DEF PendingIsTheAppends
<1>14. RowsHaveText'
  <2>1. \A r \in Paths \ {q} : pending'[r] = <<>> => r \in halves
    BY <1>1, <1>7, <1>8 DEF RowsHaveText, InTransaction
  <2>2. proc'[p].pc = "inserted" /\ proc'[p].path = q
    BY <1>3, <1>6
  <2> QED BY <1>1, <1>4, <2>1, <2>2 DEF RowsHaveText
<1>15. PostsAreClaimed'
  BY <1>1, <1>3, <1>4, StepKeepsPosts
<1> QED BY <1>11, <1>13, <1>14, <1>15 DEF IInv

LEMMA UpdateKeepsIInv ==
  ASSUME IInv, NEW p \in Processes, append_update(p)
  PROVE  IInv'
<1> DEFINE q == proc[p].path
           t == proc[p].text
           k == proc[p].key
           b == pending[q]
           f == [proc[p] EXCEPT !.pc = "updated", !.offset = Len(b)]
<1>1. /\ TypeOK /\ PendingIsTheAppends /\ RowsHaveText /\ PostsAreClaimed
      /\ proc[p].pc = "inserted" /\ InTransaction(p) /\ writer = p
  BY OneWriter DEF IInv, append_update, InTransaction
<1>2. proc[p] \in Call /\ q \in Paths /\ t \in Seq(STRING) /\ t # <<>> /\ k \in Keys \cup {None}
  BY <1>1, CallIsACall
<1>3. b \in Seq(STRING) /\ (q \notin left => b = Bytes(blobs[q]))
  BY <1>1 DEF PendingIsTheAppends
<1>4. b \o t \in Seq(STRING) /\ b \o t # <<>> /\ Len(b \o t) - Len(t) = Len(b) /\ Len(b) \in Nat
  BY <1>2, <1>3, Appended, LenProperties
<1>5. /\ proc' = [proc EXCEPT ![p] = f]
      /\ pending' = [pending EXCEPT ![q] = b \o t]
      /\ posting' = IF k = None THEN posting ELSE [posting EXCEPT ![k] = posting[k] + 1]
      /\ UNCHANGED <<blobs, writer, left, claims, posted, halves>>
  BY <1>4 DEF append_update
<1>6. /\ f \in Call /\ f.pc = "updated" /\ f.path = q /\ f.key = k
      /\ f.text = t /\ f.offset = Len(b)
  BY <1>2, <1>4 DEF Call
<1>7. pending' \in Blobs /\ pending'[q] = b \o t /\ \A r \in Paths \ {q} : pending'[r] = pending[r]
  BY <1>1, <1>2, <1>4, <1>5 DEF TypeOK, Blobs
<1> HIDE DEF f, b
<1>8. proc'[p] = f /\ \A r \in Processes \ {p} : proc'[r] = proc[r]
  BY <1>1, <1>5 DEF TypeOK
<1>9. \A r \in Processes : /\ InTransaction(r)' <=> r = p
                           /\ InTransaction(r) <=> r = p
  BY <1>1, <1>6, <1>8, OneWriter DEF InTransaction
<1>10. proc' \in [Processes -> Call \cup {Idle}]
  BY <1>1, <1>5, <1>6 DEF TypeOK
<1>11. posting' \in [Keys -> Nat]
  BY <1>1, <1>2, <1>5 DEF TypeOK
<1>12. TypeOK'
  BY <1>1, <1>5, <1>7, <1>9, <1>10, <1>11, Facts DEF TypeOK
<1>13. PendingIsTheAppends'
  <2>1. \A r \in Paths \ left : pending'[r] = blobs[r] \/ r = q
    BY <1>1, <1>7, <1>9 DEF PendingIsTheAppends
  <2>2. ASSUME NEW r \in Processes, proc'[r].pc \in {"inserted", "updated"}
        PROVE  r = p /\ proc'[r] = f
    BY <1>8, <1>9, <2>2 DEF InTransaction
  <2>3. \A r \in Processes : proc'[r].pc # "inserted"
    BY <1>6, <2>2
  <2>4. ASSUME NEW r \in Processes, proc'[r].pc = "updated"
        PROVE  \E c \in Seq(STRING) :
                 /\ pending'[proc'[r].path] = c \o proc'[r].text
                 /\ proc'[r].offset = Len(c)
                 /\ proc'[r].path \notin left' => c = Bytes(blobs'[proc'[r].path])
    <3>1. proc'[r].path = q /\ proc'[r].text = t /\ proc'[r].offset = Len(b)
      BY <1>6, <2>2, <2>4
    <3>2. blobs' = blobs /\ left' = left /\ pending'[q] = b \o t
      BY <1>5, <1>7
    <3> QED BY <1>3, <3>1, <3>2, Zenon
  <2>5. \A r \in Paths \ left' : pending'[r] = blobs'[r] \/
                                \E c \in Processes : InTransaction(c)' /\ proc'[c].path = r
    <3>1. InTransaction(p)' /\ proc'[p].path = q
      BY <1>6, <1>8, <1>9
    <3>2. blobs' = blobs /\ left' = left
      BY <1>5
    <3> QED BY <2>1, <3>1, <3>2, Zenon
  <2> QED BY <2>3, <2>4, <2>5 DEF PendingIsTheAppends
<1>14. RowsHaveText'
  <2>1. \A r \in Paths \ {q} : pending'[r] = <<>> => r \in halves
    BY <1>1, <1>7, <1>9 DEF RowsHaveText, InTransaction
  <2> QED BY <1>1, <1>4, <1>5, <1>7, <2>1 DEF RowsHaveText
<1>15. PostsAreClaimed'
  <2> SUFFICES ASSUME NEW j \in Keys
               PROVE  /\ \A r \in Processes : Posting(r, j)' => j \in claims
                      /\ \A r \in Processes : Posting(r, j)' /\ proc'[r].pc # "updated" => posting'[j] = 0
                      /\ \A r, d \in Processes : Posting(r, j)' /\ Posting(d, j)' => r = d
                      /\ posted[j] <= posting'[j] /\ posting'[j] <= 1
                      /\ posting'[j] # 0 => j \in claims
    BY <1>5 DEF PostsAreClaimed
  <2>1. \A r \in Processes : Posting(r, j)' <=> Posting(r, j)
    BY <1>1, <1>6, <1>8 DEF Posting
  <2>2. posted[j] \in Nat /\ posting[j] \in Nat
    BY <1>1 DEF TypeOK
  <2>3. CASE j = k
    <3>1. Posting(p, j)
      BY <1>1, <2>3 DEF Posting
    <3>2. /\ posting[j] = 0 /\ posted[j] <= posting[j] /\ j \in claims
          /\ \A r \in Processes : Posting(r, j) => r = p
      BY <1>1, <3>1 DEF PostsAreClaimed
    <3>3. posting'[j] = 1
      BY <1>1, <1>5, <2>3, <3>2, Facts DEF TypeOK
    <3> QED BY <1>6, <1>8, <2>1, <2>2, <3>2, <3>3
  <2>4. CASE j # k
    <3>1. posting'[j] = posting[j]
      BY <1>1, <1>5, <2>4 DEF TypeOK
    <3>2. \A r \in Processes : Posting(r, j)' => r # p /\ proc'[r] = proc[r]
      BY <1>6, <1>8, <2>4 DEF Posting
    <3> QED BY <1>1, <2>1, <3>1, <3>2 DEF PostsAreClaimed
  <2> QED BY <2>3, <2>4
<1> QED BY <1>12, <1>13, <1>14, <1>15 DEF IInv

LEMMA UpdateFailsKeepsIInv ==
  ASSUME IInv, NEW p \in Processes, append_update_fails(p)
  PROVE  IInv'
<1> DEFINE q == proc[p].path
<1>1. /\ TypeOK /\ PendingIsTheAppends /\ RowsHaveText
      /\ proc[p].pc = "inserted" /\ InTransaction(p) /\ writer = p
  BY OneWriter DEF IInv, append_update_fails, InTransaction
<1>2. q \in Paths
  BY <1>1, CallIsACall
<1>3. /\ StaysOpen(p, q) /\ proc' = [proc EXCEPT ![p] = Idle]
      /\ halves' = IF pending[q] = <<>> THEN halves \cup {q} ELSE halves
      /\ UNCHANGED <<pending, claims, posting>> /\ MayLock(p)
  BY <1>1 DEF append_update_fails, MayLock
<1>4. pending' \in Blobs /\ posting' \in [Keys -> Nat] /\ halves' \in SUBSET Paths
  BY <1>1, <1>2, <1>3 DEF TypeOK
<1>5. TypeOK' /\ \A r \in Processes : ~InTransaction(r)'
  BY <1>2, <1>3, <1>4, EndedOrOpen
<1>6. \A r \in Processes : InTransaction(r) => r = p
  BY <1>1, OneWriter
<1>7. PendingIsTheAppends'
  <2>1. \A r \in Paths \ left' : pending'[r] = blobs'[r]
    BY <1>1, <1>3, <1>6 DEF PendingIsTheAppends, StaysOpen
  <2> QED BY <1>5, <2>1 DEF PendingIsTheAppends, InTransaction
<1>8. RowsHaveText'
  <2>1. \A r \in Paths : pending[r] = <<>> => r \in halves'
    BY <1>1, <1>3, <1>6 DEF RowsHaveText, InTransaction
  <2> QED BY <1>1, <1>3, <2>1 DEF RowsHaveText, StaysOpen
<1>9. PostsAreClaimed'
  BY <1>3, Facts, StepKeepsPosts DEF StaysOpen
<1> QED BY <1>5, <1>7, <1>8, <1>9 DEF IInv

LEMMA CommitKeepsIInv ==
  ASSUME IInv, NEW p \in Processes, append_commit(p)
  PROVE  IInv'
<1> DEFINE q == proc[p].path
<1>1. /\ TypeOK /\ PendingIsTheAppends /\ RowsHaveText
      /\ proc[p].pc = "updated" /\ InTransaction(p) /\ writer = p
  BY OneWriter DEF IInv, append_commit, InTransaction
<1>2. q \in Paths
  BY <1>1, CallIsACall
<1>3. /\ Commit \/ StaysOpen(p, q)
      /\ proc' = [proc EXCEPT ![p] = Idle]
      /\ UNCHANGED <<pending, claims, posting, halves>> /\ MayLock(p)
  BY <1>1 DEF append_commit, MayLock
<1>4. pending' \in Blobs /\ posting' \in [Keys -> Nat] /\ halves' \in SUBSET Paths
  BY <1>1, <1>3 DEF TypeOK
<1>5. TypeOK' /\ \A r \in Processes : ~InTransaction(r)'
  BY <1>2, <1>3, <1>4, EndedOrOpen
<1>6. \A r \in Processes : InTransaction(r) => r = p
  BY <1>1, OneWriter
<1>7. PendingIsTheAppends'
  <2>1. \A r \in Paths \ left' : pending'[r] = blobs'[r]
    BY <1>1, <1>3, <1>6 DEF PendingIsTheAppends, StaysOpen, Commit
  <2> QED BY <1>5, <2>1 DEF PendingIsTheAppends, InTransaction
<1>8. RowsHaveText'
  <2>1. \A r \in Paths : pending[r] = <<>> => r \in halves
    BY <1>1, <1>6 DEF RowsHaveText, InTransaction
  <2> QED BY <1>1, <1>3, <2>1 DEF RowsHaveText, StaysOpen, Commit
<1>9. PostsAreClaimed'
  BY <1>3, Facts, StepKeepsPosts DEF StaysOpen, Commit
<1> QED BY <1>5, <1>7, <1>8, <1>9 DEF IInv

LEMMA BusyKeepsIInv ==
  ASSUME IInv, NEW p \in Processes, busy(p)
  PROVE  IInv'
<1>1. TypeOK
  BY DEF IInv
<1>2. /\ proc[p].pc = "begin" /\ proc' = [proc EXCEPT ![p] = Idle]
      /\ UNCHANGED <<blobs, writer, pending, left, claims, posted, posting, halves>>
  BY DEF busy
<1>3. TypeOK' /\ PendingIsTheAppends' /\ RowsHaveText'
  BY <1>1, <1>2, Facts, ElsewhereKeepsPending DEF InTransaction, TypeOK
<1>4. PostsAreClaimed'
  BY <1>2, Facts, StepKeepsPosts
<1> QED BY <1>3, <1>4 DEF IInv

LEMMA CrashKeepsIInv ==
  ASSUME IInv, NEW p \in Processes, crash(p)
  PROVE  IInv'
<1>1. TypeOK /\ RowsHaveText
  BY DEF IInv
<1>2. proc' = [proc EXCEPT ![p] = Idle] /\ UNCHANGED <<blobs, claims, posted, halves>>
  BY DEF crash
<1>3. CASE writer = p
  <2>1. writer' = None /\ pending' = blobs /\ posting' = posted /\ left' = {}
    BY <1>3 DEF crash
  <2>2. proc'[p] = Idle /\ \A r \in Processes \ {p} : proc'[r] = proc[r]
    BY <1>1, <1>2 DEF TypeOK
  <2>3. \A r \in Processes : ~InTransaction(r)'
    BY <1>1, <1>3, <2>2, Facts, OneWriter DEF InTransaction
  <2>4. proc' \in [Processes -> Call \cup {Idle}]
    BY <1>1, <1>2 DEF TypeOK
  <2>5. TypeOK'
    BY <1>1, <1>2, <2>1, <2>3, <2>4, Facts DEF TypeOK
  <2>6. PendingIsTheAppends'
    BY <1>2, <2>1, <2>3 DEF PendingIsTheAppends, InTransaction
  <2>7. RowsHaveText'
    BY <1>1, <1>2, <2>1 DEF RowsHaveText
  <2>8. PostsAreClaimed'
    BY <1>2, <2>1, Facts, StepKeepsPosts
  <2> QED BY <2>5, <2>6, <2>7, <2>8 DEF IInv
<1>4. CASE writer # p
  <2>1. UNCHANGED <<writer, pending, posting, left>> /\ ~InTransaction(p)
    BY <1>1, <1>4, OneWriter DEF crash
  <2>2. TypeOK' /\ PendingIsTheAppends' /\ RowsHaveText'
    BY <1>1, <1>2, <2>1, Facts, ElsewhereKeepsPending DEF TypeOK
  <2>3. PostsAreClaimed'
    BY <1>2, <2>1, Facts, StepKeepsPosts
  <2> QED BY <2>2, <2>3 DEF IInv
<1> QED BY <1>3, <1>4

LEMMA NextKeepsIInv == IInv /\ [Next]_vars => IInv'
<1> SUFFICES ASSUME IInv, [Next]_vars PROVE IInv'
  OBVIOUS
<1>1. ASSUME NEW p \in Processes, NEW q \in Paths, delete(p, q) PROVE IInv'
  BY <1>1, ReplaceKeepsIInv DEF delete
<1>2. ASSUME NEW p \in Processes, NEW q \in Paths, NEW t \in Texts, write(p, q, t) PROVE IInv'
  <2>1. t \in AllTexts
    BY DEF AllTexts
  <2> QED BY <1>2, <2>1, ReplaceKeepsIInv DEF write
<1>3. ASSUME NEW p \in Processes, NEW q \in Paths, NEW t \in Texts, append(p, q, t) PROVE IInv'
  <2>1. t \in AllTexts
    BY DEF AllTexts
  <2> QED BY <1>3, <2>1, CallingKeepsIInv DEF append
<1>4. ASSUME NEW p \in Processes, NEW e \in Envelopes, post_with_claim(p, e) PROVE IInv'
  <2>1. e.path \in Paths /\ e.text \in AllTexts /\ e.key \in Keys /\ e.key # None
    BY EnvelopesArePosts, NoneIsNothing DEF AllTexts, Keys
  <2> QED BY <1>4, <2>1, CallingKeepsIInv DEF post_with_claim
<1>5. ASSUME NEW p \in Processes,
             \/ append_insert(p) \/ append_update(p) \/ append_update_fails(p)
             \/ append_commit(p) \/ busy(p) \/ crash(p)
      PROVE  IInv'
  BY <1>5, InsertKeepsIInv, UpdateKeepsIInv, UpdateFailsKeepsIInv, CommitKeepsIInv,
     BusyKeepsIInv, CrashKeepsIInv
<1>6. CASE UNCHANGED vars
  <2>1. UNCHANGED <<blobs, writer, pending, left, proc, claims, posted, posting, halves>>
    BY <1>6 DEF vars
  <2>2. TypeOK'
    BY <2>1 DEF IInv, TypeOK, InTransaction
  <2>3. PendingIsTheAppends' /\ RowsHaveText'
    BY <2>1 DEF IInv, PendingIsTheAppends, RowsHaveText, InTransaction
  <2>4. PostsAreClaimed'
    BY <2>1 DEF IInv, PostsAreClaimed, Posting
  <2> QED BY <2>2, <2>3, <2>4 DEF IInv
<1> QED BY <1>1, <1>2, <1>3, <1>4, <1>5, <1>6 DEF Next

LEMMA IInvHolds == Spec => []IInv
BY InitHasIInv, NextKeepsIInv, PTL DEF Spec

LEMMA IInvMeans == IInv => NoHalfAppend /\ PostedOnce
<1> SUFFICES ASSUME IInv PROVE NoHalfAppend /\ PostedOnce
  OBVIOUS
<1>1. NoHalfAppend
  <2> SUFFICES ASSUME NEW p \in Processes, NEW q \in Paths, ~InTransaction(p), read(p, q) = <<>>
               PROVE  q \in halves
    BY DEF NoHalfAppend
  <2>1. CASE writer = p
    <3>1. \A r \in Processes : proc[r].pc # "inserted"
      BY <2>1, Facts, OneWriter DEF IInv, InTransaction
    <3> QED BY <2>1, <3>1 DEF read, IInv, RowsHaveText
  <2>2. CASE writer # p
    BY <2>2 DEF read, IInv, RowsHaveText
  <2> QED BY <2>1, <2>2
<1>2. PostedOnce
  <2> SUFFICES ASSUME NEW k \in Keys PROVE posted[k] <= 1
    BY DEF PostedOnce
  <2>1. posted[k] \in Nat /\ posting[k] \in Nat /\ posted[k] <= posting[k] /\ posting[k] <= 1
    BY DEF IInv, TypeOK, PostsAreClaimed
  <2> QED BY <2>1
<1> QED BY <1>1, <1>2

LEMMA CommitExtends ==
  ASSUME IInv, NEW p \in Processes, append_commit(p), blobs' # blobs
  PROVE  AppendExtends(p)
<1> DEFINE q == proc[p].path
           t == proc[p].text
<1>1. /\ TypeOK /\ PendingIsTheAppends
      /\ proc[p].pc = "updated" /\ InTransaction(p) /\ writer = p
  BY OneWriter DEF IInv, append_commit, InTransaction
<1>2. q \in Paths /\ t \in Seq(STRING) /\ t # <<>>
  BY <1>1, CallIsACall
<1>3. blobs' = pending
  BY DEF append_commit, Commit, StaysOpen
<1>4. PICK b \in Seq(STRING) : /\ pending[q] = b \o t /\ proc[p].offset = Len(b)
                               /\ q \notin left => b = Bytes(blobs[q])
  BY <1>1 DEF PendingIsTheAppends
<1>5. b \o t \in Seq(STRING) /\ Len(b) \in Nat
  BY <1>2, Appended, LenProperties
<1>6. Bytes(blobs'[q]) = b \o t /\ Len(blobs'[q]) = Len(b) + Len(t)
  <2>1. blobs'[q] = b \o t
    BY <1>3, <1>4
  <2>2. Len(b \o t) = Len(b) + Len(t)
    BY <1>2, Appended
  <2> QED BY <1>5, <2>1, <2>2, Facts
<1>7. range(blobs'[q], 0, Len(b)) = b
  BY <1>2, <1>5, <1>6, Appended DEF range
<1>8. range(blobs'[q], Len(b), Len(b) + Len(t)) = t
  <2>1. SubSeq(b \o t, Len(b) + 1, Len(b) + Len(t)) = t
    BY <1>2, Appended
  <2> QED BY <1>6, <2>1, Zenon DEF range
<1>9. \A r \in Paths \ (left \cup {q}) : blobs'[r] = blobs[r]
  <2>1. \A r \in Processes : InTransaction(r) => r = p
    BY <1>1, OneWriter
  <2> QED BY <1>1, <1>3, <2>1 DEF PendingIsTheAppends
<1> QED BY <1>4, <1>6, <1>7, <1>8, <1>9 DEF AppendExtends

\* Who else changes the table finds the lock taken.
LEMMA OnlyTheCommitWrites ==
  ASSUME IInv, [Next]_vars, NEW p \in Processes, proc[p].pc = "updated", blobs' # blobs
  PROVE  append_commit(p)
<1>1. writer = p /\ writer # None /\ \A r \in Processes : InTransaction(r) => r = p
  BY Facts, OneWriter DEF IInv, InTransaction
<1>2. ASSUME NEW r \in Processes, append_commit(r) PROVE append_commit(p)
  <2>1. InTransaction(r)
    BY <1>2 DEF append_commit, InTransaction
  <2> QED BY <1>1, <1>2, <2>1
<1>3. \A r \in Processes, q \in Paths : ~delete(r, q) /\ \A t \in Texts : ~write(r, q, t)
  BY <1>1 DEF delete, write, Replace, MayLock
<1>4. \A r \in Processes : \/ append_insert(r) \/ append_update(r) \/ append_update_fails(r)
                           \/ busy(r) \/ crash(r)
                           \/ \E q \in Paths, t \in Texts : append(r, q, t)
                           \/ \E e \in Envelopes : post_with_claim(r, e)
                           => blobs' = blobs
  BY DEF append_insert, append_update, append_update_fails, StaysOpen, busy, crash, append,
         post_with_claim, Calls
<1>5. Next
  BY DEF vars
<1> QED BY <1>2, <1>3, <1>4, <1>5 DEF Next

----------------------------------------------------------------------------
(* What it is for. *)

\* The type invariant: the table, its uncommitted copy, the lock and the calls in flight
\* hold what their types say, and only the holder of the lock has anything pending.
THEOREM TypeCorrect == Spec => []TypeOK
BY IInvHolds, PTL DEF IInv

\* Nobody reads the empty row that the first statement of an append makes, unless the second
\* raised (sqlstore.py:77-86).
THEOREM NoHalfAppendEver == Spec => []NoHalfAppend
BY IInvHolds, IInvMeans, PTL

\* A key is posted once: it was claimed before, and a claim is won once, although claim and
\* post are in two databases, and a commit that raised may be made up for by a later one
\* (test_ownership.py:53-57).
THEOREM PostedOnceAlways == Spec => []PostedOnce
BY IInvHolds, IInvMeans, PTL

\* What an append commits is what was there at that moment and its text, at the offset it
\* returns, although the offset was computed two statements earlier; with it go only the
\* writes of calls on the same connection that raised (sqlstore.py:70-86).
THEOREM AppendsAlwaysExtend == Spec => AppendsExtend
<1>1. ASSUME IInv, [Next]_vars, NEW p \in Processes, proc[p].pc = "updated", blobs' # blobs
      PROVE  AppendExtends(p)
  BY <1>1, OnlyTheCommitWrites, CommitExtends
<1>2. IInv /\ [Next]_vars =>
        [\A p \in Processes : proc[p].pc = "updated" /\ blobs' # blobs => AppendExtends(p)]_vars
  BY <1>1
<1> QED BY <1>2, IInvHolds, PTL DEF Spec, AppendsExtend

\* list leaves nothing out, whatever is in the table: an entry below a directory is taken
\* for one by LIKE, and its name is the segment after the directory's
\* (sqlstore.py:48-59).
THEOREM ListsAreComplete == Spec => []ListIsComplete
<1>1. ListIsComplete
  <2> SUFFICES ASSUME NEW p \in Processes, NEW q \in Paths, NEW d \in Dirs,
                      exists(p, q), IsStrictPrefix(d, q)
               PROVE  <<q[Len(d) + 1], Len(q) > Len(d) + 1>> \in list(p, d)
    BY DEF ListIsComplete
  <2>1. Like(d, q)
    BY DEF Like
  <2> QED BY <2>1 DEF list
<1> QED BY <1>1, PTL

============================================================================
