--------------------------- MODULE EpochLogProofs ---------------------------
(***************************************************************************)
(* Proofs about EpochLog, for logs of any length: what a reader folds out  *)
(* of the whole log is what carrying out the rewinds one by one would have *)
(* left, because sequence and epoch order agree and a rewind only looks    *)
(* back.                                                                   *)
(***************************************************************************)
EXTENDS EpochLog, TLAPS

\* The epochs of the log are those the run has been through.
EpochsSoFar == \A i \in DOMAIN run_events : run_events[i].epoch <= current_epoch

\* A rewind supersedes epochs that were open before its own.
CutsLookBack == \A i \in DOMAIN run_events :
                  IsRewind(run_events[i]) => run_events[i].to_epoch < run_events[i].epoch

\* The inductive invariant.
IInv == /\ TypeOK
        /\ SeqOrderIsEpochOrder
        /\ EpochsSoFar
        /\ CutsLookBack
        /\ EpochsAreDense
        /\ LiveIsTheBranch

----------------------------------------------------------------------------
(* The operators. *)

\* What Append does to a log, row by row.
LEMMA AppendedLog ==
  ASSUME NEW log \in Seq(Event), NEW e \in Event
  PROVE  /\ Append(log, e) \in Seq(Event)
         /\ Len(Append(log, e)) = Len(log) + 1
         /\ DOMAIN Append(log, e) = DOMAIN log \cup {Len(log) + 1}
         /\ Len(log) + 1 \notin DOMAIN log
         /\ DOMAIN log = 1..Len(log)
         /\ Len(log) \in Nat
         /\ \A i \in DOMAIN log : Append(log, e)[i] = log[i] /\ log[i] \in Event
         /\ Append(log, e)[Len(log) + 1] = e
  OBVIOUS

\* An ordinary row is a row of the table.
LEMMA OrdinaryIsEvent ==
  ASSUME NEW s \in Nat, NEW n \in Nat
  PROVE  /\ Ordinary(s, n) \in Event
         /\ Ordinary(s, n).seq = s /\ Ordinary(s, n).epoch = n
         /\ ~IsRewind(Ordinary(s, n))
  BY DEF Ordinary, IsRewind, Event

\* COALESCE(MAX(seq), 0) is a number no row of an ordered log exceeds.
LEMMA LastSeqIsMax ==
  ASSUME NEW log \in Seq(Event),
         \A i, j \in DOMAIN log : i < j => log[i].seq < log[j].seq
  PROVE  /\ LastSeq(log) \in Nat
         /\ \A i \in DOMAIN log : log[i].seq <= LastSeq(log)
<1>1. CASE log = <<>>
  BY <1>1 DEF LastSeq
<1>2. CASE log # <<>>
  <2> DEFINE seqs == {log[i].seq : i \in DOMAIN log}
             Top(m) == \A i \in DOMAIN log : log[i].seq <= m
  <2>1. DOMAIN log = 1..Len(log) /\ Len(log) \in Nat /\ Len(log) \in DOMAIN log
    BY <1>2
  <2>2. \A i \in DOMAIN log : log[i].seq \in Nat
    <3>1. \A i \in DOMAIN log : log[i] \in Event
      OBVIOUS
    <3>2. QED
      BY <3>1 DEF Event
  <2>3. log[Len(log)].seq \in seqs /\ Top(log[Len(log)].seq)
    <3>1. ASSUME NEW i \in DOMAIN log PROVE log[i].seq <= log[Len(log)].seq
      <4>1. i = Len(log) \/ i < Len(log)
        BY <2>1
      <4>2. QED
        BY <4>1, <2>1, <2>2
    <3>2. QED
      BY <2>1, <3>1
  <2>4. LastSeq(log) = CHOOSE m \in seqs : Top(m)
    BY <1>2 DEF LastSeq
  <2>5. LastSeq(log) \in seqs /\ Top(LastSeq(log))
    <3> HIDE DEF seqs, Top
    <3>1. QED
      BY <2>3, <2>4
  <2>6. QED
    BY <2>2, <2>5
<1>3. QED
  BY <1>1, <1>2

----------------------------------------------------------------------------
(* Appending a row whose number and epoch are not below any other. *)

\* The order of the log, the epochs and the backward look of rewinds are kept.
LEMMA OrderKept ==
  ASSUME IInv, NEW e \in Event,
         run_events' = Append(run_events, e),
         \A i \in DOMAIN run_events : run_events[i].seq < e.seq,
         current_epoch' \in Nat, current_epoch <= current_epoch',
         e.epoch = current_epoch',
         IsRewind(e) => e.to_epoch < e.epoch
  PROVE  /\ run_events' \in Seq(Event)
         /\ SeqOrderIsEpochOrder'
         /\ EpochsSoFar'
         /\ CutsLookBack'
<1> DEFINE n == Len(run_events) + 1
<1>1. /\ run_events \in Seq(Event) /\ current_epoch \in Nat
      /\ \A i \in DOMAIN run_events : run_events[i].epoch <= current_epoch
    BY DEF IInv, TypeOK, EpochsSoFar
<1>2. /\ run_events' \in Seq(Event)
      /\ DOMAIN run_events' = DOMAIN run_events \cup {n}
      /\ \A i \in DOMAIN run_events : /\ run_events'[i] = run_events[i]
                                      /\ run_events[i] \in Event
                                      /\ i < n /\ i \in Nat
      /\ run_events'[n] = e
      /\ n \in Nat
    BY <1>1, AppendedLog
<1>3. \A i \in DOMAIN run_events : run_events[i].epoch \in Nat /\ run_events[i].seq \in Nat
    BY <1>2 DEF Event
<1> HIDE DEF n
<1>4. SeqOrderIsEpochOrder'
  <2> SUFFICES ASSUME NEW i \in DOMAIN run_events', NEW j \in DOMAIN run_events', i < j
               PROVE  /\ run_events'[i].seq < run_events'[j].seq
                      /\ run_events'[i].epoch <= run_events'[j].epoch
    BY DEF SeqOrderIsEpochOrder
  <2>1. CASE j = n
    <3>1. i \in DOMAIN run_events
      BY <1>2, <2>1
    <3>2. QED
      BY <3>1, <2>1, <1>1, <1>2, <1>3
  <2>2. CASE j \in DOMAIN run_events
    <3>1. i \in DOMAIN run_events
      BY <1>2, <2>2
    <3>2. QED
      BY <3>1, <2>2, <1>2 DEF IInv, SeqOrderIsEpochOrder
  <2>3. QED
    BY <2>1, <2>2, <1>2
<1>5. EpochsSoFar'
  BY <1>1, <1>2, <1>3 DEF EpochsSoFar
<1>6. CutsLookBack'
  BY <1>2 DEF IInv, CutsLookBack
<1>7. QED
  BY <1>2, <1>4, <1>5, <1>6

\* A row that continues the current epoch: the branch grows by it.
LEMMA ContinuationIsLive ==
  ASSUME IInv, NEW e \in Event,
         run_events' = Append(run_events, e),
         ~IsRewind(e), e.epoch = current_epoch
  PROVE  Live(run_events') = Live(run_events) \cup {e.seq}
<1> DEFINE n == Len(run_events) + 1
           Lives(log, j) == /\ ~IsRewind(log[j])
                            /\ \A c \in Cuts(log) : ~Supersedes(log[c], log[j])
<1>1. /\ run_events \in Seq(Event)
      /\ DOMAIN run_events' = DOMAIN run_events \cup {n}
      /\ n \notin DOMAIN run_events
      /\ \A i \in DOMAIN run_events : run_events'[i] = run_events[i] /\ run_events[i] \in Event
      /\ run_events'[n] = e
    BY AppendedLog DEF IInv, TypeOK
<1>2. Cuts(run_events') = Cuts(run_events) /\ Cuts(run_events) \in SUBSET DOMAIN run_events
    BY <1>1 DEF Cuts
<1>3. \A j \in DOMAIN run_events : Lives(run_events', j) <=> Lives(run_events, j)
    BY <1>1, <1>2
<1>4. Lives(run_events', n)
  <2>1. ASSUME NEW c \in Cuts(run_events) PROVE ~Supersedes(run_events[c], e)
    <3>1. /\ c \in DOMAIN run_events /\ run_events[c] \in Event
          /\ run_events[c].to_epoch < run_events[c].epoch
          /\ run_events[c].epoch <= current_epoch
      BY <1>1 DEF Cuts, IInv, CutsLookBack, EpochsSoFar
    <3>2. run_events[c].to_epoch \in Nat /\ run_events[c].epoch \in Nat /\ current_epoch \in Nat
      BY <3>1 DEF Event, IInv, TypeOK
    <3>3. QED
      BY <3>1, <3>2 DEF Supersedes
  <2>2. QED
    BY <2>1, <1>1, <1>2
<1>5. /\ Live(run_events) = {run_events[i].seq : i \in {j \in DOMAIN run_events : Lives(run_events, j)}}
      /\ Live(run_events') = {run_events'[i].seq : i \in {j \in DOMAIN run_events' : Lives(run_events', j)}}
    BY DEF Live
<1> HIDE DEF n, Lives
<1>6. QED
    BY <1>1, <1>3, <1>4, <1>5

\* A rewind: the branch loses exactly what the cut names, numbers being unique.
LEMMA CutIsCarriedOut ==
  ASSUME IInv, NEW e \in Event,
         run_events' = Append(run_events, e),
         IsRewind(e)
  PROVE  Live(run_events') = Live(run_events) \
           {run_events[i].seq : i \in {j \in DOMAIN run_events :
              run_events[j].epoch <= e.to_epoch /\ run_events[j].seq >= e.from_seq}}
<1> DEFINE n == Len(run_events) + 1
           Lives(log, j) == /\ ~IsRewind(log[j])
                            /\ \A c \in Cuts(log) : ~Supersedes(log[c], log[j])
           Hit(j) == run_events[j].epoch <= e.to_epoch /\ run_events[j].seq >= e.from_seq
<1>1. /\ run_events \in Seq(Event)
      /\ DOMAIN run_events' = DOMAIN run_events \cup {n}
      /\ n \notin DOMAIN run_events
      /\ DOMAIN run_events = 1..Len(run_events)
      /\ \A i \in DOMAIN run_events : run_events'[i] = run_events[i] /\ run_events[i] \in Event
      /\ run_events'[n] = e
    BY AppendedLog DEF IInv, TypeOK
<1>2. Cuts(run_events') = Cuts(run_events) \cup {n} /\ Cuts(run_events) \in SUBSET DOMAIN run_events
    BY <1>1 DEF Cuts
<1>3. \A j \in DOMAIN run_events : Lives(run_events', j) <=> Lives(run_events, j) /\ ~Hit(j)
    BY <1>1, <1>2 DEF Supersedes
<1>4. ~Lives(run_events', n)
    BY <1>1
<1>5. \A i, j \in DOMAIN run_events : run_events[i].seq = run_events[j].seq => i = j
  <2> SUFFICES ASSUME NEW i \in DOMAIN run_events, NEW j \in DOMAIN run_events,
                      run_events[i].seq = run_events[j].seq, i # j
               PROVE  FALSE
    OBVIOUS
  <2>1. /\ i < j => run_events[i].seq < run_events[j].seq
        /\ j < i => run_events[j].seq < run_events[i].seq
    BY DEF IInv, SeqOrderIsEpochOrder
  <2>2. run_events[i].seq \in Nat /\ run_events[j].seq \in Nat
    BY <1>1 DEF Event
  <2>3. i < j \/ j < i
    BY <1>1
  <2>4. QED
    BY <2>1, <2>2, <2>3
<1>6. /\ Live(run_events) = {run_events[i].seq : i \in {j \in DOMAIN run_events : Lives(run_events, j)}}
      /\ Live(run_events') = {run_events'[i].seq : i \in {j \in DOMAIN run_events' : Lives(run_events', j)}}
    BY DEF Live
<1> HIDE DEF n, Lives
<1>7. Live(run_events') = {run_events[i].seq : i \in {j \in DOMAIN run_events : Lives(run_events, j) /\ ~Hit(j)}}
    BY <1>1, <1>3, <1>4, <1>6
<1> HIDE DEF Hit
<1>8. Live(run_events') = Live(run_events) \ {run_events[i].seq : i \in {j \in DOMAIN run_events : Hit(j)}}
    BY <1>5, <1>6, <1>7
<1>9. QED
    BY <1>8 DEF Hit

\* Epochs stay dense under a row of the current epoch ...
LEMMA ContinuationKeepsDensity ==
  ASSUME IInv, NEW e \in Event,
         run_events' = Append(run_events, e),
         ~IsRewind(e), e.epoch = current_epoch, current_epoch' = current_epoch
  PROVE  EpochsAreDense'
<1> DEFINE n == Len(run_events) + 1
<1>1. /\ run_events \in Seq(Event) /\ current_epoch \in Nat
      /\ DOMAIN run_events' = DOMAIN run_events \cup {n}
      /\ n \notin DOMAIN run_events
      /\ \A i \in DOMAIN run_events : /\ run_events'[i] = run_events[i]
                                      /\ i \in Nat /\ i < n
      /\ run_events'[n] = e
      /\ n \in Nat
    BY AppendedLog DEF IInv, TypeOK
<1> HIDE DEF n
<1> SUFFICES ASSUME NEW m \in 1..current_epoch
             PROVE  \E i \in DOMAIN run_events' :
                      /\ \A j \in DOMAIN run_events' :
                           IsRewind(run_events'[j]) /\ run_events'[j].epoch = m <=> j = i
                      /\ \A j \in DOMAIN run_events' : j < i <=> run_events'[j].epoch < m
    BY DEF EpochsAreDense
<1>2. PICK i \in DOMAIN run_events :
         /\ \A j \in DOMAIN run_events :
              IsRewind(run_events[j]) /\ run_events[j].epoch = m <=> j = i
         /\ \A j \in DOMAIN run_events : j < i <=> run_events[j].epoch < m
    BY DEF IInv, EpochsAreDense
<1>3. /\ ~(IsRewind(run_events'[n]) /\ run_events'[n].epoch = m) /\ n # i
      /\ ~(n < i) /\ ~(run_events'[n].epoch < m)
    BY <1>1, <1>2
<1>4. QED
    BY <1>1, <1>2, <1>3

\* ... and under a rewind that opens the next one.
LEMMA RewindKeepsDensity ==
  ASSUME IInv, NEW e \in Event,
         run_events' = Append(run_events, e),
         IsRewind(e), e.epoch = current_epoch + 1, current_epoch' = current_epoch + 1
  PROVE  EpochsAreDense'
<1> DEFINE n == Len(run_events) + 1
<1>1. /\ run_events \in Seq(Event) /\ current_epoch \in Nat
      /\ DOMAIN run_events' = DOMAIN run_events \cup {n}
      /\ n \notin DOMAIN run_events
      /\ \A i \in DOMAIN run_events : /\ run_events'[i] = run_events[i]
                                      /\ run_events[i] \in Event
                                      /\ i \in Nat /\ i < n
      /\ run_events'[n] = e
      /\ n \in Nat
    BY AppendedLog DEF IInv, TypeOK
<1>2. \A i \in DOMAIN run_events : /\ run_events[i].epoch \in Nat
                                  /\ run_events[i].epoch <= current_epoch
    BY <1>1 DEF IInv, EpochsSoFar, Event
<1> HIDE DEF n
<1> SUFFICES ASSUME NEW m \in 1..(current_epoch + 1)
             PROVE  \E i \in DOMAIN run_events' :
                      /\ \A j \in DOMAIN run_events' :
                           IsRewind(run_events'[j]) /\ run_events'[j].epoch = m <=> j = i
                      /\ \A j \in DOMAIN run_events' : j < i <=> run_events'[j].epoch < m
    BY DEF EpochsAreDense
<1>3. CASE m \in 1..current_epoch
  <2>1. PICK i \in DOMAIN run_events :
           /\ \A j \in DOMAIN run_events :
                IsRewind(run_events[j]) /\ run_events[j].epoch = m <=> j = i
           /\ \A j \in DOMAIN run_events : j < i <=> run_events[j].epoch < m
    BY <1>3 DEF IInv, EpochsAreDense
  <2>2. /\ ~(run_events'[n].epoch = m) /\ n # i
        /\ ~(n < i) /\ ~(run_events'[n].epoch < m)
    BY <1>1, <1>3, <2>1
  <2>3. QED
    BY <1>1, <2>1, <2>2
<1>4. CASE m = current_epoch + 1
  <2>1. \A j \in DOMAIN run_events : run_events'[j].epoch # m /\ run_events'[j].epoch < m /\ j < n
    BY <1>1, <1>2, <1>4
  <2>2. IsRewind(run_events'[n]) /\ run_events'[n].epoch = m /\ ~(n < n)
    BY <1>1, <1>4
  <2>3. QED
    BY <1>1, <2>1, <2>2
<1>5. QED
    BY <1>1, <1>3, <1>4

----------------------------------------------------------------------------
(* The steps. *)

\* A row of the current epoch, numbered above all others, joins log and branch.
LEMMA ContinuationKeepsIInv ==
  ASSUME IInv, NEW seq \in Nat,
         \A i \in DOMAIN run_events : run_events[i].seq < seq,
         run_events' = Append(run_events, Ordinary(seq, current_epoch)),
         branch' = branch \cup {seq},
         current_epoch' = current_epoch
  PROVE  IInv'
<1> DEFINE e == Ordinary(seq, current_epoch)
<1>1. current_epoch \in Nat /\ branch \in SUBSET Nat /\ Live(run_events) = branch
    BY DEF IInv, TypeOK, LiveIsTheBranch
<1>2. e \in Event /\ e.seq = seq /\ e.epoch = current_epoch /\ ~IsRewind(e)
    BY <1>1, OrdinaryIsEvent
<1>3. run_events' = Append(run_events, e)
    OBVIOUS
<1> HIDE DEF e
<1>4. /\ run_events' \in Seq(Event) /\ SeqOrderIsEpochOrder' /\ EpochsSoFar' /\ CutsLookBack'
    BY <1>1, <1>2, <1>3, OrderKept
<1>5. EpochsAreDense'
    BY <1>2, <1>3, ContinuationKeepsDensity
<1>6. Live(run_events') = branch'
    BY <1>1, <1>2, <1>3, ContinuationIsLive
<1>7. QED
    BY <1>1, <1>4, <1>5, <1>6 DEF IInv, TypeOK, LiveIsTheBranch

\* The next number is above every number in the log.
LEMMA NumbersGrow ==
  ASSUME IInv
  PROVE  /\ LastSeq(run_events) + 1 \in Nat
         /\ \A i \in DOMAIN run_events : run_events[i].seq < LastSeq(run_events) + 1
<1>1. run_events \in Seq(Event)
    BY DEF IInv, TypeOK
<1>2. \A i, j \in DOMAIN run_events : i < j => run_events[i].seq < run_events[j].seq
    BY DEF IInv, SeqOrderIsEpochOrder
<1>3. /\ LastSeq(run_events) \in Nat
      /\ \A i \in DOMAIN run_events : run_events[i].seq <= LastSeq(run_events)
    BY <1>1, <1>2, LastSeqIsMax
<1>4. \A i \in DOMAIN run_events : run_events[i].seq \in Nat
  <2>1. \A i \in DOMAIN run_events : run_events[i] \in Event
    BY <1>1
  <2>2. QED
    BY <2>1 DEF Event
<1>5. QED
    BY <1>3, <1>4

\* A rewind carried out on the spot, and on the record.
LEMMA RewindKeepsIInv ==
  ASSUME IInv, NEW to_epoch \in Nat, NEW from_seq \in Nat, rewind(to_epoch, from_seq)
  PROVE  IInv'
<1> DEFINE seq == LastSeq(run_events) + 1
           next == current_epoch + 1
           e == Rewound(seq, next, to_epoch, from_seq)
<1>1. current_epoch \in Nat /\ branch \in SUBSET Nat /\ Live(run_events) = branch
    BY DEF IInv, TypeOK, LiveIsTheBranch
<1>2. seq \in Nat /\ \A i \in DOMAIN run_events : run_events[i].seq < seq
    BY NumbersGrow
<1>3. /\ run_events' = Append(run_events, e)
      /\ current_epoch' = current_epoch + 1
      /\ to_epoch <= current_epoch
      /\ branch' = branch \ {run_events[i].seq : i \in {j \in DOMAIN run_events :
                     run_events[j].epoch <= to_epoch /\ run_events[j].seq >= from_seq}}
    BY DEF rewind, Opens, MaySupersede
<1>4. next \in Nat
    BY <1>1
<1> HIDE DEF seq, next
<1>5. /\ e \in Event /\ e.seq = seq /\ e.epoch = next /\ IsRewind(e)
      /\ e.to_epoch = to_epoch /\ e.from_seq = from_seq
    BY <1>2, <1>4 DEF Rewound, IsRewind, Event
<1> HIDE DEF e
<1>6. /\ current_epoch' \in Nat /\ current_epoch <= current_epoch'
      /\ e.to_epoch < e.epoch /\ e.epoch = current_epoch + 1
    BY <1>1, <1>3, <1>5 DEF next
<1>7. /\ run_events' \in Seq(Event) /\ SeqOrderIsEpochOrder' /\ EpochsSoFar' /\ CutsLookBack'
    BY <1>2, <1>3, <1>5, <1>6, OrderKept
<1>8. EpochsAreDense'
    BY <1>3, <1>5, <1>6, RewindKeepsDensity
<1>9. Live(run_events') = branch'
    BY <1>1, <1>3, <1>5, CutIsCarriedOut
<1>10. QED
    BY <1>1, <1>3, <1>6, <1>7, <1>8, <1>9 DEF IInv, TypeOK, LiveIsTheBranch

\* Every step keeps the invariant.
LEMMA StepKeepsIInv == IInv /\ [Next]_vars => IInv'
<1> SUFFICES ASSUME IInv, [Next]_vars PROVE IInv'
    OBVIOUS
<1>1. CASE append
  <2>1. LastSeq(run_events) + 1 \in Nat
    BY NumbersGrow
  <2>2. QED
    BY <1>1, <2>1, NumbersGrow, ContinuationKeepsIInv DEF append
<1>2. ASSUME NEW t \in 0..MaxEvents, NEW f \in 1..MaxSeq, rewind(t, f) PROVE IInv'
    BY <1>2, RewindKeepsIInv
<1>3. ASSUME NEW n \in 0..MaxEvents, NEW s \in 1..MaxSeq, raw_append_at_epoch(n, s)
      PROVE  IInv'
    BY <1>3, ContinuationKeepsIInv DEF raw_append_at_epoch, FreshSeq
<1>4. CASE UNCHANGED vars
    BY <1>4 DEF vars, IInv, TypeOK, SeqOrderIsEpochOrder, EpochsSoFar, CutsLookBack,
                EpochsAreDense, LiveIsTheBranch
<1>5. QED
    BY <1>1, <1>2, <1>3, <1>4 DEF Next

\* The empty log has it.
LEMMA InitHasIInv == Init => IInv
<1> SUFFICES ASSUME Init PROVE IInv
    OBVIOUS
<1>1. run_events = <<>> /\ DOMAIN run_events = {} /\ current_epoch = 0 /\ branch = {}
    BY DEF Init
<1>2. TypeOK
    BY <1>1 DEF TypeOK
<1>3. SeqOrderIsEpochOrder /\ EpochsSoFar /\ CutsLookBack
    BY <1>1 DEF SeqOrderIsEpochOrder, EpochsSoFar, CutsLookBack
<1>4. EpochsAreDense
    BY <1>1 DEF EpochsAreDense
<1>5. Live(run_events) = {}
    BY <1>1 DEF Live
<1>6. QED
    BY <1>1, <1>2, <1>3, <1>4, <1>5 DEF IInv, LiveIsTheBranch

----------------------------------------------------------------------------
(* The theorems. *)

\* Every reachable state of the Store satisfies the inductive invariant.
THEOREM Induction == Spec => []IInv
    BY InitHasIInv, StepKeepsIInv, PTL DEF Spec

\* The tables hold what their types say.
THEOREM TypeCorrect == Spec => []TypeOK
<1>1. IInv => TypeOK
    BY DEF IInv
<1>2. QED
    BY <1>1, Induction, PTL

\* Folding by seq and folding by (epoch, seq) are the same fold, for any history of
\* appends, rewinds and made-up rows.
THEOREM OneOrder == Spec => []SeqOrderIsEpochOrder
<1>1. IInv => SeqOrderIsEpochOrder
    BY DEF IInv
<1>2. QED
    BY <1>1, Induction, PTL

\* Epochs are dense, and current_epoch counts the rewinds.
THEOREM DenseEpochs == Spec => []EpochsAreDense
<1>1. IInv => EpochsAreDense
    BY DEF IInv
<1>2. QED
    BY <1>1, Induction, PTL

\* The live-set rule is right: it recovers from the whole log the branch the rewinds
\* have left, so continuations survive and rewinds compose.
THEOREM FoldIsRight == Spec => []LiveIsTheBranch
<1>1. IInv => LiveIsTheBranch
    BY DEF IInv
<1>2. QED
    BY <1>1, Induction, PTL
============================================================================
