-------------------------- MODULE PgEventLogProofs --------------------------
(***************************************************************************)
(* Proofs about PgEventLog, for any clients and logs of any length.        *)
(*                                                                         *)
(* The argument: only the transaction that has the row of runs changes the *)
(* log or the epoch, so what the trigger checked under that row still      *)
(* holds when the transaction commits.  Every commit is then a step of the *)
(* sequential Store, and the log inherits what EpochLogProofs says of it.  *)
(***************************************************************************)
EXTENDS PgEventLog, TLAPS

\* The sequential Store with its theorems; its history variable is the live set.
Log == INSTANCE EpochLogProofs WITH branch <- Live(run_events)

\* A transaction past its SELECT ... FOR UPDATE, or past the trigger, has the row of runs.
HoldersHaveTheRow ==
  \A c \in Clients : conn[c].pc \in {"locked", "written"} => row_lock = c

\* A number that was computed follows the last one of the snapshot it was computed from.
FollowsSnapshot(seq, base) ==
  /\ \A i \in 1..base : run_events[i].seq < seq
  /\ seq = 1 \/ \E i \in 1..base : run_events[i].seq + 1 = seq

\* A row on its way to the table, as some INSERT made it.
IsInsert(t) ==
  LET row == t.row IN
  /\ t.base <= Len(run_events)
  /\ IF IsRewind(row) THEN row.from_seq \in 1..MaxSeq
                      ELSE row = Ordinary(row.seq, row.epoch)
  /\ IF t.named /\ ~IsRewind(row) THEN row.seq \in 1..MaxSeq
                                  ELSE FollowsSnapshot(row.seq, t.base)

RowsAreInserts == \A c \in Clients : conn[c].pc \in {"firing", "written"} => IsInsert(conn[c])

\* No more epochs than rows, no more rows than the bound.
LogIsBounded == current_epoch <= Len(run_events) /\ Len(run_events) <= MaxEvents

IInv == /\ TypeOK /\ Log!IInv /\ LogIsBounded
        /\ HoldersHaveTheRow /\ RowsAreInserts /\ WrittenStaysValid

----------------------------------------------------------------------------
(* The two logs are one. *)

LEMMA SameRules ==
  /\ Log!Event = Event
  /\ \A e : Log!IsRewind(e) <=> IsRewind(e)
  /\ \A log : Log!LastSeq(log) = LastSeq(log)
  /\ \A log : Log!Live(log) = Live(log)
  /\ \A s, n : Log!Ordinary(s, n) = Ordinary(s, n)
  /\ \A s, n, t, f : Log!Rewound(s, n, t, f) = Rewound(s, n, t, f)
BY DEF Log!Event, Event, Log!IsRewind, IsRewind, Log!LastSeq, LastSeq,
       Log!Live, Live, Log!Cuts, Cuts, Log!Supersedes, Supersedes,
       Log!Ordinary, Ordinary, Log!Rewound, Rewound

LEMMA RowForms ==
  /\ \A s, n \in Nat : /\ Ordinary(s, n) \in Event /\ ~IsRewind(Ordinary(s, n))
                       /\ Ordinary(s, n).seq = s /\ Ordinary(s, n).epoch = n
  /\ \A s, n, t, f \in Nat : LET r == Rewound(s, n, t, f) IN
       /\ r \in Event /\ IsRewind(r)
       /\ r.seq = s /\ r.epoch = n /\ r.to_epoch = t /\ r.from_seq = f
  /\ \A r \in Event : IsRewind(r) => r = Rewound(r.seq, r.epoch, r.to_epoch, r.from_seq)
BY DEF Ordinary, Rewound, Event, IsRewind

\* What the order of the log gives: the numbers grow, and the next one follows the last.
LEMMA LogFacts ==
  ASSUME Log!IInv
  PROVE  /\ run_events \in Seq(Event) /\ current_epoch \in Nat /\ Len(run_events) \in Nat
         /\ DOMAIN run_events = 1..Len(run_events)
         /\ \A i \in DOMAIN run_events : run_events[i] \in Event /\ run_events[i].seq \in Nat
         /\ NextSeq \in Nat \ {0} /\ LastSeq(run_events) \in Nat
         /\ \A i \in DOMAIN run_events : run_events[i].seq < NextSeq
<1>1. run_events \in Seq(Event) /\ current_epoch \in Nat
  BY SameRules DEF Log!IInv, Log!TypeOK
<1>2. \A i \in DOMAIN run_events : run_events[i] \in Event /\ run_events[i].seq \in Nat
  <2>1. \A i \in DOMAIN run_events : run_events[i] \in Event
    BY <1>1
  <2> QED BY <2>1 DEF Event
<1>3. \A i, j \in DOMAIN run_events : i < j => run_events[i].seq < run_events[j].seq
  BY DEF Log!IInv, Log!SeqOrderIsEpochOrder
<1>4. LastSeq(run_events) \in Nat /\ \A i \in DOMAIN run_events : run_events[i].seq <= LastSeq(run_events)
  BY <1>1, <1>3, SameRules, Log!LastSeqIsMax
<1>5. NextSeq \in Nat \ {0} /\ \A i \in DOMAIN run_events : run_events[i].seq < NextSeq
  BY <1>2, <1>4 DEF NextSeq
<1> QED BY <1>1, <1>2, <1>4, <1>5

\* The next number is the only one above all the others that follows one of them.
LEMMA NextIsUnique ==
  ASSUME Log!IInv, NEW seq \in Nat, FollowsSnapshot(seq, Len(run_events))
  PROVE  seq = NextSeq
<1> DEFINE seqs == {run_events[i].seq : i \in DOMAIN run_events}
           Top(m) == \A i \in DOMAIN run_events : run_events[i].seq <= m
<1>1. /\ DOMAIN run_events = 1..Len(run_events) /\ run_events \in Seq(Event)
      /\ \A i \in DOMAIN run_events : run_events[i].seq \in Nat /\ run_events[i].seq < seq
      /\ Len(run_events) \in Nat
  BY LogFacts DEF FollowsSnapshot
<1>2. CASE run_events = <<>>
  BY <1>2 DEF FollowsSnapshot, NextSeq, LastSeq
<1>3. CASE run_events # <<>>
  <2>1. 1 \in DOMAIN run_events
    BY <1>1, <1>3
  <2>2. PICK i \in DOMAIN run_events : run_events[i].seq + 1 = seq
    BY <1>1, <2>1 DEF FollowsSnapshot
  <2>3. seq - 1 \in seqs /\ Top(seq - 1)
    BY <1>1, <2>2
  <2>4. \A m \in seqs : Top(m) => m = seq - 1
    BY <1>1, <2>2
  <2>5. LastSeq(run_events) = CHOOSE m \in seqs : Top(m)
    BY <1>3 DEF LastSeq
  <2>6. LastSeq(run_events) = seq - 1
    <3> HIDE DEF seqs, Top
    <3> QED BY <2>3, <2>4, <2>5
  <2> QED BY <1>1, <2>6 DEF NextSeq
<1> QED BY <1>2, <1>3

LEMMA NextFollows ==
  ASSUME Log!IInv
  PROVE  FollowsSnapshot(NextSeq, Len(run_events))
<1>1. /\ DOMAIN run_events = 1..Len(run_events) /\ run_events \in Seq(Event)
      /\ \A i \in DOMAIN run_events : run_events[i].seq \in Nat /\ run_events[i].seq < NextSeq
      /\ Len(run_events) \in Nat
  BY LogFacts
<1>2. CASE run_events = <<>>
  BY <1>1, <1>2 DEF FollowsSnapshot, NextSeq, LastSeq
<1>3. CASE run_events # <<>>
  <2> DEFINE last == Len(run_events)
             seq  == run_events[last].seq + 1
  <2>1. last \in DOMAIN run_events
    BY <1>1, <1>3
  <2>2. \A i \in 1..last : run_events[i].seq < seq
    <3>1. \A i \in DOMAIN run_events : i < last => run_events[i].seq < run_events[last].seq
      BY <2>1 DEF Log!IInv, Log!SeqOrderIsEpochOrder
    <3> QED BY <1>1, <2>1, <3>1
  <2>3. seq \in Nat /\ FollowsSnapshot(seq, last)
    BY <1>1, <2>1, <2>2 DEF FollowsSnapshot
  <2> QED BY <2>3, NextIsUnique
<1> QED BY <1>2, <1>3

----------------------------------------------------------------------------
(* Steps that commit nothing. *)

LEMMA InitHasIInv == Init => IInv
<1> SUFFICES ASSUME Init PROVE IInv
  OBVIOUS
<1>1. Ordinary(0, 0) \in Event
  BY RowForms
<1>2. NoConn \in Conn /\ NoConn.pc = "idle" /\ NoReply \in Reply
  BY <1>1 DEF NoConn, NoRow, Conn, NoReply, Reply
<1>3. TypeOK
  BY <1>2 DEF Init, TypeOK
<1>4. Log!IInv
  <2>1. Live(<<>>) = {}
    BY DEF Live
  <2>2. Log!Init
    BY <2>1 DEF Init, Log!Init
  <2> QED BY <2>2, Log!InitHasIInv
<1>5. \A c \in Clients : conn[c].pc = "idle"
  BY <1>2 DEF Init
<1>6. LogIsBounded
  BY MaxEventsInNat DEF Init, LogIsBounded
<1> QED BY <1>3, <1>4, <1>5, <1>6 DEF IInv, HoldersHaveTheRow, RowsAreInserts, WrittenStaysValid

\* What says nothing about conn stays as long as the tables do.
LEMMA TablesStay ==
  ASSUME IInv, UNCHANGED <<run_events, current_epoch>>
  PROVE  /\ Log!IInv' /\ LogIsBounded'
         /\ \A row : EpochRefused(row)' <=> EpochRefused(row)
         /\ \A row : SeqTaken(row)' <=> SeqTaken(row)
         /\ \A t : IsInsert(t)' <=> IsInsert(t)
<1>1. Log!vars' = Log!vars
  BY DEF Log!vars, Live, Cuts, Supersedes, IsRewind
<1>2. Log!IInv'
  BY <1>1, Log!StepKeepsIInv DEF IInv
<1> QED BY <1>2 DEF IInv, LogIsBounded, EpochRefused, SeqTaken, IsInsert,
                    FollowsSnapshot, IsRewind, Ordinary

\* An INSERT has computed its row.
LEMMA InsertKeepsIInv ==
  ASSUME IInv, NEW c \in Clients, NEW row \in Event, NEW named \in BOOLEAN,
         conn[c].pc \in {"idle", "locked"}, Insert(c, row, named),
         IF IsRewind(row) THEN row.from_seq \in 1..MaxSeq ELSE row = Ordinary(row.seq, row.epoch),
         IF named /\ ~IsRewind(row) THEN row.seq \in 1..MaxSeq ELSE row.seq = NextSeq
  PROVE  IInv'
<1> DEFINE t == [pc |-> "firing", row |-> row, named |-> named, base |-> Len(run_events)]
<1>1. conn' = [conn EXCEPT ![c] = t] /\ reply' = NoReply
      /\ UNCHANGED <<run_events, current_epoch, row_lock>>
  BY DEF Insert
<1>2. Len(run_events) \in Nat /\ FollowsSnapshot(NextSeq, Len(run_events))
  BY LogFacts, NextFollows DEF IInv
<1>3. t \in Conn /\ NoReply \in Reply
  BY <1>2 DEF Conn, NoReply, Reply
<1>4. conn'[c] = t /\ \A d \in Clients \ {c} : conn'[d] = conn[d]
  BY <1>1 DEF IInv, TypeOK
<1>5. TypeOK'
  BY <1>1, <1>3 DEF IInv, TypeOK
<1>6. HoldersHaveTheRow'
  BY <1>1, <1>4 DEF IInv, HoldersHaveTheRow
<1>7. RowsAreInserts'
  <2>1. IsInsert(t)
    BY <1>2 DEF IsInsert
  <2> HIDE DEF t
  <2>2. \A d \in Clients : conn'[d].pc \in {"firing", "written"} => IsInsert(conn'[d])
    BY <1>4, <2>1 DEF IInv, RowsAreInserts
  <2> QED BY <1>1, <2>2, TablesStay DEF RowsAreInserts
<1>8. WrittenStaysValid'
  BY <1>1, <1>4, TablesStay DEF IInv, WrittenStaysValid
<1> QED BY <1>1, <1>5, <1>6, <1>7, <1>8, TablesStay DEF IInv

\* A transaction that ends leaves the others as they are.
LEMMA EndingKeepsIInv ==
  ASSUME IInv, NEW c \in Clients, NEW code \in {"23505", "22023", "57014", "08006"},
         Ends(c, code), UNCHANGED <<run_events, current_epoch>>
  PROVE  IInv'
<1>1. NoConn \in Conn /\ NoConn.pc = "idle"
  BY RowForms DEF NoConn, NoRow, Conn
<1>2. conn'[c] = NoConn /\ \A d \in Clients \ {c} : conn'[d] = conn[d]
  BY DEF Ends, IInv, TypeOK
<1>3. TypeOK'
  BY <1>1 DEF Ends, IInv, TypeOK, Reply
<1>4. HoldersHaveTheRow'
  BY <1>1, <1>2, NoneIsNoClient DEF Ends, IInv, HoldersHaveTheRow
<1>5. RowsAreInserts'
  BY <1>1, <1>2, TablesStay DEF IInv, RowsAreInserts
<1>6. WrittenStaysValid'
  BY <1>1, <1>2, TablesStay DEF IInv, WrittenStaysValid
<1> QED BY <1>3, <1>4, <1>5, <1>6, TablesStay DEF IInv

LEMMA RewindLockKeepsIInv ==
  ASSUME IInv, NEW c \in Clients, rewind_lock(c)
  PROVE  IInv'
<1>1. /\ conn[c].pc = "idle" /\ row_lock = None /\ row_lock' = c /\ reply' = NoReply
      /\ conn' = [conn EXCEPT ![c].pc = "locked"]
      /\ UNCHANGED <<run_events, current_epoch>>
  BY DEF rewind_lock
<1>2. /\ conn' \in [Clients -> Conn] /\ conn'[c].pc = "locked"
      /\ \A d \in Clients \ {c} : conn'[d] = conn[d]
  BY <1>1 DEF IInv, TypeOK, Conn
<1>3. TypeOK'
  BY <1>1, <1>2 DEF IInv, TypeOK, NoReply, Reply
<1>4. \A d \in Clients : conn[d].pc \notin {"locked", "written"}
  BY <1>1, NoneIsNoClient DEF IInv, HoldersHaveTheRow
<1>5. HoldersHaveTheRow' /\ WrittenStaysValid'
  BY <1>1, <1>2, <1>4 DEF HoldersHaveTheRow, WrittenStaysValid
<1>6. RowsAreInserts'
  BY <1>1, <1>2, TablesStay DEF IInv, RowsAreInserts
<1> QED BY <1>1, <1>3, <1>5, <1>6, TablesStay DEF IInv

\* The trigger lets a row pass, with the lock, or refuses it.
LEMMA TriggerKeepsIInv ==
  ASSUME IInv, NEW c \in Clients, check_event_epoch(c)
  PROVE  IInv'
<1>1. conn[c].pc = "firing" /\ row_lock \in {None, c} /\ UNCHANGED <<run_events, current_epoch>>
  BY DEF check_event_epoch, RowAvailable
<1>2. CASE Ends(c, EpochError) \/ Ends(c, "23505")
  BY <1>1, <1>2, EndingKeepsIInv DEF EpochError
<1>3. CASE /\ ~EpochRefused(conn[c].row) /\ ~SeqTaken(conn[c].row) /\ row_lock' = c
           /\ conn' = [conn EXCEPT ![c].pc = "written"] /\ reply' = NoReply
  <2>1. /\ conn' \in [Clients -> Conn]
        /\ conn'[c].pc = "written" /\ conn'[c].row = conn[c].row
        /\ conn'[c].base = conn[c].base /\ conn'[c].named = conn[c].named
        /\ \A d \in Clients \ {c} : conn'[d] = conn[d]
    BY <1>3 DEF IInv, TypeOK, Conn
  <2>2. TypeOK'
    BY <1>1, <1>3, <2>1 DEF IInv, TypeOK, NoReply, Reply
  <2>3. \A d \in Clients \ {c} : conn[d].pc \notin {"locked", "written"}
    BY <1>1, NoneIsNoClient DEF IInv, HoldersHaveTheRow
  <2>4. HoldersHaveTheRow'
    BY <1>3, <2>1, <2>3 DEF HoldersHaveTheRow
  <2>5. \A d \in Clients : conn'[d].pc \in {"firing", "written"} => IsInsert(conn'[d])
    <3>1. IsInsert(conn[c])
      BY <1>1 DEF IInv, RowsAreInserts
    <3>2. IsInsert(conn'[c])
      BY <2>1, <3>1 DEF IsInsert
    <3> QED BY <2>1, <3>2 DEF IInv, RowsAreInserts
  <2>6. RowsAreInserts'
    BY <1>1, <2>5, TablesStay DEF RowsAreInserts
  <2>7. WrittenStaysValid'
    BY <1>1, <1>3, <2>1, <2>3, TablesStay DEF WrittenStaysValid
  <2> QED BY <1>1, <2>2, <2>4, <2>6, <2>7, TablesStay DEF IInv
<1> QED BY <1>2, <1>3 DEF check_event_epoch

----------------------------------------------------------------------------
(* The commit. *)

\* A commit is one step of the sequential Store.
LEMMA CommitIsAStep ==
  ASSUME IInv, NEW c \in Clients, commit(c)
  PROVE  Log!Next
<1> DEFINE row == conn[c].row
<1>1. /\ conn[c].pc = "written" /\ Len(run_events) < MaxEvents
      /\ run_events' = Append(run_events, row)
      /\ current_epoch' = IF IsRewind(row) THEN row.epoch ELSE current_epoch
      /\ row \in Event /\ row.seq \in Nat /\ conn[c].base \in Nat
  BY DEF commit, IInv, TypeOK, Conn, Event
<1>2. ~EpochRefused(row) /\ ~SeqTaken(row) /\ IsInsert(conn[c])
  BY <1>1 DEF IInv, WrittenStaysValid, RowsAreInserts
<1>3. /\ DOMAIN run_events = 1..Len(run_events) /\ Len(run_events) \in Nat /\ current_epoch \in Nat
      /\ \A i \in DOMAIN run_events : run_events[i].seq \in Nat
      /\ current_epoch \in 0..MaxEvents /\ MaxEvents \in Nat
  BY LogFacts, MaxEventsInNat DEF IInv, LogIsBounded
<1>4. \A i \in DOMAIN run_events : run_events[i].seq < row.seq
  BY <1>1, <1>2, <1>3 DEF SeqTaken
<1>5. ASSUME ~(conn[c].named /\ ~IsRewind(row)) PROVE row.seq = NextSeq
  <2>1. FollowsSnapshot(row.seq, conn[c].base) /\ conn[c].base <= Len(run_events)
    BY <1>2, <1>5 DEF IsInsert
  <2>2. FollowsSnapshot(row.seq, Len(run_events))
    BY <1>1, <1>3, <1>4, <2>1 DEF FollowsSnapshot
  <2> QED BY <1>1, <2>2, NextIsUnique DEF IInv
<1>6. CASE IsRewind(row)
  <2>1. /\ row.epoch = current_epoch + 1 /\ row.to_epoch <= current_epoch
        /\ row.from_seq \in 1..MaxSeq /\ row.to_epoch \in Nat
        /\ row = Rewound(NextSeq, current_epoch + 1, row.to_epoch, row.from_seq)
    <3>1. row.to_epoch \in Nat /\ row.seq = NextSeq
      BY <1>1, <1>5, <1>6 DEF Event
    <3>2. row.epoch = current_epoch + 1 /\ row.to_epoch <= current_epoch
      BY <1>2, <1>3, <1>6, <3>1 DEF EpochRefused
    <3>3. row.from_seq \in 1..MaxSeq
      BY <1>2, <1>6 DEF IsInsert
    <3>4. row = Rewound(row.seq, row.epoch, row.to_epoch, row.from_seq)
      BY <1>1, <1>6, RowForms
    <3> QED BY <3>1, <3>2, <3>3, <3>4
  <2>2. Live(run_events') = Live(run_events) \
          {run_events[i].seq : i \in {j \in DOMAIN run_events :
             run_events[j].epoch <= row.to_epoch /\ run_events[j].seq >= row.from_seq}}
    BY <1>1, <1>6, SameRules, Log!CutIsCarriedOut DEF IInv
  <2>3. Log!rewind(row.to_epoch, row.from_seq)
    BY <1>1, <1>6, <2>1, <2>2, SameRules DEF Log!rewind, Log!MaySupersede, Log!Opens, NextSeq, Live, Cuts, Supersedes, IsRewind
  <2>4. row.to_epoch \in 0..MaxEvents
    BY <1>3, <2>1
  <2> QED BY <2>1, <2>3, <2>4 DEF Log!Next
<1>7. CASE ~IsRewind(row)
  <2>1. row.epoch = current_epoch /\ row = Ordinary(row.seq, current_epoch)
    BY <1>2, <1>7 DEF EpochRefused, IsInsert
  <2>2. Live(run_events') = Live(run_events) \cup {row.seq}
    BY <1>1, <1>7, <2>1, SameRules, Log!ContinuationIsLive DEF IInv
  <2>3. CASE conn[c].named
    <3>1. row.seq \in 1..MaxSeq
      BY <1>2, <1>7, <2>3 DEF IsInsert
    <3>2. Log!raw_append_at_epoch(current_epoch, row.seq)
      BY <1>1, <1>4, <1>7, <2>1, <2>2, SameRules DEF Log!raw_append_at_epoch, Log!FreshSeq, Live, Cuts, Supersedes, IsRewind
    <3> QED BY <1>3, <3>1, <3>2 DEF Log!Next
  <2>4. CASE ~conn[c].named
    <3>1. row.seq = NextSeq
      BY <1>5, <2>4
    <3>2. Log!append
      BY <1>1, <1>7, <2>1, <2>2, <3>1, SameRules DEF Log!append, NextSeq, Live, Cuts, Supersedes, IsRewind
    <3> QED BY <3>2 DEF Log!Next
  <2> QED BY <2>3, <2>4
<1> QED BY <1>6, <1>7

LEMMA CommitKeepsIInv ==
  ASSUME IInv, NEW c \in Clients, commit(c)
  PROVE  IInv'
<1> DEFINE row == conn[c].row
<1>1. /\ conn[c].pc = "written" /\ Len(run_events) < MaxEvents
      /\ run_events' = Append(run_events, row)
      /\ current_epoch' = (IF IsRewind(row) THEN row.epoch ELSE current_epoch)
      /\ row \in Event
      /\ \E code \in {"00000", "08006"} : Ends(c, code)
  BY DEF commit, IInv, TypeOK, Conn
<1>2. Log!IInv'
  BY CommitIsAStep, Log!StepKeepsIInv DEF IInv
<1>3. /\ conn'[c] = NoConn /\ NoConn \in Conn /\ NoConn.pc = "idle"
      /\ \A d \in Clients \ {c} : conn'[d] = conn[d]
      /\ row_lock' = IF row_lock = c THEN None ELSE row_lock
  BY <1>1, RowForms DEF Ends, IInv, TypeOK, NoConn, NoRow, Conn
<1>4. /\ run_events' \in Seq(Event) /\ current_epoch' \in Nat
      /\ run_events \in Seq(Event) /\ Len(run_events) \in Nat
      /\ Len(run_events') = Len(run_events) + 1
      /\ DOMAIN run_events = 1..Len(run_events)
      /\ \A i \in DOMAIN run_events : run_events'[i] = run_events[i]
  BY <1>1, LogFacts DEF IInv, TypeOK, Event
<1>5. TypeOK'
  <2>1. row_lock' \in Clients \cup {None} /\ conn' \in [Clients -> Conn] /\ reply' \in Reply
    BY <1>1, <1>3 DEF Ends, IInv, TypeOK, Reply
  <2> QED BY <1>4, <2>1 DEF TypeOK
<1>6. \A d \in Clients \ {c} : conn[d].pc \notin {"locked", "written"}
  BY <1>1 DEF IInv, HoldersHaveTheRow
<1>7. HoldersHaveTheRow' /\ WrittenStaysValid'
  BY <1>3, <1>6 DEF HoldersHaveTheRow, WrittenStaysValid
<1>8. LogIsBounded'
  <2>1. IsRewind(row) => row.epoch = current_epoch + 1
    BY <1>1 DEF IInv, WrittenStaysValid, EpochRefused
  <2> QED BY <1>1, <1>4, <2>1, MaxEventsInNat, LogFacts DEF IInv, LogIsBounded
<1>9. RowsAreInserts'
  <2> SUFFICES ASSUME NEW d \in Clients, d # c, conn[d].pc \in {"firing", "written"}
               PROVE  IsInsert(conn[d])'
    BY <1>3 DEF RowsAreInserts
  <2>1. conn'[d] = conn[d] /\ IsInsert(conn[d]) /\ conn[d].base \in Nat
    BY <1>3 DEF IInv, RowsAreInserts, TypeOK, Conn
  <2>2. conn[d].base <= Len(run_events) => conn[d].base <= Len(run_events')
    BY <1>4, <2>1
  <2>3. conn[d].base <= Len(run_events) /\ FollowsSnapshot(conn[d].row.seq, conn[d].base)
          => FollowsSnapshot(conn[d].row.seq, conn[d].base)'
    BY <1>4, <2>1 DEF FollowsSnapshot
  <2> QED BY <2>1, <2>2, <2>3 DEF IsInsert, IsRewind, Ordinary
<1> QED BY <1>2, <1>5, <1>7, <1>8, <1>9 DEF IInv

----------------------------------------------------------------------------
LEMMA StepKeepsIInv ==
  ASSUME IInv, NEW c \in Clients, Step(c)
  PROVE  IInv'
<1>1. NextSeq \in Nat /\ current_epoch \in Nat /\ current_epoch + 1 \in Nat
  BY LogFacts DEF IInv
<1>2. CASE append(c)
  <2> DEFINE row == Ordinary(NextSeq, current_epoch)
  <2>1. conn[c].pc = "idle" /\ Insert(c, row, FALSE)
    BY <1>2 DEF append
  <2>2. row \in Event /\ ~IsRewind(row) /\ row.seq = NextSeq /\ row.epoch = current_epoch
    BY <1>1, RowForms
  <2>3. row = Ordinary(row.seq, row.epoch)
    BY <2>2
  <2> HIDE DEF row
  <2> QED BY <2>1, <2>2, <2>3, InsertKeepsIInv
<1>3. ASSUME NEW seq \in 1..MaxSeq, NEW epoch \in MadeUp, insert_values(c, seq, epoch) PROVE IInv'
  <2> DEFINE row == Ordinary(seq, epoch)
  <2>1. conn[c].pc = "idle" /\ Insert(c, row, TRUE)
    BY <1>3 DEF insert_values
  <2>2. row \in Event /\ ~IsRewind(row) /\ row.seq = seq /\ row.epoch = epoch
    <3>1. seq \in Nat /\ epoch \in Nat
      BY MaxSeqInNat DEF MadeUp
    <3> QED BY <3>1, RowForms
  <2>3. row = Ordinary(row.seq, row.epoch) /\ row.seq \in 1..MaxSeq
    BY <2>2
  <2> HIDE DEF row
  <2> QED BY <2>1, <2>2, <2>3, InsertKeepsIInv
<1>4. CASE rewind_lock(c)
  BY <1>4, RewindLockKeepsIInv
<1>5. ASSUME NEW to_epoch \in MadeUp, NEW from_seq \in 1..MaxSeq, rewind_insert(c, to_epoch, from_seq)
      PROVE  IInv'
  <2> DEFINE row == Rewound(NextSeq, current_epoch + 1, to_epoch, from_seq)
  <2>1. conn[c].pc = "locked" /\ Insert(c, row, TRUE)
    BY <1>5 DEF rewind_insert
  <2>2. to_epoch \in Nat /\ from_seq \in Nat
    BY MaxSeqInNat DEF MadeUp
  <2>3. row \in Event /\ IsRewind(row) /\ row.seq = NextSeq /\ row.from_seq = from_seq
    BY <1>1, <2>2, RowForms
  <2> HIDE DEF row
  <2> QED BY <2>1, <2>3, InsertKeepsIInv
<1>6. ASSUME NEW epoch \in MadeUp, NEW to_epoch \in MadeUp, NEW from_seq \in 1..MaxSeq,
             rewind_unlocked(c, epoch, to_epoch, from_seq)
      PROVE  IInv'
  <2> DEFINE row == Rewound(NextSeq, epoch, to_epoch, from_seq)
  <2>1. conn[c].pc = "idle" /\ Insert(c, row, TRUE)
    BY <1>6 DEF rewind_unlocked
  <2>2. epoch \in Nat /\ to_epoch \in Nat /\ from_seq \in Nat
    BY MaxSeqInNat DEF MadeUp
  <2>3. row \in Event /\ IsRewind(row) /\ row.seq = NextSeq /\ row.from_seq = from_seq
    BY <1>1, <2>2, RowForms
  <2> HIDE DEF row
  <2> QED BY <2>1, <2>3, InsertKeepsIInv
<1>7. CASE check_event_epoch(c)
  BY <1>7, TriggerKeepsIInv
<1>8. CASE commit(c)
  BY <1>8, CommitKeepsIInv
<1>9. CASE statement_timeout(c) \/ rollback(c)
  BY <1>9, EndingKeepsIInv DEF statement_timeout, rollback
<1> QED BY <1>2, <1>3, <1>4, <1>5, <1>6, <1>7, <1>8, <1>9 DEF Step

LEMMA NextKeepsIInv == IInv /\ [Next]_vars => IInv'
<1> SUFFICES ASSUME IInv, [Next]_vars PROVE IInv'
  OBVIOUS
<1>1. CASE Next
  BY <1>1, StepKeepsIInv DEF Next
<1>2. CASE UNCHANGED vars
  <2>1. UNCHANGED <<run_events, current_epoch, row_lock, conn, reply>>
    BY <1>2 DEF vars
  <2>2. TypeOK' /\ HoldersHaveTheRow'
    BY <2>1 DEF IInv, TypeOK, HoldersHaveTheRow
  <2>3. RowsAreInserts' /\ WrittenStaysValid'
    BY <2>1, TablesStay DEF IInv, RowsAreInserts, WrittenStaysValid
  <2> QED BY <2>1, <2>2, <2>3, TablesStay DEF IInv
<1> QED BY <1>1, <1>2

LEMMA IInvHolds == Spec => []IInv
BY InitHasIInv, NextKeepsIInv, PTL DEF Spec

----------------------------------------------------------------------------
\* The variables keep their types.
THEOREM TypeCorrect == Spec => []TypeOK
BY IInvHolds, PTL DEF IInv

\* What the trigger let pass is still valid when it commits, whatever the others do.
THEOREM VerdictsOutliveTheCheck == Spec => []WrittenStaysValid
BY IInvHolds, PTL DEF IInv

\* The committed log is in order, by number and by epoch, and its epochs are dense: the
\* invariants of the sequential Store, under any number of concurrent clients.
THEOREM LogStaysInOrder == Spec => [](Log!SeqOrderIsEpochOrder /\ Log!EpochsAreDense)
<1>1. IInv => Log!SeqOrderIsEpochOrder /\ Log!EpochsAreDense
  BY DEF IInv, Log!IInv
<1> QED BY <1>1, IInvHolds, PTL

----------------------------------------------------------------------------
(* An ordinary append that lost the race lost it to a committed event. *)

LEMMA LoserLost ==
  ASSUME IInv, NEW c \in Clients, conn[c].pc = "firing", ~conn[c].named,
         SeqTaken(conn[c].row)
  PROVE  Len(run_events) > conn[c].base
<1> DEFINE seq  == conn[c].row.seq
           base == conn[c].base
<1>1. IsInsert(conn[c]) /\ seq \in Nat /\ base \in Nat
  BY DEF IInv, RowsAreInserts, TypeOK, Conn, Event
<1>2. base <= Len(run_events) /\ \A i \in 1..base : run_events[i].seq < seq
  BY <1>1 DEF IsInsert, FollowsSnapshot
<1>3. PICK i \in DOMAIN run_events : run_events[i].seq >= seq
  BY DEF SeqTaken
<1>4. i \in 1..Len(run_events) /\ run_events[i].seq \in Nat /\ Len(run_events) \in Nat
  BY <1>3, LogFacts DEF IInv
<1>5. i \notin 1..base
  BY <1>1, <1>2, <1>3, <1>4
<1> QED BY <1>1, <1>2, <1>4, <1>5

\* Only the trigger answers 23505, and it answers the client it refuses.
LEMMA LosersAreTold ==
  ASSUME IInv, Next, NEW c \in Clients, conn[c].pc = "firing",
         reply' = [to |-> c, sqlstate |-> "23505"]
  PROVE  SeqTaken(conn[c].row)
<1>1. NoReply # [to |-> c, sqlstate |-> "23505"]
  BY DEF NoReply
<1>2. \A d : [to |-> d, sqlstate |-> "23505"] = [to |-> c, sqlstate |-> "23505"] => d = c
  <2>1. \A d : [to |-> d, sqlstate |-> "23505"].to = d
    OBVIOUS
  <2> QED BY <2>1
<1>3. \A d, code : [to |-> d, sqlstate |-> code] = [to |-> c, sqlstate |-> "23505"] => code = "23505"
  <2>1. \A d, code : [to |-> d, sqlstate |-> code].sqlstate = code
    OBVIOUS
  <2> QED BY <2>1
<1>4. \A d, code : Ends(d, code) => d = c /\ code = "23505"
  BY <1>2, <1>3 DEF Ends
<1>5. PICK d \in Clients : Step(d)
  BY DEF Next
<1>6. CASE check_event_epoch(d)
  BY <1>1, <1>4, <1>6 DEF check_event_epoch, EpochError
<1>7. CASE commit(d) \/ statement_timeout(d) \/ rollback(d)
  BY <1>4, <1>7 DEF commit, statement_timeout, rollback
<1>8. \A e, row, named : ~Insert(e, row, named)
  BY <1>1 DEF Insert
<1>9. ~rewind_lock(d)
  BY <1>1 DEF rewind_lock
<1>10. /\ ~append(d)
       /\ \A seq, epoch : ~insert_values(d, seq, epoch)
       /\ \A to_epoch, from_seq : ~rewind_insert(d, to_epoch, from_seq)
       /\ \A epoch, to_epoch, from_seq : ~rewind_unlocked(d, epoch, to_epoch, from_seq)
  BY <1>8 DEF append, insert_values, rewind_insert, rewind_unlocked
<1> QED BY <1>5, <1>6, <1>7, <1>9, <1>10 DEF Step

\* An ordinary append is told to retry only when somebody has made progress.
THEOREM RetriesAreDue == Spec => LosersLostToSomebody
<1> DEFINE LostTo(c) == /\ conn[c].pc = "firing" /\ ~conn[c].named
                        /\ reply' = [to |-> c, sqlstate |-> "23505"]
                        => Len(run_events) > conn[c].base
<1>1. IInv /\ [Next]_vars => [\A c \in Clients : LostTo(c)]_vars
  BY LosersAreTold, LoserLost
<1> QED BY <1>1, IInvHolds, PTL DEF Spec, LosersLostToSomebody

----------------------------------------------------------------------------
(* Refinement of the sequential Store. *)

\* What commits nothing leaves the Store alone.
LEMMA OthersCommitNothing ==
  ASSUME NEW c \in Clients, Step(c), ~commit(c)
  PROVE  UNCHANGED <<run_events, current_epoch>>
BY DEF Step, append, insert_values, rewind_lock, rewind_insert, rewind_unlocked, Insert,
       check_event_epoch, statement_timeout, rollback

LEMMA StepIsAStep == IInv /\ [Next]_vars => [Log!Next]_(Log!vars)
<1> SUFFICES ASSUME IInv, [Next]_vars PROVE Log!Next \/ UNCHANGED Log!vars
  OBVIOUS
<1>1. ASSUME UNCHANGED <<run_events, current_epoch>> PROVE UNCHANGED Log!vars
  BY <1>1 DEF Log!vars, Live, Cuts, Supersedes, IsRewind
<1>2. ASSUME NEW c \in Clients, Step(c) PROVE Log!Next \/ UNCHANGED Log!vars
  BY <1>1, <1>2, CommitIsAStep, OthersCommitNothing
<1>3. CASE UNCHANGED vars
  BY <1>1, <1>3 DEF vars
<1> QED BY <1>2, <1>3 DEF Next

\* Log and Store are the same specification, reached through two modules.
LEMMA LogIsStore ==
  /\ Log!Init <=> Store!Init
  /\ [Log!Next]_(Log!vars) <=> [Store!Next]_(Store!vars)
<1>1. Log!vars = Store!vars /\ Log!vars' = Store!vars'
  BY DEF Log!vars, Store!vars
<1>2. Log!Init <=> Store!Init
  BY DEF Log!Init, Store!Init
<1>3. Log!append <=> Store!append
  BY DEF Log!append, Store!append, Log!LastSeq, Store!LastSeq, Log!Ordinary, Store!Ordinary
<1>4. \A t, f : Log!rewind(t, f) <=> Store!rewind(t, f)
  BY DEF Log!rewind, Store!rewind, Log!LastSeq, Store!LastSeq, Log!Rewound, Store!Rewound,
         Log!MaySupersede, Store!MaySupersede, Log!Opens, Store!Opens
<1>5. \A n, s : Log!raw_append_at_epoch(n, s) <=> Store!raw_append_at_epoch(n, s)
  BY DEF Log!raw_append_at_epoch, Store!raw_append_at_epoch, Log!FreshSeq, Store!FreshSeq,
         Log!Ordinary, Store!Ordinary
<1>6. Log!Next <=> Store!Next
  BY <1>3, <1>4, <1>5 DEF Log!Next, Store!Next
<1> QED BY <1>1, <1>2, <1>6

\* The concurrent log implements the sequential Store: a commit is an append, a rewind or
\* a raw append of the Store, and every other step is none.
THEOREM LogImplementsStore == Spec => ImplementsStore
<1>1. Init => Log!Init
  <2>1. Live(<<>>) = {}
    BY DEF Live
  <2> QED BY <2>1 DEF Init, Log!Init
<1> QED BY <1>1, IInvHolds, StepIsAStep, LogIsStore, PTL DEF Spec, ImplementsStore, Store!Spec
=============================================================================
