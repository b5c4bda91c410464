----------------------------- MODULE PgEventLog -----------------------------
(***************************************************************************)
(* The event log of one run under Postgres (spikes/03-postgres): tables    *)
(* runs and run_events, the trigger check_event_epoch, and the clients of  *)
(* scenarios 1 and 2 of test_postgres.py on connections of their own.      *)
(*                                                                         *)
(* The isolation level is READ COMMITTED.  An INSERT computes its row from *)
(* the snapshot taken when the statement starts; the trigger then waits    *)
(* for the row of runs (SELECT ... FOR UPDATE) and, having got it, reads   *)
(* what is committed by then.  The row lock is held to the end of the      *)
(* transaction, and an error ends the transaction.                         *)
(*                                                                         *)
(* PgEventLog implements EpochLog: see ImplementsStore.                    *)
(***************************************************************************)
EXTENDS LiveSet

CONSTANTS
  Clients,     \* connections
  None,        \* nobody holds the row lock
  MaxEvents,   \* bound: events committed to the log
  MaxSeq       \* bound: sequence numbers, from_seq and epochs a client may make up

ASSUME NoneIsNoClient == None \notin Clients
ASSUME MaxEventsInNat == MaxEvents \in Nat
ASSUME MaxSeqInNat == MaxSeq \in Nat

VARIABLES
  run_events,     \* committed rows of run_events, in commit order
  current_epoch,  \* committed runs.current_epoch
  row_lock,       \* the client whose transaction holds the row of runs, or None
  conn,           \* conn[c]: the open transaction of client c
  reply           \* the server's answer, in a step that ends a transaction

vars == <<run_events, current_epoch, row_lock, conn, reply>>

----------------------------------------------------------------------------
\* A transaction is idle; locked: a rewind has read runs FOR UPDATE; firing: an INSERT
\* has computed its row and the trigger wants the lock; or written: the trigger let the
\* row pass and it awaits COMMIT.  named says that the client chose the epoch itself,
\* base is the length of the log in the snapshot the row was computed from.
NoRow  == Ordinary(0, 0)
Conn   == [pc : {"idle", "locked", "firing", "written"}, row : Event,
           named : BOOLEAN, base : Nat]
NoConn == [pc |-> "idle", row |-> NoRow, named |-> FALSE, base |-> 0]

\* 00000 committed, 23505 lost the seq race, 22023 refused for good, 57014 timed out,
\* 08006 the connection was lost.
Reply   == [to : Clients \cup {None},
            sqlstate : {"none", "00000", "23505", "22023", "57014", "08006"}]
NoReply == [to |-> None, sqlstate |-> "none"]

TypeOK ==
  /\ run_events \in Seq(Event)
  /\ current_epoch \in Nat
  /\ row_lock \in Clients \cup {None}
  /\ conn \in [Clients -> Conn]
  /\ reply \in Reply

Init ==
  /\ run_events = <<>>
  /\ current_epoch = 0
  /\ row_lock = None
  /\ conn = [c \in Clients |-> NoConn]
  /\ reply = NoReply

----------------------------------------------------------------------------
(* Statements. *)

NextSeq == LastSeq(run_events) + 1

Insert(c, row, named) ==
  /\ Len(run_events) < MaxEvents
  /\ conn' = [conn EXCEPT ![c] = [pc |-> "firing", row |-> row, named |-> named,
                                  base |-> Len(run_events)]]
  /\ reply' = NoReply
  /\ UNCHANGED <<run_events, current_epoch, row_lock>>

\* APPEND, an INSERT ... SELECT: the caller names neither number nor epoch.
append(c) == conn[c].pc = "idle" /\ Insert(c, Ordinary(NextSeq, current_epoch), FALSE)

\* INSERT ... VALUES by a client that makes up its row.
insert_values(c, seq, epoch) ==
  conn[c].pc = "idle" /\ Insert(c, Ordinary(seq, epoch), TRUE)

\* A rewind begins by taking the row of runs, once no other transaction has it.
rewind_lock(c) ==
  /\ conn[c].pc = "idle"
  /\ row_lock = None
  /\ row_lock' = c
  /\ conn' = [conn EXCEPT ![c].pc = "locked"]
  /\ reply' = NoReply
  /\ UNCHANGED <<run_events, current_epoch>>

\* The epoch the rewind read is current as long as it holds the row.
rewind_insert(c, to_epoch, from_seq) ==
  /\ conn[c].pc = "locked"
  /\ Insert(c, Rewound(NextSeq, current_epoch + 1, to_epoch, from_seq), TRUE)

\* The same INSERT by a client that skips the SELECT ... FOR UPDATE and guesses.
rewind_unlocked(c, epoch, to_epoch, from_seq) ==
  conn[c].pc = "idle" /\ Insert(c, Rewound(NextSeq, epoch, to_epoch, from_seq), TRUE)

----------------------------------------------------------------------------
(* The trigger check_event_epoch. *)

\* Mutant: the trigger reads the row of runs without locking it.
RowAvailableAlways(c) == TRUE

RowAvailable(c) == row_lock \in {None, c}

\* Mutant: a rewind is not checked against the current epoch.
EpochRefusedOrdinary(row) == ~IsRewind(row) /\ row.epoch # current_epoch

EpochRefused(row) ==
  IF IsRewind(row) THEN row.epoch # current_epoch + 1 \/ row.to_epoch > current_epoch
                   ELSE row.epoch # current_epoch

\* Mutant: the comparison is off by one.
SeqTakenByOne(row) == \E i \in DOMAIN run_events : run_events[i].seq + 1 >= row.seq

SeqTaken(row) == \E i \in DOMAIN run_events : run_events[i].seq >= row.seq

EpochError == "22023"

\* The transaction of c is over and its locks are released.
Ends(c, sqlstate) ==
  /\ conn' = [conn EXCEPT ![c] = NoConn]
  /\ row_lock' = IF row_lock = c THEN None ELSE row_lock
  /\ reply' = [to |-> c, sqlstate |-> sqlstate]

check_event_epoch(c) ==
  LET row == conn[c].row IN
  /\ conn[c].pc = "firing"
  /\ RowAvailable(c)
  /\ UNCHANGED <<run_events, current_epoch>>
  /\ \/ EpochRefused(row) /\ Ends(c, EpochError)
     \/ ~EpochRefused(row) /\ SeqTaken(row) /\ Ends(c, "23505")
     \/ /\ ~EpochRefused(row) /\ ~SeqTaken(row)
        /\ row_lock' = c
        /\ conn' = [conn EXCEPT ![c].pc = "written"]
        /\ reply' = NoReply

----------------------------------------------------------------------------
(* How a transaction ends. *)

\* The row becomes visible, with the epoch the trigger moved the run to.  The
\* acknowledgement can be lost: the client then does not know that it committed.
commit(c) ==
  LET row == conn[c].row IN
  /\ conn[c].pc = "written"
  /\ Len(run_events) < MaxEvents
  /\ run_events' = Append(run_events, row)
  /\ current_epoch' = IF IsRewind(row) THEN row.epoch ELSE current_epoch
  /\ Ends(c, "00000") \/ Ends(c, "08006")

\* Mutant: no statement_timeout is set on the append path.
TimesOutNever(c) == FALSE

TimesOut(c) == conn[c].pc = "firing" /\ ~RowAvailable(c)

\* A statement that is blocked on the row for too long is cancelled.
statement_timeout(c) ==
  /\ TimesOut(c)
  /\ Ends(c, "57014")
  /\ UNCHANGED <<run_events, current_epoch>>

\* The client rolls back, dies or is cut off.
rollback(c) ==
  /\ conn[c].pc # "idle"
  /\ Ends(c, "08006")
  /\ UNCHANGED <<run_events, current_epoch>>

----------------------------------------------------------------------------
MadeUp == 0..MaxSeq

Step(c) ==
  \/ append(c) \/ rewind_lock(c)
  \/ \E seq \in 1..MaxSeq, epoch \in MadeUp : insert_values(c, seq, epoch)
  \/ \E to_epoch \in MadeUp, from_seq \in 1..MaxSeq : rewind_insert(c, to_epoch, from_seq)
  \/ \E epoch, to_epoch \in MadeUp, from_seq \in 1..MaxSeq :
        rewind_unlocked(c, epoch, to_epoch, from_seq)
  \/ check_event_epoch(c) \/ commit(c) \/ statement_timeout(c) \/ rollback(c)

Next == \E c \in Clients : Step(c)

\* The server runs a statement that can run and cancels one that cannot.  Clients owe
\* nothing: a transaction may be left open for ever.
Fairness == \A c \in Clients : WF_vars(check_event_epoch(c) \/ statement_timeout(c))

Spec == Init /\ [][Next]_vars

FairSpec == Spec /\ Fairness

----------------------------------------------------------------------------
(* Properties. *)

\* What the trigger has let pass is still valid when it commits, whatever the other
\* clients did in between: the epoch it was checked against is the run's, its number is
\* above every committed one, and no other transaction is in the same position.
WrittenStaysValid ==
  \A c \in Clients : conn[c].pc = "written" =>
     /\ ~EpochRefused(conn[c].row) /\ ~SeqTaken(conn[c].row)
     /\ \A d \in Clients \ {c} : conn[d].pc \notin {"written", "locked"}

\* "The loser retries" is sound: an ordinary append is told 23505 only when an event
\* was committed since it took its snapshot, so some competitor has made progress.
LosersLostToSomebody ==
  [][\A c \in Clients :
       /\ conn[c].pc = "firing" /\ ~conn[c].named
       /\ reply' = [to |-> c, sqlstate |-> "23505"]
       => Len(run_events) > conn[c].base]_vars

\* Every statement ends, with an answer or a timeout, even if a transaction that holds
\* the row of runs is never finished.
StatementsEnd == \A c \in Clients : conn[c].pc = "firing" ~> conn[c].pc # "firing"

\* The committed tables go through the states of the sequential Store and no others:
\* concurrent appends, rewinds, made-up rows, timeouts and lost connections included.
Store == INSTANCE EpochLog WITH branch <- Live(run_events)

ImplementsStore == Store!Spec

----------------------------------------------------------------------------
(* What the repository says, and the code does not do. *)

\* "An ordinary append cannot name an epoch ... the trigger in §01 rejects any mismatch,
\* and this statement structurally cannot produce one" (spec/02-consistency.md:101):
\* no ordinary append is ever told 22023, the code that must never be retried.
AppendIsNeverRefused ==
  [][\A c \in Clients :
       /\ conn[c].pc = "firing" /\ ~conn[c].named /\ ~IsRewind(conn[c].row)
       => reply' # [to |-> c, sqlstate |-> "22023"]]_vars
============================================================================
