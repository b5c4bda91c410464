------------------------------ MODULE EpochLog ------------------------------
(***************************************************************************)
(* The event log of one run and its rewind epochs, as the reference of     *)
(* spec/epoch_algorithm_test.py keeps it: class Store (the persistence     *)
(* protocol).  The live-set rule is in LiveSet.                            *)
(*                                                                         *)
(* A rewind deletes nothing.  It opens epoch n+1 with a run.rewound event  *)
(* saying that events of epochs <= to_epoch numbered from from_seq on no   *)
(* longer count.  Every method is one committed SQLite transaction; the    *)
(* ones that raise EpochViolation do so before they write.                 *)
(***************************************************************************)
EXTENDS LiveSet

CONSTANTS
  MaxEvents,   \* bound: events appended to the log
  MaxSeq       \* bound: sequence numbers a writer may make up

VARIABLES
  run_events,     \* the rows of the table, in insertion order
  current_epoch,  \* runs.current_epoch
  branch          \* history: the seqs that count, had each rewind been carried out
                  \* on the spot by deleting what it supersedes

vars == <<run_events, current_epoch, branch>>

----------------------------------------------------------------------------
Init ==
  /\ run_events = <<>>
  /\ current_epoch = 0
  /\ branch = {}

\* The ordinary append names neither its epoch nor its sequence number.  Of its event
\* types only run.rewound would be read back differently, and no caller appends that.
append ==
  LET seq == LastSeq(run_events) + 1 IN
  /\ Len(run_events) < MaxEvents
  /\ run_events' = Append(run_events, Ordinary(seq, current_epoch))
  /\ branch' = branch \cup {seq}
  /\ UNCHANGED current_epoch

MaySupersede(to_epoch) == to_epoch <= current_epoch

\* Mutant: the epoch is the one superseded, plus one, as if rewinds never nested.
OpensAfterCut(to_epoch) == to_epoch + 1

\* The epoch a rewind of to_epoch opens.
Opens(to_epoch) == current_epoch + 1

\* from_seq is not validated.
rewind(to_epoch, from_seq) ==
  /\ Len(run_events) < MaxEvents
  /\ MaySupersede(to_epoch)
  /\ run_events' = Append(run_events, Rewound(LastSeq(run_events) + 1,
                                        Opens(to_epoch), to_epoch, from_seq))
  /\ current_epoch' = Opens(to_epoch)
  /\ branch' = branch \ {run_events[i].seq : i \in {j \in DOMAIN run_events :
                 run_events[j].epoch <= to_epoch /\ run_events[j].seq >= from_seq}}

\* Mutant: only a number already taken is refused (the primary key on its own).
FreshUnused(seq) == \A i \in DOMAIN run_events : run_events[i].seq # seq

FreshSeq(seq) == \A i \in DOMAIN run_events : run_events[i].seq < seq

\* A misbehaving writer that names its own epoch and sequence number: what is not
\* refused is an append that may leave a gap.
raw_append_at_epoch(epoch, seq) ==
  /\ Len(run_events) < MaxEvents
  /\ epoch = current_epoch
  /\ FreshSeq(seq)
  /\ run_events' = Append(run_events, Ordinary(seq, epoch))
  /\ branch' = branch \cup {seq}
  /\ UNCHANGED current_epoch

Next ==
  \/ append
  \/ \E to_epoch \in 0..MaxEvents, from_seq \in 1..MaxSeq : rewind(to_epoch, from_seq)
  \/ \E epoch \in 0..MaxEvents, seq \in 1..MaxSeq : raw_append_at_epoch(epoch, seq)

Spec == Init /\ [][Next]_vars

----------------------------------------------------------------------------
(* Properties. *)

TypeOK ==
  /\ run_events \in Seq(Event)
  /\ current_epoch \in Nat
  /\ branch \in SUBSET Nat

\* Sequence order and (epoch, sequence) order are one order, the property every fold
\* relies on: a later event never lies in an earlier epoch (spec/04-events.md:223).
SeqOrderIsEpochOrder ==
  \A i, j \in DOMAIN run_events : i < j =>
     /\ run_events[i].seq < run_events[j].seq
     /\ run_events[i].epoch <= run_events[j].epoch

\* Epochs are dense and current_epoch counts the rewinds: epoch n > 0 is opened by
\* exactly one rewind, and everything that follows it in the log is in epoch n or later.
EpochsAreDense ==
  \A n \in 1..current_epoch :
    \E i \in DOMAIN run_events :
      /\ \A j \in DOMAIN run_events :
           IsRewind(run_events[j]) /\ run_events[j].epoch = n <=> j = i
      /\ \A j \in DOMAIN run_events : j < i <=> run_events[j].epoch < n

\* The live-set rule, applied to the whole log, gives what carrying out the rewinds one
\* by one would have given: continuations survive every earlier rewind, rewinds compose,
\* and nothing a rewind superseded comes back.
LiveIsTheBranch == Live(run_events) = branch
============================================================================
