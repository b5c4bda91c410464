------------------------------- MODULE LiveSet -------------------------------
(***************************************************************************)
(* The rows of run_events and the live-set rule every reader of the log    *)
(* folds by: live of spec/epoch_algorithm_test.py.                         *)
(***************************************************************************)
EXTENDS Naturals, Sequences

Event == [seq : Nat, epoch : Nat, event_type : {"ordinary", "run.rewound"},
          to_epoch : Nat, from_seq : Nat]

Ordinary(seq, epoch) ==
  [seq |-> seq, epoch |-> epoch, event_type |-> "ordinary",
   to_epoch |-> 0, from_seq |-> 0]

Rewound(seq, epoch, to_epoch, from_seq) ==
  [seq |-> seq, epoch |-> epoch, event_type |-> "run.rewound",
   to_epoch |-> to_epoch, from_seq |-> from_seq]

IsRewind(e) == e.event_type = "run.rewound"

\* COALESCE(MAX(seq), 0)
LastSeq(log) ==
  IF log = <<>> THEN 0
  ELSE CHOOSE m \in {log[i].seq : i \in DOMAIN log} :
         \A i \in DOMAIN log : log[i].seq <= m

----------------------------------------------------------------------------
(* The live-set rule. *)

\* Mutant: the rule of `naive', which forgets that continuations are newer.
SupersedesNaively(cut, e) == e.seq >= cut.from_seq

Supersedes(cut, e) == e.epoch <= cut.to_epoch /\ e.seq >= cut.from_seq

\* The cuts that count: every run.rewound event of the log.
Cuts(log) == {i \in DOMAIN log : IsRewind(log[i])}

\* The sequence numbers of live(log).
Live(log) == {log[i].seq : i \in {j \in DOMAIN log :
                /\ ~IsRewind(log[j])
                /\ \A c \in Cuts(log) : ~Supersedes(log[c], log[j])}}
==============================================================================
