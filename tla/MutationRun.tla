----------------------------- MODULE MutationRun -----------------------------
(***************************************************************************)
(* mutate.py of spike 06: does every mutation of the harness break a gate? *)
(* It runs the gates in copies of the spike that it makes, one after the   *)
(* other, of a tree that people edit, record pins in and run the gates in  *)
(* meanwhile (SdkPin).                                                     *)
(*                                                                         *)
(* A harness is [base, mutation]: what somebody wrote, and the mutation    *)
(* applied to it, or None.  A run of the gates is one step here; SdkPin    *)
(* has the steps of its check of the pin.                                  *)
(***************************************************************************)
EXTENDS SdkPin

CONSTANTS
  MUTATIONS,   \* a sequence
  Harnesses,   \* what people may write
  HasPattern,  \* HasPattern[h]: the mutations that apply to harness h
  Tests,       \* test_gate.py, as people may write it
  Catches,     \* Catches[t]: the mutations that break a gate of t
  OnGood       \* OnGood[t][h]: whether "none", "some" or "all" of t's gates fail on h

ASSUME MutationsAreMutations ==
  /\ MUTATIONS \in Seq(Range(MUTATIONS)) /\ MUTATIONS # <<>>
  /\ \A h \in Harnesses : HasPattern[h] \subseteq Range(MUTATIONS)
  /\ \A t \in Tests : Catches[t] \subseteq Range(MUTATIONS)
  /\ \A t \in Tests, h \in Harnesses : OnGood[t][h] \in {"none", "some", "all"}

VARIABLES
  live,     \* the live tree: [harness, tests]; pinned_digests.json is SdkPin's
  mutate,   \* the run of mutate.py
  root,     \* the last copy in its temporary directory, or None when that is gone
  verdict   \* what it said at its end

mvars == <<live, mutate, root, verdict>>

----------------------------------------------------------------------------
Text(h) == [base |-> h, mutation |-> None]
NoRun   == [pc |-> "idle", original |-> None, todo |-> <<>>,
            survivable |-> {}, baseline |-> None, edited |-> {}]
NoCopy  == [harness |-> None, tests |-> None, pin |-> NoPin, source |-> {}]

MInit ==
  /\ Init
  /\ live \in [harness : {Text(h) : h \in Harnesses}, tests : Tests]
  /\ mutate = NoRun
  /\ root = None
  /\ verdict = "none"

----------------------------------------------------------------------------
(* The gates in a copy. *)

\* How many gates fail, and whether any is reported at all: a pin that does not hold ends
\* the session before the first of them.
Gates(copy) ==
  LET good    == OnGood[copy.tests][copy.harness.base]
      caught  == copy.harness.mutation # None /\ copy.harness.mutation \in Catches[copy.tests]
      reached == sdk_modules_imported_by(copy.source)
      gate_0  == reached # {} /\ reached \subseteq DOMAIN copy.pin.files
  IN IF ~check(copy.pin) THEN "error"
     ELSE IF good = "all" THEN "all"
     ELSE IF good = "some" \/ caught \/ ~gate_0 THEN "some"
     ELSE "none"

\* Mutant: whatever does not pass has failed.
FailedUnlessPassed(copy) == Gates(copy) # "none"

\* _run: the failures it finds in pytest's last line, "N failed, M passed".  When no gate
\* passes the line has another form, and it finds none.
Failed(copy) == Gates(copy) = "some"

\* copy_spike of the live tree, with the harness given.
CopyOf(h) == [harness |-> h, tests |-> live.tests, pin |-> pin, source |-> source]

RunIs(r) == mutate' = r /\ UNCHANGED vars

mutate_starts ==
  /\ mutate.pc = "idle"
  /\ session.pc = "idle" /\ verdict = "none"
  /\ RunIs([NoRun EXCEPT !.pc = "baseline", !.original = live.harness.base,
                        !.todo = MUTATIONS])
  /\ root' = NoCopy
  /\ verdict' = "none"
  /\ UNCHANGED live

copy_baseline ==
  /\ mutate.pc = "baseline"
  /\ root' = CopyOf(live.harness)
  /\ RunIs([mutate EXCEPT !.pc = "baseline runs"])
  /\ UNCHANGED <<live, verdict>>

Ends(v) == verdict' = v /\ RunIs(NoRun) /\ UNCHANGED live

\* The directory is removed, finally.
EndsNotClean == Ends("not clean") /\ root' = None

run_baseline ==
  /\ mutate.pc = "baseline runs"
  /\ IF Failed(root) THEN EndsNotClean
     ELSE RunIs([mutate EXCEPT !.pc = "mutations", !.baseline = Gates(root)]) /\ UNCHANGED <<live, root, verdict>>

Turn == mutate.pc = "mutations" /\ mutate.todo # <<>>
Applies(m) == m \in HasPattern[mutate.original]

\* The pattern of the next mutation is not in the harness.
pattern_miss ==
  /\ Turn /\ ~Applies(Head(mutate.todo))
  /\ RunIs([mutate EXCEPT !.todo = Tail(@), !.survivable = @ \cup {Head(mutate.todo)}])
  /\ UNCHANGED <<live, root, verdict>>

\* Mutant: as before round 3, in the live tree.
MutatesLive(h) == live' = [live EXCEPT !.harness = h] /\ root' = CopyOf(h)

Mutates(h) == root' = CopyOf(h) /\ UNCHANGED live

\* A fresh copy, and the mutated original over its harness.
copy_mutation ==
  /\ Turn /\ Applies(Head(mutate.todo))
  /\ Mutates([base |-> mutate.original, mutation |-> Head(mutate.todo)])
  /\ RunIs([mutate EXCEPT !.pc = "mutation runs"])
  /\ UNCHANGED verdict

run_mutation ==
  /\ mutate.pc = "mutation runs"
  /\ RunIs([mutate EXCEPT !.pc = "mutations", !.todo = Tail(@),
             !.survivable = IF Failed(root) THEN @ ELSE @ \cup {Head(mutate.todo)}])
  /\ UNCHANGED <<live, root, verdict>>

remove_root ==
  /\ mutate.pc = "mutations"
  /\ mutate.todo = <<>>
  /\ root' = None
  /\ RunIs([mutate EXCEPT !.pc = "ends"])
  /\ UNCHANGED <<live, verdict>>

\* The live harness must be the original still.
mutate_ends ==
  /\ mutate.pc = "ends"
  /\ Ends(IF live.harness # Text(mutate.original) THEN "changed"
          ELSE IF mutate.survivable # {} THEN "survivable" ELSE "caught")
  /\ UNCHANGED root

\* Killed: nothing is removed.
mutate_killed ==
  /\ mutate.pc # "idle"
  /\ RunIs(NoRun)
  /\ verdict' = "none"
  /\ UNCHANGED <<live, root>>

----------------------------------------------------------------------------
imported == sdk_modules_imported_by(source)

Edited(what) == mutate' = [mutate EXCEPT !.edited = IF mutate.pc = "idle" THEN @ ELSE @ \cup what]

\* Somebody edits the live harness or its gates.
edit_live(tree) ==
  /\ tree # live
  /\ changes < MaxChanges
  /\ changes' = changes + 1
  /\ live' = tree
  /\ Edited({part \in {"harness", "tests"} : tree[part] # live[part]})
  /\ UNCHANGED <<sdk, source, pin, session, recorder, touched, fresh, root, verdict>>

\* What goes on in SdkPin.  Sessions on the live tree only read, and mutate.py does not
\* write what they read: a session during a run of it would show nothing new and is left out.
\* The SDK may come to give the spike's imports other files.
Around ==
  /\ Next
  /\ mutate.pc # "idle" => UNCHANGED session
  /\ Edited({part \in {"source"} : source' # source}
              \cup {part \in {"imports"} : imported' # imported})
  /\ UNCHANGED <<live, root, verdict>>

MNext ==
  \/ Around
  \/ \E h \in Harnesses, t \in Tests : edit_live([harness |-> Text(h), tests |-> t])
  \/ mutate_starts \/ copy_baseline \/ run_baseline
  \/ pattern_miss \/ copy_mutation \/ run_mutation
  \/ remove_root \/ mutate_ends \/ mutate_killed

MSpec == MInit /\ [][MNext]_<<vars, mvars>>

----------------------------------------------------------------------------
(* Properties. *)

\* "every mutation is caught by at least one gate" is true of the harness and the gates
\* in the tree, when those are left alone, go on to import the same files of the SDK, and the
\* baseline ran, whatever else becomes of the SDK and the pin meanwhile: no session that never
\* got to a gate counts as a catch.
VerdictIsTrue ==
  [][mutate.pc = "ends" /\ verdict' = "caught" /\ mutate.edited = {}
       /\ mutate.baseline # "error" =>
     \A m \in Range(MUTATIONS) : /\ m \in HasPattern[live.harness.base] \cap Catches[live.tests]
                          /\ OnGood[live.tests][live.harness.base] = "none"]_<<vars, mvars>>

\* A concurrent session, an editor or CI only ever sees a harness somebody wrote, also
\* when mutate.py is killed (mutate.py:10-18, rule 7).
OthersSeeOnlyWrittenCode == live.harness.mutation = None

=============================================================================
