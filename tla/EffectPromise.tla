--------------------------- MODULE EffectPromise ---------------------------
(***************************************************************************)
(* What the effect ledger promises the rest of the platform about ONE      *)
(* side effect, whatever the workers, the approvers, the leases and the    *)
(* sweeper do.  It says nothing of any of them: an effect is wanted, then  *)
(* either refused or attempted; an attempt may really run the side effect  *)
(* once; the attempt ends with a verdict, `done' only when the side effect *)
(* did run, `unknown' when contact was lost.  Every verdict is final.      *)
(*                                                                         *)
(* EffectLifecycle implements this specification (see Promise there).      *)
(***************************************************************************)
EXTENDS Naturals

CONSTANT Keys      \* idempotency keys of the effects

VARIABLES
  verdict,         \* verdict[k]: where the effect stands
  runs             \* runs[k]: how often the side effect has really happened

vars == <<verdict, runs>>

Verdicts == {"wanted", "refused", "attempted", "done", "unknown"}
Final    == {"refused", "done", "unknown"}

TypeOK == /\ verdict \in [Keys -> Verdicts]
          /\ runs \in [Keys -> 0..1]

Init == /\ verdict = [k \in Keys |-> "wanted"]
        /\ runs = [k \in Keys |-> 0]

Refuse(k) == /\ verdict[k] = "wanted"
             /\ verdict' = [verdict EXCEPT ![k] = "refused"]
             /\ UNCHANGED runs

Attempt(k) == /\ verdict[k] = "wanted"
              /\ verdict' = [verdict EXCEPT ![k] = "attempted"]
              /\ UNCHANGED runs

\* The side effect happens at most once, and possibly after the attempt has
\* already been written off as unknown.
Happen(k) == /\ verdict[k] \in {"attempted", "unknown"}
             /\ runs[k] = 0
             /\ runs' = [runs EXCEPT ![k] = 1]
             /\ UNCHANGED verdict

Conclude(k) == /\ verdict[k] = "attempted"
               /\ runs[k] = 1
               /\ verdict' = [verdict EXCEPT ![k] = "done"]
               /\ UNCHANGED runs

\* Several attempts may be written off by one step of the sweeper.
WriteOff(ks) == /\ \A k \in ks : verdict[k] = "attempted"
                /\ verdict' = [k \in Keys |-> IF k \in ks THEN "unknown" ELSE verdict[k]]
                /\ UNCHANGED runs

Next == \/ \E k \in Keys : Refuse(k) \/ Attempt(k) \/ Happen(k) \/ Conclude(k)
        \/ \E ks \in SUBSET Keys : WriteOff(ks)

Spec == Init /\ [][Next]_vars
============================================================================
