-------------------------- MODULE EffectLifecycle --------------------------
(***************************************************************************)
(* The effect ledger of spec/effect_lifecycle_test.py: class Ledger, its   *)
(* four tables and every method that writes them, used by concurrent       *)
(* workers, human approvers and a sweeper.                                 *)
(*                                                                         *)
(*   intend -> (require_approval, decide) -> claim -> dispatch -> settle   *)
(*                                                                         *)
(* Each method is one committed transaction, so one action.  The exception *)
(* is dispatch_and_settle: the side effect is outside the database, and a  *)
(* worker can stall or die between claiming, running it and settling, so   *)
(* it is split where the outside world can be observed.                    *)
(*                                                                         *)
(* Time is abstracted to what the predicates ask of it: whether the run    *)
(* lease and the effect lease have expired.  SQL NULL is None or 0.        *)
(***************************************************************************)
EXTENDS Naturals, Sequences

CONSTANTS
  Runs,        \* run ids
  Keys,        \* idempotency keys of the effects
  Workers,     \* worker identities
  Approvals,   \* approval ids
  None,        \* SQL NULL / "no such worker, run or key"
  MaxFence     \* bound: run leases taken per run

ASSUME NoneIsNoId == None \notin Workers \cup Runs \cup Keys
ASSUME MaxFenceInNat == MaxFence \in Nat

VARIABLES
  effect_ledger,  \* [Keys -> row]
  run_leases,     \* [Runs -> row]
  approvals,      \* [Approvals -> row]
  task,           \* task[w]: the claim worker w is carrying out
  SIDE_EFFECTS,   \* SIDE_EFFECTS[k]: the workers that really ran effect k, in order
  minted,         \* claim tokens handed out so far: secrets.token_hex never repeats
  granted,        \* history: granted[r][f] is the worker given fence token f
  claimed_under,  \* history: the fence token effect k was claimed under, 0 before
  asked           \* history: the effects that were put to a human

vars == <<effect_ledger, run_leases, approvals, task, SIDE_EFFECTS, minted,
          granted, claimed_under, asked>>

----------------------------------------------------------------------------
Unclaimed == {"absent", "intended", "awaiting_approval", "denied"}
Claimed   == {"claimed", "succeeded", "indeterminate"}
Statuses  == Unclaimed \cup Claimed

\* The CHECK of the table: a claimed row has an owner and a token, no other row has.
ClaimFieldsTogether(row) ==
  /\ row.status \in Unclaimed => row.claim_owner = None /\ row.claim_token = 0
  /\ row.status \in Claimed => row.claim_owner \in Workers /\ row.claim_token > 0

EffectRow ==
  {row \in [run_id : Runs \cup {None}, status : Statuses,
            claim_owner : Workers \cup {None}, claim_token : Nat,
            lease_expired : BOOLEAN, result_ref : Workers \cup {None}] :
     ClaimFieldsTogether(row)}
LeaseRow  == [holder : Workers \cup {None}, fence_token : Nat, expired : BOOLEAN]
ApprovalRow == [run_id : Runs \cup {None}, action_ref : Keys \cup {None},
                status : {"absent", "pending", "approved", "denied"}]
Task == [key : Keys \cup {None}, token : Nat, ran : BOOLEAN]

NoEffect   == [run_id |-> None, status |-> "absent", claim_owner |-> None,
               claim_token |-> 0, lease_expired |-> FALSE, result_ref |-> None]
NoLease    == [holder |-> None, fence_token |-> 0, expired |-> TRUE]
NoApproval == [run_id |-> None, action_ref |-> None, status |-> "absent"]
Idle       == [key |-> None, token |-> 0, ran |-> FALSE]

Status(k) == effect_ledger[k].status
RunOf(k)  == effect_ledger[k].run_id

\* The type invariant; EffectRow carries the CHECK constraint of the table.
TypeOK ==
  /\ effect_ledger \in [Keys -> EffectRow]
  /\ run_leases \in [Runs -> LeaseRow]
  /\ approvals \in [Approvals -> ApprovalRow]
  /\ task \in [Workers -> Task]
  /\ SIDE_EFFECTS \in [Keys -> Seq(Workers)]
  /\ minted \in Nat
  /\ granted \in [Runs -> Seq(Workers)]
  /\ claimed_under \in [Keys -> Nat]
  /\ asked \in SUBSET Keys

Init ==
  /\ effect_ledger = [k \in Keys |-> NoEffect]
  /\ run_leases = [r \in Runs |-> NoLease]
  /\ approvals = [a \in Approvals |-> NoApproval]
  /\ task = [w \in Workers |-> Idle]
  /\ SIDE_EFFECTS = [k \in Keys |-> <<>>]
  /\ minted = 0
  /\ granted = [r \in Runs |-> <<>>]
  /\ claimed_under = [k \in Keys |-> 0]
  /\ asked = {}

----------------------------------------------------------------------------
(* Run leases. *)

\* INSERT OR REPLACE: the new holder displaces any other, expired or not.  The
\* caller passes a fence token it has not used before for this run.
take_run_lease(r, w) ==
  /\ Len(granted[r]) < MaxFence
  /\ granted' = [granted EXCEPT ![r] = Append(@, w)]
  /\ run_leases' = [run_leases EXCEPT ![r] =
       [holder |-> w, fence_token |-> Len(granted[r]) + 1, expired |-> FALSE]]
  /\ UNCHANGED <<effect_ledger, approvals, task, SIDE_EFFECTS, minted,
                 claimed_under, asked>>

\* Time passes, or expire_run_lease is called.
expire_run_lease(r) ==
  /\ run_leases[r].holder # None
  /\ ~run_leases[r].expired
  /\ run_leases' = [run_leases EXCEPT ![r].expired = TRUE]
  /\ UNCHANGED <<effect_ledger, approvals, task, SIDE_EFFECTS, minted, granted,
                 claimed_under, asked>>

----------------------------------------------------------------------------
(* Phase 1 and 2: intent and approval. *)

\* ON CONFLICT DO NOTHING: only the first intent for a key creates the row.
intend(k, r) ==
  /\ Status(k) = "absent"
  /\ effect_ledger' = [effect_ledger EXCEPT ![k] =
       [NoEffect EXCEPT !.run_id = r, !.status = "intended"]]
  /\ UNCHANGED <<run_leases, approvals, task, SIDE_EFFECTS, minted, granted,
                 claimed_under, asked>>

\* The composite foreign key: an approval names an effect of its own run.
ReferencesEffect(k, r) == Status(k) # "absent" /\ RunOf(k) = r

\* Two statements.  When the INSERT is refused (approval id in use, or the effect
\* belongs to another run) the exception leaves the transaction open with the
\* UPDATE in it, and the next method's commit makes it durable.
require_approval(k, a, r) ==
  /\ effect_ledger' =
       IF Status(k) = "intended"
         THEN [effect_ledger EXCEPT ![k].status = "awaiting_approval"]
         ELSE effect_ledger
  /\ asked' = IF Status(k) = "intended" THEN asked \cup {k} ELSE asked
  /\ approvals' =
       IF approvals[a].status = "absent" /\ ReferencesEffect(k, r)
         THEN [approvals EXCEPT ![a] =
                 [run_id |-> r, action_ref |-> k, status |-> "pending"]]
         ELSE approvals
  /\ UNCHANGED <<run_leases, task, SIDE_EFFECTS, minted, granted, claimed_under>>

\* Mutant: a denial also reaches an effect whose claim is under way.
DeniableLate(k) == Status(k) \in {"awaiting_approval", "claimed"}

Deniable(k) == Status(k) = "awaiting_approval"

\* A denial reaches the effect whether or not the approval was still pending.
decide(a, decision) ==
  LET k == approvals[a].action_ref IN
  /\ approvals[a].status # "absent"
  /\ approvals' = IF approvals[a].status = "pending"
                    THEN [approvals EXCEPT ![a].status = decision]
                    ELSE approvals
  /\ effect_ledger' = IF decision = "denied" /\ Deniable(k)
                        THEN [effect_ledger EXCEPT ![k].status = "denied"]
                        ELSE effect_ledger
  /\ UNCHANGED <<run_leases, task, SIDE_EFFECTS, minted, granted,
                 claimed_under, asked>>

----------------------------------------------------------------------------
(* Phase 3: the claim, one UPDATE statement. *)

Approved(k) ==
  \E a \in Approvals : /\ approvals[a].action_ref = k
                       /\ approvals[a].run_id = RunOf(k)
                       /\ approvals[a].status = "approved"

\* Mutant: a claim whose lease ran out is up for grabs, as a run lease would be.
ClaimableAgain(k) == \/ Status(k) \in {"intended", "indeterminate"}
                     \/ Status(k) = "awaiting_approval" /\ Approved(k)

\* Mutant: the approval is read before the UPDATE, not in it.
ClaimableUnasked(k) == Status(k) \in {"intended", "awaiting_approval"}

Claimable(k) == \/ Status(k) = "intended"
                \/ Status(k) = "awaiting_approval" /\ Approved(k)

\* Mutant: the holder's name alone identifies the lease.
HoldsRunLeaseByName(r, w, fence) == run_leases[r].holder = w /\ ~run_leases[r].expired

HoldsRunLease(r, w, fence) ==
  /\ run_leases[r].holder = w
  /\ run_leases[r].fence_token = fence
  /\ ~run_leases[r].expired

\* Worker w, free of other work, claims under a fence token it was once given: it
\* may have been fenced out of the run long ago and not know it.  A claim that
\* matches no row returns None and the worker goes on without dispatching.
claim(w, k, fence) ==
  /\ task[w] = Idle
  /\ Status(k) # "absent"
  /\ fence \in DOMAIN granted[RunOf(k)]
  /\ granted[RunOf(k)][fence] = w
  /\ Claimable(k)
  /\ HoldsRunLease(RunOf(k), w, fence)
  /\ minted' = minted + 1
  /\ effect_ledger' = [effect_ledger EXCEPT ![k] =
       [@ EXCEPT !.status = "claimed", !.claim_owner = w,
                 !.claim_token = minted + 1, !.lease_expired = FALSE]]
  /\ task' = [task EXCEPT ![w] = [key |-> k, token |-> minted + 1, ran |-> FALSE]]
  /\ claimed_under' = [claimed_under EXCEPT ![k] = fence]
  /\ UNCHANGED <<run_leases, approvals, SIDE_EFFECTS, granted, asked>>

----------------------------------------------------------------------------
(* Phase 4 and 5: dispatch_and_settle, and the sweeper. *)

\* SIDE_EFFECTS.append(label): nothing is consulted first.
dispatch(w) ==
  LET k == task[w].key IN
  /\ k # None
  /\ ~task[w].ran
  /\ SIDE_EFFECTS' = [SIDE_EFFECTS EXCEPT ![k] = Append(@, w)]
  /\ task' = [task EXCEPT ![w].ran = TRUE]
  /\ UNCHANGED <<effect_ledger, run_leases, approvals, minted, granted,
                 claimed_under, asked>>

\* The fenced UPDATE: owner, token and status must all still match.
OwnsClaim(w, k, token) == /\ effect_ledger[k].claim_owner = w
                          /\ effect_ledger[k].claim_token = token
                          /\ Status(k) = "claimed"

\* Mutant: the verdict is written before the side effect runs.
MaySettleEarly(w) == task[w].key # None

MaySettle(w) == task[w].key # None /\ task[w].ran

settle(w) ==
  LET k == task[w].key IN
  /\ MaySettle(w)
  /\ effect_ledger' =
       IF OwnsClaim(w, k, task[w].token)
         THEN [effect_ledger EXCEPT ![k] =
                 [@ EXCEPT !.status = "succeeded", !.result_ref = w]]
         ELSE effect_ledger
  /\ task' = [task EXCEPT ![w] = Idle]
  /\ UNCHANGED <<run_leases, approvals, SIDE_EFFECTS, minted, granted,
                 claimed_under, asked>>

\* The worker process dies: its claim, its token and what it had done are lost.
crash(w) ==
  /\ task[w] # Idle
  /\ task' = [task EXCEPT ![w] = Idle]
  /\ UNCHANGED <<effect_ledger, run_leases, approvals, SIDE_EFFECTS, minted,
                 granted, claimed_under, asked>>

effect_lease_expires(k) ==
  /\ Status(k) = "claimed"
  /\ ~effect_ledger[k].lease_expired
  /\ effect_ledger' = [effect_ledger EXCEPT ![k].lease_expired = TRUE]
  /\ UNCHANGED <<run_leases, approvals, task, SIDE_EFFECTS, minted, granted,
                 claimed_under, asked>>

\* Mutant: the comparison with the clock is the wrong way round.
StuckEarly == {k \in Keys : Status(k) = "claimed" /\ ~effect_ledger[k].lease_expired}

Stuck == {k \in Keys : Status(k) = "claimed" /\ effect_ledger[k].lease_expired}

sweep ==
  /\ Stuck # {}
  /\ effect_ledger' = [k \in Keys |->
       IF k \in Stuck THEN [effect_ledger[k] EXCEPT !.status = "indeterminate"]
                      ELSE effect_ledger[k]]
  /\ UNCHANGED <<run_leases, approvals, task, SIDE_EFFECTS, minted, granted,
                 claimed_under, asked>>

----------------------------------------------------------------------------
Next ==
  \/ \E r \in Runs, w \in Workers : take_run_lease(r, w)
  \/ \E r \in Runs : expire_run_lease(r)
  \/ \E k \in Keys, r \in Runs : intend(k, r)
  \/ \E k \in Keys, a \in Approvals, r \in Runs : require_approval(k, a, r)
  \/ \E a \in Approvals, d \in {"approved", "denied"} : decide(a, d)
  \/ \E w \in Workers, k \in Keys, f \in 1..MaxFence : claim(w, k, f)
  \/ \E w \in Workers : dispatch(w) \/ settle(w) \/ crash(w)
  \/ \E k \in Keys : effect_lease_expires(k)
  \/ sweep

\* Clocks advance and the sweeper is a periodic job; nothing is assumed of workers
\* (they may die at any time) nor of humans (they may never answer).
Fairness == /\ \A k \in Keys : WF_vars(effect_lease_expires(k))
            /\ WF_vars(sweep)

Spec == Init /\ [][Next]_vars

FairSpec == Spec /\ Fairness

----------------------------------------------------------------------------
(* Properties. *)

\* I3: however many workers race for an effect, stall, are swept, crash or come back
\* with an old lease, its side effect runs at most once.
AtMostOnce == \A k \in Keys : Len(SIDE_EFFECTS[k]) <= 1

\* The ledger never under-reports: a side effect that has really happened is on record
\* as claimed, succeeded or indeterminate, never as intended, awaiting or denied (I2).
HappenedIsRecorded ==
  \A k \in Keys : SIDE_EFFECTS[k] # <<>> => Status(k) \in Claimed

\* ... and never over-reports: a succeeded row names the one worker that ran the side
\* effect, and that worker is the owner of the claim.
SucceededIsTrue ==
  \A k \in Keys : Status(k) = "succeeded" =>
     /\ SIDE_EFFECTS[k] = <<effect_ledger[k].result_ref>>
     /\ effect_ledger[k].result_ref = effect_ledger[k].claim_owner

\* An effect that was put to a human is claimed, swept or settled only if an approval
\* made for its own run was granted, and that grant still stands (I2, I5).
GatedIsApproved ==
  \A k \in asked : Status(k) \in Claimed => Approved(k)

\* I6: whoever claims an effect holds the newest lease ever granted for its run, still
\* unexpired; a worker that was fenced out and came back under an old token gets nothing.
NewestLeaseClaims ==
  [][\A k \in Keys : claimed_under'[k] # claimed_under[k] =>
        LET r == RunOf(k) IN /\ claimed_under'[k] = Len(granted[r])
                             /\ granted[r][Len(granted[r])] = effect_ledger'[k].claim_owner
                             /\ ~run_leases[r].expired]_vars

\* No effect stays claimed for ever: its worker settles it, or the sweeper gives it the
\* verdict `indeterminate' after the lease, even if every worker has died.
ClaimsGetAVerdict ==
  \A k \in Keys : Status(k) = "claimed" ~> Status(k) \in {"succeeded", "indeterminate"}

----------------------------------------------------------------------------
(* The abstract promise this module implements. *)

VerdictOf(k) ==
  CASE Status(k) \in {"absent", "intended", "awaiting_approval"} -> "wanted"
    [] Status(k) = "denied" -> "refused"
    [] Status(k) = "claimed" -> "attempted"
    [] Status(k) = "succeeded" -> "done"
    [] Status(k) = "indeterminate" -> "unknown"

Promise == INSTANCE EffectPromise WITH
             verdict <- [k \in Keys |-> VerdictOf(k)],
             runs <- [k \in Keys |-> Len(SIDE_EFFECTS[k])]

\* Every behaviour of the ledger is, effect by effect, one the promise allows.
KeepsPromise == Promise!Spec

============================================================================
