----------------------------- MODULE PgRunLease -----------------------------
(***************************************************************************)
(* One run and one effect of it under Postgres: the run lease with its     *)
(* fence tokens, the fenced write of the run's state, and the claim, the   *)
(* denial, the sweep and the settlement of the effect, as scenarios 3 to 7 *)
(* of spikes/03-postgres/test_postgres.py issue them on connections of     *)
(* their own, at READ COMMITTED.                                           *)
(*                                                                         *)
(* An UPDATE finds its row in the snapshot taken when the statement starts *)
(* and may then wait for the row.  When it gets a row that has changed     *)
(* meanwhile, its conditions on that row are evaluated again, those on     *)
(* other tables (EXISTS) still in the old snapshot.  It commits later, and *)
(* until then nobody sees it.  An UPDATE of one row without EXISTS, in a   *)
(* transaction of its own, is one step.                                    *)
(*                                                                         *)
(* expires_at is abstracted to the periods left before it.                 *)
(***************************************************************************)
EXTENDS Naturals, FiniteSets

CONSTANTS
  Processes,   \* worker processes, reclaimers and approvers: connections
  Names,       \* the worker names that appear in run_leases.holder
  Approvals,   \* approval ids
  None,        \* SQL NULL, nobody
  TTL,         \* bound: periods a lease lasts
  MaxFence     \* bound: fence tokens issued

ASSUME NoneIsNoId == None \notin Processes \cup Names
ASSUME TTLIsPositive == TTL \in Nat \ {0}
ASSUME MaxFenceInNat == MaxFence \in Nat

VARIABLES
  max_fence_token,  \* run_lease_history
  lease,            \* the row of run_leases, or NoLease
  state,            \* runs.state
  effect,           \* the row of effect_ledger
  approvals,        \* approvals[a]: its status
  lock,             \* lock[row]: the process whose transaction has the row
  txn,              \* txn[p]: the open transaction of process p
  mem,              \* mem[p]: the name, fence and claim token p believes it has
  issued,           \* history: highest fence token that was ever in run_leases
  claims,           \* history: claims committed
  writes            \* history: fenced state writes committed

vars == <<max_fence_token, lease, state, effect, approvals, lock, txn, mem,
          issued, claims, writes>>
tables == <<max_fence_token, lease, state, effect, approvals>>
history == <<issued, claims, writes>>

----------------------------------------------------------------------------
Rows      == {"history", "run", "effect"}
Unclaimed == {"intended", "awaiting_approval", "denied"}
Claimed   == {"claimed", "succeeded", "indeterminate"}

Lease   == [holder : Names, fence_token : Nat, left : 0..TTL]
NoLease == [holder |-> None, fence_token |-> 0, left |-> 0]

Effect == [status : Unclaimed \cup Claimed, claim_owner : Names \cup {None},
           claim_token : Nat, left : 0..TTL]

\* `waiting' for a row, then `done' with all statements and not yet committed.
Txn == [op : {"none", "acquire", "write", "claim", "deny"},
        pc : {"none", "waiting", "done"},
        approved : BOOLEAN,                   \* the snapshot had an approval
        approval : Approvals \cup {None},     \* the approval being denied
        name : Names \cup {None},             \* what goes into run_leases
        token : Nat]
NoTxn == [op |-> "none", pc |-> "none", approved |-> FALSE,
          approval |-> None, name |-> None, token |-> 0]

Mem == [name : Names \cup {None}, fence : Nat, token : Nat]

\* The type invariant, with the CHECK of effect_ledger.
TypeOK ==
  /\ max_fence_token \in Nat
  /\ lease \in Lease \cup {NoLease}
  /\ state \in {"running", "succeeded"}
  /\ effect \in Effect
  /\ effect.status \in Claimed <=> effect.claim_owner # None /\ effect.claim_token > 0
  /\ approvals \in [Approvals -> {"absent", "pending", "approved", "denied"}]
  /\ lock \in [Rows -> Processes \cup {None}]
  /\ txn \in [Processes -> Txn]
  /\ mem \in [Processes -> Mem]
  /\ issued \in Nat /\ claims \in Nat /\ writes \in Nat

\* The effect is inserted as intended, or already put to a human.
Init ==
  /\ max_fence_token = 0
  /\ lease = NoLease
  /\ state = "running"
  /\ effect \in {[status |-> s, claim_owner |-> None, claim_token |-> 0, left |-> 0] :
                   s \in {"intended", "awaiting_approval"}}
  /\ approvals = [a \in Approvals |-> "absent"]
  /\ lock = [r \in Rows |-> None]
  /\ txn = [p \in Processes |-> NoTxn]
  /\ mem = [p \in Processes |-> [name |-> None, fence |-> 0, token |-> 0]]
  /\ issued = 0 /\ claims = 0 /\ writes = 0

----------------------------------------------------------------------------
(* Transactions and row locks. *)

Free(r) == lock[r] = None

Begin(p, fields) == /\ txn[p] = NoTxn
                    /\ txn' = [txn EXCEPT ![p] = fields]

\* Mutant: only the rows a transaction has written are given back, not those it locked.
EndLeaks(p) == /\ txn' = [txn EXCEPT ![p] = NoTxn]
               /\ lock' = [lock EXCEPT !["effect"] = IF @ = p THEN None ELSE @]

\* The transaction of p ends and gives its rows back.
End(p) == /\ txn' = [txn EXCEPT ![p] = NoTxn]
          /\ lock' = [r \in Rows |-> IF lock[r] = p THEN None ELSE lock[r]]

\* p gets the row it was waiting for and has written it, uncommitted.
Take(p, r) == /\ lock' = [lock EXCEPT ![r] = p]
              /\ txn' = [txn EXCEPT ![p].pc = "done"]

\* An UPDATE that matches no row: nothing is written, the transaction is over.
NoRow(p) == /\ End(p)
            /\ UNCHANGED <<tables, mem, history>>

Waits(p, op) == txn[p].op = op /\ txn[p].pc = "waiting"
Ready(p, op) == txn[p].op = op /\ txn[p].pc = "done"

----------------------------------------------------------------------------
(* The run lease. *)

\* Mutant: the high-water mark is read without locking its row.
HistoryFreeAlways == TRUE

HistoryFree == Free("history")

\* First statement of acquire: the UPSERT of run_lease_history, which keeps its row
\* locked to the end of the transaction.
acquire_bump(p, n) ==
  /\ max_fence_token < MaxFence
  /\ HistoryFree
  /\ Begin(p, [NoTxn EXCEPT !.op = "acquire", !.pc = "done", !.name = n,
                            !.token = max_fence_token + 1])
  /\ lock' = [lock EXCEPT !["history"] = p]
  /\ UNCHANGED <<tables, mem, history>>

\* Second statement and commit.  ON CONFLICT DO NOTHING: with a lease in the table,
\* expired or not, the token is used up and nobody has it.
acquire_insert(p) ==
  LET token == txn[p].token IN
  /\ Ready(p, "acquire")
  /\ max_fence_token' = token
  /\ IF lease = NoLease
       THEN /\ lease' = [holder |-> txn[p].name, fence_token |-> token, left |-> TTL]
            /\ mem' = [mem EXCEPT ![p].name = txn[p].name, ![p].fence = token]
            /\ issued' = token
       ELSE UNCHANGED <<lease, mem, issued>>
  /\ End(p)
  /\ UNCHANGED <<state, effect, approvals, claims, writes>>

Holds(p) == lease.holder = mem[p].name /\ lease.fence_token = mem[p].fence /\ lease.left > 0

renew(p) ==
  /\ txn[p] = NoTxn
  /\ Holds(p)
  /\ lease' = [lease EXCEPT !.left = TTL]
  /\ UNCHANGED <<max_fence_token, state, effect, approvals, lock, txn, mem, history>>

\* DELETE ... WHERE expires_at < now(), by anybody.
reclaim ==
  /\ lease # NoLease /\ lease.left = 0
  /\ lease' = NoLease
  /\ UNCHANGED <<max_fence_token, state, effect, approvals, lock, txn, mem, history>>

----------------------------------------------------------------------------
(* The fenced write of runs.state. *)

\* It matches in its snapshot and wants the row of runs.
write_start(p) ==
  /\ state = "running" /\ Holds(p)
  /\ Begin(p, [NoTxn EXCEPT !.op = "write", !.pc = "waiting"])
  /\ UNCHANGED <<tables, lock, mem, history>>

CasHolds == state = "running"

write_row(p) ==
  /\ Waits(p, "write")
  /\ Free("run")
  /\ IF CasHolds THEN Take(p, "run") /\ UNCHANGED <<tables, mem, history>>
                 ELSE NoRow(p)

write_commit(p) ==
  /\ Ready(p, "write")
  /\ state' = "succeeded"
  /\ writes' = writes + 1
  /\ End(p)
  /\ UNCHANGED <<max_fence_token, lease, effect, approvals, mem, issued, claims>>

----------------------------------------------------------------------------
(* The claim. *)

Approved == \E a \in Approvals : approvals[a] = "approved"

ClaimableRow(approved) ==
  \/ effect.status = "intended"
  \/ effect.status = "awaiting_approval" /\ approved

\* The claim's EXISTS on run_leases compares the holder's name and not the fence token.
LeaseNamed(p) == lease.holder = mem[p].name /\ lease.left > 0

claim_start(p) ==
  /\ mem[p].name # None
  /\ ClaimableRow(Approved) /\ LeaseNamed(p)
  /\ Begin(p, [NoTxn EXCEPT !.op = "claim", !.pc = "waiting", !.approved = Approved])
  /\ UNCHANGED <<tables, lock, mem, history>>

\* Mutant: the status found in the snapshot is trusted once the row is there.
StillClaimableAlways(p) == TRUE

StillClaimable(p) == ClaimableRow(txn[p].approved)

claim_row(p) ==
  /\ Waits(p, "claim")
  /\ Free("effect")
  /\ IF StillClaimable(p) THEN Take(p, "effect") /\ UNCHANGED <<tables, mem, history>>
                          ELSE NoRow(p)

claim_commit(p) ==
  /\ Ready(p, "claim")
  /\ claims' = claims + 1
  /\ effect' = [status |-> "claimed", claim_owner |-> mem[p].name,
                claim_token |-> claims + 1, left |-> TTL]
  /\ mem' = [mem EXCEPT ![p].token = claims + 1]
  /\ End(p)
  /\ UNCHANGED <<max_fence_token, lease, state, approvals, issued, writes>>

----------------------------------------------------------------------------
(* Approvals. *)

\* The partial unique index allows one pending approval.
file_approval(a, status) ==
  /\ approvals[a] = "absent"
  /\ status = "pending" => \A b \in Approvals : approvals[b] # "pending"
  /\ approvals' = [approvals EXCEPT ![a] = status]
  /\ UNCHANGED <<max_fence_token, lease, state, effect, lock, txn, mem, history>>

\* Mutant: a denial leaves the ledger to whoever reads the approval.
DeniesEffectNever == FALSE

DeniesEffect == effect.status = "awaiting_approval"

\* UPDATE approvals, whatever its status; its row stays locked, so one denial at a time.
deny_approval(p, a) ==
  /\ approvals[a] # "absent"
  /\ \A q \in Processes : txn[q].approval # a
  /\ Begin(p, [NoTxn EXCEPT !.op = "deny", !.pc = "waiting", !.approval = a])
  /\ UNCHANGED <<tables, lock, mem, history>>

\* UPDATE effect_ledger in the same transaction, then commit.  A row that was
\* `awaiting_approval' in the snapshot is waited for; any other is not touched.
deny_commit(p) ==
  /\ Waits(p, "deny")
  /\ effect.status = "awaiting_approval" => Free("effect")
  /\ approvals' = [approvals EXCEPT ![txn[p].approval] = "denied"]
  /\ effect' = IF DeniesEffect THEN [effect EXCEPT !.status = "denied"] ELSE effect
  /\ End(p)
  /\ UNCHANGED <<max_fence_token, lease, state, mem, history>>

----------------------------------------------------------------------------
(* Settlement, the sweeper, time and failures. *)

\* Mutant: settlement by key only, the negative control of scenario 6.
MaySettleByKey(p) == effect.status \in Claimed

MaySettle(p) == /\ effect.status = "claimed"
                /\ effect.claim_owner = mem[p].name /\ effect.claim_token = mem[p].token

settle(p) ==
  /\ txn[p] = NoTxn
  /\ mem[p].token > 0
  /\ MaySettle(p)
  /\ effect' = [effect EXCEPT !.status = "succeeded"]
  /\ UNCHANGED <<max_fence_token, lease, state, approvals, lock, txn, mem, history>>

sweep ==
  /\ effect.status = "claimed" /\ effect.left = 0
  /\ effect' = [effect EXCEPT !.status = "indeterminate"]
  /\ UNCHANGED <<max_fence_token, lease, state, approvals, lock, txn, mem, history>>

\* A period passes for the leases there are.
tick ==
  /\ lease.left > 0 \/ effect.left > 0
  /\ lease' = IF lease.left > 0 THEN [lease EXCEPT !.left = @ - 1] ELSE lease
  /\ effect' = IF effect.left > 0 THEN [effect EXCEPT !.left = @ - 1] ELSE effect
  /\ UNCHANGED <<max_fence_token, state, approvals, lock, txn, mem, history>>

\* The connection is lost, or statement_timeout fires, before COMMIT.
rollback(p) ==
  /\ txn[p] # NoTxn
  /\ End(p)
  /\ UNCHANGED <<tables, mem, history>>

----------------------------------------------------------------------------
\* A statement that has its row, or the end of a transaction that waits for nothing.
GetsRow(p) == write_row(p) \/ claim_row(p) \/ deny_commit(p)
Finishes(p) == \/ acquire_insert(p) \/ write_commit(p) \/ claim_commit(p)
               \/ (txn[p].pc = "done" /\ rollback(p))

Next ==
  \/ \E p \in Processes, n \in Names : acquire_bump(p, n)
  \/ \E p \in Processes : \/ acquire_insert(p) \/ renew(p)
                          \/ write_start(p) \/ write_row(p) \/ write_commit(p)
                          \/ claim_start(p) \/ claim_row(p) \/ claim_commit(p)
                          \/ deny_commit(p) \/ settle(p) \/ rollback(p)
  \/ \E p \in Processes, a \in Approvals : deny_approval(p, a)
  \/ \E a \in Approvals, s \in {"pending", "approved"} : file_approval(a, s)
  \/ reclaim \/ sweep \/ tick

Spec == Init /\ [][Next]_vars

\* A transaction that waits for nothing is finished by its client or by its death; a
\* row that is free again and again goes to everyone in the queue for it.  Nobody has to
\* begin anything.
Fairness == \A p \in Processes : WF_vars(Finishes(p)) /\ SF_vars(GetsRow(p))

FairSpec == Spec /\ Fairness

----------------------------------------------------------------------------
(* Properties. *)

\* Fence tokens in run_leases strictly increase across reclaims, whoever acquires, gives
\* up or dies half-way (scenario 7): a token never designates two holders.
FenceTokensGrow ==
  [][lease'.fence_token \notin {0, lease.fence_token} => lease'.fence_token > issued]_vars

\* However many processes race, one claim of the effect commits (scenario 3); so does
\* one change of the run's state, which is a compare-and-swap.
OneClaimOneWrite == claims <= 1 /\ writes <= 1

\* A denial and a claim exclude each other although each reads in a snapshot what the
\* other writes: when a claim of a gated effect commits, its approval still stands.
ClaimCommitsApproved ==
  [][claims' # claims /\ effect.status = "awaiting_approval" => Approved]_vars

\* A verdict is final, for late settlements, late denials and the sweeper (scenario 6).
VerdictsAreFinal ==
  [][effect.status \in {"succeeded", "indeterminate", "denied"}
       => effect'.status = effect.status]_vars

\* Transactions that wait for each other's rows all get through: there is no deadlock
\* between claims, denials and state writes, and no row is left locked.
NobodyWaitsForEver ==
  \A p \in Processes : txn[p].pc = "waiting" ~> txn[p].pc # "waiting"

----------------------------------------------------------------------------
(* What the repository says, and the code does not do. *)

\* "the fenced-out original holder's state write is rejected" (test_postgres.py:579), and
\* "A fenced worker cannot write" (spec/02-consistency.md:575): no write of a process
\* commits while the run is leased under a newer token than its own.
FencedOutCannotWrite ==
  [][\A p \in Processes : Ready(p, "write") /\ writes' # writes /\ txn'[p] = NoTxn
                            => lease.fence_token <= mem[p].fence]_vars
============================================================================
