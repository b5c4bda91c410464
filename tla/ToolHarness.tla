---------------------------- MODULE ToolHarness ----------------------------
(***************************************************************************)
(* The tool boundary of spikes/06-tool-interception/harness.py: the agent  *)
(* SDK only asks for calls, and every body runs in                         *)
(* PhoenixHarness.dispatch, between a claim and a settlement in the effect *)
(* ledger.                                                                 *)
(*                                                                         *)
(* Several callers are inside resolve or dispatch at once: a policy or a   *)
(* tool body is a callback, which may itself call a harness, or leave the  *)
(* scene to another caller until it returns.  Between callbacks a caller   *)
(* is not interrupted: a method of EffectLedger stands for one UPDATE (its *)
(* docstring) but has no lock, so it is one step here, with the checks and *)
(* the bookkeeping around it, for callers that take turns at callbacks,    *)
(* and not for threads that preempt each other in it.                      *)
(* EffectLedger._rows has at most one row of an id, so it is a function.   *)
(***************************************************************************)
EXTENDS Naturals, Sequences, Functions

CONSTANTS
  Harnesses,          \* PhoenixHarness objects, which share one ledger
  Callers,            \* calls under way, nested in each other's callbacks
  Runs,               \* run ids
  Ids,                \* tool_call_ids
  Calls,              \* calls a model may make: [id, tool, args]
  Requests,           \* <<run, call>>: what intend and dispatch are given
  Turns,              \* <<run, sequence of calls>>: what resolve is given
  Tools,              \* tool names
  NATIVE_TOOL_NAMES,  \* those of tools that execute at the provider
  Impls,              \* bodies a platform may register
  None                \* Python's None

ASSUME NoneIsNothing == None \notin Runs \cup Impls \cup Nat
ASSUME CallsAreCalls ==
  \A k \in Calls : /\ k = [id |-> k.id, tool |-> k.tool, args |-> k.args]
                   /\ k.id \in Ids /\ k.tool \in Tools
ASSUME RequestsAreCalls == Requests \subseteq Runs \X Calls
ASSUME TurnsAreCalls == Turns \subseteq Runs \X (Seq(Calls) \ {<<>>})

VARIABLES
  rows,         \* rows[i]: the ledger row of id i, or NoRow
  minted,       \* how many claim tokens have been drawn and used
  dispatchers,  \* dispatchers[h][t]: the body registered for tool t, or None
  built,        \* the harnesses whose agent is built
  lease,        \* lease[h]: the run that the lease h was built with is for, or None
  leases,       \* leases[h][r]: the run lease of h for r: "none", "valid", "expired"
  call,         \* call[c]: where caller c is, and its local variables
  entered,      \* history: entered[i]: what was executed for id i, in order
  acted,        \* history: acted[i]: how often a body touched the customer's system for i
  parked,       \* history: the ids that were put to a human
  stranded      \* history: the ids whose dispatch was interrupted after its claim

vars == <<rows, minted, dispatchers, built, lease, leases, call,
          entered, acted, parked, stranded>>

----------------------------------------------------------------------------
Unclaimed == {"intended", "awaiting_approval", "denied", "abandoned"}
Claimed   == {"claimed", "succeeded", "failed", "indeterminate"}
Verdicts  == {"allow", "deny", "require_approval"}   \* POLICY_VERDICTS

Args == {k.args : k \in Calls}
Row == [run : Runs, tool : Tools, args : Args,
        status : Unclaimed \cup Claimed, token : Nat \cup {None}]
NoRow == [run |-> None, tool |-> None, args |-> None, status |-> "none", token |-> None]

Idle == [pc |-> "idle"]
Frame == [pc : {"intend", "policy", "claim", "bind", "body", "acted"},
          harness : Harnesses, run : Runs, call : Calls, rest : Seq(Calls),
          approved : BOOLEAN, impl : Impls \cup {None}, token : Nat \cup {None}]

Execution == [harness : Harnesses, run : Runs, call : Calls, impl : Impls,
              approved : BOOLEAN]

\* The type invariant, with the CHECK constraints of EffectLedger._check.
TypeOK ==
  /\ rows \in [Ids -> Row \cup {NoRow}]
  /\ \A i \in Ids : rows[i] # NoRow =>
       (rows[i].status \in Claimed <=> rows[i].token # None)
  /\ minted \in Nat
  /\ dispatchers \in [Harnesses -> [Tools -> Impls \cup {None}]]
  /\ built \in SUBSET Harnesses
  /\ lease \in [Harnesses -> Runs \cup {None}]
  /\ leases \in [Harnesses -> [Runs -> {"none", "valid", "expired"}]]
  /\ call \in [Callers -> Frame \cup {Idle}]
  /\ entered \in [Ids -> Seq(Execution)]
  /\ acted \in [Ids -> Nat]
  /\ parked \in SUBSET Ids
  /\ stranded \in SUBSET Ids

Init ==
  /\ rows = [i \in Ids |-> NoRow]
  /\ minted = 0
  /\ dispatchers = [h \in Harnesses |-> [t \in Tools |-> None]]
  /\ built = {}
  /\ lease \in [Harnesses -> Runs \cup {None}]
  /\ leases = [h \in Harnesses |-> [r \in Runs |-> IF lease[h] = r THEN "valid" ELSE "none"]]
  /\ call = [c \in Callers |-> Idle]
  /\ entered = [i \in Ids |-> <<>>]
  /\ acted = [i \in Ids |-> 0]
  /\ parked = {}
  /\ stranded = {}

history == <<entered, acted, parked, stranded>>
config == <<dispatchers, built, lease>>

\* Caller c goes on with frame f; its dispatch returns, and resolve turns to the next
\* call; its dispatch raises, which ends resolve too.
Goes(c, f) == call' = [call EXCEPT ![c] = f]
Raises(c)  == Goes(c, Idle)
Returns(c) ==
  LET f == call[c] IN
  IF f.rest = <<>>
    THEN Goes(c, Idle)
    ELSE Goes(c, [f EXCEPT !.pc = "intend", !.call = Head(f.rest), !.rest = Tail(f.rest),
                           !.impl = None, !.token = None])

SetStatus(i, status) == rows' = [rows EXCEPT ![i].status = status]

----------------------------------------------------------------------------
(* Building a harness. *)

\* A tool that cannot be routed, a harness whose agent is built and a second
\* registration of a name are refused.
register(h, t, b) ==
  /\ t \notin NATIVE_TOOL_NAMES
  /\ h \notin built
  /\ dispatchers[h][t] = None
  /\ dispatchers' = [dispatchers EXCEPT ![h][t] = b]
  /\ UNCHANGED <<rows, minted, built, lease, leases, call, history>>

\* run, resume and stream_output build the agent; its tools have no body it could execute.
build(h) ==
  /\ built' = built \cup {h}
  /\ UNCHANGED <<rows, minted, dispatchers, lease, leases, call, history>>

run_lease_expires(h, r) ==
  /\ leases[h][r] = "valid"
  /\ leases' = [leases EXCEPT ![h][r] = "expired"]
  /\ UNCHANGED <<rows, minted, config, call, history>>

----------------------------------------------------------------------------
(* Intent. *)

\* append: ON CONFLICT DO NOTHING.
Appended(r, k) ==
  IF rows[k.id] = NoRow
    THEN [rows EXCEPT ![k.id] = [run |-> r, tool |-> k.tool, args |-> k.args,
                                 status |-> "intended", token |-> None]]
    ELSE rows

\* Mutant: the row is looked up by id and taken to be the call's.
DescribesById(row, r, k) == row # NoRow

\* The identity check of dispatch.
Describes(row, r, k) ==
  row # NoRow /\ row.run = r /\ row.tool = k.tool /\ row.args = k.args

intend(r, k) ==
  /\ rows' = Appended(r, k)
  /\ UNCHANGED <<minted, config, leases, call, history>>

resolve(c, h, r, turn) ==
  /\ call[c] = Idle
  /\ Goes(c, [pc |-> "intend", harness |-> h, run |-> r, call |-> Head(turn),
              rest |-> Tail(turn), approved |-> FALSE, impl |-> None, token |-> None])
  /\ UNCHANGED <<rows, minted, config, leases, history>>

\* resolve's intend, and dispatch as far as the policy.
next_call(c) ==
  LET f == call[c] IN
  /\ f.pc = "intend"
  /\ rows' = Appended(f.run, f.call)
  /\ IF Describes(rows'[f.call.id], f.run, f.call)
       THEN Goes(c, [f EXCEPT !.pc = "policy"])
       ELSE Raises(c)
  /\ UNCHANGED <<minted, config, leases, history>>

\* A dispatch by itself.  One that is refused changes nothing and is left out.
dispatch(c, h, r, k, approved) ==
  /\ call[c] = Idle
  /\ Describes(rows[k.id], r, k)
  /\ approved => rows[k.id].status = "awaiting_approval"
  /\ Goes(c, [pc |-> IF approved THEN "claim" ELSE "policy", harness |-> h, run |-> r,
              call |-> k, rest |-> <<>>, approved |-> approved,
              impl |-> None, token |-> None])
  /\ UNCHANGED <<rows, minted, config, leases, history>>

----------------------------------------------------------------------------
(* The verdict. *)

Refusable(i) == rows[i].status \in {"intended", "awaiting_approval"}

\* The policy has answered, with anything.  An answer that is no verdict raises, and so
\* does one that comes too late for the row.
policy_answers(c, verdict) ==
  LET f == call[c]
      i == f.call.id IN
  /\ f.pc = "policy"
  /\ \/ /\ verdict = "allow"
        /\ Goes(c, [f EXCEPT !.pc = "claim"])
        /\ UNCHANGED <<rows, parked>>
     \/ /\ verdict = "require_approval" /\ rows[i].status = "intended"
        /\ SetStatus(i, "awaiting_approval")
        /\ parked' = parked \cup {i}
        /\ Returns(c)
     \/ /\ verdict = "deny" /\ Refusable(i)
        /\ SetStatus(i, "denied")
        /\ Returns(c)
        /\ UNCHANGED parked
     \/ /\ \/ verdict \notin Verdicts
           \/ verdict = "require_approval" /\ rows[i].status # "intended"
           \/ verdict = "deny" /\ ~Refusable(i)
        /\ Raises(c)
        /\ UNCHANGED <<rows, parked>>
  /\ UNCHANGED <<minted, config, leases, entered, acted, stranded>>

\* deny and abandon called by somebody else: a human refuses, or the run ended.
refuse(i, status) ==
  /\ Refusable(i)
  /\ SetStatus(i, status)
  /\ UNCHANGED <<minted, config, leases, call, history>>

----------------------------------------------------------------------------
(* Claim, dispatch, settlement. *)

\* Mutant: a parked row is claimed on the policy's word.
ClaimableUnasked(i, approved) == Refusable(i)

\* Mutant: an effect whose outcome is unknown is tried again.
ClaimableAgain(i, approved) == rows[i].status \in {"intended", "indeterminate"}

Claimable(i, approved) ==
  \/ rows[i].status = "intended"
  \/ rows[i].status = "awaiting_approval" /\ approved

\* _lease_for: the given lease, or one that is minted once for a run and kept.
LeasesFor(h, r) ==
  IF lease[h] = None /\ leases[h][r] = "none"
    THEN [leases EXCEPT ![h][r] = "valid"]
    ELSE leases

claim(c) ==
  LET f == call[c]
      i == f.call.id
      impl == dispatchers[f.harness][f.call.tool] IN
  /\ f.pc = "claim"
  /\ \/ /\ impl = None
        /\ IF Refusable(i) THEN SetStatus(i, "abandoned") ELSE UNCHANGED rows
        /\ Raises(c)
        /\ UNCHANGED <<minted, leases>>
     \/ /\ impl # None
        /\ leases' = LeasesFor(f.harness, f.run)
        /\ IF Claimable(i, f.approved) /\ leases'[f.harness][f.run] = "valid"
             THEN /\ minted' = minted + 1
                  /\ rows' = [rows EXCEPT ![i].status = "claimed", ![i].token = minted']
                  /\ Goes(c, [f EXCEPT !.pc = "bind", !.impl = impl, !.token = minted'])
             ELSE Raises(c) /\ UNCHANGED <<rows, minted>>
  /\ UNCHANGED <<config, history>>

\* The claim token is drawn anew for each claim, so the owner's name adds nothing to it.
MaySettle(f) ==
  rows[f.call.id].status = "claimed" /\ rows[f.call.id].token = f.token

Settled(f, status) ==
  IF MaySettle(f) THEN [rows EXCEPT ![f.call.id].status = status] ELSE rows

\* The arguments do not decode, or do not bind to the body's parameters.
arguments_refused(c) ==
  /\ call[c].pc = "bind"
  /\ rows' = Settled(call[c], "failed")
  /\ Raises(c)
  /\ UNCHANGED <<minted, config, leases, history>>

enter_impl(c) ==
  LET f == call[c] IN
  /\ f.pc = "bind"
  /\ entered' = [entered EXCEPT ![f.call.id] =
       Append(@, [harness |-> f.harness, run |-> f.run, call |-> f.call,
                  impl |-> f.impl, approved |-> f.approved])]
  /\ Goes(c, [f EXCEPT !.pc = "body"])
  /\ UNCHANGED <<rows, minted, config, leases, acted, parked, stranded>>

\* The body touches the customer's system, once.
impl_acts(c) ==
  LET f == call[c] IN
  /\ f.pc = "body"
  /\ acted' = [acted EXCEPT ![f.call.id] = @ + 1]
  /\ Goes(c, [f EXCEPT !.pc = "acted"])
  /\ UNCHANGED <<rows, minted, config, leases, entered, parked, stranded>>

impl_returns(c) ==
  LET f == call[c] IN
  /\ f.pc = "acted"
  /\ rows' = Settled(f, "succeeded")
  /\ IF MaySettle(f) THEN Returns(c) ELSE Raises(c)
  /\ UNCHANGED <<minted, config, leases, history>>

\* Mutant: a result that does not serialise is raised without a settlement.
AfterRaiseStranded(f) == IF f.pc = "acted" THEN rows ELSE Settled(f, "indeterminate")

AfterRaise(f) == Settled(f, "indeterminate")

\* The body raises an Exception, or its result does not serialise.
impl_raises(c) ==
  /\ call[c].pc \in {"body", "acted"}
  /\ rows' = AfterRaise(call[c])
  /\ Raises(c)
  /\ UNCHANGED <<minted, config, leases, history>>

\* A BaseException (KeyboardInterrupt, SystemExit, a cancellation) goes through every
\* handler of dispatch; nothing settles the row.
interrupt(c) ==
  LET f == call[c] IN
  /\ f # Idle
  /\ stranded' = IF f.pc \in {"bind", "body", "acted"}
                   THEN stranded \cup {f.call.id} ELSE stranded
  /\ Raises(c)
  /\ UNCHANGED <<rows, minted, config, leases, entered, acted, parked>>

----------------------------------------------------------------------------
Next ==
  \/ \E h \in Harnesses, t \in Tools, b \in Impls : register(h, t, b)
  \/ \E h \in Harnesses : build(h)
  \/ \E h \in Harnesses, r \in Runs : run_lease_expires(h, r)
  \/ \E request \in Requests : intend(request[1], request[2])
  \/ \E c \in Callers, h \in Harnesses, turn \in Turns : resolve(c, h, turn[1], turn[2])
  \/ \E c \in Callers, h \in Harnesses, request \in Requests, approved \in BOOLEAN :
       dispatch(c, h, request[1], request[2], approved)
  \/ \E i \in Ids, status \in {"denied", "abandoned"} : refuse(i, status)
  \/ \E c \in Callers, verdict \in Verdicts \cup {"invalid"} : policy_answers(c, verdict)
  \/ \E c \in Callers :
       \/ next_call(c) \/ claim(c) \/ arguments_refused(c) \/ enter_impl(c)
       \/ impl_acts(c) \/ impl_returns(c) \/ impl_raises(c) \/ interrupt(c)

Spec == Init /\ [][Next]_vars

----------------------------------------------------------------------------
(* Properties. *)

\* "no registered tool reaches a customer system without an effect_ledger row", for that
\* exact call: the row of an executed body names its run, its tool and its arguments, the
\* tool still names that body, and there was one execution.
BodyMatchesRow ==
  \A i \in Ids : \A e \in Range(entered[i]) :
     /\ Len(entered[i]) = 1
     /\ rows[i].run = e.run /\ rows[i].tool = e.call.tool /\ rows[i].args = e.call.args
     /\ dispatchers[e.harness][rows[i].tool] = e.impl

\* Once any caller's policy has put an effect to a human, no other caller executes it on
\* its own policy's word, not even one that was allowed to before.
ParkedNeedsApproval ==
  \A i \in parked : \A e \in Range(entered[i]) : e.approved

\* For its callers the harness keeps the ledger's promise: an effect that was refused,
\* before or after its claim, never happens, one that was attempted happens at most once,
\* `succeeded' only when it did, and a verdict is final.  An effect counts as attempted
\* from the moment its body is entered.
Verdict(i) ==
  CASE rows[i].status \in {"none", "intended", "awaiting_approval"} -> "wanted"
    [] rows[i].status = "claimed" -> IF entered[i] = <<>> THEN "wanted" ELSE "attempted"
    [] rows[i].status \in {"failed", "denied", "abandoned"} -> "refused"
    [] rows[i].status = "succeeded" -> "done"
    [] rows[i].status = "indeterminate" -> "unknown"

Promise == INSTANCE EffectPromise WITH
  Keys <- Ids, verdict <- [i \in Ids |-> Verdict(i)], runs <- acted

KeepsPromise == Promise!Spec

\* Whatever a policy, the arguments or a body do, short of interrupting the dispatch, a
\* claim is settled: there is no sweeper to do it, so a row that is still claimed has the
\* caller at work that claimed it.
ClaimsAreAttended ==
  \A i \in Ids \ stranded : rows[i].status = "claimed" =>
     \E c \in Callers : /\ call[c] # Idle
                        /\ call[c].pc \in {"bind", "body", "acted"}
                        /\ call[c].call.id = i /\ call[c].token = rows[i].token
============================================================================
