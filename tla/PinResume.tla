----------------------------- MODULE PinResume -----------------------------
(***************************************************************************)
(* Starting and resuming runs over a shared SQLite store, as class Store   *)
(* and class Runtime of spikes/02-definition-pin/runtime.py do it: several *)
(* workers, each of which may die between any two statements, and a        *)
(* registry whose artifacts may be lost, damaged and restored.             *)
(*                                                                         *)
(* Each statement of Store is committed on its own and is one step; what   *)
(* resume computes from what it has read belongs to the step of the read.  *)
(***************************************************************************)
EXTENDS DefinitionPin

CONSTANTS
  Runs,         \* run ids
  Workers,      \* worker processes, which are also the holders of resume leases
  Definitions,  \* agent definitions callers pass in
  Adapters,     \* adapters: [contract |-> ..., payload_schema_digest |-> ...]
  Nothing          \* SQL NULL, nobody, nothing

ASSUME NothingIsNoWorker == Nothing \notin Workers
ASSUME NothingIsNoDefinition == Nothing \notin Definitions
ASSUME NothingIsNoRecord ==
  \A d \in Definitions, a \in Adapters :
     PinOf(d, a) # Nothing /\ [defn |-> d, adapter |-> a] # Nothing
ASSUME DefinitionsAreWellFormed ==
  \A d \in Definitions :
     /\ d = [instructions |-> d.instructions, tools |-> d.tools,
             extensions |-> d.extensions, version |-> d.version]
     /\ WellFormed(d)
ASSUME AdaptersAreAdapters ==
  \A a \in Adapters :
     a = [contract |-> [identity |-> a.contract.identity,
                        protocol_version |-> a.contract.protocol_version],
          payload_schema_digest |-> a.payload_schema_digest]

VARIABLES
  definitions,    \* the registry: the body stored under each digest, or Nothing
  runs,           \* runs[r]: its row, or NoRow
  resume_leases,  \* resume_leases[r]: the holder, or Nothing
  call,           \* call[w]: what worker w is doing
  outcome,        \* how the call ended that this step ended, or "none"; nothing reads it
  started,        \* history: the definition and adapter run r was first started with
  executions      \* history: what adapters really ran for run r, in order

resumeVars == <<definitions, runs, resume_leases, call, outcome, started, executions>>

----------------------------------------------------------------------------
\* The body is made of JSON values, and an ExtensionBinding is none: json.dumps raises.
Serialisable(defn) == defn.extensions = <<>>
Stored  == {d \in Definitions : Serialisable(d)}
Digests == {Digest(d) : d \in Stored}

\* A checkpoint's state is opaque, except that its adapter wrote it in its own format.
State == {a.payload_schema_digest : a \in Adapters}
Pins == {PinOf(d, a) : d \in Definitions, a \in Adapters}

RunRow == [pin : Pins, state : State]
NoRow == [pin |-> Nothing, state |-> Nothing]

\* A worker in start is about to save the run; one in resume has loaded the run, then
\* found its body good, then got the lease.
Call == [pc : {"idle", "save", "resolve", "lease", "execute"}, run : Runs \cup {Nothing},
         defn : Definitions \cup {Nothing}, adapter : Adapters \cup {Nothing},
         pinned : Pins \cup {Nothing}, state : State \cup {Nothing},
         body : Definitions \cup {Nothing}]
Idle == [pc |-> "idle", run |-> Nothing, defn |-> Nothing, adapter |-> Nothing,
         pinned |-> Nothing, state |-> Nothing, body |-> Nothing]

Outcomes == {"none", "ok", "TypeError", "KeyError", "ArtifactMissing",
             "ArtifactCorrupted", "IncompatibleCheckpoint", "ConcurrentResume"}

Started == [defn : Definitions, adapter : Adapters]
Execution == [worker : Workers, body : Definitions, adapter : Adapters]

\* The type invariant.  What a call has in hand has the digest it was looked up by.
ResumeTypeOK ==
  /\ definitions \in [Digests -> Definitions \cup {Nothing}]
  /\ runs \in [Runs -> RunRow \cup {NoRow}]
  /\ resume_leases \in [Runs -> Workers \cup {Nothing}]
  /\ call \in [Workers -> Call]
  /\ \A w \in Workers : call[w].body # Nothing
                         => Digest(call[w].body) = call[w].pinned.definition_digest
  /\ outcome \in Outcomes
  /\ started \in [Runs -> Started \cup {Nothing}]
  /\ executions \in [Runs -> Seq(Execution)]

ResumeInit ==
  /\ definitions = [d \in Digests |-> Nothing]
  /\ runs = [r \in Runs |-> NoRow]
  /\ resume_leases = [r \in Runs |-> Nothing]
  /\ call = [w \in Workers |-> Idle]
  /\ outcome = "none"
  /\ started = [r \in Runs |-> Nothing]
  /\ executions = [r \in Runs |-> <<>>]

\* The call of w goes on as c, or ends with an outcome.
CallGoes(w, c) == call' = [call EXCEPT ![w] = c] /\ outcome' = "none"
CallEnds(w, o) == call' = [call EXCEPT ![w] = Idle] /\ outcome' = o

----------------------------------------------------------------------------
(* start *)

\* put_definition, INSERT OR IGNORE: an artifact is never replaced, not even by
\* another text, tool order or version with its digest.
put_definition(w, r, d, a) ==
  /\ call[w] = Idle
  /\ IF Serialisable(d)
       THEN /\ definitions' = [definitions EXCEPT
                 ![Digest(d)] = IF @ = Nothing THEN d ELSE @]
            /\ CallGoes(w, [Idle EXCEPT !.pc = "save", !.run = r, !.defn = d, !.adapter = a])
       ELSE CallEnds(w, "TypeError") /\ UNCHANGED definitions
  /\ UNCHANGED <<runs, resume_leases, started, executions>>

\* ON CONFLICT DO UPDATE SET state: a run keeps the pin of its first start.
SavedPin(r, pin) == IF runs[r] = NoRow THEN pin ELSE runs[r].pin

\* The state is in the format of the adapter that is started.
save_run(w) ==
  LET c == call[w]
      r == c.run IN
  /\ c.pc = "save"
  /\ runs' = [runs EXCEPT ![r] = [pin |-> SavedPin(r, PinOf(c.defn, c.adapter)),
                                  state |-> c.adapter.payload_schema_digest]]
  /\ started' = IF started[r] = Nothing
                  THEN [started EXCEPT ![r] = [defn |-> c.defn, adapter |-> c.adapter]]
                  ELSE started
  /\ CallEnds(w, "ok")
  /\ UNCHANGED <<definitions, resume_leases, executions>>

----------------------------------------------------------------------------
(* resume *)

load_run(w, r, d, a) ==
  /\ call[w] = Idle
  /\ IF runs[r] = NoRow
       THEN CallEnds(w, "KeyError")
       ELSE CallGoes(w, [pc |-> "resolve", run |-> r, defn |-> d, adapter |-> a,
                     pinned |-> runs[r].pin, state |-> runs[r].state, body |-> Nothing])
  /\ UNCHANGED <<definitions, runs, resume_leases, started, executions>>

\* The version is not passed on: a body is digested as version 1.
digest_of_body(body) == Digest([body EXCEPT !.version = 1])

Intact(body, digest) == digest_of_body(body) = digest

\* The pinned artifact is read from the registry, then verified, then the pin compared.
get_definition_body(w) ==
  LET c == call[w]
      digest == c.pinned.definition_digest
      body == definitions[digest] IN
  /\ c.pc = "resolve"
  /\ \/ body = Nothing /\ CallEnds(w, "ArtifactMissing")
     \/ body # Nothing /\ ~Intact(body, digest) /\ CallEnds(w, "ArtifactCorrupted")
     \/ /\ body # Nothing /\ Intact(body, digest)
        /\ IF Mismatch(c.pinned, PinOf(c.defn, c.adapter))
             THEN CallEnds(w, "IncompatibleCheckpoint")
             ELSE CallGoes(w, [c EXCEPT !.pc = "lease", !.body = body])
  /\ UNCHANGED <<definitions, runs, resume_leases, started, executions>>

\* Mutant: INSERT OR REPLACE.
LeaseFreeAlways(r) == TRUE

LeaseFree(r) == resume_leases[r] = Nothing

\* INSERT OR IGNORE; nothing ever deletes the row.
acquire_resume_lease(w) ==
  LET c == call[w] IN
  /\ c.pc = "lease"
  /\ IF LeaseFree(c.run)
       THEN /\ resume_leases' = [resume_leases EXCEPT ![c.run] = w]
            /\ CallGoes(w, [c EXCEPT !.pc = "execute"])
       ELSE CallEnds(w, "ConcurrentResume") /\ UNCHANGED resume_leases
  /\ UNCHANGED <<definitions, runs, started, executions>>

\* adapter.start runs the resolved body.
execute(w) ==
  LET c == call[w] IN
  /\ c.pc = "execute"
  /\ executions' = [executions EXCEPT ![c.run] =
       Append(@, [worker |-> w, body |-> c.body, adapter |-> c.adapter])]
  /\ CallEnds(w, "ok")
  /\ UNCHANGED <<definitions, runs, resume_leases, started>>

----------------------------------------------------------------------------
(* Failures. *)

\* The worker's process dies; its statements so far stay committed.
crash(w) ==
  /\ call[w] # Idle
  /\ CallEnds(w, "none")
  /\ UNCHANGED <<definitions, runs, resume_leases, started, executions>>

\* An artifact is lost or damaged, or an operator restores something in its place.  Only
\* bodies that still parse are considered.
registry_fault(digest, body) ==
  /\ definitions[digest] # body
  /\ definitions' = [definitions EXCEPT ![digest] = body]
  /\ outcome' = "none"
  /\ UNCHANGED <<runs, resume_leases, call, started, executions>>

ResumeNext ==
  \/ \E w \in Workers, r \in Runs, d \in Definitions, a \in Adapters :
       put_definition(w, r, d, a) \/ load_run(w, r, d, a)
  \/ \E w \in Workers : \/ save_run(w) \/ get_definition_body(w)
                        \/ acquire_resume_lease(w) \/ execute(w) \/ crash(w)
  \/ \E digest \in Digests, body \in Stored \cup {Nothing} : registry_fault(digest, body)

ResumeSpec == ResumeInit /\ [][ResumeNext]_resumeVars

----------------------------------------------------------------------------
(* Properties. *)

\* What a definition does, for a reader of it: what it says, which tools in which
\* version of their code, and which extensions in which order.
SameBehaviour(d, e) ==
  /\ d.instructions.word = e.instructions.word
  /\ Range(d.tools) = Range(e.tools)
  /\ d.extensions = e.extensions

\* Whatever happens to the registry between or during resumes, and whoever starts the
\* run again with something else, an adapter only ever executes the definition the run
\* was first started with, under the contract it was started under.
PinnedExecution ==
  \A r \in Runs : \A e \in Range(executions[r]) :
     /\ SameBehaviour(e.body, started[r].defn)
     /\ e.adapter = started[r].adapter

\* At most one worker reaches the adapter: the lease, not the pin, is what prevents two
\* workers that passed all checks from executing the run twice, and the one that does is
\* the one on record.
ResumedOnce ==
  \A r \in Runs : \A e \in Range(executions[r]) :
     Len(executions[r]) = 1 /\ resume_leases[r] = e.worker

============================================================================
