------------------------------ MODULE SpecGate ------------------------------
(***************************************************************************)
(* tools/validate_spec.py: the checks of main()'s `groups`, one after the  *)
(* other, by several runs at a time, while somebody edits the documents    *)
(* and the Postgres they share comes and goes.                             *)
(*                                                                         *)
(* What a check looks for is its own affair: a document that fails it has  *)
(* a defect of that group, and a defect of the superseded claims is quoted *)
(* in the message.  Modelled in steps are the two checks that leave traces *)
(* outside the run: the protobuf one, which writes adapter.proto, and the  *)
(* Postgres one, which applies the spec's DDL in a transaction that it     *)
(* always rolls back.                                                      *)
(***************************************************************************)
EXTENDS Naturals, SequencesExt

CONSTANTS
  Runs,
  Editable,    \* the defects that somebody may write or mend
  Protos,      \* what the protobuf blocks of 07-adapter-protocol.md may say
  Compiles,    \* those that protoc takes
  Roles,       \* the roles the DDL grants to, sorted
  Tools,       \* those that `make setup` may have left out
  MaxChanges,  \* bounds edits, and outages of the server
  Nothing

Groups == <<"vectors", "rewind", "proto", "openapi", "lifecycle", "postgres", "superseded",
            "counts", "scope", "references", "placeholders", "fk">>

Defect(group)  == [group |-> group, says |-> "defect"]
\* A message that quotes a sentence with UNVERIFIED or "is not installed" in it.
Quoting(group) == [group |-> group, says |-> "defect, quoting UNVERIFIED"]
CannotRun(group) == [group |-> group, says |-> "UNVERIFIED"]
\* The DDL of the spec does not apply, or the server was gone when it was to.
DdlFails == [group |-> "postgres", says |-> "DDL"]

ASSUME RolesAreRoles == Roles \in Seq(Range(Roles)) /\ IsInjective(Roles)
ASSUME DefectsAreDefects ==
  /\ Editable \subseteq {Defect(g) : g \in Range(Groups) \ {"proto"}}
                    \cup {Quoting("superseded"), DdlFails}
  /\ Compiles \subseteq Protos
  /\ Tools \subseteq {"node", "grpcio-tools", "pyyaml"}

VARIABLES
  defects,   \* of the documents as they are
  text07,    \* the protobuf blocks of 07-adapter-protocol.md
  proto,     \* contracts/adapter.proto, or Nothing
  missing,   \* the tools that are not installed
  server,    \* [up, roles]: whether it is up, and the roles that were committed there
  run,       \* run[g]: one execution of validate_spec.py
  disturbed, \* what changed since the first of the runs that overlap began
  changes

gateVars == <<defects, text07, proto, missing, server, run, disturbed, changes>>

NoTx   == [begun |-> FALSE, created |-> {}, grants |-> <<>>, failed |-> FALSE]
NoRun  == [pc |-> "idle", todo |-> <<>>, lenient |-> FALSE, found |-> {}, text |-> Nothing,
           tx |-> NoTx, shared |-> FALSE]

GateInit ==
  /\ defects = {}  \* they come by edits
  /\ text07 \in Compiles /\ proto \in Protos \cup {Nothing}
  /\ missing \in SUBSET Tools
  /\ server \in [up : BOOLEAN, roles : SUBSET Range(Roles)]
  /\ run = [g \in Runs |-> NoRun]
  /\ disturbed = {}
  /\ changes = 0

----------------------------------------------------------------------------
Turn(g, group) == run[g].pc = "check" /\ run[g].todo # <<>> /\ Head(run[g].todo) = group
Goes(g, r)     == run' = [run EXCEPT ![g] = r]
Outside        == UNCHANGED <<defects, text07, missing, disturbed, changes>>

\* The run with what the check at hand found, and the next check.
Found(g, messages) ==
  [run[g] EXCEPT !.pc = "check", !.todo = Tail(@), !.found = @ \cup messages,
                 !.text = Nothing, !.tx = NoTx]

AtRest(g) == run[g].pc \in {"idle", "valid", "could not run", "problems"}

\* The first to run when nobody does: what earlier runs said is forgotten.
begin(g, lenient) ==
  /\ AtRest(g)
  /\ LET first == \A h \in Runs : AtRest(h)
         begun == [NoRun EXCEPT !.pc = "check", !.todo = Groups, !.lenient = lenient]
     IN /\ run' = [h \in Runs |-> IF h = g THEN begun ELSE IF first THEN NoRun ELSE run[h]]
        /\ disturbed' = IF first THEN {} ELSE disturbed
  /\ UNCHANGED <<defects, text07, proto, missing, server, changes>>

Needs(group) ==
  CASE group = "vectors" -> "node"
    [] group \in {"openapi", "scope"} -> "pyyaml"
    [] OTHER -> Nothing

\* Mutant: a check that cannot run finds nothing, as before "FAIL CLOSED".
FindsSilently(group) ==
  IF Needs(group) \in missing THEN {} ELSE {m \in defects : m.group = group}

\* What a check finds in the documents.  Without its tool it says that it cannot run; only
\* the vectors' check looks at the rest nevertheless.
Finds(group) ==
  (IF Needs(group) \in missing THEN {CannotRun(group)} ELSE {})
    \cup (IF Needs(group) \in missing \ {"node"} THEN {} ELSE {m \in defects : m.group = group})

\* The checks that only read: the vectors, the rewind rule, OpenAPI, the effect lifecycle,
\* superseded claims, counts, scope, references, placeholders and foreign keys.
check_documents(g) ==
  /\ run[g].pc = "check" /\ run[g].todo # <<>>
  /\ Head(run[g].todo) \notin {"proto", "postgres"}
  /\ Goes(g, Found(g, Finds(Head(run[g].todo))))
  /\ UNCHANGED <<proto, server>> /\ Outside

----------------------------------------------------------------------------
(* check_proto_compiles: the Markdown is the source of adapter.proto. *)

\* A document 07 that is missing or has no block is not among the Protos.
extract_proto(g) ==
  /\ Turn(g, "proto")
  /\ Goes(g, [run[g] EXCEPT !.pc = "extracted", !.text = text07])
  /\ UNCHANGED <<proto, server>> /\ Outside

\* Mutant: only what is not there is written.
WritesIfAbsent(text) == proto' = IF proto = Nothing THEN text ELSE proto

Writes(text) == proto' = text

\* Written where it differs, in one step: that write_text empties the file first, and
\* another run's protoc may read it then, is left out.  Then protoc is looked for.
write_proto(g) ==
  /\ run[g].pc = "extracted"
  /\ Writes(run[g].text)
  /\ Goes(g, IF "grpcio-tools" \in missing THEN Found(g, {CannotRun("proto")})
             ELSE [run[g] EXCEPT !.pc = "written"])
  /\ UNCHANGED server /\ Outside

compile_proto(g) ==
  /\ run[g].pc = "written"
  /\ Goes(g, Found(g, IF proto \in Compiles THEN {} ELSE {Defect("proto")}))
  /\ UNCHANGED <<proto, server>> /\ Outside

----------------------------------------------------------------------------
(* check_postgres_gate and _apply_spec_ddl *)

\* A server that does not answer and a psycopg that is not installed say the same.
probe_server(g) ==
  /\ Turn(g, "postgres")
  /\ Goes(g, IF server.up THEN [run[g] EXCEPT !.pc = "reachable"]
             ELSE Found(g, {CannotRun("postgres")}))
  /\ UNCHANGED <<proto, server>> /\ Outside

\* Mutant: the roles in the order the set gives them, which differs between the runs.
RolesUnsorted(g) == IF g = CHOOSE h \in Runs : TRUE THEN Roles ELSE Reverse(Roles)

RolesOf(g) == Roles

connect(g) ==
  /\ run[g].pc = "reachable"
  /\ Goes(g, IF ~server.up THEN Found(g, {DdlFails})
             ELSE [run[g] EXCEPT !.pc = "roles",
                                 !.tx = [NoTx EXCEPT !.begun = TRUE, !.grants = RolesOf(g)]])
  /\ UNCHANGED <<proto, server>> /\ Outside

\* Another transaction has made the role and not ended: CREATE ROLE waits for that.
Waits(g, h) ==
  /\ g # h
  /\ run[g].pc = "roles" /\ run[g].tx.grants # <<>>
  /\ Head(run[g].tx.grants) \notin server.roles
  /\ Head(run[g].tx.grants) \in run[h].tx.created

\* Every role the DDL grants to, unless it is there.
create_role(g) ==
  /\ run[g].pc = "roles" /\ run[g].tx.grants # <<>>
  /\ \A h \in Runs : ~Waits(g, h)
  /\ LET r == Head(run[g].tx.grants)
     IN Goes(g, [run[g] EXCEPT !.tx.grants = Tail(@),
                               !.tx.created = IF r \in server.roles THEN @ ELSE @ \cup {r}])
  /\ UNCHANGED <<proto, server>> /\ Outside

execute_sql(g) ==
  /\ run[g].pc = "roles" /\ run[g].tx.grants = <<>>
  /\ Goes(g, [run[g] EXCEPT !.pc = "rollback", !.tx.failed = DdlFails \in defects])
  /\ UNCHANGED <<proto, server>> /\ Outside

\* Nothing is committed, whatever came of it.
rollback(g) ==
  /\ run[g].pc = "rollback"
  /\ LET done   == IF run[g].tx.failed THEN Found(g, {DdlFails})
                   ELSE [run[g] EXCEPT !.pc = "scenarios", !.tx = NoTx]
         others == {h \in Runs \ {g} : run[h].pc = "scenarios" /\ done.pc = "scenarios"}
     IN run' = [h \in Runs |->
                  IF h = g THEN [done EXCEPT !.shared = others # {}]
                  ELSE IF h \in others THEN [run[h] EXCEPT !.shared = TRUE] ELSE run[h]]
  /\ UNCHANGED <<proto, server>> /\ Outside

\* The scenarios of spike 03, which must have the server to themselves (RESULT.md:80).
run_scenarios(g) ==
  /\ run[g].pc = "scenarios"
  /\ \E fails \in BOOLEAN :
       /\ ~fails => server.up
       /\ fails => \/ Defect("postgres") \in defects
                   \/ ~server.up
                   \/ run[g].shared
       /\ Defect("postgres") \in defects => fails
       /\ Goes(g, Found(g, IF fails THEN {Defect("postgres")} ELSE {}))
  /\ UNCHANGED <<proto, server>> /\ Outside

----------------------------------------------------------------------------
(* The end of main *)

\* _downgrade: with SPEC_ALLOW_UNVERIFIED=1, the messages that say so somewhere are warnings.
soft(g) ==
  IF ~run[g].lenient THEN {}
  ELSE {m \in run[g].found : m.says \in {"UNVERIFIED", "defect, quoting UNVERIFIED"}}

main_ends(g) ==
  /\ run[g].pc = "check" /\ run[g].todo = <<>>
  /\ Goes(g, [run[g] EXCEPT !.pc =
       IF run[g].found \ soft(g) # {} THEN "problems"
       ELSE IF soft(g) # {} THEN "could not run" ELSE "valid"])
  /\ UNCHANGED <<proto, server>> /\ Outside

killed(g) ==
  /\ ~AtRest(g)
  /\ Goes(g, NoRun)
  /\ UNCHANGED <<proto, server>> /\ Outside

----------------------------------------------------------------------------
(* Around it. *)

Changes(what) ==
  /\ changes < MaxChanges
  /\ changes' = changes + 1
  /\ disturbed' = IF run = [g \in Runs |-> NoRun] THEN {} ELSE disturbed \cup {what}

edit_document(m) ==
  /\ Changes(m.group)
  /\ defects' = IF m \in defects THEN defects \ {m} ELSE defects \cup {m}
  /\ UNCHANGED <<text07, proto, missing, server, run>>

edit_07(text) ==
  /\ text # text07
  /\ Changes("proto")
  /\ text07' = text
  /\ UNCHANGED <<defects, proto, missing, server, run>>

\* An open transaction goes with the server; its run finds out at once.
server_comes_or_goes ==
  /\ Changes("server")
  /\ server' = [server EXCEPT !.up = ~@]
  /\ run' = [g \in Runs |->
       IF server.up /\ run[g].tx.begun THEN Found(g, {DdlFails}) ELSE run[g]]
  /\ UNCHANGED <<defects, text07, proto, missing>>

GateNext ==
  \/ \E g \in Runs :
       \/ \E lenient \in BOOLEAN : begin(g, lenient)
       \/ check_documents(g)
       \/ extract_proto(g) \/ write_proto(g) \/ compile_proto(g)
       \/ probe_server(g) \/ connect(g) \/ create_role(g)
       \/ execute_sql(g) \/ rollback(g) \/ run_scenarios(g)
       \/ main_ends(g) \/ killed(g)
  \/ \E m \in Editable : edit_document(m)
  \/ \E text \in Protos : edit_07(text)
  \/ server_comes_or_goes

GateSpec == GateInit /\ [][GateNext]_gateVars

----------------------------------------------------------------------------
(* Properties. *)

\* "spec/ valid (all checks executed)" is true of what nobody changed since the run, or one
\* that overlaps it, began: nothing had to be left out, there is no defect, the DDL applies,
\* and adapter.proto is what 07 says and compiles, whichever run wrote it last.
ValidIsTrue ==
  \A g \in Runs : run[g].pc = "valid" =>
    /\ missing = {}
    /\ \A m \in defects : m.group \in disturbed
    /\ "proto" \notin disturbed => proto = text07 /\ proto \in Compiles
    /\ "server" \notin disturbed => server.up

Unrunnable(group) ==
  \/ Needs(group) \in missing
  \/ group = "proto" /\ "grpcio-tools" \in missing
  \/ group = "postgres" /\ ~server.up

\* What a run finds is there.  Runs that share the server do not fail each other's DDL
\* (RESULT.md:84-86: "separately concurrency-safe"), only the scenarios may (:78-79).
FoundIsReal ==
  \A g \in Runs : \A m \in run[g].found :
    \/ m.group \in disturbed \/ m \in defects
    \/ m = Defect("proto") /\ text07 \notin Compiles
    \/ m.says = "UNVERIFIED" /\ Unrunnable(m.group)
    \/ m.group = "postgres" /\ ("server" \in disturbed \/ run[g].shared)

\* Two dry runs never wait for each other: every run makes the roles in the same order.
DryRunsDoNotDeadlock == ~\E g, h \in Runs : Waits(g, h) /\ Waits(h, g)
=============================================================================
