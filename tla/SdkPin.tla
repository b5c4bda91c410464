------------------------------- MODULE SdkPin -------------------------------
(***************************************************************************)
(* The pin on the bytes of the SDK that the gates of spike 06 were written *)
(* against (spikes/06-tool-interception/verify_pin.py, conftest.py): a     *)
(* session of the gates that checks it, somebody who records it anew, and  *)
(* the installations and edits that happen meanwhile.                      *)
(*                                                                         *)
(* A file of the SDK is the sequence of the segments of its path, without  *)
(* its suffix: <<"models", "__init__">>.  A module is the sequence of the  *)
(* segments of its dotted name.  SHA-256 is taken to be injective, so the  *)
(* digest of a content is the content.  Every read of a file is a step.    *)
(***************************************************************************)
EXTENDS Naturals, SequencesExt

CONSTANTS
  Builds,         \* Builds[f]: the contents that file f of the SDK comes with:
                  \*   [version |-> ..., imports |-> statements], or None, not there
  Verified,       \* the SDK that the gates were written against
  Sources,        \* what harness.py and test_gate.py may import: sets of statements
  REQUIRED_PINS,  \* the files the pin must cover
  None,
  MaxChanges      \* bound: installations and edits

\* A statement is [level |-> n, module |-> m, names |-> set], as ast gives it.

Files == DOMAIN Builds

\* What else may change: pinned_digests.json, and the spike's own sources.
Pin   == <<"pinned_digests.json">>
Spike == <<"test_gate.py">>

\* The contents that a file may have when it is there, and the segments of all names.
Contents   == UNION {Builds[f] \ {None} : f \in Files}
Statements == UNION {c.imports : c \in Contents}
Segments   == {"pydantic_ai", "__init__"} \cup (UNION {Range(f) : f \in Files})
                \cup (UNION {Range(i.module) \cup i.names : i \in Statements})

\* The file of a package's own code.
IsInit(f) == f[Len(f)] = "__init__"

ASSUME VerifiedIsComplete ==
  /\ Verified \in [Files -> Contents \cup {None}]
  /\ \A f \in Files : Verified[f] \in Builds[f]
  /\ \A f \in REQUIRED_PINS : Verified[f] # None
ASSUME RequiredAreFiles == REQUIRED_PINS # {} /\ REQUIRED_PINS \subseteq Files
\* A package's code is in its __init__, and no module is a package too: Python and
\* module_to_relpath would take different ones of the two.
ASSUME FilesAreModules ==
  /\ Pin \notin Files /\ Spike \notin Files
  /\ \A f \in Files : /\ f \in Seq(Segments) /\ f # <<>>
                      /\ \A i \in 1 .. Len(f) - 1 : f[i] # "__init__"
                      /\ Append(f, "__init__") \notin Files
\* What ast gives: only a relative import may go without a module.
ASSUME StatementsAreStatements ==
  \A i \in Statements :
    /\ i.level \in Nat
    /\ i.module \in Seq(Segments \ {"__init__"})
    /\ i.names \subseteq Segments \ {"__init__"}
    /\ i.level = 0 => i.module # <<>>
ASSUME MaxChangesInNat == MaxChanges \in Nat

VARIABLES
  sdk,       \* the SDK: the content of each file, or None
  source,    \* the import statements of harness.py and test_gate.py
  pin,       \* pinned_digests.json: [files, frontier]
  session,   \* the session of the gates
  recorder,  \* the run of verify_pin.py --record
  touched,   \* history: what has changed since the session began
  fresh,     \* history: the pin and the SDK are as the last complete record found them
  changes    \* how often anything has changed

vars == <<sdk, source, pin, session, recorder, touched, fresh, changes>>

----------------------------------------------------------------------------
(* Which files an import statement reaches. *)

Installed(f) == f \in Files /\ sdk[f] # None

\* The file of a module: the first candidate there is.
module_to_relpath(dotted) ==
  LET tail == Tail(dotted)
      init == Append(tail, "__init__")
  IN IF Head(dotted) # "pydantic_ai" THEN {}
     ELSE IF tail # <<>> /\ Installed(tail) THEN {tail}
     ELSE {f \in {init} : Installed(f)}

\* The packages whose __init__ runs before file rel does.
ancestor_inits(rel) ==
  {c \in {Append(SubSeq(rel, 1, n), "__init__") : n \in 0 .. Len(rel) - 1} :
     c # rel /\ Installed(c)}

Reaches(dotted) == UNION {{f} \cup ancestor_inits(f) : f \in module_to_relpath(dotted)}

\* The modules a statement of the spike's own sources names; a relative one is left out.
Named(statement) == IF statement.level = 0 THEN {statement.module} ELSE {}

sdk_modules_imported_by(statements) ==
  UNION {Reaches(d) : d \in UNION {Named(i) : i \in statements}}

\* The modules a statement of file rel of the SDK names, relative ones included.
NamedIn(statement, rel) ==
  LET pkg  == <<"pydantic_ai">> \o SubSeq(rel, 1, Len(rel) - 1)
      base == SubSeq(pkg, 1, Len(pkg) + 1 - statement.level)
  IN IF statement.level = 0 THEN {statement.module}
     ELSE IF statement.module # <<>> THEN {base \o statement.module}
     ELSE {Append(base, n) : n \in statement.names}

sdk_imports_of(rel) ==
  UNION {Reaches(d) : d \in UNION {NamedIn(i, rel) : i \in sdk[rel].imports}}

frontier(files) == (UNION {sdk_imports_of(f) : f \in files}) \ files

\* verify_pin.py's check, when nothing changes meanwhile: the pin holds.
check(spec) ==
  LET files == DOMAIN spec.files
  IN /\ files # {}
     /\ \A f \in files : Installed(f) /\ sdk[f] = spec.files[f]
     /\ REQUIRED_PINS \subseteq files
     /\ spec.frontier = frontier(files)

----------------------------------------------------------------------------
NoPin == [files |-> <<>>, frontier |-> None]
NoSession  == [pc |-> "idle", spec |-> NoPin, todo |-> {}, reached |-> {},
               problems |-> FALSE]
NoRecorder == [pc |-> "idle", files |-> <<>>, todo |-> {}, reached |-> {}, torn |-> FALSE]

\* A pin lists required files only, each with the content it had.
IsPin(p) ==
  /\ p = [files |-> p.files, frontier |-> p.frontier]
  /\ DOMAIN p.files \subseteq REQUIRED_PINS
  /\ \A f \in DOMAIN p.files : p.files[f] \in Builds[f] \ {None}
  /\ p.frontier \in (SUBSET Files) \cup {None}

\* The type invariant, with which part of its work a session and a record are in.
TypeOK ==
  /\ sdk \in [Files -> Contents \cup {None}] /\ \A f \in Files : sdk[f] \in Builds[f]
  /\ source \in Sources
  /\ IsPin(pin) /\ IsPin(session.spec)
  /\ session \in [pc : {"idle", "require", "digests", "frontier", "gates", "passed",
                         "failed", "aborted"},
                  spec : {session.spec}, todo : SUBSET DOMAIN session.spec.files,
                  reached : SUBSET Files, problems : BOOLEAN]
  /\ recorder \in [pc : {"idle", "digests", "frontier"}, files : {recorder.files},
                   todo : SUBSET REQUIRED_PINS, reached : SUBSET Files, torn : BOOLEAN]
  /\ IsPin([files |-> recorder.files, frontier |-> None])
  /\ recorder.pc = "digests" => /\ recorder.todo = REQUIRED_PINS \ DOMAIN recorder.files
                                /\ recorder.todo # {} /\ recorder.reached = {}
  /\ recorder.pc = "frontier" => DOMAIN recorder.files = REQUIRED_PINS
  /\ touched \subseteq Files \cup {Pin, Spike}
  /\ fresh \in BOOLEAN
  /\ changes \in 0 .. MaxChanges

\* The SDK is as it was verified, and the pin was recorded from it.
Init ==
  /\ sdk = Verified
  /\ source \in Sources
  /\ pin = [files |-> [f \in REQUIRED_PINS |-> sdk[f]],
            frontier |-> frontier(REQUIRED_PINS)]
  /\ session = NoSession
  /\ recorder = NoRecorder
  /\ touched = {}
  /\ fresh = TRUE
  /\ changes = 0

----------------------------------------------------------------------------
(* A session: python imports the SDK, conftest.py checks the pin, gates run. *)

Goes(s) == session' = s /\ UNCHANGED <<sdk, source, pin, recorder, fresh, changes>>

\* pytest imports test_gate.py, and with it the SDK.
session_starts ==
  /\ session.pc \in {"idle", "passed", "failed", "aborted"}
  /\ Goes([NoSession EXCEPT !.pc = "require"])
  /\ touched' = {}

\* require, check: the pin is read.
check_reads_pin ==
  /\ session.pc = "require"
  /\ Goes([session EXCEPT !.spec = pin, !.todo = DOMAIN pin.files,
             !.pc = IF DOMAIN pin.files = {} THEN "aborted" ELSE "digests"])
  /\ UNCHANGED touched

\* MISSING, or another digest.
Differs(f) == sdk[f] # session.spec.files[f]

check_digest(f) ==
  /\ session.pc = "digests"
  /\ f \in session.todo
  /\ Goes([session EXCEPT !.todo = @ \ {f}, !.problems = @ \/ Differs(f)])
  /\ UNCHANGED touched

\* Mutant: whatever the pin lists is enough.
UncoveredNever(spec) == spec.files = <<>>

\* The pin no longer covers required files.
Uncovered(spec) == ~(REQUIRED_PINS \subseteq DOMAIN spec.files)

check_coverage ==
  /\ session.pc = "digests"
  /\ session.todo = {}
  /\ Goes([session EXCEPT !.pc = "frontier", !.todo = DOMAIN session.spec.files,
                          !.problems = @ \/ Uncovered(session.spec)])
  /\ UNCHANGED touched

\* frontier reads a pinned file; one that is not there raises.
check_imports(f) ==
  /\ session.pc = "frontier"
  /\ f \in session.todo
  /\ IF Installed(f)
       THEN Goes([session EXCEPT !.todo = @ \ {f}, !.reached = @ \cup sdk_imports_of(f)])
       ELSE Goes([NoSession EXCEPT !.pc = "aborted"])
  /\ UNCHANGED touched

FrontierDiffers(spec, reached) == spec.frontier # reached \ DOMAIN spec.files

\* frontier_problems; then conftest.py ends the session, or the gates run.
check_ends ==
  /\ session.pc = "frontier"
  /\ session.todo = {}
  /\ Goes([NoSession EXCEPT !.pc =
             IF session.problems \/ FrontierDiffers(session.spec, session.reached)
               THEN "aborted" ELSE "gates"])
  /\ UNCHANGED touched

\* Gate 0: what the spike imports is pinned.
ImportsArePinned(spec) ==
  LET reached == sdk_modules_imported_by(source)
  IN reached # {} /\ reached \subseteq DOMAIN spec.files

gate0 ==
  /\ session.pc = "gates"
  /\ Goes([session EXCEPT !.pc = IF ImportsArePinned(pin) THEN "passed" ELSE "failed"])
  /\ UNCHANGED touched

----------------------------------------------------------------------------
(* verify_pin.py --record *)

Touches(what) == touched' = IF session.pc = "idle" THEN {} ELSE touched \cup {what}

Records(r) == recorder' = r /\ UNCHANGED <<sdk, source, session, changes>>

record_starts ==
  /\ recorder.pc = "idle"
  /\ Records([NoRecorder EXCEPT !.pc = "digests", !.todo = REQUIRED_PINS])
  /\ UNCHANGED <<pin, touched, fresh>>

\* A file that is not there raises, and the pin stays as it is.
record_digest(f) ==
  /\ recorder.pc = "digests"
  /\ f \in recorder.todo
  /\ LET files == [g \in DOMAIN recorder.files \cup {f} |->
                     IF g = f THEN sdk[f] ELSE recorder.files[g]]
         todo  == recorder.todo \ {f}
     IN IF ~Installed(f) THEN Records(NoRecorder)
        ELSE Records([recorder EXCEPT !.files = files,
               !.todo = IF todo = {} THEN REQUIRED_PINS ELSE todo,
               !.pc = IF todo = {} THEN "frontier" ELSE "digests"])
  /\ UNCHANGED <<pin, touched, fresh>>

record_imports(f) ==
  /\ recorder.pc = "frontier"
  /\ f \in recorder.todo
  /\ IF Installed(f)
       THEN Records([recorder EXCEPT !.todo = @ \ {f},
                                     !.reached = @ \cup sdk_imports_of(f)])
       ELSE Records(NoRecorder)
  /\ UNCHANGED <<pin, touched, fresh>>

\* Mutant: the frontier of the files that were pinned so far.
RecordedBesideOld == [files |-> recorder.files, frontier |-> recorder.reached \ DOMAIN pin.files]

Recorded == [files |-> recorder.files, frontier |-> recorder.reached \ REQUIRED_PINS]

\* The file is replaced in one step; write_text is not atomic, but a pin that is half
\* written is no JSON, and the session that reads it ends with the error.
record_writes ==
  /\ recorder.pc = "frontier"
  /\ recorder.todo = {}
  /\ pin' = Recorded
  /\ Touches(Pin)
  /\ fresh' = ~recorder.torn
  /\ Records(NoRecorder)

----------------------------------------------------------------------------
(* Meanwhile. *)

Changes(what) ==
  /\ changes < MaxChanges
  /\ changes' = changes + 1
  /\ Touches(what)
  /\ fresh' = (fresh /\ what = Spike)
  /\ UNCHANGED session

\* pip replaces, adds or removes a file.
install(f, content) ==
  /\ content # sdk[f]
  /\ sdk' = [sdk EXCEPT ![f] = content]
  /\ recorder' = [recorder EXCEPT !.torn = recorder.pc # "idle"]
  /\ Changes(f)
  /\ UNCHANGED <<source, pin>>

\* Somebody takes a file out of the pin, or the frontier.
EditedPins ==
  {[pin EXCEPT !.files = Restrict(pin.files, DOMAIN pin.files \ {f})] : f \in DOMAIN pin.files}
    \cup {[pin EXCEPT !.frontier = None]}

edit_pin(spec) ==
  /\ spec # pin
  /\ pin' = spec
  /\ Changes(Pin)
  /\ UNCHANGED <<sdk, source, recorder>>

\* Somebody changes what the spike imports.
edit_source(s) ==
  /\ s # source
  /\ source' = s
  /\ Changes(Spike)
  /\ UNCHANGED <<sdk, pin, recorder>>

Next ==
  \/ session_starts \/ check_reads_pin \/ check_coverage \/ check_ends \/ gate0
  \/ \E f \in Files : check_digest(f) \/ check_imports(f)
  \/ record_starts \/ record_writes
  \/ \E f \in REQUIRED_PINS : record_digest(f) \/ record_imports(f)
  \/ \E f \in Files : \E content \in Builds[f] : install(f, content)
  \/ \E spec \in EditedPins : edit_pin(spec)
  \/ \E s \in Sources : edit_source(s)

Spec == Init /\ [][Next]_vars

----------------------------------------------------------------------------
(* Properties. *)

Began == session.pc \in {"gates", "passed", "failed"}

\* The module a file is, and whether it is in the package or module m.
ModuleOf(f) == IF IsInit(f) THEN SubSeq(f, 1, Len(f) - 1) ELSE f

\* The files that Python runs to import the module of the SDK with this dotted name.
RunsOnImport(dotted) ==
  LET there == {f \in Files : Installed(f)}
      known == dotted # <<>> /\ Head(dotted) = "pydantic_ai"
                 /\ \E f \in there : ModuleOf(f) = Tail(dotted)
  IN {f \in there : known /\ IsPrefix(ModuleOf(f), Tail(dotted))
                     /\ (f = Tail(dotted) \/ IsInit(f))}

\* The gates run on the bytes they were written against: a required file, or the edge of
\* the pin, that is not as recorded stops the session before the first gate, although the
\* check takes many steps and everything else may change during it
\* (conftest.py:8 "The pin is checked BEFORE any gate runs").
GatesRunOnPinnedBytes ==
  Began /\ Pin \notin touched =>
    /\ \A f \in REQUIRED_PINS \ touched :
         f \in DOMAIN pin.files /\ sdk[f] = pin.files[f] /\ sdk[f] # None
    /\ touched \cap Files = {} =>
         pin.frontier = (UNION {UNION {RunsOnImport(d) : d \in UNION {NamedIn(i, f) :
                                                            i \in sdk[f].imports}} :
                                  f \in DOMAIN pin.files}) \ DOMAIN pin.files

\* A record of an SDK that does not change is a pin that holds: no session is stopped
\* until something changes, whatever the pin was before the record
\* (verify_pin.py:335 "re-verify and update pinned_digests.json deliberately").
FreshPinHolds == fresh /\ touched \subseteq {Spike} => session.pc # "aborted"

=============================================================================
