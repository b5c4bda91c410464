------------------------- MODULE ResearchWorkspace -------------------------
(***************************************************************************)
(* The research tools of tools/: new_project.py scaffolds a project,       *)
(* apply_recon.py rewrites its facts.yaml, seed_adrs.py writes the ADR     *)
(* stubs, and `make check` chains validate_facts.py --strict,              *)
(* build_matrix.py and check_exit_criteria.py (Makefile:37; the step       *)
(* between them, validate_spec.py, has a module of its own).  The author   *)
(* edits the same files in between.                                        *)
(*                                                                         *)
(* A facts.yaml is a record: the probes' entries, the project's fields     *)
(* (depth stands for those that recon sets, valid for the others, name for *)
(* the one that is written unquoted), and what apply_recon's patterns on   *)
(* its text depend on:                                                     *)
(*   before    the line before `probes:` is blank, a field recon sets      *)
(*             ("set"), another one ("value"), or ends in a comment;       *)
(*   missing   how many of the optional fields recon sets have no line, of *)
(*             those that it sets after the field in that line, if it sets *)
(*             one (what it appends to the line of a field it has yet to   *)
(*             set goes with the rest of that line);                       *)
(*   behind    how many fields have been appended to that line;            *)
(*   hanging   whether the tail of a replaced entry has been left over.    *)
(* The files sources.md and dx-log.md are like teardown.md.                *)
(***************************************************************************)
EXTENDS Naturals, SequencesExt

CONSTANTS
  SlugOrder,   \* the slugs of the study, a sequence
  PROBES,      \* the ids of probe-set.md
  RECON,       \* RECON[s]: [repo, license : BOOLEAN, q2, depth]
  ADRS,        \* the ADRs to seed, a sequence
  Begun,       \* the projects that were scaffolded before
  PlannedDepths, \* the depths projects are scaffolded with
  DisplayNames, \* DisplayNames[s]: "plain" ones, and "breaks" for one with ": " in it
  Answers,     \* [verdict, evidence, form]: the entries an author may write
  AskedOf,     \* <<slug, probe>>: the entries he may write
  Rows,        \* the rows he may have in open-questions.md
  MaxEdits,    \* bounds his edits
  MaxBehind,   \* bounds what has been appended to a line when recon is run again
  None         \* no file, no text, nothing cached

Slugs    == Range(SlugOrder)
Depths   == {"deep", "targeted", "recon"}
Verdicts == {"first_class", "implicit", "absent", "unknown"}

Entry == [verdict : Verdicts \cup {"maybe"}, evidence : BOOLEAN,
          form : {"lines", "note", "evidence"}, by : {"stub", "human", "recon"}]
Fact  == [name : {"plain", "breaks"}, depth : Depths, valid : BOOLEAN,
          before : {"blank", "set", "value", "comment"}, missing : 0..2, behind : Nat,
          hanging : BOOLEAN, probes : [PROBES -> Entry]]

\* No YAML: a name with ": " in it, a field behind another one's value, a tail left over.
Garbled(f) == f.name = "breaks" \/ f.hanging \/ (f.behind > 0 /\ f.before # "comment")

ASSUME PlansAreDepths == PlannedDepths \subseteq Depths
ASSUME BegunAreSlugs == Begun \subseteq Slugs
ASSUME NamesAreNames == DisplayNames \in [Slugs -> SUBSET {"plain", "breaks"}]
ASSUME AnswersAreAnswers ==
  Answers \subseteq [verdict : Verdicts \cup {"maybe"}, evidence : BOOLEAN, form : {"lines", "note"}]
ASSUME NoneIsNoFact == None \notin Fact
ASSUME BoundsAreNumbers == MaxEdits \in Nat /\ MaxBehind \in Nat
ASSUME ListsAreSequences == SlugOrder \in Seq(Slugs) /\ ADRS \in Seq(Range(ADRS))
ASSUME RowsAreRows == Rows \subseteq [names : SUBSET Slugs, ids : SUBSET PROBES]
ASSUME ReconIsRecon ==
  RECON \in [Slugs -> [repo : BOOLEAN, license : BOOLEAN, depth : Depths,
                       q2 : {"missing", "none found", "other"}]]

VARIABLES
  facts,     \* facts[s]: projects/<s>/facts.yaml, or None
  teardown,  \* teardown[s]: "none", "stub" or "human"
  rows,      \* the OQ rows of open-questions.md
  adrs,      \* adrs[a]: "none", "stub" or "human"
  matrix,    \* synthesis/capability-matrix.md: a column per slug, or None
  scaffold,  \* a run of new_project.py: [slug, name, depth, todo, absent]
  seeding,   \* a run of seed_adrs.py: [todo, absent]
  recon,     \* a run of apply_recon.py: [todo, text]
  check,     \* a run of validate_facts.py, or of make check
  edits,
  touched,   \* what was written since that run began
  overtaken, \* the author wrote the file that a tool is about to create
  relaid     \* the slugs whose facts.yaml the author laid out otherwise than the stub

vars == <<facts, teardown, rows, adrs, matrix, scaffold, seeding, recon, check,
          edits, touched, overtaken, relaid>>

NoScaffold == [slug |-> None, name |-> "plain", depth |-> "deep", todo |-> <<>>, absent |-> FALSE]
NoSeeding  == [todo |-> <<>>, absent |-> FALSE]
NoRecon    == [todo |-> <<>>, text |-> None]
NoCheck    == [pc |-> "idle", listed |-> {}, todo |-> {}, oq |-> None,
               fails |-> FALSE, built |-> None, green |-> FALSE]

\* Noted while a check runs and after a green one.
Touches(s) == touched' = IF check.pc = "idle" /\ ~check.green THEN {} ELSE touched \cup {s}

\* The tools that write are started one at a time, beside the check and the author.
NoTool == scaffold = NoScaffold /\ seeding = NoSeeding /\ recon = NoRecon

----------------------------------------------------------------------------
(* new_project.py *)

\* Mutant: two of the fields that recon sets are left out.
facts_stub_short(name, depth) ==
  [name |-> name, depth |-> depth, valid |-> TRUE, before |-> "blank", missing |-> 2,
   behind |-> 0, hanging |-> FALSE,
   probes |-> [p \in PROBES |->
     [verdict |-> "unknown", evidence |-> FALSE, form |-> "lines", by |-> "stub"]]]

\* Every probe unknown, in three lines; a blank line before `probes:`.  The name is as given.
facts_stub(name, depth) ==
  [name |-> name, depth |-> depth, valid |-> TRUE, before |-> "blank", missing |-> 0,
   behind |-> 0, hanging |-> FALSE,
   probes |-> [p \in PROBES |->
     [verdict |-> "unknown", evidence |-> FALSE, form |-> "lines", by |-> "stub"]]]

Init ==
  /\ \E d \in PlannedDepths :
       facts = [s \in Slugs |-> IF s \in Begun THEN facts_stub("plain", d) ELSE None]
  /\ teardown = [s \in Slugs |-> IF s \in Begun THEN "stub" ELSE "none"]
  /\ rows = {}
  /\ adrs = [a \in Range(ADRS) |-> "none"]
  /\ matrix = [s \in Slugs |-> None]
  /\ scaffold = NoScaffold
  /\ seeding = NoSeeding
  /\ recon = NoRecon
  /\ check = NoCheck
  /\ edits = 0
  /\ touched = {}
  /\ overtaken = FALSE
  /\ relaid = {}

new_project(s, name, depth) ==
  /\ NoTool
  /\ scaffold' = [slug |-> s, name |-> name, depth |-> depth,
                  todo |-> <<"facts.yaml", "teardown.md">>, absent |-> FALSE]
  /\ UNCHANGED <<facts, teardown, rows, adrs, matrix, seeding, recon, check, edits, touched,
                 overtaken, relaid>>

\* Mutant: the files are written whether they exist or not.
MissingAlways(file, s) == TRUE

Missing(file, s) == IF file = "facts.yaml" THEN facts[s] = None ELSE teardown[s] = "none"

NextFile == IF Len(scaffold.todo) = 1 THEN NoScaffold
            ELSE [scaffold EXCEPT !.todo = Tail(@), !.absent = FALSE]

\* One turn of the loop: path.exists(), and, when it does not, the write.
scaffold_looks ==
  /\ scaffold.todo # <<>> /\ ~scaffold.absent
  /\ scaffold' = IF Missing(Head(scaffold.todo), scaffold.slug)
                 THEN [scaffold EXCEPT !.absent = TRUE] ELSE NextFile
  /\ UNCHANGED <<facts, teardown, rows, adrs, matrix, seeding, recon, check, edits, touched,
                 overtaken, relaid>>

scaffold_file ==
  LET s == scaffold.slug
  IN /\ scaffold.absent
     /\ scaffold' = NextFile
     /\ \/ /\ Head(scaffold.todo) = "facts.yaml"
           /\ facts' = [facts EXCEPT ![s] = facts_stub(scaffold.name, scaffold.depth)]
           /\ UNCHANGED teardown
        \/ /\ Head(scaffold.todo) = "teardown.md"
           /\ teardown' = [teardown EXCEPT ![s] = "stub"]
           /\ UNCHANGED facts
     /\ Touches(s)
     /\ overtaken' = FALSE
     /\ UNCHANGED <<rows, adrs, matrix, seeding, recon, check, edits, relaid>>

----------------------------------------------------------------------------
(* seed_adrs.py *)

\* No other tool reads an ADR's text: a check at the same time would show nothing new.
seed_adrs ==
  /\ NoTool /\ check = NoCheck
  /\ seeding' = [todo |-> ADRS, absent |-> FALSE]
  /\ UNCHANGED <<facts, teardown, rows, adrs, matrix, scaffold, recon, check, edits, touched,
                 overtaken, relaid>>

\* As in new_project.py, path.exists() and then the write.
seed_looks ==
  /\ seeding.todo # <<>> /\ ~seeding.absent
  /\ seeding' = IF adrs[Head(seeding.todo)] = "none" THEN [seeding EXCEPT !.absent = TRUE]
                ELSE [seeding EXCEPT !.todo = Tail(@)]
  /\ UNCHANGED <<facts, teardown, rows, adrs, matrix, scaffold, recon, check, edits, touched,
                 overtaken, relaid>>

seed_adr ==
  /\ seeding.absent
  /\ seeding' = [todo |-> Tail(seeding.todo), absent |-> FALSE]
  /\ adrs' = [adrs EXCEPT ![Head(seeding.todo)] = "stub"]
  /\ overtaken' = FALSE
  /\ UNCHANGED <<facts, teardown, rows, matrix, scaffold, recon, check, edits, touched, relaid>>

----------------------------------------------------------------------------
(* apply_recon.py *)

\* Mutant: the field in the line before `probes:` is appended to as well.
AppendsAlways(f) ==
  IF f.before = "blank" THEN [f EXCEPT !.before = "set", !.missing = 0, !.behind = f.missing]
  ELSE [f EXCEPT !.behind = @ + f.missing + 1]

\* set_project_field, for every field in turn.  A field that has a line is replaced there, to
\* its end.  One that has none goes where the line break before `probes:` was: on a line of
\* its own after a blank line, else to the end of the line before, where the pattern for a
\* field's line does not find it the next time.
set_project_field(f) ==
  CASE f.before = "blank" /\ f.missing > 0 ->
         [f EXCEPT !.before = "set", !.missing = @ - 1, !.behind = f.missing - 1]
    [] f.before = "set" -> [f EXCEPT !.behind = f.missing]
    [] f.before \in {"value", "comment"} -> [f EXCEPT !.behind = @ + f.missing]
    [] OTHER -> f

\* The verdicts that recon.md licenses, by probe.
ReconVerdict(r) ==
  [p \in {"Q1", "Q6"} \cup (IF r.q2 # "missing" THEN {"Q2"} ELSE {})
                      \cup (IF r.license THEN {"Q5"} ELSE {}) |->
     CASE p = "Q1" -> IF r.license THEN "first_class" ELSE "unknown"
       [] p = "Q6" -> IF r.repo THEN "first_class" ELSE "unknown"
       [] p = "Q5" -> "absent"
       [] p = "Q2" -> IF ~r.repo THEN "unknown"
                      ELSE IF r.q2 = "none found" THEN "absent" ELSE "first_class"]

\* set_probe: an entry of exactly three lines is replaced, whoever wrote it.
set_probe(e, verdict) ==
  IF e.form = "note" THEN e
  ELSE [verdict |-> verdict, evidence |-> TRUE, form |-> "lines", by |-> "recon"]

\* What apply_recon makes of the text it read.  Of evidence that goes on over several lines
\* it replaces the first, and the rest is left hanging.
Reconned(s, f) ==
  LET v    == ReconVerdict(RECON[s])
      laid == set_project_field(f)
      hit  == DOMAIN v \cap PROBES
  IN [laid EXCEPT !.depth = RECON[s].depth,
                  !.hanging = @ \/ \E p \in hit : f.probes[p].form = "evidence",
                  !.probes = [p \in PROBES |->
                     IF p \in hit THEN set_probe(f.probes[p], v[p]) ELSE f.probes[p]]]

apply_recon ==
  /\ NoTool
  /\ \A s \in Slugs : facts[s] # None => facts[s].behind <= MaxBehind
  /\ recon' = [todo |-> SlugOrder, text |-> None]
  /\ UNCHANGED <<facts, teardown, rows, adrs, matrix, scaffold, seeding, check, edits, touched,
                 overtaken, relaid>>

recon_reads ==
  /\ recon.todo # <<>> /\ recon.text = None
  /\ LET s == Head(recon.todo)
     IN recon' = IF facts[s] = None THEN [recon EXCEPT !.todo = Tail(@)]
                 ELSE [recon EXCEPT !.text = facts[s]]
  /\ UNCHANGED <<facts, teardown, rows, adrs, matrix, scaffold, seeding, check, edits, touched,
                 overtaken, relaid>>

recon_writes ==
  /\ recon.text # None
  /\ LET s == Head(recon.todo)
     IN /\ facts' = [facts EXCEPT ![s] = Reconned(s, recon.text)]
        /\ Touches(s)
  /\ recon' = [todo |-> Tail(recon.todo), text |-> None]
  /\ UNCHANGED <<teardown, rows, adrs, matrix, scaffold, seeding, check, edits, overtaken, relaid>>

----------------------------------------------------------------------------
(* validate_facts.py *)

\* Mutant: a row tracks the probes it names, whichever project it names.
tracked_anywhere(oq) == {<<s, p>> : s \in Slugs, p \in UNION {r.ids : r \in oq}}

\* The (slug, probe) pairs that open-questions.md accounts for.
_tracked_unknowns(oq) == UNION {r.names \X r.ids : r \in oq}

\* A stub is all unknown by design: the teardown has started once a probe has an answer.
Started(f)  == \E p \in PROBES : f.probes[p].verdict # "unknown"

unknowns(f) == IF f.depth = "deep" /\ Started(f)
               THEN {p \in PROBES : f.probes[p].verdict = "unknown"} ELSE {}

Errors(f) == Garbled(f) \/ ~f.valid \/ \E p \in PROBES : f.probes[p].verdict \notin Verdicts

\* A file that does not parse has no warnings.
Warnings(s, f, oq) ==
  /\ ~Garbled(f)
  /\ \/ \E p \in PROBES : f.probes[p].verdict \in {"first_class", "implicit"}
                            /\ ~f.probes[p].evidence
     \/ \E p \in unknowns(f) : <<s, p>> \notin _tracked_unknowns(oq)
     \/ f.depth = "deep" /\ teardown[s] = "none"

\* Only what has unknowns to look up reads open-questions.md, and the first that does, for
\* all after it.
Cached(f) == IF check.oq # None \/ Garbled(f) \/ unknowns(f) = {} THEN check.oq ELSE rows

Checks(c) == check' = c
           /\ UNCHANGED <<facts, teardown, rows, adrs, scaffold, seeding, recon, edits,
                          overtaken, relaid>>

\* Which projects there are is looked up once.  The first green check is the last one.
check_starts ==
  LET there == {s \in Slugs : facts[s] # None}
  IN /\ check = NoCheck /\ seeding = NoSeeding
     /\ Checks([NoCheck EXCEPT !.pc = "validate", !.listed = there, !.todo = there])
     /\ touched' = {}
     /\ UNCHANGED matrix

\* s comes no later than t.
Before(s, t) == \E i, j \in DOMAIN SlugOrder : i <= j /\ SlugOrder[i] = s /\ SlugOrder[j] = t

validate(s) ==
  /\ check.pc = "validate"
  /\ s \in check.todo /\ \A t \in check.todo : Before(s, t)
  /\ LET oq == Cached(facts[s])
     IN Checks([check EXCEPT !.todo = @ \ {s}, !.oq = oq,
                  !.fails = \/ @ \/ Errors(facts[s])
                            \/ Warnings(s, facts[s], IF oq = None THEN {} ELSE oq)])
  /\ UNCHANGED <<matrix, touched>>

Stops == Checks(NoCheck) /\ touched' = {} /\ UNCHANGED matrix

\* The exit code: with --strict a warning is an error.
validated ==
  /\ check.pc = "validate" /\ check.todo = {}
  /\ IF check.fails THEN Stops
     ELSE Checks([check EXCEPT !.pc = "matrix"]) /\ UNCHANGED <<matrix, touched>>

----------------------------------------------------------------------------
(* build_matrix.py and check_exit_criteria.py, the rest of make check *)

There == {s \in Slugs : facts[s] # None}

Column(f) == [p \in PROBES |-> f.probes[p].verdict]

\* All facts are loaded once; a file that does not parse ends the build.
build ==
  /\ check.pc = "matrix"
  /\ IF \E s \in There : Garbled(facts[s]) THEN Stops
     ELSE /\ Checks([check EXCEPT !.pc = "write matrix", !.built =
                       [s \in Slugs |-> IF facts[s] = None THEN None ELSE Column(facts[s])]])
          /\ UNCHANGED <<matrix, touched>>

write_matrix ==
  /\ check.pc = "write matrix"
  /\ matrix' = check.built
  /\ Checks([check EXCEPT !.pc = "exit", !.built = None])
  /\ UNCHANGED touched

\* The status report loads the facts again and exits 0 if it can.
check_exit_criteria ==
  /\ check.pc = "exit"
  /\ IF \E s \in There : Garbled(facts[s]) THEN Stops
     ELSE Checks([check EXCEPT !.pc = "idle", !.green = TRUE]) /\ UNCHANGED <<matrix, touched>>

----------------------------------------------------------------------------
(* The author, and Ctrl-C. *)

Edits == /\ edits < MaxEdits
         /\ edits' = edits + 1
         /\ UNCHANGED <<matrix, scaffold, seeding, recon, check>>

Asked(s) == {p \in PROBES : <<s, p>> \in AskedOf}

\* The file a run of new_project.py has looked for and is about to write.
IsNext(file, s) == scaffold.absent /\ scaffold.slug = s /\ Head(scaffold.todo) = file

\* What he may make of a facts.yaml: another entry, another depth, a field made invalid or
\* mended, what YAML refuses mended (a field behind another one removed, or given a line).
AuthorWrites(s, f) ==
  {[f EXCEPT !.probes[p] = [verdict |-> a.verdict, evidence |-> a.evidence,
                            form |-> a.form, by |-> "human"]] : p \in Asked(s), a \in Answers}
    \cup {[f EXCEPT !.depth = d] : d \in PlannedDepths}
    \cup {[f EXCEPT !.valid = ~@]}
    \cup {[f EXCEPT !.name = "plain", !.hanging = FALSE, !.behind = 0, !.missing = m] :
            m \in {0, f.missing}}

\* Or another layout: another line before `probes:`, a line removed, a longer text.
AuthorLaysOut(s, f) ==
  {[f EXCEPT !.before = b, !.behind = 0] : b \in {"set", "value", "comment"}}
    \cup {[f EXCEPT !.missing = m] : m \in 1..2}
    \cup {[f EXCEPT !.probes[p].form = "evidence", !.probes[p].evidence = TRUE,
                    !.probes[p].by = "human"] : p \in Asked(s)}

\* He edits the file there is, or makes one after the stub.
Drafts(s) == IF facts[s] # None THEN {facts[s]} ELSE {facts_stub("plain", d) : d \in PlannedDepths}

edit_facts(s) ==
  /\ Asked(s) # {}
  /\ Edits
  /\ \E draft \in Drafts(s) :
       \/ /\ facts' \in {[facts EXCEPT ![s] = f] : f \in AuthorWrites(s, draft)}
          /\ UNCHANGED relaid
       \/ /\ facts' \in {[facts EXCEPT ![s] = f] : f \in AuthorLaysOut(s, draft)}
          /\ relaid' = relaid \cup {s}
  /\ facts' # facts
  /\ Touches(s)
  /\ overtaken' = (overtaken \/ IsNext("facts.yaml", s))
  /\ UNCHANGED <<teardown, rows, adrs>>

edit_teardown(s) ==
  /\ Asked(s) # {}
  /\ Edits
  /\ teardown' \in {[teardown EXCEPT ![s] = t] : t \in {"none", "human"}}
  /\ teardown' # teardown
  /\ Touches(s)
  /\ overtaken' = (overtaken \/ IsNext("teardown.md", s))
  /\ UNCHANGED <<facts, rows, adrs, relaid>>

edit_questions ==
  /\ Edits
  /\ \E r \in Rows : rows' = IF r \in rows THEN rows \ {r} ELSE rows \cup {r}
  /\ Touches("open-questions.md")
  /\ UNCHANGED <<facts, teardown, adrs, overtaken, relaid>>

\* As in seed_adrs, not during a check.
edit_adr(a) ==
  /\ check = NoCheck
  /\ Edits
  /\ adrs' = [adrs EXCEPT ![a] = "human"] /\ adrs[a] # "human"
  /\ overtaken' = (overtaken \/ (seeding.absent /\ Head(seeding.todo) = a))
  /\ UNCHANGED <<facts, teardown, rows, touched, relaid>>

\* A tool is killed between two of its steps.
interrupted ==
  /\ ~NoTool
  /\ scaffold' = NoScaffold /\ seeding' = NoSeeding /\ recon' = NoRecon /\ overtaken' = FALSE
  /\ UNCHANGED <<facts, teardown, rows, adrs, matrix, check, edits, touched, relaid>>

Next ==
  \/ \E s \in Slugs, d \in PlannedDepths : \E n \in DisplayNames[s] : new_project(s, n, d)
  \/ scaffold_looks \/ scaffold_file
  \/ seed_adrs \/ seed_looks \/ seed_adr
  \/ apply_recon \/ recon_reads \/ recon_writes
  \/ check_starts
  \/ (\E s \in Slugs : validate(s)) \/ validated \/ build \/ write_matrix \/ check_exit_criteria
  \/ \E s \in Slugs : edit_facts(s) \/ edit_teardown(s)
  \/ edit_questions
  \/ \E a \in Range(ADRS) : edit_adr(a)
  \/ interrupted

Spec == Init /\ [][Next]_vars

----------------------------------------------------------------------------
(* Properties. *)

Columns == [Slugs -> [PROBES -> Verdicts \cup {"maybe"}] \cup {None}]

TypeOK ==
  /\ facts \in [Slugs -> Fact \cup {None}]
  /\ teardown \in [Slugs -> {"none", "stub", "human"}]
  /\ rows \subseteq Rows
  /\ adrs \in [Range(ADRS) -> {"none", "stub", "human"}]
  /\ matrix \in Columns
  /\ scaffold \in [slug : Slugs, name : {"plain", "breaks"}, depth : PlannedDepths,
                   todo : Seq({"facts.yaml", "teardown.md"}), absent : BOOLEAN] \cup {NoScaffold}
  /\ scaffold.absent => scaffold.todo # <<>>
  /\ seeding \in [todo : Seq(Range(ADRS)), absent : BOOLEAN]
  /\ seeding.absent => seeding.todo # <<>>
  /\ recon \in [todo : Seq(Slugs), text : Fact \cup {None}]
  /\ recon.text # None => recon.todo # <<>>
  /\ check \in [pc : {"idle", "validate", "matrix", "write matrix", "exit"},
                listed : SUBSET Slugs, todo : SUBSET Slugs, oq : (SUBSET Rows) \cup {None},
                fails : BOOLEAN, built : Columns \cup {None}, green : BOOLEAN]
  /\ check.pc = "write matrix" => check.built \in Columns
  /\ edits \in 0..MaxEdits
  /\ touched \subseteq Slugs \cup {"open-questions.md"}
  /\ overtaken \in BOOLEAN
  /\ relaid \subseteq Slugs

\* What apply_recon leaves of the file, having read the text: the fields it does not set, the
\* entries it has no verdict for, and those with a longer note; of what has changed since it
\* read, nothing.
ReconKeeps(s, text, file, new) ==
  /\ new.name = file.name \/ text.name # file.name
  /\ new.valid = file.valid \/ text.valid # file.valid
  /\ \A p \in PROBES :
       \/ new.probes[p] = file.probes[p] \/ text.probes[p] # file.probes[p]
       \/ p \in DOMAIN ReconVerdict(RECON[s]) /\ file.probes[p].form # "note"

\* What the author wrote, the tools leave alone, with three exceptions.  apply_recon sets its
\* own fields and its own probes, whoever wrote them; it takes back what he wrote since it
\* read the file; and a tool that looked for a file and is about to create it replaces one
\* that he has made since.
HumanWorkSurvives ==
  [][edits' = edits /\ ~overtaken =>
       /\ \A a \in Range(ADRS) : adrs[a] = "human" => adrs'[a] = "human"
       /\ \A s \in Slugs :
            /\ teardown[s] = "human" => teardown'[s] = "human"
            /\ facts[s] # None =>
                 \/ facts'[s] = facts[s]
                 \/ /\ recon.text # None /\ Head(recon.todo) = s
                    /\ ReconKeeps(s, recon.text, facts[s], facts'[s])]_vars

\* apply_recon may be run again, and what it made of a file it leaves as it is, just when it
\* found a line for every field it sets, or a blank line or one of its own to append to.
\* Behind any other line it appends the missing fields once more, each time it is run.
ReconIdempotent ==
  \A s \in Slugs : facts[s] # None =>
    LET once == Reconned(s, facts[s])
    IN (Reconned(s, once) = once) <=> (facts[s].missing = 0 \/ facts[s].before \in {"blank", "set"})

\* No order of the tools makes a file unreadable whose layout the author kept, and whose name
\* may stand unquoted.
ToolsKeepFilesReadable ==
  \A s \in Slugs : facts[s] # None /\ Garbled(facts[s]) => s \in relaid \/ facts[s].name = "breaks"

\* What a green `make check` says of a project: a claim has evidence, a deep teardown that
\* has started has its document, and a question it leaves open is one somebody asked
\* about this project.
Accounted(s) ==
  /\ \A p \in PROBES : facts[s].probes[p].verdict \in {"first_class", "implicit"} =>
       facts[s].probes[p].evidence
  /\ facts[s].depth = "deep" =>
       /\ teardown[s] # "none"
       /\ \A p, q \in PROBES :
            facts[s].probes[p].verdict = "unknown" /\ facts[s].probes[q].verdict # "unknown" =>
              \E r \in rows : s \in r.names /\ p \in r.ids

\* When `make check` has been green, that is so for every project it found that nobody has
\* touched since it began, whatever was written around it, and the capability matrix
\* shows the project's verdicts, the unknown ones as unknown.
GreenIsTrue ==
  check.green =>
    \A s \in check.listed \ touched :
      /\ ~Garbled(facts[s]) /\ facts[s].valid
      /\ matrix[s] = [p \in PROBES |-> facts[s].probes[p].verdict]
      /\ "open-questions.md" \notin touched => Accounted(s)

=============================================================================
