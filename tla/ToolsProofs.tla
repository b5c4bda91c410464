----------------------------- MODULE ToolsProofs -----------------------------
(***************************************************************************)
(* Proofs about the modules of tools/: ResearchWorkspace, for any study,   *)
(* probes, recon and any number of edits, and SpecGate, for any number of  *)
(* runs, documents, roles and changes.                                     *)
(***************************************************************************)
EXTENDS ResearchWorkspace, SpecGate, SequenceTheorems, TLAPS

----------------------------------------------------------------------------
(* The files. *)

\* A facts.yaml is what its fields are.
LEMMA FactEqual ==
  ASSUME NEW f \in Fact, NEW g \in Fact,
         f.name = g.name, f.depth = g.depth, f.valid = g.valid, f.before = g.before,
         f.missing = g.missing, f.behind = g.behind, f.hanging = g.hanging, f.probes = g.probes
  PROVE  f = g
BY DEF Fact

LEMMA FactFields ==
  ASSUME NEW f \in Fact
  PROVE  /\ f.name \in {"plain", "breaks"} /\ f.depth \in Depths /\ f.valid \in BOOLEAN
         /\ f.before \in {"blank", "set", "value", "comment"} /\ f.missing \in 0..2
         /\ f.behind \in Nat /\ f.hanging \in BOOLEAN
         /\ f.probes \in [PROBES -> Entry] /\ f # None
BY NoneIsNoFact DEF Fact

\* The file with one field changed.
LEMMA FactWith ==
  ASSUME NEW f \in Fact
  PROVE  /\ \A x \in {"plain", "breaks"} : [f EXCEPT !.name = x] \in Fact
         /\ \A x \in Depths : [f EXCEPT !.depth = x] \in Fact
         /\ \A x \in BOOLEAN : [f EXCEPT !.valid = x] \in Fact
         /\ \A x \in {"blank", "set", "value", "comment"} : [f EXCEPT !.before = x] \in Fact
         /\ \A x \in 0..2 : [f EXCEPT !.missing = x] \in Fact
         /\ \A x \in Nat : [f EXCEPT !.behind = x] \in Fact
         /\ \A x \in BOOLEAN : [f EXCEPT !.hanging = x] \in Fact
         /\ \A x \in [PROBES -> Entry] : [f EXCEPT !.probes = x] \in Fact
BY DEF Fact

\* What set_project_field does to each part of the file.
LaidBehind(f) == CASE f.before = "blank" /\ f.missing > 0 -> f.missing - 1
                   [] f.before = "set" -> f.missing
                   [] f.before \in {"value", "comment"} -> f.behind + f.missing
                   [] OTHER -> f.behind

LEMMA Laid ==
  ASSUME NEW f \in Fact
  PROVE  LET laid  == set_project_field(f)
             first == f.before = "blank" /\ f.missing > 0
         IN /\ laid \in Fact
            /\ laid.name = f.name /\ laid.depth = f.depth /\ laid.valid = f.valid
            /\ laid.hanging = f.hanging /\ laid.probes = f.probes
            /\ laid.before = IF first THEN "set" ELSE f.before
            /\ laid.missing = IF first THEN f.missing - 1 ELSE f.missing
            /\ laid.behind = LaidBehind(f)
<1>0. f.missing \in 0..2 /\ f.behind \in Nat /\ f.before \in {"blank", "set", "value", "comment"}
  BY FactFields
<1>1. CASE f.before = "blank" /\ f.missing > 0
  <2> DEFINE less == f.missing - 1
             g    == [f EXCEPT !.before = "set"]
             h    == [g EXCEPT !.missing = less]
             laid == [f EXCEPT !.before = "set", !.missing = less, !.behind = less]
  <2>1. set_project_field(f) = laid
    BY <1>1 DEF set_project_field
  <2>2. less \in 0..2 /\ less \in Nat
    BY <1>0, <1>1
  <2> HIDE DEF less
  <2>3. g \in Fact
    BY FactWith
  <2>4. h \in Fact
    BY <2>2, <2>3, FactWith
  <2>5. laid = [h EXCEPT !.behind = less]
    OBVIOUS
  <2>6. laid \in Fact
    BY <2>2, <2>4, <2>5, FactWith
  <2>7. /\ laid.name = f.name /\ laid.depth = f.depth /\ laid.valid = f.valid
        /\ laid.hanging = f.hanging /\ laid.probes = f.probes
        /\ laid.before = "set" /\ laid.missing = less /\ laid.behind = less
    BY DEF Fact
  <2> HIDE DEF laid, g, h
  <2>8. LaidBehind(f) = less
    BY <1>1 DEF LaidBehind, less
  <2> QED BY <1>1, <2>1, <2>6, <2>7, <2>8 DEF less
<1>2. ASSUME NEW n \in Nat, set_project_field(f) = [f EXCEPT !.behind = n], LaidBehind(f) = n,
             ~(f.before = "blank" /\ f.missing > 0)
      PROVE  LET laid  == set_project_field(f)
             IN /\ laid \in Fact
                /\ laid.name = f.name /\ laid.depth = f.depth /\ laid.valid = f.valid
                /\ laid.hanging = f.hanging /\ laid.probes = f.probes
                /\ laid.before = f.before /\ laid.missing = f.missing
                /\ laid.behind = LaidBehind(f)
  <2> DEFINE laid == [f EXCEPT !.behind = n]
  <2>1. laid \in Fact
    BY FactWith
  <2>2. /\ laid.name = f.name /\ laid.depth = f.depth /\ laid.valid = f.valid
        /\ laid.hanging = f.hanging /\ laid.probes = f.probes
        /\ laid.before = f.before /\ laid.missing = f.missing /\ laid.behind = n
    BY DEF Fact
  <2> HIDE DEF laid
  <2> USE DEF laid
  <2> QED BY <1>2, <2>1, <2>2
<1>3. CASE f.before = "set"
  <2>1. f.missing \in Nat
    BY <1>0
  <2>2. set_project_field(f) = [f EXCEPT !.behind = f.missing] /\ LaidBehind(f) = f.missing
    BY <1>3 DEF set_project_field, LaidBehind
  <2> QED BY <1>2, <1>3, <2>1, <2>2
<1>4. CASE f.before \in {"value", "comment"}
  <2> DEFINE n == f.behind + f.missing
  <2>1. n \in Nat
    BY <1>0
  <2>2. set_project_field(f) = [f EXCEPT !.behind = n] /\ LaidBehind(f) = n
    BY <1>4 DEF set_project_field, LaidBehind
  <2> HIDE DEF n
  <2> QED BY <1>2, <1>4, <2>1, <2>2
<1>5. CASE f.before = "blank" /\ ~(f.missing > 0)
  <2>1. set_project_field(f) = f /\ LaidBehind(f) = f.behind
    BY <1>5 DEF set_project_field, LaidBehind
  <2> QED BY <1>5, <2>1
<1> QED BY <1>0, <1>1, <1>2, <1>3, <1>4, <1>5

\* The verdicts that recon has are verdicts.
LEMMA VerdictsOfRecon ==
  ASSUME NEW s \in Slugs
  PROVE  LET v == ReconVerdict(RECON[s]) IN \A p \in DOMAIN v : v[p] \in Verdicts
BY ReconIsRecon DEF ReconVerdict, Verdicts

LEMMA ReplacedEntry ==
  ASSUME NEW e \in Entry, NEW v \in Verdicts
  PROVE  /\ set_probe(e, v) \in Entry
         /\ set_probe(e, v).form # "evidence"
         /\ set_probe(set_probe(e, v), v) = set_probe(e, v)
         /\ e.form = "note" => set_probe(e, v) = e
BY DEF set_probe, Entry

\* What apply_recon does to each part of the file.
Hits(s)   == DOMAIN ReconVerdict(RECON[s]) \cap PROBES
Tears(s, f) == \E p \in Hits(s) : f.probes[p].form = "evidence"

LEMMA ReconnedFields ==
  ASSUME NEW s \in Slugs, NEW f \in Fact
  PROVE  LET laid == set_project_field(f)
             made == Reconned(s, f)
             v    == ReconVerdict(RECON[s])
         IN /\ made \in Fact
            /\ made.name = f.name /\ made.depth = RECON[s].depth /\ made.valid = f.valid
            /\ made.before = laid.before /\ made.missing = laid.missing /\ made.behind = laid.behind
            /\ made.hanging = (f.hanging \/ Tears(s, f))
            /\ \A p \in PROBES : made.probes[p] = IF p \in Hits(s) THEN set_probe(f.probes[p], v[p])
                                                  ELSE f.probes[p]
<1> DEFINE laid   == set_project_field(f)
           v      == ReconVerdict(RECON[s])
           torn   == laid.hanging \/ Tears(s, f)
           probes == [p \in PROBES |-> IF p \in Hits(s) THEN set_probe(f.probes[p], v[p])
                                       ELSE f.probes[p]]
           depth  == RECON[s].depth
           made   == [laid EXCEPT !.depth = depth, !.hanging = torn, !.probes = probes]
<1>1. laid \in Fact /\ laid.name = f.name /\ laid.valid = f.valid /\ laid.probes = f.probes
      /\ laid.hanging = f.hanging
  BY Laid
<1>2. Reconned(s, f) = made
  BY <1>1 DEF Reconned, Hits, Tears
<1>3. depth \in Depths /\ torn \in BOOLEAN /\ probes \in [PROBES -> Entry]
  <2>1. depth \in Depths
    BY ReconIsRecon
  <2>2. torn \in BOOLEAN
    BY <1>1, FactFields DEF Tears
  <2>3. \A p \in PROBES : f.probes[p] \in Entry
    BY FactFields
  <2>4. \A p \in Hits(s) : set_probe(f.probes[p], v[p]) \in Entry
    BY <2>3, VerdictsOfRecon, ReplacedEntry DEF Hits
  <2> QED BY <2>1, <2>2, <2>3, <2>4
<1>4. probes = made.probes /\ \A p \in PROBES : probes[p] = IF p \in Hits(s) THEN set_probe(f.probes[p], v[p])
                                                             ELSE f.probes[p]
  BY <1>1, FactFields DEF Fact
<1> HIDE DEF laid, torn, probes, depth
<1>5. made \in Fact
  <2> DEFINE deep == [laid EXCEPT !.depth = depth]
             hung == [deep EXCEPT !.hanging = torn]
  <2>1. deep \in Fact
    BY <1>1, <1>3, FactWith
  <2>2. hung \in Fact
    BY <1>3, <2>1, FactWith
  <2>3. made = [hung EXCEPT !.probes = probes]
    OBVIOUS
  <2> QED BY <1>3, <2>2, <2>3, FactWith
<1>6. /\ made.depth = depth /\ made.hanging = torn /\ made.valid = laid.valid
      /\ made.name = laid.name /\ made.behind = laid.behind
      /\ made.missing = laid.missing /\ made.before = laid.before
  BY <1>1 DEF Fact
<1> HIDE DEF made
<1> USE DEF laid, torn, depth
<1> QED BY <1>1, <1>2, <1>4, <1>5, <1>6

\* What set_project_field makes of what it has made: behind a line that recon does not set,
\* it appends what is missing once more; else it changes nothing.
LEMMA LaidTwice ==
  ASSUME NEW f \in Fact, NEW g \in Fact,
         g.before = set_project_field(f).before, g.missing = set_project_field(f).missing,
         g.behind = set_project_field(f).behind
  PROVE  LET stays == f.missing = 0 \/ f.before \in {"blank", "set"}
             laid  == set_project_field(g)
         IN /\ stays => laid = g
            /\ ~stays => laid.behind # g.behind
<1>0. f.missing \in 0..2 /\ f.behind \in Nat /\ f.before \in {"blank", "set", "value", "comment"}
  BY FactFields
<1> DEFINE first == f.before = "blank" /\ f.missing > 0
<1>1. /\ g.before = IF first THEN "set" ELSE f.before
      /\ g.missing = IF first THEN f.missing - 1 ELSE f.missing
      /\ g.behind = LaidBehind(f)
  BY Laid
<1>2. /\ set_project_field(g) \in Fact /\ set_project_field(g).name = g.name
      /\ set_project_field(g).depth = g.depth /\ set_project_field(g).valid = g.valid
      /\ set_project_field(g).hanging = g.hanging /\ set_project_field(g).probes = g.probes
      /\ set_project_field(g).before = IF g.before = "blank" /\ g.missing > 0 THEN "set" ELSE g.before
      /\ set_project_field(g).missing = IF g.before = "blank" /\ g.missing > 0 THEN g.missing - 1
                                         ELSE g.missing
      /\ set_project_field(g).behind = LaidBehind(g)
  BY Laid
<1>3. ~(g.before = "blank" /\ g.missing > 0)
  BY <1>0, <1>1
<1>4. ASSUME f.missing = 0 \/ f.before \in {"blank", "set"} PROVE LaidBehind(g) = g.behind
  <2>1. CASE first
    BY <1>0, <1>1, <2>1 DEF LaidBehind
  <2>2. CASE f.before = "set"
    BY <1>0, <1>1, <2>2 DEF LaidBehind
  <2>3. CASE f.before = "blank" /\ ~(f.missing > 0)
    BY <1>0, <1>1, <2>3 DEF LaidBehind
  <2>4. CASE f.before \in {"value", "comment"} /\ f.missing = 0
    BY <1>0, <1>1, <2>4 DEF LaidBehind
  <2> QED BY <1>0, <1>4, <2>1, <2>2, <2>3, <2>4
<1>5. ASSUME ~(f.missing = 0 \/ f.before \in {"blank", "set"}) PROVE LaidBehind(g) # g.behind
  <2>1. f.before \in {"value", "comment"} /\ f.missing > 0
    BY <1>0, <1>5
  <2> QED BY <1>0, <1>1, <2>1 DEF LaidBehind
<1>6. ASSUME LaidBehind(g) = g.behind PROVE set_project_field(g) = g
  BY <1>2, <1>3, <1>6, FactEqual
<1> QED BY <1>2, <1>4, <1>5, <1>6

\* When apply_recon finds nothing left to do in what it made.
LEMMA ReconTwice ==
  ASSUME NEW s \in Slugs, NEW f \in Fact
  PROVE  LET once == Reconned(s, f)
         IN (Reconned(s, once) = once) <=> (f.missing = 0 \/ f.before \in {"blank", "set"})
<1> DEFINE once  == Reconned(s, f)
           twice == Reconned(s, once)
           laid  == set_project_field(once)
           v     == ReconVerdict(RECON[s])
           stays == f.missing = 0 \/ f.before \in {"blank", "set"}
<1>1. /\ once \in Fact /\ once.depth = RECON[s].depth
      /\ once.before = set_project_field(f).before /\ once.missing = set_project_field(f).missing
      /\ once.behind = set_project_field(f).behind
      /\ \A p \in PROBES : once.probes[p] = IF p \in Hits(s) THEN set_probe(f.probes[p], v[p])
                                            ELSE f.probes[p]
  BY ReconnedFields
<1>2. /\ twice \in Fact /\ twice.name = once.name
      /\ twice.depth = RECON[s].depth /\ twice.valid = once.valid
      /\ twice.before = laid.before /\ twice.missing = laid.missing /\ twice.behind = laid.behind
      /\ twice.hanging = (once.hanging \/ Tears(s, once))
      /\ \A p \in PROBES : twice.probes[p] = IF p \in Hits(s) THEN set_probe(once.probes[p], v[p])
                                             ELSE once.probes[p]
  BY <1>1, ReconnedFields
<1>3. (stays => laid = once) /\ (~stays => laid.behind # once.behind)
  <2> HIDE DEF once
  <2> QED BY <1>1, LaidTwice
<1>4. \A p \in PROBES : f.probes[p] \in Entry
  BY FactFields
<1>5. \A p \in Hits(s) : /\ once.probes[p].form # "evidence"
                         /\ set_probe(once.probes[p], v[p]) = once.probes[p]
  BY <1>1, <1>4, VerdictsOfRecon, ReplacedEntry DEF Hits
<1>6. ~Tears(s, once)
  BY <1>5 DEF Tears
<1>7. \A p \in PROBES : twice.probes[p] = once.probes[p]
  BY <1>2, <1>5
<1> HIDE DEF once, twice, laid
<1>8. twice.probes = once.probes
  BY <1>1, <1>2, <1>7, FactFields
<1>9. twice.hanging = once.hanging
  BY <1>1, <1>2, <1>6, FactFields
<1>10. stays => twice = once
  BY <1>1, <1>2, <1>3, <1>8, <1>9, FactEqual
<1>11. ~stays => twice # once
  BY <1>2, <1>3
<1> USE DEF once, twice
<1> QED BY <1>10, <1>11

\* Laid out as the stub is, with nothing appended or left over.
Clean(f) == /\ ~f.hanging /\ f.missing = 0 /\ f.behind = 0
            /\ \A p \in PROBES : f.probes[p].form # "evidence"

LEMMA StubIsClean ==
  ASSUME NEW n \in {"plain", "breaks"}, NEW d \in Depths
  PROVE  facts_stub(n, d) \in Fact /\ Clean(facts_stub(n, d))
<1> DEFINE e == [verdict |-> "unknown", evidence |-> FALSE, form |-> "lines", by |-> "stub"]
<1>1. e \in Entry /\ e.form # "evidence"
  BY DEF Entry, Verdicts
<1> HIDE DEF e
<1>2. [p \in PROBES |-> e] \in [PROBES -> Entry]
  BY <1>1
<1>3. facts_stub(n, d) = [name |-> n, depth |-> d, valid |-> TRUE, before |-> "blank",
                          missing |-> 0, behind |-> 0, hanging |-> FALSE,
                          probes |-> [p \in PROBES |-> e]]
  BY DEF facts_stub, e
<1> QED BY <1>1, <1>2, <1>3 DEF Fact, Clean

LEMMA ReconKeepsClean ==
  ASSUME NEW s \in Slugs, NEW f \in Fact, Clean(f)
  PROVE  Clean(Reconned(s, f))
<1>0. f.missing = 0 /\ f.behind = 0 /\ f.before \in {"blank", "set", "value", "comment"}
  BY FactFields DEF Clean
<1>1. set_project_field(f).missing = 0 /\ set_project_field(f).behind = 0
  BY <1>0, Laid DEF LaidBehind
<1>2. ~Tears(s, f)
  BY DEF Clean, Tears, Hits
<1>3. \A p \in PROBES : f.probes[p] \in Entry
  BY FactFields
<1>4. \A p \in Hits(s) : set_probe(f.probes[p], ReconVerdict(RECON[s])[p]).form # "evidence"
  BY <1>3, VerdictsOfRecon, ReplacedEntry DEF Hits
<1>5. /\ Reconned(s, f).missing = 0 /\ Reconned(s, f).behind = 0
      /\ Reconned(s, f).hanging = (f.hanging \/ Tears(s, f))
      /\ \A p \in PROBES : Reconned(s, f).probes[p].form # "evidence"
  BY <1>1, <1>4, ReconnedFields DEF Clean
<1> QED BY <1>2, <1>5 DEF Clean

\* One entry of the file is written by the author.
LEMMA EntryWritten ==
  ASSUME NEW f \in Fact, NEW p \in PROBES, NEW e \in Entry
  PROVE  /\ [f EXCEPT !.probes[p] = e] \in Fact
         /\ Clean(f) /\ e.form # "evidence" => Clean([f EXCEPT !.probes[p] = e])
<1> DEFINE probes == [f.probes EXCEPT ![p] = e]
           g == [f EXCEPT !.probes = probes]
<1>1. probes \in [PROBES -> Entry] /\ \A q \in PROBES : probes[q] = IF q = p THEN e ELSE f.probes[q]
  BY FactFields
<1>2. [f EXCEPT !.probes[p] = e] = g
  BY DEF Fact
<1> HIDE DEF probes
<1>3. /\ g \in Fact /\ g.probes = probes /\ g.hanging = f.hanging /\ g.missing = f.missing
      /\ g.behind = f.behind
  BY <1>1 DEF Fact
<1> QED BY <1>1, <1>2, <1>3 DEF Clean

LEMMA AuthorsFacts ==
  ASSUME NEW s \in Slugs, NEW f \in Fact
  PROVE  /\ \A g \in AuthorWrites(s, f) : g \in Fact /\ (Clean(f) => Clean(g))
         /\ \A g \in AuthorLaysOut(s, f) : g \in Fact
<1>1. ASSUME NEW p \in Asked(s), NEW a \in Answers
      PROVE  LET g == [f EXCEPT !.probes[p] = [verdict |-> a.verdict, evidence |-> a.evidence,
                                               form |-> a.form, by |-> "human"]]
             IN g \in Fact /\ (Clean(f) => Clean(g))
  <2> DEFINE e == [verdict |-> a.verdict, evidence |-> a.evidence, form |-> a.form, by |-> "human"]
  <2>1. e \in Entry /\ e.form # "evidence" /\ p \in PROBES
    BY AnswersAreAnswers DEF Entry, Asked
  <2> HIDE DEF e
  <2>2. [f EXCEPT !.probes[p] = e] \in Fact /\ (Clean(f) => Clean([f EXCEPT !.probes[p] = e]))
    BY <2>1, EntryWritten
  <2> QED BY <2>2 DEF e
<1>2. ASSUME NEW d \in PlannedDepths
      PROVE  LET g == [f EXCEPT !.depth = d] IN g \in Fact /\ (Clean(f) => Clean(g))
  BY PlansAreDepths DEF Fact, Clean
<1>3. LET g == [f EXCEPT !.valid = ~f.valid] IN g \in Fact /\ (Clean(f) => Clean(g))
  BY DEF Fact, Clean
<1>4. ASSUME NEW m \in {0, f.missing}
      PROVE  LET g == [f EXCEPT !.name = "plain", !.hanging = FALSE, !.behind = 0, !.missing = m]
             IN g \in Fact /\ (Clean(f) => Clean(g))
  <2> DEFINE named == [f EXCEPT !.name = "plain"]
             whole == [named EXCEPT !.hanging = FALSE]
             alone == [whole EXCEPT !.behind = 0]
             g     == [alone EXCEPT !.missing = m]
  <2>1. m \in 0..2
    BY FactFields
  <2>2. named \in Fact
    BY FactWith
  <2>3. whole \in Fact
    BY <2>2, FactWith
  <2>4. alone \in Fact
    BY <2>3, FactWith
  <2>5. g \in Fact
    BY <2>1, <2>4, FactWith
  <2>6. g = [f EXCEPT !.name = "plain", !.hanging = FALSE, !.behind = 0, !.missing = m]
    OBVIOUS
  <2>7. g.missing = m /\ g.behind = 0 /\ ~g.hanging /\ g.probes = f.probes
    BY DEF Fact
  <2> HIDE DEF named, whole, alone, g
  <2>8. Clean(f) => Clean(g)
    BY <2>7 DEF Clean
  <2> QED BY <2>5, <2>6, <2>8
<1>5. /\ \A b \in {"set", "value", "comment"} : [f EXCEPT !.before = b, !.behind = 0] \in Fact
      /\ \A m \in 1..2 : [f EXCEPT !.missing = m] \in Fact
  <2>1. ASSUME NEW b \in {"set", "value", "comment"}
        PROVE  [f EXCEPT !.before = b, !.behind = 0] \in Fact
    <3> DEFINE g == [f EXCEPT !.before = b]
    <3>1. g \in Fact
      BY FactWith
    <3>2. [g EXCEPT !.behind = 0] \in Fact
      BY <3>1, FactWith
    <3> QED BY <3>2
  <2>2. \A m \in 1..2 : m \in 0..2
    OBVIOUS
  <2>3. \A m \in 1..2 : [f EXCEPT !.missing = m] \in Fact
    BY <2>2, FactWith
  <2> QED BY <2>1, <2>3
<1>6. ASSUME NEW p \in Asked(s)
      PROVE  [f EXCEPT !.probes[p].form = "evidence", !.probes[p].evidence = TRUE,
                       !.probes[p].by = "human"] \in Fact
  <2>1. p \in PROBES
    BY DEF Asked
  <2>2. \A g \in Fact : /\ [g EXCEPT !.probes[p].form = "evidence"] \in Fact
                        /\ [g EXCEPT !.probes[p].evidence = TRUE] \in Fact
                        /\ [g EXCEPT !.probes[p].by = "human"] \in Fact
    <3> SUFFICES ASSUME NEW g \in Fact
                 PROVE  /\ [g EXCEPT !.probes[p].form = "evidence"] \in Fact
                        /\ [g EXCEPT !.probes[p].evidence = TRUE] \in Fact
                        /\ [g EXCEPT !.probes[p].by = "human"] \in Fact
      OBVIOUS
    <3>1. g.probes[p] \in Entry
      BY <2>1, FactFields
    <3>2. /\ [g.probes[p] EXCEPT !.form = "evidence"] \in Entry
          /\ [g.probes[p] EXCEPT !.evidence = TRUE] \in Entry
          /\ [g.probes[p] EXCEPT !.by = "human"] \in Entry
      BY <3>1 DEF Entry
    <3>3. /\ [g EXCEPT !.probes[p] = [g.probes[p] EXCEPT !.form = "evidence"]] \in Fact
          /\ [g EXCEPT !.probes[p] = [g.probes[p] EXCEPT !.evidence = TRUE]] \in Fact
          /\ [g EXCEPT !.probes[p] = [g.probes[p] EXCEPT !.by = "human"]] \in Fact
      BY <2>1, <3>2, EntryWritten
    <3> QED BY <3>3
  <2> QED BY <2>2
<1>7. \A g \in AuthorWrites(s, f) : g \in Fact /\ (Clean(f) => Clean(g))
  <2> DEFINE answered(p, a) == [f EXCEPT !.probes[p] = [verdict |-> a.verdict,
                evidence |-> a.evidence, form |-> a.form, by |-> "human"]]
             deeper(d) == [f EXCEPT !.depth = d]
             mended == [f EXCEPT !.valid = ~f.valid]
             parsed(m) == [f EXCEPT !.name = "plain", !.hanging = FALSE, !.behind = 0, !.missing = m]
  <2>1. \A p \in Asked(s), a \in Answers :
           answered(p, a) \in Fact /\ (Clean(f) => Clean(answered(p, a)))
    BY <1>1
  <2>2. \A d \in PlannedDepths : deeper(d) \in Fact /\ (Clean(f) => Clean(deeper(d)))
    BY <1>2
  <2>3. /\ mended \in Fact /\ (Clean(f) => Clean(mended))
        /\ \A m \in {0, f.missing} : parsed(m) \in Fact /\ (Clean(f) => Clean(parsed(m)))
    BY <1>3, <1>4
  <2>4. AuthorWrites(s, f) = {answered(p, a) : p \in Asked(s), a \in Answers}
          \cup {deeper(d) : d \in PlannedDepths} \cup {mended}
          \cup {parsed(m) : m \in {0, f.missing}}
    BY DEF AuthorWrites
  <2> HIDE DEF answered, deeper, mended, parsed
  <2>5. ASSUME NEW g \in AuthorWrites(s, f)
        PROVE  \/ \E p \in Asked(s), a \in Answers : g = answered(p, a)
               \/ \E d \in PlannedDepths : g = deeper(d)
               \/ g = mended \/ \E m \in {0, f.missing} : g = parsed(m)
    BY <2>4
  <2> QED BY <2>1, <2>2, <2>3, <2>5
<1>8. \A g \in AuthorLaysOut(s, f) : g \in Fact
  <2> DEFINE spread(p) == [f EXCEPT !.probes[p].form = "evidence", !.probes[p].evidence = TRUE,
                                    !.probes[p].by = "human"]
  <2>1. \A p \in Asked(s) : spread(p) \in Fact
    BY <1>6
  <2>2. AuthorLaysOut(s, f) = {[f EXCEPT !.before = b, !.behind = 0] : b \in {"set", "value", "comment"}}
          \cup {[f EXCEPT !.missing = m] : m \in 1..2} \cup {spread(p) : p \in Asked(s)}
    BY DEF AuthorLaysOut
  <2> HIDE DEF spread
  <2> QED BY <1>5, <2>1, <2>2
<1> QED BY <1>7, <1>8

\* What the author starts from.
LEMMA DraftsAreFacts ==
  ASSUME TypeOK, NEW s \in Slugs, NEW f \in Drafts(s)
  PROVE  /\ f \in Fact
         /\ facts[s] = None => Clean(f)
         /\ facts[s] # None => f = facts[s]
<1>1. CASE facts[s] # None
  BY <1>1 DEF Drafts, TypeOK
<1>2. CASE facts[s] = None
  BY <1>2, PlansAreDepths, StubIsClean DEF Drafts
<1> QED BY <1>1, <1>2

----------------------------------------------------------------------------
(* Type correctness. *)

Files       == {"facts.yaml", "teardown.md"}
ScaffoldRun == [slug : Slugs, name : {"plain", "breaks"}, depth : PlannedDepths,
                todo : Seq(Files), absent : BOOLEAN]
SeedingRun  == [todo : Seq(Range(ADRS)), absent : BOOLEAN]
ReconRun    == [todo : Seq(Slugs), text : Fact \cup {None}]
CheckRun    == [pc : {"idle", "validate", "matrix", "write matrix", "exit"},
                listed : SUBSET Slugs, todo : SUBSET Slugs, oq : (SUBSET Rows) \cup {None},
                fails : BOOLEAN, built : Columns \cup {None}, green : BOOLEAN]

LEMMA NothingRuns == NoRecon \in ReconRun /\ NoRecon.text = None
                     /\ NoCheck \in CheckRun /\ NoCheck.pc = "idle"
                     /\ NoSeeding \in SeedingRun /\ ~NoSeeding.absent
                     /\ NoScaffold.todo = <<>> /\ ~NoScaffold.absent
<1>1. NoRecon \in ReconRun /\ NoRecon.text = None
  BY EmptySeq DEF NoRecon, ReconRun
<1>2. NoCheck \in CheckRun /\ NoCheck.pc = "idle"
  <2>1. {} \in SUBSET Slugs /\ None \in (SUBSET Rows) \cup {None} /\ None \in Columns \cup {None}
    OBVIOUS
  <2> QED BY <2>1 DEF NoCheck, CheckRun
<1>3. NoSeeding \in SeedingRun /\ ~NoSeeding.absent
  BY EmptySeq DEF NoSeeding, SeedingRun
<1>4. NoScaffold.todo = <<>> /\ ~NoScaffold.absent
  BY DEF NoScaffold
<1> QED BY <1>1, <1>2, <1>3, <1>4

\* A project has no facts.yaml at first, or the stub that an earlier run made.
LEMMA InitFiles ==
  ASSUME Init, NEW s \in Slugs
  PROVE  facts[s] = None \/ \E d \in Depths : facts[s] = facts_stub("plain", d)
<1>1. PICK d \in PlannedDepths :
        facts = [t \in Slugs |-> IF t \in Begun THEN facts_stub("plain", d) ELSE None]
  BY DEF Init
<1>2. d \in Depths /\ (facts[s] = None \/ facts[s] = facts_stub("plain", d))
  BY <1>1, PlansAreDepths
<1> QED BY <1>2

LEMMA InitIsTyped == Init => TypeOK
<1> SUFFICES ASSUME Init PROVE TypeOK
  OBVIOUS
<1>1. matrix \in Columns /\ edits \in 0..MaxEdits
  BY BoundsAreNumbers DEF Init, Columns
<1>2. /\ facts \in [Slugs -> Fact \cup {None}]
      /\ teardown \in [Slugs -> {"none", "stub", "human"}]
      /\ adrs \in [Range(ADRS) -> {"none", "stub", "human"}]
      /\ rows = {} /\ touched = {} /\ relaid = {} /\ scaffold = NoScaffold
      /\ recon = NoRecon /\ check = NoCheck /\ seeding = NoSeeding /\ overtaken = FALSE
  <2>1. \A s \in Slugs : facts[s] \in Fact \cup {None}
    BY InitFiles, StubIsClean
  <2>2. facts = [s \in Slugs |-> facts[s]]
    <3>1. PICK d \in PlannedDepths :
            facts = [s \in Slugs |-> IF s \in Begun THEN facts_stub("plain", d) ELSE None]
      BY DEF Init
    <3> QED BY <3>1
  <2>3. facts \in [Slugs -> Fact \cup {None}]
    BY <2>1, <2>2
  <2> QED BY <2>3 DEF Init
<1> QED BY <1>1, <1>2, NothingRuns DEF TypeOK, ReconRun, CheckRun, SeedingRun

LEMMA TypedTouches ==
  ASSUME TypeOK, NEW what \in Slugs \cup {"open-questions.md"}, Touches(what)
  PROVE  touched' \subseteq Slugs \cup {"open-questions.md"}
BY DEF Touches, TypeOK

\* A run of new_project.py that has looked for a file, or has one to look for.
LEMMA ScaffoldRuns ==
  ASSUME TypeOK, scaffold.todo # <<>> \/ scaffold.absent
  PROVE  /\ scaffold \in ScaffoldRun /\ scaffold.slug \in Slugs /\ scaffold.todo # <<>>
         /\ scaffold.name \in {"plain", "breaks"} /\ scaffold.depth \in Depths
         /\ Head(scaffold.todo) \in Files
         /\ NextFile \in ScaffoldRun \cup {NoScaffold} /\ ~NextFile.absent
<1>1. scaffold \in ScaffoldRun \cup {NoScaffold} /\ (scaffold.absent => scaffold.todo # <<>>)
  BY DEF TypeOK, ScaffoldRun, Files
<1>2. scaffold \in ScaffoldRun /\ scaffold.todo # <<>>
  BY <1>1, NothingRuns
<1>3. scaffold.slug \in Slugs /\ scaffold.name \in {"plain", "breaks"} /\ scaffold.depth \in PlannedDepths
      /\ scaffold.todo \in Seq(Files)
  BY <1>2 DEF ScaffoldRun
<1>4. Head(scaffold.todo) \in Files /\ Tail(scaffold.todo) \in Seq(Files)
  BY <1>2, <1>3
<1>5. NextFile \in ScaffoldRun \cup {NoScaffold} /\ ~NextFile.absent
  <2> DEFINE rest == Tail(scaffold.todo)
             next == [scaffold EXCEPT !.todo = rest, !.absent = FALSE]
  <2> HIDE DEF rest
  <2>1. rest \in Seq(Files)
    BY <1>4 DEF rest
  <2>2. next \in ScaffoldRun /\ ~next.absent
    BY <1>2, <2>1 DEF ScaffoldRun
  <2> QED BY <2>2, NothingRuns DEF NextFile, rest
<1> QED BY <1>2, <1>3, <1>4, <1>5, PlansAreDepths, NamesAreNames

\* new_project.py
LEMMA ScaffoldIsTyped ==
  ASSUME TypeOK,
         \/ \E s \in Slugs, d \in PlannedDepths : \E n \in DisplayNames[s] : new_project(s, n, d)
         \/ scaffold_looks \/ scaffold_file
  PROVE  TypeOK'
<1>1. ASSUME NEW s \in Slugs, NEW d \in PlannedDepths, NEW n \in DisplayNames[s], new_project(s, n, d)
      PROVE  TypeOK'
  <2>1. <<"facts.yaml", "teardown.md">> \in Seq(Files)
    BY DEF Files
  <2>2. scaffold' \in ScaffoldRun /\ ~scaffold'.absent
    <3>1. n \in {"plain", "breaks"}
      BY NamesAreNames
    <3> QED BY <1>1, <2>1, <3>1 DEF new_project, ScaffoldRun
  <2> QED BY <1>1, <2>2 DEF new_project, TypeOK, ScaffoldRun, Files
<1>2. ASSUME scaffold_looks PROVE TypeOK'
  <2>1. /\ scaffold \in ScaffoldRun /\ scaffold.todo # <<>>
        /\ NextFile \in ScaffoldRun \cup {NoScaffold} /\ ~NextFile.absent
    BY <1>2, ScaffoldRuns DEF scaffold_looks
  <2>2. \/ scaffold' = [scaffold EXCEPT !.absent = TRUE]
        \/ scaffold' = NextFile
    BY <1>2 DEF scaffold_looks
  <2>3. scaffold' \in ScaffoldRun \cup {NoScaffold} /\ (scaffold'.absent => scaffold'.todo # <<>>)
    <3>1. /\ [scaffold EXCEPT !.absent = TRUE] \in ScaffoldRun
          /\ [scaffold EXCEPT !.absent = TRUE].todo = scaffold.todo
      BY <2>1 DEF ScaffoldRun
    <3> QED BY <2>1, <2>2, <3>1
  <2> QED BY <1>2, <2>3 DEF scaffold_looks, TypeOK, ScaffoldRun, Files
<1>3. ASSUME scaffold_file PROVE TypeOK'
  <2>1. /\ scaffold.slug \in Slugs /\ facts_stub(scaffold.name, scaffold.depth) \in Fact
        /\ NextFile \in ScaffoldRun \cup {NoScaffold} /\ ~NextFile.absent
    BY <1>3, ScaffoldRuns, StubIsClean DEF scaffold_file
  <2>2. /\ facts' \in [Slugs -> Fact \cup {None}]
        /\ teardown' \in [Slugs -> {"none", "stub", "human"}]
    <3> DEFINE s == scaffold.slug
               stub == facts_stub(scaffold.name, scaffold.depth)
    <3>1. /\ facts' = facts \/ facts' = [facts EXCEPT ![s] = stub]
          /\ teardown' = teardown \/ teardown' = [teardown EXCEPT ![s] = "stub"]
      BY <1>3 DEF scaffold_file
    <3>2. facts \in [Slugs -> Fact \cup {None}] /\ teardown \in [Slugs -> {"none", "stub", "human"}]
      BY DEF TypeOK
    <3>3. s \in Slugs /\ stub \in Fact
      BY <2>1
    <3> HIDE DEF s, stub
    <3> QED BY <3>1, <3>2, <3>3
  <2>3. touched' \subseteq Slugs \cup {"open-questions.md"}
    BY <1>3, <2>1, TypedTouches DEF scaffold_file
  <2>4. scaffold' = NextFile /\ overtaken' = FALSE
        /\ UNCHANGED <<rows, adrs, matrix, seeding, recon, check, edits, relaid>>
    BY <1>3 DEF scaffold_file
  <2> QED BY <2>1, <2>2, <2>3, <2>4 DEF TypeOK, ScaffoldRun, Files
<1> QED BY <1>1, <1>2, <1>3

\* seed_adrs.py
LEMMA SeedingIsTyped ==
  ASSUME TypeOK, seed_adrs \/ seed_looks \/ seed_adr
  PROVE  TypeOK'
<1>0. seeding \in SeedingRun /\ (seeding.absent => seeding.todo # <<>>)
  BY DEF TypeOK, SeedingRun
<1>1. CASE seed_adrs
  <2>1. seeding' \in SeedingRun /\ ~seeding'.absent
    BY <1>1, ListsAreSequences DEF seed_adrs, SeedingRun
  <2> QED BY <1>1, <2>1 DEF seed_adrs, TypeOK, SeedingRun
<1>2. ASSUME seeding.todo # <<>>
      PROVE  Head(seeding.todo) \in Range(ADRS) /\ Tail(seeding.todo) \in Seq(Range(ADRS))
  <2>1. seeding.todo \in Seq(Range(ADRS))
    BY <1>0 DEF SeedingRun
  <2> QED BY <1>2, <2>1
<1>3. CASE seed_looks
  <2> DEFINE rest == Tail(seeding.todo)
  <2>1. seeding.todo # <<>> /\ ~seeding.absent /\ rest \in Seq(Range(ADRS))
    BY <1>2, <1>3 DEF seed_looks
  <2>2. \/ seeding' = [seeding EXCEPT !.absent = TRUE]
        \/ seeding' = [seeding EXCEPT !.todo = rest]
    BY <1>3 DEF seed_looks
  <2> HIDE DEF rest
  <2>3. seeding' \in SeedingRun /\ (seeding'.absent => seeding'.todo # <<>>)
    BY <1>0, <2>1, <2>2 DEF SeedingRun
  <2> QED BY <1>3, <2>3 DEF seed_looks, TypeOK, SeedingRun
<1>4. CASE seed_adr
  <2>1. Head(seeding.todo) \in Range(ADRS) /\ Tail(seeding.todo) \in Seq(Range(ADRS))
    BY <1>0, <1>2, <1>4 DEF seed_adr
  <2>2. seeding' \in SeedingRun /\ ~seeding'.absent
    BY <1>4, <2>1 DEF seed_adr, SeedingRun
  <2>3. adrs' \in [Range(ADRS) -> {"none", "stub", "human"}]
    BY <1>4, <2>1 DEF seed_adr, TypeOK
  <2> QED BY <1>4, <2>2, <2>3 DEF seed_adr, TypeOK, SeedingRun
<1> QED BY <1>1, <1>3, <1>4

\* apply_recon.py
LEMMA ReconIsTyped ==
  ASSUME TypeOK, apply_recon \/ recon_reads \/ recon_writes
  PROVE  TypeOK'
<1>0. recon \in ReconRun
  BY DEF TypeOK, ReconRun
<1>1. CASE apply_recon
  <2>1. recon' \in ReconRun /\ recon'.text = None
    BY <1>1, ListsAreSequences DEF apply_recon, ReconRun
  <2> QED BY <1>1, <2>1 DEF apply_recon, TypeOK, ReconRun
<1>2. CASE recon_reads
  <2> DEFINE s == Head(recon.todo)
  <2>1. recon.todo # <<>> /\ recon.text = None /\ recon.todo \in Seq(Slugs)
    BY <1>0, <1>2 DEF recon_reads, ReconRun
  <2>2. s \in Slugs /\ Tail(recon.todo) \in Seq(Slugs)
    BY <2>1
  <2>3. recon' \in ReconRun /\ (recon'.text # None => recon'.todo # <<>>)
    <3>1. CASE facts[s] = None
      <4>1. recon' = [recon EXCEPT !.todo = Tail(recon.todo)]
        BY <1>2, <3>1 DEF recon_reads
      <4> QED BY <1>0, <2>1, <2>2, <4>1 DEF ReconRun
    <3>2. CASE facts[s] # None
      <4>1. recon' = [recon EXCEPT !.text = facts[s]] /\ facts[s] \in Fact
        BY <1>2, <2>2, <3>2 DEF recon_reads, TypeOK
      <4> QED BY <1>0, <2>1, <4>1 DEF ReconRun
    <3> QED BY <3>1, <3>2
  <2> QED BY <1>2, <2>3 DEF recon_reads, TypeOK, ReconRun
<1>3. CASE recon_writes
  <2> DEFINE s == Head(recon.todo)
  <2>1. recon.text \in Fact /\ recon.todo # <<>> /\ recon.todo \in Seq(Slugs)
    BY <1>0, <1>3 DEF recon_writes, TypeOK, ReconRun
  <2>2. s \in Slugs /\ Tail(recon.todo) \in Seq(Slugs)
    BY <2>1
  <2>3. Reconned(s, recon.text) \in Fact
    BY <2>1, <2>2, ReconnedFields
  <2>4. facts' \in [Slugs -> Fact \cup {None}]
    BY <1>3, <2>3 DEF recon_writes, TypeOK
  <2>5. recon' \in ReconRun /\ recon'.text = None
    BY <1>3, <2>2 DEF recon_writes, ReconRun
  <2>6. touched' \subseteq Slugs \cup {"open-questions.md"}
    BY <1>3, <2>2, TypedTouches DEF recon_writes
  <2> QED BY <1>3, <2>4, <2>5, <2>6 DEF recon_writes, TypeOK, ReconRun
<1> QED BY <1>1, <1>2, <1>3

\* `make check`: check and matrix alone change, and touched where a run begins or ends.
LEMMA CheckIsTyped ==
  ASSUME TypeOK, check' \in CheckRun, matrix' \in Columns, touched' \in {touched, {}},
         check'.pc = "write matrix" => check'.built \in Columns,
         UNCHANGED <<facts, teardown, rows, adrs, scaffold, seeding, recon, edits,
                   overtaken, relaid>>
  PROVE  TypeOK'
BY DEF TypeOK, CheckRun

\* A step of the run changes a field or two of its record.
LEMMA CheckFields ==
  ASSUME NEW c \in CheckRun
  PROVE  /\ \A x \in {"idle", "validate", "matrix", "write matrix", "exit"} :
              [c EXCEPT !.pc = x] \in CheckRun
         /\ \A x \in SUBSET Slugs : [c EXCEPT !.listed = x] \in CheckRun
         /\ \A x \in SUBSET Slugs : [c EXCEPT !.todo = x] \in CheckRun
         /\ \A x \in (SUBSET Rows) \cup {None} : [c EXCEPT !.oq = x] \in CheckRun
         /\ \A x \in BOOLEAN : [c EXCEPT !.fails = x] \in CheckRun
         /\ \A x \in Columns \cup {None} : [c EXCEPT !.built = x] \in CheckRun
         /\ \A x \in BOOLEAN : [c EXCEPT !.green = x] \in CheckRun
BY DEF CheckRun

\* The record that each step leaves.
Began     == [NoCheck EXCEPT !.pc = "validate", !.listed = There, !.todo = There]
Failed(s) == \/ check.fails \/ Errors(facts[s])
             \/ Warnings(s, facts[s], IF Cached(facts[s]) = None THEN {} ELSE Cached(facts[s]))
Went(s)   == [check EXCEPT !.todo = check.todo \ {s}, !.oq = Cached(facts[s]), !.fails = Failed(s)]
Drawn     == [s \in Slugs |-> IF facts[s] = None THEN None ELSE Column(facts[s])]
Built     == [check EXCEPT !.pc = "write matrix", !.built = Drawn]
Written   == [check EXCEPT !.pc = "exit", !.built = None]
Passed    == [check EXCEPT !.pc = "idle", !.green = TRUE]

LEMMA CheckRecords ==
  ASSUME TypeOK
  PROVE  /\ Began \in CheckRun /\ Built \in CheckRun /\ Written \in CheckRun /\ Passed \in CheckRun
         /\ [check EXCEPT !.pc = "matrix"] \in CheckRun
         /\ \A s \in Slugs : Went(s) \in CheckRun
         /\ Drawn \in Columns
<1>1. check \in CheckRun /\ rows \subseteq Rows /\ None \in Columns \cup {None}
  BY DEF TypeOK, CheckRun
<1>2. Began \in CheckRun
  <2>1. There \in SUBSET Slugs
    BY DEF There
  <2> DEFINE there == There
  <2> HIDE DEF there
  <2>2. Began = [[[NoCheck EXCEPT !.pc = "validate"] EXCEPT !.listed = there] EXCEPT !.todo = there]
    BY DEF Began, there
  <2>3. [NoCheck EXCEPT !.pc = "validate"] \in CheckRun
    BY NothingRuns, CheckFields
  <2>4. [[NoCheck EXCEPT !.pc = "validate"] EXCEPT !.listed = there] \in CheckRun
    BY <2>1, <2>3, CheckFields DEF there
  <2> QED BY <2>1, <2>2, <2>4, CheckFields DEF there
<1>3. Drawn \in Columns
  <2>1. ASSUME NEW s \in Slugs, facts[s] # None
        PROVE  Column(facts[s]) \in [PROBES -> Verdicts \cup {"maybe"}]
    <3>1. facts[s] \in Fact
      BY <2>1 DEF TypeOK
    <3>2. \A p \in PROBES : facts[s].probes[p].verdict \in Verdicts \cup {"maybe"}
      BY <3>1, FactFields DEF Entry
    <3> QED BY <3>2 DEF Column
  <2> QED BY <2>1 DEF Drawn, Columns
<1>4. Built \in CheckRun
  <2>1. Built = [[check EXCEPT !.pc = "write matrix"] EXCEPT !.built = Drawn]
    BY DEF Built
  <2>2. [check EXCEPT !.pc = "write matrix"] \in CheckRun
    BY <1>1, CheckFields
  <2> QED BY <1>3, <2>1, <2>2, CheckFields
<1>5. Written \in CheckRun
  <2>1. Written = [[check EXCEPT !.pc = "exit"] EXCEPT !.built = None]
    BY DEF Written
  <2>2. [check EXCEPT !.pc = "exit"] \in CheckRun
    BY <1>1, CheckFields
  <2> QED BY <1>1, <2>1, <2>2, CheckFields
<1>6. Passed \in CheckRun
  <2>1. Passed = [[check EXCEPT !.pc = "idle"] EXCEPT !.green = TRUE]
    BY DEF Passed
  <2>2. [check EXCEPT !.pc = "idle"] \in CheckRun
    BY <1>1, CheckFields
  <2> QED BY <2>1, <2>2, CheckFields
<1>7. [check EXCEPT !.pc = "matrix"] \in CheckRun
  BY <1>1, CheckFields
<1>8. ASSUME NEW s \in Slugs PROVE Went(s) \in CheckRun
  <2>1. /\ check.todo \ {s} \in SUBSET Slugs
        /\ Cached(facts[s]) \in (SUBSET Rows) \cup {None}
        /\ Failed(s) \in BOOLEAN
    <3>1. check.todo \in SUBSET Slugs /\ check.oq \in (SUBSET Rows) \cup {None}
      BY <1>1 DEF CheckRun
    <3> QED BY <1>1, <3>1 DEF Cached, Failed
  <2> DEFINE todo == check.todo \ {s}
             oq == Cached(facts[s])
             fails == Failed(s)
  <2>2. Went(s) = [check EXCEPT !.todo = todo, !.oq = oq, !.fails = fails]
    BY DEF Went
  <2> HIDE DEF todo, oq, fails
  <2>3. Went(s) = [[[check EXCEPT !.todo = todo] EXCEPT !.oq = oq] EXCEPT !.fails = fails]
    BY <2>2
  <2>4. [check EXCEPT !.todo = todo] \in CheckRun
    BY <1>1, <2>1, CheckFields DEF todo
  <2>5. [[check EXCEPT !.todo = todo] EXCEPT !.oq = oq] \in CheckRun
    BY <2>1, <2>4, CheckFields DEF oq
  <2> QED BY <2>1, <2>3, <2>5, CheckFields DEF fails
<1> QED BY <1>2, <1>3, <1>4, <1>5, <1>6, <1>7, <1>8

LEMMA RecordFields ==
  ASSUME TypeOK
  PROVE  /\ Began.pc = "validate" /\ Began.listed = There /\ Began.todo = There /\ Began.oq = None
         /\ ~Began.fails /\ ~Began.green
         /\ \A s \in Slugs : /\ Went(s).pc = check.pc /\ Went(s).listed = check.listed
                             /\ Went(s).todo = check.todo \ {s} /\ Went(s).oq = Cached(facts[s])
                             /\ Went(s).fails = Failed(s) /\ Went(s).green = check.green
                             /\ Went(s).built = check.built
         /\ Built.pc = "write matrix" /\ Built.built = Drawn /\ Built.listed = check.listed
         /\ Built.oq = check.oq /\ Built.green = check.green
         /\ Written.pc = "exit" /\ Written.listed = check.listed
         /\ Written.oq = check.oq /\ Written.green = check.green
         /\ Passed.pc = "idle" /\ Passed.listed = check.listed
         /\ Passed.oq = check.oq /\ Passed.green
<1>1. check \in CheckRun
  BY DEF TypeOK, CheckRun
<1>2. /\ Began.pc = "validate" /\ Began.listed = There /\ Began.todo = There /\ Began.oq = None
      /\ ~Began.fails /\ ~Began.green
  BY DEF Began, NoCheck
<1>3. ASSUME NEW s \in Slugs
      PROVE  /\ Went(s).pc = check.pc /\ Went(s).listed = check.listed
             /\ Went(s).todo = check.todo \ {s} /\ Went(s).oq = Cached(facts[s])
             /\ Went(s).fails = Failed(s) /\ Went(s).green = check.green
             /\ Went(s).built = check.built
  <2> DEFINE todo == check.todo \ {s}
             oq == Cached(facts[s])
             fails == Failed(s)
  <2>1. Went(s) = [check EXCEPT !.todo = todo, !.oq = oq, !.fails = fails]
    BY DEF Went
  <2> HIDE DEF todo, oq, fails
  <2>2. /\ Went(s).pc = check.pc /\ Went(s).listed = check.listed
        /\ Went(s).todo = todo /\ Went(s).oq = oq
        /\ Went(s).fails = fails /\ Went(s).green = check.green
        /\ Went(s).built = check.built
    BY <1>1, <2>1 DEF CheckRun
  <2> QED BY <2>2 DEF todo, oq, fails
<1>4. /\ Built.pc = "write matrix" /\ Built.built = Drawn /\ Built.listed = check.listed
      /\ Built.oq = check.oq /\ Built.green = check.green
  BY <1>1 DEF Built, CheckRun
<1>5. /\ Written.pc = "exit" /\ Written.listed = check.listed
      /\ Written.oq = check.oq /\ Written.green = check.green
  BY <1>1 DEF Written, CheckRun
<1>6. /\ Passed.pc = "idle" /\ Passed.listed = check.listed
      /\ Passed.oq = check.oq /\ Passed.green
  BY <1>1 DEF Passed, CheckRun
<1> QED BY <1>2, <1>3, <1>4, <1>5, <1>6

\* What each step of `make check` does to the run.
LEMMA CheckSteps ==
  /\ check_starts => check' = Began
  /\ \A s \in Slugs : validate(s) => check' = Went(s) /\ touched' = touched /\ matrix' = matrix
  /\ validated => \/ Stops
                  \/ /\ ~check.fails /\ check' = [check EXCEPT !.pc = "matrix"]
                     /\ touched' = touched /\ matrix' = matrix
  /\ build => \/ Stops
              \/ check' = Built /\ touched' = touched /\ matrix' = matrix
  /\ write_matrix => check' = Written /\ matrix' = check.built /\ touched' = touched
  /\ check_exit_criteria => \/ Stops
                            \/ check' = Passed /\ touched' = touched /\ matrix' = matrix
<1>1. check_starts => check' = Began
  BY DEF check_starts, Checks, Began, There
<1>2. ASSUME NEW s \in Slugs, validate(s)
      PROVE  check' = Went(s) /\ touched' = touched /\ matrix' = matrix
  BY <1>2 DEF validate, Checks, Went, Failed
<1>3. validated => \/ Stops
                   \/ /\ ~check.fails /\ check' = [check EXCEPT !.pc = "matrix"]
                      /\ touched' = touched /\ matrix' = matrix
  BY DEF validated, Checks
<1>4. build => \/ Stops
               \/ check' = Built /\ touched' = touched /\ matrix' = matrix
  BY DEF build, Checks, Built, Drawn
<1>5. write_matrix => check' = Written /\ matrix' = check.built /\ touched' = touched
  BY DEF write_matrix, Checks, Written
<1>6. check_exit_criteria => \/ Stops
                             \/ check' = Passed /\ touched' = touched /\ matrix' = matrix
  BY DEF check_exit_criteria, Checks, Passed
<1> QED BY <1>1, <1>2, <1>3, <1>4, <1>5, <1>6

MakeCheck == check_starts \/ (\E s \in Slugs : validate(s)) \/ validated \/ build
             \/ write_matrix \/ check_exit_criteria

LEMMA MakeCheckFrame ==
  ASSUME MakeCheck
  PROVE  UNCHANGED <<facts, teardown, rows, adrs, scaffold, seeding, recon, edits,
                   overtaken, relaid>>
<1>1. CASE check_starts
  BY <1>1 DEF check_starts, Checks
<1>2. CASE \E s \in Slugs : validate(s)
  BY <1>2 DEF validate, Checks
<1>3. CASE validated
  BY <1>3 DEF validated, Stops, Checks
<1>4. CASE build
  BY <1>4 DEF build, Stops, Checks
<1>5. CASE write_matrix
  BY <1>5 DEF write_matrix, Checks
<1>6. CASE check_exit_criteria
  BY <1>6 DEF check_exit_criteria, Stops, Checks
<1> QED BY <1>1, <1>2, <1>3, <1>4, <1>5, <1>6 DEF MakeCheck

LEMMA StopsFields == Stops => check' = NoCheck /\ touched' = {} /\ matrix' = matrix
BY DEF Stops, Checks

LEMMA MakeCheckIsTyped ==
  ASSUME TypeOK, MakeCheck
  PROVE  TypeOK'
<1>1. check \in CheckRun /\ matrix \in Columns /\ touched \in {touched, {}}
  BY DEF TypeOK, CheckRun
<1>2. CASE check_starts
  <2>1. matrix' = matrix /\ touched' = {}
    BY <1>2 DEF check_starts
  <2> QED BY <1>1, <1>2, <2>1, CheckSteps, CheckRecords, RecordFields, MakeCheckFrame, CheckIsTyped
<1>3. ASSUME NEW s \in Slugs, validate(s) PROVE TypeOK'
  <2>1. check.pc = "validate"
    BY <1>3 DEF validate
  <2> QED BY <1>1, <1>3, <2>1, CheckSteps, CheckRecords, RecordFields, MakeCheckFrame, CheckIsTyped
<1>4. CASE Stops
  BY <1>1, <1>4, StopsFields, NothingRuns, MakeCheckFrame, CheckIsTyped
<1>5. CASE validated
  <2>1. [check EXCEPT !.pc = "matrix"].pc = "matrix"
    BY <1>1 DEF CheckRun
  <2> QED BY <1>1, <1>4, <1>5, <2>1, CheckSteps, CheckRecords, MakeCheckFrame, CheckIsTyped
<1>6. CASE build
  BY <1>1, <1>4, <1>6, CheckSteps, CheckRecords, RecordFields, MakeCheckFrame, CheckIsTyped
<1>7. CASE write_matrix
  <2>1. check.built \in Columns
    BY <1>7 DEF write_matrix, TypeOK
  <2> QED BY <1>1, <1>7, <2>1, CheckSteps, CheckRecords, RecordFields, MakeCheckFrame, CheckIsTyped
<1>8. CASE check_exit_criteria
  BY <1>1, <1>4, <1>8, CheckSteps, CheckRecords, RecordFields, MakeCheckFrame, CheckIsTyped
<1> QED BY <1>2, <1>3, <1>5, <1>6, <1>7, <1>8 DEF MakeCheck

\* The author, and Ctrl-C.
LEMMA AuthorIsTyped ==
  ASSUME TypeOK,
         \/ \E s \in Slugs : edit_facts(s) \/ edit_teardown(s)
         \/ edit_questions
         \/ \E a \in Range(ADRS) : edit_adr(a)
  PROVE  TypeOK'
<1>1. ASSUME Edits
      PROVE  /\ UNCHANGED <<matrix, scaffold, seeding, recon, check>>
             /\ edits' \in 0..MaxEdits
  <2>1. edits \in 0..MaxEdits
    BY DEF TypeOK
  <2>2. edits < MaxEdits /\ edits' = edits + 1
    BY <1>1 DEF Edits
  <2>3. edits' \in 0..MaxEdits
    BY <2>1, <2>2, BoundsAreNumbers
  <2> QED BY <1>1, <2>3 DEF Edits
<1>2. ASSUME NEW s \in Slugs, edit_facts(s) PROVE TypeOK'
  <2>1. facts \in [Slugs -> Fact \cup {None}] /\ overtaken' \in BOOLEAN
    BY <1>2 DEF edit_facts, IsNext, TypeOK
  <2>2. PICK draft \in Drafts(s) :
          \/ \E f \in AuthorWrites(s, draft) : facts' = [facts EXCEPT ![s] = f]
          \/ \E f \in AuthorLaysOut(s, draft) : facts' = [facts EXCEPT ![s] = f]
    BY <1>2 DEF edit_facts
  <2>3. \E f \in Fact : facts' = [facts EXCEPT ![s] = f]
    BY <2>2, DraftsAreFacts, AuthorsFacts
  <2>4. facts' \in [Slugs -> Fact \cup {None}]
    BY <2>1, <2>3
  <2>5. Edits /\ Touches(s) /\ UNCHANGED <<teardown, rows, adrs>> /\ relaid' \subseteq relaid \cup {s}
    BY <1>2 DEF edit_facts
  <2>6. touched' \subseteq Slugs \cup {"open-questions.md"}
    BY <2>5, TypedTouches
  <2> QED BY <1>1, <2>1, <2>4, <2>5, <2>6 DEF TypeOK
<1>3. ASSUME NEW s \in Slugs, edit_teardown(s) PROVE TypeOK'
  <2>1. Edits /\ Touches(s) /\ UNCHANGED <<facts, rows, adrs, relaid>> /\ overtaken' \in BOOLEAN
    BY <1>3 DEF edit_teardown, IsNext, TypeOK
  <2>2. teardown' \in [Slugs -> {"none", "stub", "human"}]
    <3>1. \E t \in {"none", "human"} : teardown' = [teardown EXCEPT ![s] = t]
      BY <1>3 DEF edit_teardown
    <3>2. teardown \in [Slugs -> {"none", "stub", "human"}]
      BY DEF TypeOK
    <3> QED BY <3>1, <3>2
  <2>3. touched' \subseteq Slugs \cup {"open-questions.md"}
    BY <2>1, TypedTouches
  <2> QED BY <1>1, <2>1, <2>2, <2>3 DEF TypeOK
<1>4. CASE edit_questions
  <2>1. /\ Edits /\ Touches("open-questions.md") /\ UNCHANGED <<facts, teardown, adrs, overtaken, relaid>>
        /\ rows' \subseteq Rows
    BY <1>4 DEF edit_questions, TypeOK
  <2>2. touched' \subseteq Slugs \cup {"open-questions.md"}
    BY <2>1, TypedTouches
  <2> QED BY <1>1, <2>1, <2>2 DEF TypeOK
<1>5. ASSUME NEW a \in Range(ADRS), edit_adr(a) PROVE TypeOK'
  <2>1. /\ Edits /\ UNCHANGED <<facts, teardown, rows, touched, relaid>>
        /\ adrs' \in [Range(ADRS) -> {"none", "stub", "human"}] /\ overtaken' \in BOOLEAN
    BY <1>5 DEF edit_adr, TypeOK
  <2> QED BY <1>1, <2>1 DEF TypeOK
<1> QED BY <1>2, <1>3, <1>4, <1>5

LEMMA StillTyped ==
  ASSUME TypeOK, UNCHANGED vars
  PROVE  TypeOK'
<1>1. /\ facts' = facts /\ teardown' = teardown /\ rows' = rows /\ adrs' = adrs /\ matrix' = matrix
      /\ scaffold' = scaffold /\ seeding' = seeding /\ recon' = recon /\ check' = check
      /\ edits' = edits /\ touched' = touched /\ overtaken' = overtaken /\ relaid' = relaid
  BY DEF vars
<1>2. check' \in CheckRun /\ (check'.pc = "write matrix" => check'.built \in Columns)
  BY <1>1 DEF TypeOK, CheckRun
<1>3. /\ recon' \in ReconRun /\ (recon'.text # None => recon'.todo # <<>>)
      /\ seeding' \in SeedingRun /\ (seeding'.absent => seeding'.todo # <<>>)
  BY <1>1 DEF TypeOK, ReconRun, SeedingRun
<1>4. scaffold' \in ScaffoldRun \cup {NoScaffold} /\ (scaffold'.absent => scaffold'.todo # <<>>)
  BY <1>1 DEF TypeOK, ScaffoldRun, Files
<1>5. /\ facts' \in [Slugs -> Fact \cup {None}] /\ teardown' \in [Slugs -> {"none", "stub", "human"}]
      /\ rows' \subseteq Rows /\ adrs' \in [Range(ADRS) -> {"none", "stub", "human"}]
      /\ matrix' \in Columns /\ edits' \in 0..MaxEdits /\ relaid' \subseteq Slugs
      /\ touched' \subseteq Slugs \cup {"open-questions.md"} /\ overtaken' \in BOOLEAN
  BY <1>1 DEF TypeOK
<1> QED BY <1>2, <1>3, <1>4, <1>5 DEF TypeOK, CheckRun, ReconRun, SeedingRun, ScaffoldRun, Files

LEMMA StepIsTyped == TypeOK /\ [Next]_vars => TypeOK'
<1> SUFFICES ASSUME TypeOK, [Next]_vars PROVE TypeOK'
  OBVIOUS
<1>1. CASE interrupted
  BY <1>1, NothingRuns DEF interrupted, TypeOK, ReconRun, SeedingRun
<1>2. CASE UNCHANGED vars
  BY <1>2, StillTyped
<1>3. CASE \/ \E s \in Slugs, d \in PlannedDepths : \E n \in DisplayNames[s] : new_project(s, n, d)
           \/ scaffold_looks \/ scaffold_file
  BY <1>3, ScaffoldIsTyped
<1>4. CASE seed_adrs \/ seed_looks \/ seed_adr
  BY <1>4, SeedingIsTyped
<1>5. CASE apply_recon \/ recon_reads \/ recon_writes
  BY <1>5, ReconIsTyped
<1>6. CASE MakeCheck
  BY <1>6, MakeCheckIsTyped
<1>7. CASE \/ \E s \in Slugs : edit_facts(s) \/ edit_teardown(s)
           \/ edit_questions
           \/ \E a \in Range(ADRS) : edit_adr(a)
  BY <1>7, AuthorIsTyped
<1> QED BY <1>1, <1>2, <1>3, <1>4, <1>5, <1>6, <1>7 DEF Next, MakeCheck

\* In every reachable state the variables have their types: a project's files are well
\* formed records, and the runs of the tools work on files and slugs that there are.
THEOREM TypeCorrect == Spec => []TypeOK
BY InitIsTyped, StepIsTyped, PTL DEF Spec

----------------------------------------------------------------------------
(* What the tools leave of the author's work. *)

\* apply_recon run again on a file it has made changes nothing, whatever the author and the
\* other tools did to the file before, just when it had nothing to append behind another line.
THEOREM ReconRunsAgain == Spec => []ReconIdempotent
<1>1. TypeOK => ReconIdempotent
  BY ReconTwice DEF TypeOK, ReconIdempotent
<1> QED BY <1>1, TypeCorrect, PTL

\* A file whose layout the author kept is clean, and so is the text apply_recon has read of it.
FilesAreClean ==
  /\ \A s \in Slugs : facts[s] # None /\ s \notin relaid => Clean(facts[s])
  /\ recon.text # None /\ Head(recon.todo) \notin relaid => Clean(recon.text)

LEMMA FilesStayClean == TypeOK /\ FilesAreClean /\ [Next]_vars => FilesAreClean'
<1> SUFFICES ASSUME TypeOK, FilesAreClean, [Next]_vars PROVE FilesAreClean'
  OBVIOUS
<1>0. facts \in [Slugs -> Fact \cup {None}]
  BY DEF TypeOK
\* What a step does to the files and to the text read.
<1>1. CASE UNCHANGED <<facts, recon, relaid>>
  BY <1>1 DEF FilesAreClean
<1>2. CASE UNCHANGED <<facts, relaid>> /\ recon'.text = None
  BY <1>2 DEF FilesAreClean
<1>3. ASSUME NEW s \in Slugs, NEW f \in Fact, facts' = [facts EXCEPT ![s] = f],
             relaid \subseteq relaid', recon' = recon \/ recon'.text = None,
             s \notin relaid' => Clean(f)
      PROVE  FilesAreClean'
  <2>1. ASSUME NEW t \in Slugs, facts'[t] # None, t \notin relaid' PROVE Clean(facts'[t])
    <3>1. CASE t = s
      BY <1>0, <1>3, <2>1, <3>1
    <3>2. CASE t # s
      BY <1>0, <1>3, <2>1, <3>2 DEF FilesAreClean
    <3> QED BY <3>1, <3>2
  <2>2. ASSUME recon'.text # None, Head(recon'.todo) \notin relaid' PROVE Clean(recon'.text)
    BY <1>3, <2>2 DEF FilesAreClean
  <2> QED BY <2>1, <2>2 DEF FilesAreClean
<1>4. CASE scaffold_file
  <2>1. relaid' = relaid /\ recon' = recon
    BY <1>4 DEF scaffold_file
  <2>2. \/ facts' = facts
        \/ facts' = [facts EXCEPT ![scaffold.slug] = facts_stub(scaffold.name, scaffold.depth)]
    BY <1>4 DEF scaffold_file
  <2>3. /\ scaffold.slug \in Slugs /\ scaffold.name \in {"plain", "breaks"}
        /\ scaffold.depth \in Depths
    BY <1>4, ScaffoldRuns DEF scaffold_file
  <2> QED BY <1>1, <1>3, <2>1, <2>2, <2>3, StubIsClean
<1>5. CASE apply_recon \/ interrupted
  BY <1>2, <1>5 DEF apply_recon, interrupted, NoRecon
<1>6. CASE recon_reads
  <2> DEFINE s == Head(recon.todo)
  <2>1. recon \in ReconRun /\ recon.todo # <<>> /\ recon.text = None /\ UNCHANGED <<facts, relaid>>
    BY <1>6 DEF recon_reads, TypeOK, ReconRun
  <2>2. s \in Slugs
    BY <2>1 DEF ReconRun
  <2>3. CASE facts[s] = None
    <3>1. recon'.text = None
      BY <1>6, <2>1, <2>3 DEF recon_reads, ReconRun
    <3> QED BY <1>2, <2>1, <3>1
  <2>4. CASE facts[s] # None
    <3>1. recon'.todo = recon.todo /\ recon'.text = facts[s]
      BY <1>6, <2>1, <2>4 DEF recon_reads, ReconRun
    <3>2. Head(recon'.todo) = s
      BY <3>1
    <3> HIDE DEF s
    <3> QED BY <2>1, <2>2, <2>4, <3>1, <3>2 DEF FilesAreClean
  <2> QED BY <2>3, <2>4
<1>7. CASE recon_writes
  <2> DEFINE s == Head(recon.todo)
  <2>1. recon.text # None /\ recon.text \in Fact /\ s \in Slugs
    <3>1. recon.text # None /\ recon.text \in Fact /\ recon.todo # <<>> /\ recon.todo \in Seq(Slugs)
      BY <1>7 DEF recon_writes, TypeOK
    <3> QED BY <3>1
  <2>2. Reconned(s, recon.text) \in Fact
    BY <2>1, ReconnedFields
  <2>3. s \notin relaid => Clean(Reconned(s, recon.text))
    BY <2>1, ReconKeepsClean DEF FilesAreClean
  <2>4. facts' = [facts EXCEPT ![s] = Reconned(s, recon.text)] /\ relaid' = relaid /\ recon'.text = None
    BY <1>7 DEF recon_writes
  <2> HIDE DEF s
  <2> QED BY <1>3, <2>1, <2>2, <2>3, <2>4
<1>8. ASSUME NEW s \in Slugs, edit_facts(s) PROVE FilesAreClean'
  <2>1. recon' = recon
    BY <1>8 DEF edit_facts, Edits
  <2>2. PICK draft \in Drafts(s) :
          \/ /\ facts' \in {[facts EXCEPT ![s] = f] : f \in AuthorWrites(s, draft)}
             /\ UNCHANGED relaid
          \/ /\ facts' \in {[facts EXCEPT ![s] = f] : f \in AuthorLaysOut(s, draft)}
             /\ relaid' = relaid \cup {s}
    BY <1>8 DEF edit_facts
  <2>3. draft \in Fact /\ (s \notin relaid => Clean(draft))
    BY DraftsAreFacts DEF FilesAreClean
  <2>4. CASE facts' \in {[facts EXCEPT ![s] = f] : f \in AuthorWrites(s, draft)} /\ UNCHANGED relaid
    <3>1. PICK f \in AuthorWrites(s, draft) : facts' = [facts EXCEPT ![s] = f]
      BY <2>4
    <3>2. f \in Fact /\ (s \notin relaid => Clean(f))
      BY <2>3, AuthorsFacts
    <3> QED BY <1>3, <2>1, <2>4, <3>1, <3>2
  <2>5. CASE /\ facts' \in {[facts EXCEPT ![s] = f] : f \in AuthorLaysOut(s, draft)}
             /\ relaid' = relaid \cup {s}
    <3>1. PICK f \in AuthorLaysOut(s, draft) : facts' = [facts EXCEPT ![s] = f]
      BY <2>5
    <3>2. f \in Fact
      BY <2>3, AuthorsFacts
    <3> QED BY <1>3, <2>1, <2>5, <3>1, <3>2
  <2> QED BY <2>2, <2>4, <2>5
<1>9. CASE MakeCheck
  BY <1>1, <1>9, MakeCheckFrame
<1>10. ASSUME NEW s \in Slugs, NEW d \in PlannedDepths, NEW n \in DisplayNames[s], new_project(s, n, d)
      PROVE  FilesAreClean'
  BY <1>1, <1>10 DEF new_project
<1>11. CASE scaffold_looks \/ seed_adrs \/ seed_looks \/ seed_adr
  BY <1>1, <1>11 DEF scaffold_looks, seed_adrs, seed_looks, seed_adr
<1>12. CASE edit_questions \/ \E s \in Slugs : edit_teardown(s)
  BY <1>1, <1>12 DEF edit_questions, edit_teardown, Edits
<1>13. CASE \E a \in Range(ADRS) : edit_adr(a)
  BY <1>1, <1>13 DEF edit_adr, Edits
<1>14. CASE UNCHANGED vars
  BY <1>1, <1>14 DEF vars
<1> QED BY <1>4, <1>5, <1>6, <1>7, <1>8, <1>9, <1>10, <1>11, <1>12, <1>13, <1>14 DEF Next, MakeCheck

\* No order of the tools' runs, killed half way or run again between the author's edits, makes
\* a facts.yaml unreadable of which he kept the layout the stub has, and the name of which may
\* stand unquoted.
THEOREM FilesStayReadable == Spec => []ToolsKeepFilesReadable
<1>1. Init => FilesAreClean
  <2> SUFFICES ASSUME Init PROVE FilesAreClean
    OBVIOUS
  <2>1. \A s \in Slugs : facts[s] # None => Clean(facts[s])
    BY InitFiles, StubIsClean
  <2> QED BY <2>1 DEF Init, FilesAreClean, NoRecon
<1>2. FilesAreClean => ToolsKeepFilesReadable
  BY DEF FilesAreClean, Clean, Garbled, ToolsKeepFilesReadable
<1> QED BY <1>1, <1>2, TypeCorrect, FilesStayClean, PTL DEF Spec

\* While a run of new_project.py has files before it, no other tool that writes is running.
ScaffoldsAlone == scaffold.todo # <<>> => seeding = NoSeeding /\ recon = NoRecon

LEMMA StaysAlone == TypeOK /\ ScaffoldsAlone /\ [Next]_vars => ScaffoldsAlone'
<1> SUFFICES ASSUME TypeOK, ScaffoldsAlone, [Next]_vars PROVE ScaffoldsAlone'
  OBVIOUS
<1>1. CASE UNCHANGED <<scaffold, seeding, recon>>
  BY <1>1 DEF ScaffoldsAlone
<1>2. ASSUME NEW s \in Slugs, NEW d \in PlannedDepths, NEW n \in DisplayNames[s], new_project(s, n, d)
      PROVE  ScaffoldsAlone'
  BY <1>2 DEF new_project, NoTool, ScaffoldsAlone
<1>3. CASE scaffold_looks \/ scaffold_file
  <2>1. scaffold.todo # <<>>
    BY <1>3, ScaffoldRuns DEF scaffold_looks, scaffold_file
  <2> QED BY <1>3, <2>1 DEF scaffold_looks, scaffold_file, ScaffoldsAlone
<1>4. CASE seed_adrs \/ apply_recon
  <2>1. scaffold' = NoScaffold
    BY <1>4 DEF seed_adrs, apply_recon, NoTool
  <2> QED BY <2>1, NothingRuns DEF ScaffoldsAlone
<1>5. CASE seed_looks \/ seed_adr
  <2>1. seeding # NoSeeding /\ scaffold' = scaffold
    BY <1>5 DEF seed_looks, seed_adr, NoSeeding
  <2> QED BY <2>1 DEF ScaffoldsAlone
<1>6. CASE recon_reads \/ recon_writes
  <2>1. recon # NoRecon /\ scaffold' = scaffold
    BY <1>6 DEF recon_reads, recon_writes, NoRecon
  <2> QED BY <2>1 DEF ScaffoldsAlone
<1>7. CASE interrupted
  BY <1>7, NothingRuns DEF interrupted, ScaffoldsAlone
<1>8. CASE MakeCheck
  BY <1>1, <1>8, MakeCheckFrame
<1>9. CASE \/ edit_questions
           \/ \E s \in Slugs : edit_facts(s) \/ edit_teardown(s)
           \/ \E a \in Range(ADRS) : edit_adr(a)
  BY <1>1, <1>9 DEF edit_questions, edit_facts, edit_teardown, edit_adr, Edits
<1>10. CASE UNCHANGED vars
  BY <1>1, <1>10 DEF vars
<1> QED BY <1>2, <1>3, <1>4, <1>5, <1>6, <1>7, <1>8, <1>9, <1>10 DEF Next, MakeCheck

\* As long as the author has not overtaken it, the file that a tool is about to create is
\* not there.
AbsentIsAbsent ==
  ~overtaken =>
    /\ scaffold.absent => Missing(Head(scaffold.todo), scaffold.slug)
    /\ seeding.absent => adrs[Head(seeding.todo)] = "none"

LEMMA AbsentStaysAbsent == TypeOK /\ ScaffoldsAlone /\ AbsentIsAbsent /\ [Next]_vars => AbsentIsAbsent'
<1> SUFFICES ASSUME TypeOK, ScaffoldsAlone, AbsentIsAbsent, [Next]_vars PROVE AbsentIsAbsent'
  OBVIOUS
<1>0. /\ facts \in [Slugs -> Fact \cup {None}] /\ teardown \in [Slugs -> {"none", "stub", "human"}]
      /\ adrs \in [Range(ADRS) -> {"none", "stub", "human"}]
      /\ scaffold.absent => scaffold.todo # <<>>
  BY DEF TypeOK
<1>1. CASE UNCHANGED <<facts, teardown, adrs, scaffold, seeding, overtaken>>
  BY <1>1 DEF AbsentIsAbsent, Missing
<1>2. ASSUME ~scaffold'.absent,
             \/ ~seeding'.absent
             \/ UNCHANGED <<adrs, seeding, overtaken>>
      PROVE  AbsentIsAbsent'
  BY <1>2 DEF AbsentIsAbsent
<1>3. ASSUME NEW s \in Slugs, NEW d \in PlannedDepths, NEW n \in DisplayNames[s], new_project(s, n, d)
      PROVE  AbsentIsAbsent'
  <2>1. ~scaffold'.absent /\ UNCHANGED <<adrs, seeding, overtaken>>
    BY <1>3 DEF new_project
  <2> QED BY <1>2, <2>1
<1>4. CASE scaffold_looks
  <2>1. scaffold \in ScaffoldRun /\ scaffold.todo # <<>> /\ ~NextFile.absent
    BY <1>4, ScaffoldRuns DEF scaffold_looks
  <2>2. UNCHANGED <<facts, teardown, adrs, seeding, overtaken>>
    BY <1>4 DEF scaffold_looks
  <2>3. CASE Missing(Head(scaffold.todo), scaffold.slug)
    <3>1. scaffold' = [scaffold EXCEPT !.absent = TRUE]
      BY <1>4, <2>3 DEF scaffold_looks
    <3>2. scaffold'.todo = scaffold.todo /\ scaffold'.slug = scaffold.slug
      BY <2>1, <3>1 DEF ScaffoldRun
    <3>3. Missing(Head(scaffold.todo), scaffold.slug)'
      BY <2>2, <2>3, <3>2 DEF Missing
    <3> QED BY <2>2, <3>3 DEF AbsentIsAbsent
  <2>4. CASE ~Missing(Head(scaffold.todo), scaffold.slug)
    <3>1. scaffold' = NextFile
      BY <1>4, <2>4 DEF scaffold_looks
    <3> QED BY <1>2, <2>1, <2>2, <3>1
  <2> QED BY <2>3, <2>4
<1>5. CASE scaffold_file
  <2>1. ~scaffold'.absent /\ seeding' = seeding /\ scaffold.todo # <<>>
    BY <1>5, ScaffoldRuns DEF scaffold_file
  <2>2. ~seeding'.absent
    BY <2>1, NothingRuns DEF ScaffoldsAlone
  <2> QED BY <1>2, <2>1, <2>2
<1>6. CASE seed_adrs
  BY <1>2, <1>6, NothingRuns DEF seed_adrs, NoTool
<1>7. ASSUME seeding # NoSeeding \/ recon # NoRecon PROVE ~scaffold.absent
  BY <1>0, <1>7 DEF ScaffoldsAlone
<1>8. CASE seed_looks
  <2>1. ~scaffold.absent /\ UNCHANGED <<adrs, scaffold, overtaken>> /\ seeding \in SeedingRun
    <3>1. seeding # NoSeeding /\ UNCHANGED <<adrs, scaffold, overtaken>>
      BY <1>8 DEF seed_looks, NoSeeding
    <3>2. seeding \in SeedingRun
      BY DEF TypeOK, SeedingRun
    <3> QED BY <1>7, <3>1, <3>2
  <2>2. CASE adrs[Head(seeding.todo)] = "none"
    <3>1. seeding' = [seeding EXCEPT !.absent = TRUE]
      BY <1>8, <2>2 DEF seed_looks
    <3>2. seeding'.todo = seeding.todo
      BY <2>1, <3>1 DEF SeedingRun
    <3> QED BY <2>1, <2>2, <3>2 DEF AbsentIsAbsent
  <2>3. CASE adrs[Head(seeding.todo)] # "none"
    <3>1. seeding' = [seeding EXCEPT !.todo = Tail(seeding.todo)] /\ ~seeding.absent
      BY <1>8, <2>3 DEF seed_looks
    <3>2. ~seeding'.absent
      BY <2>1, <3>1 DEF SeedingRun
    <3> QED BY <1>2, <2>1, <3>2
  <2> QED BY <2>2, <2>3
<1>9. CASE seed_adr
  <2>1. seeding # NoSeeding /\ ~seeding'.absent /\ scaffold' = scaffold
    BY <1>9 DEF seed_adr, NoSeeding
  <2> QED BY <1>2, <1>7, <2>1
<1>10. CASE apply_recon \/ recon_reads
  BY <1>1, <1>10 DEF apply_recon, recon_reads
<1>11. CASE recon_writes
  <2>1. recon # NoRecon /\ UNCHANGED <<adrs, scaffold, seeding, overtaken>>
    BY <1>11 DEF recon_writes, NoRecon
  <2> QED BY <1>2, <1>7, <2>1
<1>12. CASE interrupted
  BY <1>2, <1>12, NothingRuns DEF interrupted
<1>13. ASSUME NEW s \in Slugs, edit_facts(s) PROVE AbsentIsAbsent'
  <2>1. /\ UNCHANGED <<teardown, adrs, scaffold, seeding>>
        /\ overtaken' = (overtaken \/ IsNext("facts.yaml", s))
    BY <1>13 DEF edit_facts, Edits
  <2>2. \A t \in Slugs \ {s} : facts'[t] = facts[t]
    BY <1>0, <1>13 DEF edit_facts
  <2>3. scaffold.absent => scaffold.slug \in Slugs /\ Head(scaffold.todo) \in Files
    BY ScaffoldRuns
  <2> QED BY <2>1, <2>2, <2>3 DEF AbsentIsAbsent, IsNext, Missing, Files
<1>14. ASSUME NEW s \in Slugs, edit_teardown(s) PROVE AbsentIsAbsent'
  <2>1. /\ UNCHANGED <<facts, adrs, scaffold, seeding>>
        /\ overtaken' = (overtaken \/ IsNext("teardown.md", s))
    BY <1>14 DEF edit_teardown, Edits
  <2>2. \A t \in Slugs \ {s} : teardown'[t] = teardown[t]
    BY <1>0, <1>14 DEF edit_teardown
  <2>3. scaffold.absent => scaffold.slug \in Slugs /\ Head(scaffold.todo) \in Files
    BY ScaffoldRuns
  <2> QED BY <2>1, <2>2, <2>3 DEF AbsentIsAbsent, IsNext, Missing, Files
<1>15. ASSUME NEW a \in Range(ADRS), edit_adr(a) PROVE AbsentIsAbsent'
  <2>1. /\ UNCHANGED <<facts, teardown, scaffold, seeding>>
        /\ overtaken' = (overtaken \/ (seeding.absent /\ Head(seeding.todo) = a))
        /\ \A b \in Range(ADRS) \ {a} : adrs'[b] = adrs[b]
    BY <1>0, <1>15 DEF edit_adr, Edits
  <2>2. seeding.absent => Head(seeding.todo) \in Range(ADRS)
    <3>1. seeding.todo \in Seq(Range(ADRS)) /\ (seeding.absent => seeding.todo # <<>>)
      BY DEF TypeOK
    <3> QED BY <3>1
  <2> QED BY <2>1, <2>2 DEF AbsentIsAbsent, Missing
<1>16. CASE edit_questions
  BY <1>1, <1>16 DEF edit_questions, Edits
<1>17. CASE MakeCheck
  BY <1>1, <1>17, MakeCheckFrame
<1>18. CASE UNCHANGED vars
  BY <1>1, <1>18 DEF vars
<1> QED BY <1>3, <1>4, <1>5, <1>6, <1>8, <1>9, <1>10, <1>11, <1>12, <1>13, <1>14, <1>15, <1>16,
           <1>17, <1>18 DEF Next, MakeCheck

\* One step of a tool.
Survives ==
  edits' = edits /\ ~overtaken =>
    /\ \A a \in Range(ADRS) : adrs[a] = "human" => adrs'[a] = "human"
    /\ \A s \in Slugs :
         /\ teardown[s] = "human" => teardown'[s] = "human"
         /\ facts[s] # None =>
              \/ facts'[s] = facts[s]
              \/ /\ recon.text # None /\ Head(recon.todo) = s
                 /\ ReconKeeps(s, recon.text, facts[s], facts'[s])

\* Of a file, apply_recon keeps what it neither sets itself nor finds changed.
LEMMA ReconKeepsItems ==
  ASSUME NEW s \in Slugs, NEW text \in Fact, NEW file \in Fact
  PROVE  ReconKeeps(s, text, file, Reconned(s, text))
<1> DEFINE new == Reconned(s, text)
           v   == ReconVerdict(RECON[s])
<1>1. /\ new.name = text.name /\ new.valid = text.valid
      /\ \A p \in PROBES : new.probes[p] = IF p \in Hits(s) THEN set_probe(text.probes[p], v[p])
                                           ELSE text.probes[p]
  BY ReconnedFields
<1>2. ASSUME NEW p \in PROBES
      PROVE  \/ new.probes[p] = file.probes[p] \/ text.probes[p] # file.probes[p]
             \/ p \in DOMAIN v /\ file.probes[p].form # "note"
  <2>1. text.probes[p] \in Entry
    BY FactFields
  <2>2. CASE p \in Hits(s) /\ text.probes[p] = file.probes[p] /\ file.probes[p].form = "note"
    <3>1. v[p] \in Verdicts
      BY <2>2, VerdictsOfRecon DEF Hits
    <3>2. set_probe(text.probes[p], v[p]) = text.probes[p]
      BY <2>1, <2>2, <3>1, ReplacedEntry
    <3> QED BY <1>1, <2>2, <3>2
  <2>3. CASE p \notin Hits(s)
    BY <1>1, <2>3
  <2> QED BY <2>2, <2>3 DEF Hits
<1> HIDE DEF new
<1>3. ReconKeeps(s, text, file, new)
  BY <1>1, <1>2 DEF ReconKeeps
<1> QED BY <1>3 DEF new

LEMMA StepSpares == TypeOK /\ ScaffoldsAlone /\ AbsentIsAbsent /\ [Next]_vars => Survives
<1> SUFFICES ASSUME TypeOK, AbsentIsAbsent, [Next]_vars PROVE Survives
  OBVIOUS
<1>1. /\ facts \in [Slugs -> Fact \cup {None}] /\ teardown \in [Slugs -> {"none", "stub", "human"}]
      /\ adrs \in [Range(ADRS) -> {"none", "stub", "human"}]
  BY DEF TypeOK
<1>2. CASE UNCHANGED <<facts, teardown, adrs>>
  BY <1>2 DEF Survives
<1>3. CASE scaffold_file
  <2> DEFINE s == scaffold.slug
             stub == facts_stub(scaffold.name, scaffold.depth)
  <2>1. adrs' = adrs /\ scaffold.absent
    BY <1>3 DEF scaffold_file
  <2>2. \/ Head(scaffold.todo) = "facts.yaml" /\ facts' = [facts EXCEPT ![s] = stub]
             /\ teardown' = teardown
        \/ Head(scaffold.todo) = "teardown.md" /\ teardown' = [teardown EXCEPT ![s] = "stub"]
             /\ facts' = facts
    BY <1>3 DEF scaffold_file
  <2>3. ASSUME ~overtaken
        PROVE  /\ \A t \in Slugs : facts[t] # None => facts'[t] = facts[t]
               /\ \A t \in Slugs : teardown[t] = "human" => teardown'[t] = "human"
    <3>1. Missing(Head(scaffold.todo), s)
      BY <2>1, <2>3 DEF AbsentIsAbsent
    <3> HIDE DEF s, stub
    <3> QED BY <1>1, <2>2, <3>1 DEF Missing
  <2> QED BY <2>1, <2>3 DEF Survives
<1>4. CASE seed_adr
  <2>1. UNCHANGED <<facts, teardown>>
    BY <1>4 DEF seed_adr
  <2>2. ~overtaken => \A a \in Range(ADRS) : adrs[a] = "human" => adrs'[a] = "human"
    BY <1>1, <1>4 DEF seed_adr, AbsentIsAbsent
  <2> QED BY <2>1, <2>2 DEF Survives
<1>5. CASE recon_writes
  <2> DEFINE s == Head(recon.todo)
  <2>1. recon.text # None /\ recon.text \in Fact /\ s \in Slugs
    <3>1. recon.text # None /\ recon.text \in Fact /\ recon.todo # <<>> /\ recon.todo \in Seq(Slugs)
      BY <1>5 DEF recon_writes, TypeOK
    <3> QED BY <3>1
  <2>2. facts' = [facts EXCEPT ![s] = Reconned(s, recon.text)] /\ UNCHANGED <<teardown, adrs>>
    BY <1>5 DEF recon_writes
  <2>3. \A t \in Slugs : t # s => facts'[t] = facts[t]
    BY <1>1, <2>2
  <2>4. facts'[s] = Reconned(s, recon.text)
    BY <1>1, <2>1, <2>2
  <2> HIDE DEF s
  <2>5. facts[s] # None => ReconKeeps(s, recon.text, facts[s], facts'[s])
    BY <1>1, <2>1, <2>4, ReconKeepsItems
  <2>6. s = Head(recon.todo)
    BY DEF s
  <2> QED BY <2>1, <2>2, <2>3, <2>5, <2>6 DEF Survives
<1>6. ASSUME Edits PROVE Survives
  <2>1. edits \in 0..MaxEdits /\ edits' = edits + 1
    BY <1>6 DEF Edits, TypeOK
  <2>2. edits' # edits
    BY <2>1, BoundsAreNumbers
  <2> QED BY <2>2 DEF Survives
<1>7. CASE MakeCheck
  BY <1>2, <1>7, MakeCheckFrame
<1>8. ASSUME NEW s \in Slugs, NEW d \in PlannedDepths, NEW n \in DisplayNames[s], new_project(s, n, d)
      PROVE  Survives
  BY <1>2, <1>8 DEF new_project
<1>9. CASE \/ scaffold_looks \/ seed_adrs \/ seed_looks
           \/ apply_recon \/ recon_reads \/ interrupted
  BY <1>2, <1>9 DEF scaffold_looks, seed_adrs, seed_looks, apply_recon, recon_reads, interrupted
<1>10. CASE edit_questions \/ \E s \in Slugs : edit_facts(s) \/ edit_teardown(s)
  BY <1>6, <1>10 DEF edit_questions, edit_facts, edit_teardown
<1>11. CASE \E a \in Range(ADRS) : edit_adr(a)
  BY <1>6, <1>11 DEF edit_adr
<1>12. CASE UNCHANGED vars
  BY <1>2, <1>12 DEF vars
<1> QED BY <1>3, <1>4, <1>5, <1>7, <1>8, <1>9, <1>10, <1>11, <1>12 DEF Next, MakeCheck

\* No step of a tool takes anything the author wrote, but apply_recon its own fields and probes
\* and what he wrote since it read the file, and a tool that is about to create a file, one
\* that he has made since it looked.
THEOREM AuthorsWorkStays == Spec => HumanWorkSurvives
<1>1. Init => ScaffoldsAlone /\ AbsentIsAbsent
  BY NothingRuns DEF Init, ScaffoldsAlone, AbsentIsAbsent
<1>2. TypeOK /\ ScaffoldsAlone /\ AbsentIsAbsent /\ [Next]_vars => [Survives]_vars
  BY StepSpares
<1>3. Spec => [](TypeOK /\ ScaffoldsAlone /\ AbsentIsAbsent)
  BY <1>1, TypeCorrect, StaysAlone, AbsentStaysAbsent, PTL DEF Spec
<1> QED BY <1>2, <1>3, PTL DEF Spec, HumanWorkSurvives, Survives

----------------------------------------------------------------------------
(* What a green `make check` says. *)

\* Before its first step and after it has stopped, a run holds nothing.
IdleIsEmpty ==
  /\ check.pc = "idle" /\ ~check.green => check = NoCheck
  /\ check.green => check.pc = "idle"

ListedExist == \A s \in check.listed : facts[s] # None

\* What the run found in open-questions.md is there until somebody touches it.
RowsStand == check.oq # None /\ "open-questions.md" \notin touched => check.oq = rows

\* The rows that a verdict was given with: of those that stood when the first was looked up.
AskedRows == IF check.oq = None THEN {} ELSE check.oq
Vetted(s) == ~Errors(facts[s]) /\ ~Warnings(s, facts[s], AskedRows)

\* The projects validated so far, and not touched since the run began, would pass again.
PassedStand ==
  /\ check.pc = "validate" /\ ~check.fails =>
       \A s \in (check.listed \ check.todo) \ touched : Vetted(s)
  /\ check.pc \in {"matrix", "write matrix", "exit"} \/ check.green =>
       \A s \in check.listed \ touched : Vetted(s)

\* The columns drawn, and then written, are theirs.
ColumnsStand ==
  /\ check.pc = "write matrix" =>
       \A s \in check.listed \ touched : check.built[s] = Column(facts[s])
  /\ check.pc = "exit" \/ check.green =>
       \A s \in check.listed \ touched : matrix[s] = Column(facts[s])

RunStands == IdleIsEmpty /\ ListedExist /\ RowsStand /\ PassedStand /\ ColumnsStand

\* A file without errors that no row was asked about, and that passed, passes with any.
LEMMA NoRowsAsked ==
  ASSUME NEW s \in Slugs, ~Errors(facts[s]), ~Warnings(s, facts[s], {}), NEW oq
  PROVE  ~Warnings(s, facts[s], oq)
<1>1. \A p \in PROBES : <<s, p>> \notin _tracked_unknowns({})
  BY DEF _tracked_unknowns
<1>2. unknowns(facts[s]) = {}
  BY <1>1 DEF Warnings, Errors, unknowns
<1> QED BY <1>2 DEF Warnings

LEMMA NothingToStand == check' = NoCheck => RunStands'
BY DEF NoCheck, RunStands, IdleIsEmpty, ListedExist, RowsStand, PassedStand, ColumnsStand

\* A file nobody writes stays as vetted as it was.
LEMMA VettedStays ==
  ASSUME NEW s \in Slugs, facts'[s] = facts[s], teardown'[s] = teardown[s], check'.oq = check.oq,
         Vetted(s)
  PROVE  Vetted(s)'
BY DEF Vetted, AskedRows, Errors, Warnings

LEMMA OthersStand ==
  ASSUME TypeOK, RunStands, check' = check, matrix' = matrix, touched \subseteq touched',
         rows' = rows \/ "open-questions.md" \in touched',
         \A s \in Slugs : facts[s] # None => facts'[s] # None,
         \A s \in Slugs \ touched' : facts'[s] = facts[s] /\ teardown'[s] = teardown[s]
  PROVE  RunStands'
<1>1. check.listed \subseteq Slugs
  BY DEF TypeOK
<1>2. \A s \in check.listed \ touched' : Vetted(s) => Vetted(s)'
  BY <1>1, VettedStays
<1>3. IdleIsEmpty' /\ ListedExist' /\ RowsStand'
  BY <1>1 DEF RunStands, IdleIsEmpty, ListedExist, RowsStand, NoCheck
<1>4. PassedStand'
  BY <1>2 DEF RunStands, PassedStand
<1>5. ColumnsStand'
  <2>1. \A s \in check.listed \ touched' : facts'[s] = facts[s] /\ s \in check.listed \ touched
    BY <1>1
  <2> QED BY <2>1 DEF RunStands, ColumnsStand
<1> QED BY <1>3, <1>4, <1>5 DEF RunStands

LEMMA TouchedStand ==
  ASSUME TypeOK, RunStands, check' = check, matrix' = matrix, NEW what, Touches(what),
         rows' = rows \/ what = "open-questions.md",
         \A s \in Slugs : facts[s] # None => facts'[s] # None,
         \A s \in Slugs \ {what} : facts'[s] = facts[s] /\ teardown'[s] = teardown[s]
  PROVE  RunStands'
<1>1. CASE check.pc = "idle" /\ ~check.green
  BY <1>1, NothingToStand DEF RunStands, IdleIsEmpty
<1>2. CASE ~(check.pc = "idle" /\ ~check.green)
  <2>1. touched' = touched \cup {what}
    BY <1>2 DEF Touches
  <2> QED BY <2>1, OthersStand
<1> QED BY <1>1, <1>2

LEMMA CheckStands ==
  ASSUME TypeOK, RunStands, MakeCheck
  PROVE  RunStands'
<1>1. /\ check \in CheckRun
      /\ UNCHANGED <<facts, teardown, rows>>
  BY MakeCheckFrame DEF TypeOK, CheckRun
<1>2. CASE Stops
  BY <1>2, StopsFields, NothingToStand
<1>3. CASE check_starts
  <2>1. check' = Began /\ touched' = {}
    BY <1>3, CheckSteps DEF check_starts
  <2>2. /\ check'.pc = "validate" /\ check'.listed = There /\ check'.todo = There /\ check'.oq = None
        /\ ~check'.green
    BY <2>1, RecordFields
  <2> QED BY <1>1, <2>2 DEF RunStands, IdleIsEmpty, ListedExist, RowsStand, PassedStand, ColumnsStand, There
<1>4. ASSUME NEW s \in Slugs, validate(s) PROVE RunStands'
  <2>1. /\ check' = Went(s) /\ touched' = touched /\ check.pc = "validate" /\ ~check.green
        /\ s \in check.todo
    BY <1>4, CheckSteps DEF validate, RunStands, IdleIsEmpty
  <2>2. /\ check'.pc = "validate" /\ check'.listed = check.listed /\ check'.todo = check.todo \ {s}
        /\ check'.oq = Cached(facts[s]) /\ check'.fails = Failed(s) /\ ~check'.green
    BY <2>1, RecordFields
  <2>3. check.oq # None => check'.oq = check.oq
    BY <2>2 DEF Cached
  <2>4. check'.oq = check.oq \/ check'.oq = rows
    BY <2>2 DEF Cached
  <2>5. ASSUME NEW t \in (check.listed \ check'.todo) \ touched, ~check'.fails
        PROVE  Vetted(t)'
    <3>1. t \in Slugs /\ ~Failed(s) /\ ~check.fails
      BY <1>1, <2>2, <2>5 DEF Failed, CheckRun
    <3>2. ~Errors(facts[t]) /\ ~Warnings(t, facts[t], IF check'.oq = None THEN {} ELSE check'.oq)
      <4>1. CASE t = s
        BY <2>2, <3>1, <4>1 DEF Failed
      <4>2. CASE t # s
        <5>1. Vetted(t)
          BY <2>1, <2>2, <2>5, <3>1, <4>2 DEF RunStands, PassedStand
        <5>2. CASE check.oq # None
          BY <2>3, <5>1, <5>2 DEF Vetted, AskedRows
        <5>3. CASE check.oq = None
          <6>1. ~Errors(facts[t]) /\ ~Warnings(t, facts[t], {})
            BY <5>1, <5>3 DEF Vetted, AskedRows
          <6> QED BY <3>1, <6>1, NoRowsAsked
        <5> QED BY <5>2, <5>3
      <4> QED BY <4>1, <4>2
    <3> QED BY <1>1, <3>2 DEF Vetted, AskedRows, Errors, Warnings
  <2>6. IdleIsEmpty' /\ ListedExist' /\ RowsStand'
    BY <1>1, <2>1, <2>2, <2>3, <2>4 DEF RunStands, IdleIsEmpty, ListedExist, RowsStand
  <2>7. PassedStand' /\ ColumnsStand'
    BY <2>1, <2>2, <2>5 DEF PassedStand, ColumnsStand
  <2> QED BY <2>6, <2>7 DEF RunStands
\* The steps that only move on: what has stood so far stands, and what they add.
<1>5. ASSUME check'.listed = check.listed, check'.oq = check.oq, touched' = touched,
             \A s \in check.listed \ touched : Vetted(s),
             \/ check'.pc \in {"matrix", "write matrix", "exit"} /\ ~check'.green
             \/ check'.pc = "idle" /\ check'.green,
             ColumnsStand'
      PROVE  RunStands'
  <2>1. check.listed \subseteq Slugs
    BY <1>1 DEF CheckRun
  <2>2. \A s \in check.listed \ touched : Vetted(s)'
    BY <1>1, <1>5, <2>1, VettedStays
  <2>3. IdleIsEmpty' /\ ListedExist' /\ RowsStand' /\ PassedStand'
    BY <1>1, <1>5, <2>2 DEF RunStands, IdleIsEmpty, ListedExist, RowsStand, PassedStand
  <2> QED BY <1>5, <2>3 DEF RunStands
<1>6. ASSUME check.pc \in {"matrix", "write matrix", "exit"}
      PROVE  (\A s \in check.listed \ touched : Vetted(s)) /\ ~check.green
  BY <1>6 DEF RunStands, PassedStand, IdleIsEmpty
<1>7. CASE validated /\ ~Stops
  <2>1. /\ ~check.fails /\ check' = [check EXCEPT !.pc = "matrix"] /\ touched' = touched
        /\ check.pc = "validate" /\ check.todo = {}
    BY <1>7, CheckSteps DEF validated
  <2>2. check'.pc = "matrix" /\ check'.listed = check.listed /\ check'.oq = check.oq /\ ~check'.green
    BY <1>1, <2>1 DEF CheckRun, RunStands, IdleIsEmpty
  <2>3. \A s \in check.listed \ touched : Vetted(s)
    BY <2>1 DEF RunStands, PassedStand
  <2>4. check'.pc \in {"matrix", "write matrix", "exit"} /\ ColumnsStand'
    BY <2>2 DEF ColumnsStand
  <2> QED BY <1>5, <2>1, <2>2, <2>3, <2>4
<1>8. CASE build /\ ~Stops
  <2>1. check' = Built /\ touched' = touched /\ check.pc = "matrix"
    BY <1>8, CheckSteps DEF build
  <2>2. /\ check'.pc = "write matrix" /\ check'.built = Drawn /\ check'.listed = check.listed
        /\ check'.oq = check.oq /\ ~check'.green
    BY <1>6, <2>1, RecordFields
  <2>3. \A s \in check.listed : Drawn[s] = Column(facts[s])
    BY <1>1 DEF CheckRun, Drawn, RunStands, ListedExist
  <2>4. ColumnsStand'
    BY <1>1, <2>1, <2>2, <2>3 DEF ColumnsStand
  <2>5. check'.pc \in {"matrix", "write matrix", "exit"} /\ \A s \in check.listed \ touched : Vetted(s)
    BY <1>6, <2>1, <2>2
  <2> QED BY <1>5, <2>1, <2>2, <2>4, <2>5
<1>9. CASE write_matrix
  <2>1. check' = Written /\ matrix' = check.built /\ touched' = touched /\ check.pc = "write matrix"
    BY <1>9, CheckSteps DEF write_matrix
  <2>2. check'.pc = "exit" /\ check'.listed = check.listed /\ check'.oq = check.oq /\ ~check'.green
    BY <1>6, <2>1, RecordFields
  <2>3. ColumnsStand'
    BY <1>1, <2>1, <2>2 DEF RunStands, ColumnsStand
  <2>4. check'.pc \in {"matrix", "write matrix", "exit"} /\ \A s \in check.listed \ touched : Vetted(s)
    BY <1>6, <2>1, <2>2
  <2> QED BY <1>5, <2>1, <2>2, <2>3, <2>4
<1>10. CASE check_exit_criteria /\ ~Stops
  <2>1. check' = Passed /\ matrix' = matrix /\ touched' = touched /\ check.pc = "exit"
    BY <1>10, CheckSteps DEF check_exit_criteria
  <2>2. check'.pc = "idle" /\ check'.listed = check.listed /\ check'.oq = check.oq /\ check'.green
    BY <2>1, RecordFields
  <2>3. ColumnsStand'
    BY <1>1, <2>1, <2>2 DEF RunStands, ColumnsStand
  <2> QED BY <1>5, <1>6, <2>1, <2>2, <2>3
<1> QED BY <1>2, <1>3, <1>4, <1>7, <1>8, <1>9, <1>10 DEF MakeCheck

LEMMA RunStillStands == TypeOK /\ RunStands /\ [Next]_vars => RunStands'
<1> SUFFICES ASSUME TypeOK, RunStands, [Next]_vars PROVE RunStands'
  OBVIOUS
<1>1. facts \in [Slugs -> Fact \cup {None}] /\ teardown \in [Slugs -> {"none", "stub", "human"}]
  BY DEF TypeOK
<1>2. CASE UNCHANGED <<facts, teardown, rows, matrix, check, touched>>
  BY <1>2, OthersStand
<1>3. CASE scaffold_file
  <2>1. UNCHANGED <<rows, matrix, check>>
    BY <1>3 DEF scaffold_file
  <2>2. \/ facts' = facts
        \/ facts' = [facts EXCEPT ![scaffold.slug] = facts_stub(scaffold.name, scaffold.depth)]
    BY <1>3 DEF scaffold_file
  <2>3. teardown' = teardown \/ teardown' = [teardown EXCEPT ![scaffold.slug] = "stub"]
    BY <1>3 DEF scaffold_file
  <2>4. Touches(scaffold.slug)
    BY <1>3 DEF scaffold_file
  <2>5. scaffold.slug \in Slugs /\ facts_stub(scaffold.name, scaffold.depth) # None
    BY <1>3, ScaffoldRuns, StubIsClean, FactFields DEF scaffold_file
  <2>6. \A s \in Slugs : facts[s] # None => facts'[s] # None
    BY <1>1, <2>2, <2>5
  <2>7. \A s \in Slugs \ {scaffold.slug} : facts'[s] = facts[s] /\ teardown'[s] = teardown[s]
    BY <1>1, <2>2, <2>3
  <2> QED BY <2>1, <2>4, <2>6, <2>7, TouchedStand
<1>4. CASE recon_writes
  <2> DEFINE s == Head(recon.todo)
             f == Reconned(s, recon.text)
  <2>1. recon.text # None /\ recon.text \in Fact /\ s \in Slugs
    <3>1. recon.text # None /\ recon.text \in Fact /\ recon.todo # <<>> /\ recon.todo \in Seq(Slugs)
      BY <1>4 DEF recon_writes, TypeOK
    <3> QED BY <3>1
  <2>2. f # None
    BY <2>1, ReconnedFields, FactFields
  <2>3. facts' = [facts EXCEPT ![s] = f] /\ Touches(s) /\ UNCHANGED <<teardown, rows, matrix, check>>
    BY <1>4 DEF recon_writes
  <2> HIDE DEF s, f
  <2>4. \A t \in Slugs : facts[t] # None => facts'[t] # None
    BY <1>1, <2>1, <2>2, <2>3
  <2>5. \A t \in Slugs \ {s} : facts'[t] = facts[t] /\ teardown'[t] = teardown[t]
    BY <1>1, <2>3
  <2> QED BY <2>3, <2>4, <2>5, TouchedStand
<1>5. ASSUME NEW s \in Slugs, edit_facts(s) PROVE RunStands'
  <2>1. Touches(s) /\ UNCHANGED <<teardown, rows, matrix, check>>
    BY <1>5 DEF edit_facts, Edits
  <2>2. PICK draft \in Drafts(s) :
          \/ \E f \in AuthorWrites(s, draft) : facts' = [facts EXCEPT ![s] = f]
          \/ \E f \in AuthorLaysOut(s, draft) : facts' = [facts EXCEPT ![s] = f]
    BY <1>5 DEF edit_facts
  <2>3. PICK f \in Fact : facts' = [facts EXCEPT ![s] = f]
    BY <2>2, DraftsAreFacts, AuthorsFacts
  <2>4. f # None
    BY FactFields
  <2>5. \A t \in Slugs : facts[t] # None => facts'[t] # None
    BY <1>1, <2>3, <2>4
  <2>6. \A t \in Slugs \ {s} : facts'[t] = facts[t] /\ teardown'[t] = teardown[t]
    BY <1>1, <2>1, <2>3
  <2> QED BY <2>1, <2>5, <2>6, TouchedStand
<1>6. ASSUME NEW s \in Slugs, edit_teardown(s) PROVE RunStands'
  <2>1. Touches(s) /\ UNCHANGED <<facts, rows, matrix, check>>
    BY <1>6 DEF edit_teardown, Edits
  <2>2. \E t \in {"none", "human"} : teardown' = [teardown EXCEPT ![s] = t]
    BY <1>6 DEF edit_teardown
  <2>3. \A t \in Slugs \ {s} : facts'[t] = facts[t] /\ teardown'[t] = teardown[t]
    BY <1>1, <2>1, <2>2
  <2> QED BY <2>1, <2>3, TouchedStand
<1>7. CASE edit_questions
  <2>1. Touches("open-questions.md") /\ UNCHANGED <<facts, teardown, matrix, check>>
    BY <1>7 DEF edit_questions, Edits
  <2> QED BY <2>1, TouchedStand
<1>8. CASE MakeCheck
  BY <1>8, CheckStands
<1>9. ASSUME NEW s \in Slugs, NEW d \in PlannedDepths, NEW n \in DisplayNames[s], new_project(s, n, d)
      PROVE  RunStands'
  BY <1>2, <1>9 DEF new_project
<1>10. CASE \/ scaffold_looks \/ seed_adrs \/ seed_looks \/ seed_adr
            \/ apply_recon \/ recon_reads \/ interrupted
  BY <1>2, <1>10 DEF scaffold_looks, seed_adrs, seed_looks, seed_adr, apply_recon, recon_reads,
                     interrupted
<1>11. CASE \E a \in Range(ADRS) : edit_adr(a)
  BY <1>2, <1>11 DEF edit_adr, Edits
<1>12. CASE UNCHANGED vars
  BY <1>2, <1>12 DEF vars
<1> QED BY <1>3, <1>4, <1>5, <1>6, <1>7, <1>8, <1>9, <1>10, <1>11, <1>12 DEF Next, MakeCheck

LEMMA StandingIsGreen == TypeOK /\ RunStands => GreenIsTrue
<1> SUFFICES ASSUME TypeOK, RunStands, check.green, NEW s \in check.listed \ touched
             PROVE  /\ ~Garbled(facts[s]) /\ facts[s].valid
                    /\ matrix[s] = [p \in PROBES |-> facts[s].probes[p].verdict]
                    /\ "open-questions.md" \notin touched => Accounted(s)
  BY DEF GreenIsTrue
<1>1. s \in Slugs /\ Vetted(s) /\ matrix[s] = Column(facts[s])
  BY DEF TypeOK, RunStands, PassedStand, ColumnsStand
<1>2. ~Garbled(facts[s]) /\ facts[s].valid
  BY <1>1 DEF Vetted, Errors
<1>3. ASSUME "open-questions.md" \notin touched PROVE Accounted(s)
  <2>1. /\ \A p \in PROBES : facts[s].probes[p].verdict \in {"first_class", "implicit"} =>
             facts[s].probes[p].evidence
        /\ \A p \in unknowns(facts[s]) : <<s, p>> \in _tracked_unknowns(AskedRows)
        /\ facts[s].depth = "deep" => teardown[s] # "none"
    BY <1>1, <1>2 DEF Vetted, Warnings
  <2>2. ASSUME NEW p \in PROBES, NEW q \in PROBES, facts[s].depth = "deep",
               facts[s].probes[p].verdict = "unknown", facts[s].probes[q].verdict # "unknown"
        PROVE  \E r \in rows : s \in r.names /\ p \in r.ids
    <3>1. p \in unknowns(facts[s])
      BY <2>2 DEF unknowns, Started
    <3>2. PICK r \in AskedRows : <<s, p>> \in r.names \X r.ids
      BY <2>1, <3>1 DEF _tracked_unknowns
    <3>3. AskedRows = rows
      BY <1>3, <3>2 DEF AskedRows, RunStands, RowsStand
    <3> QED BY <3>2, <3>3
  <2> QED BY <2>1, <2>2 DEF Accounted
<1> QED BY <1>1, <1>2, <1>3 DEF Column

\* When `make check` is green, every project it found that nobody touched since it began keeps
\* what the three tools promise, though each read its files at another moment.
THEOREM GreenChecksAreTrue == Spec => []GreenIsTrue
<1>1. Init => RunStands
  BY DEF Init, NoCheck, RunStands, IdleIsEmpty, ListedExist, RowsStand, PassedStand, ColumnsStand
<1> QED BY <1>1, TypeCorrect, RunStillStands, StandingIsGreen, PTL DEF Spec

----------------------------------------------------------------------------
(* The spec gate. *)

\* The checks that an execution has behind it.
Done(r) == {Groups[n] : n \in 1 .. Len(Groups) - Len(r.todo)}

Ended      == {"valid", "could not run", "problems"}
AtProto    == {"extracted", "written"}
AtPostgres == {"reachable", "roles", "rollback", "scenarios"}

Messages == Editable \cup {CannotRun(group) : group \in Range(Groups)}
              \cup {Defect("proto"), Defect("postgres"), DdlFails}
Txs == [begun : BOOLEAN, created : SUBSET Range(Roles), grants : Seq(Range(Roles)),
        failed : BOOLEAN]
Executions ==
  [pc : {"idle", "check"} \cup AtProto \cup AtPostgres \cup Ended,
   todo : Seq(Range(Groups)), lenient : BOOLEAN, found : SUBSET Messages,
   text : Protos \cup {Nothing}, tx : Txs, shared : BOOLEAN]

GateTyped ==
  /\ defects \subseteq Editable
  /\ text07 \in Protos /\ proto \in Protos \cup {Nothing}
  /\ missing \subseteq Tools
  /\ server \in [up : BOOLEAN, roles : SUBSET Range(Roles)]
  /\ run \in [Runs -> Executions]

\* The checks come in their order, and so do the steps of the two that have some.
InOrder(r) ==
  /\ Len(r.todo) <= Len(Groups)
  /\ \A k \in 1 .. Len(r.todo) : r.todo[k] = Groups[Len(Groups) - Len(r.todo) + k]
  /\ r.pc \in AtProto => Len(r.todo) = 10
  /\ r.pc \in AtPostgres => Len(r.todo) = 7
  /\ r.pc \in Ended => r.todo = <<>>
  /\ r.pc = "valid" => r.found = {}
  /\ r.pc = "idle" => r = NoRun
  /\ r.tx.begun => r.pc \in {"roles", "rollback"}
  /\ \A m \in r.found : m.group \in Done(r)

\* The roles that an open transaction may have made come before those it has not come to.
RolesInOrder(tx) ==
  /\ Len(tx.grants) <= Len(Roles)
  /\ \A k \in 1 .. Len(tx.grants) : tx.grants[k] = Roles[Len(Roles) - Len(tx.grants) + k]
  /\ \A c \in tx.created : \E n \in 1 .. Len(Roles) - Len(tx.grants) : c = Roles[n]

Ordered(r) == r \in Executions /\ InOrder(r) /\ RolesInOrder(r.tx)

\* What an execution has in hand is so, unless it was touched.
InHand(r) ==
  /\ r.pc = "extracted" => r.text \in Protos /\ ("proto" \notin disturbed => r.text = text07)
  /\ r.pc = "written" => "grpcio-tools" \notin missing
                         /\ ("proto" \notin disturbed => proto = text07)
  /\ r.pc \in AtPostgres /\ "server" \notin disturbed => server.up
  /\ r.pc = "rollback" /\ "postgres" \notin disturbed
       => (r.tx.failed <=> DdlFails \in defects)
  /\ r.pc = "scenarios" /\ "postgres" \notin disturbed => DdlFails \notin defects

\* What a check was content with is so, unless it was touched.
Content(group) ==
  /\ group \notin disturbed => \A m \in defects : m.group # group
  /\ group \notin {"proto", "postgres"} => Needs(group) \notin missing
  /\ group = "proto" => "grpcio-tools" \notin missing
                        /\ ("proto" \notin disturbed => proto = text07 /\ proto \in Compiles)
  /\ group = "postgres" /\ "server" \notin disturbed => server.up

IsContent(r) == r.pc # "idle" /\ r.found = {} => \A group \in Done(r) : Content(group)

Real(r, m) ==
  \/ m.group \in disturbed \/ m \in defects
  \/ m = Defect("proto") /\ text07 \notin Compiles
  \/ m.says = "UNVERIFIED" /\ Unrunnable(m.group)
  \/ m.group = "postgres" /\ ("server" \in disturbed \/ r.shared)

\* What an execution has found, left alone and has in hand.
Stands(r) == InHand(r) /\ IsContent(r) /\ \A m \in r.found : Real(r, m)

GateInv == GateTyped /\ \A g \in Runs : Ordered(run[g]) /\ Stands(run[g])

\* A step leaves alone what an execution relies on, or it is touched.
Kept ==
  /\ missing' = missing /\ disturbed \subseteq disturbed'
  /\ \A m \in defects \cup defects' : (m \in defects <=> m \in defects') \/ m.group \in disturbed'
  /\ text07' = text07 \/ "proto" \in disturbed'
  /\ server'.up = server.up \/ "server" \in disturbed'
  /\ "proto" \in disturbed' \/ proto' = proto \/ proto' = text07'

----------------------------------------------------------------------------
\* The groups of main, which of them are the two that take steps, and nothing else.
LEMMA GroupFacts ==
  /\ Len(Groups) = 12 /\ DOMAIN Groups = 1 .. 12
  /\ Groups \in Seq(Range(Groups))
  /\ \A n \in 1 .. 12 : /\ Groups[n] \in Range(Groups)
                        /\ Groups[n] = "proto" <=> n = 3
                        /\ Groups[n] = "postgres" <=> n = 6
  /\ Groups[1] = "vectors" /\ Groups[4] = "openapi"
  /\ \A group \in Range(Groups) : \E n \in 1 .. 12 : group = Groups[n]
<1>1. /\ Len(Groups) = 12 /\ DOMAIN Groups = 1 .. 12
      /\ Groups[1] = "vectors" /\ Groups[4] = "openapi"
  BY DEF Groups
<1>2. /\ \A n \in 1 .. 12 : Groups[n] \in Range(Groups)
      /\ \A group \in Range(Groups) : \E n \in 1 .. 12 : group = Groups[n]
  BY <1>1 DEF Range
<1>3. ASSUME NEW n \in 1 .. 12
      PROVE  (Groups[n] = "proto" <=> n = 3) /\ (Groups[n] = "postgres" <=> n = 6)
  <2>1. \/ n = 1 \/ n = 2 \/ n = 3 \/ n = 4 \/ n = 5 \/ n = 6
        \/ n = 7 \/ n = 8 \/ n = 9 \/ n = 10 \/ n = 11 \/ n = 12
    OBVIOUS
  <2> QED BY <2>1 DEF Groups
<1>4. Groups \in Seq(Range(Groups))
  <2>1. Groups = [n \in 1 .. 12 |-> Groups[n]]
    BY DEF Groups
  <2>2. \A n \in 1 .. 12 : Groups[n] \in Range(Groups)
    BY <1>2
  <2> HIDE DEF Groups
  <2> QED BY <2>1, <2>2, IsASeq
<1> QED BY <1>1, <1>2, <1>3, <1>4

\* The first of a sequence and the others.
LEMMA FirstAndRest ==
  ASSUME NEW S, NEW s \in Seq(S), s # <<>>
  PROVE  /\ Len(s) \in Nat /\ Len(s) >= 1 /\ Head(s) = s[1] /\ Head(s) \in S
         /\ Tail(s) \in Seq(S) /\ Len(Tail(s)) = Len(s) - 1
         /\ \A k \in 1 .. Len(s) - 1 : Tail(s)[k] = s[k + 1]
<1>1. Len(s) \in Nat \ {0}
  BY EmptySeq
<1>2. /\ Tail(s) \in Seq(S) /\ Len(Tail(s)) = Len(s) - 1 /\ Head(s) \in S
      /\ \A k \in 1 .. Len(s) - 1 : Tail(s)[k] = s[k + 1]
  BY HeadTailProperties
<1>3. Head(s) = s[1]
  OBVIOUS
<1> QED BY <1>1, <1>2, <1>3

\* The check at hand, and what comes after it.
LEMMA AtHand ==
  ASSUME NEW r, Ordered(r), r.todo # <<>>
  PROVE  /\ Len(r.todo) \in 1 .. 12
         /\ Head(r.todo) = Groups[13 - Len(r.todo)] /\ Head(r.todo) \in Range(Groups)
         /\ Tail(r.todo) \in Seq(Range(Groups)) /\ Len(Tail(r.todo)) = Len(r.todo) - 1
         /\ \A k \in 1 .. Len(Tail(r.todo)) :
              Tail(r.todo)[k] = Groups[12 - Len(Tail(r.todo)) + k]
         /\ Head(r.todo) = "proto" <=> Len(r.todo) = 10
         /\ Head(r.todo) = "postgres" <=> Len(r.todo) = 7
<1> DEFINE t == r.todo
<1>1. /\ t \in Seq(Range(Groups)) /\ Len(t) <= 12
      /\ \A k \in 1 .. Len(t) : t[k] = Groups[12 - Len(t) + k]
  BY GroupFacts DEF Ordered, InOrder, Executions
<1> HIDE DEF t
<1>2. /\ Len(t) \in Nat /\ Len(t) >= 1 /\ Head(t) = t[1] /\ Head(t) \in Range(Groups)
      /\ Tail(t) \in Seq(Range(Groups)) /\ Len(Tail(t)) = Len(t) - 1
      /\ \A k \in 1 .. Len(t) - 1 : Tail(t)[k] = t[k + 1]
  BY <1>1, FirstAndRest DEF t
<1>3. Len(t) \in 1 .. 12 /\ 1 \in 1 .. Len(t) /\ 13 - Len(t) \in 1 .. 12
  <2>1. Len(t) \in Nat /\ Len(t) >= 1 /\ Len(t) <= 12
    BY <1>1, <1>2
  <2>2. \A n \in Nat : n >= 1 /\ n <= 12 => n \in 1 .. 12 /\ 1 \in 1 .. n /\ 13 - n \in 1 .. 12
    OBVIOUS
  <2> QED BY <2>1, <2>2
<1>4. Head(t) = Groups[13 - Len(t)]
  <2>1. t[1] = Groups[12 - Len(t) + 1]
    BY <1>1, <1>3
  <2> QED BY <2>1, <1>2, <1>3
<1>5. ASSUME NEW k \in 1 .. Len(Tail(t))
      PROVE  Tail(t)[k] = Groups[12 - Len(Tail(t)) + k]
  <2>1. k + 1 \in 1 .. Len(t) /\ k \in 1 .. Len(t) - 1
    BY <1>2
  <2>2. Tail(t)[k] = Groups[12 - Len(t) + (k + 1)]
    BY <1>1, <1>2, <2>1
  <2>3. 12 - Len(t) + (k + 1) = 12 - Len(Tail(t)) + k
    BY <1>2, <2>1
  <2> QED BY <2>2, <2>3
<1>6. (Head(t) = "proto" <=> Len(t) = 10) /\ (Head(t) = "postgres" <=> Len(t) = 7)
  <2>1. PICK n \in 1 .. 12 : n = 13 - Len(t)
    BY <1>3
  <2>2. (n = 3 <=> Len(t) = 10) /\ (n = 6 <=> Len(t) = 7)
    <3>1. \A i \in 1 .. 12 : (13 - i = 3 <=> i = 10) /\ (13 - i = 6 <=> i = 7)
      OBVIOUS
    <3> QED BY <3>1, <1>3, <2>1
  <2>3. (Groups[n] = "proto" <=> n = 3) /\ (Groups[n] = "postgres" <=> n = 6)
    BY GroupFacts
  <2> QED BY <1>4, <2>1, <2>2, <2>3
<1> QED BY <1>2, <1>3, <1>4, <1>5, <1>6 DEF t

LEMMA InTheMidst ==
  ASSUME NEW r, Ordered(r)
  PROVE  /\ Len(r.todo) = 10 => r.todo # <<>> /\ Head(r.todo) = "proto"
         /\ Len(r.todo) = 7 => r.todo # <<>> /\ Head(r.todo) = "postgres"
<1>1. ASSUME r.todo = <<>> PROVE Len(r.todo) = 0
  <2>1. Len(<<>>) = 0
    BY EmptySeq
  <2> QED BY <1>1, <2>1
<1>2. CASE Len(r.todo) = 10
  <2>1. r.todo # <<>>
    BY <1>1, <1>2
  <2> QED BY <1>2, <2>1, AtHand
<1>3. CASE Len(r.todo) = 7
  <2>1. r.todo # <<>>
    BY <1>1, <1>3
  <2> QED BY <1>3, <2>1, AtHand
<1> QED BY <1>2, <1>3

\* Groups behind an execution.
LEMMA BehindIt ==
  ASSUME NEW r, Ordered(r), NEW s, s.todo = Tail(r.todo), r.todo # <<>>
  PROVE  Done(s) = Done(r) \cup {Head(r.todo)}
<1> DEFINE L == Len(r.todo)
<1>1. L \in 1 .. 12 /\ Head(r.todo) = Groups[13 - L]
  BY AtHand
<1>2. Len(Groups) = 12 /\ Len(s.todo) = L - 1
  BY GroupFacts, AtHand
<1> HIDE DEF L
<1>3. 12 - (L - 1) = 13 - L
  BY <1>1
<1>4. Done(s) = {Groups[n] : n \in 1 .. 13 - L}
  BY <1>2, <1>3 DEF Done
<1>5. Done(r) = {Groups[n] : n \in 1 .. 12 - L}
  BY <1>2 DEF Done, L
<1>6. 1 .. 13 - L = (1 .. 12 - L) \cup {13 - L}
  BY <1>1
<1> QED BY <1>1, <1>4, <1>5, <1>6

----------------------------------------------------------------------------
\* What `Found` makes of an execution.
FoundIn(r, messages) ==
  [r EXCEPT !.pc = "check", !.todo = Tail(@), !.found = @ \cup messages,
            !.text = Nothing, !.tx = NoTx]

LEMMA FoundFields ==
  ASSUME NEW r \in Executions, NEW messages
  PROVE  LET s == FoundIn(r, messages)
         IN /\ s.pc = "check" /\ s.todo = Tail(r.todo) /\ s.found = r.found \cup messages
            /\ s.text = Nothing /\ s.tx = NoTx /\ s.shared = r.shared
BY DEF FoundIn, Executions

LEMMA FoundIsOne ==
  ASSUME NEW r \in Executions, NEW messages \in SUBSET Messages,
         Tail(r.todo) \in Seq(Range(Groups)), NoTx \in Txs
  PROVE  FoundIn(r, messages) \in Executions
<1> DEFINE PC    == {"idle", "check"} \cup AtProto \cup AtPostgres \cup Ended
           Todo  == Seq(Range(Groups))
           Sets  == SUBSET Messages
           Texts == Protos \cup {Nothing}
<1>1. Executions = [pc : PC, todo : Todo, lenient : BOOLEAN, found : Sets, text : Texts,
                    tx : Txs, shared : BOOLEAN]
  BY DEF Executions
<1>2. "check" \in PC /\ Tail(r.todo) \in Todo /\ r.found \cup messages \in Sets /\ Nothing \in Texts
  BY DEF Executions
<1> HIDE DEF PC, Todo, Sets, Texts
<1> QED BY <1>1, <1>2 DEF FoundIn

\* No transaction.
LEMMA NothingBegun ==
  NoTx \in Txs /\ RolesInOrder(NoTx) /\ ~NoTx.begun
<1>1. NoTx \in Txs /\ NoTx.grants = <<>> /\ NoTx.created = {} /\ ~NoTx.begun
  BY DEF NoTx, Txs
<1>2. Len(Roles) \in Nat
  BY LenProperties, RolesAreRoles
<1>3. Len(<<>>) = 0
  BY EmptySeq
<1> QED BY <1>1, <1>2, <1>3 DEF RolesInOrder

\* It keeps the order, and it stands if its messages are real or the check was content.
LEMMA FoundOrdered ==
  ASSUME NEW r, Ordered(r), r.todo # <<>>, NEW messages \in SUBSET Messages,
         \A m \in messages : m.group = Head(r.todo)
  PROVE  Ordered(FoundIn(r, messages))
<1> DEFINE s == FoundIn(r, messages)
<1>1. /\ r \in Executions /\ r.todo \in Seq(Range(Groups)) /\ r.found \subseteq Messages
      /\ r.lenient \in BOOLEAN /\ r.shared \in BOOLEAN
      /\ \A m \in r.found : m.group \in Done(r)
  BY DEF Ordered, InOrder, Executions
<1>2. /\ s.pc = "check" /\ s.todo = Tail(r.todo) /\ s.found = r.found \cup messages
      /\ s.tx = NoTx
  BY <1>1, FoundFields
<1> HIDE DEF s
<1>3. /\ s.todo \in Seq(Range(Groups)) /\ Len(s.todo) <= 12
      /\ \A k \in 1 .. Len(s.todo) : s.todo[k] = Groups[12 - Len(s.todo) + k]
  <2>1. s.todo = Tail(r.todo)
    BY <1>2
  <2>2. Len(r.todo) \in 1 .. 12 /\ Len(Tail(r.todo)) = Len(r.todo) - 1
    BY AtHand
  <2>3. Len(Tail(r.todo)) <= 12
    <3>1. \A n \in 1 .. 12 : n - 1 <= 12
      OBVIOUS
    <3> QED BY <2>2, <3>1
  <2> QED BY <2>1, <2>3, AtHand
<1>4. s \in Executions
  BY <1>1, AtHand, NothingBegun, FoundIsOne DEF s
<1>5. \A m \in s.found : m.group \in Done(s)
  <2>1. Done(s) = Done(r) \cup {Head(r.todo)}
    BY <1>2, BehindIt
  <2>2. s.found = r.found \cup messages
    BY <1>2
  <2> QED BY <1>1, <2>1, <2>2
<1>6. InOrder(s)
  <2>1. s.pc = "check" /\ ~s.tx.begun /\ Len(Groups) = 12
    BY <1>2, NothingBegun, GroupFacts
  <2> QED BY <2>1, <1>3, <1>5 DEF InOrder, AtProto, AtPostgres, Ended
<1> QED BY <1>2, <1>4, <1>6, NothingBegun DEF s, Ordered

LEMMA FoundStands ==
  ASSUME NEW r, Ordered(r), Stands(r), r.todo # <<>>, r.pc # "idle",
         NEW messages, \A m \in messages : Real(r, m), messages = {} => Content(Head(r.todo))
  PROVE  Stands(FoundIn(r, messages))
<1> DEFINE s == FoundIn(r, messages)
<1>1. /\ s.pc = "check" /\ s.todo = Tail(r.todo) /\ s.found = r.found \cup messages
      /\ s.shared = r.shared
  BY FoundFields DEF Ordered
<1> HIDE DEF s
<1>2. InHand(s)
  BY <1>1 DEF InHand, AtPostgres
<1>3. IsContent(s)
  BY <1>1, BehindIt DEF IsContent, Stands
<1>4. \A m \in s.found : Real(s, m)
  BY <1>1 DEF Stands, Real
<1> QED BY <1>2, <1>3, <1>4 DEF Stands, s

----------------------------------------------------------------------------
\* What a step leaves alone still stands.
LEMMA RealIsKept ==
  ASSUME Kept, NEW r, NEW m, Real(r, m)
  PROVE  Real(r, m)'
BY DEF Kept, Real, Unrunnable, Defect

LEMMA ContentIsKept ==
  ASSUME Kept, NEW r, IsContent(r)
  PROVE  IsContent(r)'
<1>1. ASSUME NEW group, Content(group) PROVE Content(group)'
  BY <1>1 DEF Kept, Content
<1> QED BY <1>1 DEF IsContent, Done

LEMMA StandsIsKept ==
  ASSUME Kept, NEW r, Stands(r)
  PROVE  Stands(r)'
<1>1. InHand(r)'
  BY DEF Kept, Stands, InHand, DdlFails
<1>2. IsContent(r)'
  BY ContentIsKept DEF Stands
<1>3. (\A m \in r.found : Real(r, m))'
  BY RealIsKept DEF Stands
<1> QED BY <1>1, <1>2, <1>3 DEF Stands

\* A run goes from one execution to another that stands afterwards.
LEMMA StepTo ==
  ASSUME GateInv, Kept, NEW g \in Runs, NEW s, Ordered(s), Stands(s)', Goes(g, s),
         defects' \subseteq Editable, text07' \in Protos, proto' \in Protos \cup {Nothing},
         server' \in [up : BOOLEAN, roles : SUBSET Range(Roles)]
  PROVE  GateInv'
<1>1. run' = [run EXCEPT ![g] = s] /\ run \in [Runs -> Executions] /\ s \in Executions
  BY DEF Goes, GateInv, GateTyped, Ordered
<1>2. GateTyped'
  BY <1>1 DEF GateTyped, GateInv, Kept
<1>3. ASSUME NEW h \in Runs, NEW r, Ordered(r), Stands(r)'
      PROVE  r = run[h]' => (Ordered(run[h]) /\ Stands(run[h]))'
  <2>1. Ordered(r)'
    BY <1>3 DEF Ordered, InOrder, RolesInOrder, Done
  <2> QED BY <2>1, <1>3
<1>4. ASSUME NEW h \in Runs PROVE (Ordered(run[h]) /\ Stands(run[h]))'
  <2>1. CASE run'[h] = s
    BY <1>3, <2>1
  <2>2. CASE run'[h] = run[h]
    <3>1. PICK r : r = run[h]
      OBVIOUS
    <3>2. Ordered(r) /\ Stands(r)
      BY <3>1 DEF GateInv
    <3>3. Stands(r)'
      BY <3>2, StandsIsKept
    <3> QED BY <1>3, <2>2, <3>1, <3>2, <3>3
  <2>3. run'[h] = s \/ run'[h] = run[h]
    BY <1>1
  <2> QED BY <2>1, <2>2, <2>3
<1> QED BY <1>2, <1>4 DEF GateInv

LEMMA Step ==
  ASSUME GateInv, Kept, NEW g \in Runs, NEW s, Ordered(s), Stands(s), Goes(g, s),
         defects' \subseteq Editable, text07' \in Protos, proto' \in Protos \cup {Nothing},
         server' \in [up : BOOLEAN, roles : SUBSET Range(Roles)]
  PROVE  GateInv'
BY StandsIsKept, StepTo

----------------------------------------------------------------------------
\* An execution with another place in its check.
Moved(r, pc, text, tx) == [r EXCEPT !.pc = pc, !.text = text, !.tx = tx]

LEMMA MovedFields ==
  ASSUME NEW r \in Executions, NEW pc \in {"check"} \cup AtProto \cup AtPostgres \cup Ended,
         NEW text \in Protos \cup {Nothing}, NEW tx \in Txs
  PROVE  LET s == Moved(r, pc, text, tx)
         IN /\ s \in Executions
            /\ s.pc = pc /\ s.text = text /\ s.tx = tx
            /\ s.todo = r.todo /\ s.found = r.found /\ s.shared = r.shared
<1> DEFINE PC    == {"idle", "check"} \cup AtProto \cup AtPostgres \cup Ended
           Todo  == Seq(Range(Groups))
           Sets  == SUBSET Messages
           Texts == Protos \cup {Nothing}
           s     == Moved(r, pc, text, tx)
<1>1. Executions = [pc : PC, todo : Todo, lenient : BOOLEAN, found : Sets, text : Texts,
                    tx : Txs, shared : BOOLEAN]
  BY DEF Executions
<1>2. pc \in PC /\ text \in Texts
  OBVIOUS
<1> HIDE DEF PC, Todo, Sets, Texts
<1>3. s \in Executions
  BY <1>1, <1>2 DEF Moved
<1>4. /\ s.pc = pc /\ s.text = text /\ s.tx = tx
      /\ s.todo = r.todo /\ s.found = r.found /\ s.shared = r.shared
  BY <1>1 DEF Moved
<1> QED BY <1>3, <1>4

LEMMA MovesAre ==
  ASSUME NEW r \in Executions, NEW pc, NEW text, NEW tx
  PROVE  /\ [r EXCEPT !.pc = pc] = Moved(r, pc, r.text, r.tx)
         /\ [r EXCEPT !.pc = pc, !.text = text] = Moved(r, pc, text, r.tx)
         /\ [r EXCEPT !.tx = tx] = Moved(r, r.pc, r.text, tx)
<1> DEFINE PC    == {"idle", "check"} \cup AtProto \cup AtPostgres \cup Ended
           Todo  == Seq(Range(Groups))
           Sets  == SUBSET Messages
           Texts == Protos \cup {Nothing}
<1>1. Executions = [pc : PC, todo : Todo, lenient : BOOLEAN, found : Sets, text : Texts,
                    tx : Txs, shared : BOOLEAN]
  BY DEF Executions
<1> HIDE DEF PC, Todo, Sets, Texts
<1>2. r \in [pc : PC, todo : Todo, lenient : BOOLEAN, found : Sets, text : Texts,
             tx : Txs, shared : BOOLEAN]
  BY <1>1
<1> QED BY <1>2 DEF Moved

LEMMA MovedWithTx ==
  ASSUME NEW r \in Executions, NEW pc, NEW tx, NEW s, s = [r EXCEPT !.pc = pc, !.tx = tx]
  PROVE  s = Moved(r, pc, r.text, tx)
<1> DEFINE PC    == {"idle", "check"} \cup AtProto \cup AtPostgres \cup Ended
           Todo  == Seq(Range(Groups))
           Sets  == SUBSET Messages
           Texts == Protos \cup {Nothing}
<1>1. Executions = [pc : PC, todo : Todo, lenient : BOOLEAN, found : Sets, text : Texts,
                    tx : Txs, shared : BOOLEAN]
  BY DEF Executions
<1> HIDE DEF PC, Todo, Sets, Texts
<1>2. r \in [pc : PC, todo : Todo, lenient : BOOLEAN, found : Sets, text : Texts,
             tx : Txs, shared : BOOLEAN]
  BY <1>1
<1> QED BY <1>2 DEF Moved

LEMMA MovedStands ==
  ASSUME NEW r, Ordered(r), Stands(r), r.pc # "idle",
         NEW pc \in {"check"} \cup AtProto \cup AtPostgres,
         NEW text \in Protos \cup {Nothing}, NEW tx \in Txs, RolesInOrder(tx),
         pc \in AtProto => Len(r.todo) = 10, pc \in AtPostgres => Len(r.todo) = 7,
         tx.begun => pc \in {"roles", "rollback"}
  PROVE  LET s == Moved(r, pc, text, tx)
         IN /\ Ordered(s) /\ IsContent(s)
            /\ \A m \in s.found : Real(s, m)
            /\ InHand(s) => Stands(s)
<1> DEFINE s == Moved(r, pc, text, tx)
<1>1. /\ s \in Executions
      /\ s.pc = pc /\ s.text = text /\ s.tx = tx
      /\ s.todo = r.todo /\ s.found = r.found /\ s.shared = r.shared
  BY MovedFields DEF Ordered
<1> HIDE DEF s
<1>2. Done(s) = Done(r)
  BY <1>1 DEF Done
<1>3. pc \notin Ended /\ pc \notin {"idle", "valid"}
  BY DEF AtProto, AtPostgres, Ended
<1>4. InOrder(s)
  BY <1>1, <1>2, <1>3 DEF Ordered, InOrder
<1>5. IsContent(s)
  BY <1>1, <1>2 DEF Stands, IsContent
<1>6. \A m \in s.found : Real(s, m)
  BY <1>1 DEF Stands, Real
<1>7. Ordered(s)
  BY <1>1, <1>4 DEF Ordered
<1> QED BY <1>5, <1>6, <1>7 DEF s, Stands

----------------------------------------------------------------------------
LEMMA KeptByOutside ==
  ASSUME Outside, UNCHANGED server,
         proto' = proto \/ proto' = text07 \/ "proto" \in disturbed
  PROVE  Kept
BY DEF Outside, Kept

\* A run goes from one check to the next.
LEMMA FoundStep ==
  ASSUME GateInv, Kept, NEW g \in Runs, run[g].pc # "idle", run[g].todo # <<>>,
         NEW messages \in SUBSET Messages, Goes(g, Found(g, messages)),
         \A m \in messages : m.group = Head(run[g].todo) /\ Real(run[g], m),
         messages = {} => Content(Head(run[g].todo)),
         defects' \subseteq Editable, text07' \in Protos, proto' \in Protos \cup {Nothing},
         server' \in [up : BOOLEAN, roles : SUBSET Range(Roles)]
  PROVE  GateInv'
<1>1. Ordered(run[g]) /\ Stands(run[g])
  BY DEF GateInv
<1>2. Ordered(FoundIn(run[g], messages)) /\ Stands(FoundIn(run[g], messages))
  BY <1>1, FoundOrdered, FoundStands
<1>3. Goes(g, FoundIn(run[g], messages))
  BY DEF Found, FoundIn
<1> QED BY <1>2, <1>3, Step

\* The defects are of the groups that they say.
LEMMA DefectsOf ==
  ASSUME GateTyped
  PROVE  /\ defects \subseteq Messages
         /\ \A m \in defects : /\ m.group # "proto"
                               /\ m.group = "postgres"
                                    => m \in {Defect("postgres"), DdlFails}
<1>1. ASSUME NEW m \in Editable
      PROVE  /\ m.group # "proto"
             /\ m.group = "postgres" => m \in {Defect("postgres"), DdlFails}
  <2>1. CASE m \in {Defect(g) : g \in Range(Groups) \ {"proto"}}
    BY <2>1 DEF Defect
  <2>2. CASE m = Quoting("superseded")
    <3>1. m.group = "superseded"
      BY <2>2 DEF Quoting
    <3> QED BY <3>1
  <2>3. CASE m = DdlFails
    <3>1. m.group = "postgres"
      BY <2>3 DEF DdlFails
    <3> QED BY <2>3, <3>1
  <2> QED BY <2>1, <2>2, <2>3, DefectsAreDefects
<1> QED BY <1>1 DEF GateTyped, Messages

\* A check that only reads finds what is there, and is content with what has no defect.
LEMMA FindsWell ==
  ASSUME GateTyped, NEW group \in Range(Groups) \ {"proto", "postgres"}
  PROVE  /\ Finds(group) \subseteq Messages
         /\ \A m \in Finds(group) : m.group = group /\ \A r : Real(r, m)
         /\ Finds(group) = {} => Content(group)
<1>1. Finds(group) \subseteq Messages
  BY DefectsOf DEF Finds, Messages
<1>2. \A m \in Finds(group) : m.group = group /\ \A r : Real(r, m)
  BY DEF Finds, CannotRun, Real, Unrunnable
<1>3. ASSUME Finds(group) = {} PROVE Content(group)
  <2>1. Needs(group) \notin missing
    BY <1>3 DEF Finds
  <2>2. {m \in defects : m.group = group} = {}
    BY <1>3, <2>1 DEF Finds
  <2> QED BY <2>1, <2>2 DEF Content
<1> QED BY <1>1, <1>2, <1>3

----------------------------------------------------------------------------
(* One lemma per action. *)

LEMMA CheckDocumentsStep ==
  ASSUME GateInv, NEW g \in Runs, check_documents(g)
  PROVE  GateInv'
<1> DEFINE group == Head(run[g].todo)
<1>1. group \in Range(Groups) \ {"proto", "postgres"}
  BY AtHand DEF GateInv, check_documents
<1>2. Kept
  BY KeptByOutside DEF check_documents
<1>3. /\ Goes(g, Found(g, Finds(group))) /\ run[g].pc # "idle" /\ run[g].todo # <<>>
      /\ UNCHANGED <<defects, text07, proto, server>> /\ GateTyped
  BY DEF check_documents, Outside, GateInv
<1> HIDE DEF group
<1>4. /\ Finds(group) \in SUBSET Messages
      /\ \A m \in Finds(group) : m.group = group /\ Real(run[g], m)
      /\ Finds(group) = {} => Content(group)
  BY <1>1, <1>3, FindsWell
<1>5. PICK messages : messages = Finds(group)
  OBVIOUS
<1>6. Goes(g, Found(g, messages))
  BY <1>3, <1>5
<1> QED BY <1>2, <1>3, <1>4, <1>5, <1>6, FoundStep DEF group, GateTyped

LEMMA ExtractProtoStep ==
  ASSUME GateInv, NEW g \in Runs, extract_proto(g)
  PROVE  GateInv'
<1> DEFINE s == Moved(run[g], "extracted", text07, run[g].tx)
<1>1. /\ Ordered(run[g]) /\ Stands(run[g]) /\ run[g] \in Executions /\ text07 \in Protos
      /\ run[g].pc = "check" /\ Len(run[g].todo) = 10
  BY AtHand DEF GateInv, extract_proto, Turn, Ordered, GateTyped
<1>2. Goes(g, s)
  BY <1>1, MovesAre DEF extract_proto
<1>3. run[g].tx \in Txs /\ RolesInOrder(run[g].tx) /\ ~run[g].tx.begun
  BY <1>1 DEF Ordered, InOrder, Executions
<1>4. s.pc = "extracted" /\ s.text = text07
  BY <1>1, <1>3, MovedFields DEF AtProto
<1>5. InHand(s)
  BY <1>1, <1>4 DEF InHand, AtPostgres
<1>6. Ordered(s) /\ Stands(s)
  BY <1>1, <1>3, <1>5, MovedStands DEF AtProto, AtPostgres
<1>7. Kept /\ UNCHANGED <<defects, text07, proto, server>>
  BY KeptByOutside DEF extract_proto, Outside
<1> QED BY <1>2, <1>6, <1>7, Step DEF GateInv, GateTyped

LEMMA WriteProtoStep ==
  ASSUME GateInv, NEW g \in Runs, write_proto(g)
  PROVE  GateInv'
<1> DEFINE r == run[g]
<1>1. /\ Ordered(r) /\ Stands(r) /\ r \in Executions /\ r.pc = "extracted"
      /\ Len(r.todo) = 10 /\ r.tx \in Txs /\ RolesInOrder(r.tx) /\ ~r.tx.begun
      /\ r.text \in Protos /\ ("proto" \notin disturbed => r.text = text07)
  BY DEF GateInv, write_proto, Ordered, InOrder, Executions, AtProto, Stands, InHand
<1>2. /\ proto' = r.text /\ UNCHANGED <<defects, text07, server, missing, disturbed>>
      /\ Outside /\ UNCHANGED server
  BY DEF write_proto, Writes, Outside
<1>3. r.todo # <<>> /\ Head(r.todo) = "proto"
  BY <1>1, InTheMidst
<1>4. Kept
  BY <1>1, <1>2, KeptByOutside
<1> HIDE DEF r
<1>5. CASE "grpcio-tools" \in missing
  <2>1. PICK messages : messages = {CannotRun("proto")}
    OBVIOUS
  <2>2. Goes(g, Found(g, messages))
    BY <1>5, <2>1 DEF write_proto
  <2>3. messages \in SUBSET Messages /\ \A m \in messages : m.group = "proto" /\ Real(r, m)
    BY <1>5, <2>1, GroupFacts DEF Messages, CannotRun, Real, Unrunnable
  <2> QED BY <1>1, <1>2, <1>3, <1>4, <2>1, <2>2, <2>3, FoundStep DEF r, GateInv, GateTyped
<1>6. CASE "grpcio-tools" \notin missing
  <2>1. PICK s : s = Moved(r, "written", r.text, r.tx)
    OBVIOUS
  <2>2. Goes(g, s)
    BY <1>1, <1>6, <2>1, MovesAre DEF write_proto, r
  <2>3. s.pc = "written"
    BY <1>1, <2>1, MovedFields DEF AtProto
  <2>4. Ordered(s) /\ IsContent(s) /\ \A m \in s.found : Real(s, m)
    BY <1>1, <2>1, MovedStands DEF AtProto, AtPostgres
  <2>5. Stands(s)'
    <3>1. InHand(s)'
      BY <1>1, <1>2, <1>6, <2>3 DEF InHand, AtPostgres
    <3>2. IsContent(s)' /\ (\A m \in s.found : Real(s, m))'
      BY <1>4, <2>4, ContentIsKept, RealIsKept
    <3> QED BY <3>1, <3>2 DEF Stands
  <2> QED BY <1>1, <1>2, <1>4, <2>2, <2>4, <2>5, StepTo DEF GateInv, GateTyped
<1> QED BY <1>5, <1>6

LEMMA CompileProtoStep ==
  ASSUME GateInv, NEW g \in Runs, compile_proto(g)
  PROVE  GateInv'
<1> DEFINE r == run[g]
<1>1. /\ Ordered(r) /\ Stands(r) /\ r.pc = "written" /\ Len(r.todo) = 10
      /\ "grpcio-tools" \notin missing /\ ("proto" \notin disturbed => proto = text07)
  BY DEF GateInv, compile_proto, Ordered, InOrder, AtProto, Stands, InHand
<1>2. r.todo # <<>> /\ Head(r.todo) = "proto"
  BY <1>1, InTheMidst
<1> HIDE DEF r
<1>3. PICK messages : messages = IF proto \in Compiles THEN {} ELSE {Defect("proto")}
  OBVIOUS
<1>4. Goes(g, Found(g, messages)) /\ Kept /\ UNCHANGED <<defects, text07, proto, server>>
  BY <1>3, KeptByOutside DEF compile_proto, Outside
<1>5. messages \in SUBSET Messages /\ \A m \in messages : m.group = "proto" /\ Real(r, m)
  <2>1. \A m \in messages : m = Defect("proto") /\ proto \notin Compiles
    BY <1>3
  <2>2. Defect("proto").group = "proto"
    BY DEF Defect
  <2>3. \A m \in messages : m \in Messages
    BY <2>1 DEF Messages
  <2> QED BY <1>1, <2>1, <2>2, <2>3 DEF Real
<1>6. messages = {} => Content("proto")
  BY <1>1, <1>3, DefectsOf DEF Content, GateInv
<1> QED BY <1>1, <1>2, <1>4, <1>5, <1>6, FoundStep DEF r, GateInv, GateTyped

\* The server's part of it: what an execution at the Postgres check is.
LEMMA AtServer ==
  ASSUME GateInv, NEW g \in Runs, run[g].pc \in AtPostgres
  PROVE  /\ Ordered(run[g]) /\ Stands(run[g]) /\ run[g] \in Executions /\ GateTyped
         /\ run[g].todo # <<>> /\ Head(run[g].todo) = "postgres" /\ Len(run[g].todo) = 7
         /\ run[g].pc \notin {"idle", "check"}
         /\ "server" \notin disturbed => server.up
         /\ run[g].tx \in Txs /\ RolesInOrder(run[g].tx) /\ run[g].text \in Protos \cup {Nothing}
         /\ \A m \in run[g].found : m.group # "postgres"
<1>1. /\ Ordered(run[g]) /\ Stands(run[g]) /\ run[g] \in Executions /\ GateTyped
      /\ Len(run[g].todo) = 7
  BY DEF GateInv, Ordered, InOrder
<1>2. /\ run[g].tx \in Txs /\ RolesInOrder(run[g].tx) /\ run[g].text \in Protos \cup {Nothing}
      /\ "server" \notin disturbed => server.up
  BY <1>1 DEF Executions, Ordered, Stands, InHand
<1>3. run[g].pc \notin {"idle", "check"}
  BY DEF AtPostgres
<1>4. \A group \in Done(run[g]) : group # "postgres"
  <2>1. 12 - Len(run[g].todo) = 5
    BY <1>1
  <2>2. Done(run[g]) = {Groups[n] : n \in 1 .. 5}
    BY <2>1, GroupFacts DEF Done
  <2>3. \A n \in 1 .. 5 : n \in 1 .. 12 /\ n # 6
    OBVIOUS
  <2> QED BY <2>2, <2>3, GroupFacts
<1>5. \A m \in run[g].found : m.group # "postgres"
  BY <1>1, <1>4 DEF Ordered, InOrder
<1> QED BY <1>1, <1>2, <1>3, <1>5, InTheMidst

LEMMA DdlFailsIs ==
  /\ DdlFails.group = "postgres"
  /\ DdlFails \in Messages /\ {DdlFails} \in SUBSET Messages
BY DEF DdlFails, Messages

LEMMA ProbeServerStep ==
  ASSUME GateInv, NEW g \in Runs, probe_server(g)
  PROVE  GateInv'
<1> DEFINE r == run[g]
<1>1. /\ Ordered(r) /\ Stands(r) /\ r \in Executions /\ r.pc = "check" /\ r.todo # <<>>
      /\ Head(r.todo) = "postgres" /\ Len(r.todo) = 7 /\ r.tx \in Txs /\ RolesInOrder(r.tx)
      /\ ~r.tx.begun /\ r.text \in Protos \cup {Nothing} /\ GateTyped
  BY AtHand DEF GateInv, probe_server, Turn, Ordered, InOrder, Executions
<1>2. Kept /\ UNCHANGED <<defects, text07, proto, server>>
  BY KeptByOutside DEF probe_server, Outside
<1> HIDE DEF r
<1>3. CASE server.up
  <2>1. Goes(g, Moved(r, "reachable", r.text, r.tx))
    BY <1>1, <1>3, MovesAre DEF probe_server, r
  <2>2. Moved(r, "reachable", r.text, r.tx).pc = "reachable"
    BY <1>1, MovedFields DEF AtPostgres
  <2>3. InHand(Moved(r, "reachable", r.text, r.tx))
    BY <1>3, <2>2 DEF InHand
  <2>4. /\ Ordered(Moved(r, "reachable", r.text, r.tx))
        /\ Stands(Moved(r, "reachable", r.text, r.tx))
    BY <1>1, <2>3, MovedStands DEF AtPostgres, AtProto
  <2> QED BY <1>1, <1>2, <2>1, <2>4, Step DEF GateTyped
<1>4. CASE ~server.up
  <2>1. PICK messages : messages = {CannotRun("postgres")}
    OBVIOUS
  <2>2. Goes(g, Found(g, messages))
    BY <1>4, <2>1 DEF probe_server
  <2>3. messages \in SUBSET Messages /\ \A m \in messages : m.group = "postgres" /\ Real(r, m)
    BY <1>4, <2>1, GroupFacts DEF Messages, CannotRun, Real, Unrunnable
  <2> QED BY <1>1, <1>2, <2>1, <2>2, <2>3, FoundStep DEF r, GateTyped
<1> QED BY <1>3, <1>4

\* The roles that a dry run has made and those it has before it, as it begins and goes on.
LEMMA RolesBegin ==
  LET tx == [NoTx EXCEPT !.begun = TRUE, !.grants = Roles]
    IN tx \in Txs /\ RolesInOrder(tx)
<1> DEFINE tx == [NoTx EXCEPT !.begun = TRUE, !.grants = Roles]
<1>1. NoTx \in Txs /\ NoTx.created = {}
  BY NothingBegun DEF NoTx
<1>2. Len(Roles) \in Nat
  BY LenProperties, RolesAreRoles
<1>3. tx \in Txs
  BY <1>1, RolesAreRoles DEF Txs
<1>4. tx.grants = Roles /\ tx.created = {}
  BY <1>1 DEF Txs
<1> HIDE DEF tx
<1>5. RolesInOrder(tx)
  BY <1>2, <1>4 DEF RolesInOrder
<1> QED BY <1>3, <1>5 DEF tx

LEMMA ConnectStep ==
  ASSUME GateInv, NEW g \in Runs, connect(g)
  PROVE  GateInv'
<1> DEFINE r == run[g]
<1>1. /\ Ordered(r) /\ Stands(r) /\ r \in Executions /\ r.pc = "reachable" /\ r.todo # <<>>
      /\ Head(r.todo) = "postgres" /\ Len(r.todo) = 7 /\ r.pc # "idle"
      /\ r.text \in Protos \cup {Nothing} /\ GateTyped /\ ("server" \notin disturbed => server.up)
  BY AtServer DEF connect, AtPostgres
<1>2. Kept /\ UNCHANGED <<defects, text07, proto, server>>
  BY KeptByOutside DEF connect, Outside
<1> HIDE DEF r
<1>3. CASE server.up
  <2>1. PICK tx : tx = [NoTx EXCEPT !.begun = TRUE, !.grants = Roles]
    OBVIOUS
  <2>2. tx \in Txs /\ RolesInOrder(tx)
    BY <2>1, RolesBegin
  <2>3. PICK s : s = [r EXCEPT !.pc = "roles", !.tx = tx]
    OBVIOUS
  <2>4. Goes(g, s) /\ s = Moved(r, "roles", r.text, tx)
    <3>1. Goes(g, s)
      BY <1>3, <2>1, <2>3 DEF connect, RolesOf, r
    <3> QED BY <1>1, <2>3, <3>1, MovedWithTx
  <2>5. s.pc = "roles"
    <3>1. "roles" \in {"check"} \cup AtProto \cup AtPostgres \cup Ended
      BY DEF AtPostgres
    <3> QED BY <1>1, <2>2, <2>4, <3>1, MovedFields
  <2>6. InHand(s)
    BY <1>3, <2>5 DEF InHand
  <2>7. Ordered(s) /\ Stands(s)
    BY <1>1, <2>2, <2>4, <2>6, MovedStands DEF AtPostgres, AtProto
  <2> QED BY <1>1, <1>2, <2>4, <2>7, Step DEF GateTyped
<1>4. CASE ~server.up
  <2>1. PICK messages : messages = {DdlFails}
    OBVIOUS
  <2>2. Goes(g, Found(g, messages))
    BY <1>4, <2>1 DEF connect
  <2>3. \A m \in messages : m.group = "postgres" /\ Real(r, m)
    BY <1>1, <1>4, <2>1, DdlFailsIs DEF Real
  <2> QED BY <1>1, <1>2, <2>1, <2>2, <2>3, FoundStep, DdlFailsIs DEF r, GateTyped
<1> QED BY <1>3, <1>4

\* One more role is done with.
LEMMA RoleDone ==
  ASSUME NEW tx \in Txs, RolesInOrder(tx), tx.grants # <<>>,
         NEW made \in SUBSET Range(Roles), made \subseteq tx.created \cup {Head(tx.grants)},
         NEW t, t = [tx EXCEPT !.grants = Tail(@), !.created = made]
  PROVE  t \in Txs /\ RolesInOrder(t) /\ t.begun = tx.begun
<1> DEFINE L == Len(Roles)
           n == Len(tx.grants)
<1>1. /\ tx.grants \in Seq(Range(Roles)) /\ L \in Nat
      /\ n \in Nat /\ n >= 1 /\ Head(tx.grants) = tx.grants[1]
      /\ Tail(tx.grants) \in Seq(Range(Roles)) /\ Len(Tail(tx.grants)) = n - 1
      /\ \A k \in 1 .. n - 1 : Tail(tx.grants)[k] = tx.grants[k + 1]
  <2>1. tx.grants \in Seq(Range(Roles))
    BY DEF Txs
  <2>2. L \in Nat
    BY LenProperties, RolesAreRoles
  <2> QED BY <2>1, <2>2, FirstAndRest
<1>2. /\ n <= L /\ \A k \in 1 .. n : tx.grants[k] = Roles[L - n + k]
      /\ \A c \in tx.created : \E i \in 1 .. L - n : c = Roles[i]
  BY DEF RolesInOrder
<1>3. t.grants = Tail(tx.grants) /\ t.created = made /\ t.begun = tx.begun /\ t \in Txs
  BY <1>1 DEF Txs
<1> HIDE DEF L, n
<1>4. Len(t.grants) = n - 1 /\ n - 1 <= L /\ L - (n - 1) = L - n + 1
  BY <1>1, <1>2, <1>3
<1>5. ASSUME NEW k \in 1 .. n - 1 PROVE t.grants[k] = Roles[L - (n - 1) + k]
  <2>1. k + 1 \in 1 .. n /\ L - n + (k + 1) = L - (n - 1) + k
    BY <1>1
  <2>2. tx.grants[k + 1] = Roles[L - n + (k + 1)]
    BY <1>2, <2>1
  <2>3. t.grants[k] = tx.grants[k + 1]
    BY <1>1, <1>3
  <2> QED BY <2>1, <2>2, <2>3
<1>6. ASSUME NEW c \in t.created PROVE \E i \in 1 .. L - (n - 1) : c = Roles[i]
  <2>1. CASE c \in tx.created
    <3>1. PICK i \in 1 .. L - n : c = Roles[i]
      BY <1>2, <2>1
    <3>2. i \in 1 .. L - (n - 1)
      BY <1>1, <1>4
    <3> QED BY <3>1, <3>2
  <2>2. CASE c = Head(tx.grants)
    <3>1. 1 \in 1 .. n /\ L - n + 1 \in 1 .. L - (n - 1)
      BY <1>1, <1>2
    <3>2. c = Roles[L - n + 1]
      BY <1>1, <1>2, <2>2, <3>1
    <3> QED BY <3>1, <3>2
  <2> QED BY <1>3, <2>1, <2>2
<1> QED BY <1>3, <1>4, <1>5, <1>6 DEF RolesInOrder, L

LEMMA TxWithin ==
  ASSUME NEW r \in Executions, NEW made, NEW s,
         s = [r EXCEPT !.tx.grants = Tail(@), !.tx.created = made]
  PROVE  s = Moved(r, r.pc, r.text, [r.tx EXCEPT !.grants = Tail(@), !.created = made])
<1> DEFINE PC    == {"idle", "check"} \cup AtProto \cup AtPostgres \cup Ended
           Todo  == Seq(Range(Groups))
           Sets  == SUBSET Messages
           Texts == Protos \cup {Nothing}
<1>1. Executions = [pc : PC, todo : Todo, lenient : BOOLEAN, found : Sets, text : Texts,
                    tx : Txs, shared : BOOLEAN]
  BY DEF Executions
<1> HIDE DEF PC, Todo, Sets, Texts
<1>2. r \in [pc : PC, todo : Todo, lenient : BOOLEAN, found : Sets, text : Texts,
             tx : Txs, shared : BOOLEAN]
  BY <1>1
<1> QED BY <1>2 DEF Moved, Txs

LEMMA CreateRoleStep ==
  ASSUME GateInv, NEW g \in Runs, create_role(g)
  PROVE  GateInv'
<1> DEFINE r    == run[g]
           role == Head(r.tx.grants)
<1>1. /\ Ordered(r) /\ Stands(r) /\ r \in Executions /\ r.pc = "roles" /\ Len(r.todo) = 7
      /\ r.pc # "idle" /\ r.tx \in Txs /\ RolesInOrder(r.tx) /\ r.tx.grants # <<>>
      /\ r.text \in Protos \cup {Nothing} /\ GateTyped /\ ("server" \notin disturbed => server.up)
  BY AtServer DEF create_role, AtPostgres
<1>2. Kept /\ UNCHANGED <<defects, text07, proto, server>>
  BY KeptByOutside DEF create_role, Outside
<1>3. Goes(g, [r EXCEPT !.tx.grants = Tail(@),
                        !.tx.created = IF role \in server.roles THEN @ ELSE @ \cup {role}])
  BY DEF create_role
<1> HIDE DEF r, role
<1>4. PICK made : made = IF role \in server.roles THEN r.tx.created ELSE r.tx.created \cup {role}
  OBVIOUS
<1>5. PICK s : s = [r EXCEPT !.tx.grants = Tail(@), !.tx.created = made]
  OBVIOUS
<1>6. PICK t : t = [r.tx EXCEPT !.grants = Tail(@), !.created = made]
  OBVIOUS
<1>7. Goes(g, s)
  <2>1. [r EXCEPT !.tx.grants = Tail(@),
                  !.tx.created = IF role \in server.roles THEN @ ELSE @ \cup {role}] = s
    BY <1>1, <1>4, <1>5 DEF Executions, Txs
  <2> QED BY <1>3, <2>1
<1>8. t \in Txs /\ RolesInOrder(t)
  <2>1. made \subseteq r.tx.created \cup {role}
    BY <1>4
  <2>2. role \in Range(Roles) /\ r.tx.created \subseteq Range(Roles)
    BY <1>1, FirstAndRest DEF role, Txs
  <2> QED BY <1>1, <1>6, <2>1, <2>2, RoleDone DEF role
<1>9. s = Moved(r, "roles", r.text, t)
  BY <1>1, <1>5, <1>6, TxWithin
<1>10. s.pc = "roles"
  <2>1. "roles" \in {"check"} \cup AtProto \cup AtPostgres \cup Ended
    BY DEF AtPostgres
  <2>2. Moved(r, "roles", r.text, t).pc = "roles"
    BY <1>1, <1>8, <2>1, MovedFields
  <2> QED BY <1>9, <2>2
<1>11. InHand(s)
  BY <1>1, <1>10 DEF InHand
<1>12. Ordered(s) /\ Stands(s)
  BY <1>1, <1>8, <1>9, <1>11, MovedStands DEF AtPostgres, AtProto
<1> QED BY <1>1, <1>2, <1>7, <1>12, Step DEF GateTyped

LEMMA ExecuteSqlStep ==
  ASSUME GateInv, NEW g \in Runs, execute_sql(g)
  PROVE  GateInv'
<1> DEFINE r == run[g]
<1>1. /\ Ordered(r) /\ Stands(r) /\ r \in Executions /\ r.pc = "roles" /\ Len(r.todo) = 7
      /\ r.pc # "idle" /\ r.tx \in Txs /\ RolesInOrder(r.tx)
      /\ r.text \in Protos \cup {Nothing} /\ GateTyped /\ ("server" \notin disturbed => server.up)
  BY AtServer DEF execute_sql, AtPostgres
<1>2. Kept /\ UNCHANGED <<defects, text07, proto, server>>
  BY KeptByOutside DEF execute_sql, Outside
<1>3. Goes(g, [r EXCEPT !.pc = "rollback", !.tx.failed = DdlFails \in defects])
  BY DEF execute_sql
<1> HIDE DEF r
<1>4. PICK fails \in BOOLEAN : fails <=> DdlFails \in defects
  OBVIOUS
<1>5. PICK t : t = [r.tx EXCEPT !.failed = fails]
  OBVIOUS
<1>6. PICK s : s = [r EXCEPT !.pc = "rollback", !.tx = t]
  OBVIOUS
<1>7. Goes(g, s)
  <2>1. (DdlFails \in defects) = fails
    BY <1>4
  <2>2. [r EXCEPT !.pc = "rollback", !.tx.failed = fails] = s
    BY <1>1, <1>5, <1>6 DEF Executions, Txs
  <2> QED BY <1>3, <2>1, <2>2
<1>8. t \in Txs /\ t.grants = r.tx.grants /\ t.created = r.tx.created /\ t.failed = fails
  BY <1>1, <1>5 DEF Txs
<1>9. s = Moved(r, "rollback", r.text, t)
  BY <1>1, <1>6, MovedWithTx
<1>10. s.pc = "rollback" /\ s.tx = t
  <2>1. "rollback" \in {"check"} \cup AtProto \cup AtPostgres \cup Ended
    BY DEF AtPostgres
  <2> QED BY <1>1, <1>8, <1>9, <2>1, MovedFields
<1>11. InHand(s)
  BY <1>1, <1>4, <1>8, <1>10 DEF InHand
<1>12. RolesInOrder(t)
  BY <1>1, <1>8 DEF RolesInOrder
<1>13. Ordered(s) /\ Stands(s)
  BY <1>1, <1>8, <1>9, <1>11, <1>12, MovedStands DEF AtPostgres, AtProto
<1> QED BY <1>1, <1>2, <1>7, <1>13, Step DEF GateTyped

\* Every run goes on to an execution that stands afterwards.
LEMMA StepOfAll ==
  ASSUME GateInv, Kept, run' = [h \in Runs |-> run'[h]],
         \A h \in Runs : \E s : run'[h] = s /\ Ordered(s) /\ Stands(s)',
         defects' \subseteq Editable, text07' \in Protos, proto' \in Protos \cup {Nothing},
         server' \in [up : BOOLEAN, roles : SUBSET Range(Roles)]
  PROVE  GateInv'
<1>1. ASSUME NEW h \in Runs PROVE (Ordered(run[h]) /\ Stands(run[h]))'
  <2>1. PICK s : run'[h] = s /\ Ordered(s) /\ Stands(s)'
    OBVIOUS
  <2>2. Ordered(s)'
    BY <2>1 DEF Ordered, InOrder, RolesInOrder, Done
  <2> QED BY <2>1, <2>2
<1>2. \A h \in Runs : run'[h] \in Executions
  BY DEF Ordered
<1>3. run' \in [Runs -> Executions]
  BY <1>2
<1>4. GateTyped'
  BY <1>3 DEF GateTyped, GateInv, Kept
<1> QED BY <1>1, <1>4 DEF GateInv

\* Whether a run shares the server matters to what it finds from then on.
LEMMA SharedStands ==
  ASSUME NEW r, Ordered(r), Stands(r), NEW b \in BOOLEAN, r.pc # "idle",
         \A m \in r.found : m.group = "postgres" => b \/ m.group \in disturbed \/ m \in defects
  PROVE  Ordered([r EXCEPT !.shared = b]) /\ Stands([r EXCEPT !.shared = b])
<1> DEFINE PC    == {"idle", "check"} \cup AtProto \cup AtPostgres \cup Ended
           Todo  == Seq(Range(Groups))
           Sets  == SUBSET Messages
           Texts == Protos \cup {Nothing}
           s     == [r EXCEPT !.shared = b]
<1>1. Executions = [pc : PC, todo : Todo, lenient : BOOLEAN, found : Sets, text : Texts,
                    tx : Txs, shared : BOOLEAN]
  BY DEF Executions
<1> HIDE DEF PC, Todo, Sets, Texts
<1>2. /\ s \in Executions
      /\ s.pc = r.pc /\ s.text = r.text /\ s.tx = r.tx
      /\ s.todo = r.todo /\ s.found = r.found /\ s.shared = b
  BY <1>1 DEF Ordered
<1> HIDE DEF s
<1>3. Done(s) = Done(r)
  BY <1>2 DEF Done
<1>4. Ordered(s)
  BY <1>2, <1>3 DEF Ordered, InOrder
<1>5. InHand(s) /\ IsContent(s)
  BY <1>2, <1>3 DEF Stands, InHand, IsContent
<1>6. \A m \in s.found : Real(s, m)
  BY <1>2 DEF Stands, Real
<1> QED BY <1>4, <1>5, <1>6 DEF s, Stands

LEMMA RollbackStep ==
  ASSUME GateInv, NEW g \in Runs, rollback(g)
  PROVE  GateInv'
<1> DEFINE r == run[g]
           failed == run[g].tx.failed
           done == IF run[g].tx.failed THEN Found(g, {DdlFails})
                   ELSE [run[g] EXCEPT !.pc = "scenarios", !.tx = NoTx]
           others == {h \in Runs \ {g} : run[h].pc = "scenarios" /\ done.pc = "scenarios"}
<1>1. /\ Ordered(r) /\ Stands(r) /\ r \in Executions /\ r.pc = "rollback" /\ Len(r.todo) = 7
      /\ r.todo # <<>> /\ Head(r.todo) = "postgres"
      /\ r.pc # "idle" /\ r.text \in Protos \cup {Nothing} /\ GateTyped
      /\ ("server" \notin disturbed => server.up) /\ \A m \in r.found : m.group # "postgres"
  BY AtServer DEF rollback, AtPostgres
<1>2. Kept /\ UNCHANGED <<defects, text07, proto, server>>
  BY KeptByOutside DEF rollback, Outside
<1>3. run' = [h \in Runs |-> IF h = g THEN [done EXCEPT !.shared = others # {}]
                             ELSE IF h \in others THEN [run[h] EXCEPT !.shared = TRUE] ELSE run[h]]
  BY DEF rollback
<1>4. "postgres" \notin disturbed => (r.tx.failed <=> DdlFails \in defects)
  BY <1>1 DEF Stands, InHand
<1>5. PICK d : d = done
  OBVIOUS
<1>6. /\ Ordered(d) /\ Stands(d) /\ d.pc # "idle"
      /\ \A m \in d.found : m.group = "postgres" => m.group \in disturbed \/ m \in defects
  <2>1. CASE r.tx.failed
    <3>1. PICK messages : messages = {DdlFails}
      OBVIOUS
    <3>2. d = FoundIn(r, messages)
      BY <1>5, <2>1, <3>1 DEF Found, FoundIn
    <3>3. DdlFails.group \in disturbed \/ DdlFails \in defects
      BY <1>4, <2>1, DdlFailsIs
    <3>4. \A m \in messages : m.group = Head(r.todo) /\ Real(r, m)
      BY <1>1, <3>1, <3>3, DdlFailsIs DEF Real
    <3>5. Ordered(d) /\ Stands(d)
      BY <1>1, <3>1, <3>2, <3>4, DdlFailsIs, FoundOrdered, FoundStands
    <3>6. d.pc = "check" /\ d.found = r.found \cup messages
      BY <1>1, <3>2, FoundFields
    <3> QED BY <1>1, <3>1, <3>3, <3>5, <3>6
  <2>2. CASE ~r.tx.failed
    <3>1. d = [r EXCEPT !.pc = "scenarios", !.tx = NoTx]
      BY <1>5, <2>2
    <3>2. d = Moved(r, "scenarios", r.text, NoTx)
      BY <1>1, <3>1, MovedWithTx
    <3>3. d.pc = "scenarios" /\ d.found = r.found
      <4>1. "scenarios" \in {"check"} \cup AtProto \cup AtPostgres \cup Ended
        BY DEF AtPostgres
      <4> QED BY <1>1, <3>2, <4>1, NothingBegun, MovedFields
    <3>4. InHand(d)
      BY <1>1, <1>4, <2>2, <3>3 DEF InHand
    <3>5. Ordered(d) /\ Stands(d)
      BY <1>1, <3>2, <3>4, NothingBegun, MovedStands DEF AtPostgres, AtProto
    <3> QED BY <1>1, <3>3, <3>5
  <2> QED BY <2>1, <2>2
<1>7. PICK b \in BOOLEAN : b <=> others # {}
  OBVIOUS
<1>8. ASSUME NEW h \in Runs
      PROVE  \E s : run'[h] = s /\ Ordered(s) /\ Stands(s)'
  <2>1. CASE h = g
    <3>1. PICK s : s = [d EXCEPT !.shared = b]
      OBVIOUS
    <3>2. run'[h] = s
      BY <1>3, <1>5, <1>7, <2>1, <3>1
    <3>3. Ordered(s) /\ Stands(s)
      BY <1>6, <3>1, SharedStands
    <3> QED BY <1>2, <3>2, <3>3, StandsIsKept
  <2>2. CASE h # g /\ h \in others
    <3>1. PICK o : o = run[h]
      OBVIOUS
    <3>2. Ordered(o) /\ Stands(o) /\ o.pc # "idle"
      BY <2>2, <3>1 DEF GateInv
    <3>3. PICK s : s = [o EXCEPT !.shared = TRUE]
      OBVIOUS
    <3>4. Ordered(s) /\ Stands(s)
      BY <3>2, <3>3, SharedStands
    <3>5. run'[h] = s
      BY <1>3, <2>2, <3>1, <3>3
    <3> QED BY <1>2, <3>4, <3>5, StandsIsKept
  <2>3. CASE h # g /\ h \notin others
    <3>1. PICK s : s = run[h]
      OBVIOUS
    <3>2. Ordered(s) /\ Stands(s) /\ run'[h] = s
      BY <1>3, <2>3, <3>1 DEF GateInv
    <3> QED BY <1>2, <3>2, StandsIsKept
  <2> QED BY <2>1, <2>2, <2>3
<1>9. run' = [h \in Runs |-> run'[h]]
  BY <1>3
<1> HIDE DEF done, others, r
<1> QED BY <1>1, <1>2, <1>8, <1>9, StepOfAll DEF GateTyped

LEMMA RunScenariosStep ==
  ASSUME GateInv, NEW g \in Runs, run_scenarios(g)
  PROVE  GateInv'
<1> DEFINE r == run[g]
<1>1. /\ Ordered(r) /\ Stands(r) /\ r.pc = "scenarios" /\ r.todo # <<>>
      /\ Head(r.todo) = "postgres" /\ r.pc # "idle" /\ GateTyped
      /\ ("server" \notin disturbed => server.up)
  BY AtServer DEF run_scenarios, AtPostgres
<1>2. Kept /\ UNCHANGED <<defects, text07, proto, server>>
  BY KeptByOutside DEF run_scenarios, Outside
<1>3. "postgres" \notin disturbed => DdlFails \notin defects
  BY <1>1 DEF Stands, InHand
<1>4. PICK fails \in BOOLEAN :
        /\ ~fails => server.up
        /\ fails => Defect("postgres") \in defects \/ ~server.up \/ run[g].shared
        /\ Defect("postgres") \in defects => fails
        /\ Goes(g, Found(g, IF fails THEN {Defect("postgres")} ELSE {}))
  BY DEF run_scenarios
<1> HIDE DEF r
<1>5. PICK messages : messages = IF fails THEN {Defect("postgres")} ELSE {}
  OBVIOUS
<1>6. Goes(g, Found(g, messages))
  BY <1>4, <1>5
<1>7. messages \in SUBSET Messages /\ \A m \in messages : m.group = "postgres" /\ Real(r, m)
  <2>1. Defect("postgres").group = "postgres"
    BY DEF Defect
  <2>2. \A m \in messages : m = Defect("postgres") /\ m \in Messages
    BY <1>5 DEF Messages
  <2>3. fails => Defect("postgres") \in defects \/ "server" \in disturbed \/ r.shared
    BY <1>1, <1>4 DEF r
  <2>4. messages # {} => fails
    BY <1>5
  <2> QED BY <2>1, <2>2, <2>3, <2>4 DEF Real
<1>8. messages = {} => Content("postgres")
  <2>1. messages = {} => ~fails
    BY <1>5
  <2>2. ~fails => Defect("postgres") \notin defects
    BY <1>4
  <2>3. \A m \in defects : m.group = "postgres" => m \in {Defect("postgres"), DdlFails}
    BY <1>1, DefectsOf
  <2>4. ~fails /\ "postgres" \notin disturbed => \A m \in defects : m.group # "postgres"
    BY <1>3, <2>2, <2>3
  <2> QED BY <1>4, <2>1, <2>4 DEF Content
<1> QED BY <1>1, <1>2, <1>6, <1>7, <1>8, FoundStep DEF r, GateTyped

LEMMA MainEndsStep ==
  ASSUME GateInv, NEW g \in Runs, main_ends(g)
  PROVE  GateInv'
<1> DEFINE r   == run[g]
           end == IF run[g].found \ soft(g) # {} THEN "problems"
                  ELSE IF soft(g) # {} THEN "could not run" ELSE "valid"
<1>1. /\ Ordered(r) /\ Stands(r) /\ r \in Executions /\ r.pc = "check" /\ r.todo = <<>> /\ GateTyped
      /\ r.text \in Protos \cup {Nothing} /\ r.tx \in Txs /\ RolesInOrder(r.tx)
  BY DEF GateInv, main_ends, Ordered, Executions
<1>2. Kept /\ UNCHANGED <<defects, text07, proto, server>>
  BY KeptByOutside DEF main_ends, Outside
<1>3. PICK pc : pc = end
  OBVIOUS
<1>4. pc \in Ended /\ (pc = "valid" => r.found = {})
  BY <1>3 DEF Ended
<1>5. PICK s : s = [r EXCEPT !.pc = pc]
  OBVIOUS
<1>6. Goes(g, s)
  BY <1>3, <1>5 DEF main_ends
<1> HIDE DEF r, end
<1>7. s = Moved(r, pc, r.text, r.tx)
  BY <1>1, <1>5, MovesAre
<1>8. /\ s \in Executions /\ s.pc = pc /\ s.tx = r.tx
      /\ s.todo = r.todo /\ s.found = r.found /\ s.shared = r.shared
  <2>1. pc \in {"check"} \cup AtProto \cup AtPostgres \cup Ended
    BY <1>4
  <2> QED BY <1>1, <1>7, <2>1, MovedFields
<1>9. Done(s) = Done(r)
  BY <1>8 DEF Done
<1>10. pc \notin {"idle", "check", "roles", "rollback", "scenarios", "extracted", "written"}
       /\ pc \notin AtProto /\ pc \notin AtPostgres
  BY <1>4 DEF Ended, AtProto, AtPostgres
<1>11. ~r.tx.begun
  BY <1>1 DEF Ordered, InOrder
<1>12. Ordered(s)
  <2>1. InOrder(s)
    BY <1>1, <1>4, <1>8, <1>9, <1>10, <1>11 DEF Ordered, InOrder
  <2> QED BY <1>1, <1>8, <2>1 DEF Ordered
<1>13. InHand(s)
  BY <1>8, <1>10 DEF InHand
<1>14. IsContent(s) /\ \A m \in s.found : Real(s, m)
  BY <1>1, <1>8, <1>9 DEF Stands, IsContent, Real
<1>15. Stands(s)
  BY <1>13, <1>14 DEF Stands
<1> QED BY <1>1, <1>2, <1>6, <1>12, <1>15, Step DEF GateTyped

\* An execution that does not run, and one that begins.
LEMMA NoRunStands ==
  Ordered(NoRun) /\ Stands(NoRun)
<1>1. /\ NoRun.pc = "idle" /\ NoRun.todo = <<>>
      /\ NoRun.found = {} /\ NoRun.tx = NoTx
  BY DEF NoRun
<1>2. NoRun \in Executions
  <2>1. <<>> \in Seq(Range(Groups))
    BY EmptySeq
  <2>2. NoTx \in Txs
    BY NothingBegun
  <2> QED BY <2>1, <2>2 DEF NoRun, Executions
<1>3. Len(NoRun.todo) = 0
  BY <1>1, EmptySeq
<1>4. InOrder(NoRun)
  BY <1>1, <1>3, NothingBegun, GroupFacts DEF InOrder, AtProto, AtPostgres, Ended
<1>5. Stands(NoRun)
  BY <1>1 DEF Stands, InHand, IsContent, AtPostgres
<1> QED BY <1>1, <1>2, <1>4, <1>5, NothingBegun DEF Ordered

LEMMA BegunStands ==
  ASSUME NEW lenient \in BOOLEAN, NEW s,
         s = [NoRun EXCEPT !.pc = "check", !.todo = Groups, !.lenient = lenient]
  PROVE  Ordered(s) /\ Stands(s)
<1>1. s.pc = "check" /\ s.todo = Groups /\ s.found = {} /\ s.tx = NoTx
  BY DEF NoRun
<1>2. s \in Executions
  <2> DEFINE PC    == {"idle", "check"} \cup AtProto \cup AtPostgres \cup Ended
             Todo  == Seq(Range(Groups))
             Sets  == SUBSET Messages
             Texts == Protos \cup {Nothing}
  <2>1. Executions = [pc : PC, todo : Todo, lenient : BOOLEAN, found : Sets, text : Texts,
                      tx : Txs, shared : BOOLEAN]
    BY DEF Executions
  <2>2. "check" \in PC /\ Groups \in Todo
    BY GroupFacts
  <2>3. NoRun \in Executions
    BY NoRunStands DEF Ordered
  <2> HIDE DEF PC, Todo, Sets, Texts
  <2> QED BY <2>1, <2>2, <2>3
<1>3. Len(s.todo) = 12 /\ Len(Groups) = 12
  BY <1>1, GroupFacts
<1>4. \A k \in 1 .. 12 : s.todo[k] = Groups[12 - 12 + k]
  <2>1. \A k \in 1 .. 12 : 12 - 12 + k = k
    OBVIOUS
  <2> QED BY <1>1, <2>1
<1>5. InOrder(s)
  <2>1. ~s.tx.begun
    BY <1>1, NothingBegun
  <2>2. /\ Len(s.todo) <= Len(Groups)
        /\ \A k \in 1 .. Len(s.todo) : s.todo[k] = Groups[Len(Groups) - Len(s.todo) + k]
    <3>1. ASSUME NEW t, NEW l, l = 12, NEW n, n = 12,
                 \A k \in 1 .. 12 : t[k] = Groups[12 - 12 + k]
          PROVE  l <= n /\ \A k \in 1 .. l : t[k] = Groups[n - l + k]
      BY <3>1
    <3> QED BY <1>3, <1>4, <3>1
  <2>3. \A m \in s.found : m.group \in Done(s)
    BY <1>1
  <2> QED BY <1>1, <2>1, <2>2, <2>3 DEF InOrder, AtProto, AtPostgres, Ended
<1>6. Done(s) = {}
  <2>1. 1 .. Len(Groups) - Len(s.todo) = {}
    <3>1. 1 .. 12 - 12 = {}
      OBVIOUS
    <3> QED BY <1>3, <3>1
  <2> QED BY <2>1 DEF Done
<1>7. Stands(s)
  BY <1>1, <1>6 DEF Stands, InHand, IsContent, AtPostgres
<1> QED BY <1>1, <1>2, <1>5, <1>7, NothingBegun DEF Ordered

LEMMA KilledStep ==
  ASSUME GateInv, NEW g \in Runs, killed(g)
  PROVE  GateInv'
<1>1. Kept /\ UNCHANGED <<defects, text07, proto, server>>
  BY KeptByOutside DEF killed, Outside
<1> QED BY <1>1, NoRunStands, Step DEF killed, GateInv, GateTyped

LEMMA BeginStep ==
  ASSUME GateInv, NEW g \in Runs, NEW lenient \in BOOLEAN, begin(g, lenient)
  PROVE  GateInv'
<1> DEFINE first == \A h \in Runs : AtRest(h)
           begun == [NoRun EXCEPT !.pc = "check", !.todo = Groups, !.lenient = lenient]
<1>1. /\ run' = [h \in Runs |-> IF h = g THEN begun ELSE IF first THEN NoRun ELSE run[h]]
      /\ disturbed' = IF first THEN {} ELSE disturbed
      /\ UNCHANGED <<defects, text07, proto, missing, server>>
  BY DEF begin
<1>2. PICK b : b = begun
  OBVIOUS
<1>3. Ordered(b) /\ Stands(b)
  BY <1>2, BegunStands
<1>4. CASE ~first
  <2>1. Kept
    BY <1>1, <1>4 DEF Kept
  <2>2. run \in [Runs -> Executions]
    BY DEF GateInv, GateTyped
  <2>3. run' = [run EXCEPT ![g] = b]
    BY <1>1, <1>2, <1>4, <2>2
  <2> QED BY <1>1, <1>3, <2>1, <2>3, Step DEF Goes, GateInv, GateTyped
<1>5. CASE first
  <2>1. ASSUME NEW s, Ordered(s), s = NoRun \/ s = b
        PROVE  (Ordered(s) /\ Stands(s))'
    <3>1. Ordered(s)'
      BY <2>1 DEF Ordered, InOrder, RolesInOrder, Done
    <3>2. CASE s = NoRun
      <4>1. s.pc = "idle" /\ s.found = {}
        BY <3>2 DEF NoRun
      <4> QED BY <3>1, <4>1 DEF Stands, InHand, IsContent, AtPostgres
    <3>3. CASE s = b
      <4>1. s.pc = "check" /\ s.found = {} /\ s.todo = Groups
        BY <1>2, <3>3 DEF NoRun
      <4>2. 1 .. Len(Groups) - Len(Groups) = {}
        <5>1. 1 .. 12 - 12 = {}
          OBVIOUS
        <5> QED BY <5>1, GroupFacts
      <4>3. Done(s)' = {}
        BY <4>1, <4>2 DEF Done
      <4> QED BY <3>1, <4>1, <4>3 DEF Stands, InHand, IsContent, AtPostgres
    <3> QED BY <2>1, <3>2, <3>3
  <2>2. \A h \in Runs : run'[h] = NoRun \/ run'[h] = b
    BY <1>1, <1>2, <1>5
  <2>3. ASSUME NEW h \in Runs PROVE (Ordered(run[h]) /\ Stands(run[h]))'
    <3>1. PICK s : s = run'[h]
      OBVIOUS
    <3>2. Ordered(s) /\ (s = NoRun \/ s = b)
      BY <1>3, <2>2, <3>1, NoRunStands
    <3> QED BY <2>1, <3>1, <3>2
  <2>4. \A h \in Runs : run'[h] \in Executions
    BY <1>3, <2>2, NoRunStands DEF Ordered
  <2>5. GateTyped'
    BY <1>1, <2>4 DEF GateTyped, GateInv
  <2> QED BY <2>3, <2>5 DEF GateInv
<1> QED BY <1>4, <1>5

\* What nobody runs stands whatever changes.
LEMMA NobodyRuns ==
  ASSUME GateInv, run = [g \in Runs |-> NoRun], UNCHANGED run,
         defects' \subseteq Editable, text07' \in Protos, proto' \in Protos \cup {Nothing},
         server' \in [up : BOOLEAN, roles : SUBSET Range(Roles)], missing' = missing
  PROVE  GateInv'
<1>1. GateTyped'
  BY DEF GateInv, GateTyped
<1>2. ASSUME NEW s, Ordered(s), s = NoRun
      PROVE  (Ordered(s) /\ Stands(s))'
  <2>1. Ordered(s)'
    BY <1>2 DEF Ordered, InOrder, RolesInOrder, Done
  <2>2. s.pc = "idle" /\ s.found = {}
    BY <1>2 DEF NoRun
  <2> QED BY <2>1, <2>2 DEF Stands, InHand, IsContent, AtPostgres
<1>3. ASSUME NEW h \in Runs PROVE (Ordered(run[h]) /\ Stands(run[h]))'
  <2>1. PICK s : s = run'[h]
    OBVIOUS
  <2>2. s = NoRun /\ Ordered(s)
    BY <2>1, NoRunStands
  <2> QED BY <1>2, <2>1, <2>2
<1> QED BY <1>1, <1>3 DEF GateInv

LEMMA EditDocumentStep ==
  ASSUME GateInv, NEW m \in Editable, edit_document(m)
  PROVE  GateInv'
<1>1. /\ UNCHANGED <<text07, proto, missing, server, run>> /\ defects' \subseteq Editable
      /\ \A d \in defects \cup defects' : (d \in defects <=> d \in defects') \/ d = m
  BY DEF edit_document, GateInv, GateTyped
<1>2. CASE run = [g \in Runs |-> NoRun]
  BY <1>1, <1>2, NobodyRuns DEF GateInv, GateTyped
<1>3. CASE run # [g \in Runs |-> NoRun]
  <2>1. disturbed' = disturbed \cup {m.group}
    BY <1>3 DEF edit_document, Changes
  <2>2. Kept
    BY <1>1, <2>1 DEF Kept
  <2>3. run' = [h \in Runs |-> run'[h]]
    BY <1>1 DEF GateInv, GateTyped
  <2>4. ASSUME NEW h \in Runs PROVE \E s : run'[h] = s /\ Ordered(s) /\ Stands(s)'
    <3>1. PICK s : s = run[h]
      OBVIOUS
    <3> QED BY <1>1, <2>2, <3>1, StandsIsKept DEF GateInv
  <2> QED BY <1>1, <2>2, <2>3, <2>4, StepOfAll DEF GateInv, GateTyped
<1> QED BY <1>2, <1>3

LEMMA Edit07Step ==
  ASSUME GateInv, NEW text \in Protos, edit_07(text)
  PROVE  GateInv'
<1>1. UNCHANGED <<defects, proto, missing, server, run>> /\ text07' = text
  BY DEF edit_07
<1>2. CASE run = [g \in Runs |-> NoRun]
  BY <1>1, <1>2, NobodyRuns DEF GateInv, GateTyped
<1>3. CASE run # [g \in Runs |-> NoRun]
  <2>1. disturbed' = disturbed \cup {"proto"}
    BY <1>3 DEF edit_07, Changes
  <2>2. Kept
    BY <1>1, <2>1 DEF Kept
  <2>3. run' = [h \in Runs |-> run'[h]]
    BY <1>1 DEF GateInv, GateTyped
  <2>4. ASSUME NEW h \in Runs PROVE \E s : run'[h] = s /\ Ordered(s) /\ Stands(s)'
    <3>1. PICK s : s = run[h]
      OBVIOUS
    <3> QED BY <1>1, <2>2, <3>1, StandsIsKept DEF GateInv
  <2> QED BY <1>1, <2>2, <2>3, <2>4, StepOfAll DEF GateInv, GateTyped
<1> QED BY <1>2, <1>3

LEMMA ServerStep ==
  ASSUME GateInv, server_comes_or_goes
  PROVE  GateInv'
<1>1. /\ UNCHANGED <<defects, text07, proto, missing>>
      /\ server' = [server EXCEPT !.up = ~@]
      /\ run' = [h \in Runs |->
           IF server.up /\ run[h].tx.begun THEN Found(h, {DdlFails}) ELSE run[h]]
  BY DEF server_comes_or_goes
<1>2. server' \in [up : BOOLEAN, roles : SUBSET Range(Roles)]
  BY <1>1 DEF GateInv, GateTyped
<1>3. CASE run = [g \in Runs |-> NoRun]
  <2>1. ~NoRun.tx.begun
    BY NothingBegun DEF NoRun
  <2>2. run' = run
    BY <1>1, <1>3, <2>1
  <2> QED BY <1>1, <1>2, <1>3, <2>2, NobodyRuns DEF GateInv, GateTyped
<1>4. CASE run # [g \in Runs |-> NoRun]
  <2>1. disturbed' = disturbed \cup {"server"}
    BY <1>4 DEF server_comes_or_goes, Changes
  <2>2. Kept
    BY <1>1, <2>1 DEF Kept
  <2>3. run' = [h \in Runs |-> run'[h]]
    BY <1>1
  <2>4. ASSUME NEW h \in Runs PROVE \E s : run'[h] = s /\ Ordered(s) /\ Stands(s)'
    <3>1. PICK r : r = run[h]
      OBVIOUS
    <3>2. Ordered(r) /\ Stands(r)
      BY <3>1 DEF GateInv
    <3>3. CASE server.up /\ r.tx.begun
      <4>1. r.todo # <<>> /\ Head(r.todo) = "postgres"
        <5>1. Len(r.todo) = 7
          BY <3>2, <3>3 DEF Ordered, InOrder, AtPostgres
        <5> QED BY <3>2, <5>1, InTheMidst
      <4>2. PICK messages : messages = {DdlFails}
        OBVIOUS
      <4>3. PICK s : s = FoundIn(r, messages)
        OBVIOUS
      <4>4. run'[h] = s
        BY <1>1, <3>1, <3>3, <4>2, <4>3 DEF Found, FoundIn
      <4>5. Ordered(s)
        BY <3>2, <4>1, <4>2, <4>3, DdlFailsIs, FoundOrdered
      <4>6. s.pc = "check" /\ s.found = r.found \cup {DdlFails} /\ s.shared = r.shared
        BY <3>2, <4>2, <4>3, FoundFields DEF Ordered
      <4>7. ASSUME NEW m \in s.found PROVE Real(s, m)'
        <5>1. CASE m \in r.found
          <6>1. Real(s, m)
            BY <3>2, <4>6, <5>1 DEF Stands, Real
          <6> QED BY <2>2, <6>1, RealIsKept
        <5>2. CASE m = DdlFails
          BY <2>1, <5>2, DdlFailsIs DEF Real
        <5> QED BY <4>6, <5>1, <5>2
      <4>8. Stands(s)'
        BY <4>6, <4>7 DEF Stands, InHand, IsContent, AtPostgres
      <4> QED BY <4>4, <4>5, <4>8
    <3>4. CASE ~(server.up /\ r.tx.begun)
      <4>1. run'[h] = r
        BY <1>1, <3>1, <3>4
      <4> QED BY <2>2, <3>2, <4>1, StandsIsKept
    <3> QED BY <3>3, <3>4
  <2> QED BY <1>1, <1>2, <2>2, <2>3, <2>4, StepOfAll DEF GateInv, GateTyped
<1> QED BY <1>3, <1>4

----------------------------------------------------------------------------
\* Every execution's checks come in their order, what it has in hand, what it was content
\* with and what it has found are so, or were touched: no step of the runs or of the editors
\* changes that.  (validate_spec.py: main and its groups.)
THEOREM GateInvariant ==
  GateSpec => []GateInv
<1>1. GateInit => GateInv
  <2> SUFFICES ASSUME GateInit PROVE GateInv
    OBVIOUS
  <2>1. \A g \in Runs : run[g] = NoRun
    BY DEF GateInit
  <2>2. run \in [Runs -> Executions]
    BY NoRunStands DEF GateInit, Ordered
  <2>3. GateTyped
    BY <2>2, DefectsAreDefects DEF GateInit, GateTyped
  <2> QED BY <2>1, <2>3, NoRunStands DEF GateInv
<1>2. GateInv /\ [GateNext]_gateVars => GateInv'
  <2> SUFFICES ASSUME GateInv, [GateNext]_gateVars PROVE GateInv'
    OBVIOUS
  <2>1. ASSUME NEW g \in Runs, NEW lenient \in BOOLEAN, begin(g, lenient) PROVE GateInv'
    BY <2>1, BeginStep
  <2>2. ASSUME NEW g \in Runs, check_documents(g) PROVE GateInv'
    BY <2>2, CheckDocumentsStep
  <2>3. ASSUME NEW g \in Runs, extract_proto(g) \/ write_proto(g) \/ compile_proto(g)
        PROVE  GateInv'
    BY <2>3, ExtractProtoStep, WriteProtoStep, CompileProtoStep
  <2>4. ASSUME NEW g \in Runs, probe_server(g) \/ connect(g) \/ create_role(g)
        PROVE  GateInv'
    BY <2>4, ProbeServerStep, ConnectStep, CreateRoleStep
  <2>5. ASSUME NEW g \in Runs, execute_sql(g) \/ rollback(g) \/ run_scenarios(g)
        PROVE  GateInv'
    BY <2>5, ExecuteSqlStep, RollbackStep, RunScenariosStep
  <2>6. ASSUME NEW g \in Runs, main_ends(g) \/ killed(g)
        PROVE  GateInv'
    BY <2>6, MainEndsStep, KilledStep
  <2>7. ASSUME NEW m \in Editable, edit_document(m) PROVE GateInv'
    BY <2>7, EditDocumentStep
  <2>8. ASSUME NEW text \in Protos, edit_07(text) PROVE GateInv'
    BY <2>8, Edit07Step
  <2>9. CASE server_comes_or_goes
    BY <2>9, ServerStep
  <2>10. CASE UNCHANGED gateVars
    <3>1. Kept /\ UNCHANGED <<defects, text07, proto, server, run>>
      BY <2>10 DEF gateVars, Kept
    <3>2. run' = [h \in Runs |-> run'[h]]
      BY <3>1 DEF GateInv, GateTyped
    <3>3. ASSUME NEW h \in Runs PROVE \E s : run'[h] = s /\ Ordered(s) /\ Stands(s)'
      <4>1. PICK s : s = run[h]
        OBVIOUS
      <4> QED BY <3>1, <4>1, StandsIsKept DEF GateInv
    <3> QED BY <3>1, <3>2, <3>3, StepOfAll DEF GateInv, GateTyped
  <2> QED BY <2>1, <2>2, <2>3, <2>4, <2>5, <2>6, <2>7, <2>8, <2>9, <2>10 DEF GateNext
<1> QED BY <1>1, <1>2, PTL DEF GateSpec

\* "spec/ valid (all checks executed)" is true of all that nobody has touched since the run, or
\* one that overlaps it, began: whichever run wrote adapter.proto last, and wherever the server
\* went in between (main's fail-closed end, and _downgrade).
THEOREM ValidAlwaysTrue ==
  GateSpec => []ValidIsTrue
<1>1. GateInv => ValidIsTrue
  <2> SUFFICES ASSUME GateInv, NEW g \in Runs, run[g].pc = "valid"
               PROVE  /\ missing = {}
                      /\ \A m \in defects : m.group \in disturbed
                      /\ "proto" \notin disturbed => proto = text07 /\ proto \in Compiles
                      /\ "server" \notin disturbed => server.up
    BY DEF ValidIsTrue
  <2>1. run[g].todo = <<>> /\ run[g].found = {}
    BY DEF GateInv, Ordered, InOrder, Ended
  <2>2. Len(<<>>) = 0
    BY EmptySeq
  <2>3. Len(Groups) - Len(run[g].todo) = 12
    BY <2>1, <2>2, GroupFacts
  <2>4. Done(run[g]) = Range(Groups)
    <3>1. Done(run[g]) = {Groups[n] : n \in 1 .. 12}
      BY <2>3 DEF Done
    <3> QED BY <3>1, GroupFacts
  <2>5. ASSUME NEW group \in Range(Groups) PROVE Content(group)
    BY <2>1, <2>4 DEF GateInv, Stands, IsContent
  <2>6. /\ "vectors" \in Range(Groups) /\ "openapi" \in Range(Groups)
        /\ "proto" \in Range(Groups) /\ "postgres" \in Range(Groups)
    BY GroupFacts
  <2>7. missing = {}
    <3>1. Needs("vectors") = "node" /\ Needs("openapi") = "pyyaml"
      BY DEF Needs
    <3>2. "node" \notin missing /\ "pyyaml" \notin missing /\ "grpcio-tools" \notin missing
      BY <2>5, <2>6, <3>1 DEF Content
    <3> QED BY <3>2, DefectsAreDefects DEF GateInv, GateTyped
  <2>8. \A m \in defects : m.group \in disturbed
    <3>1. \A m \in Editable : m.group \in Range(Groups)
      <4>1. \A group \in Range(Groups) :
              Defect(group).group \in Range(Groups)
        BY DEF Defect
      <4>2. /\ Quoting("superseded").group \in Range(Groups)
            /\ DdlFails.group \in Range(Groups)
        <5>1. "superseded" = Groups[7] /\ 7 \in 1 .. 12
          BY DEF Groups
        <5> QED BY <2>6, <5>1, GroupFacts DEF Quoting, DdlFails
      <4> QED BY <4>1, <4>2, DefectsAreDefects
    <3> QED BY <2>5, <3>1 DEF Content, GateInv, GateTyped
  <2> QED BY <2>5, <2>6, <2>7, <2>8 DEF Content
<1> QED BY <1>1, GateInvariant, PTL

\* No run reports a defect that another run makes: what it found is there, was touched, or is
\* of the scenarios when they share the server.
THEOREM FoundAlwaysReal ==
  GateSpec => []FoundIsReal
<1>1. GateInv => FoundIsReal
  BY DEF GateInv, Stands, Real, FoundIsReal
<1> QED BY <1>1, GateInvariant, PTL

\* Two dry runs never wait for each other's roles, whatever roles the DDL grants to: a run that
\* waits has more before it than the run it waits for (_apply_spec_ddl sorts them).
THEOREM DryRunsNeverDeadlock ==
  GateSpec => []DryRunsDoNotDeadlock
<1>1. ASSUME GateInv, NEW g \in Runs, NEW h \in Runs, Waits(g, h)
      PROVE  Len(run[h].tx.grants) < Len(run[g].tx.grants)
  <2> DEFINE L == Len(Roles)
             n == Len(run[g].tx.grants)
             o == Len(run[h].tx.grants)
  <2>1. /\ run[g].tx.grants \in Seq(Range(Roles))
        /\ run[h].tx.grants \in Seq(Range(Roles))
        /\ RolesInOrder(run[g].tx) /\ RolesInOrder(run[h].tx)
    BY <1>1 DEF GateInv, Ordered, Executions, Txs
  <2>2. L \in Nat /\ o \in Nat /\ DOMAIN Roles = 1 .. L
    BY <2>1, LenProperties, RolesAreRoles
  <2>3. n \in Nat /\ n >= 1 /\ Head(run[g].tx.grants) = run[g].tx.grants[1]
    BY <1>1, <2>1, FirstAndRest DEF Waits
  <2>4. /\ n <= L /\ o <= L
        /\ \A k \in 1 .. n : run[g].tx.grants[k] = Roles[L - n + k]
        /\ \A c \in run[h].tx.created : \E i \in 1 .. L - o : c = Roles[i]
    BY <2>1 DEF RolesInOrder
  <2>5. Head(run[g].tx.grants) \in run[h].tx.created
    BY <1>1 DEF Waits
  <2> HIDE DEF L, n, o
  <2>6. 1 \in 1 .. n /\ L - n + 1 \in 1 .. L
    BY <2>2, <2>3, <2>4
  <2>7. Head(run[g].tx.grants) = Roles[L - n + 1]
    BY <2>3, <2>4, <2>6
  <2>8. PICK i \in 1 .. L - o : Roles[L - n + 1] = Roles[i]
    BY <2>4, <2>5, <2>7
  <2>9. i \in 1 .. L
    BY <2>2, <2>4
  <2>10. L - n + 1 = i
    BY <2>2, <2>6, <2>8, <2>9, RolesAreRoles DEF IsInjective
  <2> QED BY <2>2, <2>3, <2>4, <2>10 DEF n, o
<1>2. GateInv => DryRunsDoNotDeadlock
  <2> SUFFICES ASSUME GateInv, NEW g \in Runs, NEW h \in Runs, Waits(g, h), Waits(h, g)
               PROVE  FALSE
    BY DEF DryRunsDoNotDeadlock
  <2>1. /\ Len(run[h].tx.grants) < Len(run[g].tx.grants)
        /\ Len(run[g].tx.grants) < Len(run[h].tx.grants)
    BY <1>1
  <2>2. Len(run[h].tx.grants) \in Nat /\ Len(run[g].tx.grants) \in Nat
    BY LenProperties DEF GateInv, Ordered, Executions, Txs
  <2> QED BY <2>1, <2>2
<1> QED BY <1>2, GateInvariant, PTL
=============================================================================
