----------------------------- MODULE PinProofs -----------------------------
(***************************************************************************)
(* Proofs about the pins: SdkPin and MutationRun of spike 06, for any SDK, *)
(* mutations, harnesses and gates, and PinResume of spike 02, for any      *)
(* runs, workers, definitions and adapters.                                *)
(***************************************************************************)
EXTENDS MutationRun, PinResume, SequenceTheorems, TLAPS

----------------------------------------------------------------------------
(* Which files an import runs. *)

InitOf(module) == Append(module, "__init__")

\* A module's name, as a statement of the SDK may give it.
IsName(dotted) == dotted \in Seq(Segments \ {"__init__"}) /\ dotted # <<>>

LEMMA FirstOf ==
  ASSUME NEW S, NEW s \in Seq(S), NEW n \in 0 .. Len(s)
  PROVE  /\ SubSeq(s, 1, n) \in Seq(S) /\ Len(SubSeq(s, 1, n)) = n
         /\ \A i \in 1 .. n : SubSeq(s, 1, n)[i] = s[i]
OBVIOUS

LEMMA InitOfInjective ==
  ASSUME NEW s \in Seq(Segments), NEW t \in Seq(Segments)
  PROVE  /\ InitOf(s) \in Seq(Segments)
         /\ Len(InitOf(s)) = Len(s) + 1
         /\ IsInit(InitOf(s)) /\ ModuleOf(InitOf(s)) = s
         /\ InitOf(s) = InitOf(t) => s = t
<1>0. "__init__" \in Segments
  BY DEF Segments
<1>1. /\ InitOf(s) \in Seq(Segments) /\ Len(InitOf(s)) = Len(s) + 1
      /\ InitOf(s)[Len(s) + 1] = "__init__"
      /\ \A i \in 1 .. Len(s) : InitOf(s)[i] = s[i]
  BY <1>0, AppendProperties DEF InitOf
<1>2. IsInit(InitOf(s))
  BY <1>1 DEF IsInit
<1>3. SubSeq(InitOf(s), 1, Len(s)) = s
  <2>1. Len(s) \in 0 .. Len(InitOf(s))
    BY <1>1
  <2>2. /\ SubSeq(InitOf(s), 1, Len(s)) \in Seq(Segments)
        /\ Len(SubSeq(InitOf(s), 1, Len(s))) = Len(s)
        /\ \A i \in 1 .. Len(s) : SubSeq(InitOf(s), 1, Len(s))[i] = InitOf(s)[i]
    BY <1>1, <2>1, FirstOf
  <2> QED BY <1>1, <2>2, SeqEqual
<1>4. ModuleOf(InitOf(s)) = s
  BY <1>1, <1>2, <1>3 DEF ModuleOf
<1>5. InitOf(s) = InitOf(t) => s = t
  BY <1>0, AppendInjective DEF InitOf
<1> QED BY <1>1, <1>2, <1>4, <1>5

\* A file of the SDK is its module's, or its package's __init__.
LEMMA ModuleOfFile ==
  ASSUME NEW f \in Files
  PROVE  /\ f \in Seq(Segments) /\ f # <<>>
         /\ IsInit(f) => ModuleOf(f) \in Seq(Segments) /\ f = InitOf(ModuleOf(f))
         /\ ~IsInit(f) => ModuleOf(f) = f
<1>1. f \in Seq(Segments) /\ f # <<>> /\ Len(f) \in Nat \ {0}
  BY FilesAreModules
<1>2. ASSUME IsInit(f) PROVE ModuleOf(f) \in Seq(Segments) /\ f = InitOf(ModuleOf(f))
  <2> DEFINE m == SubSeq(f, 1, Len(f) - 1)
  <2>0. Len(f) - 1 \in 0 .. Len(f)
    BY <1>1
  <2>1. /\ m \in Seq(Segments) /\ Len(m) = Len(f) - 1
        /\ \A i \in 1 .. Len(f) - 1 : m[i] = f[i]
    BY <1>1, <2>0, FirstOf
  <2> HIDE DEF m
  <2>2. /\ InitOf(m) \in Seq(Segments) /\ Len(InitOf(m)) = Len(f)
        /\ InitOf(m)[Len(f)] = "__init__"
        /\ \A i \in 1 .. Len(f) - 1 : InitOf(m)[i] = f[i]
    <3>1. "__init__" \in Segments
      BY DEF Segments
    <3>2. /\ InitOf(m) \in Seq(Segments) /\ Len(InitOf(m)) = Len(m) + 1
          /\ InitOf(m)[Len(m) + 1] = "__init__"
          /\ \A i \in 1 .. Len(m) : InitOf(m)[i] = m[i]
      BY <2>1, <3>1, AppendProperties DEF InitOf
    <3> QED BY <1>1, <2>1, <3>2
  <2>3. InitOf(m) = f
    BY <1>1, <1>2, <2>2, SeqEqual DEF IsInit
  <2>4. ModuleOf(f) = m
    BY <1>2 DEF ModuleOf, m
  <2> QED BY <2>1, <2>3, <2>4
<1>3. ~IsInit(f) => ModuleOf(f) = f
  BY DEF ModuleOf
<1> QED BY <1>1, <1>2, <1>3

LEMMA PrefixIsSubSeq ==
  ASSUME NEW s \in Seq(Segments), NEW t \in Seq(Segments)
  PROVE  IsPrefix(s, t) <=> \E n \in 0 .. Len(t) : s = SubSeq(t, 1, n)
<1>1. SubSeq(s, 1, Len(s)) = s /\ Len(s) \in Nat
  BY SubSeqFull
<1>2. ASSUME NEW n \in 0 .. Len(t), s = SubSeq(t, 1, n)
      PROVE  Len(s) = n /\ Len(s) <= Len(t) /\ SubSeq(s, 1, Len(s)) = SubSeq(t, 1, Len(s))
  BY <1>1, <1>2, FirstOf
<1>3. Len(s) <= Len(t) => Len(s) \in 0 .. Len(t)
  BY <1>1
<1> QED BY <1>1, <1>2, <1>3 DEF IsPrefix

\* What runs when a module is imported: the module, and the packages it lies in.
LEMMA ReachesWhatRuns ==
  ASSUME NEW dotted, IsName(dotted)
  PROVE  Reaches(dotted) = RunsOnImport(dotted)
<1> DEFINE tail == Tail(dotted)
           init == InitOf(tail)
           there == {f \in Files : Installed(f)}
           Above(n) == InitOf(SubSeq(tail, 1, n))
<1>1. /\ tail \in Seq(Segments) /\ Len(tail) \in Nat
      /\ \A i \in 1 .. Len(tail) : tail[i] # "__init__"
      /\ tail # <<>> => Len(tail) > 0
  BY HeadTailProperties DEF IsName
<1> HIDE DEF tail
<1>2. SubSeq(tail, 1, Len(tail)) = tail
  BY <1>1, SubSeqFull
<1>3. tail \in Files => ~IsInit(tail) /\ ModuleOf(tail) = tail /\ init \notin Files
                           /\ tail # <<>>
  BY <1>1, FilesAreModules DEF IsInit, ModuleOf, InitOf
\* The files whose module is a package that the module is or lies in.
<1>4. ASSUME NEW f \in Files, IsInit(f)
      PROVE  IsPrefix(ModuleOf(f), tail) <=> \E n \in 0 .. Len(tail) : f = Above(n)
  <2>1. \A n \in 0 .. Len(tail) : SubSeq(tail, 1, n) \in Seq(Segments)
    BY <1>1, FirstOf
  <2>2. ModuleOf(f) \in Seq(Segments) /\ f = InitOf(ModuleOf(f))
    BY <1>4, ModuleOfFile
  <2>3. \A n \in 0 .. Len(tail) : f = Above(n) <=> ModuleOf(f) = SubSeq(tail, 1, n)
    BY <2>1, <2>2, InitOfInjective
  <2> QED BY <1>1, <2>2, <2>3, PrefixIsSubSeq
<1>5. ASSUME NEW n \in 0 .. Len(tail) PROVE IsInit(Above(n))
  BY <1>1, FirstOf, InitOfInjective
<1>6. CASE Head(dotted) # "pydantic_ai"
  <2>1. module_to_relpath(dotted) = {}
    BY <1>6 DEF module_to_relpath
  <2>2. RunsOnImport(dotted) = {}
    BY <1>6 DEF RunsOnImport
  <2> QED BY <2>1, <2>2 DEF Reaches
<1>7. CASE Head(dotted) = "pydantic_ai" /\ tail # <<>> /\ Installed(tail)
  <2>1. tail \in there /\ ModuleOf(tail) = tail /\ init \notin Files
    BY <1>3, <1>7 DEF Installed
  <2>2. module_to_relpath(dotted) = {tail}
    BY <1>7 DEF module_to_relpath, tail
  <2>3. Reaches(dotted) = {tail} \cup ancestor_inits(tail)
    BY <2>2 DEF Reaches
  <2>4. RunsOnImport(dotted) =
          {f \in there : IsPrefix(ModuleOf(f), tail) /\ (f = tail \/ IsInit(f))}
    BY <1>7, <2>1 DEF RunsOnImport, IsName, tail
  <2>5. ancestor_inits(tail) = {f \in there : \E n \in 0 .. Len(tail) - 1 : f = Above(n)}
    <3>1. \A n \in 0 .. Len(tail) - 1 : Above(n) # tail
      <4> SUFFICES ASSUME NEW n \in 0 .. Len(tail) - 1 PROVE Above(n) # tail
        OBVIOUS
      <4>1. SubSeq(tail, 1, n) \in Seq(Segments)
        BY <1>1, FirstOf
      <4> QED BY <1>3, <2>1, <4>1, InitOfInjective
    <3> QED BY <3>1 DEF ancestor_inits, Installed, InitOf
  <2>6. \A f \in there : IsInit(f) =>
          (IsPrefix(ModuleOf(f), tail) <=> \E n \in 0 .. Len(tail) - 1 : f = Above(n))
    <3>1. \A f \in there : f # Above(Len(tail))
      BY <1>2, <2>1
    <3>2. \A n \in 0 .. Len(tail) : n = Len(tail) \/ n \in 0 .. Len(tail) - 1
      BY <1>1
    <3>3. \A n \in 0 .. Len(tail) - 1 : n \in 0 .. Len(tail)
      BY <1>1
    <3> HIDE DEF Above
    <3> QED BY <1>4, <3>1, <3>2, <3>3
  <2>7. \A n \in 0 .. Len(tail) - 1 : IsInit(Above(n))
    BY <1>5
  <2>8. IsPrefix(tail, tail)
    BY <1>1, <1>2, PrefixIsSubSeq
  <2> HIDE DEF Above, there, init
  <2> QED BY <2>1, <2>3, <2>4, <2>5, <2>6, <2>7, <2>8
<1>8. CASE Head(dotted) = "pydantic_ai" /\ ~(tail # <<>> /\ Installed(tail)) /\ Installed(init)
  <2>1. init \in there /\ IsInit(init) /\ ModuleOf(init) = tail /\ tail \notin there
    BY <1>1, <1>3, <1>8, InitOfInjective DEF Installed
  <2>2. module_to_relpath(dotted) = {init}
    BY <1>8 DEF module_to_relpath, tail, InitOf
  <2>3. Reaches(dotted) = {init} \cup ancestor_inits(init)
    BY <2>2 DEF Reaches
  <2>4. RunsOnImport(dotted) = {f \in there : IsPrefix(ModuleOf(f), tail) /\ IsInit(f)}
    BY <1>8, <2>1 DEF RunsOnImport, IsName, tail
  <2>5. {init} \cup ancestor_inits(init)
          = {f \in there : \E n \in 0 .. Len(tail) : f = Above(n)}
    <3>1. Len(init) - 1 = Len(tail) /\ init = Above(Len(tail))
      <4>1. Len(init) = Len(tail) + 1
        BY <1>1, InitOfInjective
      <4>2. Len(init) - 1 = Len(tail)
        BY <1>1, <4>1
      <4>3. init = Above(Len(tail))
        BY <1>2, Zenon
      <4> QED BY <4>2, <4>3
    <3>2. ASSUME NEW n \in 0 .. Len(tail) PROVE SubSeq(init, 1, n) = SubSeq(tail, 1, n)
      <4>1. /\ init \in Seq(Segments) /\ Len(init) = Len(tail) + 1
            /\ \A i \in 1 .. Len(tail) : init[i] = tail[i]
        BY <1>1, InitOfInjective, AppendProperties DEF InitOf, Segments
      <4>2. n \in 0 .. Len(init)
        BY <1>1, <4>1
      <4>3. /\ SubSeq(init, 1, n) \in Seq(Segments) /\ Len(SubSeq(init, 1, n)) = n
            /\ \A i \in 1 .. n : SubSeq(init, 1, n)[i] = init[i]
        BY <4>1, <4>2, FirstOf
      <4>4. /\ SubSeq(tail, 1, n) \in Seq(Segments) /\ Len(SubSeq(tail, 1, n)) = n
            /\ \A i \in 1 .. n : SubSeq(tail, 1, n)[i] = tail[i]
        BY <1>1, FirstOf
      <4> QED BY <1>1, <4>1, <4>3, <4>4, SeqEqual
    <3>3. ancestor_inits(init) =
            {f \in there : f # init /\ \E n \in 0 .. Len(tail) : f = Above(n)}
      BY <3>1, <3>2 DEF ancestor_inits, Installed, InitOf
    <3> QED BY <1>1, <2>1, <3>1, <3>3
  <2> HIDE DEF Above, init
  <2> QED BY <1>4, <1>5, <2>3, <2>4, <2>5
<1>9. CASE Head(dotted) = "pydantic_ai" /\ ~(tail # <<>> /\ Installed(tail)) /\ ~Installed(init)
  <2>1. module_to_relpath(dotted) = {}
    BY <1>9 DEF module_to_relpath, tail, InitOf
  <2>2. \A f \in there : ModuleOf(f) # tail
    BY <1>3, <1>9, ModuleOfFile
  <2>3. RunsOnImport(dotted) = {}
    BY <2>2 DEF RunsOnImport, tail
  <2> QED BY <2>1, <2>3 DEF Reaches
<1> QED BY <1>6, <1>7, <1>8, <1>9
\* Absolute or relative, a statement of the SDK names modules.
LEMMA StatementsNameModules ==
  ASSUME NEW f \in Files, NEW i \in Statements, NEW d \in NamedIn(i, f)
  PROVE  IsName(d)
<1> DEFINE Plain == Segments \ {"__init__"}
           dir == SubSeq(f, 1, Len(f) - 1)
           pkg == <<"pydantic_ai">> \o dir
           n == Len(pkg) + 1 - i.level
           base == SubSeq(pkg, 1, n)
<1>1. /\ i.level \in Nat /\ i.module \in Seq(Plain) /\ i.names \subseteq Plain
      /\ i.level = 0 => i.module # <<>>
  BY StatementsAreStatements
<1>2. pkg \in Seq(Plain)
  <2>1. dir \in Seq(Plain)
    <3>1. /\ f \in Seq(Segments) /\ Len(f) - 1 \in 0 .. Len(f)
          /\ \A k \in 1 .. Len(f) - 1 : f[k] # "__init__" /\ f[k] \in Segments
      BY FilesAreModules
    <3>2. \A k \in 1 .. Len(f) - 1 : f[k] \in Plain
      BY <3>1
    <3>3. Len(f) - 1 \in Int
      BY <3>1
    <3> QED BY <3>2, <3>3, SubSeqProperties
  <2>2. <<"pydantic_ai">> \in Seq(Plain)
    BY DEF Segments
  <2> QED BY <2>1, <2>2, ConcatProperties
<1> HIDE DEF pkg
<1>3. ASSUME i.level # 0 PROVE base \in Seq(Plain)
  <2>1. n \in Int /\ n <= Len(pkg)
    BY <1>1, <1>2, <1>3
  <2>2. \A k \in 1 .. n : pkg[k] \in Plain
    BY <1>2, <2>1
  <2> QED BY <2>1, <2>2, SubSeqProperties
<1> HIDE DEF base, Plain
<1>4. CASE i.level = 0
  BY <1>1, <1>4 DEF NamedIn, IsName, Plain
<1>5. CASE i.level # 0 /\ i.module # <<>>
  <2>1. d = base \o i.module
    BY <1>5 DEF NamedIn, base, pkg, dir
  <2>2. base \o i.module \in Seq(Plain) /\ base \o i.module # <<>>
    BY <1>1, <1>3, <1>5, ConcatProperties, ConcatEqualIffEmpty
  <2> QED BY <2>1, <2>2 DEF IsName, Plain
<1>6. CASE i.level # 0 /\ i.module = <<>>
  <2>1. PICK name \in i.names : d = Append(base, name)
    BY <1>6 DEF NamedIn, base, pkg, dir
  <2> QED BY <1>1, <1>3, <1>6, <2>1, AppendProperties DEF IsName, Plain
<1> QED BY <1>4, <1>5, <1>6

\* The oracle of a file's imports finds what Python runs for them.
LEMMA ImportsRun ==
  ASSUME TypeOK, NEW f \in Files, Installed(f)
  PROVE  sdk_imports_of(f) =
           UNION {RunsOnImport(d) : d \in UNION {NamedIn(i, f) : i \in sdk[f].imports}}
<1>1. sdk[f].imports \subseteq Statements
  BY DEF TypeOK, Installed, Statements, Contents
<1>2. \A d \in UNION {NamedIn(i, f) : i \in sdk[f].imports} : Reaches(d) = RunsOnImport(d)
  BY <1>1, StatementsNameModules, ReachesWhatRuns
<1> QED BY <1>2 DEF sdk_imports_of

----------------------------------------------------------------------------
(* Types. *)

\* What an import reaches is there.
LEMMA ReachesFiles ==
  /\ \A d : Reaches(d) \subseteq Files
  /\ \A f : sdk_imports_of(f) \subseteq Files
  /\ \A S : frontier(S) \subseteq Files
<1>1. ASSUME NEW d PROVE Reaches(d) \subseteq Files
  BY DEF Reaches, module_to_relpath, ancestor_inits, Installed
<1>2. ASSUME NEW f PROVE sdk_imports_of(f) \subseteq Files
  BY <1>1 DEF sdk_imports_of
<1>3. ASSUME NEW S PROVE frontier(S) \subseteq Files
  BY <1>2 DEF frontier
<1> QED BY <1>1, <1>2, <1>3

LEMMA MakesPin ==
  ASSUME NEW files, NEW edge \in (SUBSET Files) \cup {None},
         DOMAIN files \subseteq REQUIRED_PINS,
         \A f \in DOMAIN files : files[f] \in Builds[f] \ {None}
  PROVE  IsPin([files |-> files, frontier |-> edge])
<1> DEFINE p == [files |-> files, frontier |-> edge]
<1>1. p = [files |-> p.files, frontier |-> p.frontier] /\ p.files = files /\ p.frontier = edge
  OBVIOUS
<1> HIDE DEF p
<1>2. IsPin(p)
  BY <1>1 DEF IsPin
<1> QED BY <1>2 DEF p

LEMMA NoPinIsPin == DOMAIN <<>> = {} /\ IsPin(NoPin)
<1>1. <<>> \in Seq({}) /\ Len(<<>>) = 0
  BY EmptySeq
<1>2. DOMAIN <<>> = {}
  BY <1>1
<1> DEFINE empty == <<>>
<1>3. NoPin = [files |-> empty, frontier |-> None] /\ DOMAIN empty = {}
  BY <1>2 DEF NoPin
<1> HIDE DEF empty
<1>4. IsPin(NoPin)
  BY <1>3, MakesPin
<1> QED BY <1>2, <1>4

LEMMA InitHasTypes == Init => TypeOK
<1> SUFFICES ASSUME Init PROVE TypeOK
  OBVIOUS
<1>1. sdk \in [Files -> Contents \cup {None}] /\ \A f \in Files : sdk[f] \in Builds[f]
  BY VerifiedIsComplete DEF Init
<1>2. IsPin(pin)
  BY <1>1, VerifiedIsComplete, RequiredAreFiles, ReachesFiles DEF Init, IsPin
<1>3. IsPin(session.spec) /\ IsPin([files |-> recorder.files, frontier |-> None])
  BY NoPinIsPin DEF Init, NoSession, NoRecorder, NoPin
<1> QED BY <1>1, <1>2, <1>3, MaxChangesInNat DEF Init, TypeOK, NoSession, NoRecorder

\* A session's steps.
LEMMA SessionKeepsTypes ==
  ASSUME TypeOK, NEW f \in Files,
         \/ session_starts \/ check_reads_pin \/ check_coverage \/ check_ends \/ gate0
         \/ check_digest(f) \/ check_imports(f)
  PROVE  TypeOK'
<1>1. /\ UNCHANGED <<sdk, source, pin, recorder, fresh, changes>>
      /\ touched' \in {touched, {}}
  BY DEF session_starts, check_reads_pin, check_coverage, check_ends, gate0, check_digest,
         check_imports, Goes
<1>2. /\ IsPin(session'.spec)
      /\ session' \in [pc : {"idle", "require", "digests", "frontier", "gates", "passed",
                             "failed", "aborted"},
                       spec : {session'.spec}, todo : SUBSET DOMAIN session'.spec.files,
                       reached : SUBSET Files, problems : BOOLEAN]
  <2>1. CASE session_starts
    BY <2>1, NoPinIsPin DEF session_starts, Goes, NoSession
  <2>2. CASE check_reads_pin
    BY <2>2 DEF check_reads_pin, Goes, TypeOK
  <2>3. CASE check_coverage
    BY <2>3 DEF check_coverage, Goes, TypeOK, Uncovered
  <2>4. CASE check_ends
    BY <2>4, NoPinIsPin DEF check_ends, Goes, NoSession
  <2>5. CASE gate0
    BY <2>5 DEF gate0, Goes, TypeOK
  <2>6. CASE check_digest(f)
    BY <2>6 DEF check_digest, Goes, TypeOK, Differs
  <2>7. CASE check_imports(f)
    <3>1. session.reached \cup sdk_imports_of(f) \subseteq Files
      BY ReachesFiles DEF TypeOK
    <3>2. CASE Installed(f)
      <4>1. session' = [session EXCEPT !.todo = @ \ {f}, !.reached = @ \cup sdk_imports_of(f)]
        BY <2>7, <3>2 DEF check_imports, Goes
      <4> QED BY <3>1, <4>1 DEF TypeOK
    <3>3. CASE ~Installed(f)
      BY <2>7, <3>3, NoPinIsPin DEF check_imports, Goes, NoSession
    <3> QED BY <3>2, <3>3
  <2> QED BY <2>1, <2>2, <2>3, <2>4, <2>5, <2>6, <2>7
<1> QED BY <1>1, <1>2 DEF TypeOK, IsPin

\* A record's steps.
LEMMA RecorderKeepsTypes ==
  ASSUME TypeOK, NEW f \in REQUIRED_PINS,
         record_starts \/ record_writes \/ record_digest(f) \/ record_imports(f)
  PROVE  TypeOK'
<1>1. UNCHANGED <<sdk, source, session, changes>>
  BY DEF record_starts, record_writes, record_digest, record_imports, Records
<1>2. touched' \subseteq Files \cup {Pin, Spike} /\ fresh' \in BOOLEAN
  BY DEF TypeOK, record_starts, record_writes, record_digest, record_imports, Touches
<1>3. IsPin(pin')
  <2>1. CASE record_writes
    <3>1. /\ DOMAIN recorder.files \subseteq REQUIRED_PINS
          /\ \A g \in DOMAIN recorder.files : recorder.files[g] \in Builds[g] \ {None}
          /\ recorder.reached \subseteq Files
      BY DEF TypeOK, IsPin
    <3> QED BY <2>1, <3>1 DEF record_writes, Recorded, IsPin
  <2>2. CASE ~record_writes
    BY <2>2 DEF TypeOK, record_starts, record_digest, record_imports
  <2> QED BY <2>1, <2>2
<1>4. /\ recorder' \in [pc : {"idle", "digests", "frontier"}, files : {recorder'.files},
                        todo : SUBSET REQUIRED_PINS, reached : SUBSET Files, torn : BOOLEAN]
      /\ IsPin([files |-> recorder'.files, frontier |-> None])
      /\ recorder'.pc = "digests" =>
           /\ recorder'.todo = REQUIRED_PINS \ DOMAIN recorder'.files
           /\ recorder'.todo # {} /\ recorder'.reached = {}
      /\ recorder'.pc = "frontier" => DOMAIN recorder'.files = REQUIRED_PINS
  <2>1. CASE recorder' = NoRecorder
    BY <2>1, NoPinIsPin DEF NoRecorder, NoPin
  <2>2. CASE record_starts
    BY <2>2, NoPinIsPin, RequiredAreFiles DEF record_starts, Records, NoRecorder, NoPin
  <2>3. CASE record_writes
    BY <2>1, <2>3 DEF record_writes, Records
  <2>4. CASE record_imports(f)
    <3>1. recorder.reached \cup sdk_imports_of(f) \subseteq Files
      BY ReachesFiles DEF TypeOK
    <3>2. CASE Installed(f)
      <4>1. /\ recorder' = [recorder EXCEPT !.todo = @ \ {f},
                                           !.reached = @ \cup sdk_imports_of(f)]
            /\ recorder.pc = "frontier"
        BY <2>4, <3>2 DEF record_imports, Records
      <4> QED BY <3>1, <4>1 DEF TypeOK, IsPin
    <3> QED BY <2>1, <2>4, <3>2 DEF record_imports, Records
  <2>5. CASE record_digest(f) /\ Installed(f)
    <3> DEFINE files == [g \in DOMAIN recorder.files \cup {f} |->
                           IF g = f THEN sdk[f] ELSE recorder.files[g]]
               todo == recorder.todo \ {f}
    <3>1. /\ recorder.pc = "digests" /\ f \in recorder.todo
          /\ recorder' = [recorder EXCEPT !.files = files,
                            !.todo = IF todo = {} THEN REQUIRED_PINS ELSE todo,
                            !.pc = IF todo = {} THEN "frontier" ELSE "digests"]
      BY <2>5 DEF record_digest, Records
    <3>2. /\ DOMAIN files = DOMAIN recorder.files \cup {f}
          /\ \A g \in DOMAIN files : files[g] = IF g = f THEN sdk[f] ELSE recorder.files[g]
      OBVIOUS
    <3> HIDE DEF files
    <3>3. /\ recorder'.files = files /\ recorder'.reached = {} /\ recorder'.torn \in BOOLEAN
          /\ recorder'.todo = IF todo = {} THEN REQUIRED_PINS ELSE todo
          /\ recorder'.pc = IF todo = {} THEN "frontier" ELSE "digests"
          /\ recorder' = [pc |-> recorder'.pc, files |-> files, todo |-> recorder'.todo,
                          reached |-> {}, torn |-> recorder'.torn]
      BY <3>1 DEF TypeOK
    <3>4. /\ DOMAIN recorder.files \subseteq REQUIRED_PINS
          /\ \A g \in DOMAIN recorder.files : recorder.files[g] \in Builds[g] \ {None}
          /\ recorder.todo = REQUIRED_PINS \ DOMAIN recorder.files
      BY <3>1 DEF TypeOK, IsPin
    <3>5. IsPin([files |-> files, frontier |-> None])
      <4>1. sdk[f] \in Builds[f] \ {None}
        BY <2>5 DEF TypeOK, Installed
      <4>2. /\ DOMAIN files \subseteq REQUIRED_PINS
            /\ \A g \in DOMAIN files : files[g] \in Builds[g] \ {None}
        BY <3>2, <3>4, <4>1
      <4> QED BY <4>2, MakesPin
    <3>6. todo = REQUIRED_PINS \ DOMAIN files
      BY <3>2, <3>4
    <3> QED BY <3>2, <3>3, <3>4, <3>5, <3>6
  <2>6. CASE record_digest(f) /\ ~Installed(f)
    BY <2>1, <2>6 DEF record_digest, Records
  <2> QED BY <2>2, <2>3, <2>4, <2>5, <2>6
<1> QED BY <1>1, <1>2, <1>3, <1>4 DEF TypeOK, IsPin

\* Installations and edits.
LEMMA ChangesKeepTypes ==
  ASSUME TypeOK,
         \/ \E f \in Files : \E content \in Builds[f] : install(f, content)
         \/ \E spec \in EditedPins : edit_pin(spec)
         \/ \E s \in Sources : edit_source(s)
  PROVE  TypeOK'
<1>1. ASSUME NEW f \in Files, NEW content \in Builds[f], install(f, content) PROVE TypeOK'
  <2>1. content \in Contents \cup {None}
    BY DEF Contents
  <2>2. sdk' \in [Files -> Contents \cup {None}] /\ \A g \in Files : sdk'[g] \in Builds[g]
    BY <1>1, <2>1 DEF install, TypeOK
  <2>3. recorder' = [recorder EXCEPT !.torn = recorder.pc # "idle"]
    BY <1>1 DEF install
  <2>4. /\ UNCHANGED <<source, pin, session>> /\ fresh' \in BOOLEAN
        /\ changes' \in 0 .. MaxChanges /\ touched' \subseteq Files \cup {Pin, Spike}
    BY <1>1, MaxChangesInNat DEF install, Changes, Touches, TypeOK
  <2> QED BY <2>2, <2>3, <2>4 DEF TypeOK, IsPin
<1>2. ASSUME NEW spec \in EditedPins, edit_pin(spec) PROVE TypeOK'
  <2>1. IsPin(spec)
    <3>1. CASE spec = [pin EXCEPT !.frontier = None]
      BY <3>1 DEF TypeOK, IsPin
    <3>2. ASSUME NEW f \in DOMAIN pin.files,
                 spec = [pin EXCEPT !.files = Restrict(pin.files, DOMAIN pin.files \ {f})]
          PROVE  IsPin(spec)
      <4> DEFINE files == Restrict(pin.files, DOMAIN pin.files \ {f})
      <4>1. /\ DOMAIN files = DOMAIN pin.files \ {f}
            /\ \A g \in DOMAIN files : files[g] = pin.files[g]
        BY DEF Restrict
      <4> HIDE DEF files
      <4>2. spec = [files |-> files, frontier |-> pin.frontier]
        BY <3>2 DEF TypeOK, IsPin, files
      <4> QED BY <4>1, <4>2, MakesPin DEF TypeOK, IsPin
    <3> QED BY <3>1, <3>2 DEF EditedPins
  <2>2. /\ UNCHANGED <<sdk, source, session, recorder>> /\ fresh' \in BOOLEAN /\ pin' = spec
        /\ changes' \in 0 .. MaxChanges /\ touched' \subseteq Files \cup {Pin, Spike}
    BY <1>2, MaxChangesInNat DEF edit_pin, Changes, Touches, TypeOK
  <2> QED BY <2>1, <2>2 DEF TypeOK, IsPin
<1>3. ASSUME NEW s \in Sources, edit_source(s) PROVE TypeOK'
  <2>1. /\ UNCHANGED <<sdk, pin, session, recorder>> /\ fresh' \in BOOLEAN /\ source' = s
        /\ changes' \in 0 .. MaxChanges /\ touched' \subseteq Files \cup {Pin, Spike}
    BY <1>3, MaxChangesInNat DEF edit_source, Changes, Touches, TypeOK
  <2> QED BY <2>1 DEF TypeOK, IsPin
<1> QED BY <1>1, <1>2, <1>3

LEMMA NextKeepsTypes == TypeOK /\ Next => TypeOK'
<1> PICK g \in REQUIRED_PINS : g \in Files
  BY RequiredAreFiles
<1> QED BY SessionKeepsTypes, RecorderKeepsTypes, ChangesKeepTypes DEF Next

----------------------------------------------------------------------------
(* What a session and a record have seen. *)

\* Nothing that the pin is about has changed since the session began.
Calm == touched \cap (Files \cup {Pin}) = {}

\* A record that nothing disturbed has what is in the SDK.
RecorderSees ==
  recorder.pc # "idle" /\ ~recorder.torn =>
    /\ \A f \in DOMAIN recorder.files : recorder.files[f] = sdk[f]
    /\ recorder.pc = "frontier" =>
         recorder.reached = UNION {sdk_imports_of(f) : f \in REQUIRED_PINS \ recorder.todo}

FreshHolds == fresh => check(pin)

\* The files that the session has done with in the part of the check it is in.
Seen == DOMAIN session.spec.files \ session.todo

\* A part of the check begins with nothing in hand.
BeginsAnew ==
  /\ session.pc = "require" => ~session.problems
  /\ session.pc \in {"require", "digests"} => session.reached = {}

SpecIsPin == session.pc \in {"digests", "frontier"} /\ Pin \notin touched => session.spec = pin

\* Of each file that was left alone, the session knows whether it is as pinned.
DigestsAreTrue ==
  /\ session.pc = "digests" => \A f \in Seen \ touched : session.problems \/ ~Differs(f)
  /\ session.pc = "frontier" =>
       \/ session.problems
       \/ /\ REQUIRED_PINS \subseteq DOMAIN session.spec.files
          /\ \A f \in DOMAIN session.spec.files \ touched : ~Differs(f)
  /\ Began /\ Pin \notin touched =>
       \A f \in REQUIRED_PINS \ touched : f \in DOMAIN pin.files /\ sdk[f] = pin.files[f]

\* When all was left alone, the session knows the whole.
CalmIsTrue ==
  Calm =>
    /\ session.pc = "digests" => (session.problems <=> \E f \in Seen : Differs(f))
    /\ session.pc = "frontier" =>
         /\ session.problems <=> \/ \E f \in DOMAIN session.spec.files : Differs(f)
                                 \/ Uncovered(session.spec)
         /\ session.reached = UNION {sdk_imports_of(f) : f \in Seen}
    /\ session.pc = "aborted" => ~check(pin)
    /\ Began => check(pin)

SessionSees == BeginsAnew /\ SpecIsPin /\ DigestsAreTrue /\ CalmIsTrue

SInv == TypeOK /\ RecorderSees /\ FreshHolds /\ SessionSees

\* What the SDK imports, and whether a pin holds, is read off the SDK alone.
LEMMA SameSdk ==
  ASSUME UNCHANGED sdk
  PROVE  /\ \A f : sdk_imports_of(f)' = sdk_imports_of(f)
         /\ \A p : check(p)' = check(p)
         /\ \A s : sdk_modules_imported_by(s)' = sdk_modules_imported_by(s)
BY DEF sdk_imports_of, sdk_modules_imported_by, Reaches, module_to_relpath, ancestor_inits,
       check, frontier, Installed

\* What the parts of the check add up to.
LEMMA CheckIs ==
  ASSUME TypeOK
  PROVE  check(session.spec) <=>
           /\ \A f \in DOMAIN session.spec.files : ~Differs(f)
           /\ ~Uncovered(session.spec)
           /\ session.spec.frontier = frontier(DOMAIN session.spec.files)
<1>1. /\ DOMAIN session.spec.files \subseteq Files
      /\ \A f \in DOMAIN session.spec.files : session.spec.files[f] # None
  BY RequiredAreFiles DEF TypeOK, IsPin
<1>2. \A f \in DOMAIN session.spec.files :
        Installed(f) /\ sdk[f] = session.spec.files[f] <=> ~Differs(f)
  BY <1>1 DEF Installed, Differs
<1>3. ~Uncovered(session.spec) => DOMAIN session.spec.files # {}
  BY RequiredAreFiles DEF Uncovered
<1> QED BY <1>2, <1>3 DEF check, Uncovered

LEMMA InitHasSInv == Init => SInv
<1> SUFFICES ASSUME Init PROVE SInv
  OBVIOUS
<1>1. TypeOK
  BY InitHasTypes
<1>2. DOMAIN pin.files = REQUIRED_PINS /\ \A f \in REQUIRED_PINS : pin.files[f] = sdk[f]
  BY DEF Init
<1>3. FreshHolds
  BY <1>2, VerifiedIsComplete, RequiredAreFiles DEF Init, FreshHolds, check, Installed
<1>4. session.pc = "idle" /\ recorder.pc = "idle"
  BY DEF Init, NoSession, NoRecorder
<1> QED BY <1>1, <1>3, <1>4 DEF SInv, RecorderSees, SessionSees, BeginsAnew, SpecIsPin,
       DigestsAreTrue, CalmIsTrue, Began

\* The beginning of a session, and its gates.
LEMMA StartKeepsSight ==
  ASSUME SInv, session_starts
  PROVE  SessionSees'
<1>1. session'.pc = "require" /\ ~session'.problems /\ session'.reached = {}
  BY DEF session_starts, Goes, NoSession
<1> QED BY <1>1 DEF SessionSees, BeginsAnew, SpecIsPin, DigestsAreTrue, CalmIsTrue, Began

LEMMA PinReadKeepsSight ==
  ASSUME SInv, check_reads_pin
  PROVE  SessionSees'
<1>1. /\ UNCHANGED <<sdk, pin, touched>>
      /\ session'.spec = pin /\ session'.todo = DOMAIN pin.files
      /\ session'.pc = IF DOMAIN pin.files = {} THEN "aborted" ELSE "digests"
      /\ ~session'.problems /\ session'.reached = {}
  BY DEF check_reads_pin, Goes, SInv, TypeOK, SessionSees, BeginsAnew
<1>2. Seen' = {}
  BY <1>1 DEF Seen
<1>3. DOMAIN pin.files = {} => ~check(pin)
  BY DEF check
<1>4. check(pin)' = check(pin)
  BY <1>1, SameSdk
<1> QED BY <1>1, <1>2, <1>3, <1>4
       DEF SessionSees, BeginsAnew, SpecIsPin, DigestsAreTrue, CalmIsTrue, Began

LEMMA DigestKeepsSight ==
  ASSUME SInv, NEW f \in Files, check_digest(f)
  PROVE  SessionSees'
<1>1. /\ UNCHANGED <<sdk, pin, touched>>
      /\ session.pc = "digests" /\ session'.pc = "digests" /\ f \in session.todo
      /\ session'.spec = session.spec /\ session'.todo = session.todo \ {f}
      /\ session'.problems = (session.problems \/ Differs(f))
      /\ session'.reached = session.reached
  BY DEF check_digest, Goes, SInv, TypeOK
<1>2. Seen' = Seen \cup {f}
  BY <1>1 DEF Seen, SInv, TypeOK
<1>3. \A g : Differs(g)' = Differs(g)
  BY <1>1 DEF Differs
<1>4. Calm' = Calm
  BY <1>1 DEF Calm
<1> QED BY <1>1, <1>2, <1>3, <1>4
       DEF SInv, SessionSees, BeginsAnew, SpecIsPin, DigestsAreTrue, CalmIsTrue, Began

LEMMA CoverageKeepsSight ==
  ASSUME SInv, check_coverage
  PROVE  SessionSees'
<1>1. /\ UNCHANGED <<sdk, pin, touched>>
      /\ session.pc = "digests" /\ session'.pc = "frontier" /\ session.todo = {}
      /\ session'.spec = session.spec /\ session'.todo = DOMAIN session.spec.files
      /\ session'.problems = (session.problems \/ Uncovered(session.spec))
      /\ session'.reached = session.reached
  BY DEF check_coverage, Goes, SInv, TypeOK
<1>2. Seen = DOMAIN session.spec.files /\ Seen' = {}
  BY <1>1 DEF Seen
<1>3. \A g : Differs(g)' = Differs(g)
  BY <1>1 DEF Differs
<1>4. Calm' = Calm /\ Uncovered(session.spec)' = Uncovered(session.spec)
  BY <1>1 DEF Calm, Uncovered
<1>5. session'.reached = UNION {sdk_imports_of(g)' : g \in Seen'}
  BY <1>1, <1>2 DEF SInv, SessionSees, BeginsAnew
<1>6. Uncovered(session.spec) \/ REQUIRED_PINS \subseteq DOMAIN session.spec.files
  BY DEF Uncovered
<1>7. BeginsAnew' /\ SpecIsPin'
  BY <1>1 DEF SInv, SessionSees, BeginsAnew, SpecIsPin
<1>8. DigestsAreTrue'
  BY <1>1, <1>2, <1>3, <1>6 DEF SInv, SessionSees, DigestsAreTrue, Began
<1>9. CalmIsTrue'
  BY <1>1, <1>2, <1>3, <1>4, <1>5 DEF SInv, SessionSees, CalmIsTrue, Began
<1> QED BY <1>7, <1>8, <1>9 DEF SessionSees

LEMMA ImportsKeepSight ==
  ASSUME SInv, NEW f \in Files, check_imports(f)
  PROVE  SessionSees'
<1>1. UNCHANGED <<sdk, pin, touched>> /\ session.pc = "frontier" /\ f \in session.todo
  BY DEF check_imports, Goes
<1>2. /\ \A g : sdk_imports_of(g)' = sdk_imports_of(g)
      /\ check(pin)' = check(pin) /\ Calm' = Calm
  BY <1>1, SameSdk DEF Calm
<1>3. CASE Installed(f)
  <2>1. /\ session'.pc = "frontier" /\ session'.spec = session.spec
        /\ session'.todo = session.todo \ {f} /\ session'.problems = session.problems
        /\ session'.reached = session.reached \cup sdk_imports_of(f)
    BY <1>3 DEF check_imports, Goes, SInv, TypeOK
  <2>2. Seen' = Seen \cup {f}
    BY <1>1, <2>1 DEF Seen, SInv, TypeOK
  <2>3. UNION {sdk_imports_of(g)' : g \in Seen'}
          = (UNION {sdk_imports_of(g) : g \in Seen}) \cup sdk_imports_of(f)
    <3>1. UNION {sdk_imports_of(g)' : g \in Seen'} = UNION {sdk_imports_of(g) : g \in Seen'}
      BY <1>2
    <3>2. UNION {sdk_imports_of(g) : g \in Seen \cup {f}}
            = (UNION {sdk_imports_of(g) : g \in Seen}) \cup sdk_imports_of(f)
      OBVIOUS
    <3> QED BY <2>2, <3>1, <3>2
  <2>4. /\ Uncovered(session.spec)' = Uncovered(session.spec)
        /\ \A g : Differs(g)' = Differs(g)
    BY <1>1, <2>1 DEF Uncovered, Differs
  <2>5. BeginsAnew' /\ SpecIsPin'
    BY <1>1, <2>1 DEF SInv, SessionSees, BeginsAnew, SpecIsPin
  <2>6. DigestsAreTrue'
    BY <1>1, <1>2, <2>1, <2>4 DEF SInv, SessionSees, DigestsAreTrue, Began
  <2>7. CalmIsTrue'
    BY <1>1, <1>2, <2>1, <2>3, <2>4 DEF SInv, SessionSees, CalmIsTrue, Began
  <2> QED BY <2>5, <2>6, <2>7 DEF SessionSees
<1>4. CASE ~Installed(f)
  <2>1. session'.pc = "aborted"
    BY <1>4 DEF check_imports, Goes, NoSession
  <2>2. Calm => ~check(pin)
    BY <1>1, <1>4 DEF Calm, SInv, TypeOK, SessionSees, SpecIsPin, check
  <2> QED BY <1>2, <2>1, <2>2
         DEF SessionSees, BeginsAnew, SpecIsPin, DigestsAreTrue, CalmIsTrue, Began
<1> QED BY <1>3, <1>4

LEMMA EndKeepsSight ==
  ASSUME SInv, check_ends
  PROVE  SessionSees'
<1>1. /\ UNCHANGED <<sdk, pin, touched>> /\ session.pc = "frontier" /\ session.todo = {}
      /\ session'.pc = IF session.problems \/ FrontierDiffers(session.spec, session.reached)
                         THEN "aborted" ELSE "gates"
  BY DEF check_ends, Goes, NoSession
<1>2. check(pin)' = check(pin) /\ Calm' = Calm
  BY <1>1, SameSdk DEF Calm
<1>3. Calm => (session'.pc = "gates" <=> check(pin))
  <2> SUFFICES ASSUME Calm PROVE session'.pc = "gates" <=> check(pin)
    OBVIOUS
  <2>1. session.spec = pin
    BY <1>1 DEF Calm, SInv, SessionSees, SpecIsPin
  <2>2. Seen = DOMAIN session.spec.files
    BY <1>1 DEF Seen
  <2>3. FrontierDiffers(session.spec, session.reached) <=>
          session.spec.frontier # frontier(DOMAIN session.spec.files)
    <3>1. session.reached = UNION {sdk_imports_of(f) : f \in Seen}
      BY <1>1 DEF SInv, SessionSees, CalmIsTrue
    <3>2. session.reached \ DOMAIN session.spec.files = frontier(DOMAIN session.spec.files)
      BY <2>2, <3>1, Zenon DEF frontier
    <3> QED BY <3>2 DEF FrontierDiffers
  <2>4. session.problems <=> \/ \E f \in DOMAIN session.spec.files : Differs(f)
                             \/ Uncovered(session.spec)
    BY <1>1 DEF SInv, SessionSees, CalmIsTrue
  <2> QED BY <1>1, <2>1, <2>3, <2>4, CheckIs DEF SInv
<1>4. session'.pc = "gates" /\ Pin \notin touched =>
        \A f \in REQUIRED_PINS \ touched : f \in DOMAIN pin.files /\ sdk[f] = pin.files[f]
  BY <1>1 DEF SInv, SessionSees, SpecIsPin, DigestsAreTrue, Differs
<1> QED BY <1>1, <1>2, <1>3, <1>4
       DEF SessionSees, BeginsAnew, SpecIsPin, DigestsAreTrue, CalmIsTrue, Began

LEMMA Gate0KeepsSight ==
  ASSUME SInv, gate0
  PROVE  SessionSees'
<1>1. /\ UNCHANGED <<sdk, pin, touched>> /\ session.pc = "gates"
      /\ session'.pc \in {"passed", "failed"}
  BY DEF gate0, Goes, SInv, TypeOK
<1>2. check(pin)' = check(pin) /\ Calm' = Calm
  BY <1>1, SameSdk DEF Calm
<1> QED BY <1>1, <1>2 DEF SInv, SessionSees, BeginsAnew, SpecIsPin, DigestsAreTrue,
                          CalmIsTrue, Began

\* Whatever else happens is known to the session, or there is none.
LEMMA OthersKeepSight ==
  ASSUME SInv, UNCHANGED session,
         \/ session.pc = "idle"
         \/ /\ touched \subseteq touched'
            /\ \A f \in Files \ touched' : sdk'[f] = sdk[f]
            /\ Pin \notin touched' => pin' = pin
            /\ Calm' => UNCHANGED <<sdk, pin>>
  PROVE  SessionSees'
<1>1. CASE session.pc = "idle"
  BY <1>1 DEF SessionSees, BeginsAnew, SpecIsPin, DigestsAreTrue, CalmIsTrue, Began
<1>2. CASE /\ touched \subseteq touched'
           /\ \A f \in Files \ touched' : sdk'[f] = sdk[f]
           /\ Pin \notin touched' => pin' = pin
           /\ Calm' => UNCHANGED <<sdk, pin>>
  <2>1. Seen' = Seen /\ Seen \subseteq Files /\ DOMAIN session.spec.files \subseteq Files
    BY RequiredAreFiles DEF Seen, SInv, TypeOK, IsPin
  <2>2. \A f \in Files \ touched' : Differs(f)' = Differs(f)
    BY <1>2 DEF Differs
  <2>3. BeginsAnew' /\ SpecIsPin'
    BY <1>2 DEF SInv, SessionSees, BeginsAnew, SpecIsPin
  <2>4. DigestsAreTrue'
    <3>1. session.pc = "digests" => \A f \in Seen \ touched' : session.problems \/ ~Differs(f)'
      BY <1>2, <2>1, <2>2 DEF SInv, SessionSees, DigestsAreTrue
    <3>2. session.pc = "frontier" =>
            \/ session.problems
            \/ /\ REQUIRED_PINS \subseteq DOMAIN session.spec.files
               /\ \A f \in DOMAIN session.spec.files \ touched' : ~Differs(f)'
      BY <1>2, <2>1, <2>2 DEF SInv, SessionSees, DigestsAreTrue
    <3>3. Began /\ Pin \notin touched' =>
            \A f \in REQUIRED_PINS \ touched' : f \in DOMAIN pin'.files /\ sdk'[f] = pin'.files[f]
      BY <1>2, RequiredAreFiles DEF SInv, SessionSees, DigestsAreTrue
    <3> QED BY <2>1, <3>1, <3>2, <3>3 DEF DigestsAreTrue, Began
  <2>5. CalmIsTrue'
    <3> SUFFICES ASSUME Calm' PROVE CalmIsTrue'
      BY DEF CalmIsTrue
    <3>1. Calm /\ UNCHANGED <<sdk, pin>>
      BY <1>2 DEF Calm
    <3>2. /\ \A f : sdk_imports_of(f)' = sdk_imports_of(f)
          /\ check(pin)' = check(pin)
      BY <3>1, SameSdk
    <3>3. /\ \A f : Differs(f)' = Differs(f)
          /\ Uncovered(session.spec)' = Uncovered(session.spec)
      BY <3>1 DEF Differs, Uncovered
    <3> QED BY <2>1, <3>1, <3>2, <3>3 DEF SInv, SessionSees, CalmIsTrue, Began
  <2> QED BY <2>3, <2>4, <2>5 DEF SessionSees
<1> QED BY <1>1, <1>2

LEMMA SessionKeepsSInv ==
  ASSUME SInv, NEW f \in Files,
         \/ session_starts \/ check_reads_pin \/ check_coverage \/ check_ends \/ gate0
         \/ check_digest(f) \/ check_imports(f)
  PROVE  SInv'
<1>1. UNCHANGED <<sdk, pin, recorder, fresh>>
  BY DEF session_starts, check_reads_pin, check_coverage, check_ends, gate0, check_digest,
         check_imports, Goes
<1>2. TypeOK'
  BY SessionKeepsTypes DEF SInv
<1>3. RecorderSees' /\ FreshHolds'
  BY <1>1, SameSdk DEF SInv, RecorderSees, FreshHolds
<1>4. SessionSees'
  BY StartKeepsSight, PinReadKeepsSight, DigestKeepsSight, CoverageKeepsSight,
     ImportsKeepSight, EndKeepsSight, Gate0KeepsSight
<1> QED BY <1>2, <1>3, <1>4 DEF SInv

\* A record reads the SDK, and what it writes is a pin that holds when nothing was installed
\* meanwhile.
LEMMA RecorderKeepsSInv ==
  ASSUME SInv, NEW f \in REQUIRED_PINS,
         record_starts \/ record_writes \/ record_digest(f) \/ record_imports(f)
  PROVE  SInv'
<1>1. TypeOK'
  BY RecorderKeepsTypes DEF SInv
<1>2. UNCHANGED <<sdk, session>>
  BY DEF record_starts, record_writes, record_digest, record_imports, Records
<1>3. /\ \A g : sdk_imports_of(g)' = sdk_imports_of(g)
      /\ \A p : check(p)' = check(p)
  BY <1>2, SameSdk
<1>4. CASE record_starts
  <2>1. /\ recorder'.pc = "digests" /\ recorder'.files = <<>> /\ UNCHANGED <<pin, touched, fresh>>
    BY <1>4 DEF record_starts, Records, NoRecorder
  <2>2. RecorderSees'
    BY <2>1, NoPinIsPin DEF RecorderSees
  <2>3. FreshHolds'
    BY <1>3, <2>1 DEF FreshHolds, SInv
  <2>4. SessionSees'
    BY <1>2, <2>1, OthersKeepSight
  <2> QED BY <1>1, <2>2, <2>3, <2>4 DEF SInv
<1>5. CASE record_digest(f) \/ record_imports(f)
  <2>1. UNCHANGED <<pin, touched, fresh>>
    BY <1>5 DEF record_digest, record_imports
  <2>2. SessionSees' /\ FreshHolds'
    BY <1>2, <1>3, <2>1, OthersKeepSight DEF FreshHolds, SInv
  <2>3. RecorderSees'
    <3>1. CASE ~Installed(f)
      <4>1. recorder'.pc = "idle"
        BY <1>5, <3>1 DEF record_digest, record_imports, Records, NoRecorder
      <4> QED BY <4>1 DEF RecorderSees
    <3>2. CASE record_digest(f) /\ Installed(f)
      <4> DEFINE files == [g \in DOMAIN recorder.files \cup {f} |->
                             IF g = f THEN sdk[f] ELSE recorder.files[g]]
                 todo == recorder.todo \ {f}
      <4>1. /\ recorder.pc = "digests"
            /\ recorder' = [recorder EXCEPT !.files = files,
                              !.todo = IF todo = {} THEN REQUIRED_PINS ELSE todo,
                              !.pc = IF todo = {} THEN "frontier" ELSE "digests"]
        BY <3>2 DEF record_digest, Records
      <4>2. /\ DOMAIN files = DOMAIN recorder.files \cup {f}
            /\ \A g \in DOMAIN files : files[g] = IF g = f THEN sdk[f] ELSE recorder.files[g]
        OBVIOUS
      <4> HIDE DEF files
      <4>3. /\ recorder'.files = files /\ recorder'.reached = {}
            /\ recorder'.torn = recorder.torn
            /\ recorder'.pc = "frontier" => recorder'.todo = REQUIRED_PINS
        BY <4>1 DEF SInv, TypeOK
      <4>4. UNION {sdk_imports_of(g)' : g \in REQUIRED_PINS \ REQUIRED_PINS} = {}
        OBVIOUS
      <4>5. ~recorder'.torn => \A g \in DOMAIN files : files[g] = sdk'[g]
        BY <1>2, <4>1, <4>2, <4>3 DEF SInv, RecorderSees
      <4> QED BY <4>3, <4>4, <4>5 DEF RecorderSees
    <3>3. CASE record_imports(f) /\ Installed(f)
      <4>1. /\ recorder.pc = "frontier" /\ recorder'.pc = "frontier" /\ f \in recorder.todo
            /\ recorder'.files = recorder.files /\ recorder'.torn = recorder.torn
            /\ recorder'.todo = recorder.todo \ {f}
            /\ recorder'.reached = recorder.reached \cup sdk_imports_of(f)
        BY <3>3 DEF record_imports, Records, SInv, TypeOK
      <4>2. REQUIRED_PINS \ recorder'.todo = (REQUIRED_PINS \ recorder.todo) \cup {f}
        BY <4>1
      <4>3. UNION {sdk_imports_of(g)' : g \in REQUIRED_PINS \ recorder'.todo}
              = (UNION {sdk_imports_of(g) : g \in REQUIRED_PINS \ recorder.todo})
                  \cup sdk_imports_of(f)
        <5>1. UNION {sdk_imports_of(g)' : g \in REQUIRED_PINS \ recorder'.todo}
                = UNION {sdk_imports_of(g) : g \in REQUIRED_PINS \ recorder'.todo}
          BY <1>3
        <5>2. UNION {sdk_imports_of(g) : g \in (REQUIRED_PINS \ recorder.todo) \cup {f}}
                = (UNION {sdk_imports_of(g) : g \in REQUIRED_PINS \ recorder.todo})
                    \cup sdk_imports_of(f)
          OBVIOUS
        <5> QED BY <4>2, <5>1, <5>2
      <4> QED BY <1>2, <4>1, <4>3 DEF SInv, RecorderSees
    <3> QED BY <1>5, <3>1, <3>2, <3>3
  <2> QED BY <1>1, <2>2, <2>3 DEF SInv
<1>6. CASE record_writes
  <2>1. /\ recorder.pc = "frontier" /\ recorder.todo = {} /\ recorder'.pc = "idle"
        /\ pin' = [files |-> recorder.files, frontier |-> recorder.reached \ REQUIRED_PINS]
        /\ touched' = IF session.pc = "idle" THEN {} ELSE touched \cup {Pin}
        /\ fresh' = ~recorder.torn
    BY <1>6 DEF record_writes, Records, Recorded, Touches, NoRecorder
  <2>2. RecorderSees'
    BY <2>1 DEF RecorderSees
  <2>3. FreshHolds'
    <3> SUFFICES ASSUME fresh' PROVE check(pin)'
      BY DEF FreshHolds
    <3>1. /\ DOMAIN recorder.files = REQUIRED_PINS
          /\ \A g \in REQUIRED_PINS : recorder.files[g] = sdk[g] /\ sdk[g] # None
      BY <2>1 DEF SInv, RecorderSees, TypeOK, IsPin
    <3>2. recorder.reached \ REQUIRED_PINS = frontier(REQUIRED_PINS)
      <4>1. recorder.reached = UNION {sdk_imports_of(g) : g \in REQUIRED_PINS \ recorder.todo}
        BY <2>1 DEF SInv, RecorderSees
      <4>2. REQUIRED_PINS \ recorder.todo = REQUIRED_PINS
        BY <2>1
      <4> QED BY <4>1, <4>2 DEF frontier
    <3>3. /\ pin'.files = recorder.files
          /\ pin'.frontier = recorder.reached \ REQUIRED_PINS
      BY <2>1
    <3>4. check(pin')
      BY <3>1, <3>2, <3>3, RequiredAreFiles DEF check, Installed
    <3>5. check(pin)' <=> (check(pin'))
      BY <1>2 DEF check, frontier, sdk_imports_of, Reaches, module_to_relpath, ancestor_inits,
                  Installed
    <3> QED BY <3>4, <3>5
  <2>4. SessionSees'
    BY <1>2, <2>1, OthersKeepSight DEF Calm
  <2> QED BY <1>1, <2>2, <2>3, <2>4 DEF SInv
<1> QED BY <1>4, <1>5, <1>6

\* Installations and edits.
LEMMA ChangesKeepSInv ==
  ASSUME SInv,
         \/ \E f \in Files : \E content \in Builds[f] : install(f, content)
         \/ \E spec \in EditedPins : edit_pin(spec)
         \/ \E s \in Sources : edit_source(s)
  PROVE  SInv'
<1>1. TypeOK'
  BY ChangesKeepTypes DEF SInv
<1>2. Pin # Spike
  <2>1. Pin[1] = "pinned_digests.json" /\ Spike[1] = "test_gate.py"
    BY DEF Pin, Spike
  <2> QED BY <2>1
<1>3. ASSUME NEW f \in Files, NEW content \in Builds[f], install(f, content) PROVE SInv'
  <2>1. /\ UNCHANGED <<session, pin>> /\ sdk' = [sdk EXCEPT ![f] = content]
        /\ recorder' = [recorder EXCEPT !.torn = recorder.pc # "idle"]
        /\ touched' = (IF session.pc = "idle" THEN {} ELSE touched \cup {f})
        /\ fresh' = FALSE
    BY <1>3, FilesAreModules DEF install, Changes, Touches
  <2>2. RecorderSees' /\ FreshHolds'
    BY <2>1 DEF RecorderSees, FreshHolds, SInv, TypeOK
  <2>3. SessionSees'
    <3>1. \A g \in Files \ {f} : sdk'[g] = sdk[g]
      BY <2>1 DEF SInv, TypeOK
    <3> QED BY <2>1, <3>1, OthersKeepSight DEF Calm
  <2> QED BY <1>1, <2>2, <2>3 DEF SInv
<1>4. ASSUME NEW spec \in EditedPins, edit_pin(spec) PROVE SInv'
  <2>1. /\ UNCHANGED <<session, sdk, recorder>>
        /\ touched' = (IF session.pc = "idle" THEN {} ELSE touched \cup {Pin})
        /\ fresh' = FALSE
    BY <1>2, <1>4 DEF edit_pin, Changes, Touches
  <2>2. RecorderSees' /\ FreshHolds'
    BY <2>1, SameSdk DEF RecorderSees, FreshHolds, SInv
  <2>3. SessionSees'
    BY <2>1, OthersKeepSight DEF Calm
  <2> QED BY <1>1, <2>2, <2>3 DEF SInv
<1>5. ASSUME NEW s \in Sources, edit_source(s) PROVE SInv'
  <2>1. /\ UNCHANGED <<session, sdk, pin, recorder>>
        /\ touched' = (IF session.pc = "idle" THEN {} ELSE touched \cup {Spike})
        /\ fresh' = fresh
    BY <1>5 DEF edit_source, Changes, Touches, SInv, TypeOK
  <2>2. RecorderSees' /\ FreshHolds'
    BY <2>1, SameSdk DEF RecorderSees, FreshHolds, SInv
  <2>3. SessionSees'
    BY <2>1, OthersKeepSight
  <2> QED BY <1>1, <2>2, <2>3 DEF SInv
<1> QED BY <1>3, <1>4, <1>5

\* An edit of the harness or its gates is none of the pin's business.
LEMMA StutterKeepsSInv ==
  ASSUME SInv, UNCHANGED <<sdk, source, pin, session, recorder, touched, fresh>>,
         changes' \in 0 .. MaxChanges
  PROVE  SInv'
<1>1. TypeOK'
  BY DEF SInv, TypeOK, IsPin
<1>2. RecorderSees' /\ FreshHolds'
  BY SameSdk DEF RecorderSees, FreshHolds, SInv
<1> QED BY <1>1, <1>2, OthersKeepSight DEF SInv

LEMMA NextKeepsSInv == SInv /\ [Next]_vars => SInv'
<1>1. SInv /\ Next => SInv'
  <2> PICK g \in REQUIRED_PINS : g \in Files
    BY RequiredAreFiles
  <2> QED BY SessionKeepsSInv, RecorderKeepsSInv, ChangesKeepSInv DEF Next
<1>2. SInv /\ UNCHANGED vars => SInv'
  BY StutterKeepsSInv DEF vars, SInv, TypeOK
<1> QED BY <1>1, <1>2

\* The gates run on the bytes they were written against.
LEMMA SightIsEnough == SInv => GatesRunOnPinnedBytes /\ FreshPinHolds
<1> SUFFICES ASSUME SInv PROVE GatesRunOnPinnedBytes /\ FreshPinHolds
  OBVIOUS
<1>1. Pin # Spike
  <2>1. Pin[1] = "pinned_digests.json" /\ Spike[1] = "test_gate.py"
    BY DEF Pin, Spike
  <2> QED BY <2>1
<1>2. FreshPinHolds
  BY <1>1, FilesAreModules DEF FreshPinHolds, SInv, FreshHolds, SessionSees, CalmIsTrue, Calm
<1>3. ASSUME Began, Pin \notin touched, NEW f \in REQUIRED_PINS \ touched
      PROVE  f \in DOMAIN pin.files /\ sdk[f] = pin.files[f] /\ sdk[f] # None
  BY <1>3 DEF SInv, SessionSees, DigestsAreTrue, TypeOK, IsPin
<1>4. ASSUME Began, Pin \notin touched, touched \cap Files = {}
      PROVE  pin.frontier = (UNION {UNION {RunsOnImport(d) : d \in UNION {NamedIn(i, f) :
                                                            i \in sdk[f].imports}} :
                                     f \in DOMAIN pin.files}) \ DOMAIN pin.files
  <2>1. check(pin)
    BY <1>4 DEF Calm, SInv, SessionSees, CalmIsTrue
  <2>2. /\ \A f \in DOMAIN pin.files : Installed(f)
        /\ pin.frontier = (UNION {sdk_imports_of(f) : f \in DOMAIN pin.files})
                            \ DOMAIN pin.files
    BY <2>1 DEF check, frontier
  <2>3. \A f \in DOMAIN pin.files :
          sdk_imports_of(f) =
            UNION {RunsOnImport(d) : d \in UNION {NamedIn(i, f) : i \in sdk[f].imports}}
    BY <2>2, ImportsRun DEF SInv, Installed
  <2>4. {sdk_imports_of(f) : f \in DOMAIN pin.files} =
          {UNION {RunsOnImport(d) : d \in UNION {NamedIn(i, f) : i \in sdk[f].imports}} :
             f \in DOMAIN pin.files}
    BY <2>3
  <2> QED BY <2>2, <2>4
<1> QED BY <1>2, <1>3, <1>4 DEF GatesRunOnPinnedBytes

----------------------------------------------------------------------------
(* Theorems about a pin, its sessions and its records. *)

\* Every step of sessions, records, installations and edits keeps the parts of the state
\* what they are, and in the part of the work they are for (verify_pin.py, conftest.py).
THEOREM PinTypes == Spec => []TypeOK
<1>1. Init => TypeOK
  BY InitHasTypes
<1>2. TypeOK /\ [Next]_vars => TypeOK'
  <2>1. TypeOK /\ UNCHANGED vars => TypeOK'
    BY DEF vars, TypeOK, IsPin
  <2> QED BY <2>1, NextKeepsTypes
<1> QED BY <1>1, <1>2, PTL DEF Spec

LEMMA PinInvariant == Spec => []SInv
BY InitHasSInv, NextKeepsSInv, PTL DEF Spec

\* The gates run on the bytes they were written against: a session in which a required file,
\* or the edge of the pin, is not as recorded ends before the first gate (conftest.py:8).
THEOREM PinnedBytes == Spec => []GatesRunOnPinnedBytes
BY PinInvariant, SightIsEnough, PTL

\* What --record writes of an SDK that stays as it is holds in every session until something
\* changes (verify_pin.py:335).
THEOREM FreshPins == Spec => []FreshPinHolds
BY PinInvariant, SightIsEnough, PTL

----------------------------------------------------------------------------
(* A run of mutate.py. *)

Parts == {"harness", "tests", "source", "imports"}
Ran   == {"mutations", "mutation runs", "ends"}
Alone == mutate.pc # "idle" /\ mutate.edited = {}

Trees      == [harness : {Text(h) : h \in Harnesses}, tests : Tests]
MutateRuns == [pc : {"idle", "baseline", "baseline runs"} \cup Ran,
               original : Harnesses \cup {None}, todo : Seq(Range(MUTATIONS)),
               survivable : SUBSET Range(MUTATIONS),
               baseline : {None, "none", "all", "error"}, edited : SUBSET Parts]

RunTyped ==
  /\ live \in Trees
  /\ mutate \in MutateRuns
  /\ mutate.pc # "idle" => mutate.original \in Harnesses /\ verdict = "none"
  /\ mutate.pc \in Ran => mutate.baseline \in {"none", "all", "error"}

\* The mutations have their turns in their order.
InOrder ==
  mutate.pc # "idle" =>
    /\ Len(mutate.todo) <= Len(MUTATIONS)
    /\ \A k \in 1 .. Len(mutate.todo) :
         mutate.todo[k] = MUTATIONS[Len(MUTATIONS) - Len(mutate.todo) + k]
    /\ mutate.pc \notin Ran => Len(mutate.todo) = Len(MUTATIONS)
    /\ mutate.pc = "mutation runs" => mutate.todo # <<>> /\ Applies(Head(mutate.todo))
    /\ mutate.pc = "ends" => mutate.todo = <<>>

\* The copy that the gates run in is one of the tree, which is as it was.
CopyIsTrue ==
  Alone =>
    /\ live.harness = Text(mutate.original)
    /\ mutate.pc \in {"baseline runs", "mutation runs"} =>
         /\ root.tests = live.tests /\ root.source = source
         /\ DOMAIN root.pin.files \subseteq REQUIRED_PINS
    /\ mutate.pc = "baseline runs" => root.harness = live.harness
    /\ mutate.pc = "mutation runs" =>
         root.harness = [base |-> mutate.original, mutation |-> Head(mutate.todo)]

Caught(m) ==
  /\ m \in HasPattern[mutate.original] \cap Catches[live.tests]
  /\ OnGood[live.tests][mutate.original] = "none"

\* What the baseline showed holds of every mutation, and what did not survive was caught.
ResultsAreTrue ==
  Alone /\ mutate.pc \in Ran =>
    /\ mutate.baseline = "none" => /\ OnGood[live.tests][mutate.original] = "none"
                                   /\ imported # {} /\ imported \subseteq REQUIRED_PINS
    /\ mutate.baseline = "all" => OnGood[live.tests][mutate.original] = "all"
    /\ mutate.baseline # "error" =>
         \A n \in 1 .. Len(MUTATIONS) - Len(mutate.todo) :
           MUTATIONS[n] \in mutate.survivable \/ Caught(MUTATIONS[n])

RunStands == RunTyped /\ InOrder /\ CopyIsTrue /\ ResultsAreTrue

LEMMA Mutations ==
  /\ MUTATIONS \in Seq(Range(MUTATIONS)) /\ Len(MUTATIONS) \in Nat
  /\ \A n \in 1 .. Len(MUTATIONS) : MUTATIONS[n] \in Range(MUTATIONS)
  /\ \A m \in Range(MUTATIONS) : \E n \in 1 .. Len(MUTATIONS) : m = MUTATIONS[n]
<1>1. MUTATIONS \in Seq(Range(MUTATIONS))
  BY MutationsAreMutations
<1>2. \A m \in Range(MUTATIONS) : \E n \in DOMAIN MUTATIONS : m = MUTATIONS[n]
  BY DEF Range
<1> QED BY <1>1, <1>2

LEMMA MNextKeepsSInv == SInv /\ [MNext]_<<vars, mvars>> => SInv'
<1>1. ASSUME SInv, Around PROVE SInv'
  BY <1>1, NextKeepsSInv DEF Around
<1>2. ASSUME SInv, NEW h \in Harnesses, NEW t \in Tests,
             edit_live([harness |-> Text(h), tests |-> t])
      PROVE  SInv'
  BY <1>2, StutterKeepsSInv, MaxChangesInNat DEF edit_live, SInv, TypeOK
<1>3. ASSUME SInv,
             \/ mutate_starts \/ copy_baseline \/ run_baseline
             \/ pattern_miss \/ copy_mutation \/ run_mutation
             \/ remove_root \/ mutate_ends \/ mutate_killed
      PROVE  SInv'
  <2>1. UNCHANGED vars
    BY <1>3 DEF mutate_starts, copy_baseline, run_baseline, pattern_miss, copy_mutation,
         run_mutation, remove_root, mutate_ends, mutate_killed, RunIs, Ends, EndsNotClean
  <2> QED BY <1>3, <2>1, NextKeepsSInv
<1>4. SInv /\ UNCHANGED <<vars, mvars>> => SInv'
  BY NextKeepsSInv
<1> QED BY <1>1, <1>2, <1>3, <1>4 DEF MNext

LEMMA RunFields ==
  ASSUME RunTyped
  PROVE  /\ mutate = [pc |-> mutate.pc, original |-> mutate.original, todo |-> mutate.todo,
                      survivable |-> mutate.survivable, baseline |-> mutate.baseline,
                      edited |-> mutate.edited]
         /\ mutate.original \in Harnesses \cup {None}
         /\ mutate.todo \in Seq(Range(MUTATIONS)) /\ Len(mutate.todo) \in Nat
         /\ mutate.survivable \subseteq Range(MUTATIONS)
         /\ mutate.edited \subseteq Parts
         /\ live.tests \in Tests
         /\ \E h \in Harnesses : live = [harness |-> Text(h), tests |-> live.tests]
<1>1. mutate \in MutateRuns /\ live \in Trees
  BY DEF RunTyped
<1>2. PICK h \in Harnesses : live = [harness |-> Text(h), tests |-> live.tests]
  BY <1>1 DEF Trees
<1>3. live.tests \in Tests
  BY <1>1 DEF Trees
<1>4. mutate = [pc |-> mutate.pc, original |-> mutate.original, todo |-> mutate.todo,
                survivable |-> mutate.survivable, baseline |-> mutate.baseline,
                edited |-> mutate.edited]
  BY <1>1 DEF MutateRuns
<1>5. /\ mutate.original \in Harnesses \cup {None}
      /\ mutate.todo \in Seq(Range(MUTATIONS))
      /\ mutate.survivable \subseteq Range(MUTATIONS)
      /\ mutate.edited \subseteq Parts
  BY <1>1 DEF MutateRuns
<1>6. Len(mutate.todo) \in Nat
  BY <1>5
<1> QED BY <1>2, <1>3, <1>4, <1>5, <1>6

LEMMA InitHasRun == MInit => RunStands
<1> SUFFICES ASSUME MInit PROVE RunStands
  OBVIOUS
<1>1. <<>> \in Seq(Range(MUTATIONS))
  BY EmptySeq
<1>2. mutate.pc = "idle" /\ RunTyped
  BY <1>1 DEF MInit, NoRun, RunTyped, Trees, MutateRuns, Ran
<1> QED BY <1>2 DEF RunStands, InOrder, CopyIsTrue, ResultsAreTrue, Alone, Ran

\* What others do leaves the run alone, or is noted.
LEMMA AroundKeepsRun ==
  ASSUME SInv, RunStands, Around \/ \E h \in Harnesses, t \in Tests :
                                     edit_live([harness |-> Text(h), tests |-> t])
  PROVE  RunStands'
<1> DEFINE Known ==
             /\ UNCHANGED <<root, verdict>>
             /\ \E what \in SUBSET Parts : Edited(what)
             /\ live' \in Trees
             /\ Alone' => live' = live /\ source' = source /\ imported' = imported
<1>1. Known
  <2>1. CASE Around
    <3>1. UNCHANGED <<live, root, verdict>>
      BY <2>1 DEF Around
    <3> DEFINE what == {part \in {"source"} : source' # source}
                         \cup {part \in {"imports"} : imported' # imported}
    <3>2. Edited(what) /\ what \in SUBSET Parts
      BY <2>1 DEF Around, Parts
    <3>3. what = {} => source' = source /\ imported' = imported
      OBVIOUS
    <3> HIDE DEF what
    <3>4. Alone' => what = {}
      BY <3>2 DEF Alone, Edited, RunStands, RunTyped, MutateRuns
    <3> QED BY <3>1, <3>2, <3>3, <3>4 DEF RunStands, RunTyped, MutateRuns
  <2>2. ASSUME NEW h \in Harnesses, NEW t \in Tests,
               edit_live([harness |-> Text(h), tests |-> t])
        PROVE  Known
    <3> DEFINE tree == [harness |-> Text(h), tests |-> t]
               what == {part \in {"harness", "tests"} : tree[part] # live[part]}
    <3>1. /\ UNCHANGED <<root, verdict, sdk, source>> /\ live' = tree /\ tree # live
          /\ Edited(what)
      BY <2>2 DEF edit_live
    <3>2. what \in SUBSET Parts
      BY DEF Parts
    <3>3. what # {}
      <4>1. live = [harness |-> live.harness, tests |-> live.tests]
        BY RunFields DEF RunStands
      <4>2. tree["harness"] # live["harness"] \/ tree["tests"] # live["tests"]
        BY <3>1, <4>1
      <4> QED BY <4>2
    <3> HIDE DEF what
    <3>4. ~Alone'
      <4>1. mutate \in MutateRuns
        BY DEF RunStands, RunTyped
      <4>2. mutate' = [mutate EXCEPT !.edited = IF mutate.pc = "idle" THEN mutate.edited
                                                ELSE mutate.edited \cup what]
        BY <3>1 DEF Edited
      <4>3. mutate'.pc = mutate.pc
        BY <4>1, <4>2 DEF MutateRuns
      <4>4. mutate.pc # "idle" => mutate'.edited = mutate.edited \cup what
        BY <4>1, <4>2 DEF MutateRuns
      <4> QED BY <3>3, <4>3, <4>4 DEF Alone
    <3>5. tree \in Trees
      BY DEF Trees
    <3> QED BY <3>1, <3>2, <3>4, <3>5
  <2> QED BY <2>1, <2>2
<1>2. PICK what \in SUBSET Parts : Edited(what)
  BY <1>1
<1>3. /\ mutate'.pc = mutate.pc /\ mutate'.original = mutate.original
      /\ mutate'.todo = mutate.todo /\ mutate'.survivable = mutate.survivable
      /\ mutate'.baseline = mutate.baseline
      /\ Alone' => Alone
      /\ RunTyped'
  BY <1>1, <1>2 DEF Edited, Alone, RunStands, RunTyped, MutateRuns
<1>4. InOrder'
  BY <1>3 DEF RunStands, InOrder, Applies
<1>5. CopyIsTrue'
  BY <1>1, <1>3 DEF RunStands, CopyIsTrue
<1>6. ResultsAreTrue'
  BY <1>1, <1>3 DEF RunStands, ResultsAreTrue, Caught
<1> QED BY <1>3, <1>4, <1>5, <1>6 DEF RunStands

LEMMA StartKeepsRun ==
  ASSUME SInv, RunStands, mutate_starts \/ copy_baseline
  PROVE  RunStands'
<1>1. UNCHANGED <<vars, live>>
  BY DEF mutate_starts, copy_baseline, RunIs
<1>2. live.harness.base \in Harnesses /\ live.harness = Text(live.harness.base)
  <2>2. PICK h \in Harnesses : live = [harness |-> Text(h), tests |-> live.tests]
    BY RunFields DEF RunStands
  <2>3. Text(h).base = h
    BY DEF Text
  <2> QED BY <2>2, <2>3
<1>3. CASE mutate_starts
  <2>1. /\ mutate'.pc = "baseline" /\ mutate'.original = live.harness.base
        /\ mutate'.todo = MUTATIONS /\ verdict' = "none"
        /\ mutate' = [pc |-> "baseline", original |-> live.harness.base, todo |-> MUTATIONS,
                      survivable |-> {}, baseline |-> None, edited |-> {}]
    BY <1>3 DEF mutate_starts, RunIs, NoRun
  <2>2. RunTyped'
    <3>1. mutate' \in MutateRuns
      BY <1>2, <2>1, Mutations DEF MutateRuns
    <3> QED BY <1>1, <1>2, <2>1, <3>1 DEF RunStands, RunTyped, MutateRuns, Ran
  <2>3. InOrder'
    BY <2>1, Mutations DEF InOrder, Ran
  <2>4. CopyIsTrue' /\ ResultsAreTrue'
    BY <1>1, <1>2, <2>1 DEF CopyIsTrue, ResultsAreTrue, Ran
  <2> QED BY <2>2, <2>3, <2>4 DEF RunStands
<1>4. CASE copy_baseline
  <2>1. /\ mutate.pc = "baseline" /\ mutate' = [mutate EXCEPT !.pc = "baseline runs"]
        /\ root' = CopyOf(live.harness) /\ verdict' = verdict
    BY <1>4 DEF copy_baseline, RunIs
  <2>2. RunTyped'
    BY <1>1, <2>1 DEF RunStands, RunTyped, MutateRuns, Ran
  <2>3. /\ mutate.pc = "baseline" /\ mutate'.pc = "baseline runs"
        /\ mutate'.original = mutate.original /\ mutate'.todo = mutate.todo
        /\ Alone' => Alone
    BY <2>1 DEF RunStands, RunTyped, MutateRuns, Alone
  <2>4. InOrder'
    BY <2>3 DEF RunStands, InOrder, Ran
  <2>5. /\ root'.harness = live.harness /\ root'.tests = live.tests /\ root'.source = source
        /\ DOMAIN root'.pin.files \subseteq REQUIRED_PINS
    BY <2>1 DEF CopyOf, SInv, TypeOK, IsPin
  <2>6. CopyIsTrue' /\ ResultsAreTrue'
    BY <1>1, <2>3, <2>5 DEF RunStands, CopyIsTrue, ResultsAreTrue, Ran, vars
  <2> QED BY <2>2, <2>4, <2>6 DEF RunStands
<1> QED BY <1>3, <1>4

\* What the gates show of a copy of the tree as it is.
LEMMA GatesShow ==
  ASSUME SInv, DOMAIN root.pin.files \subseteq REQUIRED_PINS, root.source = source,
         root.tests \in Tests, root.harness.base \in Harnesses
  PROVE  /\ Gates(root) \in {"none", "some", "all", "error"}
         /\ Gates(root) = "none" =>
              /\ OnGood[root.tests][root.harness.base] = "none"
              /\ imported # {} /\ imported \subseteq REQUIRED_PINS
         /\ Gates(root) = "all" => OnGood[root.tests][root.harness.base] = "all"
         /\ /\ Gates(root) = "some"
            /\ OnGood[root.tests][root.harness.base] = "none"
            /\ imported # {} /\ imported \subseteq REQUIRED_PINS
            => root.harness.mutation \in Catches[root.tests]
         /\ OnGood[root.tests][root.harness.base] = "all" => Gates(root) # "some"
<1>1. check(root.pin) => DOMAIN root.pin.files = REQUIRED_PINS
  BY DEF check
<1>2. OnGood[root.tests][root.harness.base] \in {"none", "some", "all"}
  BY MutationsAreMutations
<1> QED BY <1>1, <1>2 DEF Gates, imported

LEMMA BaselineKeepsRun ==
  ASSUME SInv, RunStands, run_baseline
  PROVE  RunStands'
<1>1. mutate.pc = "baseline runs" /\ UNCHANGED <<vars, live>>
  BY DEF run_baseline, RunIs, EndsNotClean, Ends
<1>2. CASE Failed(root)
  <2>1. mutate' = NoRun
    BY <1>2 DEF run_baseline, EndsNotClean, Ends, RunIs
  <2>2. mutate'.pc = "idle" /\ RunTyped'
    BY <1>1, <2>1, EmptySeq DEF NoRun, RunStands, RunTyped, MutateRuns, Ran
  <2> QED BY <2>2 DEF RunStands, InOrder, CopyIsTrue, ResultsAreTrue, Alone, Ran
<1>3. CASE ~Failed(root)
  <2>1. /\ mutate' = [mutate EXCEPT !.pc = "mutations", !.baseline = Gates(root)]
        /\ UNCHANGED <<root, verdict>>
    BY <1>3 DEF run_baseline, RunIs
  <2>2. Gates(root) \in {"none", "all", "error"}
    BY <1>3 DEF Gates, Failed
  <2>3. /\ mutate'.pc = "mutations" /\ mutate'.original = mutate.original
        /\ mutate'.todo = mutate.todo /\ mutate'.baseline = Gates(root)
        /\ Alone' => Alone
    <3>1. mutate \in MutateRuns
      BY DEF RunStands, RunTyped
    <3>2. /\ mutate'.pc = "mutations" /\ mutate'.original = mutate.original
          /\ mutate'.todo = mutate.todo /\ mutate'.baseline = Gates(root)
          /\ mutate'.edited = mutate.edited
      BY <2>1, <3>1 DEF MutateRuns
    <3> QED BY <1>1, <3>2 DEF Alone
  <2>4. RunTyped'
    BY <1>1, <2>1, <2>2 DEF RunStands, RunTyped, MutateRuns, Ran
  <2>5. InOrder'
    BY <1>1, <2>3 DEF RunStands, InOrder, Ran
  <2>6. CopyIsTrue'
    BY <1>1, <2>3 DEF RunStands, CopyIsTrue
  <2>7. ResultsAreTrue'
    <3> SUFFICES ASSUME Alone' PROVE ResultsAreTrue'
      BY DEF ResultsAreTrue
    <3>1. /\ root.harness = live.harness /\ root.tests = live.tests /\ root.source = source
          /\ DOMAIN root.pin.files \subseteq REQUIRED_PINS
          /\ live.harness = Text(mutate.original)
      BY <1>1, <2>3 DEF RunStands, CopyIsTrue
    <3>2. root.harness.base = mutate.original /\ mutate.original \in Harnesses
          /\ live.tests \in Tests
      <4>1. root.harness.base = mutate.original
        BY <3>1 DEF Text
      <4>2. mutate.original \in Harnesses
        BY <1>1 DEF RunStands, RunTyped
      <4> QED BY <4>1, <4>2, RunFields DEF RunStands
    <3>3. /\ Gates(root) = "none" => /\ OnGood[live.tests][mutate.original] = "none"
                                     /\ imported # {} /\ imported \subseteq REQUIRED_PINS
          /\ Gates(root) = "all" => OnGood[live.tests][mutate.original] = "all"
      BY <3>1, <3>2, GatesShow
    <3>4. imported' = imported
      BY <1>1, SameSdk DEF vars, imported
    <3>5. 1 .. Len(MUTATIONS) - Len(mutate.todo) = {}
      <4>1. Len(mutate.todo) = Len(MUTATIONS)
        BY <1>1 DEF RunStands, InOrder, Ran
      <4> QED BY <4>1, Mutations
    <3> QED BY <1>1, <2>3, <3>3, <3>4, <3>5 DEF ResultsAreTrue
  <2> QED BY <2>4, <2>5, <2>6, <2>7 DEF RunStands
<1> QED BY <1>2, <1>3

\* A mutation has had its turn: the mutations that have, and their order.
LEMMA TurnDone ==
  ASSUME RunTyped, InOrder, mutate.pc # "idle", mutate.todo # <<>>
  PROVE  LET n == Len(MUTATIONS) - Len(mutate.todo)
         IN /\ n + 1 \in 1 .. Len(MUTATIONS) /\ Head(mutate.todo) = MUTATIONS[n + 1]
            /\ Tail(mutate.todo) \in Seq(Range(MUTATIONS))
            /\ Len(Tail(mutate.todo)) = Len(mutate.todo) - 1
            /\ Len(MUTATIONS) - Len(Tail(mutate.todo)) = n + 1
            /\ \A k \in 1 .. Len(Tail(mutate.todo)) :
                 Tail(mutate.todo)[k] = MUTATIONS[n + 1 + k]
<1> DEFINE todo == mutate.todo
<1>1. todo \in Seq(Range(MUTATIONS)) /\ todo # <<>> /\ Len(MUTATIONS) \in Nat
  BY RunFields, Mutations
<1>2. /\ Len(todo) <= Len(MUTATIONS)
      /\ \A k \in 1 .. Len(todo) : todo[k] = MUTATIONS[Len(MUTATIONS) - Len(todo) + k]
  BY DEF InOrder
<1> HIDE DEF todo
<1>3. /\ Head(todo) = todo[1] /\ Tail(todo) \in Seq(Range(MUTATIONS))
      /\ Len(Tail(todo)) = Len(todo) - 1 /\ Len(todo) \in Nat \ {0}
      /\ \A k \in 1 .. Len(Tail(todo)) : Tail(todo)[k] = todo[k + 1]
  BY <1>1, HeadTailProperties
<1>4. \A k \in 1 .. Len(Tail(todo)) :
        Tail(todo)[k] = MUTATIONS[Len(MUTATIONS) - Len(todo) + 1 + k]
  <2> SUFFICES ASSUME NEW k \in 1 .. Len(Tail(todo))
               PROVE  Tail(todo)[k] = MUTATIONS[Len(MUTATIONS) - Len(todo) + 1 + k]
    OBVIOUS
  <2>1. k + 1 \in 1 .. Len(todo) /\ Tail(todo)[k] = todo[k + 1]
    BY <1>3
  <2>2. Len(MUTATIONS) - Len(todo) + (k + 1) = Len(MUTATIONS) - Len(todo) + 1 + k
    BY <1>1, <1>3
  <2>3. todo[k + 1] = MUTATIONS[Len(MUTATIONS) - Len(todo) + (k + 1)]
    BY <1>2, <2>1
  <2> QED BY <2>1, <2>2, <2>3
<1>5. 1 \in 1 .. Len(todo) /\ todo[1] = MUTATIONS[Len(MUTATIONS) - Len(todo) + 1]
  BY <1>2, <1>3
<1>6. /\ Len(MUTATIONS) - Len(todo) + 1 \in 1 .. Len(MUTATIONS)
      /\ Len(MUTATIONS) - Len(Tail(todo)) = Len(MUTATIONS) - Len(todo) + 1
  BY <1>1, <1>2, <1>3
<1> QED BY <1>3, <1>4, <1>5, <1>6 DEF todo

\* The turn of a mutation ends: its pattern is missed, or the gates have run.
LEMMA TurnKeepsRun ==
  ASSUME SInv, RunStands, pattern_miss \/ run_mutation
  PROVE  RunStands'
<1> DEFINE m == Head(mutate.todo)
           n == Len(MUTATIONS) - Len(mutate.todo)
           lives == pattern_miss \/ ~Failed(root)
<1>1. /\ mutate.pc \in Ran /\ mutate.pc # "idle" /\ mutate.todo # <<>>
      /\ UNCHANGED <<vars, live, root, verdict>>
  BY DEF pattern_miss, run_mutation, Turn, RunIs, RunStands, InOrder, Ran
<1>2. /\ mutate'.pc = "mutations" /\ mutate'.original = mutate.original
      /\ mutate'.todo = Tail(mutate.todo) /\ mutate'.baseline = mutate.baseline
      /\ mutate'.survivable = (IF lives THEN mutate.survivable \cup {m} ELSE mutate.survivable)
      /\ mutate'.edited = mutate.edited
      /\ mutate' = [mutate EXCEPT !.pc = "mutations", !.todo = Tail(mutate.todo),
                                  !.survivable = mutate'.survivable]
  <2>1. mutate \in MutateRuns
    BY DEF RunStands, RunTyped
  <2>2. CASE pattern_miss
    <3>1. /\ mutate.pc = "mutations"
          /\ mutate' = [mutate EXCEPT !.todo = Tail(@), !.survivable = @ \cup {m}]
      BY <2>2 DEF pattern_miss, Turn, RunIs
    <3> QED BY <2>1, <2>2, <3>1 DEF MutateRuns
  <2>3. CASE run_mutation
    <3>1. mutate' = [mutate EXCEPT !.pc = "mutations", !.todo = Tail(@),
                       !.survivable = IF Failed(root) THEN @ ELSE @ \cup {m}]
          /\ mutate.pc = "mutation runs"
      BY <2>3 DEF run_mutation, RunIs
    <3>2. ~pattern_miss
      BY <3>1 DEF pattern_miss, Turn
    <3> HIDE DEF m
    <3> QED BY <2>1, <3>1, <3>2 DEF MutateRuns
  <2> QED BY <2>2, <2>3
<1>3. /\ n + 1 \in 1 .. Len(MUTATIONS) /\ m = MUTATIONS[n + 1]
      /\ mutate'.todo \in Seq(Range(MUTATIONS))
      /\ Len(mutate'.todo) = Len(mutate.todo) - 1
      /\ Len(MUTATIONS) - Len(mutate'.todo) = n + 1
      /\ \A k \in 1 .. Len(mutate'.todo) : mutate'.todo[k] = MUTATIONS[n + 1 + k]
      /\ Len(mutate.todo) \in Nat /\ Len(mutate.todo) <= Len(MUTATIONS)
  BY <1>1, <1>2, TurnDone, RunFields DEF RunStands, InOrder
<1> HIDE DEF m, n, lives
<1>4. m \in Range(MUTATIONS) /\ Len(MUTATIONS) \in Nat
  BY <1>3, Mutations
<1>5. RunTyped'
  <2>1. mutate'.survivable \subseteq Range(MUTATIONS)
    BY <1>2, <1>4, RunFields DEF RunStands
  <2>2. mutate' \in MutateRuns
    <3>1. mutate \in MutateRuns
      BY DEF RunStands, RunTyped
    <3> QED BY <1>2, <1>3, <2>1, <3>1 DEF MutateRuns, Ran
  <2> QED BY <1>1, <1>2, <2>2 DEF RunStands, RunTyped, Ran
<1>6. InOrder'
  <2>1. n \in Int /\ n + 1 = Len(MUTATIONS) - Len(mutate'.todo)
    BY <1>3, <1>4 DEF n
  <2>2. Len(mutate'.todo) <= Len(MUTATIONS)
    BY <1>3, <1>4
  <2> QED BY <1>2, <1>3, <2>1, <2>2 DEF InOrder, Ran
<1>7. Alone' => Alone
  BY <1>1, <1>2 DEF Alone
<1>8. CopyIsTrue'
  BY <1>1, <1>2, <1>7 DEF RunStands, CopyIsTrue
<1>9. ResultsAreTrue'
  <2> SUFFICES ASSUME Alone' PROVE ResultsAreTrue'
    BY DEF ResultsAreTrue
  <2>1. imported' = imported
    BY <1>1, SameSdk DEF vars, imported
  <2>2. /\ mutate.baseline = "none" => /\ OnGood[live.tests][mutate.original] = "none"
                                       /\ imported # {} /\ imported \subseteq REQUIRED_PINS
        /\ mutate.baseline = "all" => OnGood[live.tests][mutate.original] = "all"
        /\ mutate.baseline # "error" =>
             \A k \in 1 .. n : MUTATIONS[k] \in mutate.survivable \/ Caught(MUTATIONS[k])
        /\ mutate.baseline \in {"none", "all", "error"}
    BY <1>1, <1>7 DEF RunStands, RunTyped, ResultsAreTrue, n
  <2>3. ASSUME mutate.baseline # "error", ~lives PROVE Caught(m)
    <3>1. run_mutation /\ mutate.pc = "mutation runs" /\ Gates(root) = "some"
      BY <2>3 DEF lives, run_mutation, Failed
    <3>2. /\ root.harness = [base |-> mutate.original, mutation |-> m]
          /\ root.tests = live.tests /\ root.source = source
          /\ DOMAIN root.pin.files \subseteq REQUIRED_PINS
      BY <1>7, <3>1 DEF RunStands, CopyIsTrue, m
    <3>3. mutate.original \in Harnesses /\ live.tests \in Tests
      BY <1>1, RunFields DEF RunStands, RunTyped
    <3>4. root.harness.base = mutate.original /\ root.harness.mutation = m
      BY <3>2
    <3>5. m \in HasPattern[mutate.original]
      BY <3>1 DEF RunStands, InOrder, Applies, m
    <3>6. OnGood[live.tests][mutate.original] # "all"
      BY <3>1, <3>2, <3>3, <3>4, GatesShow
    <3>7. /\ OnGood[live.tests][mutate.original] = "none"
          /\ imported # {} /\ imported \subseteq REQUIRED_PINS
      BY <2>2, <2>3, <3>6
    <3>8. m \in Catches[live.tests]
      BY <3>1, <3>2, <3>3, <3>4, <3>7, GatesShow
    <3> QED BY <3>5, <3>7, <3>8 DEF Caught
  <2>4. \A x : Caught(x)' = Caught(x)
    BY <1>1, <1>2 DEF Caught
  <2>5. ASSUME mutate.baseline # "error", NEW k \in 1 .. n + 1
        PROVE  MUTATIONS[k] \in mutate'.survivable \/ Caught(MUTATIONS[k])
    <3>1. n \in Int
      BY <1>3, <1>4 DEF n
    <3>2. k = n + 1 \/ k \in 1 .. n
      BY <3>1
    <3> QED BY <1>2, <1>3, <2>2, <2>3, <2>5, <3>2
  <2> QED BY <1>1, <1>2, <1>3, <2>1, <2>2, <2>4, <2>5 DEF ResultsAreTrue
<1> QED BY <1>5, <1>6, <1>8, <1>9 DEF RunStands

LEMMA CopyKeepsRun ==
  ASSUME SInv, RunStands, copy_mutation \/ remove_root
  PROVE  RunStands'
<1>1. /\ mutate.pc = "mutations" /\ UNCHANGED <<vars, live, verdict>>
      /\ mutate' = [mutate EXCEPT !.pc = IF copy_mutation THEN "mutation runs" ELSE "ends"]
      /\ copy_mutation => /\ mutate.todo # <<>> /\ Applies(Head(mutate.todo))
                          /\ root' = CopyOf([base |-> mutate.original,
                                             mutation |-> Head(mutate.todo)])
      /\ ~copy_mutation => mutate.todo = <<>>
  <2>1. ~(copy_mutation /\ remove_root)
    BY DEF copy_mutation, remove_root, Turn
  <2>2. CASE copy_mutation
    BY <2>2 DEF copy_mutation, Turn, Mutates, RunIs
  <2>3. CASE remove_root
    BY <2>1, <2>3 DEF remove_root, RunIs
  <2> QED BY <2>2, <2>3
<1>2. /\ mutate'.pc = (IF copy_mutation THEN "mutation runs" ELSE "ends")
      /\ mutate'.original = mutate.original /\ mutate'.todo = mutate.todo
      /\ mutate'.survivable = mutate.survivable /\ mutate'.baseline = mutate.baseline
      /\ mutate'.edited = mutate.edited /\ mutate' \in MutateRuns
  <2>1. mutate \in MutateRuns
    BY DEF RunStands, RunTyped
  <2> QED BY <1>1, <2>1 DEF MutateRuns, Ran
<1>3. Alone' => Alone
  BY <1>1, <1>2 DEF Alone
<1>4. RunTyped'
  BY <1>1, <1>2 DEF RunStands, RunTyped, Ran
<1>5. Applies(Head(mutate.todo))' <=> Applies(Head(mutate.todo))
  BY <1>2 DEF Applies
<1>6. InOrder'
  <2>1. /\ mutate.pc = "mutations" /\ mutate'.pc \in {"mutation runs", "ends"}
        /\ mutate'.pc = "mutation runs" =>
             mutate.todo # <<>> /\ Applies(Head(mutate.todo))'
        /\ mutate'.pc = "ends" => mutate.todo = <<>>
    <3>1. CASE copy_mutation
      <4>1. mutate'.pc = "mutation runs" /\ mutate.todo # <<>>
        BY <1>1, <1>2, <3>1
      <4>2. Applies(Head(mutate.todo))'
        BY <1>1, <1>5, <3>1
      <4> QED BY <1>1, <4>1, <4>2
    <3>2. CASE ~copy_mutation
      BY <1>1, <1>2, <3>2
    <3> QED BY <3>1, <3>2
  <2>2. mutate'.todo = mutate.todo
    BY <1>2
  <2>3. /\ Len(mutate.todo) <= Len(MUTATIONS)
        /\ \A k \in 1 .. Len(mutate.todo) :
             mutate.todo[k] = MUTATIONS[Len(MUTATIONS) - Len(mutate.todo) + k]
    BY <2>1 DEF RunStands, InOrder
  <2> QED BY <2>1, <2>2, <2>3 DEF InOrder, Ran
<1>7. CopyIsTrue'
  <2>1. copy_mutation => /\ root'.harness = [base |-> mutate.original,
                                             mutation |-> Head(mutate.todo)]
                         /\ root'.tests = live.tests /\ root'.source = source
                         /\ DOMAIN root'.pin.files \subseteq REQUIRED_PINS
    <3> SUFFICES ASSUME copy_mutation
                 PROVE  /\ root'.harness = [base |-> mutate.original,
                                            mutation |-> Head(mutate.todo)]
                        /\ root'.tests = live.tests /\ root'.source = source
                        /\ DOMAIN root'.pin.files \subseteq REQUIRED_PINS
      OBVIOUS
    <3> DEFINE h == [base |-> mutate.original, mutation |-> Head(mutate.todo)]
    <3>1. root' = CopyOf(h)
      BY <1>1
    <3> HIDE DEF h
    <3>2. /\ root'.harness = h /\ root'.tests = live.tests /\ root'.source = source
          /\ root'.pin = pin
      BY <3>1 DEF CopyOf
    <3>3. DOMAIN pin.files \subseteq REQUIRED_PINS
      BY DEF SInv, TypeOK, IsPin
    <3> QED BY <3>2, <3>3 DEF h
  <2>2. mutate'.pc # "baseline runs" /\ (mutate'.pc = "mutation runs" => copy_mutation)
    BY <1>2
  <2>3. live' = live /\ source' = source
    BY <1>1 DEF vars
  <2>4. Alone => live.harness = Text(mutate.original)
    BY DEF RunStands, CopyIsTrue
  <2> QED BY <1>2, <1>3, <2>1, <2>2, <2>3, <2>4 DEF CopyIsTrue
<1>8. imported' = imported
  BY <1>1, SameSdk DEF vars, imported
<1>9. ResultsAreTrue'
  BY <1>1, <1>2, <1>3, <1>8 DEF RunStands, ResultsAreTrue, Caught, Ran
<1> QED BY <1>4, <1>6, <1>7, <1>9 DEF RunStands

LEMMA EndKeepsRun ==
  ASSUME RunStands, mutate_ends \/ mutate_killed
  PROVE  RunStands'
<1>1. mutate' = NoRun /\ live' = live
  BY DEF mutate_ends, mutate_killed, Ends, RunIs
<1>2. mutate'.pc = "idle" /\ mutate' \in MutateRuns
  BY <1>1, EmptySeq DEF NoRun, MutateRuns
<1>3. RunTyped'
  BY <1>1, <1>2 DEF RunStands, RunTyped, Ran
<1> QED BY <1>2, <1>3 DEF RunStands, InOrder, CopyIsTrue, ResultsAreTrue, Alone, Ran

LEMMA MNextKeepsRun == SInv /\ RunStands /\ [MNext]_<<vars, mvars>> => RunStands'
<1>1. SInv /\ RunStands /\ MNext => RunStands'
  BY AroundKeepsRun, StartKeepsRun, BaselineKeepsRun, TurnKeepsRun, CopyKeepsRun, EndKeepsRun
     DEF MNext
<1>2. RunStands /\ UNCHANGED <<vars, mvars>> => RunStands'
  <2> SUFFICES ASSUME RunStands, UNCHANGED <<vars, mvars>> PROVE RunStands'
    OBVIOUS
  <2>1. live' = live /\ mutate' = mutate /\ root' = root /\ verdict' = verdict
        /\ sdk' = sdk /\ source' = source
    BY DEF vars, mvars
  <2>2. imported' = imported /\ Alone' = Alone
    BY <2>1, SameSdk DEF imported, Alone
  <2>3. RunTyped'
    BY <2>1 DEF RunStands, RunTyped
  <2>4. InOrder'
    BY <2>1 DEF RunStands, InOrder, Applies
  <2>5. CopyIsTrue'
    BY <2>1, <2>2 DEF RunStands, CopyIsTrue
  <2>6. ResultsAreTrue'
    BY <2>1, <2>2 DEF RunStands, ResultsAreTrue, Caught
  <2> QED BY <2>3, <2>4, <2>5, <2>6 DEF RunStands
<1> QED BY <1>1, <1>2

LEMMA MutationInvariant == MSpec => [](SInv /\ RunStands)
<1>1. MInit => SInv /\ RunStands
  BY InitHasSInv, InitHasRun DEF MInit
<1>2. SInv /\ RunStands /\ [MNext]_<<vars, mvars>> => (SInv /\ RunStands)'
  BY MNextKeepsSInv, MNextKeepsRun
<1> QED BY <1>1, <1>2, PTL DEF MSpec

----------------------------------------------------------------------------
(* Theorems about mutate.py and the tree around it. *)

\* Also while mutate.py runs and people edit: the gates run on the bytes they were written
\* against (conftest.py:8), and a fresh pin stops no session (verify_pin.py:335).
THEOREM PinsBesideMutations == MSpec => [](GatesRunOnPinnedBytes /\ FreshPinHolds)
BY MutationInvariant, SightIsEnough, PTL

\* A session, an editor or CI sees a harness that somebody wrote, and never a mutated one,
\* also after mutate.py was killed (mutate.py:10-18).
THEOREM OnlyWrittenCode == MSpec => []OthersSeeOnlyWrittenCode
<1>1. RunStands => OthersSeeOnlyWrittenCode
  <2> SUFFICES ASSUME RunStands PROVE OthersSeeOnlyWrittenCode
    OBVIOUS
  <2>1. PICK h \in Harnesses : live = [harness |-> Text(h), tests |-> live.tests]
    BY RunFields DEF RunStands
  <2>2. live.harness = Text(h)
    BY <2>1
  <2> QED BY <2>2 DEF OthersSeeOnlyWrittenCode, Text
<1> QED BY <1>1, MutationInvariant, PTL

\* When mutate.py says that every mutation is caught, of a tree left alone and a baseline that
\* ran, each mutation applies to the harness and breaks a gate, and no gate fails without it,
\* whatever was installed or recorded meanwhile (mutate.py's verdict).
THEOREM CaughtMeansCaught == MSpec => VerdictIsTrue
<1>1. ASSUME RunStands, [MNext]_<<vars, mvars>>, mutate.pc = "ends", verdict' = "caught",
             mutate.edited = {}, mutate.baseline # "error"
      PROVE  \A m \in Range(MUTATIONS) :
               /\ m \in HasPattern[live.harness.base] \cap Catches[live.tests]
               /\ OnGood[live.tests][live.harness.base] = "none"
  <2>1. Alone /\ mutate.pc \in Ran /\ mutate.todo = <<>> /\ verdict = "none"
    BY <1>1 DEF Alone, Ran, RunStands, RunTyped, InOrder
  <2>2. mutate.survivable = {}
    <3>1. mutate_ends
      BY <1>1, <2>1 DEF mvars, MNext, Around, edit_live, mutate_starts, copy_baseline,
           run_baseline, pattern_miss, copy_mutation, run_mutation, remove_root, mutate_killed, Turn
    <3> QED BY <1>1, <2>1, <3>1 DEF mutate_ends, Ends, Alone, RunStands, CopyIsTrue
  <2>3. \A n \in 1 .. Len(MUTATIONS) : Caught(MUTATIONS[n])
    <3>1. Len(mutate.todo) = 0 /\ Len(MUTATIONS) - 0 = Len(MUTATIONS)
      BY <2>1, EmptySeq, Mutations
    <3>2. \A n \in 1 .. Len(MUTATIONS) - Len(mutate.todo) :
            MUTATIONS[n] \in mutate.survivable \/ Caught(MUTATIONS[n])
      BY <1>1, <2>1 DEF RunStands, ResultsAreTrue
    <3> QED BY <2>2, <3>1, <3>2
  <2>4. live.harness.base = mutate.original
    BY <1>1, <2>1 DEF RunStands, CopyIsTrue, Text
  <2> QED BY <2>3, <2>4, Mutations DEF Caught
<1>2. RunStands /\ [MNext]_<<vars, mvars>> =>
        [mutate.pc = "ends" /\ verdict' = "caught" /\ mutate.edited = {}
           /\ mutate.baseline # "error" =>
         \A m \in Range(MUTATIONS) : /\ m \in HasPattern[live.harness.base] \cap Catches[live.tests]
                              /\ OnGood[live.tests][live.harness.base] = "none"]_<<vars, mvars>>
  BY <1>1
<1> QED BY <1>2, MutationInvariant, PTL DEF MSpec, VerdictIsTrue
----------------------------------------------------------------------------
(* Starting and resuming runs (PinResume), for any runs, workers, definitions and adapters. *)

\* A saved run is pinned to what it was first started with.
PinsAreKept ==
  \A r \in Runs :
     /\ runs[r] = NoRow <=> started[r] = Nothing
     /\ runs[r] # NoRow => runs[r].pin = PinOf(started[r].defn, started[r].adapter)

\* A resume under way holds the run's pin; past the checks, its body and its adapter are
\* what the pin says; past the lease, it is the holder and nothing has run yet.
Honest(w, c) ==
  /\ c.pc # "idle" => c.run \in Runs /\ c.adapter \in Adapters
  /\ c.pc = "save" => c.defn \in Stored
  /\ c.pc \in {"resolve", "lease", "execute"} =>
       runs[c.run] # NoRow /\ c.pinned = runs[c.run].pin
  /\ c.pc \in {"lease", "execute"} =>
       /\ c.body \in Definitions
       /\ Digest(c.body) = c.pinned.definition_digest
       /\ c.pinned = PinOf(c.defn, c.adapter)
  /\ c.pc = "execute" => resume_leases[c.run] = w /\ executions[c.run] = <<>>
  /\ c.body # Nothing => c.pc \in {"lease", "execute"}

CallsAreHonest == \A w \in Workers : Honest(w, call[w])

\* A run is started with a definition that could be stored.
StartsAreStored == \A r \in Runs : started[r] # Nothing => started[r].defn \in Stored

\* Whatever ran was what the run is pinned to, once, by the holder of its lease.
RunsAreHonest ==
  \A r \in Runs :
     /\ executions[r] # <<>> => runs[r] # NoRow
     /\ executions[r] # <<>> => Len(executions[r]) = 1
     /\ \A i \in DOMAIN executions[r] :
          /\ PinOf(executions[r][i].body, executions[r][i].adapter) = runs[r].pin
          /\ executions[r][i].body \in Definitions
          /\ executions[r][i].adapter \in Adapters
          /\ resume_leases[r] = executions[r][i].worker
          /\ executions[r][i].worker \in Workers

ResumeInv == ResumeTypeOK /\ PinsAreKept /\ CallsAreHonest /\ StartsAreStored /\ RunsAreHonest

----------------------------------------------------------------------------
(* Pins and digests. *)

\* The version does not show in the digest of a body.
LEMMA VersionIsNotDigested ==
  ASSUME NEW body \in Definitions
  PROVE  digest_of_body(body) = Digest(body)
<1>1. body = [instructions |-> body.instructions, tools |-> body.tools,
              extensions |-> body.extensions, version |-> body.version]
  BY DefinitionsAreWellFormed
<1> QED BY <1>1 DEF digest_of_body, Digest, Normal

\* A pin tells definitions with different behaviour, and adapters, apart.
LEMMA PinTellsApart ==
  ASSUME NEW d \in Definitions, NEW e \in Definitions,
         NEW a \in Adapters, NEW b \in Adapters, PinOf(d, a) = PinOf(e, b)
  PROVE  SameBehaviour(d, e) /\ a = b
<1>1. Digest(d) = Digest(e)
  BY DEF PinOf
<1>2. SameBehaviour(d, e)
  BY <1>1 DEF Digest, Normal, SameBehaviour
<1>3. ContractDigest(a.contract) = ContractDigest(b.contract)
      /\ a.payload_schema_digest = b.payload_schema_digest
  BY DEF PinOf
<1>4. a.contract.identity = b.contract.identity
      /\ a.contract.protocol_version = b.contract.protocol_version
  BY <1>3 DEF ContractDigest
<1>5. a = b
  BY <1>3, <1>4, AdaptersAreAdapters
<1> QED BY <1>2, <1>5

----------------------------------------------------------------------------
(* The invariant. *)

\* One call changes.
LEMMA OneCallChanges ==
  ASSUME call \in [Workers -> Call], NEW w \in Workers, NEW c \in Call,
         call' = [call EXCEPT ![w] = c]
  PROVE  /\ call' \in [Workers -> Call]
         /\ call'[w] = c
         /\ \A v \in Workers : v # w => call'[v] = call[v]
OBVIOUS

LEMMA IdleIsHonest ==
  /\ Idle \in Call
  /\ Idle.body = Nothing
  /\ \A w \in Workers : Honest(w, Idle) /\ Honest(w, Idle)'
BY DEF Idle, Call, Honest

LEMMA InitHasResumeInv == ResumeInit => ResumeInv
BY IdleIsHonest
   DEF ResumeInit, ResumeInv, ResumeTypeOK, PinsAreKept, CallsAreHonest, StartsAreStored,
       RunsAreHonest, Idle, NoRow, Outcomes

\* A step that leaves the run's row, lease and executions alone keeps the invariant when
\* the call it leaves behind is honest.
LEMMA QuietStep ==
  ASSUME ResumeInv, NEW w \in Workers, NEW c \in Call, Honest(w, c),
         c.body # Nothing => Digest(c.body) = c.pinned.definition_digest,
         call' = [call EXCEPT ![w] = c], outcome' \in Outcomes,
         definitions' \in [Digests -> Definitions \cup {Nothing}],
         UNCHANGED <<runs, resume_leases, started, executions>>
  PROVE  ResumeInv'
<1>1. /\ call' \in [Workers -> Call]
      /\ call'[w] = c
      /\ \A v \in Workers : v # w => call'[v] = call[v]
  BY OneCallChanges DEF ResumeInv, ResumeTypeOK
<1>2. ResumeTypeOK'
  BY <1>1 DEF ResumeInv, ResumeTypeOK
<1>3. CallsAreHonest'
  BY <1>1 DEF ResumeInv, CallsAreHonest, Honest
<1>4. PinsAreKept' /\ StartsAreStored' /\ RunsAreHonest'
  BY DEF ResumeInv, PinsAreKept, StartsAreStored, RunsAreHonest
<1> QED BY <1>2, <1>3, <1>4 DEF ResumeInv

LEMMA EndKeepsResumeInv ==
  ASSUME ResumeInv, NEW w \in Workers, NEW o \in Outcomes, CallEnds(w, o),
         definitions' \in [Digests -> Definitions \cup {Nothing}],
         UNCHANGED <<runs, resume_leases, started, executions>>
  PROVE  ResumeInv'
BY QuietStep, IdleIsHonest DEF CallEnds

LEMMA PutKeepsResumeInv ==
  ASSUME ResumeInv, NEW w \in Workers, NEW r \in Runs, NEW d \in Definitions,
         NEW a \in Adapters, put_definition(w, r, d, a)
  PROVE  ResumeInv'
<1>0. definitions \in [Digests -> Definitions \cup {Nothing}]
  BY DEF ResumeInv, ResumeTypeOK
<1>1. CASE Serialisable(d)
  <2> DEFINE c == [Idle EXCEPT !.pc = "save", !.run = r, !.defn = d, !.adapter = a]
  <2>1. c \in Call /\ c.body = Nothing /\ Honest(w, c)
    BY <1>1 DEF Idle, Call, Honest, Stored
  <2>2. definitions' \in [Digests -> Definitions \cup {Nothing}]
    BY <1>0, <1>1 DEF put_definition
  <2>3. call' = [call EXCEPT ![w] = c] /\ outcome' \in Outcomes
    BY <1>1 DEF put_definition, CallGoes, Outcomes
  <2> HIDE DEF c
  <2> QED BY <2>1, <2>2, <2>3, QuietStep DEF put_definition
<1>2. CASE ~Serialisable(d)
  BY <1>0, <1>2, EndKeepsResumeInv DEF put_definition, Outcomes
<1> QED BY <1>1, <1>2

LEMMA LoadKeepsResumeInv ==
  ASSUME ResumeInv, NEW w \in Workers, NEW r \in Runs, NEW d \in Definitions,
         NEW a \in Adapters, load_run(w, r, d, a)
  PROVE  ResumeInv'
<1>0. definitions' \in [Digests -> Definitions \cup {Nothing}]
  BY DEF ResumeInv, ResumeTypeOK, load_run
<1>1. CASE runs[r] = NoRow
  BY <1>0, <1>1, EndKeepsResumeInv DEF load_run, Outcomes
<1>2. CASE runs[r] # NoRow
  <2> DEFINE c == [pc |-> "resolve", run |-> r, defn |-> d, adapter |-> a,
                   pinned |-> runs[r].pin, state |-> runs[r].state, body |-> Nothing]
  <2>1. runs[r] \in RunRow
    BY <1>2 DEF ResumeInv, ResumeTypeOK
  <2>2. c \in Call /\ c.body = Nothing /\ Honest(w, c)
    BY <1>2, <2>1 DEF Call, RunRow, Honest
  <2>3. call' = [call EXCEPT ![w] = c] /\ outcome' \in Outcomes
    BY <1>2 DEF load_run, CallGoes, Outcomes
  <2> HIDE DEF c
  <2> QED BY <1>0, <2>2, <2>3, QuietStep DEF load_run
<1> QED BY <1>1, <1>2

LEMMA ResolveKeepsResumeInv ==
  ASSUME ResumeInv, NEW w \in Workers, get_definition_body(w)
  PROVE  ResumeInv'
<1> DEFINE c == call[w]
           digest == c.pinned.definition_digest
           body == definitions[digest]
<1>0. definitions' \in [Digests -> Definitions \cup {Nothing}]
  BY DEF ResumeInv, ResumeTypeOK, get_definition_body
<1>1. CASE CallEnds(w, "ArtifactMissing") \/ CallEnds(w, "ArtifactCorrupted")
              \/ CallEnds(w, "IncompatibleCheckpoint")
  BY <1>0, <1>1, EndKeepsResumeInv DEF get_definition_body, Outcomes
<1>2. CASE /\ body # Nothing /\ Intact(body, digest)
           /\ ~Mismatch(c.pinned, PinOf(c.defn, c.adapter))
           /\ CallGoes(w, [c EXCEPT !.pc = "lease", !.body = body])
  <2> DEFINE e == [c EXCEPT !.pc = "lease", !.body = body]
  <2>1. c \in Call /\ c.pc = "resolve" /\ Honest(w, c)
    BY DEF ResumeInv, ResumeTypeOK, CallsAreHonest, get_definition_body
  <2>2. runs[c.run] # NoRow /\ c.run \in Runs /\ c.adapter \in Adapters
        /\ c.pinned = runs[c.run].pin
    BY <2>1 DEF Honest
  <2>3. /\ started[c.run] \in Started
        /\ c.pinned = PinOf(started[c.run].defn, started[c.run].adapter)
    BY <2>2 DEF ResumeInv, ResumeTypeOK, PinsAreKept
  <2>4. c.pinned = PinOf(c.defn, c.adapter)
    BY <1>2, <2>3 DEF Mismatch, PinOf
  <2>5. body \in Definitions /\ Digest(body) = digest
    <3>1. digest \in Digests
      BY <2>2, <2>3 DEF ResumeInv, StartsAreStored, PinsAreKept, Digests, PinOf
    <3>2. body \in Definitions
      BY <1>2, <3>1 DEF ResumeInv, ResumeTypeOK
    <3> QED BY <1>2, <3>2, VersionIsNotDigested DEF Intact
  <2>6. /\ e \in Call
        /\ e.pc = "lease" /\ e.run = c.run /\ e.adapter = c.adapter
        /\ e.defn = c.defn /\ e.pinned = c.pinned /\ e.body = body
    BY <2>1, <2>5 DEF Call
  <2>7. Honest(w, e)
    BY <2>2, <2>4, <2>5, <2>6 DEF Honest
  <2>8. call' = [call EXCEPT ![w] = e] /\ outcome' \in Outcomes
    BY <1>2 DEF CallGoes, Outcomes
  <2> HIDE DEF e
  <2> QED BY <1>0, <2>5, <2>6, <2>7, <2>8, QuietStep DEF get_definition_body
<1> QED BY <1>1, <1>2 DEF get_definition_body

LEMMA SaveKeepsResumeInv ==
  ASSUME ResumeInv, NEW w \in Workers, save_run(w)
  PROVE  ResumeInv'
<1> DEFINE c == call[w]
           r == c.run
           made == PinOf(c.defn, c.adapter)
           row == [pin |-> SavedPin(r, made), state |-> c.adapter.payload_schema_digest]
<1>1. c \in Call /\ c.pc = "save" /\ Honest(w, c)
  BY DEF ResumeInv, ResumeTypeOK, CallsAreHonest, save_run
<1>2. r \in Runs /\ c.defn \in Stored /\ c.defn \in Definitions /\ c.adapter \in Adapters
  BY <1>1 DEF Honest, Stored
<1>3. /\ call' \in [Workers -> Call]
      /\ call'[w] = Idle
      /\ \A v \in Workers : v # w => call'[v] = call[v]
  BY OneCallChanges, IdleIsHonest DEF ResumeInv, ResumeTypeOK, save_run, CallEnds
<1>4. runs[r] # NoRow =>
        runs[r] \in RunRow /\ SavedPin(r, made) = runs[r].pin
  BY <1>2 DEF ResumeInv, ResumeTypeOK, SavedPin
<1>5. row \in RunRow
  BY <1>2, <1>4 DEF RunRow, Pins, State, SavedPin
<1>6. row # NoRow
  BY <1>2, <1>4, <1>5, NothingIsNoRecord DEF NoRow, RunRow, Pins
<1>7. /\ runs' \in [Runs -> RunRow \cup {NoRow}]
      /\ runs'[r] = row
      /\ \A q \in Runs : q # r => runs'[q] = runs[q]
  BY <1>2, <1>5 DEF ResumeInv, ResumeTypeOK, save_run
<1>8. /\ started' \in [Runs -> Started \cup {Nothing}]
      /\ started[r] # Nothing => started' = started
      /\ started[r] = Nothing => started'[r] = [defn |-> c.defn, adapter |-> c.adapter]
      /\ \A q \in Runs : q # r => started'[q] = started[q]
  BY <1>2 DEF ResumeInv, ResumeTypeOK, save_run, Started
<1>9. UNCHANGED <<definitions, resume_leases, executions>> /\ outcome' = "ok"
  BY DEF save_run, CallEnds
<1> HIDE DEF row
<1>10. ResumeTypeOK'
  BY <1>3, <1>7, <1>8, <1>9, IdleIsHonest DEF ResumeInv, ResumeTypeOK, Outcomes
<1>11. PinsAreKept'
  <2>1. started'[r] # Nothing /\ runs'[r].pin = PinOf(started'[r].defn, started'[r].adapter)
    <3>1. CASE runs[r] = NoRow
      BY <1>2, <1>7, <1>8, <3>1, NothingIsNoRecord
         DEF ResumeInv, PinsAreKept, row, SavedPin
    <3>2. CASE runs[r] # NoRow
      BY <1>2, <1>4, <1>7, <1>8, <3>2 DEF ResumeInv, PinsAreKept, row
    <3> QED BY <3>1, <3>2
  <2> QED BY <1>2, <1>6, <1>7, <1>8, <2>1 DEF ResumeInv, PinsAreKept
<1>12. StartsAreStored'
  BY <1>2, <1>8 DEF ResumeInv, StartsAreStored
<1>13. \A q \in Runs : runs[q] # NoRow =>
         runs'[q] # NoRow /\ runs'[q].pin = runs[q].pin
  BY <1>4, <1>6, <1>7 DEF row
<1>14. CallsAreHonest'
  <2>1. \A v \in Workers : Honest(v, call[v]) => Honest(v, call[v])'
    BY <1>3, <1>9, <1>13 DEF ResumeInv, CallsAreHonest, Honest, Idle
  <2> QED BY <1>3, <2>1, IdleIsHonest DEF ResumeInv, CallsAreHonest
<1>15. RunsAreHonest'
  BY <1>9, <1>13 DEF ResumeInv, RunsAreHonest
<1> QED BY <1>10, <1>11, <1>12, <1>14, <1>15 DEF ResumeInv

LEMMA LeaseKeepsResumeInv ==
  ASSUME ResumeInv, NEW w \in Workers, acquire_resume_lease(w)
  PROVE  ResumeInv'
<1> DEFINE c == call[w]
           e == [c EXCEPT !.pc = "execute"]
<1>0. definitions' \in [Digests -> Definitions \cup {Nothing}]
  BY DEF ResumeInv, ResumeTypeOK, acquire_resume_lease
<1>1. c \in Call /\ c.pc = "lease" /\ Honest(w, c) /\ c.run \in Runs
  BY DEF ResumeInv, ResumeTypeOK, CallsAreHonest, acquire_resume_lease, Honest
<1>2. CASE ~LeaseFree(c.run)
  BY <1>0, <1>2, EndKeepsResumeInv DEF acquire_resume_lease, Outcomes
<1>3. CASE LeaseFree(c.run)
  <2>1. /\ e \in Call
        /\ e.pc = "execute" /\ e.run = c.run /\ e.adapter = c.adapter
        /\ e.defn = c.defn /\ e.pinned = c.pinned /\ e.body = c.body
    BY <1>1 DEF Call
  <2>2. call' = [call EXCEPT ![w] = e] /\ outcome' = "none"
    BY <1>3 DEF acquire_resume_lease, CallGoes
  <2> HIDE DEF e
  <2>3. /\ call' \in [Workers -> Call]
        /\ call'[w] = e
        /\ \A v \in Workers : v # w => call'[v] = call[v]
    BY <2>1, <2>2, OneCallChanges DEF ResumeInv, ResumeTypeOK
  <2>4. /\ resume_leases[c.run] = Nothing
        /\ resume_leases' \in [Runs -> Workers \cup {Nothing}]
        /\ resume_leases'[c.run] = w
        /\ \A q \in Runs : q # c.run => resume_leases'[q] = resume_leases[q]
    BY <1>1, <1>3 DEF ResumeInv, ResumeTypeOK, acquire_resume_lease, LeaseFree
  <2>5. UNCHANGED <<definitions, runs, started, executions>>
    BY DEF acquire_resume_lease
  <2>6. ResumeTypeOK'
    <3>1. e.body # Nothing => Digest(e.body) = e.pinned.definition_digest
      BY <2>1 DEF ResumeInv, ResumeTypeOK
    <3> QED BY <2>2, <2>3, <2>4, <2>5, <3>1 DEF ResumeInv, ResumeTypeOK, Outcomes
  <2>7. executions[c.run] = <<>>
    <3>1. executions[c.run] \in Seq(Execution)
      BY <1>1 DEF ResumeInv, ResumeTypeOK
    <3>2. executions[c.run] # <<>> => 1 \in DOMAIN executions[c.run]
      BY <3>1
    <3> QED BY <1>1, <2>4, <3>2, NothingIsNoWorker DEF ResumeInv, RunsAreHonest
  <2>8. Honest(w, call[w])'
    BY <1>1, <2>1, <2>3, <2>4, <2>5, <2>7 DEF Honest
  <2>9. \A v \in Workers : v # w => Honest(v, call[v])'
    BY <1>1, <2>3, <2>4, <2>5, NothingIsNoWorker DEF ResumeInv, CallsAreHonest, Honest
  <2>10. CallsAreHonest'
    BY <2>3, <2>8, <2>9 DEF CallsAreHonest
  <2>11. RunsAreHonest'
    BY <1>1, <2>4, <2>5, <2>7 DEF ResumeInv, RunsAreHonest
  <2>12. PinsAreKept' /\ StartsAreStored'
    BY <2>5 DEF ResumeInv, PinsAreKept, StartsAreStored
  <2> QED BY <2>6, <2>10, <2>11, <2>12 DEF ResumeInv
<1> QED BY <1>2, <1>3

LEMMA ExecuteKeepsResumeInv ==
  ASSUME ResumeInv, NEW w \in Workers, execute(w)
  PROVE  ResumeInv'
<1> DEFINE c == call[w]
           r == c.run
           ran == [worker |-> w, body |-> c.body, adapter |-> c.adapter]
<1>1. c \in Call /\ c.pc = "execute" /\ Honest(w, c)
  BY DEF ResumeInv, ResumeTypeOK, CallsAreHonest, execute
<1>2. /\ r \in Runs /\ c.adapter \in Adapters /\ c.body \in Definitions
      /\ runs[r] # NoRow /\ c.pinned = runs[r].pin
      /\ c.pinned = PinOf(c.defn, c.adapter)
      /\ Digest(c.body) = c.pinned.definition_digest
      /\ resume_leases[r] = w /\ executions[r] = <<>>
  BY <1>1 DEF Honest
<1>3. PinOf(c.body, c.adapter) = runs[r].pin
  BY <1>2 DEF PinOf
<1>4. ran \in Execution
  BY <1>2 DEF Execution
<1>5. /\ executions' \in [Runs -> Seq(Execution)]
      /\ executions'[r] = <<ran>>
      /\ \A q \in Runs : q # r => executions'[q] = executions[q]
  <2>1. executions' = [executions EXCEPT ![r] = Append(@, ran)]
    BY DEF execute
  <2>2. Append(<<>>, ran) = <<ran>> /\ <<ran>> \in Seq(Execution)
    BY <1>4
  <2> HIDE DEF ran
  <2> QED BY <1>2, <2>1, <2>2 DEF ResumeInv, ResumeTypeOK
<1>6. /\ call' \in [Workers -> Call]
      /\ call'[w] = Idle
      /\ \A v \in Workers : v # w => call'[v] = call[v]
  BY OneCallChanges, IdleIsHonest DEF ResumeInv, ResumeTypeOK, execute, CallEnds
<1>7. UNCHANGED <<definitions, runs, resume_leases, started>> /\ outcome' = "ok"
  BY DEF execute, CallEnds
<1>8. ResumeTypeOK'
  BY <1>5, <1>6, <1>7, IdleIsHonest DEF ResumeInv, ResumeTypeOK, Outcomes
<1>9. CallsAreHonest'
  <2>1. \A v \in Workers : v # w => Honest(v, call[v])'
    BY <1>2, <1>5, <1>6, <1>7 DEF ResumeInv, CallsAreHonest, Honest
  <2> QED BY <1>6, <2>1, IdleIsHonest DEF CallsAreHonest
<1>10. ASSUME NEW q \in Runs
       PROVE  /\ executions'[q] # <<>> => runs[q] # NoRow
              /\ executions'[q] # <<>> => Len(executions'[q]) = 1
              /\ \A i \in DOMAIN executions'[q] :
                   /\ PinOf(executions'[q][i].body, executions'[q][i].adapter)
                        = runs[q].pin
                   /\ executions'[q][i].body \in Definitions
                   /\ executions'[q][i].adapter \in Adapters
                   /\ resume_leases[q] = executions'[q][i].worker
                   /\ executions'[q][i].worker \in Workers
  <2>1. CASE q = r
    <3>1. ran.worker = w /\ ran.body = c.body /\ ran.adapter = c.adapter
      OBVIOUS
    <3> HIDE DEF ran
    <3>2. executions'[q] = <<ran>>
      BY <1>5, <2>1
    <3>3. /\ Len(executions'[q]) = 1
          /\ \A i \in DOMAIN executions'[q] : executions'[q][i] = ran
      BY <3>2
    <3> QED BY <1>2, <1>3, <2>1, <3>1, <3>2, <3>3
  <2>2. CASE q # r
    BY <1>5, <2>2 DEF ResumeInv, RunsAreHonest
  <2> QED BY <2>1, <2>2
<1>11. RunsAreHonest'
  BY <1>7, <1>10 DEF RunsAreHonest
<1>12. PinsAreKept' /\ StartsAreStored'
  BY <1>7 DEF ResumeInv, PinsAreKept, StartsAreStored
<1> QED BY <1>8, <1>9, <1>11, <1>12 DEF ResumeInv

LEMMA FaultKeepsResumeInv ==
  ASSUME ResumeInv, NEW digest \in Digests, NEW body \in Stored \cup {Nothing},
         registry_fault(digest, body)
  PROVE  ResumeInv'
<1>1. definitions' \in [Digests -> Definitions \cup {Nothing}]
  BY DEF ResumeInv, ResumeTypeOK, registry_fault, Stored
<1>2. UNCHANGED <<runs, resume_leases, call, started, executions>> /\ outcome' = "none"
  BY DEF registry_fault
<1>3. ResumeTypeOK'
  BY <1>1, <1>2 DEF ResumeInv, ResumeTypeOK, Outcomes
<1> QED BY <1>2, <1>3 DEF ResumeInv, PinsAreKept, CallsAreHonest, Honest, StartsAreStored,
          RunsAreHonest

LEMMA StepKeepsResumeInv ==
  ResumeInv /\ [ResumeNext]_resumeVars => ResumeInv'
<1> SUFFICES ASSUME ResumeInv, [ResumeNext]_resumeVars PROVE ResumeInv'
  OBVIOUS
<1>1. CASE \E w \in Workers, r \in Runs, d \in Definitions, a \in Adapters :
             put_definition(w, r, d, a) \/ load_run(w, r, d, a)
  BY <1>1, PutKeepsResumeInv, LoadKeepsResumeInv
<1>2. CASE \E w \in Workers : \/ save_run(w) \/ get_definition_body(w)
                              \/ acquire_resume_lease(w) \/ execute(w) \/ crash(w)
  <2> SUFFICES ASSUME NEW w \in Workers,
                      \/ save_run(w) \/ get_definition_body(w)
                      \/ acquire_resume_lease(w) \/ execute(w) \/ crash(w)
               PROVE  ResumeInv'
    BY <1>2
  <2>1. CASE crash(w)
    BY <2>1, EndKeepsResumeInv DEF crash, Outcomes, ResumeInv, ResumeTypeOK
  <2> QED BY <2>1, SaveKeepsResumeInv, ResolveKeepsResumeInv, LeaseKeepsResumeInv,
             ExecuteKeepsResumeInv
<1>3. CASE \E digest \in Digests, body \in Stored \cup {Nothing} :
             registry_fault(digest, body)
  BY <1>3, FaultKeepsResumeInv
<1>4. CASE UNCHANGED resumeVars
  BY <1>4
     DEF resumeVars, ResumeInv, ResumeTypeOK, PinsAreKept, CallsAreHonest, Honest,
         StartsAreStored, RunsAreHonest
<1> QED BY <1>1, <1>2, <1>3, <1>4 DEF ResumeNext

\* The strengthening the theorems below rest on holds in every reachable state.
THEOREM ResumeInvariant ==
  ResumeSpec => []ResumeInv
<1> QED BY InitHasResumeInv, StepKeepsResumeInv, PTL DEF ResumeSpec

----------------------------------------------------------------------------
(* What the invariant gives. *)

\* Every variable keeps its type, and the body a resume has in hand the digest its pin
\* names.
THEOREM ResumeTypes ==
  ResumeSpec => []ResumeTypeOK
<1>1. ResumeInv => ResumeTypeOK
  BY DEF ResumeInv
<1> QED BY <1>1, ResumeInvariant, PTL

\* Whatever becomes of the registry and however often a run is started, an adapter only
\* executes what the run was first started with.
THEOREM PinnedExecutionAlways ==
  ResumeSpec => []PinnedExecution
<1>1. ASSUME ResumeInv PROVE PinnedExecution
  <2> SUFFICES ASSUME NEW r \in Runs, NEW e \in Range(executions[r])
               PROVE  /\ SameBehaviour(e.body, started[r].defn)
                      /\ e.adapter = started[r].adapter
    BY DEF PinnedExecution
  <2>1. PICK i \in DOMAIN executions[r] : e = executions[r][i]
    BY DEF Range
  <2>2. executions[r] # <<>>
    BY <2>1
  <2>3. runs[r] # NoRow
    BY <1>1, <2>2 DEF ResumeInv, RunsAreHonest
  <2>4. /\ runs[r].pin = PinOf(started[r].defn, started[r].adapter)
        /\ started[r] \in Started
    BY <1>1, <2>3 DEF ResumeInv, PinsAreKept, ResumeTypeOK
  <2>5. PinOf(e.body, e.adapter) = runs[r].pin /\ e.body \in Definitions
        /\ e.adapter \in Adapters
    BY <1>1, <2>1 DEF ResumeInv, RunsAreHonest
  <2> QED BY <2>4, <2>5, PinTellsApart DEF Started
<1>2. ResumeInv => PinnedExecution
  BY <1>1
<1> QED BY <1>2, ResumeInvariant, PTL

\* No two workers execute a run, however their checks interleave.
THEOREM ResumedOnceAlways ==
  ResumeSpec => []ResumedOnce
<1>1. ASSUME ResumeInv PROVE ResumedOnce
  <2> SUFFICES ASSUME NEW r \in Runs, NEW e \in Range(executions[r])
               PROVE  Len(executions[r]) = 1 /\ resume_leases[r] = e.worker
    BY DEF ResumedOnce
  <2>1. PICK i \in DOMAIN executions[r] : e = executions[r][i]
    BY DEF Range
  <2>2. executions[r] # <<>>
    BY <2>1
  <2> QED BY <1>1, <2>1, <2>2 DEF ResumeInv, RunsAreHonest
<1>2. ResumeInv => ResumedOnce
  BY <1>1
<1> QED BY <1>2, ResumeInvariant, PTL
=============================================================================
