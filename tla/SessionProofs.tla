---------------------------- MODULE SessionProofs ----------------------------
(* Theorems about Session for any plugins, modes, settings, tools, points and *)
(* any number of rules and points of a draft, with their proofs.              *)
EXTENDS Session, CountingLemmas, FunctionTheorems

(* Rows of the list up to row i that are of a kind.                           *)
OfKind(rules, kind, i) == {j \in 1..i : rules[j].kind = kind}

(* The ids of a list number the rules of each kind.                           *)
Numbered(rules) ==
    \A i \in DOMAIN rules :
        rules[i].id = <<rules[i].kind, Cardinality(OfKind(rules, rules[i].kind, i))>>

(* A list as the settings page can show it.                                   *)
Listed(rules) == rules \in Seq(RuleSpec) /\ AllMade(rules) /\ Numbered(rules)

LEMMA OfKindIsFinite ==
    ASSUME NEW rules, NEW kind, NEW i \in Nat
    PROVE  /\ IsFiniteSet(OfKind(rules, kind, i))
           /\ Cardinality(OfKind(rules, kind, i)) \in Nat
<1>1. IsFiniteSet(1..i)
  BY FS_Interval
<1>2. OfKind(rules, kind, i) \in SUBSET (1..i)
  BY DEF OfKind
<1>3. IsFiniteSet(OfKind(rules, kind, i))
  BY <1>1, <1>2, FS_Subset
<1> QED
  BY <1>3, FS_CardinalityType

(* No two rows of a list have one id.                                         *)
LEMMA IdsDiffer ==
    ASSUME NEW rules, Listed(rules), NEW i \in DOMAIN rules, NEW j \in DOMAIN rules,
           rules[i].id = rules[j].id
    PROVE  i = j
<1> DEFINE kind == rules[i].kind
<1>1. i \in Nat /\ j \in Nat /\ DOMAIN rules \subseteq Nat \ {0}
  BY DEF Listed
<1>2. /\ rules[j].kind = kind
      /\ Cardinality(OfKind(rules, kind, i)) = Cardinality(OfKind(rules, kind, j))
  BY DEF Listed, Numbered
<1>3. ASSUME NEW a \in {i, j}, NEW b \in {i, j}, a < b
      PROVE  FALSE
  <2>1. OfKind(rules, kind, a) \in SUBSET OfKind(rules, kind, b)
    BY <1>1, <1>3 DEF OfKind
  <2>2. b \in OfKind(rules, kind, b) \ OfKind(rules, kind, a)
    BY <1>1, <1>2, <1>3 DEF OfKind
  <2>3. Cardinality(OfKind(rules, kind, a)) = Cardinality(OfKind(rules, kind, b))
    BY <1>2
  <2>4. IsFiniteSet(OfKind(rules, kind, b))
    BY <1>1, OfKindIsFinite
  <2>5. OfKind(rules, kind, a) = OfKind(rules, kind, b)
    BY <2>1, <2>3, <2>4, FS_Subset
  <2> QED
    BY <2>2, <2>5
<1> QED
  BY <1>1, <1>3

(* The engine gets every rule of a list, as it is listed, and no other.       *)
LEMMA EngineGetsList ==
    ASSUME NEW rules, Listed(rules)
    PROVE  /\ DOMAIN Inject(rules) = {rules[i].id : i \in DOMAIN rules}
           /\ \A i \in DOMAIN rules : Inject(rules)[rules[i].id] = rules[i]
<1> DEFINE made == {i \in DOMAIN rules : MakeRule(rules[i])}
           with(id) == {i \in made : rules[i].id = id}
           first(id) == CHOOSE i \in with(id) : \A j \in with(id) : i <= j
           last(id) == CHOOSE i \in with(id) : \A j \in with(id) : j <= i
           ids == {rules[i].id : i \in made}
<1>1. Inject(rules) = [id \in ids |-> [rules[first(id)] EXCEPT !.enabled = rules[last(id)].enabled]]
  BY DEF Inject
<1>2. made = DOMAIN rules
  BY DEF Listed, AllMade
<1>3. ASSUME NEW i \in DOMAIN rules
      PROVE  Inject(rules)[rules[i].id] = rules[i]
  <2> DEFINE id == rules[i].id
  <2>1. with(id) = {i}
    BY <1>2, <1>3, IdsDiffer
  <2>2. i \in Nat
    BY DEF Listed
  <2>3. first(id) = i
    <3>1. i \in with(id) /\ \A j \in with(id) : i <= j
      BY <2>1, <2>2
    <3> QED
      BY <2>1, <3>1
  <2>4. last(id) = i
    <3>1. i \in with(id) /\ \A j \in with(id) : j <= i
      BY <2>1, <2>2
    <3> QED
      BY <2>1, <3>1
  <2>5. id \in ids
    BY <1>2
  <2>6. Inject(rules)[id] = [rules[first(id)] EXCEPT !.enabled = rules[last(id)].enabled]
    BY <1>1, <2>5
  <2>7. Inject(rules)[id] = [rules[i] EXCEPT !.enabled = rules[i].enabled]
    BY <2>3, <2>4, <2>6
  <2>8. rules[i] \in RuleSpec
    BY DEF Listed
  <2> QED
    BY <2>7, <2>8 DEF RuleSpec
<1>4. DOMAIN Inject(rules) = {rules[i].id : i \in DOMAIN rules}
  BY <1>1, <1>2
<1> QED
  BY <1>3, <1>4

LEMMA EngineCountsList ==
    ASSUME NEW rules, Listed(rules)
    PROVE  Cardinality(DOMAIN Inject(rules)) = Len(rules)
<1> DEFINE ids == {rules[i].id : i \in DOMAIN rules}
           idOf == [i \in 1..Len(rules) |-> rules[i].id]
<1>1. Len(rules) \in Nat /\ DOMAIN rules = 1..Len(rules)
  BY DEF Listed
<1>2. idOf \in Bijection(1..Len(rules), ids)
  <2>1. idOf \in [1..Len(rules) -> ids]
    BY <1>1
  <2>2. \A i, j \in 1..Len(rules) : idOf[i] = idOf[j] => i = j
    BY <1>1, IdsDiffer
  <2>3. \A id \in ids : \E i \in 1..Len(rules) : idOf[i] = id
    BY <1>1
  <2> QED
    BY <2>1, <2>2, <2>3, Fun_IsBij
<1>3. ExistsBijection(1..Len(rules), ids)
  BY <1>2, Zenon DEF ExistsBijection
<1>4. IsFiniteSet(1..Len(rules)) /\ Cardinality(1..Len(rules)) = Len(rules)
  <2>1. ASSUME NEW n \in Nat PROVE IsFiniteSet(1..n) /\ Cardinality(1..n) = n
    BY FS_Interval
  <2> QED
    BY <1>1, <2>1
<1>5. Cardinality(ids) = Len(rules)
  BY <1>3, <1>4, FS_Bijection
<1> QED
  BY <1>5, EngineGetsList

(* What is not in a list yet can be appended with the next number.            *)
LEMMA AppendKeepsListed ==
    ASSUME NEW rules, Listed(rules), NEW spec \in RuleSpec, MakeRule(spec),
           spec.id = <<spec.kind, Cardinality({i \in DOMAIN rules : rules[i].kind = spec.kind}) + 1>>
    PROVE  Listed(Append(rules, spec))
<1> DEFINE n == Len(rules)
           more == Append(rules, spec)
<1>1. n \in Nat /\ DOMAIN rules = 1..n
  BY DEF Listed
<1>2. /\ more \in Seq(RuleSpec) /\ DOMAIN more = 1..(n + 1)
      /\ \A i \in 1..n : more[i] = rules[i]
      /\ more[n + 1] = spec
  BY <1>1 DEF Listed
<1>3. AllMade(more)
  BY <1>1, <1>2 DEF Listed, AllMade
<1> HIDE DEF more
<1>4. ASSUME NEW i \in 1..n, NEW kind
      PROVE  OfKind(more, kind, i) = OfKind(rules, kind, i)
  BY <1>1, <1>2 DEF OfKind
<1>5. Cardinality(OfKind(more, spec.kind, n + 1)) = Cardinality(OfKind(rules, spec.kind, n)) + 1
  <2>1. OfKind(more, spec.kind, n + 1) = OfKind(rules, spec.kind, n) \cup {n + 1}
    BY <1>1, <1>2 DEF OfKind
  <2>2. n + 1 \notin OfKind(rules, spec.kind, n)
    BY <1>1 DEF OfKind
  <2>3. IsFiniteSet(OfKind(rules, spec.kind, n))
    BY <1>1, OfKindIsFinite
  <2> QED
    BY <2>1, <2>2, <2>3, FS_AddElement
<1>6. {i \in DOMAIN rules : rules[i].kind = spec.kind} = OfKind(rules, spec.kind, n)
  BY <1>1 DEF OfKind
<1>7. ASSUME NEW i \in 1..(n + 1)
      PROVE  more[i].id = <<more[i].kind, Cardinality(OfKind(more, more[i].kind, i))>>
  <2>1. CASE i \in 1..n
    BY <1>1, <1>2, <1>4, <2>1 DEF Listed, Numbered
  <2>2. CASE i = n + 1
    BY <1>2, <1>5, <1>6, <2>2
  <2> QED
    BY <1>1, <2>1, <2>2
<1> QED
  BY <1>2, <1>3, <1>7 DEF Listed, Numbered, more

(* A list stays one when a row changes, but neither its id nor its kind.      *)
LEMMA EditKeepsListed ==
    ASSUME NEW rules, Listed(rules), NEW row \in DOMAIN rules, NEW spec \in RuleSpec,
           MakeRule(spec), spec.id = rules[row].id, spec.kind = rules[row].kind
    PROVE  Listed([rules EXCEPT ![row] = spec])
<1> DEFINE edited == [rules EXCEPT ![row] = spec]
<1>1. /\ edited \in Seq(RuleSpec) /\ DOMAIN edited = DOMAIN rules
      /\ DOMAIN rules = 1..Len(rules) /\ Len(rules) \in Nat
      /\ edited[row] = spec
      /\ \A i \in DOMAIN rules : i # row => edited[i] = rules[i]
  BY DEF Listed
<1> HIDE DEF edited
<1>2. AllMade(edited)
  BY <1>1 DEF Listed, AllMade
<1>3. ASSUME NEW i \in DOMAIN rules
      PROVE  edited[i].id = rules[i].id /\ edited[i].kind = rules[i].kind
  BY <1>1
<1>4. ASSUME NEW i \in DOMAIN rules, NEW kind
      PROVE  OfKind(edited, kind, i) = OfKind(rules, kind, i)
  BY <1>1, <1>3 DEF OfKind
<1>5. Numbered(edited)
  BY <1>1, <1>3, <1>4 DEF Listed, Numbered
<1> QED
  BY <1>1, <1>2, <1>5 DEF Listed, edited

------------------------------------------------------------------------------
(* The pipeline is a record of the seven fields it is assembled from.         *)
IsPipeline(p) ==
    p = [detectors |-> p.detectors, settings |-> p.settings, mode |-> p.mode,
         source |-> p.source, rules |-> p.rules, bound |-> p.bound, running |-> p.running]

(* The strengthened invariant: types, a complete pipeline that agrees with    *)
(* manager and controller, and lists whose rules can all be made and told     *)
(* apart, both on the page and in the manager.                                *)
IInv == /\ TypeOK
        /\ IsPipeline(pipeline)
        /\ SessionAgrees
        /\ Listed(list)
        /\ Listed(specs)

LEMMA EngineHasRules ==
    ASSUME NEW rules, Listed(rules)
    PROVE  \A id \in DOMAIN Inject(rules) : Inject(rules)[id] \in RuleSpec
<1> SUFFICES ASSUME NEW id \in DOMAIN Inject(rules) PROVE Inject(rules)[id] \in RuleSpec
  OBVIOUS
<1>1. /\ DOMAIN Inject(rules) = {rules[i].id : i \in DOMAIN rules}
      /\ \A i \in DOMAIN rules : Inject(rules)[rules[i].id] = rules[i]
  BY EngineGetsList
<1>2. PICK i \in DOMAIN rules : id = rules[i].id
  BY <1>1
<1>3. Inject(rules)[id] = rules[i]
  BY <1>1, <1>2
<1> QED
  BY <1>3 DEF Listed

LEMMA EmptyIsListed == Listed(<<>>)
BY DEF Listed, AllMade, Numbered

(* What a detector is made by is a library of the catalog.                    *)
LEMMA DetectorsComeFromCatalog ==
    ASSUME NEW found \in Catalogs, NEW made \in Detectors(found)
    PROVE  DOMAIN made \subseteq Modes /\ Range(made) \subseteq found
BY DEF Detectors, Range

(* A pipeline as assembled fits manager and controller.                       *)
IsFresh(p, found, chosen) ==
    /\ IsPipeline(p)
    /\ DOMAIN p.detectors \subseteq Modes /\ Range(p.detectors) \subseteq found
    /\ p.settings = chosen /\ p.mode \in Modes /\ p.source /\ p.bound
    /\ p.running = FALSE /\ p.rules = Inject(specs)

(* A pipeline that is bound, field by field.                                  *)
LEMMA BoundRecord ==
    ASSUME NEW d, NEW s, NEW m, NEW source, NEW r, NEW was, NEW is, NEW run
    PROVE  [[detectors |-> d, settings |-> s, mode |-> m, source |-> source,
             rules |-> r, bound |-> was, running |-> run] EXCEPT !.bound = is]
             = [detectors |-> d, settings |-> s, mode |-> m, source |-> source,
                rules |-> r, bound |-> is, running |-> run]
OBVIOUS

LEMMA AssembledIs ==
    ASSUME NEW made, NEW chosen
    PROVE  BindPresentedCallback(Assembled(made, chosen, TRUE))
             = [detectors |-> made, settings |-> chosen, mode |-> Face, source |-> TRUE,
                rules |-> Inject(specs), bound |-> TRUE, running |-> FALSE]
<1> DEFINE rules == Inject(specs)
           no == FALSE
           yes == TRUE
<1>1. Assembled(made, chosen, TRUE)
        = [detectors |-> made, settings |-> chosen, mode |-> Face, source |-> yes,
           rules |-> rules, bound |-> no, running |-> no]
  BY Zenon DEF Assembled
<1>2. BindPresentedCallback(Assembled(made, chosen, TRUE))
        = [Assembled(made, chosen, TRUE) EXCEPT !.bound = yes]
  BY Zenon DEF BindPresentedCallback
<1> HIDE DEF rules, no, yes
<1>3. [[detectors |-> made, settings |-> chosen, mode |-> Face, source |-> yes,
        rules |-> rules, bound |-> no, running |-> no] EXCEPT !.bound = yes]
        = [detectors |-> made, settings |-> chosen, mode |-> Face, source |-> yes,
           rules |-> rules, bound |-> yes, running |-> no]
  BY BoundRecord
<1>4. BindPresentedCallback(Assembled(made, chosen, TRUE))
        = [detectors |-> made, settings |-> chosen, mode |-> Face, source |-> yes,
           rules |-> rules, bound |-> yes, running |-> no]
  BY <1>1, <1>2, <1>3, Zenon
<1> QED
  BY <1>4, Zenon DEF rules, no, yes

LEMMA AssembledFits ==
    ASSUME Listed(specs), NEW found \in Catalogs, NEW made \in Detectors(found),
           NEW chosen \in Settings
    PROVE  IsFresh(BindPresentedCallback(Assembled(made, chosen, TRUE)), found, chosen)
<1>1. DOMAIN made \subseteq Modes /\ Range(made) \subseteq found
  BY DetectorsComeFromCatalog
<1> DEFINE p == BindPresentedCallback(Assembled(made, chosen, TRUE))
<1>2. p = [detectors |-> made, settings |-> chosen, mode |-> Face, source |-> TRUE,
           rules |-> Inject(specs), bound |-> TRUE, running |-> FALSE]
  BY AssembledIs
<1> HIDE DEF p
<1>3. IsPipeline(p)
  BY <1>2 DEF IsPipeline
<1>4. Face \in Modes
  BY SessionAssumption
<1>5. IsFresh(p, found, chosen)
  BY <1>1, <1>2, <1>3, <1>4 DEF IsFresh
<1> QED
  BY <1>5 DEF p

LEMMA InitEstablishes == Init => IInv
<1> SUFFICES ASSUME Init PROVE IInv
  OBVIOUS
<1>1. PICK found \in Catalogs : /\ residents = found
                                /\ \E made \in Detectors(found) :
                                     pipeline = BindPresentedCallback(
                                                  Assembled(made, settings, TRUE))
  BY DEF Init
<1>2. PICK made \in Detectors(found) :
        pipeline = BindPresentedCallback(Assembled(made, settings, TRUE))
  BY <1>1
<1>3. Listed(list) /\ Listed(specs) /\ settings \in Settings
  BY EmptyIsListed DEF Init
<1>4. /\ IsPipeline(pipeline)
      /\ DOMAIN pipeline.detectors \subseteq Modes /\ Range(pipeline.detectors) \subseteq found
      /\ pipeline.settings = settings /\ pipeline.mode \in Modes
      /\ pipeline.source /\ pipeline.bound
      /\ pipeline.running = FALSE /\ pipeline.rules = Inject(specs)
  <2>1. IsFresh(pipeline, found, settings)
    BY <1>2, <1>3, AssembledFits
  <2> QED
    BY <2>1 DEF IsFresh
<1>5. found \subseteq Plugins
  BY DEF Catalogs
<1>6. \A id \in DOMAIN pipeline.rules : pipeline.rules[id] \in RuleSpec
  BY <1>3, <1>4, EngineHasRules
<1>7. /\ residents \subseteq Plugins
      /\ DOMAIN pipeline.detectors \subseteq Modes
      /\ Range(pipeline.detectors) \subseteq residents
      /\ pipeline.settings \in Settings /\ pipeline.mode \in Modes
  BY <1>1, <1>3, <1>4, <1>5
<1>8. /\ shown \in Modes \cup {NoMode} /\ running \in BOOLEAN /\ sized \in BOOLEAN
      /\ tool \in Tools \cup {NoTool} /\ draft \in Seq(Points)
      /\ list \in Seq(RuleSpec) /\ specs \in Seq(RuleSpec)
  <2>1. shown \in Modes \cup {NoMode} /\ running \in BOOLEAN /\ sized \in BOOLEAN
    BY DEF Init
  <2>2. tool \in Tools \cup {NoTool} /\ draft \in Seq(Points)
    BY DEF Init
  <2>3. list \in Seq(RuleSpec) /\ specs \in Seq(RuleSpec)
    BY <1>3 DEF Listed
  <2> QED
    BY <2>1, <2>2, <2>3
<1>9. TypeOK
  BY <1>3, <1>6, <1>7, <1>8 DEF TypeOK
<1> QED
  BY <1>3, <1>4, <1>9 DEF Init, IInv, SessionAgrees

(* The engine's rules are replaced together with the manager's, and nothing   *)
(* else of the pipeline but its running flag: what that keeps.                *)
LEMMA RulesReplaced ==
    ASSUME IInv, NEW rules, Listed(rules), NEW runs \in BOOLEAN,
           specs' = rules, running' = runs,
           pipeline' = [pipeline EXCEPT !.rules = Inject(rules), !.running = runs],
           UNCHANGED <<shown, sized, tool, draft, list, settings, residents>>
    PROVE  IInv'
<1>1. /\ IsPipeline(pipeline')
      /\ pipeline'.detectors = pipeline.detectors /\ pipeline'.settings = pipeline.settings
      /\ pipeline'.mode = pipeline.mode /\ pipeline'.source = pipeline.source
      /\ pipeline'.bound = pipeline.bound
      /\ pipeline'.running = runs /\ pipeline'.rules = Inject(rules)
  BY DEF IInv, IsPipeline
<1>2. \A id \in DOMAIN pipeline'.rules : pipeline'.rules[id] \in RuleSpec
  BY <1>1, EngineHasRules
<1>3. rules \in Seq(RuleSpec)
  BY DEF Listed
<1>4. TypeOK'
  BY <1>1, <1>2, <1>3 DEF IInv, TypeOK
<1>5. SessionAgrees'
  BY <1>1 DEF IInv, SessionAgrees
<1> QED
  BY <1>1, <1>4, <1>5 DEF IInv, Listed, AllMade, Numbered

(* A handler that leaves manager and pipeline alone only has to keep the page *)
(* in its types and the list in order.                                        *)
LEMMA PageChanges ==
    ASSUME IInv, UNCHANGED <<shown, running, specs, settings, residents, pipeline>>,
           sized' \in BOOLEAN, tool' \in Tools \cup {NoTool}, draft' \in Seq(Points),
           NEW rules, Listed(rules), list' = rules
    PROVE  IInv'
<1>1. TypeOK'
  BY DEF IInv, TypeOK, Listed
<1>2. SessionAgrees'
  BY DEF IInv, SessionAgrees
<1> QED
  BY <1>1, <1>2 DEF IInv, Listed, AllMade, Numbered

------------------------------------------------------------------------------
(* A pipeline at rest gives its source away, and the one that gets it back,   *)
(* with the rules and the callback it had, is as it was before.               *)
LEMMA RestoredIsKept ==
    ASSUME IInv, ~pipeline.running, NEW built, Released(built),
           NEW chosen, Restore(chosen, ReleaseSource(pipeline), built)
    PROVE  UNCHANGED <<settings, pipeline>>
<1> DEFINE backup == ReleaseSource(pipeline)
           adopted == AdoptSource(backup, Released(built))
<1>1. backup = [pipeline EXCEPT !.source = FALSE]
  BY DEF ReleaseSource
<1>2. IsPipeline(pipeline) /\ pipeline.source = TRUE /\ pipeline.bound = TRUE
      /\ pipeline.rules = Inject(specs) /\ pipeline.running = FALSE
  BY DEF IInv, SessionAgrees, TypeOK
<1>3. adopted = [backup EXCEPT !.source = TRUE]
  BY <1>1, <1>2 DEF AdoptSource, IsPipeline
<1>4. adopted = pipeline
  BY <1>1, <1>2, <1>3 DEF IsPipeline
<1>5. pipeline' = BindPresentedCallback([adopted EXCEPT !.rules = Inject(specs)])
  BY DEF Restore
<1>6. pipeline' = pipeline
  BY <1>2, <1>4, <1>5 DEF BindPresentedCallback, IsPipeline
<1> QED
  BY <1>6 DEF Restore

(* Settings are applied, or the old pipeline is kept as it was.               *)
LEMMA ApplySettingsStep ==
    ASSUME IInv, NEW chosen \in Settings, ApplySettings(chosen)
    PROVE  IInv' /\ (Rebuilt(chosen) \/ Kept)
<1> DEFINE backup == ReleaseSource(pipeline)
           built(made) == Assembled(made, chosen, Released(pipeline))
           Done(made) == \/ RebuildFails(backup, built(made)) /\ Restore(chosen, backup, built(made))
                         \/ /\ ~RebuildFails(backup, built(made))
                            /\ settings' = chosen
                            /\ pipeline' = BindPresentedCallback(built(made))
<1>1. PICK found \in Catalogs :
        /\ Scan(found)
        /\ \E made \in Detectors(found) : Done(made)
  BY DEF ApplySettings
<1>2. PICK made \in Detectors(found) : Done(made)
  BY <1>1
<1>3. /\ residents' = residents \cup found /\ found \subseteq Plugins
      /\ UNCHANGED <<shown, running, sized, tool, draft, list, specs>>
      /\ ~running /\ ~pipeline.running
  BY <1>1 DEF Scan, Catalogs, ApplySettings
<1>4. Listed(list)' /\ Listed(specs)'
  BY <1>3 DEF IInv, Listed, AllMade, Numbered
<1>5. Released(pipeline) = TRUE
  BY DEF ApplySettings, Released
<1>6. built(made) = Assembled(made, chosen, TRUE)
  BY <1>5
<1>7. Released(built(made))
  BY <1>6 DEF Assembled, Released
<1>8. CASE Restore(chosen, backup, built(made))
  <2>1. pipeline' = pipeline /\ settings' = settings
    BY <1>3, <1>7, <1>8, RestoredIsKept
  <2>2. TypeOK'
    BY <1>3, <2>1 DEF IInv, TypeOK
  <2>3. SessionAgrees' /\ IsPipeline(pipeline)'
    BY <1>3, <2>1 DEF IInv, SessionAgrees, IsPipeline
  <2> QED
    BY <1>4, <2>1, <2>2, <2>3 DEF IInv, Kept
<1>9. CASE /\ ~RebuildFails(backup, built(made))
           /\ settings' = chosen
           /\ pipeline' = BindPresentedCallback(built(made))
  <2>1. /\ IsPipeline(pipeline')
        /\ DOMAIN pipeline'.detectors \subseteq Modes /\ Range(pipeline'.detectors) \subseteq found
        /\ pipeline'.settings = chosen /\ pipeline'.mode \in Modes
        /\ pipeline'.source /\ pipeline'.bound
        /\ pipeline'.running = FALSE /\ pipeline'.rules = Inject(specs)
    <3>1. IsFresh(BindPresentedCallback(Assembled(made, chosen, TRUE)), found, chosen)
      BY AssembledFits DEF IInv
    <3>2. IsFresh(pipeline', found, chosen)
      BY <1>6, <1>9, <3>1
    <3> QED
      BY <3>2 DEF IsFresh
  <2>2. \A id \in DOMAIN pipeline'.rules : pipeline'.rules[id] \in RuleSpec
    BY <2>1, EngineHasRules DEF IInv
  <2>3. TypeOK'
    BY <1>3, <1>9, <2>1, <2>2 DEF IInv, TypeOK
  <2>4. SessionAgrees'
    BY <1>3, <1>9, <2>1 DEF IInv, SessionAgrees, TypeOK
  <2>5. pipeline'.detectors = made /\ built(made).detectors = made
    BY <1>6, <1>9 DEF Assembled, BindPresentedCallback
  <2>6. backup.detectors = pipeline.detectors
    BY DEF ReleaseSource, IInv, IsPipeline
  <2>7. HasDetectors(pipeline) => HasDetectors(pipeline')
    BY <1>9, <2>5, <2>6 DEF RebuildFails, HasDetectors
  <2>8. Rebuilt(chosen)
    BY <1>9, <2>1, <2>7 DEF Rebuilt, IInv, SessionAgrees
  <2> QED
    BY <1>4, <2>1, <2>3, <2>4, <2>8 DEF IInv
<1> QED
  BY <1>2, <1>8, <1>9

(* The manager takes the list over whenever it commits it.                    *)
LEMMA CommitTakesList ==
    ASSUME IInv
    PROVE  Committed = list
BY DEF IInv, Listed, Committed

LEMMA StartCameraStep ==
    ASSUME IInv, StartCamera
    PROVE  /\ IInv'
           /\ Cardinality(DOMAIN pipeline'.rules) = Len(list)
           /\ \A i \in DOMAIN list : /\ list[i].id \in DOMAIN pipeline'.rules
                                    /\ pipeline'.rules[list[i].id] = list[i]
<1>1. PICK opened \in {FALSE, pipeline.source} :
        /\ running' = opened
        /\ pipeline' = [pipeline EXCEPT !.rules = Inject(specs'), !.running = opened]
  BY DEF StartCamera
<1>2. specs' = list /\ Listed(list)
  BY CommitTakesList DEF StartCamera, IInv
<1>3. IInv'
  <2>1. opened \in BOOLEAN
    BY DEF IInv, SessionAgrees
  <2> QED
    BY <1>1, <1>2, <2>1, RulesReplaced DEF StartCamera
<1>4. pipeline'.rules = Inject(list)
  BY <1>1, <1>2 DEF IInv, IsPipeline
<1> QED
  BY <1>2, <1>3, <1>4, EngineGetsList, EngineCountsList

LEMMA ApplyRulesStep ==
    ASSUME IInv, ApplyRules
    PROVE  IInv'
<1>1. pipeline' = [pipeline EXCEPT !.rules = Inject(list), !.running = running]
  BY DEF ApplyRules, IInv, IsPipeline, SessionAgrees
<1>2. running \in BOOLEAN /\ Listed(list)
  BY DEF IInv, TypeOK
<1> QED
  BY <1>1, <1>2, RulesReplaced DEF ApplyRules

LEMMA StopCameraStep ==
    ASSUME IInv, StopCamera
    PROVE  IInv'
<1>1. pipeline' = [pipeline EXCEPT !.rules = Inject(specs), !.running = FALSE]
  BY DEF StopCamera, IInv, IsPipeline, SessionAgrees
<1>2. Listed(specs) /\ specs' = specs
  BY DEF IInv, StopCamera
<1> QED
  BY <1>1, <1>2, RulesReplaced DEF StopCamera

LEMMA SetModeStep ==
    ASSUME IInv, NEW mode \in Modes, SetMode(mode)
    PROVE  IInv'
<1>1. /\ IsPipeline(pipeline')
      /\ pipeline'.detectors = pipeline.detectors /\ pipeline'.settings = pipeline.settings
      /\ pipeline'.mode = mode /\ pipeline'.source = pipeline.source
      /\ pipeline'.bound = pipeline.bound
      /\ pipeline'.running = pipeline.running /\ pipeline'.rules = pipeline.rules
  BY DEF SetMode, IInv, IsPipeline
<1>2. TypeOK'
  BY <1>1 DEF SetMode, IInv, TypeOK
<1>3. SessionAgrees'
  BY <1>1 DEF SetMode, IInv, SessionAgrees
<1> QED
  BY <1>1, <1>2, <1>3 DEF SetMode, IInv, Listed, AllMade, Numbered

(* A finished draft becomes a rule with the next id of its kind, or nothing.  *)
LEMMA AddSpecStep ==
    ASSUME IInv, tool # NoTool, NEW points \in Seq(Points), AddSpec(points)
    PROVE  \E rules : Listed(rules) /\ list' = rules
<1> DEFINE kind == KindForTool[tool]
           spec == [id |-> AllocateId(kind), kind |-> kind, drawn |-> Drawn(kind, points),
                    enabled |-> TRUE, loiterSeconds |-> 5]
<1>1. list' = IF MakeRule(spec) THEN Append(list, spec) ELSE list
  BY DEF AddSpec
<1>2. kind \in Kinds
  BY SessionAssumption DEF IInv, TypeOK, KindForTool, Kinds
<1>3. Len(list) \in Nat /\ DOMAIN list = 1..Len(list) /\ Listed(list)
  BY DEF IInv, TypeOK
<1>4. Cardinality({i \in DOMAIN list : list[i].kind = kind}) \in Nat
  <2>1. {i \in DOMAIN list : list[i].kind = kind} = OfKind(list, kind, Len(list))
    BY <1>3 DEF OfKind
  <2> QED
    BY <1>3, <2>1, OfKindIsFinite
<1>5. AllocateId(kind) \in Kinds \X (Nat \ {0})
  BY <1>2, <1>4 DEF AllocateId
<1>6. Drawn(kind, points) \in BOOLEAN
  <2>1. CASE IsPolygon(kind)
    BY <2>1 DEF Drawn
  <2>2. CASE ~IsPolygon(kind)
    <3>1. Drawn(kind, points) = (points[1] # points[2])
      BY <2>2 DEF Drawn
    <3> QED
      BY <3>1
  <2> QED
    BY <2>1, <2>2
<1>7. spec \in RuleSpec
  BY <1>2, <1>5, <1>6 DEF RuleSpec
<1>8. CASE MakeRule(spec)
  <2>1. spec.id = <<spec.kind, Cardinality({i \in DOMAIN list : list[i].kind = spec.kind}) + 1>>
    BY DEF AllocateId
  <2>2. Listed(Append(list, spec))
    BY <1>3, <1>7, <1>8, <2>1, AppendKeepsListed
  <2> QED
    BY <1>1, <1>8, <2>2
<1> QED
  BY <1>1, <1>3, <1>8

LEMMA FinishDrawStep ==
    ASSUME IInv, NEW points \in Seq(Points), FinishDraw(points)
    PROVE  IInv'
<1>1. PICK rules : Listed(rules) /\ list' = rules
  <2>1. CASE AddSpec(points)
    BY <2>1, AddSpecStep DEF FinishDraw
  <2>2. CASE UNCHANGED list
    BY <2>2 DEF IInv
  <2> QED
    BY <2>1, <2>2 DEF FinishDraw
<1>2. tool' = NoTool /\ draft' = <<>> /\ sized' = sized
  BY DEF FinishDraw, ClearDraft
<1>3. draft' \in Seq(Points) /\ sized' \in BOOLEAN
  BY <1>2 DEF IInv, TypeOK
<1> QED
  BY <1>1, <1>2, <1>3, PageChanges DEF FinishDraw

LEMMA DrawStep ==
    ASSUME IInv, Draw
    PROVE  IInv'
<1>1. /\ sized \in BOOLEAN /\ tool \in Tools \cup {NoTool} /\ draft \in Seq(Points)
      /\ Listed(list)
  BY DEF IInv, TypeOK
<1>2. ASSUME NEW t \in Tools \cup {NoTool}, BeginDraw(t) PROVE IInv'
  <2>1. draft' \in Seq(Points) /\ sized' \in BOOLEAN /\ tool' \in Tools \cup {NoTool}
    BY <1>1, <1>2 DEF BeginDraw
  <2> QED
    BY <1>1, <1>2, <2>1, PageChanges DEF BeginDraw
<1>3. ASSUME NEW point \in Points, AddDrawPoint(point) PROVE IInv'
  <2> DEFINE points == Append(draft, point)
  <2>1. points \in Seq(Points)
    BY <1>1
  <2>2. CASE FinishDraw(points)
    BY <2>1, <2>2, FinishDrawStep
  <2>3. CASE draft' = points /\ UNCHANGED <<shown, running, sized, tool, list, specs, settings,
                                           residents, pipeline>>
    BY <1>1, <2>1, <2>3, PageChanges
  <2> QED
    BY <1>3, <2>2, <2>3 DEF AddDrawPoint
<1>4. ASSUME FinishDraw(draft) PROVE IInv'
  BY <1>1, <1>4, FinishDrawStep
<1>5. ASSUME CancelDraw PROVE IInv'
  <2>1. draft' \in Seq(Points) /\ sized' \in BOOLEAN /\ tool' \in Tools \cup {NoTool}
    BY <1>1, <1>5 DEF CancelDraw, ClearDraft
  <2> QED
    BY <1>1, <1>5, <2>1, PageChanges DEF CancelDraw
<1> QED
  BY <1>2, <1>3, <1>4, <1>5 DEF Draw

LEMMA EditStep ==
    ASSUME IInv, NEW row \in DOMAIN list,
           \/ \E enabled \in BOOLEAN : SetEnabled(row, enabled)
           \/ \E seconds \in Seconds : SetLoiterSeconds(row, seconds)
    PROVE  IInv'
<1>1. /\ list[row] \in RuleSpec /\ MakeRule(list[row]) /\ Listed(list)
      /\ sized \in BOOLEAN /\ tool \in Tools \cup {NoTool} /\ draft \in Seq(Points)
  BY DEF IInv, TypeOK, Listed, AllMade
<1>2. PICK spec \in RuleSpec :
        /\ MakeRule(spec) /\ spec.id = list[row].id /\ spec.kind = list[row].kind
        /\ list' = [list EXCEPT ![row] = spec]
  <2>1. ASSUME NEW enabled \in BOOLEAN, SetEnabled(row, enabled)
        PROVE  \E spec \in RuleSpec :
                 /\ MakeRule(spec) /\ spec.id = list[row].id /\ spec.kind = list[row].kind
                 /\ list' = [list EXCEPT ![row] = spec]
    <3>1. list' = [list EXCEPT ![row] = [list[row] EXCEPT !.enabled = enabled]]
      BY <2>1 DEF SetEnabled
    <3>2. [list[row] EXCEPT !.enabled = enabled] \in RuleSpec
      BY <1>1 DEF RuleSpec
    <3> WITNESS [list[row] EXCEPT !.enabled = enabled] \in RuleSpec
    <3> QED
      BY <1>1, <3>1, <3>2 DEF RuleSpec, MakeRule
  <2>2. ASSUME NEW seconds \in Seconds, SetLoiterSeconds(row, seconds)
        PROVE  \E spec \in RuleSpec :
                 /\ MakeRule(spec) /\ spec.id = list[row].id /\ spec.kind = list[row].kind
                 /\ list' = [list EXCEPT ![row] = spec]
    <3>1. list' = [list EXCEPT ![row] = [list[row] EXCEPT !.loiterSeconds = seconds]]
      BY <2>2 DEF SetLoiterSeconds
    <3>2. seconds \in Nat /\ seconds > 0
      BY <2>2, SessionAssumption DEF SetLoiterSeconds, AcceptsSeconds
    <3>3. [list[row] EXCEPT !.loiterSeconds = seconds] \in RuleSpec
      BY <1>1, <3>2 DEF RuleSpec
    <3> WITNESS [list[row] EXCEPT !.loiterSeconds = seconds] \in RuleSpec
    <3> QED
      BY <1>1, <3>1, <3>2 DEF RuleSpec, MakeRule
  <2> QED
    BY <2>1, <2>2
<1>3. Listed([list EXCEPT ![row] = spec])
  BY <1>1, <1>2, EditKeepsListed
<1>4. UNCHANGED <<shown, running, sized, tool, draft, specs, settings, residents, pipeline>>
  BY DEF SetEnabled, SetLoiterSeconds
<1> QED
  BY <1>1, <1>2, <1>3, <1>4, PageChanges

LEMMA FrameChangedStep ==
    ASSUME IInv, FrameChanged
    PROVE  IInv'
<1>1. /\ sized' \in BOOLEAN /\ tool' \in Tools \cup {NoTool} /\ draft' \in Seq(Points)
      /\ Listed(list) /\ list' = list
  BY DEF IInv, TypeOK, FrameChanged
<1> QED
  BY <1>1, PageChanges DEF FrameChanged

(* Every step keeps the invariant.                                            *)
LEMMA StepsKeepInvariant == IInv /\ [Next]_vars => IInv'
<1> SUFFICES ASSUME IInv, [Next]_vars PROVE IInv'
  OBVIOUS
<1>1. ASSUME NEW chosen \in Settings, ApplySettings(chosen) PROVE IInv'
  BY <1>1, ApplySettingsStep
<1>2. ASSUME NEW mode \in Modes, SetMode(mode) PROVE IInv'
  BY <1>2, SetModeStep
<1>3. CASE ApplyRules
  BY <1>3, ApplyRulesStep
<1>4. CASE StartCamera
  BY <1>4, StartCameraStep
<1>5. CASE StopCamera
  BY <1>5, StopCameraStep
<1>6. CASE FrameChanged
  BY <1>6, FrameChangedStep
<1>7. CASE Draw
  BY <1>7, DrawStep
<1>8. ASSUME NEW row \in DOMAIN list,
             \/ \E enabled \in BOOLEAN : SetEnabled(row, enabled)
             \/ \E seconds \in Seconds : SetLoiterSeconds(row, seconds)
      PROVE  IInv'
  BY <1>8, EditStep
<1>9. CASE UNCHANGED vars
  BY <1>9 DEF vars, IInv, TypeOK, SessionAgrees, IsPipeline, Listed, AllMade, Numbered
<1> QED
  BY <1>1, <1>2, <1>3, <1>4, <1>5, <1>6, <1>7, <1>8, <1>9 DEF Next

(* The strengthened invariant holds in every reachable state.                 *)
THEOREM Invariance == Spec => []IInv
BY InitEstablishes, StepsKeepInvariant, PTL DEF Spec

(* Every field stays in its range: what detects was loaded and stays loaded,  *)
(* and the engine holds rule specs only.                                      *)
THEOREM TypeCorrect == Spec => []TypeOK
BY Invariance, PTL DEF IInv

(* Whatever is applied and however a rebuild fails, pipeline, manager and     *)
(* controller agree (CameraManager::applySessionSettings and injectRules).    *)
THEOREM SessionStaysAgreed == Spec => []SessionAgrees
BY Invariance, PTL DEF IInv

(* New settings get a pipeline that can run, with the rules, the source and   *)
(* the callback, or the old pipeline and the old settings stay as they were:  *)
(* CameraManager::applySessionSettings gives back all that it took away.      *)
THEOREM RebuildKeepsOrReplaces == Spec => RebuiltOrKept
<1>1. IInv /\ [Next]_vars => [SettingsAnswered]_vars
  BY ApplySettingsStep DEF SettingsAnswered
<1> QED
  BY <1>1, Invariance, PTL DEF Spec, RebuiltOrKept

(* The engine of a camera that starts evaluates the rules on the page, each   *)
(* as it is shown, and no other (RuleModel::addSpec, commitRulesToEngine).    *)
THEOREM StartTakesShownRules == Spec => StartUsesShownRules
<1> DEFINE Used == ~running /\ running' =>
                     /\ Cardinality(DOMAIN pipeline'.rules) = Len(list)
                     /\ \A i \in DOMAIN list : /\ list[i].id \in DOMAIN pipeline'.rules
                                              /\ pipeline'.rules[list[i].id] = list[i]
<1>1. IInv /\ [Next]_vars => [Used]_vars
  <2> SUFFICES ASSUME IInv, [Next]_vars PROVE Used \/ UNCHANGED vars
    OBVIOUS
  <2>1. CASE StartCamera
    BY <2>1, StartCameraStep
  <2>2. CASE StopCamera
    BY <2>2 DEF StopCamera
  <2>3. CASE Next /\ ~StartCamera /\ ~StopCamera
    <3>1. running' = running
      BY <2>3 DEF Next, ApplySettings, SetMode, ApplyRules, FrameChanged, Draw, BeginDraw,
                  AddDrawPoint, FinishDraw, CancelDraw, SetEnabled, SetLoiterSeconds
    <3> QED
      BY <3>1
  <2> QED
    BY <2>1, <2>2, <2>3
<1> QED
  BY <1>1, Invariance, PTL DEF Spec, StartUsesShownRules
==============================================================================
