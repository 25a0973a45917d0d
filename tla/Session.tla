------------------------------ MODULE Session ------------------------------
(***************************************************************************)
(* What the user sets up between two runs of the camera: the mode, the     *)
(* inference settings, which need a new pipeline with detectors from       *)
(* plugins, and the rules, which are drawn, listed and given to the engine *)
(* of the pipeline.  VisionController, RuleModel, CameraManager and        *)
(* PluginManager live on the GUI thread, so a handler is one step.         *)
(*                                                                         *)
(* Of the geometry of a rule only its validity is kept, of settings their  *)
(* identity.  The workers of a running pipeline touch nothing of this.     *)
(* RuleModel::removeAt and replaceAll have no caller and are left out.     *)
(***************************************************************************)
EXTENDS Naturals, Sequences, FiniteSets, Functions

CONSTANTS Plugins,   \* the plugin libraries that may be found
          PluginId,  \* the id each one declares
          PluginMode,\* the mode each one detects in, if any
          Modes, Face,
          Settings,  \* inference settings, thresholds and tracking, as one value
          Tools,     \* the draw tools in use
          Points,    \* where the user clicks
          Seconds,   \* what the user enters for loiterSeconds
          NoMode, NoTool,
          MaxRules,  \* bound: rules drawn
          MaxDraft   \* bound: points of a draft

ASSUME SessionAssumption ==
    /\ DOMAIN PluginId = Plugins
    /\ PluginMode \in [Plugins -> Modes \cup {NoMode}]
    /\ Face \in Modes /\ NoMode \notin Modes
    /\ Tools \subseteq {"Roi", "Line", "Loiter", "Count"} /\ NoTool \notin Tools
    /\ Seconds \subseteq Nat
    /\ MaxRules \in Nat /\ MaxDraft \in Nat

VARIABLES shown,     \* VisionController::m_mode
          running,   \* VisionController::m_running
          sized,     \* a frame came, so m_frameWidth is known
          tool,      \* m_drawTool
          draft,     \* m_draft
          list,      \* RuleModel::m_specs
          specs,     \* CameraManager::m_ruleSpecs
          settings,  \* CameraManager::m_session
          residents, \* PluginManager: the libraries ever loaded
          pipeline   \* CameraManager::m_pipeline

vars == <<shown, running, sized, tool, draft, list, specs, settings, residents,
          pipeline>>

Kinds == {"RoiIntrusion", "LineCrossing", "Loitering", "Counting"}
RuleSpec == [id : Kinds \X (Nat \ {0}), kind : Kinds, drawn : BOOLEAN,
             enabled : BOOLEAN, loiterSeconds : Nat]
KindForTool == [Roi |-> "RoiIntrusion", Line |-> "LineCrossing",
                Loiter |-> "Loitering", Count |-> "Counting"]
IsPolygon(kind) == kind \in {"RoiIntrusion", "Loitering"}

------------------------------------------------------------------------------
\* makeRule succeeds: the geometry is one the kind of rule accepts.
MakeRule(spec) == spec.drawn /\ (spec.kind = "Loitering" => spec.loiterSeconds > 0)

\* The engine after clear and, for each spec a rule can be made of, addRule,
\* which refuses an id in use, and setEnabled, which goes by the id.
Inject(rules) ==
    LET made == {i \in DOMAIN rules : MakeRule(rules[i])}
        with(id) == {i \in made : rules[i].id = id}
        first(id) == CHOOSE i \in with(id) : \A j \in with(id) : i <= j
        last(id) == CHOOSE i \in with(id) : \A j \in with(id) : j <= i
    IN  [id \in {rules[i].id : i \in made} |->
            [rules[first(id)] EXCEPT !.enabled = rules[last(id)].enabled]]

\* PluginManager::scan of a directory that may hold anything: of the files
\* with one id the first is taken, and what was loaded stays loaded.
Catalogs == {found \in SUBSET Plugins :
                \A p, q \in found : PluginId[p] = PluginId[q] => p = q}
\* mutant: a scan unloads what it does not find
ScanUnloads(found) == residents' = found
Scan(found) == residents' = residents \cup found

\* Which plugin of the catalog makes the detector of each mode, where there is
\* one and it succeeds.
Detectors(found) ==
    {made \in UNION {[modes -> found] : modes \in SUBSET Modes} :
        \A mode \in DOMAIN made : PluginMode[made[mode]] = mode}

\* assembleFromPlugins, which the source is moved to; nobody is told of its
\* frames before bindPresentedCallback.
Assembled(detectors, chosen, source) ==
    [detectors |-> detectors, settings |-> chosen, mode |-> Face, source |-> source,
     rules |-> Inject(specs), bound |-> FALSE, running |-> FALSE]
BindPresentedCallback(p) == [p EXCEPT !.bound = TRUE]

\* A pipeline at rest can be emptied of its source and given another: releaseSource
\* in what it leaves behind and in what it returns, and adoptSource.
ReleaseSource(p) == IF p.running THEN p ELSE [p EXCEPT !.source = FALSE]
Released(p) == ~p.running /\ p.source
\* mutant: the source stays with the pipeline that is thrown away
AdoptSourceForgotten(p, source) == p
AdoptSource(p, source) == IF p.running THEN p ELSE [p EXCEPT !.source = source]

Init == /\ shown = NoMode
        /\ running = FALSE
        /\ sized = FALSE
        /\ tool = NoTool
        /\ draft = <<>>
        /\ list = <<>>
        /\ specs = <<>>
        /\ settings \in Settings
        /\ \E found \in Catalogs : /\ residents = found
                                   /\ \E made \in Detectors(found) :
                                        pipeline = BindPresentedCallback(
                                                     Assembled(made, settings, TRUE))

\* mutant: the settings of a failed rebuild are kept
RestoreForgetsSettings(chosen, backup, built) ==
    /\ settings' = chosen
    /\ pipeline' = BindPresentedCallback(
                     [AdoptSource(backup, Released(built)) EXCEPT !.rules = Inject(specs)])
\* The way back when a rebuild found no detector: the source goes back to the old
\* pipeline, which becomes the one at hand, with settings, rules and callback.
Restore(chosen, backup, built) ==
    /\ pipeline' = BindPresentedCallback(
                     [AdoptSource(backup, Released(built)) EXCEPT !.rules = Inject(specs)])
    /\ UNCHANGED settings

HasDetectors(p) == DOMAIN p.detectors # {}
RebuildFails(backup, built) == ~HasDetectors(built) /\ HasDetectors(backup)

\* applySessionSettings, by applyUiSettings.
ApplySettings(chosen) ==
    /\ ~running
    /\ ~pipeline.running
    /\ Released(pipeline)
    /\ UNCHANGED <<shown, running, sized, tool, draft, list, specs>>
    /\ \E found \in Catalogs :
         /\ Scan(found)
         /\ \E made \in Detectors(found) :
              LET backup == ReleaseSource(pipeline)
                  built == Assembled(made, chosen, Released(pipeline))
              IN  \/ RebuildFails(backup, built) /\ Restore(chosen, backup, built)
                  \/ /\ ~RebuildFails(backup, built)
                     /\ settings' = chosen
                     /\ pipeline' = BindPresentedCallback(built)

SetMode(mode) == /\ shown # mode
                 /\ shown' = mode
                 /\ pipeline' = [pipeline EXCEPT !.mode = mode]
                 /\ UNCHANGED <<running, sized, tool, draft, list, specs, settings,
                                residents>>

AllMade(rules) == \A i \in DOMAIN rules : MakeRule(rules[i])

\* applyRuleSpecs, by applyUiRules and commitRulesToEngine: all rules or none.
ApplyRules == /\ ~running
              /\ ~pipeline.running
              /\ AllMade(list)
              /\ specs' = list
              /\ pipeline' = [pipeline EXCEPT !.rules = Inject(list)]
              /\ UNCHANGED <<shown, running, sized, tool, draft, list, settings,
                             residents>>

Committed == IF AllMade(list) THEN list ELSE specs

\* startCamera, which commits the list and starts.  The button that calls it
\* is a stop button while running; the source may be missing or fail to open.
StartCamera ==
    /\ ~running
    /\ specs' = Committed
    /\ \E opened \in {FALSE, pipeline.source} :
         /\ running' = opened
         /\ pipeline' = [pipeline EXCEPT !.rules = Inject(specs'), !.running = opened]
    /\ UNCHANGED <<shown, sized, tool, draft, list, settings, residents>>

StopCamera == /\ running
              /\ running' = FALSE
              /\ pipeline' = [pipeline EXCEPT !.running = FALSE]
              /\ UNCHANGED <<shown, sized, tool, draft, list, specs, settings, residents>>

\* notifyFrame, upon which onFrameChanged learns the size of the frames.
FrameChanged == /\ pipeline.running
                /\ ~sized
                /\ sized' = TRUE
                /\ UNCHANGED <<shown, running, tool, draft, list, specs, settings,
                               residents, pipeline>>

BeginDraw(t) == /\ ~running
                /\ t # tool
                /\ tool' = t
                /\ draft' = <<>>
                /\ UNCHANGED <<shown, running, sized, list, specs, settings, residents,
                               pipeline>>

ClearDraft == tool' = NoTool /\ draft' = <<>>

\* allocateId: one more than the rules of the kind.
AllocateId(kind) ==
    <<kind, Cardinality({i \in DOMAIN list : list[i].kind = kind}) + 1>>

\* What makeRule asks of the geometry.
Drawn(kind, points) == IF IsPolygon(kind) THEN Len(points) >= 3 ELSE points[1] # points[2]

\* addSpec of a finished draft; a refused spec leaves no trace.
AddSpec(points) ==
    LET kind == KindForTool[tool]
        spec == [id |-> AllocateId(kind), kind |-> kind, drawn |-> Drawn(kind, points),
                 enabled |-> TRUE, loiterSeconds |-> 5]
    IN  list' = IF MakeRule(spec) THEN Append(list, spec) ELSE list

\* finishDraw, on a double click or the return key.  It does not ask whether
\* the camera runs.
FinishDraw(points) ==
    /\ tool # NoTool
    /\ IF Len(points) >= (IF IsPolygon(KindForTool[tool]) THEN 3 ELSE 2)
       THEN AddSpec(points) ELSE UNCHANGED list
    /\ ClearDraft
    /\ UNCHANGED <<shown, running, sized, specs, settings, residents, pipeline>>

\* addDrawPoint, of a point inside the video: the second point of a line
\* finishes it.
AddDrawPoint(point) ==
    /\ ~running
    /\ sized
    /\ tool # NoTool
    /\ LET points == Append(draft, point)
       IN  IF tool \in {"Line", "Count"} /\ Len(points) >= 2
           THEN FinishDraw(points)
           ELSE /\ draft' = points
                /\ UNCHANGED <<shown, running, sized, tool, list, specs, settings,
                               residents, pipeline>>

CancelDraw == /\ tool # NoTool \/ draft # <<>>
              /\ ClearDraft
              /\ UNCHANGED <<shown, running, sized, list, specs, settings, residents,
                               pipeline>>

\* RuleModel::setEnabled and setLoiterSeconds, from the list on the settings
\* page, which is disabled while running.
SetEnabled(row, enabled) ==
    /\ ~running
    /\ row \in DOMAIN list
    /\ list' = [list EXCEPT ![row].enabled = enabled]
    /\ UNCHANGED <<shown, running, sized, tool, draft, specs, settings, residents,
                   pipeline>>

\* mutant: any number of seconds
AcceptsAnySeconds(row, seconds) == list[row].kind = "Loitering"
AcceptsSeconds(row, seconds) == list[row].kind = "Loitering" /\ seconds > 0
SetLoiterSeconds(row, seconds) ==
    /\ ~running
    /\ row \in DOMAIN list
    /\ AcceptsSeconds(row, seconds)
    /\ list' = [list EXCEPT ![row].loiterSeconds = seconds]
    /\ UNCHANGED <<shown, running, sized, tool, draft, specs, settings, residents,
                   pipeline>>

Draw == \/ \E t \in Tools \cup {NoTool} : BeginDraw(t)
        \/ Len(draft) < MaxDraft /\ \E point \in Points : AddDrawPoint(point)
        \/ FinishDraw(draft)
        \/ CancelDraw

Next == \/ \E chosen \in Settings : ApplySettings(chosen)
        \/ \E mode \in Modes : SetMode(mode)
        \/ ApplyRules
        \/ StartCamera
        \/ StopCamera
        \/ FrameChanged
        \/ Len(list) < MaxRules /\ Draw
        \/ \E row \in DOMAIN list, enabled \in BOOLEAN : SetEnabled(row, enabled)
        \/ \E row \in DOMAIN list, seconds \in Seconds : SetLoiterSeconds(row, seconds)

Spec == Init /\ [][Next]_vars
------------------------------------------------------------------------------
TypeOK ==
    /\ shown \in Modes \cup {NoMode}
    /\ running \in BOOLEAN
    /\ sized \in BOOLEAN
    /\ tool \in Tools \cup {NoTool}
    /\ draft \in Seq(Points)
    /\ list \in Seq(RuleSpec)
    /\ specs \in Seq(RuleSpec)
    /\ settings \in Settings
    /\ residents \subseteq Plugins
    /\ DOMAIN pipeline.detectors \subseteq Modes
    /\ Range(pipeline.detectors) \subseteq residents
    /\ pipeline.settings \in Settings
    /\ pipeline.mode \in Modes
    /\ \A id \in DOMAIN pipeline.rules : pipeline.rules[id] \in RuleSpec

\* Whatever was applied, and whichever rebuild failed, the pipeline at hand is
\* complete and is the one that the controller and the manager speak of: it
\* was built with the session's settings, has a source and its callback, and
\* its engine has the rules of the session.
SessionAgrees ==
    /\ running = pipeline.running
    /\ pipeline.source
    /\ pipeline.bound
    /\ pipeline.settings = settings
    /\ pipeline.rules = Inject(specs)

\* The answer to new settings is a pipeline that can run, built with them and
\* with the rules and the source of the old one, or it is the old pipeline as it
\* was, in every part, and the old settings.  The new one has detectors if the
\* old one had.
Rebuilt(chosen) == /\ settings' = chosen /\ pipeline'.settings = chosen
                   /\ pipeline'.source /\ pipeline'.bound
                   /\ pipeline'.rules = pipeline.rules
                   /\ HasDetectors(pipeline) => HasDetectors(pipeline')
Kept == UNCHANGED <<settings, pipeline>>
SettingsAnswered ==
    \A chosen \in Settings : Rebuilt(chosen) \/ Kept \/ ~ApplySettings(chosen)
RebuiltOrKept == [][SettingsAnswered]_vars

\* When the camera starts, the engine evaluates every rule of the list the
\* user sees, as it is shown, and no other: no rule of the list is invalid,
\* which would keep all of them from the engine, and no two share an id.
StartUsesShownRules ==
    [][~running /\ running' =>
        /\ Cardinality(DOMAIN pipeline'.rules) = Len(list)
        /\ \A i \in DOMAIN list : /\ list[i].id \in DOMAIN pipeline'.rules
                                 /\ pipeline'.rules[list[i].id] = list[i]]_vars

\* What docs/analytics/rule-engine.md says of a running camera, which makes the
\* draw tools no-ops.  A draft begun before the start can still be finished.
DrawToolsRestWhileRunning == [][running => list' = list]_vars
==============================================================================
