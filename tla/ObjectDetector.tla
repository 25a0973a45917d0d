---------------------------- MODULE ObjectDetector ----------------------------
(***************************************************************************)
(* The detector of mode Object: YoloVisionPlugin makes the engine that the *)
(* selection names and a YoloDetector that owns it and loads it at once;   *)
(* the settings page replaces both by others; the inference thread asks    *)
(* the detector for the objects in a frame.  Meanwhile the model file may  *)
(* be replaced or removed and the process may die and be started again,    *)
(* with the cache directory as it was left.                                *)
(*                                                                         *)
(* One thread at a time uses an engine: it is loaded by the GUI thread     *)
(* before the worker exists and replaced after the worker was joined       *)
(* (module VisionPipeline).                                                *)
(***************************************************************************)
EXTENDS TensorRTEngine, FiniteSets

CONSTANTS Environments, \* what VISIONLAB_INFERENCE_* may hold
          InputShape,   \* the 320 x 320 the plugin asks for
          RowOutputs,   \* versions whose outputs are lists of YOLO rows
          MaxEngines,   \* bound: engines created; after the last one no crash
          MaxSeen       \* bound: contents of the model file during one load

ASSUME BoundIsNatural == MaxEngines \in Nat

VARIABLES hasTensorRT, \* VISIONLAB_HAS_TENSORRT, fixed when built
          asked,       \* the frame of the last call of infer, None before one
          detections,  \* what the last detect returned
          engines      \* how many engines there have been

vars == <<model, cache, tmp, engine, call, reply, seen, faulted, keyed, replaced,
          hasTensorRT, asked, detections, engines>>

Ort == INSTANCE OnnxRuntimeEngine WITH Devices <- DOMAIN Gpu

Init == /\ model \in Versions \cup {Missing}
        /\ cache = [key \in {} |-> None]
        /\ tmp = [key \in {} |-> None]
        /\ engine = None
        /\ call = NoCall("absent")
        /\ reply = Failed
        /\ seen = {} /\ faulted = FALSE
        /\ keyed = None /\ replaced = {}
        /\ hasTensorRT \in BOOLEAN
        /\ asked = None /\ detections = None
        /\ engines = 0
------------------------------------------------------------------------------
ParseBackend(word) ==
    CASE word \in {"onnx-cpu", "onnxruntime-cpu"} -> "OnnxRuntimeCpu"
      [] word \in {"onnx-cuda", "onnxruntime-cuda"} -> "OnnxRuntimeCuda"
      [] word \in {"tensorrt", "trt"} -> "TensorRT"
      [] OTHER -> None
ParsePrecision(word) ==
    CASE word = "fp32" -> "Fp32" [] word = "fp16" -> "Fp16" [] OTHER -> None
Or(parsed, default) == IF parsed = None THEN default ELSE parsed
\* What is unset or makes no sense keeps its default.
SelectionFromEnv(env) ==
    [backend |-> Or(ParseBackend(env.backend), "OnnxRuntimeCpu"),
     precision |-> Or(ParsePrecision(env.precision), "Fp32"),
     device |-> IF env.device \in 0..1000000 THEN env.device ELSE 0]

ModelConfig(selection) ==
    [backend |-> selection.backend, precision |-> selection.precision,
     device |-> selection.device, shape |-> InputShape]

\* UnavailableInferenceEngine, in a build without TensorRT.
Unavailable(config) == /\ engine' = ResetImpl(NewImpl(config), TRUE)
                       /\ call' = NoCall("idle")
                       /\ reply' = Failed
                       /\ seen' = {model} /\ faulted' = FALSE /\ keyed' = None
                       /\ UNCHANGED <<disk, replaced>>

\* createInferenceEngine, and the constructor of the detector, which loads.
CreateEngine(config) ==
    \/ /\ config.backend = "OnnxRuntimeCpu"
       /\ Ort!InitializeCpu(config) /\ keyed' = None /\ UNCHANGED <<cache, tmp, replaced>>
    \/ /\ config.backend = "OnnxRuntimeCuda"
       /\ Ort!InitializeCuda(config) /\ keyed' = None /\ UNCHANGED <<cache, tmp, replaced>>
    \/ /\ config.backend = "TensorRT" /\ hasTensorRT
       /\ Begin(config)
    \/ /\ config.backend = "TensorRT" /\ ~hasTensorRT
       /\ Unavailable(config)

CreateDetector(selection) ==
    /\ engines < MaxEngines /\ engines' = engines + 1
    /\ CreateEngine(ModelConfig(selection))
    /\ asked' = None /\ detections' = None
    /\ UNCHANGED hasTensorRT
\* The process starts with the selection of its environment ...
Start(env) == /\ call.at = "absent"
              /\ CreateDetector(SelectionFromEnv(env))
\* ... and the settings page asks for another one.
ApplySettings(selection) == /\ call.at = "idle"
                            /\ CreateDetector(selection)

Loading == /\ Initialize
           /\ UNCHANGED <<hasTensorRT, asked, detections, engines>>

\* YoloDetector::detect: whatever goes wrong, the frame has no objects.
Detect(frame) ==
    /\ call.at = "idle"
    /\ LET tensor == [frame |-> frame, shape |-> engine.config.shape]
       IN  \/ /\ ~engine.ready
              /\ UNCHANGED <<disk, engine, call, reply, history, asked>>
           \/ /\ engine.ready /\ engine.config.backend = "TensorRT"
              /\ asked' = frame /\ Infer(tensor)
           \/ /\ engine.ready /\ engine.config.backend # "TensorRT"
              /\ asked' = frame /\ Ort!Infer(tensor)
              /\ UNCHANGED <<cache, tmp, keyed, replaced>>
    /\ detections' = IF engine.ready /\ reply'.ok /\ engine.plan.version \in RowOutputs
                     THEN reply'.outputs ELSE None
    /\ UNCHANGED <<hasTensorRT, engines>>
------------------------------------------------------------------------------
\* Somebody copies another model over the file, a newer one or an old one with
\* its old time, or deletes it.
ReplaceModel ==
    /\ \E version \in (Versions \cup {Missing}) \ {model} :
          /\ model' = version
          /\ seen' = IF call.at \in Steps THEN seen \cup {version} ELSE seen
          /\ Cardinality(seen') <= MaxSeen
    /\ replaced' = IF call.at \in {"lookup", "building"} THEN replaced \cup {call.key}
                   ELSE replaced
    /\ UNCHANGED <<cache, tmp, engine, call, reply, faulted, keyed, hasTensorRT, asked,
                   detections, engines>>

\* The process ends, in whatever step it is.  A file that was renamed but
\* never synced may turn out truncated when the power went with it.
Crash == /\ call.at # "absent"
         /\ engines < MaxEngines
         /\ \E torn \in SUBSET DOMAIN cache :
               cache' = [key \in DOMAIN cache |->
                            IF key \in torn THEN Torn(cache[key]) ELSE cache[key]]
         /\ engine' = None /\ call' = NoCall("absent")
         /\ reply' = Failed /\ asked' = None /\ detections' = None
         /\ seen' = {} /\ faulted' = FALSE /\ keyed' = None
         /\ UNCHANGED <<model, tmp, replaced, hasTensorRT, engines>>

Selections == {[backend |-> c.backend, precision |-> c.precision, device |-> c.device] : c \in Configs}

\* All that the environment and the settings page can ask for.
Asked == {ModelConfig(SelectionFromEnv(env)) : env \in Environments}
         \cup {ModelConfig(selection) : selection \in Selections}
ASSUME NoneIsNotAsked == None \notin Asked

Next == \/ \E env \in Environments : Start(env)
        \/ \E selection \in Selections : ApplySettings(selection)
        \/ Loading
        \/ \E frame \in Frames : Detect(frame)
        \/ ReplaceModel
        \/ Crash

Spec == Init /\ [][Next]_vars
------------------------------------------------------------------------------
Plans == [version : Versions, gpu : {Gpu[d] : d \in DOMAIN Gpu}, precision : {"Fp32", "Fp16"},
          shape : {Shape[v] : v \in Versions}, whole : BOOLEAN]
OrtPlans == [version : Versions, precision : {"Fp32"}, shape : {Shape[v] : v \in Versions}]
Impls == [config : Asked, ready : BOOLEAN, error : BOOLEAN,
          plan : Plans \cup OrtPlans \cup {None},
          shape : {Shape[v] : v \in Versions} \cup {None},
          input : Frames \cup {None}]
TypeOK == /\ model \in Versions \cup {Missing}
          /\ \A key \in DOMAIN cache : cache[key] \in Plans
          /\ \A key \in DOMAIN tmp : tmp[key] \in Plans
          /\ call.at \in Steps \cup {"absent", "idle"}
          /\ engine \in IF call.at = "absent" THEN {None} ELSE Impls
          /\ call.at \in {"writing", "renaming", "renaming again"} =>
                call.key \in DOMAIN tmp /\ call.plan \in Plans
          /\ faulted \in BOOLEAN
          /\ asked \in Frames \cup {None}
          /\ engines \in 0..MaxEngines

\* A ready TensorRT engine runs a whole plan, in the precision and with the
\* input shape it was asked for, whatever earlier processes left in the cache,
\* wherever they died, and however the model was replaced.  The plan is for a GPU
\* of the slug of the one asked for, if this load could query it: what other
\* loads filed without the query does no harm.  And it was built from a model
\* with the size and time of one that was in the model file during this load,
\* unless the model was replaced in some load under this key, between the
\* question for size and time and the build.
ReadyAsAsked ==
    engine # None /\ engine.ready /\ engine.config.backend = "TensorRT" =>
        /\ engine.plan.whole
        /\ engine.plan.precision = engine.config.precision
        /\ engine.plan.shape = engine.config.shape
        /\ keyed.gpu # AnyGpu => Slug[engine.plan.gpu] = Slug[Gpu[engine.config.device]]
        /\ keyed \notin replaced =>
              \E version \in seen \cap Versions : Stamp[engine.plan.version] = Stamp[version]

\* Only the model, the selection or a fault of the system make a load fail,
\* never what is in the cache directory; and a load that met no fault leaves
\* a plan there that the next one can use.
SuitableModel == \A version \in seen' : version # Missing /\ Buildable(version, engine.config)
DirtyCacheHeals ==
    [][call.at \in Steps /\ call'.at = "idle" /\ ~faulted' /\ SuitableModel /\ ~LacksFp16 =>
          /\ engine'.ready
          /\ call.key \in DOMAIN cache' /\ cache'[call.key] = engine'.plan]_vars

\* Every engine behaves as its port says: not ready is never silent, a refused
\* engine stays refused, and an answer comes from the input of its own call.
PortPhase == IF call.at \in Steps THEN "loading" ELSE call.at
PortLoaded == IF call.at # "absent" /\ engine.ready THEN engine.config ELSE None
PortFailed == IF call.at # "absent" THEN engine.error ELSE FALSE
PortReply ==
    IF reply.ok THEN [ok |-> TRUE, of |-> reply.outputs.of,
                      by |-> IF reply.outputs.by = engine.plan THEN engine.config ELSE None]
    ELSE Failed
Port == INSTANCE InferencePort WITH
    Configs <- Asked, Inputs <- Frames, serial <- engines, phase <- PortPhase,
    loaded <- PortLoaded, failed <- PortFailed, reply <- PortReply
ImplementsPort == Port!Spec
==============================================================================
