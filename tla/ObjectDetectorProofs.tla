------------------------- MODULE ObjectDetectorProofs -------------------------
(* Theorems about the plan cache of TensorRTEngine and the detector that owns *)
(* the engine, for any model files, GPUs, configurations and frames and any   *)
(* number of engines and processes, with their proofs.                        *)
EXTENDS ObjectDetector, TLAPS

(* A plan that may be filed under a key: of its precision, for a GPU of its   *)
(* slug if that was known, and of a model of its size and time unless the     *)
(* model was replaced while a plan of this key was on its way.                *)
Filed(key, plan) ==
    /\ plan \in Plans
    /\ plan.precision = key.precision
    /\ key.gpu # AnyGpu => Slug[plan.gpu] = key.gpu
    /\ key \notin replaced => Stamp[plan.version] = key.stamp

(* A plan the engine may run: what ReadyAsAsked says of it.                   *)
AsAsked(config, plan) ==
    /\ plan \in Plans
    /\ plan.whole
    /\ plan.precision = config.precision
    /\ plan.shape = config.shape
    /\ keyed.gpu # AnyGpu => Slug[plan.gpu] = Slug[Gpu[config.device]]
    /\ keyed \notin replaced =>
          \E version \in seen \cap Versions : Stamp[plan.version] = Stamp[version]

IsImpl(impl) ==
    impl = [config |-> impl.config, ready |-> impl.ready, error |-> impl.error,
            plan |-> impl.plan, shape |-> impl.shape, input |-> impl.input]
IsCall(c) == c = [at |-> c.at, key |-> c.key, plan |-> c.plan]

ModelIsFile == model \in Versions \cup {Missing}

CacheIsFiled == \A key \in DOMAIN cache : Filed(key, cache[key])

(* The engine and its configuration while it is loaded.                       *)
EngineLoads ==
    /\ IsCall(call)
    /\ call.at \in Steps \cup {"absent", "idle"}
    /\ call.at # "absent" => IsImpl(engine)
    /\ call.at = "absent" => engine = None
    /\ call.at \in Steps =>
          /\ ~engine.ready
          /\ engine.config.backend = "TensorRT"
          /\ engine.config.precision \in {"Fp32", "Fp16"}
          /\ engine.config.device \in DOMAIN Gpu
          /\ model \in seen /\ seen \subseteq Versions \cup {Missing}

(* The key is that of a model this load met, and of the present one as long   *)
(* as nothing was replaced under the key before the model is read.            *)
KeyIsMet ==
    call.at \in Steps \ {"keying"} =>
        /\ call.key = keyed
        /\ keyed.precision = engine.config.precision
        /\ keyed.gpu \in GpuSlugs(engine.config.device)
        /\ \E v \in seen \cap Versions : keyed.stamp = Stamp[v]
        /\ call.at \in {"lookup", "building"} /\ keyed \notin replaced =>
              Stamp[model] = keyed.stamp

PlanIsBuilt ==
    /\ call.at \in {"persisting", "writing", "renaming", "renaming again", "finishing"} =>
          AsAsked(engine.config, call.plan)
    /\ call.at \in {"persisting", "writing", "renaming", "renaming again"} =>
          Filed(call.key, call.plan)
    /\ call.at \in {"writing", "renaming", "renaming again"} =>
          /\ call.key \in DOMAIN tmp
          /\ tmp[call.key] \in {call.plan, Torn(call.plan)}
    /\ call.at \in {"renaming", "renaming again"} /\ ~faulted => tmp[call.key] = call.plan
    /\ call.at = "finishing" /\ ~faulted =>
          call.key \in DOMAIN cache /\ cache[call.key] = call.plan

ReadyRunsAsAsked ==
    call.at = "idle" /\ engine.ready /\ engine.config.backend = "TensorRT" =>
        AsAsked(engine.config, engine.plan)

(* The strengthened invariant.                                                *)
IInv == /\ ModelIsFile
        /\ CacheIsFiled
        /\ EngineLoads
        /\ KeyIsMet
        /\ PlanIsBuilt
        /\ ReadyRunsAsAsked

USE DEF Missing, Steps

(* A file that lost its end is still filed where it was.                      *)
LEMMA TornIsFiled ==
    ASSUME NEW key, NEW plan, Filed(key, plan)
    PROVE  Filed(key, Torn(plan))
BY DEF Filed, Torn, Plans

LEMMA NoCallIsAt ==
    ASSUME NEW at, NEW c, c = NoCall(at)
    PROVE  c.at = at
BY DEF NoCall

LEMMA InitEstablishes == Init => IInv
<1> SUFFICES ASSUME Init PROVE IInv
  OBVIOUS
<1>1. ModelIsFile
  BY DEF Init, ModelIsFile
<1>2. CacheIsFiled
  BY DEF Init, CacheIsFiled
<1>3. EngineLoads /\ KeyIsMet /\ PlanIsBuilt /\ ReadyRunsAsAsked
  BY DEF Init, NoCall, EngineLoads, IsCall, KeyIsMet, PlanIsBuilt, ReadyRunsAsAsked
<1> QED
  BY <1>1, <1>2, <1>3 DEF IInv

------------------------------------------------------------------------------
(* Another engine takes the place of the last one.                            *)
LEMMA EngineCreated ==
    ASSUME IInv, NEW config, IsImpl(engine'), engine'.config = config, IsCall(call'),
           UNCHANGED <<model, cache, tmp, replaced>>, seen' = {model},
           \/ call'.at = "idle" /\ (config.backend = "TensorRT" => ~engine'.ready)
           \/ /\ call'.at = "keying" /\ ~engine'.ready
              /\ config.backend = "TensorRT" /\ config.precision \in {"Fp32", "Fp16"}
              /\ config.device \in DOMAIN Gpu
    PROVE  IInv'
<1>1. ModelIsFile' /\ CacheIsFiled'
  BY DEF IInv, ModelIsFile, CacheIsFiled, Filed
<1>2. EngineLoads'
  BY DEF IInv, ModelIsFile, EngineLoads, IsCall, IsImpl
<1>3. KeyIsMet' /\ PlanIsBuilt' /\ ReadyRunsAsAsked'
  BY DEF KeyIsMet, PlanIsBuilt, ReadyRunsAsAsked
<1> QED
  BY <1>1, <1>2, <1>3 DEF IInv

LEMMA CreateStep ==
    ASSUME IInv, NEW selection, CreateDetector(selection)
    PROVE  IInv'
<1> DEFINE config == ModelConfig(selection)
<1>1. CreateEngine(config)
  BY DEF CreateDetector
<1> HIDE DEF config
<1>2. CASE /\ config.backend = "OnnxRuntimeCpu"
           /\ Ort!InitializeCpu(config) /\ UNCHANGED <<cache, tmp, replaced>>
  <2>1. /\ UNCHANGED <<model, cache, tmp, replaced>> /\ seen' = {model}
        /\ IsCall(call') /\ call'.at = "idle"
        /\ IsImpl(engine') /\ engine'.config = config
    BY <1>2 DEF Ort!InitializeCpu, Ort!Load, Ort!ReadyImpl, Ort!ResetImpl, Ort!NewImpl, IsCall, IsImpl
  <2> QED
    BY <1>1, <1>2, <2>1, EngineCreated
<1>3. CASE /\ config.backend = "OnnxRuntimeCuda"
           /\ Ort!InitializeCuda(config) /\ UNCHANGED <<cache, tmp, replaced>>
  <2>1. /\ UNCHANGED <<model, cache, tmp, replaced>> /\ seen' = {model}
        /\ IsCall(call') /\ call'.at = "idle"
        /\ IsImpl(engine') /\ engine'.config = config
    BY <1>3 DEF Ort!InitializeCuda, Ort!Load, Ort!ReadyImpl, Ort!ResetImpl, Ort!NewImpl, IsCall, IsImpl
  <2> QED
    BY <1>1, <1>3, <2>1, EngineCreated
<1>4. CASE config.backend = "TensorRT" /\ Begin(config)
  <2>1. UNCHANGED <<model, cache, tmp, replaced>> /\ seen' = {model}
    BY <1>4 DEF Begin, disk
  <2>2. /\ IsCall(call') /\ IsImpl(engine') /\ engine'.config = config /\ ~engine'.ready
        /\ \/ call'.at = "idle"
           \/ call'.at = "keying" /\ ~Refuses(config)
    BY <1>4 DEF Begin, ResetImpl, NewImpl, NoCall, IsCall, IsImpl
  <2>3. ~Refuses(config) => config.precision \in {"Fp32", "Fp16"} /\ config.device \in DOMAIN Gpu
    BY DEF Refuses
  <2> QED
    BY <1>1, <1>4, <2>1, <2>2, <2>3, EngineCreated
<1>5. CASE config.backend = "TensorRT" /\ Unavailable(config)
  <2>1. /\ UNCHANGED <<model, cache, tmp, replaced>> /\ seen' = {model}
        /\ IsCall(call') /\ call'.at = "idle" /\ ~engine'.ready
        /\ IsImpl(engine') /\ engine'.config = config
    BY <1>5 DEF Unavailable, disk, ResetImpl, NewImpl, NoCall, IsCall, IsImpl
  <2> QED
    BY <1>1, <1>5, <2>1, EngineCreated
<1> QED
  BY <1>1, <1>2, <1>3, <1>4, <1>5 DEF CreateEngine

(* A load that gives up leaves the files as they are, or the cache poorer.    *)
LEMMA FailStep ==
    ASSUME IInv, call.at \in Steps, Fail, UNCHANGED <<model, seen, replaced>>,
           cache' = cache
    PROVE  IInv'
<1>1. /\ IsImpl(engine') /\ ~engine'.ready /\ IsCall(call') /\ call'.at = "idle"
  BY DEF Fail, ResetImpl, NewImpl, NoCall, IsImpl, IsCall
<1>2. ModelIsFile' /\ CacheIsFiled'
  BY DEF IInv, ModelIsFile, CacheIsFiled, Filed
<1>3. EngineLoads' /\ KeyIsMet' /\ PlanIsBuilt' /\ ReadyRunsAsAsked'
  BY <1>1 DEF EngineLoads, KeyIsMet, PlanIsBuilt, ReadyRunsAsAsked
<1> QED
  BY <1>2, <1>3 DEF IInv

(* What every step of a load has in common: the engine keeps its              *)
(* configuration, and the model file and its history stay.                    *)
LEMMA LoadGoesOn ==
    ASSUME IInv, call.at \in Steps, IsCall(call'), call'.at \in Steps,
           UNCHANGED <<engine, model, seen>>
    PROVE  ModelIsFile' /\ EngineLoads' /\ ReadyRunsAsAsked'
<1>1. ModelIsFile'
  BY DEF IInv, ModelIsFile
<1>2. EngineLoads'
  BY DEF IInv, EngineLoads, IsImpl
<1> QED
  BY <1>1, <1>2 DEF ReadyRunsAsAsked

(* MoveTo leaves key and plan of the load as they are.                        *)
LEMMA MoveIsLoad ==
    ASSUME IInv, NEW at, MoveTo(at)
    PROVE  /\ IsCall(call') /\ call'.at = at
           /\ call'.key = call.key /\ call'.plan = call.plan
           /\ UNCHANGED engine
BY DEF MoveTo, IInv, EngineLoads, IsCall

LEMMA ComputeKeyStep ==
    ASSUME IInv, ComputeKey
    PROVE  IInv'
<1>1. call.at = "keying" /\ UNCHANGED <<model, cache, tmp, seen, faulted, replaced>>
  BY DEF ComputeKey, disk
<1>2. CASE Fail
  BY <1>1, <1>2, FailStep
<1>3. ASSUME NEW slug \in GpuSlugs(engine.config.device), model # Missing,
             keyed' = Key(engine.config, model, slug),
             call' = [call EXCEPT !.at = "lookup", !.key = keyed'],
             UNCHANGED engine
      PROVE  IInv'
  <2>1. IsCall(call') /\ call'.at = "lookup" /\ call'.key = keyed'
    BY <1>3 DEF IInv, EngineLoads, IsCall
  <2>2. ModelIsFile' /\ EngineLoads' /\ ReadyRunsAsAsked'
    BY <1>1, <1>3, <2>1, LoadGoesOn
  <2>3. CacheIsFiled' /\ PlanIsBuilt'
    BY <1>1, <2>1 DEF IInv, CacheIsFiled, Filed, PlanIsBuilt
  <2>4. model \in seen \cap Versions
    BY <1>1, <1>3 DEF IInv, ModelIsFile, EngineLoads
  <2>5. /\ keyed'.precision = engine.config.precision
        /\ keyed'.gpu = slug /\ keyed'.stamp = Stamp[model]
    BY <1>3 DEF Key
  <2>6. KeyIsMet'
    BY <1>1, <1>3, <2>1, <2>4, <2>5 DEF KeyIsMet, GpuSlugs
  <2> QED
    BY <2>2, <2>3, <2>6 DEF IInv
<1> QED
  BY <1>2, <1>3 DEF ComputeKey

LEMMA CacheHitStep ==
    ASSUME IInv, CacheHit
    PROVE  IInv'
<1>1. /\ call.at = "lookup" /\ call.key \in DOMAIN cache /\ Accepts(cache[call.key])
      /\ UNCHANGED <<model, cache, tmp, engine, seen, faulted, keyed, replaced>>
      /\ call' = [call EXCEPT !.at = "finishing", !.key = call.key, !.plan = cache[call.key]]
  BY DEF CacheHit, disk, history, IInv, EngineLoads, IsCall
<1>2. /\ IsCall(call') /\ call'.at = "finishing"
      /\ call'.key = call.key /\ call'.plan = cache[call.key]
  BY <1>1 DEF IInv, EngineLoads, IsCall
<1>2a. ModelIsFile' /\ EngineLoads' /\ ReadyRunsAsAsked'
  BY <1>1, <1>2, LoadGoesOn
<1>3. /\ call.key = keyed
      /\ keyed.precision = engine.config.precision
      /\ keyed.gpu \in {Slug[Gpu[engine.config.device]], AnyGpu}
      /\ \E v \in seen \cap Versions : keyed.stamp = Stamp[v]
  BY <1>1 DEF IInv, KeyIsMet, GpuSlugs
<1>4. Filed(call.key, cache[call.key])
  BY <1>1 DEF IInv, CacheIsFiled
<1>5. AsAsked(engine.config, cache[call.key])
  BY <1>1, <1>3, <1>4 DEF Filed, AsAsked, Accepts
<1>6. CacheIsFiled' /\ KeyIsMet'
  BY <1>1, <1>2 DEF IInv, CacheIsFiled, Filed, KeyIsMet, GpuSlugs
<1>7. PlanIsBuilt'
  BY <1>1, <1>2, <1>5 DEF PlanIsBuilt, AsAsked
<1> QED
  BY <1>2a, <1>6, <1>7 DEF IInv

(* Nothing usable was found under the key, which is now free or as it was.    *)
LEMMA CacheMissStep ==
    ASSUME IInv, CacheMiss \/ CacheDirty
    PROVE  IInv'
<1>1. /\ call.at = "lookup" /\ MoveTo("building")
      /\ UNCHANGED <<model, tmp, seen, keyed, replaced>>
      /\ cache' \in {cache, Without(cache, call.key)}
  BY DEF CacheMiss, CacheDirty, disk, history
<1>2. /\ IsCall(call') /\ call'.at = "building" /\ call'.key = call.key /\ engine' = engine
  BY <1>1, MoveIsLoad
<1>2a. ModelIsFile' /\ EngineLoads' /\ ReadyRunsAsAsked'
  BY <1>1, <1>2, LoadGoesOn
<1>3. CacheIsFiled'
  BY <1>1 DEF IInv, CacheIsFiled, Filed, Without
<1>4. KeyIsMet' /\ PlanIsBuilt'
  BY <1>1, <1>2 DEF IInv, KeyIsMet, PlanIsBuilt, GpuSlugs
<1> QED
  BY <1>2a, <1>3, <1>4 DEF IInv

LEMMA BuildStep ==
    ASSUME IInv, BuildFromModel
    PROVE  IInv'
<1>1. call.at = "building" /\ UNCHANGED <<model, cache, tmp, seen, faulted, keyed, replaced>>
  BY DEF BuildFromModel, disk, history
<1>2. CASE Fail
  BY <1>1, <1>2, FailStep
<1>3. CASE /\ model # Missing /\ Buildable(model, engine.config)
           /\ call' = [call EXCEPT !.at = "persisting", !.plan = Plan(engine.config, model)]
           /\ UNCHANGED engine
  <2> DEFINE plan == Plan(engine.config, model)
  <2>1. /\ IsCall(call') /\ call'.at = "persisting"
        /\ call'.key = call.key /\ call'.plan = plan
    BY <1>3 DEF IInv, EngineLoads, IsCall
  <2>2. ModelIsFile' /\ EngineLoads' /\ ReadyRunsAsAsked'
    BY <1>1, <1>3, <2>1, LoadGoesOn
  <2>3. /\ model \in seen \cap Versions
        /\ engine.config.precision \in {"Fp32", "Fp16"} /\ engine.config.device \in DOMAIN Gpu
    BY <1>1, <1>3 DEF IInv, ModelIsFile, EngineLoads
  <2>4. /\ plan \in Plans /\ plan.whole /\ plan.version = model
        /\ plan.precision = engine.config.precision /\ plan.shape = engine.config.shape
        /\ plan.gpu = Gpu[engine.config.device]
    BY <1>3, <2>3 DEF Plan, Plans, Buildable
  <2> HIDE DEF plan
  <2>5. AsAsked(engine.config, plan)
    BY <2>3, <2>4 DEF AsAsked
  <2>6. Filed(call.key, plan)
    BY <1>1, <2>4 DEF IInv, KeyIsMet, GpuSlugs, Filed
  <2>7. CacheIsFiled' /\ KeyIsMet'
    BY <1>1, <1>3, <2>1 DEF IInv, CacheIsFiled, Filed, KeyIsMet, GpuSlugs
  <2>8. PlanIsBuilt'
    BY <1>1, <1>3, <2>1, <2>5, <2>6 DEF PlanIsBuilt, AsAsked, Filed
  <2> QED
    BY <2>2, <2>7, <2>8 DEF IInv
<1> QED
  BY <1>2, <1>3 DEF BuildFromModel

(* The temporary file is opened, written, or not written to its end.          *)
LEMMA WriteStep ==
    ASSUME IInv, OpenTmp \/ WriteTmp
    PROVE  IInv'
<1> DEFINE next == IF call.at = "persisting" THEN "writing" ELSE "renaming"
<1>1. /\ call.at \in {"persisting", "writing"} /\ MoveTo(next)
      /\ UNCHANGED <<model, cache, seen, keyed, replaced>>
      /\ \/ call.at = "persisting" /\ tmp' = With(tmp, call.key, Torn(call.plan))
         \/ call.at = "writing" /\ tmp' = With(tmp, call.key, call.plan)
         \/ call.at = "writing" /\ tmp' = tmp /\ faulted'
  BY DEF OpenTmp, WriteTmp, history
<1>2. /\ IsCall(call') /\ call'.at = next
      /\ call'.key = call.key /\ call'.plan = call.plan /\ engine' = engine
  BY <1>1, MoveIsLoad
<1>2a. ModelIsFile' /\ EngineLoads' /\ ReadyRunsAsAsked'
  BY <1>1, <1>2, LoadGoesOn
<1>3. CacheIsFiled' /\ KeyIsMet'
  BY <1>1, <1>2 DEF IInv, CacheIsFiled, Filed, KeyIsMet, GpuSlugs
<1>4. call.key \in DOMAIN tmp' /\ tmp'[call.key] \in {call.plan, Torn(call.plan)}
  BY <1>1 DEF IInv, PlanIsBuilt, With
<1>5. call.at = "writing" /\ ~faulted' => tmp'[call.key] = call.plan
  BY <1>1 DEF With
<1>6. AsAsked(engine.config, call.plan)' /\ Filed(call.key, call.plan)'
  BY <1>1, <1>2 DEF IInv, PlanIsBuilt, AsAsked, Filed
<1>7. PlanIsBuilt'
  BY <1>1, <1>2, <1>4, <1>5, <1>6 DEF PlanIsBuilt
<1> QED
  BY <1>2a, <1>3, <1>7 DEF IInv

LEMMA PublishStep ==
    ASSUME IInv, Publish
    PROVE  IInv'
<1>1. /\ call.at \in {"renaming", "renaming again"} /\ MoveTo("finishing")
      /\ UNCHANGED <<model, seen, faulted, keyed, replaced>>
      /\ cache' = With(cache, call.key, tmp[call.key])
  BY DEF Publish, history
<1>2. /\ IsCall(call') /\ call'.at = "finishing"
      /\ call'.key = call.key /\ call'.plan = call.plan /\ engine' = engine
  BY <1>1, MoveIsLoad
<1>2a. ModelIsFile' /\ EngineLoads' /\ ReadyRunsAsAsked'
  BY <1>1, <1>2, LoadGoesOn
<1>3. Filed(call.key, tmp[call.key])
  <2>1. Filed(call.key, call.plan) /\ tmp[call.key] \in {call.plan, Torn(call.plan)}
    BY <1>1 DEF IInv, PlanIsBuilt
  <2> QED
    BY <2>1, TornIsFiled
<1>4. CacheIsFiled'
  <2> SUFFICES ASSUME NEW key \in DOMAIN cache' PROVE Filed(key, cache[key])'
    BY DEF CacheIsFiled
  <2>1. CASE key = call.key
    BY <1>1, <1>3, <2>1 DEF With, Filed
  <2>2. CASE key # call.key
    BY <1>1, <2>2 DEF With, Filed, IInv, CacheIsFiled
  <2> QED
    BY <2>1, <2>2
<1>5. KeyIsMet'
  BY <1>1, <1>2 DEF IInv, KeyIsMet, GpuSlugs
<1>6. call.key \in DOMAIN cache' /\ cache'[call.key] = tmp[call.key]
  BY <1>1 DEF With
<1>7. PlanIsBuilt'
  BY <1>1, <1>2, <1>6 DEF IInv, PlanIsBuilt, AsAsked
<1> QED
  BY <1>2a, <1>4, <1>5, <1>7 DEF IInv

LEMMA RenameFailsStep ==
    ASSUME IInv, RenameFails
    PROVE  IInv'
<1>1. /\ call.at = "renaming" /\ MoveTo("renaming again")
      /\ UNCHANGED <<model, tmp, seen, keyed, replaced>> /\ faulted' = TRUE
      /\ cache' \in {Without(cache, call.key), cache}
  BY DEF RenameFails
<1>2. /\ IsCall(call') /\ call'.at = "renaming again"
      /\ call'.key = call.key /\ call'.plan = call.plan /\ engine' = engine
  BY <1>1, MoveIsLoad
<1>2a. ModelIsFile' /\ EngineLoads' /\ ReadyRunsAsAsked'
  BY <1>1, <1>2, LoadGoesOn
<1>3. CacheIsFiled' /\ KeyIsMet'
  <2>1. CacheIsFiled'
    BY <1>1 DEF IInv, CacheIsFiled, Filed, Without
  <2>2. KeyIsMet'
    BY <1>1, <1>2 DEF IInv, KeyIsMet, GpuSlugs
  <2> QED
    BY <2>1, <2>2
<1>4. PlanIsBuilt'
  BY <1>1, <1>2 DEF IInv, PlanIsBuilt, AsAsked, Filed
<1> QED
  BY <1>2a, <1>3, <1>4 DEF IInv

LEMMA FinishStep ==
    ASSUME IInv, Finish
    PROVE  IInv'
<1>1. /\ call.at = "finishing"
      /\ UNCHANGED <<model, cache, tmp, seen, faulted, keyed, replaced>>
      /\ IsCall(call') /\ call'.at = "idle"
      /\ IsImpl(engine') /\ engine'.config = engine.config /\ engine'.plan = call.plan
  BY DEF Finish, disk, history, NoCall, IsCall, IInv, EngineLoads, IsImpl
<1>2. ModelIsFile' /\ CacheIsFiled'
  BY <1>1 DEF IInv, ModelIsFile, CacheIsFiled, Filed
<1>3. EngineLoads' /\ KeyIsMet' /\ PlanIsBuilt'
  BY <1>1 DEF EngineLoads, KeyIsMet, PlanIsBuilt
<1>4. ReadyRunsAsAsked'
  BY <1>1 DEF IInv, PlanIsBuilt, ReadyRunsAsAsked, AsAsked
<1> QED
  BY <1>2, <1>3, <1>4 DEF IInv

LEMMA LoadingStep ==
    ASSUME IInv, Loading
    PROVE  IInv'
<1>1. CASE StepFails \/ WriteTmpFails \/ RenameFailsAgain
  <2>1. Fail /\ call.at \in Steps /\ UNCHANGED <<model, cache, seen, replaced>>
    BY <1>1 DEF StepFails, WriteTmpFails, RenameFailsAgain, disk
  <2> QED
    BY <2>1, FailStep
<1> QED
  BY <1>1, ComputeKeyStep, CacheHitStep, CacheMissStep, BuildStep, WriteStep, PublishStep,
     RenameFailsStep, FinishStep DEF Loading, Initialize

------------------------------------------------------------------------------
(* detect runs the engine, breaks it or leaves it; it loads nothing.          *)
LEMMA DetectStep ==
    ASSUME IInv, NEW frame, Detect(frame)
    PROVE  IInv'
<1> DEFINE tensor == [frame |-> frame, shape |-> engine.config.shape]
<1>1. /\ call.at = "idle"
      /\ \/ UNCHANGED <<disk, engine, call, reply, history>>
         \/ engine.ready /\ Infer(tensor)
         \/ engine.ready /\ Ort!Infer(tensor) /\ UNCHANGED <<cache, tmp, keyed, replaced>>
  BY DEF Detect
<1>2. /\ UNCHANGED <<model, cache, tmp, call, seen, faulted, keyed, replaced>>
      /\ \/ UNCHANGED engine
         \/ IsImpl(engine') /\ engine'.config = engine.config /\ ~engine'.ready
         \/ /\ IsImpl(engine') /\ engine'.config = engine.config
            /\ engine'.ready = engine.ready /\ engine'.plan = engine.plan
  <2>1. CASE UNCHANGED <<disk, engine, call, reply, history>>
    BY <2>1 DEF disk, history
  <2>2. CASE Ort!Infer(tensor) /\ UNCHANGED <<cache, tmp, keyed, replaced>>
    BY <2>2 DEF Ort!Infer
  <2>3. CASE Infer(tensor)
    <3>1. UNCHANGED <<model, cache, tmp, call, seen, faulted, keyed, replaced>>
      BY <2>3 DEF Infer, disk, history
    <3>2. IsImpl(engine)
      BY <1>1 DEF IInv, EngineLoads
    <3>3. CASE InferRuns(tensor.frame)
      BY <3>1, <3>2, <3>3 DEF InferRuns, IsImpl
    <3>4. CASE InferFails(tensor.frame)
      BY <3>1, <3>2, <3>4 DEF InferFails, IsImpl
    <3>5. CASE InferThrows
      BY <3>1, <3>5 DEF InferThrows, ResetImpl, NewImpl, IsImpl
    <3> QED
      BY <2>3, <3>1, <3>3, <3>4, <3>5 DEF Infer
  <2> QED
    BY <1>1, <2>1, <2>2, <2>3
<1>3. ModelIsFile' /\ CacheIsFiled'
  BY <1>1, <1>2 DEF IInv, ModelIsFile, CacheIsFiled, Filed
<1>4. EngineLoads'
  BY <1>1, <1>2 DEF IInv, EngineLoads, IsCall, IsImpl
<1>5. KeyIsMet' /\ PlanIsBuilt'
  BY <1>1, <1>2 DEF KeyIsMet, PlanIsBuilt
<1>6. ReadyRunsAsAsked'
  BY <1>1, <1>2 DEF IInv, ReadyRunsAsAsked, AsAsked
<1> QED
  BY <1>3, <1>4, <1>5, <1>6 DEF IInv

(* What a replaced model puts under a key it does while its key is            *)
(* remembered, so what was filed and what is built stay explained.            *)
LEMMA ReplaceStep ==
    ASSUME IInv, ReplaceModel
    PROVE  IInv'
<1>1. PICK version \in (Versions \cup {Missing}) \ {model} :
        /\ model' = version
        /\ seen' = IF call.at \in Steps THEN seen \cup {version} ELSE seen
  BY DEF ReplaceModel
<1>2. /\ UNCHANGED <<cache, tmp, engine, call, faulted, keyed>>
      /\ replaced' = IF call.at \in {"lookup", "building"} THEN replaced \cup {call.key}
                     ELSE replaced
  BY DEF ReplaceModel
<1>3. seen \subseteq seen' /\ replaced \subseteq replaced' /\ ModelIsFile'
  BY <1>1, <1>2 DEF ModelIsFile
<1>4. CacheIsFiled'
  <2> SUFFICES ASSUME NEW key \in DOMAIN cache PROVE Filed(key, cache[key])'
    BY <1>2 DEF CacheIsFiled
  <2>1. Filed(key, cache[key])
    BY DEF IInv, CacheIsFiled
  <2> QED
    BY <1>2, <1>3, <2>1 DEF Filed
<1>5. EngineLoads'
  BY <1>1, <1>2 DEF IInv, EngineLoads, IsCall, IsImpl
<1>6. KeyIsMet'
  BY <1>2, <1>3 DEF IInv, KeyIsMet, GpuSlugs
<1>7. PlanIsBuilt'
  <2>1. ASSUME AsAsked(engine.config, call.plan) PROVE AsAsked(engine.config, call.plan)'
    BY <1>2, <1>3, <2>1 DEF AsAsked
  <2>2. ASSUME Filed(call.key, call.plan) PROVE Filed(call.key, call.plan)'
    BY <1>2, <1>3, <2>2 DEF Filed
  <2> QED
    BY <1>2, <2>1, <2>2 DEF IInv, PlanIsBuilt
<1>8. ReadyRunsAsAsked'
  BY <1>2, <1>3 DEF IInv, ReadyRunsAsAsked, AsAsked
<1> QED
  BY <1>3, <1>4, <1>5, <1>6, <1>7, <1>8 DEF IInv

(* The process ends: the files stay, but for ends of them the disk never got. *)
LEMMA CrashStep ==
    ASSUME IInv, Crash
    PROVE  IInv'
<1>1. /\ UNCHANGED <<model, replaced>>
      /\ engine' = None /\ call' = NoCall("absent")
  BY DEF Crash
<1>2. PICK torn \in SUBSET DOMAIN cache :
        cache' = [key \in DOMAIN cache |->
                    IF key \in torn THEN Torn(cache[key]) ELSE cache[key]]
  BY DEF Crash
<1>3. CacheIsFiled'
  <2> SUFFICES ASSUME NEW key \in DOMAIN cache PROVE Filed(key, cache'[key])
    BY <1>1, <1>2 DEF CacheIsFiled, Filed
  <2>1. Filed(key, cache[key])
    BY DEF IInv, CacheIsFiled
  <2> QED
    BY <1>2, <2>1, TornIsFiled
<1>4. ModelIsFile'
  BY <1>1 DEF IInv, ModelIsFile
<1>5. EngineLoads' /\ KeyIsMet' /\ PlanIsBuilt' /\ ReadyRunsAsAsked'
  BY <1>1 DEF NoCall, EngineLoads, IsCall, KeyIsMet, PlanIsBuilt, ReadyRunsAsAsked
<1> QED
  BY <1>3, <1>4, <1>5 DEF IInv

LEMMA StepsKeepInvariant == IInv /\ [Next]_vars => IInv'
<1> SUFFICES ASSUME IInv, [Next]_vars PROVE IInv'
  OBVIOUS
<1>1. ASSUME NEW selection, CreateDetector(selection) PROVE IInv'
  BY <1>1, CreateStep
<1>2. ASSUME NEW env \in Environments, Start(env) PROVE IInv'
  BY <1>1, <1>2 DEF Start
<1>3. ASSUME NEW selection \in Selections, ApplySettings(selection) PROVE IInv'
  BY <1>1, <1>3 DEF ApplySettings
<1>4. CASE Loading
  BY <1>4, LoadingStep
<1>5. ASSUME NEW frame \in Frames, Detect(frame) PROVE IInv'
  BY <1>5, DetectStep
<1>6. CASE ReplaceModel
  BY <1>6, ReplaceStep
<1>7. CASE Crash
  BY <1>7, CrashStep
<1>8. CASE UNCHANGED vars
  BY <1>8 DEF vars, IInv, ModelIsFile, CacheIsFiled, Filed, EngineLoads, IsCall, IsImpl,
              KeyIsMet, GpuSlugs, PlanIsBuilt, AsAsked, ReadyRunsAsAsked
<1> QED
  BY <1>2, <1>3, <1>4, <1>5, <1>6, <1>7, <1>8 DEF Next

(* The strengthened invariant holds in every reachable state.                 *)
THEOREM Invariance == Spec => []IInv
BY InitEstablishes, StepsKeepInvariant, PTL DEF Spec

(* A ready TensorRT engine runs a whole plan of the precision and shape it    *)
(* was asked for; for a GPU of the slug asked for when this load could query  *)
(* it; and of a model like one this load met unless the model was replaced    *)
(* under the key: whatever the cache directory held, and with any two models  *)
(* or GPUs alike to it (TensorRTEngine::initialize, cacheFilePath, gpuSlug).  *)
THEOREM ReadyEnginesRunAsAsked == Spec => []ReadyAsAsked
<1>1. IInv => ReadyAsAsked
  <2> SUFFICES ASSUME IInv, engine # None, engine.ready, engine.config.backend = "TensorRT"
               PROVE  AsAsked(engine.config, engine.plan)
    BY DEF ReadyAsAsked, AsAsked
  <2>1. call.at = "idle"
    BY DEF IInv, EngineLoads
  <2> QED
    BY <2>1 DEF IInv, ReadyRunsAsAsked
<1> QED
  BY <1>1, Invariance, PTL

(* A load without a fault of the system ends ready, with a plan in the cache  *)
(* the next one can use, whatever the cache held (persistCache,               *)
(* discardCache).                                                             *)
THEOREM DirtyCachesHeal == Spec => DirtyCacheHeals
<1> DEFINE Heals ==
      call.at \in Steps /\ call'.at = "idle" /\ ~faulted' /\ SuitableModel /\ ~LacksFp16 =>
          /\ engine'.ready
          /\ call.key \in DOMAIN cache' /\ cache'[call.key] = engine'.plan
<1>1. IInv /\ [Next]_vars => [Heals]_vars
  <2> SUFFICES ASSUME IInv, [Next]_vars, call.at \in Steps, call'.at = "idle", ~faulted',
                      SuitableModel, ~LacksFp16
               PROVE  /\ engine'.ready
                      /\ call.key \in DOMAIN cache' /\ cache'[call.key] = engine'.plan
    OBVIOUS
  <2>1. Loading
    <3>1. call.at # "absent" /\ call.at # "idle" /\ call'.at # call.at /\ call'.at # "absent"
      OBVIOUS
    <3>2. /\ \A env \in Environments : ~Start(env)
          /\ \A selection \in Selections : ~ApplySettings(selection)
          /\ \A frame \in Frames : ~Detect(frame)
      BY <3>1 DEF Start, ApplySettings, Detect
    <3>3. ~ReplaceModel /\ ~UNCHANGED vars
      BY <3>1 DEF ReplaceModel, vars
    <3>4. ~Crash
      <4>1. Crash => call' = NoCall("absent")
        BY DEF Crash
      <4>2. call' = NoCall("absent") => call'.at = "absent"
        BY NoCallIsAt
      <4> QED
        BY <3>1, <4>1, <4>2
    <3> QED
      BY <3>2, <3>3, <3>4 DEF Next
  <2>2. IsImpl(engine) /\ model \in seen
    BY DEF IInv, EngineLoads
  <2>3. CASE Finish
    BY <2>2, <2>3 DEF Finish, disk, history, NoCall, IInv, PlanIsBuilt, IsImpl
  <2>4. CASE ComputeKey \/ BuildFromModel
    <3>1. seen' = seen /\ engine'.config = engine.config
      BY <2>2, <2>4 DEF ComputeKey, BuildFromModel, history, Fail, ResetImpl, NewImpl, IsImpl
    <3>2. model # Missing /\ Buildable(model, engine.config)
      BY <2>2, <3>1 DEF SuitableModel, Buildable
    <3> QED
      BY <2>4, <3>2 DEF ComputeKey, BuildFromModel, IInv, EngineLoads, IsCall
  <2>5. CASE CacheMiss \/ CacheHit \/ CacheDirty \/ OpenTmp \/ WriteTmp \/ Publish \/ RenameFails
    BY <2>5 DEF CacheMiss, CacheHit, CacheDirty, OpenTmp, WriteTmp, Publish, RenameFails, MoveTo,
                IInv, EngineLoads, IsCall
  <2>6. CASE StepFails \/ WriteTmpFails \/ RenameFailsAgain
    BY <2>6 DEF StepFails, WriteTmpFails, RenameFailsAgain
  <2> QED
    BY <2>1, <2>3, <2>4, <2>5, <2>6 DEF Loading, Initialize
<1> QED
  BY <1>1, Invariance, PTL DEF Spec, DirtyCacheHeals
------------------------------------------------------------------------------
(* The types the invariant above leaves open.                                 *)
TmpTyped == \A key \in DOMAIN tmp : tmp[key] \in Plans
EngineTyped == call.at # "absent" => engine \in Impls
FlagsTyped == /\ faulted \in BOOLEAN
              /\ asked \in Frames \cup {None}
              /\ engines \in 0..MaxEngines
Typed == TmpTyped /\ EngineTyped /\ FlagsTyped

(* An engine that does not run, before and after something failed.            *)
LEMMA ResetIsTyped ==
    ASSUME NEW impl \in Impls, NEW error \in BOOLEAN
    PROVE  NewImpl(impl.config) \in Impls /\ ResetImpl(impl, error) \in Impls
<1>1. NewImpl(impl.config) \in Impls
  BY DEF Impls, NewImpl
<1> QED
  BY <1>1 DEF Impls, ResetImpl

LEMMA NewIsTyped ==
    ASSUME NEW config \in Asked, NEW error \in BOOLEAN
    PROVE  NewImpl(config) \in Impls /\ ResetImpl(NewImpl(config), error) \in Impls
<1>1. NewImpl(config) \in Impls /\ NewImpl(config).config = config
  BY DEF Impls, NewImpl
<1> QED
  BY <1>1, ResetIsTyped

LEMMA OrtLoadIsTyped ==
    ASSUME IInv, NEW config \in Asked, NEW refused, refused \/ model # Missing,
           Ort!Load(config, refused)
    PROVE  engine' \in Impls /\ faulted' \in BOOLEAN
<1>1. Ort!NewImpl(config) \in Impls
  BY DEF Impls, Ort!NewImpl
<1>2. Ort!ResetImpl(config) \in Impls
  BY <1>1 DEF Impls, Ort!ResetImpl
<1>3. ASSUME ~refused
      PROVE  Ort!ReadyImpl(config) \in Impls
  <2>1. model \in Versions
    BY <1>3 DEF IInv, ModelIsFile
  <2>2. [version |-> model, precision |-> "Fp32", shape |-> Shape[model]] \in OrtPlans
    BY <2>1 DEF OrtPlans
  <2> QED
    BY <1>1, <2>1, <2>2 DEF Impls, Ort!ReadyImpl
<1> QED
  BY <1>2, <1>3 DEF Ort!Load

LEMMA CreateIsTyped ==
    ASSUME IInv, Typed, NEW selection, ModelConfig(selection) \in Asked,
           CreateDetector(selection)
    PROVE  Typed'
<1> DEFINE config == ModelConfig(selection)
<1>1. /\ engines < MaxEngines /\ engines' = engines + 1 /\ CreateEngine(config)
      /\ config \in Asked /\ asked' = None
  BY DEF CreateDetector
<1> HIDE DEF config
<1>2. engines' \in 0..MaxEngines
  BY <1>1, BoundIsNatural DEF Typed, FlagsTyped
<1>3. UNCHANGED tmp
  BY <1>1 DEF CreateEngine, Begin, Unavailable, disk
<1>4. engine' \in Impls /\ faulted' \in BOOLEAN
  <2>1. CASE Begin(config) \/ Unavailable(config)
    BY <1>1, <2>1, NewIsTyped DEF Begin, Unavailable
  <2>2. CASE Ort!InitializeCpu(config)
    BY <1>1, <2>2, OrtLoadIsTyped DEF Ort!InitializeCpu, Ort!RefusesCpu, Ort!Missing
  <2>3. CASE Ort!InitializeCuda(config)
    BY <1>1, <2>3, OrtLoadIsTyped DEF Ort!InitializeCuda, Ort!RefusesCuda, Ort!Missing
  <2> QED
    BY <1>1, <2>1, <2>2, <2>3 DEF CreateEngine
<1> QED
  BY <1>1, <1>2, <1>3, <1>4 DEF Typed, TmpTyped, EngineTyped, FlagsTyped

LEMMA LoadingIsTyped ==
    ASSUME IInv, Typed, Loading
    PROVE  Typed'
<1>1. UNCHANGED <<asked, engines>> /\ call.at # "absent" /\ engine \in Impls
  BY DEF Loading, Initialize, StepFails, ComputeKey, CacheMiss, CacheHit, CacheDirty,
         BuildFromModel, OpenTmp, WriteTmp, WriteTmpFails, Publish, RenameFails,
         RenameFailsAgain, Finish, Typed, EngineTyped
<1>2. TmpTyped'
  <2>1. CASE tmp' \in {tmp, Without(tmp, call.key)}
    BY <2>1 DEF Typed, TmpTyped, Without
  <2>2. CASE /\ call.at \in {"persisting", "writing"}
             /\ tmp' \in {With(tmp, call.key, call.plan), With(tmp, call.key, Torn(call.plan))}
    <3>1. call.plan \in Plans
      BY <2>2 DEF IInv, PlanIsBuilt, Filed
    <3>2. Torn(call.plan) \in Plans
      BY <3>1 DEF Torn, Plans
    <3> QED
      BY <2>2, <3>1, <3>2 DEF Typed, TmpTyped, With
  <2> QED
    BY <2>1, <2>2 DEF Loading, Initialize, StepFails, ComputeKey, CacheMiss, CacheHit, CacheDirty,
         BuildFromModel, OpenTmp, WriteTmp, WriteTmpFails, Publish, RenameFails,
         RenameFailsAgain, Finish, disk
<1>3. EngineTyped'
  <2>1. CASE UNCHANGED engine
    BY <1>1, <2>1 DEF EngineTyped
  <2>2. CASE Fail
    BY <1>1, <2>2, ResetIsTyped DEF Fail, EngineTyped
  <2>3. CASE Finish
    <3>1. call.plan \in Plans
      BY <2>3 DEF Finish, IInv, PlanIsBuilt, AsAsked
    <3>2. call.plan.shape \in {Shape[v] : v \in Versions}
      BY <3>1 DEF Plans
    <3> QED
      BY <1>1, <2>3, <3>1, <3>2 DEF Finish, EngineTyped, Impls
  <2> QED
    BY <2>1, <2>2, <2>3 DEF Loading, Initialize, StepFails, ComputeKey, CacheMiss, CacheHit,
         CacheDirty, BuildFromModel, OpenTmp, WriteTmp, WriteTmpFails, Publish, RenameFails,
         RenameFailsAgain, MoveTo
<1>4. faulted' \in BOOLEAN
  BY DEF Loading, Initialize, StepFails, ComputeKey, CacheMiss, CacheHit, CacheDirty,
         BuildFromModel, OpenTmp, WriteTmp, WriteTmpFails, Publish, RenameFails,
         RenameFailsAgain, Finish, history, Typed, FlagsTyped
<1> QED
  BY <1>1, <1>2, <1>3, <1>4 DEF Typed, FlagsTyped

LEMMA DetectIsTyped ==
    ASSUME IInv, Typed, NEW frame \in Frames, Detect(frame)
    PROVE  Typed'
<1> DEFINE tensor == [frame |-> frame, shape |-> engine.config.shape]
<1>1. /\ call.at = "idle" /\ UNCHANGED engines /\ engine \in Impls
      /\ \/ UNCHANGED <<disk, engine, call, reply, history>>
         \/ engine.ready /\ engine.config.backend = "TensorRT" /\ Infer(tensor)
         \/ Ort!Infer(tensor) /\ UNCHANGED <<cache, tmp, keyed, replaced>>
      /\ asked' \in {asked, frame}
  BY DEF Detect, Typed, EngineTyped
<1>2. UNCHANGED <<tmp, faulted, call>>
  BY <1>1 DEF Infer, Ort!Infer, disk, history
<1>3. engine' \in Impls
  <2>1. CASE UNCHANGED engine
    BY <1>1, <2>1
  <2>2. CASE engine' = ResetImpl(engine, TRUE)
    BY <1>1, <2>2, ResetIsTyped
  <2>3. CASE engine' = [engine EXCEPT !.input = frame]
    BY <1>1, <2>3 DEF Impls
  <2> QED
    BY <1>1, <2>1, <2>2, <2>3 DEF Infer, InferRuns, InferFails, InferThrows, Ort!Infer
<1> QED
  BY <1>1, <1>2, <1>3 DEF Typed, TmpTyped, EngineTyped, FlagsTyped

LEMMA StepsKeepTypes == IInv /\ Typed /\ [Next]_vars => Typed'
<1> SUFFICES ASSUME IInv, Typed, [Next]_vars PROVE Typed'
  OBVIOUS
<1>1. ASSUME NEW env \in Environments, Start(env) PROVE Typed'
  BY <1>1, CreateIsTyped DEF Start, Asked
<1>2. ASSUME NEW selection \in Selections, ApplySettings(selection) PROVE Typed'
  BY <1>2, CreateIsTyped DEF ApplySettings, Asked
<1>3. CASE Loading
  BY <1>3, LoadingIsTyped
<1>4. ASSUME NEW frame \in Frames, Detect(frame) PROVE Typed'
  BY <1>4, DetectIsTyped
<1>5. CASE ReplaceModel \/ UNCHANGED vars
  BY <1>5 DEF ReplaceModel, vars, Typed, TmpTyped, EngineTyped, FlagsTyped
<1>6. CASE Crash
  <2>1. /\ UNCHANGED <<tmp, engines>> /\ faulted' = FALSE /\ asked' = None
        /\ call'.at = "absent"
    BY <1>6, NoCallIsAt DEF Crash
  <2> QED
    BY <2>1 DEF Typed, TmpTyped, EngineTyped, FlagsTyped
<1> QED
  BY <1>1, <1>2, <1>3, <1>4, <1>5, <1>6 DEF Next

(* Every file of the cache directory is a plan, and the detector owns an      *)
(* engine exactly while it exists (YoloDetector, TensorRTEngine::Impl).       *)
THEOREM TypeCorrect == Spec => []TypeOK
<1>1. Init => Typed
  <2> SUFFICES ASSUME Init PROVE Typed
    OBVIOUS
  <2>1. TmpTyped
    BY DEF Init, TmpTyped
  <2>2. EngineTyped
    <3>1. call = NoCall("absent")
      BY DEF Init
    <3> QED
      BY <3>1, NoCallIsAt DEF EngineTyped
  <2>3. FlagsTyped
    <3>1. faulted \in BOOLEAN /\ asked = None
      BY DEF Init
    <3>2. engines \in 0..MaxEngines
      BY BoundIsNatural DEF Init
    <3> QED
      BY <3>1, <3>2 DEF FlagsTyped
  <2> QED
    BY <2>1, <2>2, <2>3 DEF Typed
<1>2. IInv /\ Typed => TypeOK
  <2> SUFFICES ASSUME IInv, Typed PROVE TypeOK
    OBVIOUS
  <2>1. model \in Versions \cup {Missing}
    BY DEF IInv, ModelIsFile
  <2>2. \A key \in DOMAIN cache : cache[key] \in Plans
    BY DEF IInv, CacheIsFiled, Filed
  <2>3. /\ call.at \in Steps \cup {"absent", "idle"}
        /\ engine \in IF call.at = "absent" THEN {None} ELSE Impls
    BY DEF IInv, EngineLoads, Typed, EngineTyped
  <2>4. call.at \in {"writing", "renaming", "renaming again"} =>
          call.key \in DOMAIN tmp /\ call.plan \in Plans
    BY DEF IInv, PlanIsBuilt, Filed
  <2> QED
    BY <2>1, <2>2, <2>3, <2>4 DEF TypeOK, Typed, TmpTyped, FlagsTyped
<1> QED
  BY <1>1, <1>2, Invariance, StepsKeepTypes, PTL DEF Spec
------------------------------------------------------------------------------
(* What the port needs to know besides: the configuration is one that was     *)
(* asked for, and a load shows neither an answer nor an error before its end, *)
(* and was given no frame.                                                    *)
EngineIsNew == /\ call.at # "absent" => engine.config \in Asked
               /\ call.at \in Steps => ~reply.ok /\ engine.error = FALSE /\ asked = None

PortStutters == UNCHANGED <<engines, PortPhase, PortLoaded, PortFailed, asked, PortReply>>
PortStep == Port!Next \/ PortStutters

(* A new engine starts to load, or is loaded or refused at once.              *)
LEMMA CreateMapped ==
    ASSUME NEW selection, CreateDetector(selection), ModelConfig(selection) \in Asked,
           call.at \in {"absent", "idle"}
    PROVE  PortStep /\ EngineIsNew'
<1> DEFINE config == ModelConfig(selection)
<1>1. engines' = engines + 1 /\ CreateEngine(config) /\ asked' = None
  BY DEF CreateDetector
<1>2. PortPhase # "loading"
  BY DEF PortPhase
<1> HIDE DEF config
<1>3. reply' = Failed
  BY <1>1 DEF CreateEngine, Ort!InitializeCpu, Ort!InitializeCuda, Ort!Load, Ort!Failed, Begin,
              Unavailable, Failed
<1>4. ~reply'.ok /\ PortReply' = Failed
  BY <1>3 DEF Failed, PortReply
<1>5. CASE call' = NoCall("keying") /\ engine' = NewImpl(config)
  <2>1. /\ PortPhase' = "loading" /\ PortLoaded' = None /\ PortFailed' = FALSE
        /\ engine'.config = config /\ engine'.error = FALSE
    BY <1>5 DEF NoCall, NewImpl, PortPhase, PortLoaded, PortFailed
  <2>2. Port!Create
    BY <1>1, <1>4, <2>1 DEF Port!Create, Port!NoAnswer, Port!Failed, Failed
  <2> QED
    BY <1>1, <1>4, <2>1, <2>2 DEF PortStep, Port!Next, EngineIsNew, config
<1>6. CASE /\ call'.at = "idle" /\ engine'.config = config
           /\ engine'.ready = FALSE /\ engine'.error = TRUE
  <2>1. PortPhase' = "idle" /\ PortLoaded' = None /\ PortFailed' = TRUE
    BY <1>6 DEF PortPhase, PortLoaded, PortFailed
  <2>2. Port!Refuse
    BY <1>1, <1>2, <1>4, <2>1 DEF Port!Refuse, Port!Settle, Port!NoAnswer, Port!Failed, Failed
  <2> QED
    BY <1>6, <2>2 DEF PortStep, Port!Next, EngineIsNew, config
<1>7. CASE /\ call'.at = "idle" /\ engine'.config = config
           /\ engine'.ready = TRUE /\ engine'.error = FALSE
  <2>1. PortPhase' = "idle" /\ PortLoaded' = config /\ PortFailed' = FALSE
    BY <1>7 DEF PortPhase, PortLoaded, PortFailed
  <2>2. Port!Load(config)
    BY <1>1, <1>2, <1>4, <2>1 DEF Port!Load, Port!Settle, Port!NoAnswer, Port!Failed, Failed
  <2> QED
    BY <1>7, <2>2 DEF PortStep, Port!Next, EngineIsNew, config
<1>8. CASE Begin(config) \/ Unavailable(config)
  <2>1. \/ call' = NoCall("keying") /\ engine' = NewImpl(config)
        \/ call' = NoCall("idle") /\ engine' = ResetImpl(NewImpl(config), TRUE)
    BY <1>8 DEF Begin, Unavailable
  <2>2. CASE call' = NoCall("idle") /\ engine' = ResetImpl(NewImpl(config), TRUE)
    <3>1. /\ call'.at = "idle" /\ engine'.config = config
          /\ engine'.ready = FALSE /\ engine'.error = TRUE
      BY <2>2 DEF ResetImpl, NewImpl, NoCall
    <3> QED
      BY <1>6, <3>1
  <2> QED
    BY <1>5, <2>1, <2>2
<1>9. ASSUME NEW refused, Ort!Load(config, refused)
      PROVE  PortStep /\ EngineIsNew'
  BY <1>6, <1>7, <1>9 DEF Ort!Load, Ort!ReadyImpl, Ort!ResetImpl, Ort!NewImpl
<1> QED
  BY <1>1, <1>8, <1>9 DEF CreateEngine, Ort!InitializeCpu, Ort!InitializeCuda

(* A load is silent until it ends, ready or refused.                          *)
LEMMA LoadingMapped ==
    ASSUME IInv, EngineIsNew, Loading
    PROVE  PortStep /\ EngineIsNew'
<1>1. UNCHANGED <<asked, engines>>
  BY DEF Loading
<1>2. /\ call.at \in Steps /\ call.at # "absent" /\ IsImpl(engine) /\ ~engine.ready
      /\ IsCall(call)
  BY DEF Loading, Initialize, StepFails, ComputeKey, CacheMiss, CacheHit, CacheDirty, BuildFromModel,
         OpenTmp, WriteTmp, WriteTmpFails, Publish, RenameFails, RenameFailsAgain, Finish,
         IInv, EngineLoads
<1>3. /\ PortPhase = "loading" /\ PortLoaded = None /\ PortFailed = FALSE /\ PortReply = Failed
      /\ ~reply.ok /\ engine.config \in Asked /\ asked = None
  BY <1>2 DEF EngineIsNew, PortPhase, PortLoaded, PortFailed, PortReply
<1>4. CASE Fail
  <2>1. /\ call'.at = "idle" /\ engine'.ready = FALSE /\ engine'.error = TRUE
        /\ engine'.config = engine.config /\ reply' = reply
    BY <1>4 DEF Fail, NoCall, ResetImpl, NewImpl
  <2>2. PortPhase' = "idle" /\ PortLoaded' = None /\ PortFailed' = TRUE /\ PortReply' = Failed
    BY <1>3, <2>1 DEF PortPhase, PortLoaded, PortFailed, PortReply
  <2>3. Port!Refuse
    BY <1>1, <1>3, <2>2 DEF Port!Refuse, Port!Settle, Port!NoAnswer, Port!Failed, Failed
  <2> QED
    BY <1>3, <2>1, <2>3 DEF PortStep, Port!Next, EngineIsNew
<1>5. CASE Finish
  <2>1. /\ call'.at = "idle" /\ engine'.ready = TRUE /\ engine'.error = FALSE
        /\ engine'.config = engine.config /\ reply' = reply
    BY <1>2, <1>5 DEF Finish, NoCall, IsImpl
  <2>2. PortPhase' = "idle" /\ PortLoaded' = engine.config /\ PortFailed' = FALSE /\ PortReply' = Failed
    BY <1>3, <2>1 DEF PortPhase, PortLoaded, PortFailed, PortReply
  <2>3. Port!Load(engine.config)
    BY <1>1, <1>3, <2>2 DEF Port!Load, Port!Settle, Port!NoAnswer, Port!Failed, Failed
  <2> QED
    BY <1>3, <2>1, <2>3 DEF PortStep, Port!Next, EngineIsNew
<1>6. CASE UNCHANGED <<engine, reply>> /\ call'.at \in Steps
  <2>1. PortPhase' = "loading" /\ PortLoaded' = None /\ PortFailed' = FALSE /\ PortReply' = Failed
    BY <1>2, <1>3, <1>6 DEF PortPhase, PortLoaded, PortFailed, PortReply, EngineIsNew
  <2>2. PortStutters
    BY <1>1, <1>3, <2>1 DEF PortStutters
  <2>3. EngineIsNew'
    BY <1>1, <1>2, <1>3, <1>6 DEF EngineIsNew
  <2> QED
    BY <2>2, <2>3 DEF PortStep
<1>7. Fail \/ Finish \/ (UNCHANGED <<engine, reply>> /\ call'.at \in Steps)
  <2>1. CASE StepFails \/ WriteTmpFails \/ RenameFailsAgain
    BY <2>1 DEF StepFails, WriteTmpFails, RenameFailsAgain
  <2>2. CASE ComputeKey \/ BuildFromModel
    <3>1. \/ Fail
          \/ /\ UNCHANGED <<engine, reply>>
             /\ \/ call' = [call EXCEPT !.at = "lookup", !.key = keyed']
                \/ call' = [call EXCEPT !.at = "persisting", !.plan = Plan(engine.config, model)]
      BY <2>2 DEF ComputeKey, BuildFromModel
    <3> QED
      BY <1>2, <3>1 DEF IsCall
  <2>3. CASE CacheHit
    BY <1>2, <2>3 DEF CacheHit, IsCall
  <2>4. CASE CacheMiss \/ CacheDirty \/ OpenTmp \/ WriteTmp \/ Publish \/ RenameFails
    BY <1>2, <2>4 DEF CacheMiss, CacheDirty, OpenTmp, WriteTmp, Publish, RenameFails, MoveTo, IsCall
  <2> QED
    BY <2>1, <2>2, <2>3, <2>4 DEF Loading, Initialize
<1> QED
  BY <1>4, <1>5, <1>6, <1>7

(* What detect has of an engine is an answer to its own frame, or a failure.  *)
LEMMA DetectMapped ==
    ASSUME IInv, EngineIsNew, NEW frame \in Frames, Detect(frame)
    PROVE  PortStep /\ EngineIsNew'
<1> DEFINE tensor == [frame |-> frame, shape |-> engine.config.shape]
<1>1. /\ call.at = "idle" /\ UNCHANGED engines
      /\ \/ UNCHANGED <<disk, engine, call, reply, history, asked>>
         \/ engine.ready /\ asked' = frame /\ Infer(tensor)
         \/ engine.ready /\ asked' = frame /\ Ort!Infer(tensor)
  BY DEF Detect
<1>2. IsImpl(engine) /\ engine.config \in Asked /\ engine.config # None
  BY <1>1, NoneIsNotAsked DEF IInv, EngineLoads, EngineIsNew
<1>3. UNCHANGED call
  BY <1>1 DEF Infer, Ort!Infer
<1>4. PortPhase = "idle" /\ PortPhase' = "idle"
  BY <1>1, <1>3 DEF PortPhase
<1>5. CASE UNCHANGED <<engine, call, reply, asked>>
  BY <1>1, <1>5 DEF PortStep, PortStutters, PortPhase, PortLoaded, PortFailed, PortReply, EngineIsNew
<1>6. CASE /\ engine.ready /\ asked' = frame
           /\ engine'.config = engine.config /\ engine'.ready = engine.ready
           /\ engine'.error = engine.error /\ engine'.plan = engine.plan
           /\ reply' = [ok |-> TRUE, outputs |-> [of |-> frame, by |-> engine.plan]]
  <2>1. /\ PortLoaded = engine.config /\ PortLoaded' = engine.config /\ PortFailed' = PortFailed
        /\ PortReply' = [ok |-> TRUE, of |-> frame, by |-> engine.config]
    BY <1>1, <1>3, <1>6 DEF PortLoaded, PortFailed, PortReply
  <2>2. Port!Infer(frame)
    BY <1>1, <1>2, <1>4, <1>6, <2>1 DEF Port!Infer, Port!Answer
  <2> QED
    BY <1>1, <1>2, <1>3, <1>6, <2>2 DEF PortStep, Port!Next, EngineIsNew
<1>7. CASE /\ asked' = frame
           /\ engine'.config = engine.config /\ engine'.ready = engine.ready
           /\ engine'.error = engine.error /\ reply' = Failed
  <2>1. PortLoaded' = PortLoaded /\ PortFailed' = PortFailed /\ PortReply' = Failed
    BY <1>1, <1>3, <1>7 DEF PortLoaded, PortFailed, PortReply, Failed
  <2>2. Port!Infer(frame)
    BY <1>1, <1>4, <1>7, <2>1 DEF Port!Infer, Port!Decline, Port!Failed, Failed
  <2> QED
    BY <1>1, <1>2, <1>3, <1>7, <2>2 DEF PortStep, Port!Next, EngineIsNew
<1>8. CASE engine.ready /\ asked' = frame /\ engine' = ResetImpl(engine, TRUE) /\ reply' = Failed
  <2>1. engine'.config = engine.config /\ engine'.ready = FALSE /\ engine'.error = TRUE
    BY <1>8 DEF ResetImpl, NewImpl
  <2>2. /\ PortLoaded = engine.config /\ PortLoaded' = None /\ PortFailed' = TRUE
        /\ PortReply' = Failed
    BY <1>1, <1>3, <1>8, <2>1 DEF PortLoaded, PortFailed, PortReply, Failed
  <2>3. Port!Infer(frame)
    BY <1>1, <1>2, <1>4, <1>8, <2>2 DEF Port!Infer, Port!Break, Port!Failed, Failed
  <2> QED
    BY <1>1, <1>2, <1>3, <2>1, <2>3 DEF PortStep, Port!Next, EngineIsNew
<1>9. CASE engine.ready /\ asked' = frame /\ Infer(tensor)
  <2>1. CASE InferRuns(frame)
    <3>1. /\ engine'.config = engine.config /\ engine'.ready = engine.ready
          /\ engine'.error = engine.error /\ engine'.plan = engine.plan
          /\ reply' = [ok |-> TRUE, outputs |-> [of |-> frame, by |-> engine.plan]]
      BY <1>2, <2>1 DEF InferRuns, Outputs, IsImpl
    <3> QED
      BY <1>6, <1>9, <3>1
  <2>2. CASE InferFails(frame)
    <3>1. /\ engine'.config = engine.config /\ engine'.ready = engine.ready
          /\ engine'.error = engine.error /\ reply' = Failed
      BY <1>2, <2>2 DEF InferFails, IsImpl
    <3> QED
      BY <1>7, <1>9, <3>1
  <2>3. CASE InferThrows
    BY <1>8, <1>9, <2>3 DEF InferThrows
  <2>4. CASE reply' = Failed /\ UNCHANGED engine
    BY <1>7, <1>9, <2>4
  <2> QED
    BY <1>9, <2>1, <2>2, <2>3, <2>4 DEF Infer
<1>10. CASE engine.ready /\ asked' = frame /\ Ort!Infer(tensor)
  <2>1. /\ UNCHANGED engine
        /\ \/ reply' = [ok |-> TRUE, outputs |-> [of |-> frame, by |-> engine.plan]]
           \/ reply' = Failed
    BY <1>10 DEF Ort!Infer, Ort!Failed, Failed
  <2> QED
    BY <1>6, <1>7, <1>10, <2>1
<1> QED
  BY <1>1, <1>5, <1>9, <1>10

LEMMA StepsMapped ==
    ASSUME IInv, EngineIsNew, [Next]_vars
    PROVE  PortStep /\ EngineIsNew'
<1>1. ASSUME NEW env \in Environments, Start(env)
      PROVE  PortStep /\ EngineIsNew'
  BY <1>1, CreateMapped DEF Start, Asked
<1>2. ASSUME NEW selection \in Selections, ApplySettings(selection)
      PROVE  PortStep /\ EngineIsNew'
  BY <1>2, CreateMapped DEF ApplySettings, Asked
<1>3. CASE Loading
  BY <1>3, LoadingMapped
<1>4. ASSUME NEW frame \in Frames, Detect(frame)
      PROVE  PortStep /\ EngineIsNew'
  BY <1>4, DetectMapped
<1>5. CASE UNCHANGED <<engine, call, reply, asked, engines>>
  BY <1>5 DEF PortStep, PortStutters, PortPhase, PortLoaded, PortFailed, PortReply, EngineIsNew
<1>6. CASE Crash
  <2>1. /\ UNCHANGED engines /\ call' = NoCall("absent")
        /\ reply' = Failed /\ asked' = None
    BY <1>6 DEF Crash
  <2>2. call'.at = "absent" /\ ~reply'.ok
    BY <2>1 DEF NoCall, Failed
  <2>3. PortPhase' = "absent" /\ PortLoaded' = None /\ PortFailed' = FALSE /\ PortReply' = Failed
    BY <2>2 DEF PortPhase, PortLoaded, PortFailed, PortReply
  <2>4. Port!Die
    BY <2>1, <2>3 DEF Port!Die, Port!NoAnswer, Port!Failed, Failed
  <2> QED
    BY <2>2, <2>4 DEF PortStep, Port!Next, EngineIsNew
<1> QED
  BY <1>1, <1>2, <1>3, <1>4, <1>5, <1>6 DEF Next, ReplaceModel, vars

(* An engine of any backend, loaded from whatever cache and whatever fails,   *)
(* behaves as IInferenceEngine says (initialize and infer of the engines,     *)
(* YoloDetector::detect): an unready one says why and stays so, an answer is  *)
(* that of its own frame.                                                     *)
THEOREM EnginesKeepTheirPort == Spec => ImplementsPort
<1>1. Init => Port!Init /\ EngineIsNew
  <2> SUFFICES ASSUME Init PROVE Port!Init /\ EngineIsNew
    OBVIOUS
  <2>1. call.at = "absent" /\ ~reply.ok /\ engines = 0 /\ asked = None
    BY DEF Init, NoCall, Failed
  <2>2. /\ PortPhase = "absent" /\ PortLoaded = None /\ PortFailed = FALSE /\ PortReply = Failed
    BY <2>1 DEF PortPhase, PortLoaded, PortFailed, PortReply
  <2> QED
    BY <2>1, <2>2 DEF Port!Init, Port!Failed, Failed, EngineIsNew
<1>2. IInv /\ EngineIsNew /\ [Next]_vars => [Port!Next]_Port!portVars /\ EngineIsNew'
  BY StepsMapped DEF PortStep, PortStutters, Port!portVars
<1> QED
  BY <1>1, <1>2, Invariance, PTL DEF Spec, ImplementsPort, Port!Spec
==============================================================================
