---------------------------- MODULE TensorRTEngine ----------------------------
(***************************************************************************)
(* TensorRTEngine: initialize loads a plan from the cache directory beside *)
(* the model, or builds one from the model and writes it there through a   *)
(* temporary file; infer copies the input to the device, runs the plan and *)
(* copies the outputs back.                                                *)
(*                                                                         *)
(* initialize takes seconds and touches files other programs touch too, so *)
(* it is a sequence of steps between which the model may be replaced and   *)
(* the process may die.  infer is confined to one thread and shares        *)
(* nothing: it is one step, with the call that failed as an alternative.   *)
(* TensorRT, CUDA and the file system are external: each of their calls    *)
(* may fail, which `faulted' remembers.                                    *)
(***************************************************************************)
EXTENDS Naturals

CONSTANTS Versions,  \* contents the model file has over time
          Shape,     \* the input shape of each version, or Unparsable
          FloatOutputs, \* the versions whose outputs are all of float32
          Stamp,     \* size and modification time of each version
          Gpu,       \* the name of the GPU at each device id
          Slug,      \* what a file name makes of the name of each GPU
          AnyGpu,    \* "gpu", the slug of a GPU whose name is not known
          FastFp16,  \* the GPUs with platformHasFastFp16
          Configs,   \* the ModelConfigs asked for
          Frames,    \* the images given to infer
          Unparsable, None

Missing == 0
ASSUME MissingIsNoVersion == Missing \notin Versions

VARIABLES model,   \* the version of the model file, 0 when there is none
          cache,   \* .trt-cache/: the plan of each *.engine file, by its key
          tmp,     \* .trt-cache/: the plan of each *.engine.tmp file
          engine,  \* the engine's Impl
          call,    \* the initialize in progress
          reply,   \* the InferResult of the last call of infer, at first an empty one
          seen,    \* versions the model file had while the engine was loaded
          faulted, \* a call outside this code failed while it was loaded
          keyed,   \* the key of the plan of the engine, None before it is known
          replaced \* the keys of loads whose model was replaced before it was built

disk == <<model, cache, tmp>>
history == <<seen, faulted, keyed, replaced>>

Steps == {"keying", "lookup", "building", "persisting", "writing", "renaming",
          "renaming again", "finishing"}
\* The cache knows a model by its size and modification time and a GPU by its
\* slug: two models or two GPUs may share a key.
Key(config, version, slug) ==
    [stamp |-> Stamp[version], gpu |-> slug,
     precision |-> config.precision, shape |-> config.shape]
Plan(config, version) ==
    [version |-> version, gpu |-> Gpu[config.device],
     precision |-> config.precision, shape |-> Shape[version], whole |-> TRUE]
Torn(plan) == [plan EXCEPT !.whole = FALSE]
With(files, key, plan) == [k \in DOMAIN files \cup {key} |-> IF k = key THEN plan ELSE files[k]]
Without(files, key) == [k \in DOMAIN files \ {key} |-> files[k]]

\* Impl of an engine that was just constructed, before and after a failure.
NewImpl(config) == [config |-> config, ready |-> FALSE, error |-> FALSE,
                    plan |-> None, shape |-> None, input |-> None]
ResetImpl(impl, error) == [NewImpl(impl.config) EXCEPT !.error = error]
NoCall(at) == [at |-> at, key |-> None, plan |-> None]
Failed == [ok |-> FALSE]

\* fail, and the handler of initialize: everything is reset, the error stays.
Fail == /\ engine' = ResetImpl(engine, TRUE)
        /\ call' = NoCall("idle")
        /\ UNCHANGED reply
MoveTo(at) == /\ call' = [call EXCEPT !.at = at]
              /\ UNCHANGED <<engine, reply>>

\* initialize, up to the selection of the device.
Refuses(config) == \/ config.backend # "TensorRT"
                   \/ config.precision \notin {"Fp32", "Fp16"}
                   \/ model = Missing
                   \/ config.device \notin DOMAIN Gpu
Begin(config) ==
    /\ IF Refuses(config)
         THEN engine' = ResetImpl(NewImpl(config), TRUE) /\ call' = NoCall("idle")
         ELSE engine' = NewImpl(config) /\ call' = NoCall("keying")
    /\ reply' = Failed
    /\ seen' = {model} /\ faulted' = FALSE /\ keyed' = None
    /\ UNCHANGED <<disk, replaced>>

\* Any other call of initialize into CUDA, TensorRT or the file system may
\* fail or throw; nothing was written yet, or all of it is published.
StepFails == /\ call.at \in {"keying", "building", "persisting", "finishing"}
             /\ Fail
             /\ faulted' = TRUE
             /\ UNCHANGED <<disk, seen, keyed, replaced>>

LacksFp16 == /\ engine.config.precision = "Fp16"
             /\ Gpu[engine.config.device] \notin FastFp16

\* gpuSlug: a GPU whose properties cannot be queried gets the slug of all such.
GpuSlugs(device) == {Slug[Gpu[device]], AnyGpu}

\* mutant: the name of the cache file leaves out the precision
KeyForAnyPrecision ==
    /\ call.at = "keying"
    /\ IF model = Missing \/ LacksFp16
         THEN Fail /\ UNCHANGED keyed
         ELSE \E slug \in GpuSlugs(engine.config.device) :
                /\ keyed' = [Key(engine.config, model, slug) EXCEPT !.precision = "Fp32"]
                /\ call' = [call EXCEPT !.at = "lookup", !.key = keyed']
                /\ UNCHANGED <<engine, reply>>
    /\ UNCHANGED <<disk, seen, faulted, replaced>>
\* cacheFilePath looks at the model file; a missing one makes file_size throw.
ComputeKey ==
    /\ call.at = "keying"
    /\ IF model = Missing \/ LacksFp16
         THEN Fail /\ UNCHANGED keyed
         ELSE \E slug \in GpuSlugs(engine.config.device) :
                /\ keyed' = Key(engine.config, model, slug)
                /\ call' = [call EXCEPT !.at = "lookup", !.key = keyed']
                /\ UNCHANGED <<engine, reply>>
    /\ UNCHANGED <<disk, seen, faulted, replaced>>

\* deserializeCudaEngine refuses a truncated plan, readEngineIo a foreign shape.
Accepts(plan) == plan.whole /\ plan.shape = engine.config.shape
\* TensorRT may refuse a plan of another GPU, or run it.
Foreign(plan) == plan.gpu # Gpu[engine.config.device]
CacheMiss == /\ call.at = "lookup"
             /\ call.key \notin DOMAIN cache
             /\ MoveTo("building")
             /\ UNCHANGED <<disk, history>>
CacheHit == /\ call.at = "lookup"
            /\ call.key \in DOMAIN cache
            /\ Accepts(cache[call.key])
            /\ call' = [call EXCEPT !.at = "finishing", !.plan = cache[call.key]]
            /\ UNCHANGED <<engine, reply, disk, history>>
\* mutant: a plan that cannot be loaded ends initialize
CacheDirtyFails ==
    /\ call.at = "lookup"
    /\ call.key \in DOMAIN cache
    /\ \/ ~Accepts(cache[call.key]) /\ UNCHANGED faulted
       \/ faulted' = TRUE
    /\ Fail
    /\ UNCHANGED <<disk, seen, keyed, replaced>>
\* A plan that cannot be loaded, or for once not be read, is deleted; nobody
\* asks whether the deletion worked.
CacheDirty ==
    /\ call.at = "lookup"
    /\ call.key \in DOMAIN cache
    /\ \/ (~Accepts(cache[call.key]) \/ Foreign(cache[call.key])) /\ UNCHANGED faulted
       \/ faulted' = TRUE
    /\ cache' \in {Without(cache, call.key), cache}
    /\ MoveTo("building")
    /\ UNCHANGED <<model, tmp, seen, keyed, replaced>>

\* What the parser and the inspection of the network let pass.
Buildable(version, config) == Shape[version] = config.shape /\ version \in FloatOutputs
\* The model is read now, perhaps another one than the key was computed for.
BuildFromModel ==
    /\ call.at = "building"
    /\ IF model # Missing /\ Buildable(model, engine.config)
         THEN /\ call' = [call EXCEPT !.at = "persisting", !.plan = Plan(engine.config, model)]
              /\ UNCHANGED <<engine, reply>>
         ELSE Fail
    /\ UNCHANGED <<disk, history>>

OpenTmp == /\ call.at = "persisting"
           /\ tmp' = With(tmp, call.key, Torn(call.plan))
           /\ MoveTo("writing")
           /\ UNCHANGED <<model, cache, history>>
\* The last buffer is written by the destructor of the stream, after the test
\* of the stream: when that fails nobody notices.
WriteTmp == /\ call.at = "writing"
            /\ \/ tmp' = With(tmp, call.key, call.plan) /\ UNCHANGED faulted
               \/ tmp' = tmp /\ faulted' = TRUE
            /\ MoveTo("renaming")
            /\ UNCHANGED <<model, cache, seen, keyed, replaced>>
\* mutant: the write error is reported and the file renamed nevertheless
WriteErrorGoesOn == /\ call.at = "writing"
                    /\ tmp' = Without(tmp, call.key)
                    /\ MoveTo("renaming")
                    /\ faulted' = TRUE
                    /\ UNCHANGED <<model, cache, seen, keyed, replaced>>
\* Nobody asks whether the temporary file could be deleted.
WriteTmpFails == /\ call.at = "writing"
                 /\ tmp' \in {Without(tmp, call.key), tmp}
                 /\ Fail
                 /\ faulted' = TRUE
                 /\ UNCHANGED <<model, cache, seen, keyed, replaced>>

Publish == /\ call.at \in {"renaming", "renaming again"}
           /\ cache' = With(cache, call.key, tmp[call.key])
           /\ tmp' = Without(tmp, call.key)
           /\ MoveTo("finishing")
           /\ UNCHANGED <<model, history>>
RenameFails == /\ call.at = "renaming"
               /\ cache' \in {Without(cache, call.key), cache}
               /\ MoveTo("renaming again")
               /\ faulted' = TRUE
               /\ UNCHANGED <<model, tmp, seen, keyed, replaced>>
RenameFailsAgain == /\ call.at = "renaming again"
                    /\ tmp' \in {Without(tmp, call.key), tmp}
                    /\ Fail
                    /\ faulted' = TRUE
                    /\ UNCHANGED <<model, cache, seen, keyed, replaced>>

\* The plan in memory becomes an execution context with its buffers.
Finish == /\ call.at = "finishing"
          /\ engine' = [engine EXCEPT !.ready = TRUE, !.error = FALSE,
                                      !.plan = call.plan, !.shape = call.plan.shape]
          /\ call' = NoCall("idle")
          /\ UNCHANGED <<reply, disk, history>>

Initialize == \/ StepFails \/ ComputeKey \/ CacheMiss \/ CacheHit \/ CacheDirty
              \/ BuildFromModel \/ OpenTmp \/ WriteTmp \/ WriteTmpFails
              \/ Publish \/ RenameFails \/ RenameFailsAgain \/ Finish
------------------------------------------------------------------------------
Outputs(frame) == [of |-> frame, by |-> engine.plan]

\* infer.  The input buffer of the device outlives the call, so what an earlier
\* call left in it is still there when a later call fails half way; the outputs
\* are written before they are read.
\* mutant: a failed copy to the device is not looked at
InferRunsAnyway(frame) ==
    \E input \in {frame, engine.input} \ {None} :
        /\ engine' = [engine EXCEPT !.input = input]
        /\ reply' = [ok |-> TRUE, outputs |-> Outputs(input)]
InferRuns(frame) ==
    /\ engine' = [engine EXCEPT !.input = frame]
    /\ reply' = [ok |-> TRUE, outputs |-> Outputs(frame)]
InferFails(frame) ==
    /\ engine' \in {engine,                           \* no copy to the device
                    [engine EXCEPT !.input = frame]}  \* not run, or not copied back
    /\ reply' = Failed
InferThrows == /\ engine' = ResetImpl(engine, TRUE)
               /\ reply' = Failed

Infer(tensor) ==
    /\ call.at = "idle"
    /\ IF engine.ready /\ tensor.shape = engine.shape
         THEN InferRuns(tensor.frame) \/ InferFails(tensor.frame) \/ InferThrows
         ELSE reply' = Failed /\ UNCHANGED engine
    /\ UNCHANGED <<disk, call, history>>
==============================================================================
