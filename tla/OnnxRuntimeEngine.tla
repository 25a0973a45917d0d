-------------------------- MODULE OnnxRuntimeEngine --------------------------
(***************************************************************************)
(* OnnxRuntimeEngine and OnnxRuntimeCudaEngine, the two backends that hand *)
(* the model file to ONNX Runtime.  They differ in the backend they accept *)
(* and in the device.  Nothing is written to disk and nothing outlives a   *)
(* call on a device, so that initialize and infer are one step each.       *)
(*                                                                         *)
(* Unlike TensorRTEngine they take the input shape from the model, whatever*)
(* shape the configuration names, they accept outputs of any type and only *)
(* refuse them when they come, and an exception of infer leaves them ready.*)
(***************************************************************************)
CONSTANTS Shape, Devices, Unparsable, FloatOutputs, None

VARIABLES model, engine, call, reply, seen, faulted

Missing == 0

RefusesCpu(config) == \/ config.backend # "OnnxRuntimeCpu"
                      \/ config.precision # "Fp32"
                      \/ model = Missing
RefusesCuda(config) == \/ config.backend # "OnnxRuntimeCuda"
                       \/ config.precision # "Fp32"
                       \/ model = Missing

NewImpl(config) == [config |-> config, ready |-> FALSE, error |-> FALSE,
                    plan |-> None, shape |-> None, input |-> None]
ResetImpl(config) == [NewImpl(config) EXCEPT !.error = TRUE]
ReadyImpl(config) ==
    [NewImpl(config) EXCEPT !.ready = TRUE, !.shape = Shape[model],
        !.plan = [version |-> model, precision |-> "Fp32", shape |-> Shape[model]]]
Failed == [ok |-> FALSE]

\* The constructor of the session, or a question about the model, may throw.
Load(config, refused) ==
    /\ LET loadable == ~refused /\ Shape[model] # Unparsable
       IN  \/ loadable /\ engine' = ReadyImpl(config) /\ faulted' = FALSE
           \/ loadable /\ engine' = ResetImpl(config) /\ faulted' = TRUE
           \/ ~loadable /\ engine' = ResetImpl(config) /\ faulted' = FALSE
    /\ call' = [at |-> "idle", key |-> None, plan |-> None]
    /\ reply' = Failed
    /\ seen' = {model}
    /\ UNCHANGED model

InitializeCpu(config) == Load(config, RefusesCpu(config))
\* A device that does not exist makes the CUDA provider throw.
InitializeCuda(config) ==
    Load(config, RefusesCuda(config) \/ config.device \notin Devices)
------------------------------------------------------------------------------
\* infer, of either engine: an output of another type than float32 or an
\* Ort::Exception is an error of the call, and leaves the engine as it is.
Infer(tensor) ==
    /\ call.at = "idle"
    /\ \/ /\ engine.ready /\ tensor.shape = engine.shape
          /\ engine.plan.version \in FloatOutputs
          /\ reply' = [ok |-> TRUE, outputs |-> [of |-> tensor.frame, by |-> engine.plan]]
       \/ reply' = Failed
    /\ UNCHANGED <<model, engine, call, seen, faulted>>
==============================================================================
