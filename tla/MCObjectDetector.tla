--------------------------- MODULE MCObjectDetector ---------------------------
EXTENDS ObjectDetector

\* A model, another one of the same shape, and one of another shape whose
\* outputs are neither all of float32 nor all lists of rows, with the size and
\* the time of the first.
MCShape == <<"320x320", "320x320", "416x416">>
MCStamp == <<1, 2, 1>>
\* Two GPUs; TensorRT has no fast Fp16 on the second.
MCGpu == [device \in {0, 1} |-> IF device = 0 THEN "gpu0" ELSE "gpu1"]
MCSlug == [gpu \in {"gpu0", "gpu1"} |-> gpu]
MCConfig(backend, precision, device) ==
    [backend |-> backend, precision |-> precision, device |-> device, shape |-> "320x320"]
MCConfigs == {MCConfig("TensorRT", "Fp32", 0), MCConfig("TensorRT", "Fp16", 0),
              MCConfig("TensorRT", "Fp32", 1), MCConfig("OnnxRuntimeCpu", "Fp32", 0)}
\* No environment, one that asks for TensorRT, and one with nonsense in it.
MCEnvironments == {[backend |-> "unset", precision |-> "unset", device |-> 0],
                   [backend |-> "trt", precision |-> "fp16", device |-> 1],
                   [backend |-> "onnx-cuda", precision |-> "int8", device |-> 7]}
==============================================================================
