--------------------------- MODULE MCVisionPipeline ---------------------------
(* Small instances of VisionPipeline for TLC.  The names of the controllers  *)
(* and of the detection modes are interchangeable.                           *)
EXTENDS VisionPipeline, TLC

MCSymmetry == Permutations(Controllers) \cup Permutations(Modes)
===============================================================================
