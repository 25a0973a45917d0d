----------------------------- MODULE StatsProbe -----------------------------
(***************************************************************************)
(* The latencies StatsProbe keeps, one window for each stage of the        *)
(* inference thread, all under one lock.  Its counters belong to the two   *)
(* workers and are in module VisionPipeline.                               *)
(***************************************************************************)
LOCAL INSTANCE Integers
Window == INSTANCE LatencyWindow

Stages == {"inference", "tracking", "rules"}
NewProbe == [stage \in Stages |-> Window!NewWindow]

OnInferred(probe, capacity, ms) ==
    [probe EXCEPT !["inference"] = Window!Record(@, capacity, ms)]
OnTracked(probe, capacity, ms) ==
    [probe EXCEPT !["tracking"] = Window!Record(@, capacity, ms)]
OnRuled(probe, capacity, ms) ==
    [probe EXCEPT !["rules"] = Window!Record(@, capacity, ms)]
ResetProbe(probe) == [stage \in Stages |-> Window!Reset(probe[stage])]

Snapshot(probe) ==
    [avgInference |-> Window!Mean(probe["inference"]),
     p50Inference |-> Window!Percentile(probe["inference"], 50),
     p95Inference |-> Window!Percentile(probe["inference"], 95),
     avgTracking |-> Window!Mean(probe["tracking"]),
     avgRules |-> Window!Mean(probe["rules"])]
==============================================================================
