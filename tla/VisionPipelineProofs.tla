------------------------- MODULE VisionPipelineProofs -------------------------
(***************************************************************************)
(* Proofs about VisionPipeline for any controllers, modes, capacity and    *)
(* bounds.  The inductive invariant IInv joins the type invariant with     *)
(* what each phase of start and stop leaves behind (Phases), with the      *)
(* counters at each place of the capture loop (Counted), and with where    *)
(* the frames are (Ordered).                                               *)
(***************************************************************************)
EXTENDS VisionPipeline, TLAPS

CaptureWorks == cap.at \notin {"none", "done"}
InferenceWorks == inf.at \notin {"none", "done"}

\* Nobody is inside start or stop but the holder of m_lifecycle.
Owned == \A c \in Controllers : ctl[c] # "idle" <=> lifecycle = c

\* The pipeline between two calls.
Started == /\ running /\ CaptureWorks /\ InferenceWorks
           /\ queue.is = "open" /\ source.present /\ source.open
           /\ ~stop.capture /\ ~stop.inference
Stopped == /\ ~running /\ cap.at = "none" /\ inf.at = "none"
           /\ queue.is = "absent" /\ ~source.open

\* The pipeline while start launches the threads.
Launching == /\ ~running /\ CaptureWorks /\ inf.at = "none" /\ queue.is = "open"
             /\ source.present /\ source.open /\ ~stop.capture
Launched == /\ ~running /\ CaptureWorks /\ InferenceWorks /\ queue.is = "open"
            /\ source.present /\ source.open /\ ~stop.capture /\ ~stop.inference

\* The pipeline while joinWorkers runs: nothing to stop, or both threads there.
NoWorkers == cap.at = "none" /\ inf.at = "none" /\ queue.is = "absent"
BothWorkers(state) == cap.at # "none" /\ inf.at # "none" /\ queue.is = state
InferenceAlone == \/ cap.at = "none" /\ inf.at = "none" /\ queue.is = "absent"
                  \/ cap.at = "none" /\ inf.at # "none" /\ queue.is = "closed"

PhaseOf(place) ==
    /\ place \in {"start", "stop"} => Started \/ Stopped
    /\ place = "launch" => Launching
    /\ place = "launched" => Launched
    /\ place \in {"requested", "closeSource", "closingSource"} =>
          ~running /\ (NoWorkers \/ BothWorkers("open"))
    /\ place = "closeQueue" => ~running /\ ~source.open /\ (NoWorkers \/ BothWorkers("open"))
    /\ place = "joinCapture" => ~running /\ ~source.open /\ (NoWorkers \/ BothWorkers("closed"))
    /\ place = "joinInference" => ~running /\ ~source.open /\ InferenceAlone
Phases == /\ lifecycle = NoOne => Started \/ Stopped
          /\ \A c \in Controllers : lifecycle = c => PhaseOf(ctl[c])

\* The counters: what the capture thread has pushed but not yet counted.
Held == stats.dropped + Len(queue.frames) + InFlight + stats.processed
Uncounted == queue.dropped - cap.droppedBefore
Counted ==
    /\ cap.at \in {"loop", "reading", "failing", "recheck", "push", "sized"} =>
          stats.dropped = queue.dropped /\ stats.captured = Held
    /\ cap.at = "push" => cap.droppedBefore = queue.dropped
    /\ cap.at \in {"pushed", "counted"} =>
          stats.dropped = cap.droppedBefore /\ cap.droppedBefore <= queue.dropped
    /\ cap.at = "pushed" => stats.captured + 1 = Held + Uncounted
    /\ cap.at = "counted" => stats.captured = Held + Uncounted

\* The queue holds consecutive frames, up to the one read last, or up to the one
\* before while that one is not (or never) pushed; what inference has in hand,
\* what is logged, published and announced is older, in this order.
Behind(d) ==
    /\ \A i \in 1..Len(queue.frames) : queue.frames[i] + d + Len(queue.frames) = cap.frameId + i
    /\ out.logged + d + Len(queue.frames) <= cap.frameId
    /\ inf.at \in {"detect", "analyse"} =>
          /\ out.logged <= inf.packet
          /\ inf.packet + d + Len(queue.frames) <= cap.frameId
Located ==
    /\ cap.at = "push" => Behind(1)
    /\ cap.at \in {"none", "done"} => Behind(0) \/ Behind(1)
    /\ cap.at \notin {"push", "none", "done"} => Behind(0)
Outputted ==
    /\ inf.at \in {"publish", "count", "depth", "announce"} => inf.packet = out.logged
    /\ inf.at \in {"count", "depth", "announce"} => inf.packet = out.latest
    /\ out.announced <= out.latest /\ out.latest <= out.logged
Ordered == Located /\ Outputted /\ Len(queue.frames) <= Capacity

IInv == TypeOK /\ Owned /\ Phases /\ Counted /\ Ordered
------------------------------------------------------------------------------
(* Types                                                                     *)

\* The fields of the queue, and its head and tail when it holds a frame.
LEMMA QueueTyped ==
    ASSUME queue \in Queues
    PROVE  /\ queue.frames \in Seq(Nat) /\ Len(queue.frames) \in Nat /\ queue.dropped \in Nat
           /\ queue.frames # <<>> => /\ Head(queue.frames) \in Nat
                                    /\ Tail(queue.frames) \in Seq(Nat)
           /\ Len(queue.frames) > 0 => queue.frames # <<>>
BY DEF Queues

\* Every step keeps the types; Counted is needed for onDropped, whose argument
\* is a difference of two unsigned counters (CaptureWorker.cpp:44-46).
LEMMA TypeStep == TypeOK /\ Counted /\ [Next]_vars => TypeOK'
<1>. SUFFICES ASSUME TypeOK, Counted, [Next]_vars PROVE TypeOK'
  OBVIOUS
<1>1. ASSUME NEW c \in Controllers, StartCall(c) PROVE TypeOK'
  <2>1. ctl' \in [Controllers -> ControlPlaces]
    BY <1>1 DEF TypeOK, StartCall, ControlPlaces, Lock, Unlock, Advance
  <2>. QED
    BY <1>1, <2>1 DEF TypeOK, StartCall, Lock, Unlock, Advance, workers
<1>2. ASSUME NEW c \in Controllers, StartReturns(c) PROVE TypeOK'
  <2>1. ctl' \in [Controllers -> ControlPlaces]
    BY <1>2 DEF TypeOK, StartReturns, ControlPlaces, Lock, Unlock, Advance
  <2>. QED
    BY <1>2, <2>1 DEF TypeOK, StartReturns, Lock, Unlock, Advance, workers
<1>3. ASSUME NEW c \in Controllers, StartPrepare(c) PROVE TypeOK'
  <2>1. ctl' \in [Controllers -> ControlPlaces]
    BY <1>3 DEF TypeOK, StartPrepare, ControlPlaces, Lock, Unlock, Advance
  <2>2. source' \in Sources
    BY <1>3 DEF TypeOK, StartPrepare, Sources
  <2>3. session' \in Nat
    BY <1>3 DEF TypeOK, StartPrepare
  <2>4. out' \in Outputs
    BY <1>3 DEF TypeOK, StartPrepare, Outputs, NoOutput, NoFrame
  <2>5. stats' \in Counters
    BY <1>3 DEF TypeOK, StartPrepare, Counters, NoStats
  <2>6. queue' \in Queues
    <3>1. NewQueue = [is |-> "open", frames |-> <<>>, dropped |-> 0]
      BY DEF NewQueue, NoQueue
    <3>. QED
      BY <1>3, <3>1 DEF StartPrepare, Queues
  <2>7. inf' \in InferenceStates
    BY <1>3 DEF TypeOK, StartPrepare, InferenceStates, InferencePlaces
  <2>8. cap' \in CaptureStates
    BY <1>3 DEF TypeOK, StartPrepare, CaptureStates, CapturePlaces, IdleCapture
  <2>9. stop' \in StopTokens
    BY <1>3 DEF TypeOK, StartPrepare, StopTokens
  <2>. QED
    BY <1>3, <2>1, <2>2, <2>3, <2>4, <2>5, <2>6, <2>7, <2>8, <2>9
    DEF TypeOK, StartPrepare, Advance
<1>4. ASSUME NEW c \in Controllers, StartInference(c) PROVE TypeOK'
  <2>1. ctl' \in [Controllers -> ControlPlaces]
    BY <1>4 DEF TypeOK, StartInference, ControlPlaces, Lock, Unlock, Advance
  <2>2. inf' \in InferenceStates
    BY <1>4 DEF TypeOK, StartInference, InferenceStates, InferencePlaces, IdleInference, NoFrame
  <2>3. stop' \in StopTokens
    BY <1>4 DEF TypeOK, StartInference, StopTokens
  <2>. QED
    BY <1>4, <2>1, <2>2, <2>3 DEF TypeOK, StartInference, Lock, Unlock, Advance, workers
<1>5. ASSUME NEW c \in Controllers, StartDone(c) PROVE TypeOK'
  <2>1. ctl' \in [Controllers -> ControlPlaces]
    BY <1>5 DEF TypeOK, StartDone, ControlPlaces, Lock, Unlock, Advance
  <2>. QED
    BY <1>5, <2>1 DEF TypeOK, StartDone, Lock, Unlock, Advance, workers
<1>6. ASSUME NEW c \in Controllers, StopCall(c) PROVE TypeOK'
  <2>1. ctl' \in [Controllers -> ControlPlaces]
    BY <1>6 DEF TypeOK, StopCall, ControlPlaces, Lock, Unlock, Advance
  <2>. QED
    BY <1>6, <2>1 DEF TypeOK, StopCall, Lock, Unlock, Advance, workers
<1>7. ASSUME NEW c \in Controllers, RequestCaptureStop(c) PROVE TypeOK'
  <2>1. ctl' \in [Controllers -> ControlPlaces]
    BY <1>7 DEF TypeOK, RequestCaptureStop, ControlPlaces, Lock, Unlock, Advance
  <2>2. stop' \in StopTokens
    BY <1>7 DEF TypeOK, RequestCaptureStop, StopTokens
  <2>. QED
    BY <1>7, <2>1, <2>2 DEF TypeOK, RequestCaptureStop, Lock, Unlock, Advance, workers
<1>8. ASSUME NEW c \in Controllers, RequestInferenceStop(c) PROVE TypeOK'
  <2>1. ctl' \in [Controllers -> ControlPlaces]
    BY <1>8 DEF TypeOK, RequestInferenceStop, ControlPlaces, Lock, Unlock, Advance
  <2>2. stop' \in StopTokens
    BY <1>8 DEF TypeOK, RequestInferenceStop, StopTokens
  <2>. QED
    BY <1>8, <2>1, <2>2 DEF TypeOK, RequestInferenceStop, Lock, Unlock, Advance, workers
<1>9. ASSUME NEW c \in Controllers, CloseSourceBegin(c) PROVE TypeOK'
  <2>1. ctl' \in [Controllers -> ControlPlaces]
    BY <1>9 DEF TypeOK, CloseSourceBegin, ControlPlaces, Lock, Unlock, Advance
  <2>. QED
    BY <1>9, <2>1 DEF TypeOK, CloseSourceBegin, Lock, Unlock, Advance, workers
<1>10. ASSUME NEW c \in Controllers, CloseSourceEnd(c) PROVE TypeOK'
  <2>1. ctl' \in [Controllers -> ControlPlaces]
    BY <1>10 DEF TypeOK, CloseSourceEnd, ControlPlaces, Lock, Unlock, Advance
  <2>2. source' \in Sources
    BY <1>10 DEF TypeOK, CloseSourceEnd, Sources
  <2>. QED
    BY <1>10, <2>1, <2>2 DEF TypeOK, CloseSourceEnd, Lock, Unlock, Advance, workers
<1>11. ASSUME NEW c \in Controllers, CloseQueue(c) PROVE TypeOK'
  <2>1. ctl' \in [Controllers -> ControlPlaces]
    BY <1>11 DEF TypeOK, CloseQueue, ControlPlaces, Lock, Unlock, Advance
  <2>2. queue' \in Queues
    BY <1>11 DEF TypeOK, CloseQueue, Queues
  <2>. QED
    BY <1>11, <2>1, <2>2 DEF TypeOK, CloseQueue, Lock, Unlock, Advance, workers
<1>12. ASSUME NEW c \in Controllers, JoinCapture(c) PROVE TypeOK'
  <2>1. ctl' \in [Controllers -> ControlPlaces]
    BY <1>12 DEF TypeOK, JoinCapture, ControlPlaces, Lock, Unlock, Advance
  <2>2. cap' \in CaptureStates
    BY <1>12 DEF TypeOK, JoinCapture, CaptureStates, CapturePlaces
  <2>. QED
    BY <1>12, <2>1, <2>2 DEF TypeOK, JoinCapture, Lock, Unlock, Advance, workers
<1>13. ASSUME NEW c \in Controllers, JoinInference(c) PROVE TypeOK'
  <2>1. ctl' \in [Controllers -> ControlPlaces]
    BY <1>13 DEF TypeOK, JoinInference, ControlPlaces, Lock, Unlock, Advance
  <2>2. inf' \in InferenceStates
    BY <1>13 DEF TypeOK, JoinInference, InferenceStates, InferencePlaces
  <2>3. queue' \in Queues
    BY <1>13 DEF TypeOK, JoinInference, Queues, NoQueue
  <2>. QED
    BY <1>13, <2>1, <2>2, <2>3 DEF TypeOK, JoinInference, Lock, Unlock, Advance, workers
<1>14. ASSUME NEW m \in Modes, SetMode(m) PROVE TypeOK'
  BY <1>14 DEF TypeOK, SetMode, control, workers
<1>15. CASE ReleaseSource
  <2>1. source' \in Sources
    BY <1>15 DEF TypeOK, ReleaseSource, Sources
  <2>. QED
    BY <1>15, <2>1 DEF TypeOK, ReleaseSource, control, workers
<1>16. CASE AdoptSource
  <2>1. source' \in Sources
    BY <1>16 DEF TypeOK, AdoptSource, Sources
  <2>. QED
    BY <1>16, <2>1 DEF TypeOK, AdoptSource, control, workers
<1>17. CASE CaptureLoop /\ UNCHANGED <<control, mode, source, inf, out>>
  <2>1. cap' \in CaptureStates
    BY <1>17 DEF TypeOK, CaptureLoop, CaptureStates, CapturePlaces, CaptureStops
  <2>. QED
    BY <1>17, <2>1 DEF TypeOK, CaptureLoop, control
<1>18. CASE CaptureRead /\ UNCHANGED <<control, mode, source, inf, out>>
  <2>1. cap' \in CaptureStates
    <3>1. cap.frameId + 1 \in Nat /\ queue.dropped \in Nat
      BY QueueTyped DEF TypeOK, CaptureStates
    <3>. QED
      BY <1>18, <3>1 DEF TypeOK, CaptureRead, CaptureStates, CapturePlaces
  <2>. QED
    BY <1>18, <2>1 DEF TypeOK, CaptureRead, control
<1>19. CASE CaptureReadFails /\ UNCHANGED <<control, mode, source, inf, out>>
  <2>1. cap' \in CaptureStates
    BY <1>19 DEF TypeOK, CaptureReadFails, CaptureStates, CapturePlaces
  <2>. QED
    BY <1>19, <2>1 DEF TypeOK, CaptureReadFails, control
<1>20. CASE CaptureRecheck /\ UNCHANGED <<control, mode, source, inf, out>>
  <2>1. cap' \in CaptureStates
    BY <1>20 DEF TypeOK, CaptureRecheck, CaptureStates, CapturePlaces, CaptureStops
  <2>. QED
    BY <1>20, <2>1 DEF TypeOK, CaptureRecheck, control
<1>21. CASE CapturePush /\ UNCHANGED <<control, mode, source, inf, out>>
  <2>1. queue' \in Queues
    <3>1. Append(queue.frames, cap.frameId) \in Seq(Nat)
      BY QueueTyped DEF TypeOK, CaptureStates
    <3>2. Len(queue.frames) >= Capacity => Append(Tail(queue.frames), cap.frameId) \in Seq(Nat)
      BY QueueTyped, CapacityAssumption DEF TypeOK, CaptureStates
    <3>3. queue.dropped + 1 \in Nat
      BY QueueTyped DEF TypeOK
    <3>. QED
      BY <1>21, <3>1, <3>2, <3>3 DEF TypeOK, CapturePush, Queues
  <2>2. cap' \in CaptureStates
    BY <1>21 DEF TypeOK, CapturePush, CaptureStates, CapturePlaces
  <2>. QED
    BY <1>21, <2>1, <2>2 DEF TypeOK, CapturePush, control
<1>22. CASE CaptureCount /\ UNCHANGED <<control, mode, source, inf, out>>
  <2>1. stats' \in Counters
    BY <1>22 DEF TypeOK, CaptureCount, Counters
  <2>2. cap' \in CaptureStates
    BY <1>22 DEF TypeOK, CaptureCount, CaptureStates, CapturePlaces
  <2>. QED
    BY <1>22, <2>1, <2>2 DEF TypeOK, CaptureCount, control
<1>23. CASE CaptureCountDrops /\ UNCHANGED <<control, mode, source, inf, out>>
  <2>1. stats' \in Counters
    <3>1. cap.at = "counted" /\ stats' = [stats EXCEPT !.dropped = @ + Uncounted]
      BY <1>23 DEF CaptureCountDrops, Uncounted
    <3>2. cap.droppedBefore \in Nat /\ queue.dropped \in Nat
      BY QueueTyped DEF TypeOK, CaptureStates
    <3>3. cap.droppedBefore <= queue.dropped
      BY <3>1 DEF Counted
    <3>4. Uncounted \in Nat
      BY <3>2, <3>3 DEF Uncounted
    <3>. QED
      BY <3>1, <3>4 DEF TypeOK, Counters
  <2>2. cap' \in CaptureStates
    BY <1>23, QueueTyped DEF TypeOK, CaptureCountDrops, CaptureStates, CapturePlaces
  <2>. QED
    BY <1>23, <2>1, <2>2 DEF TypeOK, CaptureCountDrops, control
<1>24. CASE CaptureDepth /\ UNCHANGED <<control, mode, source, inf, out>>
  <2>1. stats' \in Counters
    BY <1>24 DEF TypeOK, CaptureDepth, Counters, CaptureStates
  <2>2. cap' \in CaptureStates
    BY <1>24 DEF TypeOK, CaptureDepth, CaptureStates, CapturePlaces
  <2>. QED
    BY <1>24, <2>1, <2>2 DEF TypeOK, CaptureDepth, control
<1>25. CASE InferenceLoop /\ UNCHANGED <<control, mode, source, inSource, cap>>
  <2>1. inf' \in InferenceStates
    BY <1>25 DEF TypeOK, InferenceLoop, InferenceStates, InferencePlaces
  <2>. QED
    BY <1>25, <2>1 DEF TypeOK, InferenceLoop, control
<1>26. CASE InferencePop /\ UNCHANGED <<control, mode, source, inSource, cap>>
  <2>1. queue' \in Queues
    <3>1. queue.frames # <<>> => Tail(queue.frames) \in Seq(Nat)
      BY QueueTyped DEF TypeOK
    <3>. QED
      BY <1>26, <3>1 DEF TypeOK, InferencePop, Queues
  <2>2. inf' \in InferenceStates
    <3>1. queue.frames # <<>> => Head(queue.frames) \in Nat
      BY QueueTyped DEF TypeOK
    <3>. QED
      BY <1>26, <3>1 DEF TypeOK, InferencePop, InferenceStates, InferencePlaces
  <2>. QED
    BY <1>26, <2>1, <2>2 DEF TypeOK, InferencePop, control
<1>27. CASE InferenceDetect /\ UNCHANGED <<control, mode, source, inSource, cap>>
  <2>1. inf' \in InferenceStates
    <3>1. PICK d \in {mode, NoMode} : inf' = [inf EXCEPT !.at = "analyse", !.detected = d]
      BY <1>27 DEF InferenceDetect
    <3>2. d \in Modes \cup {NoMode}
      BY DEF TypeOK
    <3>. QED
      BY <3>1, <3>2 DEF TypeOK, InferenceStates, InferencePlaces
  <2>. QED
    BY <1>27, <2>1 DEF TypeOK, InferenceDetect, control
<1>28. CASE InferenceAnalyse /\ UNCHANGED <<control, mode, source, inSource, cap>>
  <2>1. inf' \in InferenceStates
    BY <1>28 DEF TypeOK, InferenceAnalyse, InferenceStates, InferencePlaces, SeenAfterUpdate,
       ModeChanged
  <2>2. out' \in Outputs
    BY <1>28 DEF TypeOK, InferenceAnalyse, Outputs, InferenceStates
  <2>. QED
    BY <1>28, <2>1, <2>2 DEF TypeOK, InferenceAnalyse, control
<1>29. CASE InferencePublish /\ UNCHANGED <<control, mode, source, inSource, cap>>
  <2>1. inf' \in InferenceStates
    BY <1>29 DEF TypeOK, InferencePublish, InferenceStates, InferencePlaces
  <2>2. out' \in Outputs
    BY <1>29 DEF TypeOK, InferencePublish, Outputs, InferenceStates
  <2>. QED
    BY <1>29, <2>1, <2>2 DEF TypeOK, InferencePublish, control
<1>30. CASE InferenceCount /\ UNCHANGED <<control, mode, source, inSource, cap>>
  <2>1. inf' \in InferenceStates
    BY <1>30, QueueTyped DEF TypeOK, InferenceCount, InferenceStates, InferencePlaces
  <2>2. stats' \in Counters
    BY <1>30 DEF TypeOK, InferenceCount, Counters
  <2>. QED
    BY <1>30, <2>1, <2>2 DEF TypeOK, InferenceCount, control
<1>31. CASE InferenceDepth /\ UNCHANGED <<control, mode, source, inSource, cap>>
  <2>1. inf' \in InferenceStates
    BY <1>31 DEF TypeOK, InferenceDepth, InferenceStates, InferencePlaces
  <2>2. stats' \in Counters
    BY <1>31 DEF TypeOK, InferenceDepth, Counters, InferenceStates
  <2>. QED
    BY <1>31, <2>1, <2>2 DEF TypeOK, InferenceDepth, control
<1>32. CASE InferenceAnnounce /\ UNCHANGED <<control, mode, source, inSource, cap>>
  <2>1. inf' \in InferenceStates
    BY <1>32 DEF TypeOK, InferenceAnnounce, InferenceStates, InferencePlaces
  <2>2. out' \in Outputs
    BY <1>32 DEF TypeOK, InferenceAnnounce, Outputs, InferenceStates
  <2>. QED
    BY <1>32, <2>1, <2>2 DEF TypeOK, InferenceAnnounce, control
<1>33. CASE UNCHANGED vars
  BY <1>33 DEF TypeOK, vars, vars, control
<1>. QED
  BY <1>1, <1>2, <1>3, <1>4, <1>5, <1>6, <1>7, <1>8, <1>9, <1>10, <1>11,
      <1>12, <1>13, <1>14, <1>15, <1>16, <1>17, <1>18, <1>19, <1>20, <1>21,
      <1>22, <1>23, <1>24, <1>25, <1>26, <1>27, <1>28, <1>29, <1>30, <1>31,
      <1>32, <1>33
  DEF Next, Starting, Stopping, Capture, Inference
------------------------------------------------------------------------------
(* Phases                                                                    *)

\* What the rest of the system sees of a step of the capture thread.
LEMMA CaptureMoves ==
    ASSUME TypeOK, Capture
    PROVE  /\ cap.at \notin {"none", "done"} /\ cap'.at # "none"
           /\ queue'.is = queue.is
           /\ ~stop.capture /\ queue.is = "open" => cap'.at # "done"
           /\ UNCHANGED <<lifecycle, ctl, running, stop, session, mode, source, inf, out>>
<1>1. UNCHANGED <<lifecycle, ctl, running, stop, session, mode, source, inf, out>>
  BY DEF Capture, control
<1>2. ASSUME CaptureLoop
      PROVE  /\ cap.at \notin {"none", "done"} /\ cap'.at # "none" /\ queue'.is = queue.is
             /\ ~stop.capture /\ queue.is = "open" => cap'.at # "done"
  BY <1>2 DEF CaptureLoop, TypeOK, CaptureStates, Queues, CaptureStops
<1>3. ASSUME CaptureRead
      PROVE  /\ cap.at \notin {"none", "done"} /\ cap'.at # "none" /\ queue'.is = queue.is
             /\ ~stop.capture /\ queue.is = "open" => cap'.at # "done"
  BY <1>3 DEF CaptureRead, TypeOK, CaptureStates, Queues
<1>4. ASSUME CaptureReadFails
      PROVE  /\ cap.at \notin {"none", "done"} /\ cap'.at # "none" /\ queue'.is = queue.is
             /\ ~stop.capture /\ queue.is = "open" => cap'.at # "done"
  BY <1>4 DEF CaptureReadFails, TypeOK, CaptureStates, Queues
<1>5. ASSUME CaptureRecheck
      PROVE  /\ cap.at \notin {"none", "done"} /\ cap'.at # "none" /\ queue'.is = queue.is
             /\ ~stop.capture /\ queue.is = "open" => cap'.at # "done"
  BY <1>5 DEF CaptureRecheck, TypeOK, CaptureStates, Queues, CaptureStops
<1>6. ASSUME CapturePush
      PROVE  /\ cap.at \notin {"none", "done"} /\ cap'.at # "none" /\ queue'.is = queue.is
             /\ ~stop.capture /\ queue.is = "open" => cap'.at # "done"
  BY <1>6 DEF CapturePush, TypeOK, CaptureStates, Queues
<1>7. ASSUME CaptureCount
      PROVE  /\ cap.at \notin {"none", "done"} /\ cap'.at # "none" /\ queue'.is = queue.is
             /\ ~stop.capture /\ queue.is = "open" => cap'.at # "done"
  BY <1>7 DEF CaptureCount, TypeOK, CaptureStates, Queues
<1>8. ASSUME CaptureCountDrops
      PROVE  /\ cap.at \notin {"none", "done"} /\ cap'.at # "none" /\ queue'.is = queue.is
             /\ ~stop.capture /\ queue.is = "open" => cap'.at # "done"
  BY <1>8 DEF CaptureCountDrops, TypeOK, CaptureStates, Queues
<1>9. ASSUME CaptureDepth
      PROVE  /\ cap.at \notin {"none", "done"} /\ cap'.at # "none" /\ queue'.is = queue.is
             /\ ~stop.capture /\ queue.is = "open" => cap'.at # "done"
  BY <1>9 DEF CaptureDepth, TypeOK, CaptureStates, Queues
<1>. QED
  BY <1>1, <1>2, <1>3, <1>4, <1>5, <1>6, <1>7, <1>8, <1>9 DEF Capture

\* The same of the inference thread.
LEMMA InferenceMoves ==
    ASSUME TypeOK, Inference
    PROVE  /\ inf.at \notin {"none", "done"} /\ inf'.at # "none"
           /\ queue'.is = queue.is
           /\ ~stop.inference /\ queue.is = "open" => inf'.at # "done"
           /\ UNCHANGED <<lifecycle, ctl, running, stop, session, mode, source, inSource, cap>>
<1>1. UNCHANGED <<lifecycle, ctl, running, stop, session, mode, source, inSource, cap>>
  BY DEF Inference, control
<1>2. ASSUME InferenceLoop
      PROVE  /\ inf.at \notin {"none", "done"} /\ inf'.at # "none" /\ queue'.is = queue.is
             /\ ~stop.inference /\ queue.is = "open" => inf'.at # "done"
  BY <1>2 DEF InferenceLoop, TypeOK, InferenceStates, Queues
<1>3. ASSUME InferencePop
      PROVE  /\ inf.at \notin {"none", "done"} /\ inf'.at # "none" /\ queue'.is = queue.is
             /\ ~stop.inference /\ queue.is = "open" => inf'.at # "done"
  BY <1>3 DEF InferencePop, TypeOK, InferenceStates, Queues
<1>4. ASSUME InferenceDetect
      PROVE  /\ inf.at \notin {"none", "done"} /\ inf'.at # "none" /\ queue'.is = queue.is
             /\ ~stop.inference /\ queue.is = "open" => inf'.at # "done"
  BY <1>4 DEF InferenceDetect, TypeOK, InferenceStates, Queues
<1>5. ASSUME InferenceAnalyse
      PROVE  /\ inf.at \notin {"none", "done"} /\ inf'.at # "none" /\ queue'.is = queue.is
             /\ ~stop.inference /\ queue.is = "open" => inf'.at # "done"
  BY <1>5 DEF InferenceAnalyse, TypeOK, InferenceStates, Queues
<1>6. ASSUME InferencePublish
      PROVE  /\ inf.at \notin {"none", "done"} /\ inf'.at # "none" /\ queue'.is = queue.is
             /\ ~stop.inference /\ queue.is = "open" => inf'.at # "done"
  BY <1>6 DEF InferencePublish, TypeOK, InferenceStates, Queues
<1>7. ASSUME InferenceCount
      PROVE  /\ inf.at \notin {"none", "done"} /\ inf'.at # "none" /\ queue'.is = queue.is
             /\ ~stop.inference /\ queue.is = "open" => inf'.at # "done"
  BY <1>7 DEF InferenceCount, TypeOK, InferenceStates, Queues
<1>8. ASSUME InferenceDepth
      PROVE  /\ inf.at \notin {"none", "done"} /\ inf'.at # "none" /\ queue'.is = queue.is
             /\ ~stop.inference /\ queue.is = "open" => inf'.at # "done"
  BY <1>8 DEF InferenceDepth, TypeOK, InferenceStates, Queues
<1>9. ASSUME InferenceAnnounce
      PROVE  /\ inf.at \notin {"none", "done"} /\ inf'.at # "none" /\ queue'.is = queue.is
             /\ ~stop.inference /\ queue.is = "open" => inf'.at # "done"
  BY <1>9 DEF InferenceAnnounce, TypeOK, InferenceStates, Queues
<1>. QED
  BY <1>1, <1>2, <1>3, <1>4, <1>5, <1>6, <1>7, <1>8, <1>9 DEF Inference

\* Only the holder of m_lifecycle moves, and nobody else comes to hold it.
LEMMA OwnedStep == TypeOK /\ Owned /\ [Next]_vars => Owned'
<1>. SUFFICES ASSUME TypeOK, Owned, [Next]_vars PROVE Owned'
  OBVIOUS
<1>1. ASSUME NEW c \in Controllers, StartCall(c) \/ StopCall(c) PROVE Owned'
  BY <1>1, NamesAssumption DEF TypeOK, Owned, StartCall, StopCall, Lock
<1>2. ASSUME NEW c \in Controllers, StartReturns(c) \/ StartDone(c) \/ JoinInference(c)
      PROVE  Owned'
  BY <1>2, NamesAssumption DEF TypeOK, Owned, StartReturns, StartDone, JoinInference, Unlock
<1>3. ASSUME NEW c \in Controllers, NEW from \in ControlPlaces \ {"idle"},
             NEW to \in ControlPlaces \ {"idle"}, Advance(c, from, to)
      PROVE  Owned'
  BY <1>3 DEF TypeOK, Owned, Advance
<1>4. ASSUME NEW c \in Controllers, StartPrepare(c) \/ StartInference(c) PROVE Owned'
  BY <1>3, <1>4 DEF StartPrepare, StartInference, ControlPlaces
<1>5. ASSUME NEW c \in Controllers,
             \/ RequestCaptureStop(c) \/ RequestInferenceStop(c) \/ CloseSourceBegin(c)
             \/ CloseSourceEnd(c) \/ CloseQueue(c) \/ JoinCapture(c)
      PROVE  Owned'
  BY <1>3, <1>5 DEF RequestCaptureStop, RequestInferenceStop, CloseSourceBegin, CloseSourceEnd,
     CloseQueue, JoinCapture, ControlPlaces
<1>6. ASSUME UNCHANGED <<lifecycle, ctl>> PROVE Owned'
  BY <1>6 DEF Owned
<1>7. CASE (\E m \in Modes : SetMode(m)) \/ ReleaseSource \/ AdoptSource \/ UNCHANGED vars
  BY <1>6, <1>7 DEF SetMode, ReleaseSource, AdoptSource, control, vars
<1>8. CASE Capture \/ Inference
  BY <1>6, <1>8, CaptureMoves, InferenceMoves
<1>. QED
  BY <1>1, <1>2, <1>4, <1>5, <1>7, <1>8 DEF Next, Starting, Stopping

\* A step of the controller that holds m_lifecycle need only reach the phase of
\* its new place in start or stop.
LEMMA PhaseReached ==
    ASSUME NEW c \in Controllers, lifecycle' = c, PhaseOf(ctl[c])'
    PROVE  Phases'
BY NamesAssumption DEF Phases

\* Once m_lifecycle is free again the pipeline is wholly running or wholly stopped.
LEMMA PhaseLeft ==
    ASSUME lifecycle' = NoOne, (Started \/ Stopped)'
    PROVE  Phases'
BY NamesAssumption DEF Phases

\* Every step of start, stop, releaseSource, adoptSource and the two threads leads
\* from phase to phase.
LEMMA PhaseStep == TypeOK /\ Owned /\ Phases /\ [Next]_vars => Phases'
<1>. SUFFICES ASSUME TypeOK, Owned, Phases, [Next]_vars PROVE Phases'
  OBVIOUS
<1>1. ASSUME NEW c \in Controllers, StartCall(c) \/ StopCall(c) PROVE Phases'
  <2>1. lifecycle' = c /\ ctl'[c] \in {"start", "stop"}
    BY <1>1 DEF TypeOK, StartCall, StopCall, Lock
  <2>2. Started' \/ Stopped'
    BY <1>1 DEF StartCall, StopCall, Lock, Phases, workers, Started, Stopped, CaptureWorks,
       InferenceWorks
  <2>. QED
    BY <2>1, <2>2, PhaseReached DEF PhaseOf
<1>2. ASSUME NEW c \in Controllers, StartReturns(c) PROVE Phases'
  <2>1. lifecycle = c
    BY <1>2 DEF StartReturns, Owned
  <2>2. Started \/ Stopped
    BY <1>2, <2>1 DEF Phases, PhaseOf, StartReturns
  <2>3. Started' \/ Stopped'
    BY <1>2, <2>2 DEF StartReturns, workers, Started, Stopped, CaptureWorks, InferenceWorks
  <2>. QED
    BY <1>2, <2>3, PhaseLeft DEF StartReturns, Unlock
<1>3. ASSUME NEW c \in Controllers, StartDone(c) PROVE Phases'
  <2>1. lifecycle = c
    BY <1>3 DEF StartDone, Owned
  <2>2. Launched
    BY <1>3, <2>1 DEF Phases, PhaseOf, StartDone
  <2>3. Started'
    BY <1>3, <2>2 DEF StartDone, workers, Launched, Started, CaptureWorks, InferenceWorks
  <2>. QED
    BY <1>3, <2>3, PhaseLeft DEF StartDone, Unlock
<1>4. ASSUME NEW c \in Controllers, JoinInference(c) PROVE Phases'
  <2>1. lifecycle = c
    BY <1>4 DEF JoinInference, Owned
  <2>2. ~running /\ ~source.open /\ InferenceAlone
    BY <1>4, <2>1 DEF Phases, PhaseOf, JoinInference
  <2>3. Stopped'
    BY <1>4, <2>2 DEF JoinInference, InferenceAlone, Stopped, NoQueue, TypeOK, InferenceStates
  <2>. QED
    BY <1>4, <2>3, PhaseLeft DEF JoinInference, Unlock
<1>5. ASSUME NEW c \in Controllers, StartPrepare(c) PROVE Phases'
  <2>1. ctl[c] = "start" /\ lifecycle = c /\ lifecycle' = c /\ ctl'[c] = "launch"
    BY <1>5 DEF StartPrepare, Advance, Owned, TypeOK
  <2>2. Started \/ Stopped
    BY <2>1 DEF Phases, PhaseOf
  <2>3. (Launching)'
    BY <1>5, <2>2 DEF StartPrepare, TypeOK, Sources, CaptureStates, StopTokens,
       InferenceStates, Started, Stopped, Launching, CaptureWorks, NewQueue, NoQueue,
       IdleCapture, workers
  <2>. QED
    BY <2>1, <2>3, PhaseReached DEF PhaseOf
<1>6. ASSUME NEW c \in Controllers, StartInference(c) PROVE Phases'
  <2>1. ctl[c] = "launch" /\ lifecycle = c /\ lifecycle' = c /\ ctl'[c] = "launched"
    BY <1>6 DEF StartInference, Advance, Owned, TypeOK
  <2>2. Launching
    BY <2>1 DEF Phases, PhaseOf
  <2>3. (Launched)'
    BY <1>6, <2>2 DEF StartInference, TypeOK, InferenceStates, StopTokens, Launching,
       Launched, CaptureWorks, InferenceWorks, IdleInference, workers
  <2>. QED
    BY <2>1, <2>3, PhaseReached DEF PhaseOf
<1>7. ASSUME NEW c \in Controllers, RequestCaptureStop(c) PROVE Phases'
  <2>1. ctl[c] = "stop" /\ lifecycle = c /\ lifecycle' = c /\ ctl'[c] = "requested"
    BY <1>7 DEF RequestCaptureStop, Advance, Owned, TypeOK
  <2>2. Started \/ Stopped
    BY <2>1 DEF Phases, PhaseOf
  <2>3. (~running /\ (NoWorkers \/ BothWorkers("open")))'
    BY <1>7, <2>2 DEF RequestCaptureStop, Started, Stopped, NoWorkers, BothWorkers,
       CaptureWorks, InferenceWorks, workers
  <2>. QED
    BY <2>1, <2>3, PhaseReached DEF PhaseOf
<1>8. ASSUME NEW c \in Controllers, RequestInferenceStop(c) PROVE Phases'
  <2>1. ctl[c] = "requested" /\ lifecycle = c /\ lifecycle' = c /\ ctl'[c] = "closeSource"
    BY <1>8 DEF RequestInferenceStop, Advance, Owned, TypeOK
  <2>2. ~running /\ (NoWorkers \/ BothWorkers("open"))
    BY <2>1 DEF Phases, PhaseOf
  <2>3. (~running /\ (NoWorkers \/ BothWorkers("open")))'
    BY <1>8, <2>2 DEF RequestInferenceStop, NoWorkers, BothWorkers, workers
  <2>. QED
    BY <2>1, <2>3, PhaseReached DEF PhaseOf
<1>9. ASSUME NEW c \in Controllers, CloseSourceBegin(c) PROVE Phases'
  <2>1. ctl[c] = "closeSource" /\ lifecycle = c /\ lifecycle' = c /\ ctl'[c] = "closingSource"
    BY <1>9 DEF CloseSourceBegin, Advance, Owned, TypeOK
  <2>2. ~running /\ (NoWorkers \/ BothWorkers("open"))
    BY <2>1 DEF Phases, PhaseOf
  <2>3. (~running /\ (NoWorkers \/ BothWorkers("open")))'
    BY <1>9, <2>2 DEF CloseSourceBegin, NoWorkers, BothWorkers, workers
  <2>. QED
    BY <2>1, <2>3, PhaseReached DEF PhaseOf
<1>10. ASSUME NEW c \in Controllers, CloseSourceEnd(c) PROVE Phases'
  <2>1. ctl[c] = "closingSource" /\ lifecycle = c /\ lifecycle' = c /\ ctl'[c] = "closeQueue"
    BY <1>10 DEF CloseSourceEnd, Advance, Owned, TypeOK
  <2>2. ~running /\ (NoWorkers \/ BothWorkers("open"))
    BY <2>1 DEF Phases, PhaseOf
  <2>3. (~running /\ ~source.open /\ (NoWorkers \/ BothWorkers("open")))'
    BY <1>10, <2>2 DEF CloseSourceEnd, TypeOK, Sources, NoWorkers, BothWorkers, workers
  <2>. QED
    BY <2>1, <2>3, PhaseReached DEF PhaseOf
<1>11. ASSUME NEW c \in Controllers, CloseQueue(c) PROVE Phases'
  <2>1. ctl[c] = "closeQueue" /\ lifecycle = c /\ lifecycle' = c /\ ctl'[c] = "joinCapture"
    BY <1>11 DEF CloseQueue, Advance, Owned, TypeOK
  <2>2. ~running /\ ~source.open /\ (NoWorkers \/ BothWorkers("open"))
    BY <2>1 DEF Phases, PhaseOf
  <2>3. (~running /\ ~source.open /\ (NoWorkers \/ BothWorkers("closed")))'
    BY <1>11, <2>2 DEF CloseQueue, TypeOK, Queues, NoWorkers, BothWorkers, workers
  <2>. QED
    BY <2>1, <2>3, PhaseReached DEF PhaseOf
<1>12. ASSUME NEW c \in Controllers, JoinCapture(c) PROVE Phases'
  <2>1. ctl[c] = "joinCapture" /\ lifecycle = c /\ lifecycle' = c /\ ctl'[c] = "joinInference"
    BY <1>12 DEF JoinCapture, Advance, Owned, TypeOK
  <2>2. ~running /\ ~source.open /\ (NoWorkers \/ BothWorkers("closed"))
    BY <2>1 DEF Phases, PhaseOf
  <2>3. (~running /\ ~source.open /\ InferenceAlone)'
    BY <1>12, <2>2 DEF JoinCapture, TypeOK, CaptureStates, NoWorkers, BothWorkers,
       InferenceAlone, workers
  <2>. QED
    BY <2>1, <2>3, PhaseReached DEF PhaseOf
<1>13. ASSUME lifecycle = NoOne, UNCHANGED <<lifecycle, ctl, running, stop, queue, cap, inf>>,
              \/ UNCHANGED source \/ (~running /\ source'.open \in {source.open, FALSE})
       PROVE  Phases'
  <2>1. Started' \/ Stopped'
    BY <1>13 DEF Phases, Started, Stopped, CaptureWorks, InferenceWorks
  <2>. QED
    BY <1>13, <2>1, PhaseLeft
<1>14. CASE ReleaseSource \/ AdoptSource
  <2>1. /\ lifecycle = NoOne /\ ~running
        /\ UNCHANGED <<lifecycle, ctl, running, stop, queue, cap, inf>>
    BY <1>14 DEF ReleaseSource, AdoptSource, control, workers
  <2>2. source'.open = source.open \/ source'.open = FALSE
    BY <1>14 DEF ReleaseSource, AdoptSource, TypeOK, Sources
  <2>. QED
    BY <1>13, <2>1, <2>2
<1>15. ASSUME UNCHANGED <<lifecycle, ctl, running, stop, source, queue, cap, inf>> PROVE Phases'
  BY <1>15 DEF Phases, PhaseOf, Started, Stopped, Launching, Launched, NoWorkers, BothWorkers,
     InferenceAlone, CaptureWorks, InferenceWorks
<1>16. CASE (\E m \in Modes : SetMode(m)) \/ UNCHANGED vars
  BY <1>15, <1>16 DEF SetMode, control, workers, vars
<1>17. CASE Capture
  <2>1. Started => Started'
    BY <1>17, CaptureMoves DEF Started, CaptureWorks, InferenceWorks
  <2>2. (Launching => Launching') /\ (Launched => Launched')
    BY <1>17, CaptureMoves DEF Launching, Launched, CaptureWorks, InferenceWorks
  <2>3. ~Stopped /\ ~NoWorkers /\ ~InferenceAlone
    BY <1>17, CaptureMoves DEF Stopped, NoWorkers, InferenceAlone
  <2>4. \A s \in {"open", "closed"} : BothWorkers(s) => BothWorkers(s)'
    BY <1>17, CaptureMoves DEF BothWorkers
  <2>5. UNCHANGED <<lifecycle, ctl, running, source>>
    BY <1>17, CaptureMoves
  <2>6. \A c \in Controllers : PhaseOf(ctl[c]) => PhaseOf(ctl[c])'
    BY <2>1, <2>2, <2>3, <2>4, <2>5 DEF PhaseOf
  <2>. QED
    BY <2>1, <2>3, <2>5, <2>6 DEF Phases
<1>18. CASE Inference
  <2>1. Started => Started'
    BY <1>18, InferenceMoves DEF Started, CaptureWorks, InferenceWorks
  <2>2. ~Launching /\ (Launched => Launched')
    BY <1>18, InferenceMoves DEF Launching, Launched, CaptureWorks, InferenceWorks
  <2>3. ~Stopped /\ ~NoWorkers /\ (InferenceAlone => InferenceAlone')
    BY <1>18, InferenceMoves DEF Stopped, NoWorkers, InferenceAlone
  <2>4. \A s \in {"open", "closed"} : BothWorkers(s) => BothWorkers(s)'
    BY <1>18, InferenceMoves DEF BothWorkers
  <2>5. UNCHANGED <<lifecycle, ctl, running, source>>
    BY <1>18, InferenceMoves
  <2>6. \A c \in Controllers : PhaseOf(ctl[c]) => PhaseOf(ctl[c])'
    BY <2>1, <2>2, <2>3, <2>4, <2>5 DEF PhaseOf
  <2>. QED
    BY <2>1, <2>3, <2>5, <2>6 DEF Phases
<1>. QED
  BY <1>1, <1>2, <1>3, <1>4, <1>5, <1>6, <1>7, <1>8, <1>9, <1>10, <1>11, <1>12, <1>14, <1>16,
     <1>17, <1>18 DEF Next, Starting, Stopping
------------------------------------------------------------------------------
(* Counters                                                                  *)

\* The quantities of the frame count are natural numbers.
LEMMA CountsTyped ==
    ASSUME TypeOK
    PROVE  /\ stats.captured \in Nat /\ stats.processed \in Nat /\ stats.dropped \in Nat
           /\ stats.depth \in Nat /\ queue.dropped \in Nat /\ cap.droppedBefore \in Nat
           /\ Len(queue.frames) \in Nat /\ InFlight \in Nat
BY QueueTyped DEF TypeOK, Counters, CaptureStates, InFlight

\* What the counters are about, when nothing of it changes but where a thread is.
LEMMA CountedKept ==
    ASSUME Counted, UNCHANGED <<stats, InFlight>>,
           queue'.frames = queue.frames, queue'.dropped = queue.dropped,
           cap'.droppedBefore = cap.droppedBefore,
           \/ cap'.at = cap.at
           \/ cap'.at \in {"none", "done"}
           \/ {cap.at, cap'.at} \subseteq {"loop", "reading", "failing", "recheck"}
    PROVE  Counted'
BY DEF Counted, Held, Uncounted

\* A push that evicts nothing adds one frame to those the counters must explain.
LEMMA HeldGrows ==
    ASSUME stats.dropped \in Nat, stats.processed \in Nat, InFlight \in Nat,
           Len(queue.frames) \in Nat, stats' = stats, InFlight' = InFlight,
           Len(queue'.frames) = Len(queue.frames) + 1
    PROVE  Held \in Nat /\ Held' = Held + 1
<1>1. Held \in Nat
  BY DEF Held
<1>2. Held' = Held + 1
  BY DEF Held
<1>. QED
  BY <1>1, <1>2

\* Every step keeps the count of the frames: a push, a pop, onCaptured, onDropped
\* and onInferred, each under its own lock, and the reset of a new session.
LEMMA CountedStep ==
    TypeOK /\ TypeOK' /\ Owned /\ Phases /\ Counted /\ [Next]_vars => Counted'
<1>. SUFFICES ASSUME TypeOK, TypeOK', Owned, Phases, Counted, [Next]_vars PROVE Counted'
  OBVIOUS
<1>. USE CountsTyped
<1>1. ASSUME UNCHANGED <<cap, queue, stats, inf>> PROVE Counted'
  BY <1>1 DEF Counted, Held, Uncounted, InFlight
<1>2. ASSUME NEW c \in Controllers,
             \/ StartCall(c) \/ StartReturns(c) \/ StartDone(c) \/ StopCall(c)
             \/ RequestCaptureStop(c) \/ RequestInferenceStop(c)
             \/ CloseSourceBegin(c) \/ CloseSourceEnd(c)
      PROVE  Counted'
  BY <1>1, <1>2 DEF StartCall, StartReturns, StartDone, StopCall, RequestCaptureStop,
     RequestInferenceStop, CloseSourceBegin, CloseSourceEnd, workers
<1>3. ASSUME NEW c \in Controllers, StartPrepare(c) PROVE Counted'
  <2>1. lifecycle = c /\ ctl[c] = "start" /\ ~running
    BY <1>3 DEF StartPrepare, Advance, Owned
  <2>2. inf.at = "none"
    BY <2>1 DEF Phases, PhaseOf, Started, Stopped
  <2>3. inf'.at = "none" /\ cap'.at = "loop"
    BY <1>3, <2>2 DEF StartPrepare, IdleCapture, TypeOK, InferenceStates
  <2>4. queue'.frames = <<>> /\ queue'.dropped = 0
    BY <1>3 DEF StartPrepare, NewQueue, NoQueue
  <2>5. stats'.captured = 0 /\ stats'.dropped = 0 /\ stats'.processed = 0
    BY <1>3 DEF StartPrepare, NoStats
  <2>. QED
    BY <2>3, <2>4, <2>5 DEF Counted, Held, InFlight
<1>4. ASSUME NEW c \in Controllers, StartInference(c) PROVE Counted'
  <2>1. lifecycle = c
    BY <1>4 DEF StartInference, Advance, Owned
  <2>2. inf.at = "none"
    BY <1>4, <2>1 DEF Phases, PhaseOf, StartInference, Advance, Launching
  <2>3. InFlight = 0 /\ InFlight' = 0
    BY <1>4, <2>2 DEF StartInference, IdleInference, InFlight
  <2>. QED
    BY <1>4, <2>3, CountedKept DEF StartInference
<1>5. ASSUME NEW c \in Controllers, CloseQueue(c) PROVE Counted'
  <2>1. queue'.frames = queue.frames /\ queue'.dropped = queue.dropped
    BY <1>5 DEF CloseQueue, TypeOK, Queues
  <2>. QED
    BY <1>5, <2>1, CountedKept DEF CloseQueue, workers, InFlight
<1>6. ASSUME NEW c \in Controllers, JoinCapture(c) \/ JoinInference(c) PROVE Counted'
  <2>1. cap'.at = "none"
    <3>1. CASE JoinCapture(c)
      BY <3>1 DEF JoinCapture, TypeOK, CaptureStates
    <3>2. CASE JoinInference(c)
      BY <3>2 DEF JoinInference, Owned, Phases, PhaseOf, InferenceAlone
    <3>. QED
      BY <1>6, <3>1, <3>2
  <2>. QED
    BY <2>1 DEF Counted
<1>7. CASE \/ \E m \in Modes : SetMode(m)
           \/ ReleaseSource \/ AdoptSource \/ UNCHANGED vars
  BY <1>1, <1>7 DEF SetMode, ReleaseSource, AdoptSource, workers, vars
<1>8. CASE CaptureLoop /\ UNCHANGED inf
  <2>1. /\ cap.at \in {"loop", "reading", "failing", "recheck"}
        /\ cap'.at \in {"loop", "reading", "failing", "recheck", "done"}
        /\ cap'.droppedBefore = cap.droppedBefore
    BY <1>8 DEF CaptureLoop, TypeOK, CaptureStates
  <2>. QED
    BY <1>8, <2>1, CountedKept DEF CaptureLoop, InFlight
<1>9. CASE CaptureReadFails /\ UNCHANGED inf
  <2>1. /\ cap.at \in {"loop", "reading", "failing", "recheck"}
        /\ cap'.at \in {"loop", "reading", "failing", "recheck", "done"}
        /\ cap'.droppedBefore = cap.droppedBefore
    BY <1>9 DEF CaptureReadFails, TypeOK, CaptureStates
  <2>. QED
    BY <1>9, <2>1, CountedKept DEF CaptureReadFails, InFlight
<1>10. CASE CaptureRecheck /\ UNCHANGED inf
  <2>1. /\ cap.at \in {"loop", "reading", "failing", "recheck"}
        /\ cap'.at \in {"loop", "reading", "failing", "recheck", "done"}
        /\ cap'.droppedBefore = cap.droppedBefore
    BY <1>10 DEF CaptureRecheck, TypeOK, CaptureStates
  <2>. QED
    BY <1>10, <2>1, CountedKept DEF CaptureRecheck, InFlight
<1>11. CASE CaptureRead /\ UNCHANGED inf
  <2>1. /\ cap.at = "reading" /\ cap'.at = "push" /\ cap'.droppedBefore = queue.dropped
        /\ UNCHANGED <<queue, stats, InFlight>>
    BY <1>11 DEF CaptureRead, TypeOK, CaptureStates, InFlight
  <2>. QED
    BY <2>1 DEF Counted, Held
<1>12. CASE CapturePush /\ UNCHANGED inf
  <2>1. cap.at = "push" /\ UNCHANGED <<stats, InFlight>> /\ cap'.droppedBefore = cap.droppedBefore
    BY <1>12 DEF CapturePush, TypeOK, CaptureStates, InFlight
  <2>2. CASE queue.is = "closed"
    BY <1>12, <2>1, <2>2, CountedKept DEF CapturePush, TypeOK, CaptureStates
  <2>3. CASE queue.is = "open" /\ Len(queue.frames) < Capacity
    <3>1. /\ cap'.at = "pushed" /\ queue'.dropped = queue.dropped
          /\ queue'.frames = Append(queue.frames, cap.frameId)
      <4>1. /\ cap' = [cap EXCEPT !.at = "pushed"]
            /\ queue' = [queue EXCEPT !.frames = Append(@, cap.frameId)]
        <5>1. ~(Len(queue.frames) >= Capacity)
          BY <2>3, CapacityAssumption
        <5>. QED
          BY <1>12, <2>3, <5>1 DEF CapturePush
      <4>. QED
        BY <4>1 DEF TypeOK, CaptureStates, Queues
    <3>2. Len(queue'.frames) = Len(queue.frames) + 1
      BY <3>1, QueueTyped DEF TypeOK, CaptureStates
    <3>3. /\ stats.dropped = queue.dropped /\ cap.droppedBefore = queue.dropped
          /\ stats.captured = Held
      BY <2>1 DEF Counted
    <3>4. Uncounted' = 0
      BY <2>1, <3>1, <3>3 DEF Uncounted
    <3>5. Held \in Nat /\ Held' = Held + 1
      BY <2>1, <3>2, HeldGrows
    <3>. QED
      BY <2>1, <3>1, <3>3, <3>4, <3>5 DEF Counted
  <2>4. CASE queue.is = "open" /\ Len(queue.frames) >= Capacity
    <3>1. /\ cap'.at = "pushed" /\ queue'.dropped = queue.dropped + 1
          /\ queue'.frames = Append(Tail(queue.frames), cap.frameId)
      <4>1. /\ cap' = [cap EXCEPT !.at = "pushed"]
            /\ queue' = [queue EXCEPT !.frames = Append(Tail(@), cap.frameId),
                                      !.dropped = @ + 1]
        <5>1. ~(Len(queue.frames) < Capacity)
          BY <2>4, CapacityAssumption
        <5>. QED
          BY <1>12, <2>4, <5>1 DEF CapturePush
      <4>. QED
        BY <4>1 DEF TypeOK, CaptureStates, Queues
    <3>2. Len(queue'.frames) = Len(queue.frames)
      BY <2>4, <3>1, QueueTyped, CapacityAssumption DEF TypeOK, CaptureStates
    <3>. QED
      BY <2>1, <3>1, <3>2 DEF Counted, Held, Uncounted
  <2>. QED
    BY <1>12, <2>2, <2>3, <2>4 DEF CapturePush
<1>13. CASE CaptureCount /\ UNCHANGED inf
  <2>1. /\ cap.at = "pushed" /\ cap'.at = "counted" /\ UNCHANGED <<queue, InFlight>>
        /\ cap'.droppedBefore = cap.droppedBefore
    BY <1>13 DEF CaptureCount, TypeOK, CaptureStates, InFlight
  <2>2. /\ stats'.captured = stats.captured + 1
        /\ stats'.dropped = stats.dropped /\ stats'.processed = stats.processed
    BY <1>13 DEF CaptureCount, TypeOK, Counters
  <2>. QED
    BY <2>1, <2>2 DEF Counted, Held, Uncounted
<1>14. CASE CaptureCountDrops /\ UNCHANGED inf
  <2>1. cap.at = "counted" /\ cap'.at = "sized" /\ UNCHANGED <<queue, InFlight>>
    BY <1>14 DEF CaptureCountDrops, TypeOK, CaptureStates, InFlight
  <2>2. /\ stats'.dropped = stats.dropped + Uncounted
        /\ stats'.captured = stats.captured /\ stats'.processed = stats.processed
    BY <1>14 DEF CaptureCountDrops, TypeOK, Counters, Uncounted
  <2>. QED
    BY <2>1, <2>2 DEF Counted, Held, Uncounted
<1>15. CASE CaptureDepth /\ UNCHANGED inf
  <2>1. cap.at = "sized" /\ cap'.at = "loop" /\ UNCHANGED <<queue, InFlight>>
    BY <1>15 DEF CaptureDepth, TypeOK, CaptureStates, InFlight
  <2>2. /\ stats'.captured = stats.captured
        /\ stats'.dropped = stats.dropped /\ stats'.processed = stats.processed
    BY <1>15 DEF CaptureDepth, TypeOK, Counters
  <2>. QED
    BY <2>1, <2>2 DEF Counted, Held
<1>16. ASSUME UNCHANGED <<cap, queue>>, Held' = Held, stats'.captured = stats.captured,
              stats'.dropped = stats.dropped
       PROVE  Counted'
  BY <1>16 DEF Counted, Uncounted
<1>17. CASE InferenceLoop /\ UNCHANGED cap
  <2>1. UNCHANGED <<queue, stats, InFlight>>
    BY <1>17 DEF InferenceLoop, TypeOK, InferenceStates, InFlight
  <2>. QED
    BY <1>17, <2>1, <1>16 DEF Held
<1>18. CASE InferenceDetect /\ UNCHANGED cap
  <2>1. UNCHANGED <<queue, stats, InFlight>>
    BY <1>18 DEF InferenceDetect, TypeOK, InferenceStates, InFlight
  <2>. QED
    BY <1>18, <2>1, <1>16 DEF Held
<1>19. CASE InferenceAnalyse /\ UNCHANGED cap
  <2>1. UNCHANGED <<queue, stats, InFlight>>
    BY <1>19 DEF InferenceAnalyse, TypeOK, InferenceStates, InFlight
  <2>. QED
    BY <1>19, <2>1, <1>16 DEF Held
<1>20. CASE InferencePublish /\ UNCHANGED cap
  <2>1. UNCHANGED <<queue, stats, InFlight>>
    BY <1>20 DEF InferencePublish, TypeOK, InferenceStates, InFlight
  <2>. QED
    BY <1>20, <2>1, <1>16 DEF Held
<1>21. CASE InferenceAnnounce /\ UNCHANGED cap
  <2>1. UNCHANGED <<queue, stats, InFlight>>
    BY <1>21 DEF InferenceAnnounce, TypeOK, InferenceStates, InFlight
  <2>. QED
    BY <1>21, <2>1, <1>16 DEF Held
<1>22. CASE InferencePop /\ UNCHANGED cap
  <2>1. CASE queue.frames # <<>>
    <3>1. /\ inf.at = "pop" /\ inf'.at = "detect" /\ UNCHANGED stats
          /\ queue'.dropped = queue.dropped /\ queue'.frames = Tail(queue.frames)
      BY <1>22, <2>1 DEF InferencePop, TypeOK, InferenceStates, Queues
    <3>2. Len(queue'.frames) + 1 = Len(queue.frames)
      BY <2>1, <3>1, QueueTyped DEF TypeOK
    <3>3. InFlight = 0 /\ InFlight' = 1
      BY <3>1 DEF InFlight
    <3>4. Held' = Held
      BY <3>1, <3>2, <3>3 DEF Held
    <3>. QED
      BY <1>22, <3>1, <3>4 DEF Counted, Uncounted
  <2>2. CASE queue.frames = <<>>
    <3>1. UNCHANGED <<queue, stats, InFlight>>
      BY <1>22, <2>2 DEF InferencePop, TypeOK, InferenceStates, InFlight
    <3>. QED
      BY <1>22, <3>1, <1>16 DEF Held
  <2>. QED
    BY <2>1, <2>2
<1>23. CASE InferenceCount /\ UNCHANGED cap
  <2>1. /\ stats'.captured = stats.captured /\ stats'.dropped = stats.dropped
        /\ stats'.processed = stats.processed + 1 /\ UNCHANGED queue
    BY <1>23 DEF InferenceCount, TypeOK, Counters
  <2>2. InFlight = 1 /\ InFlight' = 0
    BY <1>23 DEF InferenceCount, TypeOK, InferenceStates, InFlight
  <2>. QED
    BY <1>23, <2>1, <2>2, <1>16, SMTT(20) DEF Held
<1>24. CASE InferenceDepth /\ UNCHANGED cap
  <2>1. /\ stats'.captured = stats.captured /\ stats'.dropped = stats.dropped
        /\ stats'.processed = stats.processed /\ UNCHANGED queue
    BY <1>24 DEF InferenceDepth, TypeOK, Counters
  <2>2. UNCHANGED InFlight
    BY <1>24 DEF InferenceDepth, TypeOK, InferenceStates, InFlight
  <2>. QED
    BY <1>24, <2>1, <2>2, <1>16 DEF Held
<1>25. CASE Capture
  BY <1>25, <1>8, <1>9, <1>10, <1>11, <1>12, <1>13, <1>14, <1>15 DEF Capture
<1>26. CASE Inference
  BY <1>26, <1>17, <1>18, <1>19, <1>20, <1>21, <1>22, <1>23, <1>24 DEF Inference
<1>. QED
  BY <1>2, <1>3, <1>4, <1>5, <1>6, <1>7, <1>25, <1>26 DEF Next, Starting, Stopping
------------------------------------------------------------------------------
(* The order of the frames                                                   *)

\* The frame ids that the order is about are natural numbers.
LEMMA OrderTyped ==
    ASSUME TypeOK
    PROVE  /\ cap.frameId \in Nat /\ inf.packet \in Nat
           /\ out.logged \in Nat /\ out.latest \in Nat /\ out.announced \in Nat
           /\ queue.frames \in Seq(Nat) /\ Len(queue.frames) \in Nat
BY QueueTyped DEF TypeOK, CaptureStates, InferenceStates, Outputs

\* A step that moves none of the frames keeps their order.
LEMMA BehindKept ==
    ASSUME NEW d, Behind(d), queue'.frames = queue.frames, cap'.frameId = cap.frameId,
           out'.logged = out.logged,
           inf'.at \in {"detect", "analyse"} =>
               inf.at \in {"detect", "analyse"} /\ inf'.packet = inf.packet
    PROVE  Behind(d)'
BY DEF Behind

\* The frame read next: the newest in the queue is now one behind.
LEMMA BehindRead ==
    ASSUME TypeOK, Behind(0), UNCHANGED <<queue, out, inf>>, cap'.frameId = cap.frameId + 1
    PROVE  Behind(1)'
<1>. USE OrderTyped
<1>1. \A i \in 1..Len(queue.frames) :
          queue.frames[i] + 1 + Len(queue.frames) = cap'.frameId + i
  <2>. TAKE i \in 1..Len(queue.frames)
  <2>1. PICK f \in Nat, n \in Nat, a \in Nat :
            f = cap.frameId /\ n = Len(queue.frames) /\ a = queue.frames[i]
    OBVIOUS
  <2>2. a + 0 + n = f + i /\ i \in Nat
    BY <2>1 DEF Behind
  <2>3. a + 1 + n = (f + 1) + i
    BY <2>2
  <2>. QED
    BY <2>1, <2>3
<1>2. out.logged + 1 + Len(queue.frames) <= cap'.frameId
  BY DEF Behind
<1>3. inf.at \in {"detect", "analyse"} =>
          out.logged <= inf.packet /\ inf.packet + 1 + Len(queue.frames) <= cap'.frameId
  BY DEF Behind
<1>. QED
  BY <1>1, <1>2, <1>3 DEF Behind

\* The frame read last is appended by push: nothing is behind any more.
LEMMA BehindAppended ==
    ASSUME TypeOK, Behind(1), UNCHANGED <<out, inf>>, cap'.frameId = cap.frameId,
           queue'.frames = Append(queue.frames, cap.frameId)
    PROVE  Behind(0)'
<1>. USE OrderTyped
<1>1. Len(queue'.frames) = Len(queue.frames) + 1
  OBVIOUS
<1>2. \A i \in 1..Len(queue'.frames) :
          queue'.frames[i] + 0 + Len(queue'.frames) = cap.frameId + i
  <2>. TAKE i \in 1..Len(queue'.frames)
  <2>1. CASE i = Len(queue'.frames)
    BY <2>1, <1>1
  <2>2. CASE i \in 1..Len(queue.frames)
    <3>1. queue'.frames[i] = queue.frames[i]
      BY <2>2
    <3>2. queue.frames[i] + 1 + Len(queue.frames) = cap.frameId + i
      BY <2>2 DEF Behind
    <3>. QED
      BY <1>1, <3>1, <3>2
  <2>. QED
    BY <1>1, <2>1, <2>2
<1>3. out.logged + 0 + Len(queue'.frames) <= cap.frameId
  BY <1>1 DEF Behind
<1>4. inf.at \in {"detect", "analyse"} =>
          out.logged <= inf.packet /\ inf.packet + 0 + Len(queue'.frames) <= cap.frameId
  BY <1>1 DEF Behind
<1>. QED
  BY <1>2, <1>3, <1>4 DEF Behind

\* The same when DropOldest evicts the head of the queue.
LEMMA BehindReplaced ==
    ASSUME TypeOK, Behind(1), UNCHANGED <<out, inf>>, cap'.frameId = cap.frameId,
           Len(queue.frames) > 0, queue'.frames = Append(Tail(queue.frames), cap.frameId)
    PROVE  Behind(0)'
<1>. USE OrderTyped
<1>1. Len(queue'.frames) = Len(queue.frames)
  OBVIOUS
<1>2. \A i \in 1..Len(queue'.frames) :
          queue'.frames[i] + 0 + Len(queue'.frames) = cap.frameId + i
  <2>. TAKE i \in 1..Len(queue'.frames)
  <2>1. CASE i = Len(queue'.frames)
    BY <2>1, <1>1
  <2>2. CASE i + 1 \in 1..Len(queue.frames)
    <3>1. queue'.frames[i] = queue.frames[i + 1]
      BY <2>2
    <3>2. queue.frames[i + 1] + 1 + Len(queue.frames) = cap.frameId + (i + 1)
      BY <2>2 DEF Behind
    <3>3. queue.frames[i + 1] \in Nat
      BY <2>2, SMTT(20)
    <3>4. PICK f \in Nat, n \in Nat, a \in Nat :
              f = cap.frameId /\ n = Len(queue.frames) /\ a = queue.frames[i + 1]
      BY <3>3
    <3>5. a + 1 + n = f + (i + 1) /\ i \in Nat
      BY <1>1, <3>2, <3>4
    <3>6. a + 0 + n = f + i
      BY <3>5
    <3>. QED
      BY <1>1, <3>1, <3>4, <3>6
  <2>. QED
    BY <1>1, <2>1, <2>2
<1>3. out.logged + 0 + Len(queue'.frames) <= cap.frameId
  BY <1>1 DEF Behind
<1>4. inf.at \in {"detect", "analyse"} =>
          out.logged <= inf.packet /\ inf.packet + 0 + Len(queue'.frames) <= cap.frameId
  BY <1>1, SMTT(20) DEF Behind
<1>. QED
  BY <1>2, <1>3, <1>4 DEF Behind

\* pop hands out the head of the queue, the oldest frame of it.
LEMMA BehindTaken ==
    ASSUME TypeOK, NEW d \in {0, 1}, Behind(d), UNCHANGED <<out, cap>>, queue.frames # <<>>,
           queue'.frames = Tail(queue.frames), inf'.packet = Head(queue.frames)
    PROVE  Behind(d)'
<1>. USE OrderTyped
<1>1. Len(queue'.frames) = Len(queue.frames) - 1 /\ Len(queue.frames) \in Nat \ {0}
  OBVIOUS
<1>2. \A i \in 1..Len(queue'.frames) :
          queue'.frames[i] + d + Len(queue'.frames) = cap.frameId + i
  <2>. TAKE i \in 1..Len(queue'.frames)
  <2>1. i + 1 \in 1..Len(queue.frames) /\ queue'.frames[i] = queue.frames[i + 1]
    BY <1>1
  <2>2. queue.frames[i + 1] + d + Len(queue.frames) = cap.frameId + (i + 1)
    BY <2>1 DEF Behind
  <2>3. queue.frames[i + 1] \in Nat
    BY <2>1
  <2>4. PICK f \in Nat, n \in Nat, a \in Nat :
            f = cap.frameId /\ n = Len(queue.frames) /\ a = queue.frames[i + 1]
    BY <2>3
  <2>5. a + d + n = f + (i + 1) /\ i \in Nat
    BY <1>1, <2>2, <2>4
  <2>6. a + d + (n - 1) = f + i
    BY <2>5
  <2>. QED
    BY <1>1, <2>1, <2>4, <2>6
<1>3. out.logged + d + Len(queue.frames) <= cap.frameId
  BY DEF Behind
<1>4. inf'.packet \in Nat /\ inf'.packet + d + Len(queue.frames) = cap.frameId + 1
  <2>1. 1 \in 1..Len(queue.frames) /\ Head(queue.frames) = queue.frames[1]
    BY <1>1
  <2>. QED
    BY <2>1, SMTT(20) DEF Behind
<1>5. out.logged + d + Len(queue'.frames) <= cap.frameId
  BY <1>1, <1>3, SMTT(20)
<1>6. out.logged <= inf'.packet /\ inf'.packet + d + Len(queue'.frames) <= cap.frameId
  <2>1. PICK f \in Nat, n \in Nat \ {0}, l \in Nat, p \in Nat :
            f = cap.frameId /\ n = Len(queue.frames) /\ l = out.logged /\ p = inf'.packet
    BY <1>1, <1>4
  <2>2. l + d + n <= f /\ p + d + n = f + 1
    BY <1>3, <1>4, <2>1
  <2>3. l <= p /\ p + d + (n - 1) <= f
    BY <2>2
  <2>. QED
    BY <1>1, <2>1, <2>3
<1>. QED
  BY <1>2, <1>5, <1>6 DEF Behind

\* The events of the packet in hand are appended to the event log.
LEMMA BehindLogged ==
    ASSUME TypeOK, NEW d \in {0, 1}, Behind(d), UNCHANGED <<queue, cap>>,
           inf.at = "analyse", inf'.at = "publish", out'.logged = inf.packet
    PROVE  Behind(d)'
BY OrderTyped DEF Behind

\* joinWorkers destroys the queue with what is left in it.
LEMMA BehindEmptied ==
    ASSUME TypeOK, NEW d \in {0, 1}, Behind(d), cap'.frameId = cap.frameId,
           out'.logged = out.logged, inf'.at = "none", queue'.frames = <<>>
    PROVE  Behind(d)'
BY OrderTyped DEF Behind

\* Places of the capture loop at which no frame waits to be pushed.
LEMMA LocatedKept ==
    ASSUME Located, Behind(0) => Behind(0)', Behind(1) => Behind(1)',
           \/ cap'.at = cap.at
           \/ cap'.at \in {"none", "done"}
           \/ {cap.at, cap'.at} \cap {"push", "none", "done"} = {}
    PROVE  Located'
<1>1. CASE cap'.at = cap.at
  BY <1>1 DEF Located
<1>2. CASE cap'.at \in {"none", "done"}
  BY <1>2 DEF Located
<1>3. CASE {cap.at, cap'.at} \cap {"push", "none", "done"} = {}
  <2>1. cap.at \notin {"push", "none", "done"} /\ cap'.at \notin {"push", "none", "done"}
    BY <1>3
  <2>. QED
    BY <2>1 DEF Located
<1>. QED
  BY <1>1, <1>2, <1>3

\* Every step keeps the order of the frames in queue, log, mailbox and callback.
LEMMA OrderedStep == TypeOK /\ Owned /\ Phases /\ Ordered /\ [Next]_vars => Ordered'
<1>. SUFFICES ASSUME TypeOK, Owned, Phases, Ordered, [Next]_vars PROVE Ordered'
  OBVIOUS
<1>a. Located /\ Outputted /\ Len(queue.frames) <= Capacity
  BY DEF Ordered
<1>1. ASSUME UNCHANGED <<cap, queue, inf, out>> PROVE Ordered'
  BY <1>1 DEF Ordered, Located, Behind, Outputted
<1>2. ASSUME NEW c \in Controllers,
             \/ StartCall(c) \/ StartReturns(c) \/ StartDone(c) \/ StopCall(c)
             \/ RequestCaptureStop(c) \/ RequestInferenceStop(c)
             \/ CloseSourceBegin(c) \/ CloseSourceEnd(c)
      PROVE  Ordered'
  BY <1>1, <1>2 DEF StartCall, StartReturns, StartDone, StopCall, RequestCaptureStop,
     RequestInferenceStop, CloseSourceBegin, CloseSourceEnd, workers
<1>3. ASSUME NEW c \in Controllers, StartPrepare(c) PROVE Ordered'
  <2>1. lifecycle = c /\ ctl[c] = "start" /\ ~running
    BY <1>3 DEF StartPrepare, Advance, Owned
  <2>2. inf.at = "none"
    BY <2>1 DEF Phases, PhaseOf, Started, Stopped
  <2>3. inf'.at = "none" /\ cap'.at = "loop" /\ cap'.frameId = 0
    BY <1>3, <2>2 DEF StartPrepare, IdleCapture, TypeOK, InferenceStates
  <2>4. queue'.frames = <<>>
    BY <1>3 DEF StartPrepare, NewQueue, NoQueue
  <2>5. out'.logged = 0 /\ out'.latest = 0 /\ out'.announced = 0
    BY <1>3 DEF StartPrepare, NoOutput, NoFrame
  <2>6. Behind(0)'
    BY <2>3, <2>4, <2>5 DEF Behind
  <2>. QED
    BY <2>3, <2>4, <2>5, <2>6, CapacityAssumption DEF Ordered, Located, Outputted
<1>4. ASSUME NEW c \in Controllers, StartInference(c) PROVE Ordered'
  <2>1. inf'.at = "loop" /\ UNCHANGED <<queue, cap, out>>
    BY <1>4 DEF StartInference, IdleInference
  <2>2. Located'
    BY <1>a, <2>1, BehindKept, LocatedKept
  <2>. QED
    BY <1>a, <2>1, <2>2 DEF Ordered, Outputted
<1>5. ASSUME NEW c \in Controllers, CloseQueue(c) PROVE Ordered'
  <2>1. queue'.frames = queue.frames /\ UNCHANGED <<cap, inf, out>>
    BY <1>5 DEF CloseQueue, workers, TypeOK, Queues
  <2>2. Located'
    BY <1>a, <2>1, BehindKept, LocatedKept
  <2>. QED
    BY <1>a, <2>1, <2>2 DEF Ordered, Outputted
<1>6. ASSUME NEW c \in Controllers, JoinCapture(c) PROVE Ordered'
  <2>1. /\ cap'.at = "none" /\ cap'.frameId = cap.frameId
        /\ UNCHANGED <<queue, inf, out>>
    BY <1>6 DEF JoinCapture, TypeOK, CaptureStates
  <2>2. Located'
    BY <1>a, <2>1, BehindKept, LocatedKept
  <2>. QED
    BY <1>a, <2>1, <2>2 DEF Ordered, Outputted
<1>7. ASSUME NEW c \in Controllers, JoinInference(c) PROVE Ordered'
  <2>1. inf'.at = "none" /\ queue'.frames = <<>> /\ UNCHANGED <<cap, out>>
    BY <1>7 DEF JoinInference, NoQueue, TypeOK, InferenceStates
  <2>2. Located'
    BY <1>a, <2>1, BehindEmptied, LocatedKept
  <2>. QED
    BY <1>a, <2>1, <2>2, CapacityAssumption DEF Ordered, Outputted
<1>8. CASE \/ \E m \in Modes : SetMode(m)
           \/ ReleaseSource \/ AdoptSource \/ UNCHANGED vars
  BY <1>1, <1>8 DEF SetMode, ReleaseSource, AdoptSource, workers, vars
<1>9. ASSUME queue'.frames = queue.frames, UNCHANGED <<inf, out>>, cap'.frameId = cap.frameId,
             \/ cap'.at = "done"
             \/ {cap.at, cap'.at} \cap {"push", "none", "done"} = {}
      PROVE  Ordered'
  <2>1. Located'
    BY <1>a, <1>9, BehindKept, LocatedKept
  <2>. QED
    BY <1>a, <1>9, <2>1 DEF Ordered, Outputted
<1>10. CASE CaptureLoop /\ UNCHANGED <<inf, out>>
  <2>1. /\ queue' = queue /\ cap'.frameId = cap.frameId
        /\ cap'.at = "done" \/ cap'.at \notin {"push", "none", "done"}
        /\ cap.at \notin {"push", "none", "done"}
    BY <1>10 DEF CaptureLoop, TypeOK, CaptureStates
  <2>. QED
    BY <1>9, <1>10, <2>1
<1>11. CASE CaptureReadFails /\ UNCHANGED <<inf, out>>
  <2>1. /\ queue' = queue /\ cap'.frameId = cap.frameId
        /\ cap'.at = "done" \/ cap'.at \notin {"push", "none", "done"}
        /\ cap.at \notin {"push", "none", "done"}
    BY <1>11 DEF CaptureReadFails, TypeOK, CaptureStates
  <2>. QED
    BY <1>9, <1>11, <2>1
<1>12. CASE CaptureRecheck /\ UNCHANGED <<inf, out>>
  <2>1. /\ queue' = queue /\ cap'.frameId = cap.frameId
        /\ cap'.at = "done" \/ cap'.at \notin {"push", "none", "done"}
        /\ cap.at \notin {"push", "none", "done"}
    BY <1>12 DEF CaptureRecheck, TypeOK, CaptureStates
  <2>. QED
    BY <1>9, <1>12, <2>1
<1>13. CASE CaptureCount /\ UNCHANGED <<inf, out>>
  <2>1. /\ queue' = queue /\ cap'.frameId = cap.frameId
        /\ cap'.at = "done" \/ cap'.at \notin {"push", "none", "done"}
        /\ cap.at \notin {"push", "none", "done"}
    BY <1>13 DEF CaptureCount, TypeOK, CaptureStates
  <2>. QED
    BY <1>9, <1>13, <2>1
<1>14. CASE CaptureCountDrops /\ UNCHANGED <<inf, out>>
  <2>1. /\ queue' = queue /\ cap'.frameId = cap.frameId
        /\ cap'.at = "done" \/ cap'.at \notin {"push", "none", "done"}
        /\ cap.at \notin {"push", "none", "done"}
    BY <1>14 DEF CaptureCountDrops, TypeOK, CaptureStates
  <2>. QED
    BY <1>9, <1>14, <2>1
<1>15. CASE CaptureDepth /\ UNCHANGED <<inf, out>>
  <2>1. /\ queue' = queue /\ cap'.frameId = cap.frameId
        /\ cap'.at = "done" \/ cap'.at \notin {"push", "none", "done"}
        /\ cap.at \notin {"push", "none", "done"}
    BY <1>15 DEF CaptureDepth, TypeOK, CaptureStates
  <2>. QED
    BY <1>9, <1>15, <2>1
<1>16. CASE CaptureRead /\ UNCHANGED <<inf, out>>
  <2>1. /\ cap.at = "reading" /\ cap'.at = "push" /\ cap'.frameId = cap.frameId + 1
        /\ UNCHANGED queue
    BY <1>16 DEF CaptureRead, TypeOK, CaptureStates
  <2>2. Behind(0)
    BY <1>a, <2>1 DEF Located
  <2>3. Behind(1)'
    BY <1>16, <2>1, <2>2, BehindRead
  <2>. QED
    BY <1>a, <1>16, <2>1, <2>3 DEF Ordered, Located, Outputted
<1>17. CASE CapturePush /\ UNCHANGED <<inf, out>>
  <2>1. cap.at = "push" /\ Behind(1) /\ cap'.frameId = cap.frameId
    BY <1>a, <1>17 DEF CapturePush, Located, TypeOK, CaptureStates
  <2>2. CASE queue.is = "closed"
    <3>1. cap'.at = "done" /\ queue' = queue
      BY <1>17, <2>2 DEF CapturePush, TypeOK, CaptureStates
    <3>. QED
      BY <1>9, <1>17, <2>1, <3>1
  <2>3. CASE queue.is = "open" /\ Len(queue.frames) < Capacity
    <3>1. cap'.at = "pushed" /\ queue'.frames = Append(queue.frames, cap.frameId)
      <4>1. ~(Len(queue.frames) >= Capacity)
        BY <2>3, OrderTyped, CapacityAssumption
      <4>2. /\ cap' = [cap EXCEPT !.at = "pushed"]
            /\ queue' = [queue EXCEPT !.frames = Append(@, cap.frameId)]
        BY <1>17, <2>3, <4>1 DEF CapturePush
      <4>. QED
        BY <4>2 DEF TypeOK, CaptureStates, Queues
    <3>2. Behind(0)'
      BY <1>17, <2>1, <3>1, BehindAppended
    <3>3. Len(queue'.frames) <= Capacity
      BY <2>3, <3>1, OrderTyped, CapacityAssumption
    <3>. QED
      BY <1>a, <1>17, <3>1, <3>2, <3>3 DEF Ordered, Located, Outputted
  <2>4. CASE queue.is = "open" /\ Len(queue.frames) >= Capacity
    <3>1. cap'.at = "pushed" /\ queue'.frames = Append(Tail(queue.frames), cap.frameId)
      <4>1. ~(Len(queue.frames) < Capacity)
        BY <2>4, OrderTyped, CapacityAssumption
      <4>2. /\ cap' = [cap EXCEPT !.at = "pushed"]
            /\ queue' = [queue EXCEPT !.frames = Append(Tail(@), cap.frameId),
                                      !.dropped = @ + 1]
        BY <1>17, <2>4, <4>1 DEF CapturePush
      <4>. QED
        BY <4>2 DEF TypeOK, CaptureStates, Queues
    <3>2. Len(queue.frames) > 0
      BY <2>4, OrderTyped, CapacityAssumption
    <3>3. Behind(0)'
      BY <1>17, <2>1, <3>1, <3>2, BehindReplaced
    <3>4. Len(queue'.frames) <= Capacity
      <4>1. Len(queue'.frames) = Len(queue.frames)
        BY <3>1, <3>2, OrderTyped
      <4>. QED
        BY <1>a, <4>1
    <3>. QED
      BY <1>a, <1>17, <3>1, <3>3, <3>4 DEF Ordered, Located, Outputted
  <2>. QED
    BY <1>17, <2>2, <2>3, <2>4 DEF CapturePush
<1>18. ASSUME UNCHANGED <<cap, queue>>, out'.logged = out.logged, Outputted',
              inf'.at \in {"detect", "analyse"} =>
                  inf.at \in {"detect", "analyse"} /\ inf'.packet = inf.packet
       PROVE  Ordered'
  <2>1. Located'
    BY <1>a, <1>18, BehindKept, LocatedKept
  <2>. QED
    BY <1>a, <1>18, <2>1 DEF Ordered
<1>19. CASE InferenceLoop /\ UNCHANGED cap
  <2>1. /\ inf'.at \in {"done", "pop"}
        /\ inf'.packet = inf.packet /\ UNCHANGED out
        /\ UNCHANGED queue
    BY <1>19 DEF InferenceLoop, TypeOK, InferenceStates
  <2>2. Outputted'
    BY <1>a, <2>1, OrderTyped DEF Outputted
  <2>. QED
    BY <1>18, <1>19, <2>1, <2>2
<1>20. CASE InferenceDetect /\ UNCHANGED cap
  <2>1. /\ inf.at = "detect" /\ inf'.at = "analyse"
        /\ inf'.packet = inf.packet /\ UNCHANGED out
        /\ UNCHANGED queue
    BY <1>20 DEF InferenceDetect, TypeOK, InferenceStates
  <2>2. Outputted'
    BY <1>a, <2>1, OrderTyped DEF Outputted
  <2>. QED
    BY <1>18, <1>20, <2>1, <2>2
<1>21. CASE InferencePublish /\ UNCHANGED cap
  <2>1. /\ inf.at = "publish" /\ inf'.at = "count" /\ out'.latest = inf.packet
        /\ inf'.packet = inf.packet /\ out'.logged = out.logged /\ out'.announced = out.announced
        /\ UNCHANGED queue
    BY <1>21 DEF InferencePublish, TypeOK, InferenceStates, Outputs
  <2>2. Outputted'
    BY <1>a, <2>1, OrderTyped DEF Outputted
  <2>. QED
    BY <1>18, <1>21, <2>1, <2>2
<1>22. CASE InferenceCount /\ UNCHANGED cap
  <2>1. /\ inf.at = "count" /\ inf'.at = "depth"
        /\ inf'.packet = inf.packet /\ UNCHANGED out
        /\ UNCHANGED queue
    BY <1>22 DEF InferenceCount, TypeOK, InferenceStates
  <2>2. Outputted'
    BY <1>a, <2>1, OrderTyped DEF Outputted
  <2>. QED
    BY <1>18, <1>22, <2>1, <2>2
<1>23. CASE InferenceDepth /\ UNCHANGED cap
  <2>1. /\ inf.at = "depth" /\ inf'.at = "announce"
        /\ inf'.packet = inf.packet /\ UNCHANGED out
        /\ UNCHANGED queue
    BY <1>23 DEF InferenceDepth, TypeOK, InferenceStates
  <2>2. Outputted'
    BY <1>a, <2>1, OrderTyped DEF Outputted
  <2>. QED
    BY <1>18, <1>23, <2>1, <2>2
<1>24. CASE InferenceAnnounce /\ UNCHANGED cap
  <2>1. /\ inf.at = "announce" /\ inf'.at = "loop" /\ out'.announced = inf.packet
        /\ inf'.packet = inf.packet /\ out'.logged = out.logged /\ out'.latest = out.latest
        /\ UNCHANGED queue
    BY <1>24 DEF InferenceAnnounce, TypeOK, InferenceStates, Outputs
  <2>2. Outputted'
    BY <1>a, <2>1, OrderTyped DEF Outputted
  <2>. QED
    BY <1>18, <1>24, <2>1, <2>2
<1>25. CASE InferencePop /\ UNCHANGED <<cap, out>>
  <2>1. CASE queue.frames # <<>>
    <3>1. /\ inf'.at = "detect" /\ inf'.packet = Head(queue.frames)
          /\ queue'.frames = Tail(queue.frames)
      BY <1>25, <2>1 DEF InferencePop, TypeOK, InferenceStates, Queues
    <3>2. (Behind(0) => Behind(0)') /\ (Behind(1) => Behind(1)')
      BY <1>25, <2>1, <3>1, BehindTaken
    <3>3. Located'
      BY <1>a, <1>25, <3>2, LocatedKept
    <3>4. Len(queue'.frames) <= Capacity
      BY <1>a, <2>1, <3>1, OrderTyped, CapacityAssumption
    <3>. QED
      BY <1>a, <1>25, <3>1, <3>3, <3>4 DEF Ordered, Outputted
  <2>2. CASE queue.frames = <<>>
    <3>1. inf'.at = "done" /\ UNCHANGED queue
      BY <1>25, <2>2 DEF InferencePop, TypeOK, InferenceStates
    <3>2. Outputted'
      BY <1>a, <1>25, <3>1 DEF Outputted
    <3>. QED
      BY <1>18, <1>25, <3>1, <3>2
  <2>. QED
    BY <2>1, <2>2
<1>26. CASE InferenceAnalyse /\ UNCHANGED cap
  <2>1. /\ inf.at = "analyse" /\ inf'.at = "publish" /\ inf'.packet = inf.packet
        /\ out'.logged = inf.packet /\ out'.latest = out.latest
        /\ out'.announced = out.announced /\ UNCHANGED queue
    BY <1>26 DEF InferenceAnalyse, TypeOK, InferenceStates, Outputs
  <2>2. (Behind(0) => Behind(0)') /\ (Behind(1) => Behind(1)')
    BY <1>26, <2>1, BehindLogged
  <2>3. Located'
    BY <1>a, <1>26, <2>2, LocatedKept
  <2>4. out.logged <= inf.packet
    BY <1>a, <2>1 DEF Located, Behind
  <2>5. Outputted'
    BY <1>a, <2>1, <2>4, OrderTyped DEF Outputted
  <2>. QED
    BY <1>a, <2>1, <2>3, <2>5 DEF Ordered
<1>27. CASE Capture
  BY <1>10, <1>11, <1>12, <1>13, <1>14, <1>15, <1>16, <1>17, <1>27 DEF Capture
<1>28. CASE Inference
  BY <1>19, <1>20, <1>21, <1>22, <1>23, <1>24, <1>25, <1>26, <1>28
  DEF Inference, InferencePop
<1>. QED
  BY <1>2, <1>3, <1>4, <1>5, <1>6, <1>7, <1>8, <1>27, <1>28 DEF Next, Starting, Stopping
------------------------------------------------------------------------------
(* The theorems                                                              *)

\* A pipeline just built satisfies the inductive invariant.
LEMMA InitIInv == Init => IInv
<1>. SUFFICES ASSUME Init PROVE IInv
  OBVIOUS
<1>1. /\ lifecycle = NoOne /\ cap.at = "none" /\ inf.at = "none" /\ queue.is = "absent"
      /\ queue.frames = <<>> /\ ~running /\ ~source.open
      /\ cap.frameId = 0 /\ out.logged = 0 /\ out.latest = 0 /\ out.announced = 0
  BY DEF Init, IdleCapture, IdleInference, NoQueue, NoOutput, NoFrame
<1>2. TypeOK
  <2>1. queue \in Queues /\ cap \in CaptureStates /\ inf \in InferenceStates
    BY DEF Init, NoQueue, IdleCapture, IdleInference, NoFrame, Queues, CaptureStates,
       CapturePlaces, InferenceStates, InferencePlaces
  <2>2. out \in Outputs /\ stats \in Counters /\ source \in Sources /\ stop \in StopTokens
    BY DEF Init, NoOutput, NoFrame, NoStats, Outputs, Counters, Sources, StopTokens
  <2>. QED
    BY <2>1, <2>2 DEF Init, TypeOK, ControlPlaces
<1>3. Owned
  BY NamesAssumption DEF Init, Owned
<1>4. Phases
  BY <1>1, NamesAssumption DEF Phases, Stopped
<1>5. Counted
  BY <1>1 DEF Counted
<1>6. Ordered
  <2>1. Behind(0)
    BY <1>1 DEF Behind
  <2>. QED
    BY <1>1, <2>1, CapacityAssumption DEF Ordered, Located, Outputted
<1>. QED
  BY <1>2, <1>3, <1>4, <1>5, <1>6 DEF IInv

\* The invariant is inductive: no step of any thread breaks it.
LEMMA NextIInv == IInv /\ [Next]_vars => IInv'
BY TypeStep, OwnedStep, PhaseStep, CountedStep, OrderedStep DEF IInv

\* The inductive invariant holds in every reachable state.
THEOREM Invariance == Spec => []IInv
BY InitIInv, NextIInv, PTL DEF Spec

\* The variables keep their types; in particular no counter of StatsProbe ever
\* goes below zero (std::uint64_t in the code).
THEOREM TypeCorrect == Spec => []TypeOK
<1>1. IInv => TypeOK
  BY DEF IInv
<1>. QED
  BY <1>1, Invariance, PTL

\* isRunning() agrees with the threads, the queue and the source whenever no
\* call of start or stop is in progress.
THEOREM RunningIsTrue == Spec => []LifecycleAgrees
<1>1. IInv => LifecycleAgrees
  BY DEF IInv, Phases, Started, Stopped, CaptureWorks, InferenceWorks, LifecycleAgrees
<1>. QED
  BY <1>1, Invariance, PTL

\* joinWorkers destroys the queue after both threads have ended, never before.
THEOREM QueueIsOutlived == Spec => []QueueOutlivesWorkers
<1>1. IInv => QueueOutlivesWorkers
  <2>. SUFFICES ASSUME IInv, queue.is = "absent" PROVE cap.at = "none" /\ inf.at = "none"
    BY DEF QueueOutlivesWorkers
  <2>1. CASE lifecycle = NoOne
    BY <2>1 DEF IInv, Phases, Started, Stopped
  <2>2. ASSUME NEW c \in Controllers, lifecycle = c PROVE cap.at = "none" /\ inf.at = "none"
    <3>1. PhaseOf(ctl[c]) /\ ctl[c] \in ControlPlaces \ {"idle"}
      BY <2>2 DEF IInv, Phases, Owned, TypeOK
    <3>. QED
      BY <3>1 DEF PhaseOf, ControlPlaces, Started, Stopped, Launching, Launched, NoWorkers,
         BothWorkers, InferenceAlone
  <2>. QED
    BY <2>1, <2>2 DEF IInv, TypeOK
<1>. QED
  BY <1>1, Invariance, PTL

\* Flag, threads, queue and source agree, and no worker is without its queue.
THEOREM LifecycleIsSound == Spec => []LifecycleSound
<1>1. LifecycleAgrees /\ QueueOutlivesWorkers => LifecycleSound
  BY DEF LifecycleSound
<1>. QED
  BY <1>1, RunningIsTrue, QueueIsOutlived, PTL

\* captured = dropped + queued + in hand + processed between two frames of the
\* capture thread, whatever the two threads and the controllers do.
THEOREM FramesAreAccounted == Spec => []FramesAccounted
<1>1. IInv => FramesAccounted
  BY DEF IInv, Counted, Held, FramesAccounted
<1>. QED
  BY <1>1, Invariance, PTL

\* Event log, mailbox and callback never run ahead of one another, and nothing
\* of an earlier session is visible in a later one.
THEOREM ReadersAreOrdered == Spec => []ReadersSeeOrder
<1>1. IInv => ReadersSeeOrder
  <2>. SUFFICES ASSUME IInv PROVE ReadersSeeOrder
    OBVIOUS
  <2>. USE OrderTyped DEF IInv
  <2>1. Outputted /\ (Behind(0) \/ Behind(1))
    BY DEF Ordered, Located
  <2>2. out.logged <= cap.frameId
    BY <2>1 DEF Behind
  <2>. QED
    BY <2>1, <2>2 DEF Outputted, ReadersSeeOrder
<1>. QED
  BY <1>1, Invariance, PTL

\* What no step of a controller and no step of the capture thread does.
LEMMA OthersKeepOutput ==
    ASSUME TypeOK, [Next]_vars, ~Inference
    PROVE  /\ out' = out \/ (session' = session + 1 /\ out'.latest = NoFrame)
           /\ inf'.at = "detect" => inf.at = "detect"
<1>1. CASE Capture
  BY <1>1, CaptureMoves
<1>2. CASE UNCHANGED vars \/ (\E m \in Modes : SetMode(m)) \/ ReleaseSource \/ AdoptSource
  BY <1>2 DEF vars, SetMode, ReleaseSource, AdoptSource, workers
<1>3. ASSUME NEW c \in Controllers,
             \/ StartCall(c) \/ StartReturns(c) \/ StartDone(c) \/ StopCall(c)
             \/ RequestCaptureStop(c) \/ RequestInferenceStop(c)
             \/ CloseSourceBegin(c) \/ CloseSourceEnd(c) \/ CloseQueue(c) \/ JoinCapture(c)
      PROVE  UNCHANGED <<out, inf>>
  BY <1>3 DEF StartCall, StartReturns, StartDone, StopCall, RequestCaptureStop,
     RequestInferenceStop, CloseSourceBegin, CloseSourceEnd, CloseQueue, JoinCapture, workers
<1>4. ASSUME NEW c \in Controllers, StartInference(c) \/ JoinInference(c)
      PROVE  out' = out /\ inf'.at \in {"loop", "none"}
  BY <1>4 DEF StartInference, JoinInference, IdleInference, TypeOK, InferenceStates
<1>5. ASSUME NEW c \in Controllers, StartPrepare(c)
      PROVE  session' = session + 1 /\ out'.latest = NoFrame /\ inf'.at = inf.at
  BY <1>5 DEF StartPrepare, NoOutput, TypeOK, InferenceStates
<1>. QED
  BY <1>1, <1>2, <1>3, <1>4, <1>5 DEF Next, Starting, Stopping

\* Within a session the mailbox never goes back to an older frame.
THEOREM LatestIsMonotonic == Spec => LatestMovesForward
<1>1. IInv /\ [Next]_vars =>
          [out'.latest >= out.latest \/ (session' # session /\ out'.latest = NoFrame)]_vars
  <2>. SUFFICES ASSUME IInv, [Next]_vars
                PROVE  out'.latest >= out.latest \/ (session' # session /\ out'.latest = NoFrame)
    OBVIOUS
  <2>. USE OrderTyped DEF IInv
  <2>1. CASE ~Inference
    <3>1. session \in Nat
      BY DEF TypeOK
    <3>. QED
      BY <2>1, <3>1, OthersKeepOutput
  <2>2. CASE InferencePublish
    <3>1. inf.at = "publish" /\ out'.latest = inf.packet
      BY <2>2 DEF InferencePublish, TypeOK, Outputs
    <3>. QED
      BY <3>1 DEF Ordered, Outputted
  <2>3. CASE \/ InferenceLoop \/ InferencePop \/ InferenceDetect \/ InferenceAnalyse
             \/ InferenceCount \/ InferenceDepth \/ InferenceAnnounce
    <3>1. out'.latest = out.latest
      BY <2>3 DEF InferenceLoop, InferencePop, InferenceDetect, InferenceAnalyse,
         InferenceCount, InferenceDepth, InferenceAnnounce, TypeOK, Outputs
    <3>. QED
      BY <3>1
  <2>. QED
    BY <2>1, <2>2, <2>3 DEF Inference
<1>. QED
  BY <1>1, Invariance, PTL DEF Spec, LatestMovesForward

\* DropOldest keeps inference fresh: for every capacity, the frame taken is one
\* of the newest Capacity + 1 frames read, in every interleaving.
THEOREM FramesTakenAreFresh == Spec => TakesFreshFrame
<1>1. IInv /\ [Next]_vars =>
          [inf.at = "pop" /\ inf'.at = "detect" => inf'.packet + Capacity >= cap.frameId]_vars
  <2>. SUFFICES ASSUME IInv, [Next]_vars, inf.at = "pop", inf'.at = "detect"
                PROVE  inf'.packet + Capacity >= cap.frameId
    OBVIOUS
  <2>. USE OrderTyped DEF IInv
  <2>1. Inference
    BY OthersKeepOutput
  <2>2. InferencePop
    BY <2>1 DEF Inference, InferenceLoop, InferenceDetect, InferenceAnalyse, InferencePublish,
       InferenceCount, InferenceDepth, InferenceAnnounce
  <2>3. queue.frames # <<>> /\ inf'.packet = queue.frames[1]
    <3>1. queue.frames # <<>> /\ inf'.packet = Head(queue.frames)
      BY <2>2 DEF InferencePop, TypeOK, InferenceStates
    <3>. QED
      BY <3>1
  <2>4. PICK d \in {0, 1} : Behind(d)
    BY DEF Ordered, Located
  <2>5. 1 \in 1..Len(queue.frames) /\ queue.frames[1] \in Nat
    BY <2>3
  <2>6. PICK f \in Nat, n \in Nat, p \in Nat :
            f = cap.frameId /\ n = Len(queue.frames) /\ p = queue.frames[1]
    BY <2>5
  <2>7. p + d + n = f + 1 /\ n <= Capacity
    BY <2>4, <2>5, <2>6 DEF Behind, Ordered
  <2>8. p + Capacity >= f
    BY <2>7, CapacityAssumption
  <2>. QED
    BY <2>3, <2>6, <2>8
<1>. QED
  BY <1>1, Invariance, PTL DEF Spec, TakesFreshFrame
===============================================================================
