---------------------------- MODULE VisionPipeline ----------------------------
(***************************************************************************)
(* pipeline/VisionPipeline.cpp with its two worker threads                 *)
(* (CaptureWorker.cpp, InferenceWorker.cpp), the queue between them, the   *)
(* LatestResult mailbox, the StatsProbe counters and the EventLog.         *)
(*                                                                         *)
(* A step is what a thread does between two moments at which another       *)
(* thread can look: a lock of the queue, the mailbox or the probe, a load  *)
(* of the atomic mode, the beginning and the end of a call into the video  *)
(* source, a request or a join of joinWorkers.  What only one thread       *)
(* touches (tracker, rule engine, locals) rides on that thread's step.     *)
(*                                                                         *)
(* A frame is the id CaptureWorker gives it.  The queue is used as the     *)
(* bounded lossy channel that BoundedQueue is shown to implement.          *)
(***************************************************************************)
EXTENDS Integers, Sequences, FiniteSets

CONSTANTS Controllers,  \* threads that call start, stop, releaseSource, ...
          Modes,        \* DetectionMode
          NoMode,       \* an empty optional mode; no detections
          NoOne,        \* nobody holds m_lifecycle
          Capturer,     \* the capture thread, as a caller of the source
          Capacity,     \* m_queueCapacity
          MaxFrames,    \* bound: frames the source delivers in one session
          MaxSessions   \* bound: successful starts

ASSUME CapacityAssumption == Capacity \in Nat \ {0}
ASSUME BoundsAssumption == MaxFrames \in Nat /\ MaxSessions \in Nat
ASSUME NamesAssumption == /\ NoMode \notin Modes
                          /\ NoOne \notin Controllers /\ Capturer \notin Controllers

VARIABLES
  lifecycle, \* owner of m_lifecycle
  ctl,       \* where each controller is in its call
  running,   \* m_running
  stop,      \* the stop tokens of the two threads
  session,   \* history: number of successful starts
  mode,      \* m_mode
  source,    \* m_source: present (not null) and open
  inSource,  \* the threads inside a call on m_source
  queue,     \* *m_queue: its frames, droppedCount, and absent, open or closed
  cap,       \* capture thread: place in CaptureWorker::run and its locals
  inf,       \* inference thread: place in InferenceWorker::run, its locals,
             \* m_lastMode, and the modes the tracker has seen since its reset
  out,       \* newest frame in m_eventLog, in m_latest, and passed to m_onPresented
  stats      \* m_stats

control == <<lifecycle, ctl, running, stop, session>>
vars == <<control, mode, source, inSource, queue, cap, inf, out, stats>>

NoFrame == 0
NoQueue == [is |-> "absent", frames |-> <<>>, dropped |-> 0]
NewQueue == [NoQueue EXCEPT !.is = "open"]
IdleCapture == [at |-> "none", frameId |-> 0, droppedBefore |-> 0, size |-> 0]
IdleInference == [at |-> "none", packet |-> NoFrame, detected |-> NoMode, size |-> 0,
                  lastMode |-> NoMode, seen |-> {}]
NoOutput == [logged |-> NoFrame, latest |-> NoFrame, announced |-> NoFrame]
NoStats == [captured |-> 0, processed |-> 0, dropped |-> 0, depth |-> 0]

\* A pipeline built with its source and detectors and never started.
Init == /\ lifecycle = NoOne /\ ctl = [c \in Controllers |-> "idle"]
        /\ running = FALSE /\ session = 0
        /\ stop = [capture |-> FALSE, inference |-> FALSE]
        /\ mode \in Modes
        /\ source = [present |-> TRUE, open |-> FALSE] /\ inSource = {}
        /\ queue = NoQueue /\ cap = IdleCapture /\ inf = IdleInference
        /\ out = NoOutput /\ stats = NoStats

Lock(c, place) == /\ ctl[c] = "idle" /\ lifecycle = NoOne
                  /\ lifecycle' = c
                  /\ ctl' = [ctl EXCEPT ![c] = place]
Unlock(c) == lifecycle' = NoOne /\ ctl' = [ctl EXCEPT ![c] = "idle"]
Advance(c, from, to) == ctl[c] = from /\ ctl' = [ctl EXCEPT ![c] = to] /\ UNCHANGED lifecycle
workers == <<cap, inf, out, stats>>
------------------------------------------------------------------------------
(* start                                                                     *)

StartCall(c) == /\ session < MaxSessions
                /\ Lock(c, "start")
                /\ UNCHANGED <<running, stop, session, mode, source, inSource, queue, workers>>

\* Already running: start returns true and does nothing.  No source, or one
\* that does not open: start returns false.
StartReturns(c) == /\ ctl[c] = "start" /\ Unlock(c)
                   /\ UNCHANGED <<running, stop, session, mode, source, inSource, queue, workers>>

\* Mutant: a new session keeps the frame presented last in the mailbox.
StartPrepareStale(c) ==
    /\ Advance(c, "start", "launch")
    /\ ~running /\ source.present
    /\ source' = [source EXCEPT !.open = TRUE]
    /\ session' = session + 1 /\ stats' = NoStats /\ queue' = NewQueue
    /\ out' = [NoOutput EXCEPT !.latest = out.latest]
    /\ inf' = [inf EXCEPT !.seen = {}] /\ cap' = [IdleCapture EXCEPT !.at = "loop"]
    /\ stop' = [stop EXCEPT !.capture = FALSE]
    /\ UNCHANGED <<running, mode, inSource>>

\* The source opens; mailbox, counters, tracker, rules and event log are
\* cleared, queue and workers are new, and the capture thread is launched.
StartPrepare(c) ==
    /\ Advance(c, "start", "launch")
    /\ ~running /\ source.present
    /\ source' = [source EXCEPT !.open = TRUE]
    /\ session' = session + 1 /\ out' = NoOutput /\ stats' = NoStats /\ queue' = NewQueue
    /\ inf' = [inf EXCEPT !.seen = {}] /\ cap' = [IdleCapture EXCEPT !.at = "loop"]
    /\ stop' = [stop EXCEPT !.capture = FALSE]
    /\ UNCHANGED <<running, mode, inSource>>

\* The inference thread is launched; a new worker has no last mode.
StartInference(c) ==
    /\ Advance(c, "launch", "launched")
    /\ inf' = [IdleInference EXCEPT !.at = "loop"]
    /\ stop' = [stop EXCEPT !.inference = FALSE]
    /\ UNCHANGED <<running, session, mode, source, inSource, queue, cap, out, stats>>

StartDone(c) == /\ ctl[c] = "launched" /\ Unlock(c)
                /\ running' = TRUE
                /\ UNCHANGED <<stop, session, mode, source, inSource, queue, workers>>

Starting(c) == StartReturns(c) \/ StartPrepare(c) \/ StartInference(c) \/ StartDone(c)
------------------------------------------------------------------------------
(* stop and joinWorkers                                                      *)

StopCall(c) == /\ Lock(c, "stop")
               /\ UNCHANGED <<running, stop, session, mode, source, inSource, queue, workers>>

RequestCaptureStop(c) ==
    /\ Advance(c, "stop", "requested")
    /\ running' = FALSE
    /\ stop' = [stop EXCEPT !.capture = cap.at # "none"]
    /\ UNCHANGED <<session, mode, source, inSource, queue, workers>>

RequestInferenceStop(c) ==
    /\ Advance(c, "requested", "closeSource")
    /\ stop' = [stop EXCEPT !.inference = inf.at # "none"]
    /\ UNCHANGED <<running, session, mode, source, inSource, queue, workers>>

CloseSourceBegin(c) ==
    /\ Advance(c, "closeSource", "closingSource")
    /\ inSource' = IF source.present THEN inSource \cup {c} ELSE inSource
    /\ UNCHANGED <<running, stop, session, mode, source, queue, workers>>

CloseSourceEnd(c) ==
    /\ Advance(c, "closingSource", "closeQueue")
    /\ source' = [source EXCEPT !.open = FALSE]
    /\ inSource' = inSource \ {c}
    /\ UNCHANGED <<running, stop, session, mode, queue, workers>>

\* Mutant: the queue is not closed before the joins.
CloseQueueForgotten(c) ==
    /\ Advance(c, "closeQueue", "joinCapture")
    /\ UNCHANGED <<running, stop, session, mode, source, inSource, queue, workers>>

CloseQueue(c) ==
    /\ Advance(c, "closeQueue", "joinCapture")
    /\ queue' = IF queue.is = "absent" THEN queue ELSE [queue EXCEPT !.is = "closed"]
    /\ UNCHANGED <<running, stop, session, mode, source, inSource, workers>>

\* Mutant: the capture thread is not waited for.
JoinCaptureForgotten(c) ==
    /\ Advance(c, "joinCapture", "joinInference")
    /\ UNCHANGED <<running, stop, session, mode, source, inSource, queue, workers>>

JoinCapture(c) ==
    /\ Advance(c, "joinCapture", "joinInference")
    /\ cap.at \in {"none", "done"}
    /\ cap' = [cap EXCEPT !.at = "none"]
    /\ UNCHANGED <<running, stop, session, mode, source, inSource, queue, inf, out, stats>>

\* After the last join the workers and the queue are destroyed.
JoinInference(c) ==
    /\ ctl[c] = "joinInference" /\ Unlock(c)
    /\ inf.at \in {"none", "done"}
    /\ inf' = [inf EXCEPT !.at = "none"]
    /\ queue' = NoQueue
    /\ UNCHANGED <<running, stop, session, mode, source, inSource, cap, out, stats>>

Stopping(c) == \/ RequestCaptureStop(c) \/ RequestInferenceStop(c)
               \/ CloseSourceBegin(c) \/ CloseSourceEnd(c) \/ CloseQueue(c)
               \/ JoinCapture(c) \/ JoinInference(c)
------------------------------------------------------------------------------
(* The other public operations                                               *)

SetMode(m) == /\ mode' = m /\ m # mode
              /\ UNCHANGED <<control, source, inSource, queue, workers>>

ReleaseSource == /\ lifecycle = NoOne /\ ~running /\ source.present
                 /\ source' = [source EXCEPT !.present = FALSE]
                 /\ UNCHANGED <<control, mode, inSource, queue, workers>>

\* CameraManager hands over a source that is not open.
AdoptSource == /\ lifecycle = NoOne /\ ~running
               /\ source' = [present |-> TRUE, open |-> FALSE]
               /\ UNCHANGED <<control, mode, inSource, queue, workers>>
------------------------------------------------------------------------------
(* CaptureWorker::run                                                        *)

CaptureStops == stop.capture \/ queue.is = "closed"

\* The loop condition, then the call of m_source.read.
CaptureLoop == /\ cap.at = "loop"
               /\ \/ /\ CaptureStops
                     /\ cap' = [cap EXCEPT !.at = "done"]
                     /\ UNCHANGED inSource
                  \/ /\ ~CaptureStops
                     /\ cap' = [cap EXCEPT !.at = IF source.open THEN "reading" ELSE "failing"]
                     /\ inSource' = inSource \cup {Capturer}
               /\ UNCHANGED <<queue, stats>>

\* A frame arrives (perhaps while stop closes the source) and gets its id;
\* droppedCount is read.  Only this thread pushes, so the count stays current.
CaptureRead == /\ cap.at = "reading" /\ cap.frameId < MaxFrames
               /\ inSource' = inSource \ {Capturer}
               /\ cap' = [cap EXCEPT !.at = "push", !.frameId = @ + 1,
                                     !.droppedBefore = queue.dropped]
               /\ UNCHANGED <<queue, stats>>

CaptureReadFails == /\ cap.at \in {"reading", "failing"}
                    /\ inSource' = inSource \ {Capturer}
                    /\ cap' = [cap EXCEPT !.at = "recheck"]
                    /\ UNCHANGED <<queue, stats>>

\* After a failed read: leave when stopping, else back off and try again.
CaptureRecheck == /\ cap.at = "recheck"
                  /\ cap' = [cap EXCEPT !.at = IF CaptureStops THEN "done" ELSE "loop"]
                  /\ UNCHANGED <<inSource, queue, stats>>

\* Mutant: the queue was built with DropNewest.
CapturePushDropNewest ==
    /\ cap.at = "push"
    /\ \/ /\ queue.is = "closed"
          /\ cap' = [cap EXCEPT !.at = "done"]
          /\ UNCHANGED queue
       \/ /\ queue.is = "open" /\ Len(queue.frames) < Capacity
          /\ cap' = [cap EXCEPT !.at = "pushed"]
          /\ queue' = [queue EXCEPT !.frames = Append(@, cap.frameId)]
       \/ /\ queue.is = "open" /\ Len(queue.frames) >= Capacity
          /\ cap' = [cap EXCEPT !.at = "pushed"]
          /\ queue' = [queue EXCEPT !.dropped = @ + 1]
    /\ UNCHANGED <<inSource, stats>>

\* m_out.push with DropOldest; on a closed queue it fails and ends the loop.
CapturePush == /\ cap.at = "push"
               /\ \/ /\ queue.is = "closed"
                     /\ cap' = [cap EXCEPT !.at = "done"]
                     /\ UNCHANGED queue
                  \/ /\ queue.is = "open" /\ Len(queue.frames) < Capacity
                     /\ cap' = [cap EXCEPT !.at = "pushed"]
                     /\ queue' = [queue EXCEPT !.frames = Append(@, cap.frameId)]
                  \/ /\ queue.is = "open" /\ Len(queue.frames) >= Capacity
                     /\ cap' = [cap EXCEPT !.at = "pushed"]
                     /\ queue' = [queue EXCEPT !.frames = Append(Tail(@), cap.frameId),
                                               !.dropped = @ + 1]
               /\ UNCHANGED <<inSource, stats>>

CaptureCount == /\ cap.at = "pushed"
                /\ stats' = [stats EXCEPT !.captured = @ + 1]
                /\ cap' = [cap EXCEPT !.at = "counted"]
                /\ UNCHANGED <<inSource, queue>>

\* Mutant: the queue's total is added each time, not what this push dropped.
CaptureCountAllDrops ==
    /\ cap.at = "counted"
    /\ stats' = [stats EXCEPT !.dropped = @ + queue.dropped]
    /\ cap' = [cap EXCEPT !.at = "sized", !.size = Len(queue.frames)]
    /\ UNCHANGED <<inSource, queue>>

\* onDropped with what this push dropped, then m_out.size().
CaptureCountDrops ==
    /\ cap.at = "counted"
    /\ stats' = [stats EXCEPT !.dropped = @ + (queue.dropped - cap.droppedBefore)]
    /\ cap' = [cap EXCEPT !.at = "sized", !.size = Len(queue.frames)]
    /\ UNCHANGED <<inSource, queue>>

\* setQueueDepth with the size read before, which may be out of date by now.
CaptureDepth == /\ cap.at = "sized"
                /\ stats' = [stats EXCEPT !.depth = cap.size]
                /\ cap' = [cap EXCEPT !.at = "loop"]
                /\ UNCHANGED <<inSource, queue>>

Capture == /\ \/ CaptureLoop \/ CaptureRead \/ CaptureReadFails \/ CaptureRecheck
              \/ CapturePush \/ CaptureCount \/ CaptureCountDrops \/ CaptureDepth
           /\ UNCHANGED <<control, mode, source, inf, out>>
------------------------------------------------------------------------------
(* InferenceWorker::run                                                      *)

InferenceLoop == /\ inf.at = "loop"
                 /\ inf' = [inf EXCEPT !.at = IF stop.inference THEN "done" ELSE "pop"]
                 /\ UNCHANGED <<queue, out, stats>>

\* m_in.pop: waits on an empty open queue, drains a closed one, then ends.
InferencePop == /\ inf.at = "pop"
                /\ \/ /\ queue.frames # <<>>
                      /\ inf' = [inf EXCEPT !.at = "detect", !.packet = Head(queue.frames)]
                      /\ queue' = [queue EXCEPT !.frames = Tail(@)]
                   \/ /\ queue.frames = <<>> /\ queue.is = "closed"
                      /\ inf' = [inf EXCEPT !.at = "done"]
                      /\ UNCHANGED queue
                /\ UNCHANGED <<out, stats>>

\* Mutant: an exception of the detector ends the worker.
InferenceDetectUncaught ==
    /\ inf.at = "detect"
    /\ \/ inf' = [inf EXCEPT !.at = "analyse", !.detected = mode]
       \/ inf' = [inf EXCEPT !.at = "done"]
    /\ UNCHANGED <<queue, out, stats>>

\* currentDetector loads the mode; detect finds objects, or it finds none, is
\* not ready or throws a cv::Exception (NoMode).
InferenceDetect == /\ inf.at = "detect"
                   /\ \E d \in {mode, NoMode} :
                         inf' = [inf EXCEPT !.at = "analyse", !.detected = d]
                   /\ UNCHANGED <<queue, out, stats>>

ModeChanged == inf.lastMode # NoMode /\ inf.lastMode # mode
SeenAfterUpdate == (IF ModeChanged THEN {} ELSE inf.seen) \cup ({inf.detected} \ {NoMode})

\* The mode is loaded a second time; if it differs from that of the previous
\* frame, tracker and rules are reset.  Then the tracker gets this frame's
\* detections, the rules its tracks, and the event log the rules' events.
InferenceAnalyse == /\ inf.at = "analyse"
                    /\ inf' = [inf EXCEPT !.at = "publish", !.lastMode = mode,
                                          !.seen = SeenAfterUpdate]
                    /\ out' = [out EXCEPT !.logged = inf.packet]
                    /\ UNCHANGED <<queue, stats>>

InferencePublish == /\ inf.at = "publish"
                    /\ out' = [out EXCEPT !.latest = inf.packet]
                    /\ inf' = [inf EXCEPT !.at = "count"]
                    /\ UNCHANGED <<queue, stats>>

\* onInferred, then m_in.size().
InferenceCount == /\ inf.at = "count"
                  /\ stats' = [stats EXCEPT !.processed = @ + 1]
                  /\ inf' = [inf EXCEPT !.at = "depth", !.size = Len(queue.frames)]
                  /\ UNCHANGED <<queue, out>>

InferenceDepth == /\ inf.at = "depth"
                  /\ stats' = [stats EXCEPT !.depth = inf.size]
                  /\ inf' = [inf EXCEPT !.at = "announce"]
                  /\ UNCHANGED <<queue, out>>

InferenceAnnounce == /\ inf.at = "announce"
                     /\ out' = [out EXCEPT !.announced = inf.packet]
                     /\ inf' = [inf EXCEPT !.at = "loop"]
                     /\ UNCHANGED <<queue, stats>>

Inference == /\ \/ InferenceLoop \/ InferencePop \/ InferenceDetect \/ InferenceAnalyse
                \/ InferencePublish \/ InferenceCount \/ InferenceDepth \/ InferenceAnnounce
             /\ UNCHANGED <<control, mode, source, inSource, cap>>
------------------------------------------------------------------------------
Next == \/ \E c \in Controllers : \/ StartCall(c) \/ Starting(c)
                                  \/ StopCall(c) \/ Stopping(c)
        \/ \E m \in Modes : SetMode(m)
        \/ ReleaseSource \/ AdoptSource
        \/ Capture \/ Inference

Spec == Init /\ [][Next]_vars

\* Threads that can run do run: calls into the source and the detector return
\* (detect cannot be interrupted, but its work is finite), and a controller
\* inside start or stop carries on.  Nobody has to call anything.
FairSpec == /\ Spec
            /\ WF_vars(Capture)
            /\ WF_vars(Inference)
            /\ \A c \in Controllers : WF_vars(Starting(c)) /\ WF_vars(Stopping(c))
------------------------------------------------------------------------------
CapturePlaces == {"none", "loop", "reading", "failing", "recheck", "push", "pushed",
                  "counted", "sized", "done"}
InferencePlaces == {"none", "loop", "pop", "detect", "analyse", "publish", "count",
                    "depth", "announce", "done"}
ControlPlaces == {"idle", "start", "launch", "launched", "stop", "requested", "closeSource",
                  "closingSource", "closeQueue", "joinCapture", "joinInference"}

StopTokens == [capture : BOOLEAN, inference : BOOLEAN]
Sources == [present : BOOLEAN, open : BOOLEAN]
Queues == [is : {"absent", "open", "closed"}, frames : Seq(Nat), dropped : Nat]
CaptureStates == [at : CapturePlaces, frameId : Nat, droppedBefore : Nat, size : Nat]
InferenceStates == [at : InferencePlaces, packet : Nat, detected : Modes \cup {NoMode},
                    size : Nat, lastMode : Modes \cup {NoMode}, seen : SUBSET Modes]
Outputs == [logged : Nat, latest : Nat, announced : Nat]
Counters == [captured : Nat, processed : Nat, dropped : Nat, depth : Nat]

TypeOK == /\ lifecycle \in Controllers \cup {NoOne}
          /\ ctl \in [Controllers -> ControlPlaces]
          /\ running \in BOOLEAN /\ stop \in StopTokens /\ session \in Nat /\ mode \in Modes
          /\ source \in Sources /\ inSource \subseteq Controllers \cup {Capturer}
          /\ queue \in Queues /\ cap \in CaptureStates /\ inf \in InferenceStates
          /\ out \in Outputs /\ stats \in Counters

\* While no call of start or stop is in progress, isRunning() tells the truth:
\* a running pipeline has both threads at work on an open queue and source, and
\* a stopped one has neither thread, no queue, and a closed source.
LifecycleAgrees ==
    lifecycle = NoOne =>
        IF running
          THEN /\ cap.at \notin {"none", "done"} /\ inf.at \notin {"none", "done"}
               /\ queue.is = "open" /\ source.present /\ source.open
          ELSE /\ cap.at = "none" /\ inf.at = "none"
               /\ queue.is = "absent" /\ ~source.open

\* The queue outlives its users: when joinWorkers destroys it no worker exists
\* that could still lock it or notify one of its condition variables.
QueueOutlivesWorkers ==
    queue.is = "absent" => cap.at = "none" /\ inf.at = "none"

\* Both: whoever finds the lifecycle at rest finds flag, threads, queue and
\* source in agreement, and at no moment is a worker without its queue.
LifecycleSound == LifecycleAgrees /\ QueueOutlivesWorkers

\* The counters of the probe account for every frame, although two threads
\* update them under different locks: while the capture thread is between two
\* frames, each captured frame is dropped, queued, being processed or
\* processed, and counted once.
InFlight == IF inf.at \in {"detect", "analyse", "publish", "count"} THEN 1 ELSE 0
FramesAccounted ==
    cap.at \in {"loop", "reading", "failing", "recheck"} =>
        stats.captured = stats.dropped + Len(queue.frames) + InFlight + stats.processed

\* What a reader on another thread may see: a frame is in the mailbox only
\* after its events are in the log, the GUI is called for it only after it is
\* in the mailbox (InferenceWorker.cpp:115, 145, 149), and all of them belong
\* to the current session.
ReadersSeeOrder ==
    out.announced <= out.latest /\ out.latest <= out.logged /\ out.logged <= cap.frameId

\* The mailbox only moves forward within a session: no frame is presented after
\* a newer one, and none of an earlier session reappears.
LatestMovesForward ==
    [][out'.latest >= out.latest \/ (session' # session /\ out'.latest = NoFrame)]_vars

\* Overload costs frames, not freshness: however slow the detector, the frame
\* taken for inference is among the newest Capacity + 1 that were read.
TakesFreshFrame ==
    [][inf.at = "pop" /\ inf'.at = "detect" => inf'.packet + Capacity >= cap.frameId]_vars

\* stop returns: source, queue and stop tokens together release both workers
\* wherever they are.
StopReturns == \A c \in Controllers : ctl[c] = "stop" ~> ctl[c] = "idle"

\* A frame that got into the queue is presented, or a newer one is, unless stop
\* intervenes; a detector that throws does not stop the stream.
InQueue(f) == \E i \in 1..Len(queue.frames) : queue.frames[i] = f
FramesArePresented ==
    \A f \in 1..MaxFrames : InQueue(f) ~> (out.latest >= f \/ queue.is # "open")
------------------------------------------------------------------------------
(* Statements of the repository that the code does not keep                  *)

\* IVideoSource.h:18: an instance is not to be called concurrently and is
\* driven by a single pipeline thread.
SourceNotShared == Cardinality(inSource) <= 1

\* bytetrack.md:99: the worker resets the tracker on the next update when the
\* detection mode changes; so no tracker state mixes detections of two modes.
TrackerSeesOneMode == Cardinality(inf.seen) <= 1
===============================================================================
