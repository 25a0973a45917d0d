# VisionLab Pro in TLA+

VisionLab Pro is a Qt 6 / C++20 desktop program: a camera thread reads frames, an
inference thread runs a detector, a tracker and analytics rules on them, the GUI
shows the newest result, and a writer thread stores the rules' events in SQLite.
This directory holds TLA+ models of the parts in which these threads meet, TLC
configurations that check them on small instances, and theorems about them whose
proofs TLAPS checks for every value of the constants.

Paths below are relative to `src/`.

## 1. Inventory

| Component | State | Operations | Who calls it |
|---|---|---|---|
| `core/BoundedQueue.h` | deque, closed, dropped, one mutex, two condition variables | push (3 overflow policies), pop, close | capture -> inference; GUI -> writer |
| `core/LatestResult.h` | one optional value under a mutex | publish, snapshot, clear | inference -> GUI |
| `pipeline/VisionPipeline` | source, detectors, tracker, rules, queue, two `jthread`s, atomic mode and running flag, lifecycle mutex | start, stop, setMode, releaseSource, adoptSource | `CameraManager`, tests |
| `pipeline/CaptureWorker` | frame id | run | capture thread |
| `pipeline/InferenceWorker` | last mode | run: pop, detect, track, rules, log, publish, callback | inference thread |
| `pipeline/StatsProbe` | counters and latency windows under a mutex | onCaptured, onDropped, onInferred, setQueueDepth, reset | both workers, GUI |
| `pipeline/EventLog` | newest 256 events under a mutex | push, snapshot, reset | inference -> GUI |
| `analytics/RuleEngine` | rules, next event id | evaluate, reset, clear | inference, GUI while stopped |
| `analytics/*Rule`, `RuleGeometry` | per-track state machines | evaluate, reset | `RuleEngine` |
| `tracking/ByteTrackTracker` | tracks, next id, totals | update, reset | inference |
| `storage/EventWriter` | queue of 1024 jobs, thread | start, enqueue, requestQuery, stop | GUI; its own thread |
| `storage/SqliteEventRepository` | the database | open, insert, query, prune, close | writer thread |
| `utilities/CameraManager` | pipeline, writer, session settings, rule specs, cursor of persisted events | start, stop, setMode, notifyFrame, applySessionSettings, applyRuleSpecs | GUI thread |
| `controllers/VisionController`, `models/*` | what the pages show, cursor of shown events | startCamera, stopCamera, setMode, onFrameChanged, rule editing | QML |
| `plugin/PluginManager`, `plugins/*` | loaded factories | scan, createDetector | `CameraManager` |
| `inference/TensorRTEngine` | plan, device buffers, a cache directory of plans | initialize, infer, warmup | `YoloDetector` |
| `inference/OnnxRuntimeEngine`, `OnnxRuntimeCudaEngine` | a session | initialize, infer, warmup | `YoloDetector` |
| `inference/InferenceEngineFactory` | none | selection from the environment, createInferenceEngine | plugin, `CameraManager` |
| `detectors/*` | a network or a background model | detect: preprocess, run, decode | inference thread |
| `core/LatencyWindow.h` | ring of 256 latencies | record, reset, mean, percentile | `StatsProbe` |
| `tracking/IouMatching` | none | greedyIouAssociate | tracker |
| `rendering/Letterbox` | none | computeLetterbox, itemToFrame, frameToItem | `VisionController` |
| `rendering/*Renderer`, `video/CameraSource` | none; `cv::VideoCapture` | render; open, read, close | `VisionController`, QML; workers |

How they interact. `VisionController::startCamera` (GUI thread) calls
`CameraManager::start`, which starts the pipeline. The capture thread pushes
frames into a DropOldest queue of capacity 2. The inference thread pops a frame,
and writes, in this order and each under a lock of its own: event log, mailbox,
counters, and a call of `notifyFrame` posted to the GUI's event loop.
`notifyFrame` copies the log, gives what its cursor has not passed to the
`EventWriter`, and emits `frameChanged`, upon which the `EventModel` takes a copy
of its own. The writer thread inserts events and answers history queries by a
call posted back to the GUI. `stop` requests both threads to end, closes source
and queue, and joins.

What is hard here, with the properties that make each component correct:

* **Wakeups** in the queue. `notify_one` is called after the unlock, so the item
  may be gone and somebody else asleep by then. Needed: no lost wakeup, FIFO
  order, losses counted, nobody asleep after close.
* **Lifecycle.** `start`, `stop`, `releaseSource` may come from several threads,
  `isRunning` is read without the lock, and `stop` must end threads that are
  blocked in read, push, pop or detect. Needed: the flag agrees with the threads,
  the queue outlives its users, stop returns.
* **Visibility.** A reader sees log, mailbox, counters and callback at different
  times. Needed: none runs ahead of what it announces, nothing of an old session
  appears in a new one, overload costs frames and not freshness, counters add up.
* **Mode switches** take effect in the middle of a frame.
* **Event ids repeat** (they restart with each session and each mode switch) while
  two cursors filter by id. Needed: stored once and in order, shown once, nothing
  skipped, across crashes and restarts.
* **Tracks live long.** Confirmation, loss, recovery and expiry of a track take many
  frames; state, hits, age and misses are written at different places. The rules key
  a memory by track id. Needed: an id denotes one object, is shown without a gap and
  never comes back; counters, clock and trajectory agree.
* **Rules remember.** Each rule decides from its memory what is new in a frame.
  Needed: an event exactly when the track did what the event says, an occupancy
  explained by crossings, nothing remembered of tracks that are gone.
* **The cache of plans outlives its writers.** A TensorRT load takes seconds and
  writes a file that only the next load reads; the process may die or the model be
  replaced in between, and any call may fail. Needed: a ready engine runs what was
  asked for, a dirty cache costs time and never an engine, an unready engine says why.
* **Arithmetic at an edge.** Boxes across the frame, pairs at a threshold, ties,
  a full ring, clicks on a bar. Needed: nothing that counts vanishes, nothing that
  does not exist is shown.
* **Failures**: frames that cannot be read, detectors that throw, inserts that
  fail, a database that does not open, a process that dies.

`PROJECT.json` lists each hazard at its line.

## 2. Modules

| Module | Models | Checked by |
|---|---|---|
| `LossyFifo` | what a queue promises, without threads | abstract specification |
| `BoundedQueue` | `core/BoundedQueue.h` | `MCBoundedQueue` |
| `BoundedQueueProofs` | theorems about it | TLAPS |
| `VisionPipeline` | `pipeline/VisionPipeline.cpp` and both workers, mailbox, probe, queue as a bounded lossy channel | `MCVisionPipeline`, three further configurations |
| `VisionPipelineProofs` | theorems about it | TLAPS |
| `EventDelivery` | event log, `CameraManager::notifyFrame`, `EventModel`, `EventWriter`, `SqliteEventRepository`, end and crash of the process | three configurations |
| `EventDeliveryProofs` | theorems about it | TLAPS |
| `TrackLifecycle` | what the tracker promises its clients about ids | abstract specification |
| `ByteTrack` | `tracking/ByteTrackTracker.cpp` | `MCAnalytics` |
| `RuleGeometry` | sides, intersections and crossings of `analytics/RuleGeometry.cpp` | through `TrackRules` |
| `TrackRules` | the four rules and `RuleEngine::evaluate`, `reset` | `MCAnalytics` |
| `AnalyticsProofs` | theorems about `ByteTrack` and `TrackRules` | TLAPS |
| `Session` | set-up between runs: `VisionController`'s draw tools and settings, `RuleModel`, `CameraManager`'s assembly, rebuild and rules, `PluginManager::scan` | `MCSession`, two configurations |
| `SessionProofs` | theorems about it | TLAPS |
| `InferencePort` | what an engine promises its detector | abstract specification |
| `TensorRTEngine` | `inference/TensorRTEngine.cpp`: load with cache, inference | through `ObjectDetector` |
| `OnnxRuntimeEngine` | `inference/OnnxRuntimeEngine.cpp` and `OnnxRuntimeCudaEngine.cpp` | through `ObjectDetector` |
| `ObjectDetector` | selection, factory, `YoloDetector` with its engine, the model file, end of the process | `MCObjectDetector`, `MCDetectors` |
| `ObjectDetectorProofs` | theorems about it | TLAPS |
| `Boxes` | rectangles and their overlap | through the modules below |
| `Decoding` | `detectors/YoloDecoding.cpp`, `SsdDecoding.cpp`, `MotionDetector.cpp` | through `Perception` |
| `GreedyMatching` | `tracking/IouMatching.cpp` | through `Perception` |
| `LatencyWindow`, `StatsProbe` | `core/LatencyWindow.h`, the latencies of `pipeline/StatsProbe.cpp` | through `Perception` |
| `Letterbox` | `rendering/Letterbox.cpp` | through `Perception` |
| `Perception` | calls of the four above with every input of small sets | `MCDetectors` |
| `PerceptionProofs` | theorems about decoding, matching, latency windows and letterbox | TLAPS |
| `CountingLemmas` | cardinality of a set that loses and gains members | TLAPS |

The first modules form a chain of abstractions. `BoundedQueue` has the granularity of
its mutex and is shown to implement `LossyFifo`; `VisionPipeline` uses the queue
as such a channel, so one step of its workers is one operation on it;
`EventDelivery` looks at the pipeline from the GUI's side, where a frame is three
steps of the inference thread (events logged, frame published, call posted).
`ByteTrack` and `TrackRules` look into the step of the worker that
`VisionPipeline` calls `InferenceAnalyse`; both are sequential, for only the
inference thread calls them while the pipeline runs. What `ByteTrack` gives to
`TrackRules` is the set of ids it publishes; `TrackRules` assumes less of it than
`TrackLifecycle` promises: an id may vanish and reappear. Since the two share no
variable, `MCAnalytics` checks them in one run and moves one while the other is in its
initial state: every behaviour of either is explored, not their product.
`ObjectDetector` looks into `InferenceDetect` in the same way, and `Perception` at
the pure computations around it; in `MCDetectors` these are called while there is
no engine yet, which loses nothing because they read nothing of it.

### BoundedQueue

A thread is `idle`, `locking` (about to take `m_mutex`), `waiting` (on its
condition variable) or `notifying` (has unlocked, `notify_one` still to come).
What a call does while it holds the lock is one action: `PushAppend`,
`PushDropOldest`, `PushDropNewest`, `PushWait`, `PushClosed`, `PopTake`,
`PopWait`, `PopEnd`, `Close`. A woken thread is back at `locking` and tests its
predicate again, and `SpuriousWakeup` may send it there without cause. Items are
tickets, so that order and loss can be told. `accepted`, `rejected`, `delivered`
and `ended` are history variables.

The refinement maps the abstract channel's `sent` to `accepted` and its read
index to `Len(accepted) + 1 - Len(queue)`.

### VisionPipeline

`ctl[c]` says where controller `c` is in `start` or `stop`; `lifecycle` is the
owner of `m_lifecycle`. `joinWorkers` is seven steps, since the workers run between
any two of its statements: request capture, request inference, enter and leave
`m_source->close()`, close the queue, join capture, join inference and destroy.
`cap.at` and `inf.at` are the places of the two `run` loops with their locals
(`droppedBefore`, the size read for `setQueueDepth`, the packet, the mode at the
last frame). `inSource` is the set of threads inside a call on `m_source`.
The detector answers with objects of the mode loaded at line 49 or with nothing
(not ready, exception); a read may fail at any time. `inf.seen` is a history
value: the modes whose detections the tracker has taken since its reset.
`session` counts successful starts. A destroyed pipeline (`~VisionPipeline` only
calls `stop`) is not a state of its own.

### EventDelivery

An event is a serial number, unique for ever, with the `eventId` the engine gave
it, which is not. GUI handlers run one at a time (`calls` is the event loop's
queue), but the handler of a frame is split at its locks: `NotifyFrame`,
`NotifySnapshot`, one `NotifyEnqueue` or `NotifySkip` per event of the copy
(`gui.todo`), `NotifyEmit` (which takes a second copy of the log), and then the loop of
`EventModel::ingest` over that copy, a step for each event (`IngestTurn`) and one for
the trim at the end (`IngestEnd`). Each turn of the
loop compares the event's id with the cursor as it is by then (`Fresh`). `gui.seen`
is the history of what `notifyFrame` met in a copy of this session. `store` is the only variable that survives `Crash` and `QuitEnds`.
`handed` and `lost` are history variables: what the writer was given, and what
overflow, a failed insert, pruning or a crash took from it.

The INSERT of an event and the deletion of the rows in excess are two statements, each
committed by itself, so they are two steps of the writer (`WriterInsert`, then `WriterPrune`
from the place `pruning`): a crash may come between them, and the prune may fail
(`WriterPruneFails`; a failed insert is followed by a prune too). The table may therefore
be longer than `StoreRows`, by any number of rows over many restarts; the histories `inserted` (rows
ever inserted) and `unpruned` (rows inserted since a prune last worked) let
`NewestRowsAreKept` say by how much and what is kept.

In `StartCamera` the reset of the two cursors and the start of the pipeline are one
step: all of it runs on the GUI thread, and what the worker does in between touches
nothing the GUI reads before its next handler.

### ByteTrack

`tracks` is `m_tracks` as a function of the id; the vector is sorted by id, since
tracks are appended with growing ids and compacted in order. `Update` is one call of
`update`: `InBand` splits the detections at the two thresholds, `Associations` is
the answer of `greedyIouAssociate` for each of the two rounds, `Settle` the rest.
`Hit` and `Missed` include the `age += 1` of the prediction loop. The association
may return *any* pairing of detections and tracks of the same class which uses each
at most once: boxes, overlaps and the Kalman filter decide which, and the
properties hold whatever they decide. New tracks follow the order of the unmatched
high detections. Time stamps are frame numbers, and the trajectory is the sequence
of the frames it has a point of. `Reset` does not reset the frame number, which
belongs to the capture. The refinement maps `given` to `nextId - 1`, `subject` to the
classes of the live tracks and `shown` to `published`.

### RuleGeometry and TrackRules

Foot points have integer coordinates: a box has integer edges, so its foot is a
multiple of half a pixel, which is the unit. The products of the code are then
exact, and its tolerance of 1e-6 is equality, as long as `float` holds the products;
rounding for coordinates beyond some thousand pixels is not modelled. A line's ends
come from the user's drawing and are integers in the model too.

The definitions of `TrackRules` that `ByteTrack` has too begin with `Rules`, so that
one module can extend both. `TrackRules` keeps the memory of each rule in a variable named after its member:
`lastFoot`, `counting`, `intruded`, `stays`. `Evaluate` is `RuleEngine::evaluate`
with four enabled rules. Line crossing and counting watch the same line, and intrusion and
loitering the same region, so that their answers can be compared; the class filter
is the set of the tracks whose class passes it (a track never changes its class).
`crossed` and `entered` are histories, built from the *events* of the line and the
region rule and from presence alone: what a reader of the events would conclude.
The rules of one engine share nothing, so the order in which the engine calls them
matters only for the numbers of the events, which `EventDelivery` models.

### Session

Everything here runs on the GUI thread and only touches a pipeline that stands
still (but for the atomic mode), so each handler is one step. `list` is what the
settings page shows (`RuleModel::m_specs`), `specs` what `CameraManager` has taken
over, `pipeline.rules` what the engine evaluates, a function of the rule id because
`addRule` refuses an id in use and `setEnabled` goes by the id. A `pipeline` is a
record of what it was assembled from. A point can only be drawn inside the video,
and so only once a frame has come (`sized`). The plugin directory may hold anything at
each scan, of several files with one id the first is taken, and any `createDetector`
may fail: `Detectors` are the partial functions from modes to plugins. A rebuild
fails when it finds no detector and the old pipeline had some. Before it is known whether
it fails, the old pipeline has given its source away (`ReleaseSource`), and the new one stands
with the source, the rules and no callback (`Assembled`); `Restore` is the way back, step by
step as in the code: the source is taken from the new pipeline and adopted by the old one,
the rules are injected and the callback is bound (`AdoptSource`, `BindPresentedCallback`).
Settings are one value; of geometry only `drawn`, what `makeRule` asks of it, is
kept. The camera may fail to open (`StartCamera`). `removeAt` and `replaceAll` of
`RuleModel` have no caller in the program; if a row could be removed, `AllocateId`,
which counts, would give an id twice.

### TensorRTEngine, OnnxRuntimeEngine, ObjectDetector

`TensorRTEngine::initialize` is a sequence of steps, named in `call.at`:
`keying` (stat the model, name the cache file), `lookup` (read and deserialize a plan, or
delete it), `building` (read the model and build), `persisting` (open the
temporary file), `writing`, `renaming`, `renaming again` (after deleting the target),
`finishing` (context and buffers). Between any two the model file may be replaced
and the process may die. `cache` and `tmp` are the files of `.trt-cache/`, by
the key their name is made of; a plan is a record of what it was built from and
whether it is `whole`. Every call into CUDA, TensorRT and the file system may fail;
`faulted` remembers that one did and `seen` which models the file held during the load.
The cache knows a model by its size and its modification time (`Stamp`) and a GPU by
what `gpuSlug` makes of its name (`Slug`): two models or two GPUs may well share a key, and a GPU
whose properties cannot be queried gets the slug of all such, `AnyGpu`, upon which the load
goes on. TensorRT may accept or refuse a plan of another GPU (`Foreign`). `keyed` is the
key of the load, and `replaced` holds the keys of all loads whose model was replaced after it was
asked for its size and time and before it was read; `seen`, `faulted`, `keyed` and `replaced` are
histories. `infer` is confined to one thread, so it is one step, with the calls that may
fail as alternatives and the input buffer of the device (`engine.input`) as it is left; the outputs are
always written before they are read.

The ONNX Runtime engines load in one step and keep no buffers.
`ObjectDetector` is the process around them: `Start` (environment), `ApplySettings`
(settings page), `Detect`, and, from outside, `ReplaceModel` and `Crash`. After a crash any
cached file may be torn, for nothing is synced. `ReplaceModel` may put any version there, an older
one with its old time included, or none. What is assumed: `deserializeCudaEngine` refuses a
truncated plan, and one thread at a time uses an engine (which `VisionPipeline` and
`Session` establish). The size and the time of the model are asked for in one step, although
the code makes two calls.

`ReadyAsAsked` says what a ready engine runs for all that: a whole plan of the precision and
the shape asked for; for a GPU of the right slug, if this load could query it; and of a model
that looks like one this load met, unless a model was replaced under this key. The two
conditions are the code's limits, not the property's: a GPU that cannot be queried and
a model replaced between the two looks at it file a plan under a name that is not its own.

`ImplementsPort` is the refinement of `InferencePort`: `loaded` is the configuration of a
ready engine, `failed` the presence of an error, `asked` the frame given to the last call of
`infer`, and an answer counts as one *of* the frame it was computed from and *by* the
configuration whose plan computed it. The port admits an answer only *of* what is asked in the
same step, so the answer to the frame before does not refine it.

### Perception

`computed` holds the last call with its inputs and its result, or the probe with
the list of the samples it was given. Arithmetic is exact: coordinates are
in parts of `Unit` of the frame, scores in parts of `Levels`, and ratios are pairs of
integers compared by their products; the rounding of `float` is not modelled, the
truncation towards zero of the conversions to `int` is. The properties are
stated over sets of pixels, not over the rectangles the code computes with.
`greedyIouAssociate` alone is not one step: `call` is a record of its arguments and local
variables, `AssociateLooks` the body of its inner loops, `AssociateTakes` the end of a
round that found a pair and `AssociateReturns` that of one that did not.
`cv::dnn::NMSBoxes` is external: of the candidates strictly above the score threshold the most
certain one is kept, the earlier of two alike, and what overlaps it by more than the threshold is dropped,
until none is left. Detections carry the number of the row or contour they come from; their
order in the vector is left out, for no property is about it. Scores of a
network lie between 0 and 1 (`YoloRows`), for it ends in a sigmoid: without that, giving up on a row by its
objectness alone (`detectors/YoloDecoding.cpp`) could lose one. A percentile is exact, in
hundredths of a millisecond, a mean is a pair of sum and count.

## 3. Runs

| Run | Question | Instance |
|---|---|---|
| `bounded_queue` | Does the queue keep order, count losses, lose no wakeup, release everybody on close, and implement `LossyFifo`? | 2 producers, 2 consumers, 4 pushes, capacities 1 and 2, all policies |
| `pipeline` | Do lifecycle, queue lifetime, counters and visibility hold? | 2 controllers, 2 modes, capacity 2, 4 frames per session, 2 sessions |
| `pipeline_live` | Does stop return; is each queued frame presented or overtaken? | 1 controller, 1 mode, otherwise the same |
| `event_delivery` | Stored once in order, shown once, handed over, nothing vanishes, the newest rows kept? | log and writer queue of 2, table and history of 1 row, batches up to 2, 3 events, any number of sessions, crashes and restarts |
| `event_delivery_live` | Does an event reach the writer, and is it settled there? | capacities 1, 2 events |
| `pipeline_source_race` | Is the source driven by one thread? **violated** | 1 frame |
| `pipeline_mode_race` | Does the tracker see detections of one mode only? **violated** | 2 frames |
| `event_cursor_mode_switch` | Is what `notifyFrame` met persisted? **violated** | 2 events |
| `analytics` | Tracker: do state, counters, clock, trajectory and totals agree; does it keep the promise of `TrackLifecycle`? Rules: do events, memory, occupancy and timers agree with what the tracks did? | 2 classes, 2 detections per frame, 4 ids, 6 frames, `minHits` 2, `maxLostFrames` 1, trajectories of 2; 2 tracks, 5 foot points, 2 lines, 2 filters, threshold 3, 6 time units, gaps 1 and 2, 4 crossings counted |
| `session` | Do controller, manager and pipeline agree after every rebuild, does a failed one give back all it took, and does a start use the rules as shown? | 3 libraries, two with one id, 2 modes, 2 settings, a line and a polygon tool, 2 points, 2 rules, drafts of 3 |
| `detectors` | Does a ready engine run what was asked for, does a dirty cache heal, do the engines keep the promise of `InferencePort`? Do decoding, matching, letterbox and latency windows say what they should? | 3 model versions, two of one size and time, 2 GPUs, 4 configurations, 3 environments, 3 engines, 2 contents of the model file during a load, 2 frames; frames up to 4 x 3, `Unit` 4, `Levels` 2, up to 3 rows, 2 tracks, windows of 3, latencies 1 and 4 |
| `session_drawing` | Do the draw tools rest while the camera runs? **violated** | 1 setting, 1 rule |

Why the bounds are enough. *Queue*: with two threads on each side one can sleep
while the other overtakes it, which is what a lost wakeup needs; four pushes fill
capacity 2 and evict twice. *Pipeline*: capacity 2 is the production value
(`VisionPipeline.h:35`); four frames fill the queue, put one in the detector's
hands and force an eviction; two sessions show whatever a first one leaves behind;
two controllers contend for `m_lifecycle`. *Events*: with capacities of 2 and 3 events
log and writer queue overflow, and a table for 1 row does while prunes are missed once, twice or
three times; one pending call in the event loop is
enough to be stale after a stop, and a new call may follow when it is dispatched.
*Tracker*: six frames are a confirmation, a loss, a recovery, a second loss and an
expiry; two detections let one track be matched while another ages, both rounds of
association compete for a track, and the two classes keep them apart. *Rules*: the foot points lie on both
sides of either line, on a line, and on either side beyond its end, so that tracks
cross, stop on it and go around; the slanted line ends on a possible path; six units of time
cross the threshold of 3 once and begin a second stay. *Session*: three libraries give
each mode a plugin, none, or two to choose from; two settings tell old from new;
two rules of different or the same kind number the ids, and 3 points are a polygon
or an unfinished one. *Detectors*: three engines are enough for one that fills the
cache or dies, one that finds what is left, and one more that comes upon what that one filed; of
the three models the second differs from the first in nothing but its stamp, the third in
everything but its stamp; two contents of the model file during one load are a replacement, and a third
would be forgotten like the first; two precisions, two GPUs and the other backends must not share a
plan. Boxes lie inside, across two edges and beside the frame; three rows are a chain in which
each overlaps its neighbours only, which the order of suppression matters for; two
detections and two tracks can tie, and one pair can block two others; a window of 3 is
filled, overwritten and reset for as long as one likes. Safety does not rest on these
bounds: it is proved for all of them.

The bounds that are not in the code: `MaxPushes`, `MaxFrames`, `MaxSessions`,
`MaxBatch`, `MaxEvents`, `MaxCalls`, `MaxDetections`, `MaxId`, `MaxTime`, `MaxCrossings`,
`MaxRules`, `MaxDraft`, `MaxEngines`, `MaxSeen`. `LogCapacity`, `WriterCapacity`, `StoreRows`,
`HistoryLimit` and `WindowSize` are the code's own limits (256, 1024, 10000, 500, 256) made small.
Deadlock is checked in every passing run: the models have no state without
successors (tracker and rules can always be reset). In the passing `pipeline` run the names of controllers and modes are
symmetric, in `session` the points, in `detectors` the frames. No property under fairness
is checked with symmetry: the two PROPERTIES of `detectors` speak of single steps, and so do those of
`pipeline` and `session`.

Each property has a mutant (`PROJECT.json`): a variant of one modelled definition,
as a plausible bug would change it, under which TLC finds the property violated.
Where several facts make one question they are one property: `BacklogExplained` (bound,
order and losses of the queue), `NoLostWakeup` (consumers, producers, and nobody asleep
after close), `LifecycleSound` (flag and life of the queue), `CountersAreTrue` (each
track's counters and the totals).

### Fairness

`BoundedQueue!FairSpec`: a producer inside `push` and each consumer keep going,
since both consumers of the program are loops around `pop`
(`InferenceWorker::run`, `EventWriter::runLoop`). Nobody is obliged to push or to
close, and no spurious wakeup is promised. `VisionPipeline!FairSpec`: each thread
that can take a step takes one in the end, controllers only inside a call; it
assumes that `read` and `detect` return, which the program needs as well, for `stop`
joins. `EventDelivery!FairSpec`: the worker finishes the frame it began, the event
loop dispatches, the writer works; users, crashes and frames are free. Weak
fairness suffices everywhere: no action is enabled on and off for ever in the
behaviours the properties are about.

## 4. What disagrees with the repository

1. **The source is called by two threads.** `joinWorkers` closes the source while
   the capture thread may be inside `read` (`pipeline/VisionPipeline.cpp:139`), and
   `video/IVideoSource.h:18` reserves an instance to a single thread. The fake
   sources of the tests lock a mutex, `CameraSource` does not.
2. **The mode is read twice per frame** (`pipeline/InferenceWorker.cpp:49` and
   `:64`). A switch in between resets the tracker and then feeds it detections of
   the old mode, which `docs/tracking/bytetrack.md:99` does not foresee.
3. **A mode switch hides events.** Ids restart at 1 inside the session
   (`InferenceWorker.cpp:70`, `RuleEngine.cpp:100`), the cursor of `notifyFrame`
   does not (`CameraManager.cpp:413`), so events are skipped until the ids pass the
   old maximum. `docs/storage/events.md` names only events that never reached
   `notifyFrame` as lost. `MetEventsAreHanded` is the same property for sessions
   without a mode switch, and holds.
4. **A drawing can be finished while the camera runs.** `finishDraw`
   (`controllers/VisionController.cpp:178`) does not test `m_running` as `beginDraw` and
   `addDrawPoint` do, and `startCamera` leaves a draft alone. A polygon begun before the
   start is finished by a double click or the return key (`views/CameraView.qml:70`,
   `:77`), appears in the list and in the overlay, and is not evaluated.
   `docs/analytics/rule-engine.md:222` calls the draw tools no-ops of a running camera.
   `StartUsesShownRules` says what holds: the next start takes the rule over.

Four more were met that no run states.

* GPUs that cannot be queried share their plans: `gpuSlug` answers "gpu" for each of them
  (`inference/TensorRTEngine.cpp:102`) and the load goes on, so a plan built for one may be read for
  another, where TensorRT may refuse it. `docs/inference/tensorrt-engine.md:174-175` says that a change
  of the GPU's name produces a different file name, so that the old file is not reused.
  `ReadyAsAsked` says what holds.
* A truncated plan may be published: the last buffer of the temporary file is written by the
  destructor of the stream, after its state was tested (`inference/TensorRTEngine.cpp:243`), so
  that a full disk goes unnoticed and the file is renamed (`WriteTmp`).
  `docs/inference/tensorrt-engine.md:67-68` says "do not leave a truncated file behind (write to a
  `.tmp` name then rename)". `DirtyCacheHeals` says what holds: the next load deletes it and
  builds anew, which `:170` asks of a damaged file.
* A track that is not confirmed yet is dropped at its first miss
  (`tracking/ByteTrackTracker.cpp:173`), while `docs/tracking/bytetrack.md:65-67` describes one rule for all
  unmatched tracks; that `Missed` models, and `ShownFromConfirmationToExpiry` speaks of confirmed tracks.
* A rebuild by `applySessionSettings` starts in mode Face (`CameraManager.cpp:187`)
  whatever mode the page shows; `VisionController::setMode` with the mode shown then
  returns early. No document promises otherwise.

## 5. What is proved

TLAPS checks every proof; the assumptions are the named ASSUMEs of the modules:
capacities are positive (the constructor throws for 0), producers and consumers
are finite and disjoint sets, bounds are natural numbers, and the names that
stand for "none" are no controllers, modes, configurations or versions of the model.

**BoundedQueueProofs** — for any number of threads and pushes and any capacities:
`TypeCorrect`, `QueueIsNewestSuffix`, `DropsAreAccounted`, `NobodySleepsAfterClose`,
`NoItemWakeupIsLost`, `NoSlotWakeupIsLost`, what they say together
(`BacklogIsExplained`, `NoWakeupIsLost`), and `QueueImplementsFifo`, the
refinement of `LossyFifo`. `NewestSuffix`, the drop count and `NoSleeperAfterClose`
are inductive with types. The two wakeup invariants are inductive as stated (*as long as one
consumer sleeps, there are at least as many threads on their way to an item as
items*), with cardinalities: a waiting thread that is notified joins those under
way, one that takes an item leaves them but takes its item along, and a thread
can only fall asleep when there is no item. The refinement maps every action to
Send, Receive, Shut, End or a stutter.

**VisionPipelineProofs** — for any controllers, modes, capacity, frames and sessions.
None of the invariants is inductive alone. The inductive invariant is

    IInv == TypeOK /\ Owned /\ Phases /\ Counted /\ Ordered

* `Owned`: whoever is inside start or stop holds `m_lifecycle`, so there is one.
* `Phases`: what each place in start and stop has established so far, for instance
  that at `joinInference` capture has ended and queue and source are closed. This
  gives `LifecycleAgrees` and `QueueOutlivesWorkers`.
* `Counted`: for each place of the capture loop, how far the counters lag behind
  (`Held`: what they must explain; `Uncounted`: evictions of this push not yet
  reported). This gives `FramesAccounted`, and, with it, that the subtraction in
  `onDropped` never goes below zero, which `TypeOK` needs.
* `Ordered`: the queue holds consecutive frame ids up to the one read last (or the
  one before while that one is not pushed), and log, mailbox and callback follow
  in this order. This gives `ReadersSeeOrder`, `LatestMovesForward` and
  `TakesFreshFrame`.

`Invariance` states `Spec => []IInv`; the other theorems (`TypeCorrect`,
`RunningIsTrue`, `QueueIsOutlived`, both in one as `LifecycleIsSound`, `FramesAreAccounted`, `ReadersAreOrdered`,
`LatestIsMonotonic`, `FramesTakenAreFresh`) follow.

**AnalyticsProofs, the tracker** — for any classes, thresholds (`minHits` may even be zero or
negative, as an `int` may), numbers of detections and frames, and any association. The
inductive invariant is

    IInv == TypeOK /\ TracksAgree /\ PublishedIsShown /\ StatsAddUp

where `TracksAgree` says of each live track what `CountersAreTrue` and
`TrajectoryContinuous` say (neither is inductive alone:
the length of the trajectory needs the age, the age of a tentative track its hits). The lemmas
follow one track through one frame (`HitStep`, `MissStep`, `FreshStep`, from lemmas
on counters and on the samples of the trajectory), `SettleMoves` puts them together to
what a frame does to all tracks, and invariant, `ShownAsPromised` and
`LifecycleImplemented` follow from that. `LosesAndGains` counts the live tracks.

**AnalyticsProofs, the rules** — for any finite set of ids, any foot points and lines with
integer coordinates, any regions, threshold and frame times. The properties hold together
inductively with `HistoriesMatch`, which ties the histories to the last frame
(`RulesIInv`): counting and line rule see the same crossings because they remember the
same feet (`MemoryOfPresentOnly`), and a stay ends with the intrusion for the same
reason. `ClassifyCrossing` is opaque up to there. `EventsExplained` opens it: the code
decides by four orientations, `EventsMatchMovement` speaks of a point that move and line
have in common. `Meeting` gives that point in terms of the orientations (how far the
ends of either segment are off the other one say where on it they meet), so that a
crossing has one; conversely `MeetingIsThere` eliminates one coordinate at a time from any
common point and gets the orientations back (`PathMeetsSegment`). Products of variables
are confined to lemmas on integers, for which `Turn` and `Meets` are opaque elsewhere.

**SessionProofs** — for any plugins, modes, settings, points and lengths of the list. The inductive invariant is

    IInv == TypeOK /\ IsPipeline(pipeline) /\ SessionAgrees /\ Listed(list) /\ Listed(specs)

`Listed` says of a list of rules that every rule is one the factory accepts and that the
ids are numbered through per kind: `AllocateId` counts the rules of a kind, and the new id
is new only because nobody has left the list. From this follow `TypeCorrect`,
`SessionStaysAgreed`, `RebuildKeepsOrReplaces` and `StartTakesShownRules`. That a failed rebuild
keeps the old pipeline in every part rests on the invariant: the source comes back because
the pipeline had one and neither runs, the injected rules are those it had because `specs` agree with them,
and the callback because it was bound.

**ObjectDetectorProofs** — for any models, GPUs, configurations, frames and engines, any stamps
and slugs, and whatever the model file holds over time. The inductive invariant follows a load:

    IInv == ModelIsFile /\ CacheIsFiled /\ EngineLoads /\ KeyIsMet /\ PlanIsBuilt /\ ReadyRunsAsAsked

* `CacheIsFiled`: what lies in the cache under a key is a plan of that precision; for a GPU of the
  key's slug, unless that is `AnyGpu`; and of a model of the key's stamp, unless the key is in
  `replaced`.
* `KeyIsMet`: the key of a load is that of a model it met and of a slug its GPU may have; and up to
  the build the model file still has the key's stamp, or the key is in `replaced`.
* `PlanIsBuilt`: the plan built is as asked, and on the way to its file whole or torn as the
  faults tell.

`Invariance` states it, and `ReadyEnginesRunAsAsked` and `DirtyCachesHeal` follow. With
`EngineIsNew` (a load shows neither an answer nor an error before its end, and loads a
configuration that was asked for) every step maps to a step of `InferencePort` or a stutter:
`EnginesKeepTheirPort`. A step of `Detect` with a ready engine maps to the port's `Infer` of that same
frame, whose answer is *of* it. `TypeCorrect` needs what each step of a load has already put into the call.

**EventDeliveryProofs** — for any capacities, batches, calls, sessions, crashes and restarts. The
inductive invariant is

    IInv == DeliveryTypes /\ AtRest /\ LogFits /\ SameMode /\ StoreFits

* `LogFits`: log and copy are in order; whatever the cursor does not cover was made after all
  that was handed over; and what is in the log was met by the loop, is still before it, or
  is newer than its copy.
* `SameMode`: as long as the mode has not changed, ids and serial numbers
  run in parallel, so that the comparison of ids is one of serials, and all that
  was met and is not still to do was handed over.
* `StoreFits`: table, job in hand and job queue are one increasing sequence up to what was
  handed over, and whatever was handed over and is not lost is in it.

`DatabaseIsInOrder`, `NothingIsLostSilently` and `WhatIsMetIsHandedOver` follow. `TableKeepsTheNewest`
(`NewestRowsAreKept`) is inductive with the types of its histories (`RetentionInv`): the table is the end of
`inserted`, an insert lengthens both by one row, a prune shortens the table only at its front and
to `StoreRows`, and a crash changes neither.

The event page has an invariant of its own (`PageInvariance`), on top of these two:

    PageInv == PageTypes /\ IngestRests /\ RowsDiffer /\ IngestInOrder /\ CursorCovers /\ HistoryFits

* `HistoryFits`: the query of the history is posted before anything else, so as long as it is
  not answered the table holds events of earlier processes only, and they are older than every
  event in the log and every row of this process.
* `CursorCovers`: whatever is on the page and can be met again has an id up to the cursor,
  and whatever the loop of `ingest` has collected one up to `newMax`. The loop compares with the
  cursor as it was when it began (`m_maxSessionEventId` moves at its end), so that it needs
  `IngestInOrder` not to collect an event twice.
* `Forgotten`, beside it: a process that ends leaves nothing in memory, so no row of one can be met
  by the next but through the table.

`NoRowTwice` and `TypeCorrect` follow. No run checks this type invariant: with it is proved that log and
writer's queue never exceed their capacities; the table may, which is `NewestRowsAreKept`'s business.

**PerceptionProofs** — for any lists of detections and tracks, boxes of any integer sizes (empty and
negative ones too), any threshold; any integer sizes of frame and item and any click.
`MatchingIsStable` is about a loop with two loops in it, and its invariant has a part for
each: every pair that can no longer be taken lost its detection or its track to a taken one
that overlaps at least as much (`RivalsFit`), and, inside a round, `best` overlaps as much as
any free pair the cursor has passed (`BestFits`). A round that ends without a best has
passed everything, so nothing is left that could be taken (`Exhausted`). It needs that overlaps are
ratios with a positive denominator, compared by products, and that this comparison is
transitive; a union is positive when the boxes meet, so the test `uni <= 0` of the code is
never met (`OverlapIsRatio`).
`ClicksLand` says of a click between the drawn corners that it returns the point drawn there, and
of any other that it returns nothing. It is exact arithmetic with a division: `Fine` is the denominator that makes
every point of the picture a whole number, so the division has no remainder
(`Lands`), and mapping there and back cancels.

`WindowsAreNewest` is about a ring that is written for as long as the program runs. Its
invariant (`RingFits`) is that a ring which is not full has `next` at 0 and is the list of its
samples, and that a full one is that list from `next` on, round its end (`Around`); an overwritten
sample is the one at `next`, the oldest, so that moving `next` by one makes the rest of
the list the new list. A reset empties the ring and puts `next` back to 0, which the next growth
needs. `WindowSize` is any positive number, since a window of 0 throws (`core/LatencyWindow.h:22`).

`DetectionsAreExplained` and `LatenciesAreExplained` are about what a recursion computes. There is
no induction theorem to cite, but the library knows that `<` on the naturals is well-founded, and
from that follows that a set of naturals has a least element if it has any (`LeastNumber`, and
`LeastSet` for finite sets by their cardinality): whatever fails somewhere fails first somewhere,
and just before that it held.

* *Suppression.* The recursion of `NMSBoxes` over what is left of the candidates defines a function
  (`RoundsEnd`), and its rounds keep no two that are too much alike and, for whatever they drop, an
  alike one that is as certain (`RoundsSuppress`). The code compares areas of rectangles, the
  property numbers of pixels: `InPixels`, `MeetIsCommon` and `CountPixels` show that to be the same, and
  `AlikeIsClose` the ratios of them. `SureOfRow` is where giving up early is harmless.
* *Latencies.* The sum of a list exists (`SumsExist`) and is the same wherever in the ring
  one begins (`SumTurns`). A list can be sorted (`OrderExists`: the largest is exchanged with the last),
  and a list put in another order has as many values in any set as before (`OrderCounts`), which
  goes for sorting and for the turn of the ring alike. The value at a rank lies between two neighbours
  (`RankBetween`) and rises with the rank (`RanksRise`); `MedianHalves` counts on either side.

Only model-checked: all liveness (`NoItemStranded`, `CloseReleases`, `StopReturns`,
`FramesArePresented`, `LoggedIsHanded`, `HandedIsSettled`), since TLAPS does not treat
fairness and ENABLED.

## 6. What is not modelled

* Images, preprocessing, networks, background model, contours, the Kalman filter, frame
  rates: arithmetic and libraries. In the pipeline `InferenceAnalyse` stands for tracker and
  rules together; in `ByteTrack` the association is any pairing, of which
  `GreedyMatching` computes one.
* `cv::pointPolygonTest`; a tracker or a rule that throws (the worker shows the frame without tracks or
  events then; `pipeline/InferenceWorker.cpp:85`, `:107`). Exceptions other than `cv::Exception`, which
  end the process.
* `size`, `closed`, `droppedCount`, `latest`, `recentEvents` as calls of their
  own where they only read; the reads that the program acts on are in the actions.
* A change of the database path while the writer runs (tests only), the schema.
* `warmup` of the engines (benchmark only), and a second `initialize` of one engine
  (no caller).
* Rendering, list models, QML, the pages' filters, the language.
* Two engines of one process that load at the same time would share a temporary file
  (`inference/TensorRTEngine.cpp:219`); the program has one `YoloDetector` at a time.
* What the models do but no property is about: the history query takes the oldest 500 rows
  (`Oldest`; `storage/SqliteEventRepository.cpp:158`); events of the last frames before a stop stay in the
  log when `notifyFrame` finds the pipeline stopped (`utilities/CameraManager.cpp:387`); no document
  promises otherwise.

## 7. Plan

Done: the queue, the pipeline, the delivery of events, the tracker, the rules, the
session, the engines and the computations on a frame; their safety proved. What would add most from here:

1. The queue of `VisionPipeline` as an instance of `LossyFifo`.
2. **Composition**: `TrackRules` fed by a `TrackLifecycle`, where a rule sees an id again
   only after a reset.
