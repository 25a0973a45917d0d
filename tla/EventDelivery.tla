---------------------------- MODULE EventDelivery ----------------------------
(***************************************************************************)
(* How an event travels: the inference thread numbers it (RuleEngine) and  *)
(* appends it to the EventLog; the GUI thread, told of every frame by a    *)
(* queued call, copies from the log what its cursor has not passed, to the *)
(* EventWriter (CameraManager::notifyFrame) and to the EventModel          *)
(* (VisionController::onFrameChanged); the writer thread inserts it into   *)
(* the database, which outlives the process.                               *)
(*                                                                         *)
(* An event is the serial number of its making, a history value that is    *)
(* unique for ever, with the eventId the engine gave it, which is not.     *)
(* The GUI thread runs one handler at a time; inside a handler, every lock *)
(* it takes is a step, so that the other two threads run in between.       *)
(***************************************************************************)
EXTENDS Naturals, Sequences, FiniteSets, SequencesExt

CONSTANTS Modes,          \* DetectionMode
          FirstMode,      \* the mode CameraManager starts with (Face)
          NoMode,         \* an empty optional mode
          LogCapacity,    \* EventLog::kDefaultCapacity (256)
          WriterCapacity, \* EventWriter's queue (1024)
          StoreRows,      \* rows that a prune leaves (10000)
          HistoryLimit,   \* rows a query returns at most (500)
          MaxBatch,       \* bound: events of one frame
          MaxEvents,      \* bound: events ever made
          MaxCalls        \* bound: calls waiting in the GUI's event loop

ASSUME CapacitiesAssumption == /\ LogCapacity \in Nat \ {0}
                               /\ WriterCapacity \in Nat \ {0}
                               /\ StoreRows \in Nat /\ HistoryLimit \in Nat
ASSUME ModesAssumption == NoMode \notin Modes /\ FirstMode \in Modes
ASSUME BoundsAssumption == MaxBatch \in Nat /\ MaxEvents \in Nat /\ MaxCalls \in Nat

VARIABLES
  app,    \* the process: up, closing (main returns) or down
  mode,   \* VisionPipeline::m_mode
  worker, \* inference thread: place in run, m_lastMode, the engine's m_nextEventId,
          \* and whether the mode has changed under it in this session (history)
  log,    \* m_eventLog
  latest, \* m_latest: none, a frame with a picture, or one without (blank)
  calls,  \* calls queued for the GUI thread, oldest first
  gui,    \* GUI thread: place in notifyFrame, events still to hand over,
          \* m_persistedMaxEventId, and the events notifyFrame met (history)
  model,  \* EventModel: m_maxSessionEventId, its rows, m_historyLoaded; in ingest
          \* the rest of its copy of the log, the rows collected and newMax
  jobs,   \* the writer's queue: serials of events, or Query
  writer, \* writer thread: off (no database), idle, busy with a job, before prune, or
          \* about to post rows
  store,  \* rows of the database, which a crash does not erase
  made,   \* history: events made so far
  handed, \* history: events given to EventWriter::enqueue
  lost,   \* history: those of them that overflow, failure, pruning or a crash took
  inserted, \* history: rows ever inserted, in order
  unpruned  \* history: rows inserted since prune last worked

history == <<made, handed, lost, inserted, unpruned>>
vars == <<app, mode, worker, log, latest, calls, gui, model, jobs, writer, store, history>>

Query == 0
NoJob == 0
Notify == [is |-> "notify", rows |-> <<>>]
History(rows) == [is |-> "history", rows |-> rows]
IdleWorker == [at |-> "none", lastMode |-> NoMode, nextId |-> 1, switched |-> FALSE]
IdleGui == [at |-> "idle", todo |-> <<>>, persisted |-> 0, seen |-> {}]
EmptyModel == [cursor |-> 0, rows |-> <<>>, loaded |-> FALSE,
               todo |-> <<>>, live |-> <<>>, newMax |-> 0]

Events(s) == ToSet(s) \ {Query}
Serials(evs) == [i \in DOMAIN evs |-> evs[i].serial]
Newest(s, n) == IF Len(s) <= n THEN s ELSE SubSeq(s, Len(s) - n + 1, Len(s))
Oldest(s, n) == IF Len(s) <= n THEN s ELSE SubSeq(s, 1, n)
Running == worker.at # "none"

\* The writer's queue takes a job; being DropOldest it may lose its oldest.
Queued(q, job) == Newest(Append(q, job), WriterCapacity)
Overflowed(q) == IF Len(q) >= WriterCapacity THEN Events(<<Head(q)>>) ELSE {}

\* A new process: VisionController asks for the history as soon as it exists;
\* if the database does not open there is no writer to ask.
FirstJobs(w) == IF w.at = "off" THEN <<>> ELSE <<Query>>

NoWriter == [at |-> "off", job |-> NoJob, rows |-> <<>>]
IdleWriter == [NoWriter EXCEPT !.at = "idle"]
Writers == {NoWriter, IdleWriter}
Init == /\ app = "up" /\ worker = IdleWorker /\ log = <<>> /\ latest = "none"
        /\ calls = <<>> /\ gui = IdleGui /\ model = EmptyModel
        /\ mode = FirstMode
        /\ writer \in Writers /\ jobs = FirstJobs(writer)
        /\ store = <<>> /\ made = 0 /\ handed = {} /\ lost = {}
        /\ inserted = <<>> /\ unpruned = 0
------------------------------------------------------------------------------
(* The inference thread                                                      *)

ModeChanged == worker.lastMode # NoMode /\ worker.lastMode # mode
Batch(n, firstId) == [i \in 1..n |-> [serial |-> made + i, id |-> firstId + i - 1]]

\* One frame up to EventLog::push: a mode other than that of the frame before
\* resets the engine, whose ids then start at 1 again; the rules emit n events.
WorkerEvaluate(n) ==
    /\ worker.at = "loop" /\ made + n <= MaxEvents /\ Len(calls) < MaxCalls
    /\ LET firstId == IF ModeChanged THEN 1 ELSE worker.nextId
       IN /\ log' = Newest(log \o Batch(n, firstId), LogCapacity)
          /\ worker' = [at |-> "publish", lastMode |-> mode, nextId |-> firstId + n,
                        switched |-> worker.switched \/ ModeChanged]
    /\ made' = made + n
    /\ UNCHANGED <<app, mode, latest, calls, gui, model, jobs, writer, store, handed, lost,
                   inserted, unpruned>>

\* The picture is missing when rendering throws a cv::Exception.
WorkerPublish == /\ worker.at = "publish"
                 /\ latest' \in {"picture", "blank"}
                 /\ worker' = [worker EXCEPT !.at = "announce"]
                 /\ UNCHANGED <<app, mode, log, calls, gui, model, jobs, writer, store, history>>

\* Mutant: the presented callback is not bound.
WorkerAnnounceUnbound ==
    /\ worker.at = "announce"
    /\ worker' = [worker EXCEPT !.at = "loop"]
    /\ UNCHANGED <<app, mode, log, latest, calls, gui, model, jobs, writer, store, history>>

\* m_onPresented posts notifyFrame to the GUI thread.
WorkerAnnounce == /\ worker.at = "announce"
                  /\ calls' = Append(calls, Notify)
                  /\ worker' = [worker EXCEPT !.at = "loop"]
                  /\ UNCHANGED <<app, mode, log, latest, gui, model, jobs, writer, store, history>>
------------------------------------------------------------------------------
(* The GUI thread: what the user does, between two handlers                  *)

UserMay == app = "up" /\ gui.at = "idle"

\* Mutant: the cursor of the session before stays.
StartCameraKeepsCursor ==
    /\ UserMay /\ ~Running
    /\ model' = [model EXCEPT !.cursor = 0]
    /\ worker' = [IdleWorker EXCEPT !.at = "loop"]
    /\ log' = <<>> /\ latest' = "none"
    /\ gui' = [gui EXCEPT !.seen = {}]
    /\ UNCHANGED <<app, mode, calls, jobs, writer, store, history>>

\* startCamera: the model's cursor is reset first; the pipeline resets engine,
\* log and mailbox; the writer's cursor is reset once it runs.
StartCamera == /\ UserMay /\ ~Running
               /\ model' = [model EXCEPT !.cursor = 0]
               /\ worker' = [IdleWorker EXCEPT !.at = "loop"]
               /\ log' = <<>> /\ latest' = "none"
               /\ gui' = [gui EXCEPT !.persisted = 0, !.seen = {}]
               /\ UNCHANGED <<app, mode, calls, jobs, writer, store, history>>

\* The source does not open: by then the model's cursor has been reset.
StartCameraFails == /\ UserMay /\ ~Running
                    /\ model' = [model EXCEPT !.cursor = 0]
                    /\ UNCHANGED <<app, mode, worker, log, latest, calls, gui, jobs, writer,
                                   store, history>>

\* stopCamera joins the worker, which first finishes its frame; what it posted
\* stays in the event loop, and the log keeps its events.
StopCamera == /\ UserMay /\ worker.at = "loop"
              /\ worker' = [worker EXCEPT !.at = "none"]
              /\ UNCHANGED <<app, mode, log, latest, calls, gui, model, jobs, writer, store, history>>

SetMode(m) == /\ UserMay /\ m # mode
              /\ mode' = m
              /\ UNCHANGED <<app, worker, log, latest, calls, gui, model, jobs, writer, store, history>>
------------------------------------------------------------------------------
(* The GUI thread: the queued calls                                          *)

Dispatch(is) == app = "up" /\ gui.at = "idle" /\ calls # <<>> /\ Head(calls).is = is

\* notifyFrame: nothing to do when stopped, or for a frame without a picture.
NotifyFrame == /\ Dispatch("notify")
               /\ calls' = Tail(calls)
               /\ gui' = [gui EXCEPT !.at = IF Running /\ latest = "picture" THEN "snapshot"
                                                                            ELSE "idle"]
               /\ UNCHANGED <<app, mode, worker, log, latest, model, jobs, writer, store, history>>

\* The loop's copy of the log.
NotifySnapshot ==
    /\ gui.at = "snapshot"
    /\ gui' = [gui EXCEPT !.at = "enqueue", !.todo = log,
                          !.seen = @ \cup {log[i].serial : i \in DOMAIN log}]
    /\ UNCHANGED <<app, mode, worker, log, latest, calls, model, jobs, writer, store, history>>

\* A turn of the loop tests its condition with the cursor as it is by then,
\* which an event before in the same copy may have moved past this one.
Fresh == Head(gui.todo).id > gui.persisted
NotifySkip ==
    /\ gui.at = "enqueue" /\ gui.todo # <<>> /\ ~Fresh
    /\ gui' = [gui EXCEPT !.todo = Tail(@)]
    /\ UNCHANGED <<app, mode, worker, log, latest, calls, model, jobs, writer, store, history>>

\* Mutant: the cursor does not advance.
NotifyEnqueueCursorStuck ==
    /\ gui.at = "enqueue" /\ gui.todo # <<>> /\ Fresh
    /\ LET e == Head(gui.todo)
       IN /\ gui' = [gui EXCEPT !.todo = Tail(@)]
          /\ handed' = handed \cup {e.serial}
          /\ IF writer.at = "off" THEN lost' = lost \cup {e.serial} /\ UNCHANGED jobs
             ELSE lost' = lost \cup Overflowed(jobs) /\ jobs' = Queued(jobs, e.serial)
    /\ UNCHANGED <<app, mode, worker, log, latest, calls, model, writer, store, made,
                   inserted, unpruned>>

NotifyEnqueue ==
    /\ gui.at = "enqueue" /\ gui.todo # <<>> /\ Fresh
    /\ LET e == Head(gui.todo)
       IN /\ gui' = [gui EXCEPT !.todo = Tail(@), !.persisted = e.id]
          /\ handed' = handed \cup {e.serial}
          /\ IF writer.at = "off" THEN lost' = lost \cup {e.serial} /\ UNCHANGED jobs
             ELSE lost' = lost \cup Overflowed(jobs) /\ jobs' = Queued(jobs, e.serial)
    /\ UNCHANGED <<app, mode, worker, log, latest, calls, model, writer, store, made,
                   inserted, unpruned>>

\* frameChanged is emitted: EventModel::ingest gets a copy of the log of its own.
NotifyEmit ==
    /\ gui.at = "enqueue" /\ gui.todo = <<>>
    /\ gui' = [gui EXCEPT !.at = "ingest"]
    /\ model' = [model EXCEPT !.todo = log, !.newMax = model.cursor]
    /\ UNCHANGED <<app, mode, worker, log, latest, calls, jobs, writer, store, history>>

\* A turn of its loop, unlike that of notifyFrame, tests against the cursor as
\* it was before the loop: in one copy an id may come after a greater one.
IngestTurn ==
    /\ gui.at = "ingest" /\ model.todo # <<>>
    /\ LET e == Head(model.todo)
       IN model' = IF e.id > model.cursor
                     THEN [model EXCEPT !.todo = Tail(@), !.live = Append(@, e.serial),
                                        !.newMax = IF e.id > @ THEN e.id ELSE @]
                     ELSE [model EXCEPT !.todo = Tail(@)]
    /\ UNCHANGED <<app, mode, worker, log, latest, calls, gui, jobs, writer, store, history>>

\* Mutant: the model's cursor does not advance.
IngestEndCursorStuck ==
    /\ gui.at = "ingest" /\ model.todo = <<>>
    /\ gui' = [gui EXCEPT !.at = "idle"]
    /\ model' = [model EXCEPT !.rows = @ \o model.live, !.live = <<>>, !.newMax = 0]
    /\ UNCHANGED <<app, mode, worker, log, latest, calls, jobs, writer, store, history>>

\* The rows are appended at once, then the cursor moves.
IngestEnd ==
    /\ gui.at = "ingest" /\ model.todo = <<>>
    /\ gui' = [gui EXCEPT !.at = "idle"]
    /\ model' = [model EXCEPT !.rows = @ \o model.live, !.cursor = model.newMax,
                              !.live = <<>>, !.newMax = 0]
    /\ UNCHANGED <<app, mode, worker, log, latest, calls, jobs, writer, store, history>>

\* The answer to the query of the history: it is shown, unless it is empty.
HistoryArrives ==
    /\ Dispatch("history")
    /\ calls' = Tail(calls)
    /\ model' = IF model.loaded \/ Head(calls).rows = <<>> THEN model
                ELSE [model EXCEPT !.rows = @ \o Head(calls).rows, !.loaded = TRUE]
    /\ UNCHANGED <<app, mode, worker, log, latest, gui, jobs, writer, store, history>>

Gui == NotifyFrame \/ NotifySnapshot \/ NotifySkip \/ NotifyEnqueue \/ NotifyEmit
       \/ IngestTurn \/ IngestEnd \/ HistoryArrives
------------------------------------------------------------------------------
(* The writer thread                                                         *)

WriterTake == /\ app # "down" /\ writer.at = "idle" /\ jobs # <<>>
              /\ writer' = [IdleWriter EXCEPT !.at = "busy", !.job = Head(jobs)]
              /\ jobs' = Tail(jobs)
              /\ UNCHANGED <<app, mode, worker, log, latest, calls, gui, model, store, history>>

\* insert and prune are two statements, each a transaction of its own: the table
\* is longer than StoreRows between them, and stays so if the program ends there.
WriterInsert ==
    /\ writer.at = "busy" /\ writer.job # Query
    /\ writer' = [IdleWriter EXCEPT !.at = "pruning"]
    /\ store' = Append(store, writer.job)
    /\ inserted' = Append(inserted, writer.job) /\ unpruned' = unpruned + 1
    /\ UNCHANGED <<app, mode, worker, log, latest, calls, gui, model, jobs, made, handed, lost>>

\* Mutant: the writer ends when an insert fails.
WriterInsertFailsEnds ==
    /\ writer.at = "busy" /\ writer.job # Query
    /\ writer' = [NoWriter EXCEPT !.at = "ended"]
    /\ lost' = lost \cup {writer.job}
    /\ UNCHANGED <<app, mode, worker, log, latest, calls, gui, model, jobs, store, made, handed,
                   inserted, unpruned>>

\* Nobody looks at insert's answer: prune is called all the same.
WriterInsertFails ==
    /\ writer.at = "busy" /\ writer.job # Query
    /\ writer' = [IdleWriter EXCEPT !.at = "pruning"]
    /\ lost' = lost \cup {writer.job}
    /\ UNCHANGED <<app, mode, worker, log, latest, calls, gui, model, jobs, store, made, handed,
                   inserted, unpruned>>

\* Mutant: prune deletes one row, as many as were inserted just now.
WriterPruneOne ==
    /\ writer.at = "pruning"
    /\ writer' = IdleWriter
    /\ store' = IF Len(store) > StoreRows THEN Tail(store) ELSE store
    /\ lost' = lost \cup (ToSet(store) \ ToSet(store'))
    /\ unpruned' = 0
    /\ UNCHANGED <<app, mode, worker, log, latest, calls, gui, model, jobs, made, handed, inserted>>

\* DELETE of the rows in excess of StoreRows, oldest first.
WriterPrune ==
    /\ writer.at = "pruning"
    /\ writer' = IdleWriter
    /\ store' = Newest(store, StoreRows)
    /\ lost' = lost \cup (ToSet(store) \ ToSet(store'))
    /\ unpruned' = 0
    /\ UNCHANGED <<app, mode, worker, log, latest, calls, gui, model, jobs, made, handed, inserted>>

\* The COUNT or the DELETE fails, which nobody learns.
WriterPruneFails ==
    /\ writer.at = "pruning"
    /\ writer' = IdleWriter
    /\ UNCHANGED <<app, mode, worker, log, latest, calls, gui, model, jobs, store, history>>

\* The SELECT answers with the oldest rows up to the limit, or with none if it
\* fails; then the receiver is looked at: once main has destroyed it the
\* QPointer is null.
WriterQuery ==
    /\ writer.at = "busy" /\ writer.job = Query
    /\ IF app = "up"
         THEN \E rows \in {Oldest(store, HistoryLimit), <<>>} :
                 writer' = [writer EXCEPT !.at = "posting", !.rows = rows]
         ELSE writer' = IdleWriter
    /\ UNCHANGED <<app, mode, worker, log, latest, calls, gui, model, jobs, store, history>>

\* invokeMethod posts the answer to the GUI thread.  If the receiver was
\* destroyed since it was looked at, the answer is lost, or the program crashes.
WriterPost ==
    /\ writer.at = "posting"
    /\ writer' = IdleWriter
    /\ calls' = IF app = "up" THEN Append(calls, History(writer.rows)) ELSE calls
    /\ UNCHANGED <<app, mode, worker, log, latest, gui, model, jobs, store, history>>

Writer == \/ WriterTake \/ WriterInsert \/ WriterInsertFails
          \/ WriterPrune \/ WriterPruneFails \/ WriterQuery \/ WriterPost
------------------------------------------------------------------------------
(* The process                                                               *)

\* main returns: the VisionController is destroyed, then ~CameraManager stops
\* the pipeline and the writer.  What the event loop still held is not run.
Quit == /\ UserMay /\ worker.at \in {"none", "loop"}
        /\ app' = "closing"
        /\ worker' = [worker EXCEPT !.at = "none"]
        /\ calls' = <<>>
        /\ UNCHANGED <<mode, log, latest, gui, model, jobs, writer, store, history>>

\* What the process had in memory is gone.
MemoryGone == /\ app' = "down"
              /\ worker' = IdleWorker /\ log' = <<>> /\ latest' = "none"
              /\ calls' = <<>> /\ gui' = IdleGui /\ model' = EmptyModel
              /\ jobs' = <<>> /\ writer' = NoWriter

\* Mutant: the process ends without waiting for the writer's queue to drain.
QuitEndsUndrained ==
    /\ app = "closing" /\ writer.at \in {"off", "idle"}
    /\ MemoryGone
    /\ UNCHANGED <<mode, store, history>>

\* EventWriter::stop: the queue is closed and drained before the thread ends.
QuitEnds == /\ app = "closing" /\ writer.at \in {"off", "idle"}
            /\ jobs = <<>>
            /\ MemoryGone
            /\ UNCHANGED <<mode, store, history>>

\* A crash: only the database is left.
Crash == /\ app # "down"
         /\ MemoryGone
         /\ lost' = lost \cup Events(jobs) \cup Events(<<writer.job>>)
         /\ UNCHANGED <<mode, store, made, handed, inserted, unpruned>>

Launch == /\ app = "down"
          /\ app' = "up" /\ mode' = FirstMode
          /\ writer' \in Writers /\ jobs' = FirstJobs(writer')
          /\ UNCHANGED <<worker, log, latest, calls, gui, model, store, history>>
------------------------------------------------------------------------------
User == \/ StartCamera \/ StartCameraFails \/ StopCamera
        \/ \E m \in Modes : SetMode(m)
Next == \/ \E n \in 0..MaxBatch : WorkerEvaluate(n)
        \/ WorkerPublish \/ WorkerAnnounce
        \/ User \/ Gui \/ Writer
        \/ Quit \/ QuitEnds \/ Crash \/ Launch

Spec == Init /\ [][Next]_vars

\* The three threads run when they can: the worker finishes the frame it has
\* begun, the event loop dispatches, the writer works.  Users, crashes and the
\* arrival of frames need not happen.
FairSpec == /\ Spec
            /\ WF_vars(WorkerPublish \/ WorkerAnnounce)
            /\ WF_vars(Gui)
            /\ WF_vars(Writer)
------------------------------------------------------------------------------
Event == [serial : Nat, id : Nat]
WriterPlaces == {"off", "idle", "busy", "pruning", "posting"}
TypeOK ==
    /\ app \in {"up", "closing", "down"} /\ mode \in Modes
    /\ worker \in [at : {"none", "loop", "publish", "announce"}, lastMode : Modes \cup {NoMode},
                   nextId : Nat, switched : BOOLEAN]
    /\ log \in Seq(Event) /\ Len(log) <= LogCapacity
    /\ latest \in {"none", "picture", "blank"}
    /\ calls \in Seq([is : {"notify", "history"}, rows : Seq(Nat)])
    /\ gui \in [at : {"idle", "snapshot", "enqueue", "ingest"}, todo : Seq(Event),
                persisted : Nat, seen : SUBSET Nat]
    /\ model \in [cursor : Nat, rows : Seq(Nat), loaded : BOOLEAN,
                  todo : Seq(Event), live : Seq(Nat), newMax : Nat]
    /\ jobs \in Seq(Nat) /\ Len(jobs) <= WriterCapacity
    /\ writer \in [at : WriterPlaces, job : Nat, rows : Seq(Nat)]
    /\ store \in Seq(Nat) /\ inserted \in Seq(Nat) /\ unpruned \in Nat
    /\ made \in Nat /\ handed \subseteq Nat /\ lost \subseteq Nat

Increasing(s) == \A i, j \in DOMAIN s : i < j => s[i] < s[j]

\* The database holds every event at most once and in the order in which they
\* were made, over all sessions, mode changes, crashes and restarts, although
\* eventIds repeat and every frame offers the whole log again.
StoredOnceInOrder == Increasing(store)

\* Retention, through prunes that fail or that a crash prevents: what the table
\* has given up are the oldest of the rows ever inserted, and only for StoreRows
\* newer ones; it is longer than StoreRows by no more than was inserted since
\* prune last worked, however many prunes were missed before.
Pruned == Len(inserted) - Len(store)
NewestRowsAreKept ==
    /\ Pruned \in Nat
    /\ \A i \in DOMAIN store : store[i] = inserted[i + Pruned]
    /\ Pruned > 0 => Len(store) >= StoreRows
    /\ Len(store) <= StoreRows + unpruned

\* The event page shows no event twice, live rows and history together: the
\* query of the history is ahead of every event in the writer's queue.
ShownOnce == IsInjective(model.rows)

\* Each event that notifyFrame met in the log has been given to the writer when
\* it returns, unless the detection mode changed in this session; in particular
\* the ids of a new session, which start at 1, are not taken for old ones.
MetEventsAreHanded ==
    gui.at = "idle" /\ ~worker.switched => gui.seen \subseteq handed

\* What the writer accepted is in its queue, in its hands or in the database,
\* but for what overflow, a failed insert, pruning or a crash took: a regular
\* end of the program loses nothing.
NothingVanishes ==
    handed \ lost \subseteq Events(jobs) \cup ToSet(store) \cup {writer.job}

\* An event in the log of a running session does reach the writer, unless it is
\* pushed out of the log first (the known limit of events.md), the session ends,
\* or the frames have no picture.
InLog(s) == s \in ToSet(Serials(log))
LoggedIsHanded ==
    \A s \in 1..MaxEvents :
        InLog(s) /\ Running /\ ~worker.switched
            ~> s \in handed \/ ~InLog(s) \/ ~Running \/ worker.switched \/ latest = "blank"

\* What the writer was given is stored in the end or lost for one of the reasons
\* above; a failed insert does not stop the writer.
HandedIsSettled ==
    \A s \in 1..MaxEvents : s \in handed ~> s \in ToSet(store) \cup lost
------------------------------------------------------------------------------
(* A statement of the repository that the code does not keep                 *)

\* events.md:3 and 35: the writer persists the increments of the log; what is
\* not persisted is what never reached notifyFrame.
NotifiedIsPersisted == gui.at = "idle" => gui.seen \subseteq handed
==============================================================================
