------------------------- MODULE EventDeliveryProofs -------------------------
(* Theorems about EventDelivery for any capacities, modes and numbers of      *)
(* events, sessions, crashes and restarts, with their proofs: first about     *)
(* what is stored, then about the event page.                                 *)
EXTENDS EventDelivery, SequenceTheorems, TLAPS

GuiStates == [at : {"idle", "snapshot", "enqueue", "ingest"}, todo : Seq(Event),
              persisted : Nat, seen : SUBSET Nat]
DeliveryTypes ==
    /\ app \in {"up", "closing", "down"} /\ mode \in Modes
    /\ worker \in [at : {"none", "loop", "publish", "announce"}, lastMode : Modes \cup {NoMode},
                   nextId : Nat \ {0}, switched : BOOLEAN]
    /\ log \in Seq(Event)
    /\ gui \in GuiStates
    /\ jobs \in Seq(Nat) /\ Len(jobs) <= WriterCapacity
    /\ writer \in [at : WriterPlaces, job : Nat, rows : Seq(Nat)]
    /\ store \in Seq(Nat)
    /\ made \in Nat /\ handed \in SUBSET (1..made)

(* What the threads have nothing of when they are not at work.                *)
AtRest == /\ gui.at # "enqueue" => gui.todo = <<>>
          /\ writer.at # "busy" => writer.job = NoJob
          /\ app = "down" => jobs = <<>> /\ writer.at = "off" /\ gui.at = "idle"

(* The log, and the copy of it the loop of notifyFrame is at.                 *)
InOrder(evs) == /\ \A i \in DOMAIN evs : evs[i].serial \in 1..made /\ evs[i].id >= 1
                /\ \A i, j \in DOMAIN evs : i < j => evs[i].serial < evs[j].serial

(* What the cursor does not cover was made after everything handed over.      *)
NoneBehind(evs) == \A i \in DOMAIN evs, s \in handed :
                      evs[i].serial <= s => evs[i].id <= gui.persisted

(* What is in the log was met by the loop, or is still before it, or is newer *)
(* than its copy.                                                             *)
LoopMeetsAll ==
    \A i \in DOMAIN log : \/ log[i].id <= gui.persisted
                          \/ \E k \in DOMAIN gui.todo : gui.todo[k] = log[i]
                          \/ \A k \in DOMAIN gui.todo : gui.todo[k].serial < log[i].serial

LogFits == /\ InOrder(log) /\ InOrder(gui.todo)
           /\ NoneBehind(log) /\ NoneBehind(gui.todo)
           /\ LoopMeetsAll

(* As long as no switch of the mode restarts the ids, they grow as the events *)
(* do, and what the cursor covers was handed over.                            *)
Numbered(evs) == /\ \A i \in DOMAIN evs : evs[i].id < worker.nextId
                 /\ \A i, j \in DOMAIN evs : i < j => evs[i].id < evs[j].id
AllHanded(evs) == \A i \in DOMAIN evs : evs[i].id <= gui.persisted => evs[i].serial \in handed
SameMode ==
    ~worker.switched =>
        /\ gui.persisted < worker.nextId
        /\ Numbered(log) /\ Numbered(gui.todo)
        /\ \A i \in DOMAIN log, k \in DOMAIN gui.todo :
              gui.todo[k].serial < log[i].serial => gui.todo[k].id < log[i].id
        /\ AllHanded(log) /\ AllHanded(gui.todo)
        /\ \A s \in gui.seen : s \in handed \/ \E k \in DOMAIN gui.todo : gui.todo[k].serial = s

(* Table, writer and queue hold what was handed over, in this order.          *)
StoreInOrder == /\ \A i \in DOMAIN store : store[i] \in handed
                /\ \A i, j \in DOMAIN store : i < j => store[i] < store[j]
JobInOrder == writer.job # NoJob => /\ writer.job \in handed
                                    /\ \A i \in DOMAIN store : store[i] < writer.job
JobsInOrder ==
    /\ \A i \in DOMAIN jobs :
          jobs[i] # Query => /\ jobs[i] \in handed
                             /\ writer.job < jobs[i]
                             /\ \A k \in DOMAIN store : store[k] < jobs[i]
    /\ \A i, j \in DOMAIN jobs :
          i < j /\ jobs[i] # Query /\ jobs[j] # Query => jobs[i] < jobs[j]
Settled == \A s \in handed \ lost : \/ s = writer.job
                                    \/ \E i \in DOMAIN jobs : jobs[i] = s
                                    \/ \E i \in DOMAIN store : store[i] = s
StoreFits == StoreInOrder /\ JobInOrder /\ JobsInOrder /\ Settled

(* The strengthened invariant.                                                *)
IInv == DeliveryTypes /\ AtRest /\ LogFits /\ SameMode /\ StoreFits

USE DEF Query, NoJob, GuiStates, WriterPlaces

(* How many elements Newest cuts off at the front.                            *)
Cut(s, n) == IF Len(s) <= n THEN 0 ELSE Len(s) - n

LEMMA NewestCuts ==
    ASSUME NEW S, NEW s \in Seq(S), NEW n \in Nat
    PROVE  /\ Newest(s, n) \in Seq(S)
           /\ Cut(s, n) \in 0..Len(s)
           /\ Len(Newest(s, n)) = Len(s) - Cut(s, n) /\ Len(Newest(s, n)) <= n
           /\ \A i \in 1..(Len(s) - Cut(s, n)) : Newest(s, n)[i] = s[i + Cut(s, n)]
<1>1. Len(s) \in Nat /\ DOMAIN s = 1..Len(s) /\ \A i \in 1..Len(s) : s[i] \in S
  BY LenProperties, ElementOfSeq
<1>2. CASE Len(s) <= n
  <2>1. Newest(s, n) = s /\ Cut(s, n) = 0
    BY <1>2 DEF Newest, Cut
  <2> QED
    BY <1>1, <1>2, <2>1
<1>3. CASE ~(Len(s) <= n)
  <2> DEFINE cut == Len(s) - n
             t == SubSeq(s, cut + 1, Len(s))
  <2>1. Newest(s, n) = t /\ Cut(s, n) = cut /\ cut \in 1..Len(s)
    BY <1>1, <1>3 DEF Newest, Cut
  <2>2. \A i \in (cut + 1)..Len(s) : s[i] \in S
    BY <1>1, <2>1
  <2>3. /\ t \in Seq(S)
        /\ Len(t) = IF cut + 1 <= Len(s) THEN Len(s) - (cut + 1) + 1 ELSE 0
        /\ \A i \in 1..(Len(s) - (cut + 1) + 1) : t[i] = s[cut + 1 + i - 1]
    <3>1. cut + 1 \in Int /\ Len(s) \in Int
      BY <1>1, <2>1
    <3> HIDE DEF cut
    <3> QED
      BY <2>2, <3>1, SubSeqProperties
  <2> HIDE DEF t
  <2>4. Len(t) = Len(s) - cut /\ \A i \in 1..(Len(s) - cut) : t[i] = s[i + cut]
    BY <1>1, <2>1, <2>3
  <2> QED
    BY <1>1, <2>1, <2>3, <2>4
<1> QED
  BY <1>2, <1>3

(* A queue that takes a job keeps the order and loses its head at most.       *)
Over(q) == IF Len(q) >= WriterCapacity THEN 1 ELSE 0
LEMMA QueuedKeeps ==
    ASSUME NEW q \in Seq(Nat), Len(q) <= WriterCapacity, NEW job \in Nat
    PROVE  /\ Queued(q, job) \in Seq(Nat) /\ Len(Queued(q, job)) <= WriterCapacity
           /\ DOMAIN Queued(q, job) = 1..(Len(q) + 1 - Over(q))
           /\ \A i \in DOMAIN Queued(q, job) :
                 Queued(q, job)[i] = IF i + Over(q) = Len(q) + 1 THEN job ELSE q[i + Over(q)]
<1> DEFINE a == Append(q, job)
           r == Newest(a, WriterCapacity)
<1>1. Len(q) \in Nat /\ WriterCapacity \in Nat \ {0}
  BY CapacitiesAssumption
<1>2. /\ a \in Seq(Nat) /\ Len(a) = Len(q) + 1
      /\ \A i \in 1..Len(q) : a[i] = q[i]
      /\ a[Len(q) + 1] = job
  BY AppendProperties
<1> HIDE DEF a
<1>3. Cut(a, WriterCapacity) = Over(q)
  BY <1>1, <1>2 DEF Cut, Over
<1> HIDE DEF r
<1>4. Over(q) \in {0, 1}
  BY DEF Over
<1>5. /\ r \in Seq(Nat) /\ Len(r) = Len(q) + 1 - Over(q) /\ Len(r) <= WriterCapacity
      /\ \A i \in 1..(Len(q) + 1 - Over(q)) : r[i] = a[i + Over(q)]
  <2>1. /\ r \in Seq(Nat)
        /\ Len(r) = Len(a) - Cut(a, WriterCapacity) /\ Len(r) <= WriterCapacity
        /\ \A i \in 1..(Len(a) - Cut(a, WriterCapacity)) : r[i] = a[i + Cut(a, WriterCapacity)]
    <3>1. WriterCapacity \in Nat
      BY <1>1
    <3> QED
      BY <1>2, <3>1, NewestCuts DEF r
  <2>2. Len(a) - Cut(a, WriterCapacity) = Len(q) + 1 - Over(q)
    <3>1. Len(a) = Len(q) + 1
      BY <1>2
    <3>2. Over(q) \in Int /\ Len(q) \in Int
      BY <1>1, <1>4
    <3> QED
      BY <1>3, <3>1, <3>2
  <2> QED
    BY <1>3, <2>1, <2>2
<1>6. DOMAIN r = 1..(Len(q) + 1 - Over(q))
  BY <1>5, LenProperties
<1>7. \A i \in DOMAIN r : r[i] = IF i + Over(q) = Len(q) + 1 THEN job ELSE q[i + Over(q)]
  <2> SUFFICES ASSUME NEW i \in DOMAIN r
               PROVE  r[i] = IF i + Over(q) = Len(q) + 1 THEN job ELSE q[i + Over(q)]
    OBVIOUS
  <2>1. r[i] = a[i + Over(q)] /\ i + Over(q) \in 1..(Len(q) + 1)
    BY <1>1, <1>4, <1>5, <1>6
  <2>2. CASE i + Over(q) = Len(q) + 1
    BY <1>2, <2>1, <2>2
  <2>3. CASE i + Over(q) \in 1..Len(q)
    <3>1. i + Over(q) # Len(q) + 1
      BY <1>1, <2>3
    <3> QED
      BY <1>2, <2>1, <2>3, <3>1
  <2> QED
    BY <1>1, <2>1, <2>2, <2>3
<1> QED
  BY <1>5, <1>6, <1>7 DEF r, a, Queued

LEMMA LogKept ==
    ASSUME LogFits, SameMode,
           UNCHANGED <<log, gui.todo, gui.persisted, gui.seen, worker.nextId, worker.switched,
                       handed, made>>
    PROVE  LogFits' /\ SameMode'
BY DEF LogFits, SameMode, InOrder, NoneBehind, LoopMeetsAll, Numbered, AllHanded

LEMMA StoreKept ==
    ASSUME StoreFits, UNCHANGED <<jobs, store, writer.job, handed>>, lost \subseteq lost'
    PROVE  StoreFits'
BY DEF StoreFits, StoreInOrder, JobInOrder, JobsInOrder, Settled

LEMMA EventsTyped ==
    ASSUME DeliveryTypes
    PROVE  /\ \A i \in DOMAIN log : log[i].serial \in Nat /\ log[i].id \in Nat
           /\ \A k \in DOMAIN gui.todo : gui.todo[k].serial \in Nat /\ gui.todo[k].id \in Nat
<1>1. log \in Seq(Event) /\ gui.todo \in Seq(Event)
  BY DEF DeliveryTypes
<1>2. ASSUME NEW evs \in Seq(Event), NEW i \in DOMAIN evs
      PROVE  evs[i].serial \in Nat /\ evs[i].id \in Nat
  <2>1. evs[i] \in Event
    BY <1>2, ElementOfSeq, LenProperties
  <2> QED
    BY <2>1 DEF Event
<1> QED
  BY <1>1, <1>2

(* A step that moves neither an event nor a cursor.                           *)
Quiet == /\ UNCHANGED <<log, jobs, store, writer, handed, made, lost>>
         /\ gui' = [gui EXCEPT !.at = gui'.at] /\ gui'.at \in {"idle", "snapshot", "enqueue", "ingest"}
         /\ worker' = [worker EXCEPT !.at = worker'.at]
         /\ worker'.at \in {"none", "loop", "publish", "announce"}
         /\ app' \in {"up", "closing", "down"} /\ mode' \in Modes
         /\ \/ UNCHANGED <<gui, app>>
            \/ app' # "down" /\ gui.todo = <<>>

LEMMA QuietStep ==
    ASSUME IInv, Quiet
    PROVE  IInv'
<1>1. DeliveryTypes'
  BY DEF IInv, DeliveryTypes, Quiet
<1>2. AtRest'
  BY DEF IInv, DeliveryTypes, AtRest, Quiet
<1>3. UNCHANGED <<gui.todo, gui.persisted, gui.seen, worker.nextId, worker.switched>>
  BY DEF IInv, DeliveryTypes, Quiet
<1> QED
  BY <1>1, <1>2, <1>3, LogKept, StoreKept DEF IInv, Quiet

LEMMA OtherSteps ==
    ASSUME IInv,
           \/ WorkerPublish \/ WorkerAnnounce \/ StartCameraFails \/ StopCamera
           \/ \E m \in Modes : SetMode(m)
           \/ NotifyFrame \/ NotifyEmit \/ IngestTurn \/ IngestEnd \/ HistoryArrives \/ Quit
           \/ UNCHANGED vars
    PROVE  Quiet
<1>1. CASE WorkerPublish
  BY <1>1 DEF IInv, DeliveryTypes, WorkerPublish, history, Quiet
<1>2. CASE WorkerAnnounce
  BY <1>2 DEF IInv, DeliveryTypes, WorkerAnnounce, history, Quiet
<1>3. CASE StartCameraFails
  BY <1>3 DEF IInv, DeliveryTypes, StartCameraFails, history, Quiet
<1>4. CASE StopCamera
  BY <1>4 DEF IInv, DeliveryTypes, StopCamera, history, Quiet
<1>5. ASSUME NEW m \in Modes, SetMode(m) PROVE Quiet
  BY <1>5 DEF IInv, DeliveryTypes, SetMode, history, Quiet
<1>6. CASE NotifyFrame
  BY <1>6 DEF IInv, DeliveryTypes, AtRest, NotifyFrame, Dispatch, history, Quiet
<1>7. CASE NotifyEmit
  BY <1>7 DEF IInv, DeliveryTypes, AtRest, NotifyEmit, history, Quiet
<1>7a. CASE IngestTurn \/ IngestEnd
  <2>1. /\ gui' = gui \/ (gui' = [gui EXCEPT !.at = "idle"])
        /\ gui.at = "ingest"
        /\ UNCHANGED <<app, mode, worker, log, latest, calls, jobs, writer, store, history>>
    BY <1>7a DEF IngestTurn, IngestEnd
  <2> QED
    BY <2>1 DEF IInv, DeliveryTypes, AtRest, history, Quiet
<1>8. CASE HistoryArrives
  BY <1>8 DEF IInv, DeliveryTypes, HistoryArrives, history, Quiet
<1>9. CASE Quit
  BY <1>9 DEF IInv, DeliveryTypes, AtRest, Quit, UserMay, history, Quiet
<1>10. CASE UNCHANGED vars
  BY <1>10 DEF IInv, DeliveryTypes, vars, history, Quiet
<1> QED
  BY <1>1, <1>2, <1>3, <1>4, <1>5, <1>6, <1>7, <1>7a, <1>8, <1>9, <1>10

(* The log with the events of a frame, before its oldest ones are dropped.    *)
FirstId == IF ModeChanged THEN 1 ELSE worker.nextId
Grown(n) == log \o Batch(n, FirstId)

LEMMA GrownLog ==
    ASSUME DeliveryTypes, NEW n \in Nat
    PROVE  /\ Grown(n) \in Seq(Event) /\ Len(Grown(n)) = Len(log) + n
           /\ \A i \in 1..Len(log) : Grown(n)[i] = log[i]
           /\ \A i \in (Len(log) + 1)..(Len(log) + n) :
                 /\ Grown(n)[i].serial = made + (i - Len(log))
                 /\ Grown(n)[i].id = FirstId + (i - Len(log)) - 1
<1> DEFINE b == Batch(n, FirstId)
<1>1. FirstId \in Nat \ {0} /\ made \in Nat
  BY DEF DeliveryTypes, FirstId
<1>2. \A i \in 1..n : [serial |-> made + i, id |-> FirstId + i - 1] \in Event
  BY <1>1 DEF Event
<1>3. b \in [1..n -> Event]
  BY <1>2 DEF Batch
<1>4. b \in Seq(Event) /\ Len(b) = n
  BY <1>3
<1>5. \A i \in 1..n : b[i].serial = made + i /\ b[i].id = FirstId + i - 1
  BY DEF Batch
<1> HIDE DEF b
<1>6. log \in Seq(Event) /\ Len(log) \in Nat
  BY LenProperties DEF DeliveryTypes
<1>7. /\ log \o b \in Seq(Event) /\ Len(log \o b) = Len(log) + n
      /\ \A i \in 1..(Len(log) + n) : (log \o b)[i] = IF i <= Len(log) THEN log[i] ELSE b[i - Len(log)]
  <2>1. /\ log \o b \in Seq(Event) /\ Len(log \o b) = Len(log) + Len(b)
        /\ \A i \in 1..(Len(log) + Len(b)) :
              (log \o b)[i] = IF i <= Len(log) THEN log[i] ELSE b[i - Len(log)]
    BY <1>4, <1>6, ConcatProperties
  <2> QED
    BY <1>4, <2>1
<1>8. Grown(n) = log \o b
  BY DEF Grown, b
<1>9. \A i \in 1..Len(log) : (log \o b)[i] = log[i]
  BY <1>6, <1>7
<1>10. ASSUME NEW i \in (Len(log) + 1)..(Len(log) + n)
       PROVE  (log \o b)[i] = b[i - Len(log)] /\ i - Len(log) \in 1..n
  BY <1>6, <1>7, <1>10
<1> QED
  BY <1>5, <1>7, <1>8, <1>9, <1>10

LEMMA EvaluateStep ==
    ASSUME IInv, NEW n \in 0..MaxBatch, WorkerEvaluate(n)
    PROVE  IInv'
<1> DEFINE w == Grown(n)
           cut == Cut(w, LogCapacity)
           old == Len(log)
<1>1. /\ UNCHANGED <<app, mode, gui, jobs, writer, store, handed, lost>>
      /\ log' = Newest(w, LogCapacity)
      /\ worker' = [at |-> "publish", lastMode |-> mode, nextId |-> FirstId + n,
                    switched |-> worker.switched \/ ModeChanged]
      /\ made' = made + n
  BY DEF WorkerEvaluate, Grown, FirstId
<1>2. /\ DeliveryTypes /\ n \in Nat /\ made \in Nat /\ LogCapacity \in Nat
      /\ old \in Nat /\ DOMAIN log = 1..old
      /\ FirstId \in Nat \ {0}
  BY BoundsAssumption, CapacitiesAssumption, LenProperties DEF IInv, DeliveryTypes, FirstId
<1>3. /\ w \in Seq(Event) /\ Len(w) = old + n
      /\ \A i \in 1..old : w[i] = log[i]
      /\ \A i \in (old + 1)..(old + n) :
            w[i].serial = made + (i - old) /\ w[i].id = FirstId + (i - old) - 1
  BY <1>2, GrownLog
<1> HIDE DEF w
<1>4. /\ log' \in Seq(Event) /\ cut \in 0..(old + n)
      /\ DOMAIN log' = 1..(old + n - cut)
      /\ \A i \in DOMAIN log' : log'[i] = w[i + cut]
  <2>1. w \in Seq(Event) /\ LogCapacity \in Nat
    BY <1>2, <1>3
  <2>2. /\ Newest(w, LogCapacity) \in Seq(Event)
        /\ cut \in 0..Len(w)
        /\ Len(Newest(w, LogCapacity)) = Len(w) - cut
        /\ \A i \in 1..(Len(w) - cut) : Newest(w, LogCapacity)[i] = w[i + cut]
    BY <2>1, NewestCuts
  <2> HIDE DEF cut, old
  <2>3. log' = Newest(w, LogCapacity) /\ Len(w) = old + n
    BY <1>1, <1>3
  <2>4. /\ log' \in Seq(Event) /\ cut \in 0..(old + n) /\ Len(log') = old + n - cut
        /\ \A i \in 1..(old + n - cut) : log'[i] = w[i + cut]
    <3> DEFINE len == Len(w)
    <3>1. log' = Newest(w, LogCapacity) /\ len = old + n
      BY <2>3
    <3>2. /\ Newest(w, LogCapacity) \in Seq(Event) /\ cut \in 0..len
          /\ Len(Newest(w, LogCapacity)) = len - cut
          /\ \A i \in 1..(len - cut) : Newest(w, LogCapacity)[i] = w[i + cut]
      BY <2>2
    <3> HIDE DEF len
    <3>3. old \in Nat /\ n \in Nat /\ cut \in Int
      BY <1>2, <3>1, <3>2
    <3>4. len - cut = old + n - cut
      BY <3>1, <3>3
    <3>5. log' \in Seq(Event) /\ cut \in 0..(old + n) /\ Len(log') = old + n - cut
      BY <3>1, <3>2, <3>4
    <3>6. \A i \in 1..(old + n - cut) : log'[i] = w[i + cut]
      BY <3>1, <3>2, <3>4
    <3> QED
      BY <3>5, <3>6
  <2>5. DOMAIN log' = 1..Len(log')
    BY <2>4, LenProperties
  <2> QED
    BY <2>4, <2>5
<1> HIDE DEF cut, old
<1>5. \A i \in DOMAIN log' : i + cut \in 1..(old + n)
  BY <1>2, <1>4
<1>6. DeliveryTypes'
  BY <1>1, <1>2, <1>4 DEF IInv, DeliveryTypes
<1>7. AtRest'
  BY <1>1 DEF IInv, AtRest
<1>8. StoreFits'
  BY <1>1, StoreKept DEF IInv
<1>9. InOrder(log)'
  <2>1. /\ \A i \in 1..old : /\ w[i] = log[i] /\ w[i].serial \in 1..made /\ w[i].id >= 1
        /\ \A i, j \in 1..old : i < j => w[i].serial < w[j].serial
    <3>1. InOrder(log)
      BY DEF IInv, LogFits
    <3>2. \A i \in 1..old : w[i] = log[i]
      BY <1>3
    <3> QED
      BY <1>2, <3>1, <3>2 DEF InOrder
  <2>2. \A i \in (old + 1)..(old + n) :
            w[i].serial = made + (i - old) /\ w[i].id = FirstId + (i - old) - 1
    BY <1>3
  <2>3. ASSUME NEW i \in 1..(old + n)
        PROVE  w[i].serial \in 1..(made + n) /\ w[i].id >= 1
    <3>1. CASE i \in 1..old
      BY <1>2, <2>1, <3>1
    <3>2. CASE i \in (old + 1)..(old + n)
      BY <1>2, <2>2, <3>2
    <3> QED
      BY <1>2, <3>1, <3>2
  <2>4. ASSUME NEW i \in 1..(old + n), NEW j \in 1..(old + n), i < j
        PROVE  w[i].serial < w[j].serial
    <3>1. CASE j \in 1..old
      BY <1>2, <2>1, <2>4, <3>1
    <3>2. CASE j \in (old + 1)..(old + n) /\ i \in 1..old
      BY <1>2, <2>1, <2>2, <3>2
    <3>3. CASE i \in (old + 1)..(old + n) /\ j \in (old + 1)..(old + n)
      BY <1>2, <2>2, <2>4, <3>3
    <3>4. old \in Nat /\ n \in Nat
      BY <1>2
    <3> QED
      BY <2>4, <3>1, <3>2, <3>3, <3>4
  <2>5. \A i \in DOMAIN log' : log'[i].serial \in 1..made' /\ log'[i].id >= 1
    BY <1>1, <1>4, <1>5, <2>3
  <2>6. ASSUME NEW i \in DOMAIN log', NEW j \in DOMAIN log', i < j
        PROVE  log'[i].serial < log'[j].serial
    <3>1. i + cut < j + cut
      BY <1>2, <1>4, <2>6
    <3> QED
      BY <1>4, <1>5, <2>4, <3>1
  <2> QED
    BY <2>5, <2>6 DEF InOrder
<1>10. InOrder(gui.todo)' /\ NoneBehind(gui.todo)'
  BY <1>1, <1>2 DEF IInv, LogFits, InOrder, NoneBehind
<1>11. NoneBehind(log)' /\ LoopMeetsAll'
  <2> SUFFICES ASSUME NEW i \in 1..(old + n)
               PROVE  /\ \A s \in handed : w[i].serial <= s => w[i].id <= gui.persisted
                      /\ \/ w[i].id <= gui.persisted
                         \/ \E k \in DOMAIN gui.todo : gui.todo[k] = w[i]
                         \/ \A k \in DOMAIN gui.todo : gui.todo[k].serial < w[i].serial
    BY <1>1, <1>4, <1>5 DEF NoneBehind, LoopMeetsAll
  <2>1. CASE i \in 1..old
    <3>1. w[i] = log[i] /\ i \in DOMAIN log
      BY <1>2, <1>3, <2>1
    <3> QED
      BY <3>1 DEF IInv, LogFits, NoneBehind, LoopMeetsAll
  <2>2. CASE i \in (old + 1)..(old + n)
    <3>1. w[i].serial > made /\ w[i].serial \in Nat
      BY <1>2, <1>3, <2>2
    <3>2. \A k \in DOMAIN gui.todo : gui.todo[k].serial \in 1..made
      BY DEF IInv, LogFits, InOrder
    <3>3. handed \subseteq 1..made
      BY DEF IInv, DeliveryTypes
    <3> QED
      BY <1>2, <3>1, <3>2, <3>3
  <2>3. i \in 1..old \/ i \in (old + 1)..(old + n)
    BY <1>2
  <2> QED
    BY <2>1, <2>2, <2>3
<1>12. SameMode'
  <2> SUFFICES ASSUME ~(worker.switched \/ ModeChanged)
               PROVE  SameMode'
    BY <1>1 DEF SameMode
  <2>1. FirstId = worker.nextId /\ worker'.nextId = worker.nextId + n
    BY <1>1 DEF FirstId
  <2>2. /\ gui.persisted < worker.nextId /\ gui.persisted \in Nat
        /\ Numbered(log) /\ Numbered(gui.todo) /\ AllHanded(log) /\ AllHanded(gui.todo)
        /\ \A i \in DOMAIN log, k \in DOMAIN gui.todo :
              gui.todo[k].serial < log[i].serial => gui.todo[k].id < log[i].id
        /\ \A s \in gui.seen : s \in handed \/ \E k \in DOMAIN gui.todo : gui.todo[k].serial = s
    BY DEF IInv, SameMode, DeliveryTypes
  <2>3. /\ \A k \in DOMAIN gui.todo : gui.todo[k].id \in Nat
        /\ \A i \in 1..old : log[i].id \in Nat
        /\ worker.nextId \in Nat
    BY <1>2, <2>1, EventsTyped
  <2>4. /\ \A i \in 1..old : w[i].id \in Nat /\ w[i].id < worker.nextId
        /\ \A i \in (old + 1)..(old + n) : w[i].id = worker.nextId + (i - old) - 1
    BY <1>2, <1>3, <2>1, <2>2, <2>3 DEF Numbered
  <2>5. ASSUME NEW i \in 1..(old + n)
        PROVE  /\ w[i].id < worker.nextId + n
               /\ w[i].id <= gui.persisted => w[i].serial \in handed
               /\ \A k \in DOMAIN gui.todo :
                     gui.todo[k].serial < w[i].serial => gui.todo[k].id < w[i].id
    <3>1. CASE i \in 1..old
      <4>1. w[i] = log[i]
        BY <1>3, <3>1
      <4>2. w[i].id < worker.nextId + n
        BY <1>2, <2>3, <2>4, <3>1
      <4> QED
        BY <1>2, <2>2, <3>1, <4>1, <4>2 DEF AllHanded
    <3>2. CASE i \in (old + 1)..(old + n)
      <4>1. w[i].id >= worker.nextId /\ w[i].id < worker.nextId + n /\ w[i].id \in Nat
        BY <1>2, <2>3, <2>4, <3>2
      <4>2. \A k \in DOMAIN gui.todo : gui.todo[k].id < w[i].id
        BY <2>2, <2>3, <4>1 DEF Numbered
      <4>3. ~(w[i].id <= gui.persisted)
        BY <2>2, <2>3, <4>1
      <4> QED
        BY <4>1, <4>2, <4>3
    <3>3. i \in 1..old \/ i \in (old + 1)..(old + n)
      BY <1>2
    <3> QED
      BY <3>1, <3>2, <3>3
  <2>6. ASSUME NEW i \in 1..(old + n), NEW j \in 1..(old + n), i < j
        PROVE  w[i].id < w[j].id
    <3>1. CASE j \in 1..old
      <4>1. i \in 1..old
        BY <1>2, <2>6, <3>1
      <4>2. w[i] = log[i] /\ w[j] = log[j]
        BY <1>3, <3>1, <4>1
      <4> QED
        BY <1>2, <2>2, <2>6, <3>1, <4>1, <4>2 DEF Numbered
    <3>2. CASE j \in (old + 1)..(old + n) /\ i \in 1..old
      BY <1>2, <2>3, <2>4, <3>2
    <3>3. CASE i \in (old + 1)..(old + n) /\ j \in (old + 1)..(old + n)
      BY <1>2, <2>3, <2>4, <2>6, <3>3
    <3> QED
      BY <1>2, <2>6, <3>1, <3>2, <3>3
  <2>7. Numbered(log)' /\ AllHanded(log)'
    <3>1. Numbered(log)'
      <4>1. \A i \in DOMAIN log' : log'[i] = w[i + cut] /\ i + cut \in 1..(old + n)
        BY <1>4, <1>5
      <4>2. \A i, j \in DOMAIN log' : i < j => i + cut < j + cut
        BY <1>4
      <4>3. \A i, j \in DOMAIN log' : i < j => log'[i].id < log'[j].id
        BY <2>6, <4>1, <4>2
      <4>4. \A i \in DOMAIN log' : log'[i].id < worker'.nextId
        BY <2>1, <2>5, <4>1
      <4> QED
        BY <4>3, <4>4 DEF Numbered
    <3>2. AllHanded(log)'
      BY <1>1, <1>4, <1>5, <2>1, <2>5 DEF AllHanded
    <3> QED
      BY <3>1, <3>2
  <2>8. Numbered(gui.todo)' /\ AllHanded(gui.todo)'
    BY <1>1, <1>2, <2>1, <2>2, <2>3 DEF Numbered, AllHanded
  <2>9. \A i \in DOMAIN log', k \in DOMAIN gui.todo :
            gui.todo[k].serial < log'[i].serial => gui.todo[k].id < log'[i].id
    BY <1>4, <1>5, <2>5
  <2> QED
    BY <1>1, <1>2, <2>1, <2>2, <2>7, <2>8, <2>9 DEF SameMode
<1> QED
  BY <1>6, <1>7, <1>8, <1>9, <1>10, <1>11, <1>12 DEF IInv, LogFits

LEMMA StartCameraStep ==
    ASSUME IInv, StartCamera
    PROVE  IInv'
<1>1. /\ UNCHANGED <<app, mode, jobs, writer, store, made, handed, lost>>
      /\ worker' = [IdleWorker EXCEPT !.at = "loop"]
      /\ log' = <<>>
      /\ gui' = [gui EXCEPT !.persisted = 0, !.seen = {}]
      /\ app = "up" /\ gui.at = "idle"
  BY DEF StartCamera, UserMay, history
<1>2. gui.todo = <<>> /\ gui'.todo = <<>> /\ gui'.persisted = 0 /\ gui'.seen = {} /\ gui'.at = "idle"
  BY <1>1 DEF IInv, AtRest, DeliveryTypes
<1>3. DeliveryTypes'
  <2>1. worker' \in [at : {"none", "loop", "publish", "announce"}, lastMode : Modes \cup {NoMode},
                     nextId : Nat \ {0}, switched : BOOLEAN]
    <3>1. worker' = [at |-> "loop", lastMode |-> NoMode, nextId |-> 1, switched |-> FALSE]
      BY <1>1 DEF IdleWorker
    <3> QED
      BY <3>1
  <2>2. gui' \in GuiStates
    BY <1>1 DEF IInv, DeliveryTypes
  <2>3. log' \in Seq(Event)
    BY <1>1, EmptySeq
  <2> QED
    BY <1>1, <2>1, <2>2, <2>3 DEF IInv, DeliveryTypes
<1>4. AtRest'
  BY <1>1, <1>2 DEF IInv, AtRest
<1>5. LogFits'
  BY <1>1, <1>2 DEF LogFits, InOrder, NoneBehind, LoopMeetsAll
<1>6. SameMode'
  BY <1>1, <1>2 DEF SameMode, Numbered, AllHanded, IdleWorker
<1>7. StoreFits'
  BY <1>1, StoreKept DEF IInv
<1> QED
  BY <1>3, <1>4, <1>5, <1>6, <1>7 DEF IInv

LEMMA SnapshotStep ==
    ASSUME IInv, NotifySnapshot
    PROVE  IInv'
<1>1. /\ UNCHANGED <<app, mode, worker, log, jobs, writer, store, made, handed, lost>>
      /\ gui' = [gui EXCEPT !.at = "enqueue", !.todo = log,
                            !.seen = @ \cup {log[i].serial : i \in DOMAIN log}]
      /\ gui.at = "snapshot"
  BY DEF NotifySnapshot, history
<1>2. /\ gui'.at = "enqueue" /\ gui'.todo = log /\ gui'.persisted = gui.persisted
      /\ gui'.seen = gui.seen \cup {log[i].serial : i \in DOMAIN log}
      /\ gui.todo = <<>>
  BY <1>1 DEF IInv, DeliveryTypes, AtRest
<1>3. DeliveryTypes'
  <2>1. {log[i].serial : i \in DOMAIN log} \subseteq Nat
    BY EventsTyped DEF IInv
  <2>2. gui.seen \cup {log[i].serial : i \in DOMAIN log} \in SUBSET Nat
    BY <2>1 DEF IInv, DeliveryTypes
  <2> QED
    BY <1>1, <2>2 DEF IInv, DeliveryTypes
<1>4. AtRest'
  BY <1>1, <1>2 DEF IInv, AtRest
<1>5. LogFits'
  BY <1>1, <1>2 DEF IInv, LogFits, InOrder, NoneBehind, LoopMeetsAll
<1>6. SameMode'
  <2> SUFFICES ASSUME ~worker.switched PROVE SameMode'
    BY <1>1 DEF SameMode
  <2>1. /\ gui.persisted < worker.nextId /\ Numbered(log) /\ AllHanded(log)
        /\ gui.seen \subseteq handed
    BY <1>2 DEF IInv, SameMode
  <2>2. ASSUME NEW i \in DOMAIN log, NEW k \in DOMAIN log, log[k].serial < log[i].serial
        PROVE  log[k].id < log[i].id
    <3>1. DOMAIN log \subseteq Int /\ log[k].serial \in Nat /\ log[i].serial \in Nat
      BY EventsTyped, LenProperties DEF IInv, DeliveryTypes
    <3>2. i < k => log[i].serial < log[k].serial
      BY DEF IInv, LogFits, InOrder
    <3>3. k < i
      BY <2>2, <3>1, <3>2
    <3> QED
      BY <2>1, <3>3 DEF Numbered
  <2>3. Numbered(log)' /\ AllHanded(log)' /\ Numbered(gui.todo)' /\ AllHanded(gui.todo)'
    BY <1>1, <1>2, <2>1 DEF Numbered, AllHanded
  <2>4. \A s \in gui'.seen : s \in handed \/ \E k \in DOMAIN log : log[k].serial = s
    BY <1>2, <2>1
  <2> QED
    BY <1>1, <1>2, <2>1, <2>2, <2>3, <2>4 DEF SameMode
<1>7. StoreFits'
  BY <1>1, StoreKept DEF IInv
<1> QED
  BY <1>3, <1>4, <1>5, <1>6, <1>7 DEF IInv

(* The loops take the oldest event of their copy.                             *)
LEMMA HeadTaken ==
    ASSUME NEW evs \in Seq(Event), evs # <<>>, InOrder(evs)
    PROVE  /\ 1 \in DOMAIN evs /\ Head(evs) = evs[1] /\ Head(evs) \in Event
           /\ Tail(evs) \in Seq(Event)
           /\ \A k \in DOMAIN Tail(evs) : /\ k + 1 \in DOMAIN evs
                                          /\ Tail(evs)[k] = evs[k + 1]
                                          /\ Head(evs).serial < evs[k + 1].serial
           /\ InOrder(Tail(evs))
<1> DEFINE rest == Tail(evs)
<1>1. Len(evs) \in Nat \ {0} /\ DOMAIN evs = 1..Len(evs)
  BY EmptySeq, LenProperties
<1>2. /\ Head(evs) = evs[1] /\ 1 \in DOMAIN evs /\ evs[1] \in Event
      /\ rest \in Seq(Event) /\ Len(rest) = Len(evs) - 1
      /\ \A i \in 1..Len(rest) : rest[i] = evs[i + 1]
  BY <1>1, HeadTailProperties, ElementOfSeq
<1>3. DOMAIN rest = 1..(Len(evs) - 1)
  BY <1>2, LenProperties
<1> HIDE DEF rest
<1>4. ASSUME NEW k \in DOMAIN rest
      PROVE  k + 1 \in DOMAIN evs /\ rest[k] = evs[k + 1] /\ 1 < k + 1
  BY <1>1, <1>2, <1>3
<1>5. \A k \in DOMAIN rest : evs[1].serial < evs[k + 1].serial
  BY <1>2, <1>4 DEF InOrder
<1>6. ASSUME NEW i \in DOMAIN rest, NEW j \in DOMAIN rest, i < j
      PROVE  rest[i].serial < rest[j].serial
  <2>1. i + 1 < j + 1
    BY <1>1, <1>3, <1>6
  <2> QED
    BY <1>4, <2>1 DEF InOrder
<1>7. InOrder(rest)
  BY <1>4, <1>6 DEF InOrder
<1> QED
  BY <1>2, <1>4, <1>5, <1>7 DEF rest

(* What one turn of the loop does to the copy of the log.                     *)
LEMMA TurnTakesHead ==
    ASSUME DeliveryTypes, gui.todo # <<>>, gui'.todo = Tail(gui.todo)
    PROVE  /\ 1 \in DOMAIN gui.todo /\ Head(gui.todo) = gui.todo[1] /\ Head(gui.todo) \in Event
           /\ gui'.todo \in Seq(Event)
           /\ \A k \in DOMAIN gui'.todo : /\ k \in Nat \ {0}
                                          /\ k + 1 \in DOMAIN gui.todo
                                          /\ gui'.todo[k] = gui.todo[k + 1]
           /\ \A k \in DOMAIN gui.todo : k = 1 \/ (k - 1 \in DOMAIN gui'.todo
                                                  /\ gui'.todo[k - 1] = gui.todo[k])
<1> DEFINE s == gui.todo
           t == Tail(s)
<1>1. s \in Seq(Event) /\ s # <<>>
  BY DEF DeliveryTypes
<1>2. Len(s) \in Nat \ {0} /\ DOMAIN s = 1..Len(s)
  BY <1>1, EmptySeq, LenProperties
<1>3. /\ Head(s) \in Event /\ t \in Seq(Event) /\ Len(t) = Len(s) - 1
      /\ \A i \in 1..Len(t) : t[i] = s[i + 1]
  BY <1>1, HeadTailProperties
<1>4. Head(s) = s[1]
  BY <1>1
<1> HIDE DEF s, t
<1>5. DOMAIN t = 1..(Len(s) - 1)
  BY <1>3, LenProperties
<1>6. \A k \in DOMAIN t : k \in Nat \ {0} /\ k + 1 \in DOMAIN s /\ t[k] = s[k + 1]
  BY <1>2, <1>3, <1>5
<1>7. ASSUME NEW k \in DOMAIN s, k # 1
      PROVE  k - 1 \in DOMAIN t /\ t[k - 1] = s[k]
  <2>1. k - 1 \in 1..(Len(s) - 1) /\ (k - 1) + 1 = k
    BY <1>2, <1>7
  <2> QED
    BY <1>3, <1>5, <2>1
<1> QED
  BY <1>2, <1>3, <1>4, <1>6, <1>7 DEF s, t

LEMMA SkipStep ==
    ASSUME IInv, NotifySkip
    PROVE  IInv'
<1>1. /\ UNCHANGED <<app, mode, worker, log, jobs, writer, store, made, handed, lost>>
      /\ gui' = [gui EXCEPT !.todo = Tail(gui.todo)]
      /\ gui.todo # <<>> /\ gui.at = "enqueue"
      /\ ~(Head(gui.todo).id > gui.persisted)
  BY DEF NotifySkip, Fresh, history
<1>2. /\ gui'.at = gui.at /\ gui'.todo = Tail(gui.todo)
      /\ gui'.persisted = gui.persisted /\ gui'.seen = gui.seen
  BY <1>1 DEF IInv, DeliveryTypes
<1>3. /\ 1 \in DOMAIN gui.todo /\ Head(gui.todo) = gui.todo[1]
      /\ gui'.todo \in Seq(Event)
      /\ \A k \in DOMAIN gui'.todo : /\ k \in Nat \ {0}
                                     /\ k + 1 \in DOMAIN gui.todo
                                     /\ gui'.todo[k] = gui.todo[k + 1]
      /\ \A k \in DOMAIN gui.todo : k = 1 \/ (k - 1 \in DOMAIN gui'.todo
                                             /\ gui'.todo[k - 1] = gui.todo[k])
  BY <1>1, <1>2, TurnTakesHead DEF IInv
<1>4. gui.todo[1].id <= gui.persisted
  BY <1>1, <1>3, EventsTyped DEF IInv, DeliveryTypes
<1>5. DeliveryTypes'
  BY <1>1, <1>2, <1>3 DEF IInv, DeliveryTypes
<1>6. AtRest'
  BY <1>1, <1>2 DEF IInv, AtRest
<1>7. LogFits'
  <2>1. InOrder(log)' /\ NoneBehind(log)'
    BY <1>1, <1>2 DEF IInv, LogFits, InOrder, NoneBehind
  <2>2. InOrder(gui.todo)' /\ NoneBehind(gui.todo)'
    <3>1. \A k \in DOMAIN gui'.todo : gui'.todo[k].serial \in 1..made /\ gui'.todo[k].id >= 1
      BY <1>3 DEF IInv, LogFits, InOrder
    <3>2. ASSUME NEW j \in DOMAIN gui'.todo, NEW k \in DOMAIN gui'.todo, j < k
          PROVE  gui'.todo[j].serial < gui'.todo[k].serial
      <4>1. j + 1 < k + 1 /\ gui'.todo[j] = gui.todo[j + 1] /\ gui'.todo[k] = gui.todo[k + 1]
        BY <1>3, <3>2
      <4> QED
        BY <1>3, <4>1 DEF IInv, LogFits, InOrder
    <3>3. InOrder(gui.todo)'
      BY <1>1, <3>1, <3>2 DEF InOrder
    <3>4. ASSUME NEW k \in DOMAIN gui'.todo, NEW s \in handed, gui'.todo[k].serial <= s
          PROVE  gui'.todo[k].id <= gui.persisted
      <4>1. k + 1 \in DOMAIN gui.todo /\ gui'.todo[k] = gui.todo[k + 1]
        BY <1>3
      <4> QED
        BY <3>4, <4>1 DEF IInv, LogFits, NoneBehind
    <3>5. NoneBehind(gui.todo)'
      BY <1>1, <1>2, <3>4 DEF NoneBehind
    <3> QED
      BY <3>3, <3>5
  <2>3. ASSUME NEW i \in DOMAIN log
        PROVE  \/ log[i].id <= gui.persisted
               \/ \E k \in DOMAIN gui'.todo : gui'.todo[k] = log[i]
               \/ \A k \in DOMAIN gui'.todo : gui'.todo[k].serial < log[i].serial
    <3>1. CASE \E k \in DOMAIN gui.todo : gui.todo[k] = log[i]
      BY <1>3, <1>4, <3>1
    <3>2. CASE \A k \in DOMAIN gui.todo : gui.todo[k].serial < log[i].serial
      BY <1>3, <3>2
    <3> QED
      BY <3>1, <3>2 DEF IInv, LogFits, LoopMeetsAll
  <2> QED
    BY <1>1, <1>2, <2>1, <2>2, <2>3 DEF LogFits, LoopMeetsAll
<1>8. SameMode'
  <2> SUFFICES ASSUME ~worker.switched PROVE SameMode'
    BY <1>1 DEF SameMode
  <2>1. SameMode /\ ~worker.switched
    BY DEF IInv
  <2>2. Numbered(log)' /\ AllHanded(log)' /\ Numbered(gui.todo)' /\ AllHanded(gui.todo)'
    <3>1. Numbered(log)' /\ AllHanded(log)'
      BY <1>1, <1>2, <2>1 DEF SameMode, Numbered, AllHanded
    <3>2. ASSUME NEW k \in DOMAIN gui'.todo
          PROVE  /\ gui'.todo[k].id < worker.nextId
                 /\ gui'.todo[k].id <= gui.persisted => gui'.todo[k].serial \in handed
      BY <1>3, <2>1 DEF SameMode, Numbered, AllHanded
    <3>3. ASSUME NEW j \in DOMAIN gui'.todo, NEW k \in DOMAIN gui'.todo, j < k
          PROVE  gui'.todo[j].id < gui'.todo[k].id
      <4>1. j + 1 < k + 1 /\ gui'.todo[j] = gui.todo[j + 1] /\ gui'.todo[k] = gui.todo[k + 1]
        BY <1>3, <3>3
      <4> QED
        BY <1>3, <2>1, <4>1 DEF SameMode, Numbered
    <3>4. Numbered(gui.todo)'
      BY <1>1, <1>2, <3>2, <3>3 DEF Numbered
    <3>5. AllHanded(gui.todo)'
      BY <1>1, <1>2, <3>2 DEF AllHanded
    <3> QED
      BY <3>1, <3>4, <3>5
  <2>3. ASSUME NEW i \in DOMAIN log, NEW k \in DOMAIN gui'.todo,
               gui'.todo[k].serial < log[i].serial
        PROVE  gui'.todo[k].id < log[i].id
    <3>1. k + 1 \in DOMAIN gui.todo /\ gui'.todo[k] = gui.todo[k + 1]
      BY <1>3
    <3> QED
      BY <2>1, <2>3, <3>1 DEF SameMode
  <2>4. gui.todo[1].serial \in handed
    BY <1>3, <1>4, <2>1 DEF SameMode, AllHanded
  <2>5. ASSUME NEW s \in gui.seen
        PROVE  s \in handed \/ \E k \in DOMAIN gui'.todo : gui'.todo[k].serial = s
    <3>1. CASE \E k \in DOMAIN gui.todo : gui.todo[k].serial = s
      BY <1>3, <2>4, <3>1
    <3> QED
      BY <2>1, <3>1 DEF SameMode
  <2> QED
    BY <1>1, <1>2, <2>1, <2>2, <2>3, <2>5 DEF SameMode
<1>9. StoreFits'
  BY <1>1, StoreKept DEF IInv
<1> QED
  BY <1>5, <1>6, <1>7, <1>8, <1>9 DEF IInv

(* An event that is newer than all handed over before joins the queue.        *)
LEMMA QueueGrows ==
    ASSUME DeliveryTypes, JobInOrder, JobsInOrder, StoreInOrder,
           UNCHANGED <<store, writer>>,
           NEW s \in Nat \ {0}, \A h \in handed : h < s,
           handed' = handed \cup {s},
           jobs' = Queued(jobs, s)
    PROVE  JobsInOrder'
<1>1. /\ DOMAIN jobs' = 1..(Len(jobs) + 1 - Over(jobs))
      /\ \A i \in DOMAIN jobs' :
            jobs'[i] = IF i + Over(jobs) = Len(jobs) + 1 THEN s ELSE jobs[i + Over(jobs)]
  BY QueuedKeeps DEF DeliveryTypes
<1>2. /\ Over(jobs) \in {0, 1} /\ Len(jobs) \in Nat /\ DOMAIN jobs = 1..Len(jobs)
      /\ handed \subseteq Nat /\ writer.job \in Nat
  BY LenProperties DEF Over, DeliveryTypes
<1>3. ASSUME NEW i \in DOMAIN jobs'
      PROVE  \/ i + Over(jobs) = Len(jobs) + 1 /\ jobs'[i] = s
             \/ i + Over(jobs) \in DOMAIN jobs /\ jobs'[i] = jobs[i + Over(jobs)]
  BY <1>1, <1>2
<1>4. writer.job < s /\ \A k \in DOMAIN store : store[k] < s
  <2>1. writer.job = 0 \/ writer.job \in handed
    BY DEF JobInOrder
  <2>2. \A k \in DOMAIN store : store[k] \in handed
    BY DEF StoreInOrder
  <2>3. 0 < s
    OBVIOUS
  <2> QED
    BY <2>1, <2>2, <2>3
<1>5. ASSUME NEW i \in DOMAIN jobs', jobs'[i] # Query
      PROVE  /\ jobs'[i] \in handed \cup {s}
             /\ writer.job < jobs'[i]
             /\ \A k \in DOMAIN store : store[k] < jobs'[i]
  <2>1. CASE jobs'[i] = s
    BY <1>4, <2>1
  <2>2. CASE i + Over(jobs) \in DOMAIN jobs /\ jobs'[i] = jobs[i + Over(jobs)]
    BY <1>5, <2>2 DEF JobsInOrder
  <2> QED
    BY <1>3, <2>1, <2>2
<1>6. ASSUME NEW i \in DOMAIN jobs', NEW j \in DOMAIN jobs', i < j, jobs'[i] # Query, jobs'[j] # Query
      PROVE  jobs'[i] < jobs'[j]
  <2> DEFINE a == i + Over(jobs)
             b == j + Over(jobs)
  <2>1. a < b /\ a \in DOMAIN jobs /\ jobs'[i] = jobs[a]
    BY <1>1, <1>2, <1>6
  <2>2. CASE b = Len(jobs) + 1 /\ jobs'[j] = s
    BY <1>6, <2>1, <2>2 DEF JobsInOrder
  <2>3. CASE b \in DOMAIN jobs /\ jobs'[j] = jobs[b]
    BY <1>6, <2>1, <2>3 DEF JobsInOrder
  <2> QED
    BY <1>3, <2>2, <2>3
<1> QED
  BY <1>5, <1>6 DEF JobsInOrder

LEMMA QueueLosesHead ==
    ASSUME DeliveryTypes, NEW s \in Nat \ {0}, jobs' = Queued(jobs, s), NEW i \in DOMAIN jobs
    PROVE  \/ jobs[i] \in Overflowed(jobs) \cup {Query}
           \/ \E k \in DOMAIN jobs' : jobs'[k] = jobs[i]
<1>1. /\ DOMAIN jobs' = 1..(Len(jobs) + 1 - Over(jobs))
      /\ \A k \in DOMAIN jobs' :
            jobs'[k] = IF k + Over(jobs) = Len(jobs) + 1 THEN s ELSE jobs[k + Over(jobs)]
  <2>1. jobs \in Seq(Nat) /\ Len(jobs) <= WriterCapacity /\ s \in Nat
    BY DEF DeliveryTypes
  <2> QED
    BY <2>1, QueuedKeeps
<1>2. /\ Over(jobs) \in {0, 1} /\ Len(jobs) \in Nat /\ DOMAIN jobs = 1..Len(jobs)
  BY LenProperties DEF Over, DeliveryTypes
<1>3. CASE i > Over(jobs)
  <2>1. i - Over(jobs) \in DOMAIN jobs' /\ (i - Over(jobs)) + Over(jobs) = i /\ i # Len(jobs) + 1
    BY <1>1, <1>2, <1>3
  <2> QED
    BY <1>1, <2>1
<1>4. CASE ~(i > Over(jobs))
  <2>1. i = 1 /\ Over(jobs) = 1
    BY <1>2, <1>4
  <2>2. Len(jobs) >= WriterCapacity /\ Head(jobs) = jobs[1]
    BY <2>1 DEF Over, DeliveryTypes
  <2>3. Overflowed(jobs) = {jobs[1]} \ {Query}
    BY <2>2 DEF Overflowed, Events, ToSet
  <2> QED
    BY <2>1, <2>3
<1> QED
  BY <1>3, <1>4

LEMMA QueueTakes ==
    ASSUME DeliveryTypes, NEW s \in Nat, jobs' = Queued(jobs, s)
    PROVE  \E k \in DOMAIN jobs' : jobs'[k] = s
<1>1. /\ DOMAIN jobs' = 1..(Len(jobs) + 1 - Over(jobs))
      /\ \A k \in DOMAIN jobs' :
            jobs'[k] = IF k + Over(jobs) = Len(jobs) + 1 THEN s ELSE jobs[k + Over(jobs)]
  BY QueuedKeeps DEF DeliveryTypes
<1>2. /\ Over(jobs) \in {0, 1} /\ Len(jobs) \in Nat /\ (Over(jobs) = 1 => Len(jobs) > 0)
  BY LenProperties, CapacitiesAssumption DEF Over, DeliveryTypes
<1>3. Len(jobs) + 1 - Over(jobs) \in DOMAIN jobs' /\ (Len(jobs) + 1 - Over(jobs)) + Over(jobs) = Len(jobs) + 1
  BY <1>1, <1>2
<1> QED
  BY <1>1, <1>3

LEMMA EnqueueStep ==
    ASSUME IInv, NotifyEnqueue
    PROVE  IInv'
<1> DEFINE e == gui.todo[1]
           keeps == UNCHANGED jobs /\ lost' = lost \cup {e.serial}
           takes == jobs' = Queued(jobs, e.serial) /\ lost' = lost \cup Overflowed(jobs)
<1>1. /\ gui.todo # <<>> /\ gui.at = "enqueue"
      /\ Head(gui.todo).id > gui.persisted
      /\ gui' = [gui EXCEPT !.todo = Tail(gui.todo), !.persisted = Head(gui.todo).id]
      /\ handed' = handed \cup {Head(gui.todo).serial}
      /\ UNCHANGED <<app, mode, worker, log, writer, store, made>>
      /\ \/ UNCHANGED jobs /\ lost' = lost \cup {Head(gui.todo).serial}
         \/ writer.at # "off" /\ jobs' = Queued(jobs, Head(gui.todo).serial) /\ lost' = lost \cup Overflowed(jobs)
  BY DEF NotifyEnqueue, Fresh
<1>2. /\ 1 \in DOMAIN gui.todo /\ Head(gui.todo) = e /\ e \in Event
      /\ Tail(gui.todo) \in Seq(Event)
      /\ \A k \in DOMAIN gui'.todo : /\ k \in Nat \ {0}
                                     /\ k + 1 \in DOMAIN gui.todo
                                     /\ gui'.todo[k] = gui.todo[k + 1]
      /\ \A k \in DOMAIN gui.todo : k = 1 \/ (k - 1 \in DOMAIN gui'.todo
                                             /\ gui'.todo[k - 1] = gui.todo[k])
  <2>1. gui'.todo = Tail(gui.todo)
    BY <1>1 DEF IInv, DeliveryTypes
  <2> QED
    BY <1>1, <2>1, TurnTakesHead DEF IInv
<1>3. /\ e.serial \in 1..made /\ e.serial \in Nat \ {0} /\ e.id \in Nat
      /\ gui.persisted \in Nat /\ made \in Nat /\ handed \subseteq Nat
  <2>1. gui.persisted \in Nat /\ made \in Nat /\ handed \subseteq Nat
    BY DEF IInv, DeliveryTypes
  <2>2. e.serial \in 1..made
    BY <1>2 DEF IInv, LogFits, InOrder
  <2>3. e.id \in Nat
    BY <1>2, EventsTyped DEF IInv
  <2> HIDE DEF e
  <2> QED
    BY <2>1, <2>2, <2>3
<1> HIDE DEF e
<1>4. /\ gui'.at = gui.at /\ gui'.todo = Tail(gui.todo) /\ gui'.seen = gui.seen
      /\ gui'.persisted = e.id /\ gui.persisted < e.id
      /\ handed' = handed \cup {e.serial}
  BY <1>1, <1>2, <1>3 DEF IInv, DeliveryTypes
<1>5. \A h \in handed : h < e.serial
  BY <1>2, <1>3, <1>4 DEF IInv, LogFits, NoneBehind, e
<1>6. ASSUME NEW k \in DOMAIN gui'.todo
      PROVE  e.serial < gui'.todo[k].serial
  <2>1. k + 1 \in DOMAIN gui.todo /\ 1 < k + 1 /\ gui'.todo[k] = gui.todo[k + 1]
    BY <1>2
  <2> QED
    BY <1>2, <2>1 DEF IInv, LogFits, InOrder, e
<1>7. DeliveryTypes'
  <2>1. gui' \in GuiStates
    BY <1>1, <1>2, <1>3 DEF IInv, DeliveryTypes
  <2>2. jobs' \in Seq(Nat) /\ Len(jobs') <= WriterCapacity
    <3>1. jobs \in Seq(Nat) /\ Len(jobs) <= WriterCapacity
      BY DEF IInv, DeliveryTypes
    <3>2. Queued(jobs, e.serial) \in Seq(Nat) /\ Len(Queued(jobs, e.serial)) <= WriterCapacity
      BY <1>3, <3>1, QueuedKeeps
    <3> QED
      BY <1>1, <1>2, <3>1, <3>2
  <2>3. handed' \in SUBSET (1..made)
    BY <1>3, <1>4 DEF IInv, DeliveryTypes
  <2> QED
    BY <1>1, <2>1, <2>2, <2>3 DEF IInv, DeliveryTypes
<1>8. AtRest'
  BY <1>1, <1>4 DEF IInv, AtRest
<1>9. \A i \in DOMAIN log : log[i].serial \in Nat /\ log[i].id \in Nat
  BY EventsTyped DEF IInv
<1>10. \A k \in DOMAIN gui'.todo : gui'.todo[k].serial \in Nat /\ gui'.todo[k].id \in Nat
  BY <1>2, EventsTyped DEF IInv
<1>11. ASSUME NEW i \in DOMAIN log
       PROVE  \/ log[i].id <= gui.persisted
              \/ log[i] = e
              \/ \E k \in DOMAIN gui'.todo : gui'.todo[k] = log[i]
              \/ e.serial < log[i].serial /\ \A k \in DOMAIN gui'.todo : gui'.todo[k].serial < log[i].serial
  <2>1. CASE \E k \in DOMAIN gui.todo : gui.todo[k] = log[i]
    BY <1>2, <2>1 DEF e
  <2>2. CASE \A k \in DOMAIN gui.todo : gui.todo[k].serial < log[i].serial
    BY <1>2, <2>2 DEF e
  <2> QED
    BY <2>1, <2>2 DEF IInv, LogFits, LoopMeetsAll
<1>12. LogFits'
  <2>1. InOrder(log)'
    BY <1>1 DEF IInv, LogFits, InOrder
  <2>2. InOrder(gui.todo)'
    <3>1. gui.todo \in Seq(Event) /\ gui.todo # <<>> /\ InOrder(gui.todo)
      BY <1>1 DEF IInv, DeliveryTypes, LogFits
    <3>2. InOrder(gui'.todo)
      BY <1>4, <3>1, HeadTaken
    <3> QED
      BY <1>1, <3>2 DEF InOrder
  <2>3. ASSUME NEW i \in DOMAIN log, NEW s \in handed \cup {e.serial}, log[i].serial <= s
        PROVE  log[i].id <= e.id
    <3>1. CASE s \in handed
      <4>1. log[i].id <= gui.persisted
        BY <2>3, <3>1 DEF IInv, LogFits, NoneBehind
      <4> QED
        BY <1>3, <1>4, <1>9, <4>1
    <3>2. CASE s = e.serial
      <4>1. ~(e.serial < log[i].serial) /\ ~(\E k \in DOMAIN gui'.todo : gui'.todo[k] = log[i])
        BY <1>3, <1>6, <1>9, <2>3, <3>2
      <4>2. log[i].id <= gui.persisted \/ log[i] = e
        BY <1>11, <4>1
      <4> QED
        BY <1>3, <1>4, <1>9, <4>2
    <3> QED
      BY <3>1, <3>2
  <2>4. ASSUME NEW k \in DOMAIN gui'.todo, NEW s \in handed \cup {e.serial}
        PROVE  ~(gui'.todo[k].serial <= s)
    BY <1>3, <1>5, <1>6, <1>10
  <2>5. NoneBehind(log)' /\ NoneBehind(gui.todo)'
    <3>1. NoneBehind(log)'
      BY <1>1, <1>4, <2>3 DEF NoneBehind
    <3>2. NoneBehind(gui.todo)'
      BY <1>4, <2>4 DEF NoneBehind
    <3> QED
      BY <3>1, <3>2
  <2>6. LoopMeetsAll'
    <3>1. ASSUME NEW i \in DOMAIN log
          PROVE  \/ log[i].id <= e.id
                 \/ \E k \in DOMAIN gui'.todo : gui'.todo[k] = log[i]
                 \/ \A k \in DOMAIN gui'.todo : gui'.todo[k].serial < log[i].serial
      BY <1>3, <1>4, <1>9, <1>11
    <3> QED
      BY <1>1, <1>4, <3>1 DEF LoopMeetsAll
  <2> QED
    BY <2>1, <2>2, <2>5, <2>6 DEF LogFits
<1>13. SameMode'
  <2> SUFFICES ASSUME ~worker.switched PROVE SameMode'
    BY <1>1 DEF SameMode
  <2>1. /\ Numbered(log) /\ AllHanded(log) /\ Numbered(gui.todo) /\ AllHanded(gui.todo)
        /\ \A i \in DOMAIN log, k \in DOMAIN gui.todo :
              gui.todo[k].serial < log[i].serial => gui.todo[k].id < log[i].id
        /\ \A s \in gui.seen : s \in handed \/ \E k \in DOMAIN gui.todo : gui.todo[k].serial = s
    BY DEF IInv, SameMode
  <2>2. e.id < worker.nextId
    BY <1>2, <2>1 DEF Numbered, e
  <2>3. Numbered(log)' /\ Numbered(gui.todo)'
    BY <1>1, <1>2, <2>1 DEF Numbered
  <2>4. ASSUME NEW k \in DOMAIN gui'.todo
        PROVE  ~(gui'.todo[k].id <= e.id)
    <3>1. k + 1 \in DOMAIN gui.todo /\ 1 < k + 1 /\ gui'.todo[k] = gui.todo[k + 1]
      BY <1>2
    <3>2. e.id < gui'.todo[k].id
      BY <1>2, <2>1, <3>1 DEF Numbered, e
    <3> QED
      BY <1>3, <1>10, <3>2
  <2>5. ASSUME NEW i \in DOMAIN log, log[i].id <= e.id
        PROVE  log[i].serial \in handed \cup {e.serial}
    <3>1. ~(e.serial < log[i].serial)
      <4>1. e.serial < log[i].serial => e.id < log[i].id
        BY <1>2, <2>1 DEF e
      <4> QED
        BY <1>3, <1>9, <2>5, <4>1
    <3>2. ~(\E k \in DOMAIN gui'.todo : gui'.todo[k] = log[i])
      BY <2>4, <2>5
    <3>3. log[i].id <= gui.persisted \/ log[i] = e
      BY <1>11, <3>1, <3>2
    <3> QED
      BY <2>1, <3>3 DEF AllHanded
  <2>6. AllHanded(log)' /\ AllHanded(gui.todo)'
    BY <1>1, <1>4, <2>4, <2>5 DEF AllHanded
  <2>7. ASSUME NEW i \in DOMAIN log, NEW k \in DOMAIN gui'.todo
        PROVE  gui'.todo[k].serial < log[i].serial => gui'.todo[k].id < log[i].id
    <3>1. k + 1 \in DOMAIN gui.todo /\ gui'.todo[k] = gui.todo[k + 1]
      BY <1>2
    <3> QED
      BY <2>1, <3>1
  <2>8. ASSUME NEW s \in gui.seen
        PROVE  s \in handed \cup {e.serial} \/ \E k \in DOMAIN gui'.todo : gui'.todo[k].serial = s
    <3>1. CASE \E k \in DOMAIN gui.todo : gui.todo[k].serial = s
      BY <1>2, <3>1 DEF e
    <3> QED
      BY <2>1, <3>1
  <2> QED
    BY <1>1, <1>4, <2>2, <2>3, <2>6, <2>7, <2>8 DEF SameMode
<1>14. StoreFits'
  <2>1. StoreInOrder' /\ JobInOrder'
    BY <1>1, <1>4 DEF IInv, StoreFits, StoreInOrder, JobInOrder
  <2>2. CASE keeps
    <3>1. JobsInOrder'
      BY <1>1, <1>4, <2>2 DEF IInv, StoreFits, JobsInOrder
    <3>2. Settled'
      BY <1>1, <1>4, <2>2 DEF IInv, StoreFits, Settled
    <3> QED
      BY <2>1, <3>1, <3>2 DEF StoreFits
  <2>3. CASE takes
    <3>1. JobsInOrder'
      BY <1>1, <1>3, <1>4, <1>5, <2>3, QueueGrows DEF IInv, StoreFits
    <3>2. Settled'
      <4> SUFFICES ASSUME NEW s \in handed', s \notin lost'
                   PROVE  \/ s = writer.job
                          \/ \E i \in DOMAIN jobs' : jobs'[i] = s
                          \/ \E i \in DOMAIN store : store[i] = s
        BY <1>1 DEF Settled
      <4>1. CASE s = e.serial
        BY <1>3, <2>3, <4>1, QueueTakes DEF IInv
      <4>2. CASE s \in handed
        <5>1. CASE \E i \in DOMAIN jobs : jobs[i] = s
          <6>1. PICK i \in DOMAIN jobs : jobs[i] = s
            BY <5>1
          <6>2. s # Query /\ s \notin Overflowed(jobs)
            BY <2>3, <4>2 DEF IInv, DeliveryTypes
          <6>3. \/ jobs[i] \in Overflowed(jobs) \cup {Query}
                \/ \E k \in DOMAIN jobs' : jobs'[k] = jobs[i]
            BY <1>3, <2>3, QueueLosesHead DEF IInv
          <6> QED
            BY <6>1, <6>2, <6>3
        <5> QED
          BY <2>3, <4>2, <5>1 DEF IInv, StoreFits, Settled
      <4> QED
        BY <1>4, <4>1, <4>2
    <3> QED
      BY <2>1, <3>1, <3>2 DEF StoreFits
  <2> QED
    BY <1>1, <1>2, <2>2, <2>3
<1> QED
  BY <1>7, <1>8, <1>12, <1>13, <1>14 DEF IInv

(* What the writer thread leaves alone.                                       *)
LEMMA WriterKeepsLog ==
    ASSUME IInv, UNCHANGED <<app, mode, worker, log, gui, made, handed>>,
           jobs' \in Seq(Nat), Len(jobs') <= WriterCapacity, store' \in Seq(Nat),
           writer' \in [at : WriterPlaces, job : Nat, rows : Seq(Nat)],
           writer'.at # "busy" => writer'.job = NoJob,
           app # "down", StoreFits'
    PROVE  IInv'
<1>1. DeliveryTypes'
  BY DEF IInv, DeliveryTypes
<1>2. AtRest'
  BY DEF IInv, AtRest
<1>3. LogFits' /\ SameMode'
  BY LogKept DEF IInv
<1> QED
  BY <1>1, <1>2, <1>3 DEF IInv

LEMMA IdleWriterIs == IdleWriter = [at |-> "idle", job |-> 0, rows |-> <<>>]
BY DEF IdleWriter, NoWriter

LEMMA NewWriterIsTyped ==
    ASSUME NEW at \in WriterPlaces, NEW job \in Nat
    PROVE  [at |-> at, job |-> job, rows |-> <<>>]
              \in [at : WriterPlaces, job : Nat, rows : Seq(Nat)]
<1>1. <<>> \in Seq(Nat)
  BY EmptySeq
<1> QED
  BY <1>1

LEMMA TakeStep ==
    ASSUME IInv, WriterTake
    PROVE  IInv'
<1>1. /\ UNCHANGED <<app, mode, worker, log, gui, store, made, handed, lost>>
      /\ app # "down" /\ writer.at = "idle" /\ jobs # <<>>
      /\ writer' = [IdleWriter EXCEPT !.at = "busy", !.job = Head(jobs)]
      /\ jobs' = Tail(jobs)
  BY DEF WriterTake, history
<1>2. jobs \in Seq(Nat) /\ Len(jobs) \in Nat \ {0} /\ DOMAIN jobs = 1..Len(jobs) /\ Len(jobs) <= WriterCapacity
  BY <1>1, EmptySeq, LenProperties DEF IInv, DeliveryTypes
<1>3. /\ Head(jobs) = jobs[1] /\ Head(jobs) \in Nat
      /\ jobs' \in Seq(Nat) /\ Len(jobs') = Len(jobs) - 1
      /\ \A i \in 1..Len(jobs') : jobs'[i] = jobs[i + 1]
  <2>1. jobs \in Seq(Nat) /\ jobs # <<>> /\ Head(jobs) = jobs[1] /\ jobs[1] \in Nat
    BY <1>1, <1>2, ElementOfSeq
  <2>2. /\ Tail(jobs) \in Seq(Nat) /\ Len(Tail(jobs)) = Len(jobs) - 1
        /\ \A i \in 1..Len(Tail(jobs)) : Tail(jobs)[i] = jobs[i + 1]
    BY <2>1, HeadTailProperties
  <2> QED
    BY <1>1, <2>1, <2>2
<1>4. DOMAIN jobs' = 1..(Len(jobs) - 1)
  BY <1>3, LenProperties
<1>5. \A i \in DOMAIN jobs' : i + 1 \in DOMAIN jobs /\ jobs'[i] = jobs[i + 1]
  <2> SUFFICES ASSUME NEW i \in DOMAIN jobs'
               PROVE  i + 1 \in DOMAIN jobs /\ jobs'[i] = jobs[i + 1]
    OBVIOUS
  <2>1. i \in 1..(Len(jobs) - 1) /\ Len(jobs) \in Nat
    BY <1>2, <1>4
  <2>2. i + 1 \in 1..Len(jobs) /\ i \in 1..Len(jobs')
    BY <1>3, <2>1
  <2> QED
    BY <1>2, <1>3, <2>2
<1>6. 1 \in DOMAIN jobs
  BY <1>2
<1>7. writer' = [at |-> "busy", job |-> jobs[1], rows |-> <<>>]
  BY <1>1, <1>3, IdleWriterIs
<1>8. writer.job = 0 /\ writer'.job = jobs[1] /\ writer'.at = "busy"
  BY <1>1, <1>7 DEF IInv, AtRest
<1>9. StoreFits'
  <2>1. StoreInOrder /\ JobsInOrder /\ Settled
    BY DEF IInv, StoreFits
  <2>2. StoreInOrder'
    BY <1>1, <2>1 DEF StoreInOrder
  <2>3. JobInOrder'
    BY <1>1, <1>6, <1>8, <2>1 DEF JobInOrder, JobsInOrder
  <2>4. ASSUME NEW i \in DOMAIN jobs', jobs'[i] # Query
        PROVE  /\ jobs'[i] \in handed /\ jobs[1] < jobs'[i]
               /\ \A k \in DOMAIN store : store[k] < jobs'[i]
    <3>1. i + 1 \in DOMAIN jobs /\ jobs'[i] = jobs[i + 1] /\ 1 < i + 1
      BY <1>4, <1>5
    <3>2. jobs[1] = Query => jobs[1] < jobs'[i]
      BY <1>8, <2>1, <2>4, <3>1 DEF JobsInOrder
    <3> QED
      BY <1>6, <2>1, <2>4, <3>1, <3>2 DEF JobsInOrder
  <2>5. ASSUME NEW i \in DOMAIN jobs', NEW j \in DOMAIN jobs', i < j, jobs'[i] # Query, jobs'[j] # Query
        PROVE  jobs'[i] < jobs'[j]
    <3>1. i + 1 < j + 1
      BY <1>4, <2>5
    <3> QED
      BY <1>5, <2>1, <2>5, <3>1 DEF JobsInOrder
  <2>6. JobsInOrder'
    BY <1>1, <1>8, <2>4, <2>5 DEF JobsInOrder
  <2>7. ASSUME NEW s \in handed \ lost
        PROVE  \/ s = jobs[1]
               \/ \E i \in DOMAIN jobs' : jobs'[i] = s
               \/ \E i \in DOMAIN store : store[i] = s
    <3>1. CASE \E i \in DOMAIN jobs : jobs[i] = s
      <4>1. PICK i \in DOMAIN jobs : jobs[i] = s
        BY <3>1
      <4>2. CASE i # 1
        <5>1. i - 1 \in DOMAIN jobs' /\ (i - 1) + 1 = i
          BY <1>2, <1>4, <4>2
        <5> QED
          BY <1>5, <4>1, <5>1
      <4> QED
        BY <4>1, <4>2
    <3>2. s # 0
      BY DEF IInv, DeliveryTypes
    <3> QED
      BY <1>8, <2>1, <3>1, <3>2 DEF Settled
  <2>8. Settled'
    BY <1>1, <1>8, <2>7 DEF Settled
  <2> QED
    BY <2>2, <2>3, <2>6, <2>8 DEF StoreFits
<1>10. writer' \in [at : WriterPlaces, job : Nat, rows : Seq(Nat)]
  BY <1>3, <1>7, NewWriterIsTyped
<1>11. Len(jobs') <= WriterCapacity /\ store' \in Seq(Nat)
  BY <1>1, <1>2, <1>3, CapacitiesAssumption DEF IInv, DeliveryTypes
<1> QED
  BY <1>1, <1>3, <1>8, <1>9, <1>10, <1>11, WriterKeepsLog

LEMMA PruningWriterIs ==
    [IdleWriter EXCEPT !.at = "pruning"] = [at |-> "pruning", job |-> 0, rows |-> <<>>]
BY IdleWriterIs

LEMMA InsertStep ==
    ASSUME IInv, WriterInsert
    PROVE  IInv'
<1>1. /\ UNCHANGED <<app, mode, worker, log, gui, jobs, made, handed, lost>>
      /\ writer.at = "busy" /\ writer.job # Query
      /\ writer' = [at |-> "pruning", job |-> 0, rows |-> <<>>]
      /\ store' = Append(store, writer.job)
  BY PruningWriterIs DEF WriterInsert
<1>2. /\ store \in Seq(Nat) /\ writer.job \in Nat
      /\ Len(store) \in Nat /\ DOMAIN store = 1..Len(store)
  BY LenProperties DEF IInv, DeliveryTypes
<1>3. /\ store' \in Seq(Nat) /\ Len(store') = Len(store) + 1
      /\ \A i \in 1..Len(store) : store'[i] = store[i]
      /\ store'[Len(store) + 1] = writer.job
  BY <1>1, <1>2, AppendProperties
<1>4. DOMAIN store' = 1..(Len(store) + 1)
  BY <1>3, LenProperties
<1>5. ASSUME NEW i \in DOMAIN store'
      PROVE  \/ i = Len(store) + 1 /\ store'[i] = writer.job
             \/ i \in DOMAIN store /\ store'[i] = store[i]
  BY <1>2, <1>3, <1>4
<1>6. /\ StoreInOrder /\ JobsInOrder /\ Settled
      /\ writer.job \in handed /\ \A i \in DOMAIN store : store[i] < writer.job
  BY <1>1 DEF IInv, StoreFits, JobInOrder
<1>7. StoreInOrder'
  <2>1. \A i \in DOMAIN store' : store'[i] \in handed
    BY <1>5, <1>6 DEF StoreInOrder
  <2>2. ASSUME NEW i \in DOMAIN store', NEW j \in DOMAIN store', i < j
        PROVE  store'[i] < store'[j]
    <3>1. i \in DOMAIN store /\ store'[i] = store[i]
      BY <1>2, <1>3, <1>4, <2>2
    <3> QED
      BY <1>5, <1>6, <2>2, <3>1 DEF StoreInOrder
  <2> QED
    BY <1>1, <2>1, <2>2 DEF StoreInOrder
<1>8. JobInOrder'
  BY <1>1 DEF JobInOrder
<1>9. JobsInOrder'
  <2>1. ASSUME NEW i \in DOMAIN jobs, jobs[i] # Query
        PROVE  /\ jobs[i] \in handed /\ 0 < jobs[i]
               /\ \A k \in DOMAIN store' : store'[k] < jobs[i]
    <3>1. jobs[i] \in handed /\ writer.job < jobs[i] /\ \A k \in DOMAIN store : store[k] < jobs[i]
      BY <1>6, <2>1 DEF JobsInOrder
    <3>2. 0 < jobs[i]
      BY <3>1 DEF IInv, DeliveryTypes
    <3>3. \A k \in DOMAIN store' : store'[k] < jobs[i]
      BY <1>5, <3>1
    <3> QED
      BY <3>1, <3>2, <3>3
  <2>2. \A i, j \in DOMAIN jobs : i < j /\ jobs[i] # Query /\ jobs[j] # Query => jobs[i] < jobs[j]
    BY <1>6 DEF JobsInOrder
  <2> QED
    BY <1>1, <2>1, <2>2 DEF JobsInOrder
<1>10. Settled'
  <2> SUFFICES ASSUME NEW s \in handed, s \notin lost
               PROVE  \/ \E i \in DOMAIN jobs : jobs[i] = s
                      \/ \E i \in DOMAIN store' : store'[i] = s
    BY <1>1 DEF Settled
  <2>1. CASE s = writer.job
    BY <1>2, <1>3, <1>4, <2>1
  <2>2. CASE \E i \in DOMAIN store : store[i] = s
    BY <1>2, <1>3, <1>4, <2>2
  <2> QED
    BY <1>6, <2>1, <2>2 DEF Settled
<1>11. writer' \in [at : WriterPlaces, job : Nat, rows : Seq(Nat)] /\ writer'.job = 0
  BY <1>1, NewWriterIsTyped
<1>12. jobs' \in Seq(Nat) /\ Len(jobs') <= WriterCapacity /\ app # "down"
  BY <1>1 DEF IInv, DeliveryTypes, AtRest
<1>13. StoreFits'
  BY <1>7, <1>8, <1>9, <1>10 DEF StoreFits
<1> QED
  BY <1>1, <1>3, <1>11, <1>12, <1>13, WriterKeepsLog

(* What prune leaves is in the order it was in.                               *)
LEMMA PruneStep ==
    ASSUME IInv, WriterPrune
    PROVE  IInv'
<1> DEFINE cut == Cut(store, StoreRows)
<1>1. /\ UNCHANGED <<app, mode, worker, log, gui, jobs, made, handed>>
      /\ writer.at = "pruning" /\ writer' = [at |-> "idle", job |-> 0, rows |-> <<>>]
      /\ store' = Newest(store, StoreRows)
      /\ lost' = lost \cup (ToSet(store) \ ToSet(store'))
  BY IdleWriterIs DEF WriterPrune
<1>2. /\ store \in Seq(Nat) /\ StoreRows \in Nat
      /\ Len(store) \in Nat /\ DOMAIN store = 1..Len(store)
  BY LenProperties, CapacitiesAssumption DEF IInv, DeliveryTypes
<1>3. /\ store' \in Seq(Nat) /\ cut \in 0..Len(store)
      /\ Len(store') = Len(store) - cut
      /\ \A i \in 1..(Len(store) - cut) : store'[i] = store[i + cut]
  BY <1>1, <1>2, NewestCuts
<1> HIDE DEF cut
<1>4. DOMAIN store' = 1..(Len(store) - cut)
  BY <1>2, <1>3, LenProperties
<1>5. ASSUME NEW i \in DOMAIN store'
      PROVE  i + cut \in DOMAIN store /\ store'[i] = store[i + cut]
  <2>1. i \in 1..(Len(store) - cut) /\ cut \in Int /\ cut >= 0 /\ Len(store) \in Int
    BY <1>2, <1>3, <1>4
  <2>2. i + cut \in 1..Len(store)
    BY <2>1
  <2>3. store'[i] = store[i + cut]
    BY <1>3, <2>1
  <2> QED
    BY <1>2, <2>2, <2>3
<1>6. StoreInOrder /\ JobsInOrder /\ Settled /\ writer.job = NoJob
  BY <1>1 DEF IInv, StoreFits, AtRest
<1>7. StoreInOrder'
  <2>1. \A i \in DOMAIN store' : store'[i] \in handed
    BY <1>5, <1>6 DEF StoreInOrder
  <2>2. ASSUME NEW i \in DOMAIN store', NEW j \in DOMAIN store', i < j
        PROVE  store'[i] < store'[j]
    <3>1. i + cut < j + cut
      BY <1>2, <1>3, <1>4, <2>2
    <3> QED
      BY <1>5, <1>6, <3>1 DEF StoreInOrder
  <2> QED
    BY <1>1, <2>1, <2>2 DEF StoreInOrder
<1>8. JobInOrder'
  BY <1>1 DEF JobInOrder
<1>9. JobsInOrder'
  <2>1. \A i \in DOMAIN jobs : jobs[i] # Query => \A k \in DOMAIN store' : store'[k] < jobs[i]
    BY <1>5, <1>6 DEF JobsInOrder
  <2> QED
    BY <1>1, <1>6, <2>1 DEF JobsInOrder
<1>10. Settled'
  <2> SUFFICES ASSUME NEW s \in handed, s \notin lost'
               PROVE  \/ \E i \in DOMAIN jobs : jobs[i] = s
                      \/ \E i \in DOMAIN store' : store'[i] = s
    BY <1>1 DEF Settled
  <2>1. s \notin lost /\ (s \in ToSet(store) => s \in ToSet(store')) /\ s # NoJob
    BY <1>1 DEF IInv, DeliveryTypes
  <2>2. (\E i \in DOMAIN store : store[i] = s) => s \in ToSet(store)
    BY DEF ToSet
  <2>3. s \in ToSet(store') => \E i \in DOMAIN store' : store'[i] = s
    BY DEF ToSet
  <2> QED
    BY <1>6, <2>1, <2>2, <2>3 DEF Settled
<1>11. writer' \in [at : WriterPlaces, job : Nat, rows : Seq(Nat)] /\ writer'.job = 0
  BY <1>1, NewWriterIsTyped
<1>12. jobs' \in Seq(Nat) /\ Len(jobs') <= WriterCapacity /\ app # "down"
  BY <1>1 DEF IInv, DeliveryTypes, AtRest
<1>13. StoreFits'
  BY <1>7, <1>8, <1>9, <1>10 DEF StoreFits
<1> QED
  BY <1>1, <1>3, <1>11, <1>12, <1>13, WriterKeepsLog

(* The writer is done with a job that is in nobody's hands any more.          *)
LEMMA JobDone ==
    ASSUME IInv, UNCHANGED <<jobs, store, handed>>, lost \subseteq lost',
           writer'.job = NoJob, writer.job \in lost' \cup {NoJob}
    PROVE  StoreFits'
<1>1. StoreInOrder' /\ JobInOrder'
  BY DEF IInv, StoreFits, StoreInOrder, JobInOrder
<1>2. \A i \in DOMAIN jobs : jobs[i] # Query => 0 < jobs[i]
  BY DEF IInv, StoreFits, JobsInOrder, DeliveryTypes
<1>3. JobsInOrder'
  BY <1>2 DEF IInv, StoreFits, JobsInOrder
<1>4. Settled'
  <2>1. 0 \notin handed
    BY DEF IInv, DeliveryTypes
  <2> QED
    BY <2>1 DEF IInv, StoreFits, Settled
<1> QED
  BY <1>1, <1>3, <1>4 DEF StoreFits

LEMMA NewestKeepsType ==
    ASSUME IInv
    PROVE  Oldest(store, HistoryLimit) \in Seq(Nat) /\ <<>> \in Seq(Nat)
<1>1. store \in Seq(Nat) /\ Len(store) \in Nat /\ HistoryLimit \in Nat
  BY LenProperties, CapacitiesAssumption DEF IInv, DeliveryTypes
<1>2. CASE Len(store) <= HistoryLimit
  BY <1>1, <1>2, EmptySeq DEF Oldest
<1>3. CASE ~(Len(store) <= HistoryLimit)
  <2>1. \A i \in 1..HistoryLimit : store[i] \in Nat
    BY <1>1, <1>3, ElementOfSeq
  <2>2. SubSeq(store, 1, HistoryLimit) \in Seq(Nat)
    BY <1>1, <2>1, SubSeqProperties
  <2> QED
    BY <1>3, <2>2, EmptySeq DEF Oldest
<1> QED
  BY <1>2, <1>3

(* The other steps of the writer: an insert or a prune that fails, a query,   *)
(* its answer.                                                                *)
LEMMA OtherWriterSteps ==
    ASSUME IInv, WriterInsertFails \/ WriterPruneFails \/ WriterQuery \/ WriterPost
    PROVE  IInv'
<1> DEFINE Writings == [at : WriterPlaces, job : Nat, rows : Seq(Nat)]
<1>1. CASE WriterInsertFails
  <2>1. /\ UNCHANGED <<app, mode, worker, log, gui, jobs, store, made, handed>>
        /\ lost' = lost \cup {writer.job} /\ writer.at = "busy"
        /\ writer' = [at |-> "pruning", job |-> 0, rows |-> <<>>]
    BY <1>1, PruningWriterIs DEF WriterInsertFails
  <2>2. writer' \in Writings /\ writer'.job = 0
    BY <2>1, NewWriterIsTyped
  <2>3. StoreFits'
    BY <2>1, <2>2, JobDone
  <2>4. /\ jobs' \in Seq(Nat) /\ Len(jobs') <= WriterCapacity
        /\ store' \in Seq(Nat) /\ app # "down"
    BY <2>1 DEF IInv, DeliveryTypes, AtRest
  <2> QED
    BY <2>1, <2>2, <2>3, <2>4, WriterKeepsLog
<1>2. CASE WriterPruneFails \/ WriterQuery \/ WriterPost
  <2>1. /\ UNCHANGED <<app, mode, worker, log, gui, jobs, store, made, handed, lost>>
        /\ writer.at \in {"busy", "pruning", "posting"}
        /\ \/ writer.at = "busy" /\ \E rows \in {Oldest(store, HistoryLimit), <<>>} :
                 writer' = [writer EXCEPT !.at = "posting", !.rows = rows]
           \/ writer' = IdleWriter
        /\ writer.at = "busy" => writer.job = Query
    BY <1>2 DEF WriterPruneFails, WriterQuery, WriterPost, history
  <2>2. CASE writer' = IdleWriter
    <3>1. writer' \in Writings /\ writer'.job = 0
      BY <2>2, IdleWriterIs, NewWriterIsTyped
    <3>2. writer.job = 0
      BY <2>1 DEF IInv, AtRest
    <3>3. StoreFits'
      BY <2>1, <3>1, <3>2, JobDone
    <3>4. /\ jobs' \in Seq(Nat) /\ Len(jobs') <= WriterCapacity
          /\ store' \in Seq(Nat) /\ app # "down"
      BY <2>1 DEF IInv, DeliveryTypes, AtRest
    <3> QED
      BY <2>1, <3>1, <3>3, <3>4, WriterKeepsLog
  <2>3. ASSUME NEW rows \in {Oldest(store, HistoryLimit), <<>>},
               writer.at = "busy", writer' = [writer EXCEPT !.at = "posting", !.rows = rows]
        PROVE  IInv'
    <3>1. rows \in Seq(Nat)
      BY NewestKeepsType
    <3>2. writer' \in Writings /\ writer'.at = "posting" /\ writer'.job = writer.job /\ writer.job = NoJob
      BY <2>1, <2>3, <3>1 DEF IInv, DeliveryTypes
    <3>3. StoreFits'
      BY <2>1, <3>2, StoreKept DEF IInv
    <3>4. /\ jobs' \in Seq(Nat) /\ Len(jobs') <= WriterCapacity
          /\ store' \in Seq(Nat) /\ app # "down"
      BY <2>1 DEF IInv, DeliveryTypes, AtRest
    <3> QED
      BY <2>1, <3>2, <3>3, <3>4, WriterKeepsLog
  <2> QED
    BY <2>1, <2>2, <2>3
<1> QED
  BY <1>1, <1>2

(* What a process has in memory is gone at its end, but for what is lost only *)
(* the database is left.                                                      *)
LEMMA EndStep ==
    ASSUME IInv, MemoryGone, UNCHANGED <<mode, store, made, handed>>, lost \subseteq lost',
           \A s \in handed : (s = writer.job \/ \E i \in DOMAIN jobs : jobs[i] = s) => s \in lost'
    PROVE  IInv'
<1>1. /\ app' = "down" /\ worker' = [at |-> "none", lastMode |-> NoMode, nextId |-> 1, switched |-> FALSE]
      /\ log' = <<>> /\ gui' = [at |-> "idle", todo |-> <<>>, persisted |-> 0, seen |-> {}]
      /\ jobs' = <<>> /\ writer' = [at |-> "off", job |-> 0, rows |-> <<>>]
  BY DEF MemoryGone, IdleWorker, IdleGui, NoWriter
<1>2. DeliveryTypes'
  <2>1. <<>> \in Seq(Event) /\ <<>> \in Seq(Nat) /\ Len(jobs') = 0
    BY <1>1, EmptySeq
  <2>2. worker' \in [at : {"none", "loop", "publish", "announce"}, lastMode : Modes \cup {NoMode},
                     nextId : Nat \ {0}, switched : BOOLEAN]
    BY <1>1
  <2>3. gui' \in GuiStates
    BY <1>1, <2>1
  <2>4. writer' \in [at : WriterPlaces, job : Nat, rows : Seq(Nat)]
    BY <1>1, NewWriterIsTyped
  <2> QED
    BY <1>1, <2>1, <2>2, <2>3, <2>4, CapacitiesAssumption DEF IInv, DeliveryTypes
<1>3. AtRest'
  BY <1>1 DEF AtRest
<1>4. LogFits'
  BY <1>1 DEF LogFits, InOrder, NoneBehind, LoopMeetsAll
<1>5. SameMode'
  BY <1>1 DEF SameMode, Numbered, AllHanded
<1>6. StoreFits'
  <2>1. StoreInOrder' /\ JobInOrder' /\ JobsInOrder'
    BY <1>1 DEF IInv, StoreFits, StoreInOrder, JobInOrder, JobsInOrder
  <2>2. Settled'
    BY <1>1 DEF IInv, StoreFits, Settled
  <2> QED
    BY <2>1, <2>2 DEF StoreFits
<1> QED
  BY <1>2, <1>3, <1>4, <1>5, <1>6 DEF IInv

(* The writer of a new process, and its first job.                            *)
LEMMA FirstWriter ==
    ASSUME NEW w, NEW q, \/ w = NoWriter /\ q = <<>>
                         \/ w = IdleWriter /\ q = <<Query>>
    PROVE  /\ w \in [at : WriterPlaces, job : Nat, rows : Seq(Nat)]
           /\ w.job = 0
           /\ q \in Seq(Nat) /\ Len(q) <= WriterCapacity /\ \A i \in DOMAIN q : q[i] = Query
<1>1. CASE w = NoWriter /\ q = <<>>
  <2>1. w = [at |-> "off", job |-> 0, rows |-> <<>>]
    BY <1>1 DEF NoWriter
  <2>2. q \in Seq(Nat) /\ Len(q) = 0 /\ DOMAIN q = {}
    BY <1>1, EmptySeq
  <2> QED
    BY <2>1, <2>2, NewWriterIsTyped, CapacitiesAssumption
<1>2. CASE w = IdleWriter /\ q = <<Query>>
  <2>1. w = [at |-> "idle", job |-> 0, rows |-> <<>>]
    BY <1>2, IdleWriterIs
  <2>2. q \in Seq(Nat) /\ Len(q) = 1 /\ DOMAIN q = {1} /\ q[1] = Query
    BY <1>2
  <2> QED
    BY <2>1, <2>2, NewWriterIsTyped, CapacitiesAssumption
<1> QED
  BY <1>1, <1>2

LEMMA LaunchStep ==
    ASSUME IInv, Launch
    PROVE  IInv'
<1>1. /\ app = "down" /\ app' = "up" /\ mode' = FirstMode
      /\ \/ writer' = NoWriter /\ jobs' = <<>>
         \/ writer' = IdleWriter /\ jobs' = <<Query>>
      /\ UNCHANGED <<worker, log, gui, store, made, handed, lost>>
  BY IdleWriterIs DEF Launch, Writers, FirstJobs, NoWriter, history
<1>2. jobs = <<>> /\ writer.job = 0 /\ gui.at = "idle"
  BY <1>1 DEF IInv, AtRest
<1>3. /\ writer' \in [at : WriterPlaces, job : Nat, rows : Seq(Nat)]
      /\ writer'.job = 0
  BY <1>1, FirstWriter
<1>4. jobs' \in Seq(Nat) /\ Len(jobs') <= WriterCapacity /\ \A i \in DOMAIN jobs' : jobs'[i] = Query
  BY <1>1, FirstWriter
<1>5. DeliveryTypes'
  BY <1>1, <1>3, <1>4, ModesAssumption DEF IInv, DeliveryTypes
<1>6. AtRest'
  BY <1>1, <1>3 DEF IInv, AtRest
<1>7. LogFits' /\ SameMode'
  BY <1>1, LogKept DEF IInv
<1>8. StoreInOrder' /\ JobInOrder' /\ JobsInOrder'
  BY <1>1, <1>3, <1>4 DEF IInv, StoreFits, StoreInOrder, JobInOrder, JobsInOrder
<1>9. Settled'
  <2>1. 0 \notin handed
    BY DEF IInv, DeliveryTypes
  <2> QED
    BY <1>1, <1>2, <2>1 DEF IInv, StoreFits, Settled
<1> QED
  BY <1>5, <1>6, <1>7, <1>8, <1>9 DEF IInv, StoreFits

LEMMA InitEstablishes == Init => IInv
<1> SUFFICES ASSUME Init PROVE IInv
  OBVIOUS
<1>1. /\ app = "up" /\ mode = FirstMode
      /\ worker = [at |-> "none", lastMode |-> NoMode, nextId |-> 1, switched |-> FALSE]
      /\ log = <<>> /\ gui = [at |-> "idle", todo |-> <<>>, persisted |-> 0, seen |-> {}]
      /\ \/ writer = NoWriter /\ jobs = <<>>
         \/ writer = IdleWriter /\ jobs = <<Query>>
      /\ store = <<>> /\ made = 0 /\ handed = {} /\ lost = {}
  BY IdleWriterIs DEF Init, IdleWorker, IdleGui, Writers, FirstJobs, NoWriter
<1>2. /\ writer \in [at : WriterPlaces, job : Nat, rows : Seq(Nat)]
      /\ writer.job = 0
  BY <1>1, FirstWriter
<1>3. jobs \in Seq(Nat) /\ Len(jobs) <= WriterCapacity /\ \A i \in DOMAIN jobs : jobs[i] = Query
  BY <1>1, FirstWriter
<1>4. DeliveryTypes
  <2>1. <<>> \in Seq(Event) /\ <<>> \in Seq(Nat)
    BY EmptySeq
  <2>2. worker \in [at : {"none", "loop", "publish", "announce"}, lastMode : Modes \cup {NoMode},
                    nextId : Nat \ {0}, switched : BOOLEAN]
    BY <1>1
  <2>3. gui \in GuiStates
    BY <1>1, <2>1
  <2> QED
    BY <1>1, <1>2, <1>3, <2>1, <2>2, <2>3, ModesAssumption DEF DeliveryTypes
<1>5. AtRest
  BY <1>1, <1>2 DEF AtRest
<1>6. LogFits /\ SameMode
  BY <1>1 DEF LogFits, InOrder, NoneBehind, LoopMeetsAll, SameMode, Numbered, AllHanded
<1>7. StoreFits
  BY <1>1, <1>2, <1>3 DEF StoreFits, StoreInOrder, JobInOrder, JobsInOrder, Settled
<1> QED
  BY <1>4, <1>5, <1>6, <1>7 DEF IInv

LEMMA StepsKeepInvariant == IInv /\ [Next]_vars => IInv'
<1> SUFFICES ASSUME IInv, [Next]_vars PROVE IInv'
  OBVIOUS
<1>1. ASSUME NEW n \in 0..MaxBatch, WorkerEvaluate(n) PROVE IInv'
  BY <1>1, EvaluateStep
<1>2. CASE StartCamera
  BY <1>2, StartCameraStep
<1>3. CASE NotifySnapshot
  BY <1>3, SnapshotStep
<1>4. CASE NotifySkip
  BY <1>4, SkipStep
<1>5. CASE NotifyEnqueue
  BY <1>5, EnqueueStep
<1>6. CASE WriterTake
  BY <1>6, TakeStep
<1>7. CASE WriterInsert
  BY <1>7, InsertStep
<1>7a. CASE WriterPrune
  BY <1>7a, PruneStep
<1>8. CASE WriterInsertFails \/ WriterPruneFails \/ WriterQuery \/ WriterPost
  BY <1>8, OtherWriterSteps
<1>9. CASE QuitEnds
  <2>1. MemoryGone /\ UNCHANGED <<mode, store, made, handed, lost>>
        /\ writer.at # "busy" /\ jobs = <<>>
    BY <1>9 DEF QuitEnds, history
  <2>2. writer.job = 0 /\ 0 \notin handed
    BY <2>1 DEF IInv, AtRest, DeliveryTypes
  <2> QED
    BY <2>1, <2>2, EndStep
<1>10. CASE Crash
  <2>1. /\ MemoryGone /\ UNCHANGED <<mode, store, made, handed>>
        /\ lost' = lost \cup Events(jobs) \cup Events(<<writer.job>>)
    BY <1>10 DEF Crash
  <2>2. ASSUME NEW s \in handed, s = writer.job \/ \E i \in DOMAIN jobs : jobs[i] = s
        PROVE  s \in lost'
    <3>1. s # Query
      BY DEF IInv, DeliveryTypes
    <3>2. CASE s = writer.job
      <4>1. s \in ToSet(<<writer.job>>)
        BY <3>2 DEF ToSet
      <4> QED
        BY <2>1, <3>1, <4>1 DEF Events
    <3>3. CASE \E i \in DOMAIN jobs : jobs[i] = s
      BY <2>1, <3>1, <3>3 DEF Events, ToSet
    <3> QED
      BY <2>2, <3>2, <3>3
  <2> QED
    BY <2>1, <2>2, EndStep
<1>11. CASE Launch
  BY <1>11, LaunchStep
<1>12. CASE \/ WorkerPublish \/ WorkerAnnounce \/ StartCameraFails \/ StopCamera
            \/ \E m \in Modes : SetMode(m)
            \/ NotifyFrame \/ NotifyEmit \/ IngestTurn \/ IngestEnd \/ HistoryArrives \/ Quit
            \/ UNCHANGED vars
  BY <1>12, OtherSteps, QuietStep
<1> QED
  BY <1>1, <1>2, <1>3, <1>4, <1>5, <1>6, <1>7, <1>7a, <1>8, <1>9, <1>10, <1>11,
     <1>12 DEF Next, User, Gui, Writer

(* The strengthened invariant holds in every reachable state.                 *)
THEOREM Invariance == Spec => []IInv
BY InitEstablishes, StepsKeepInvariant, PTL DEF Spec

(* The database holds every event at most once and in the order they were     *)
(* made (CameraManager::notifyFrame, EventWriter::runLoop), over any number   *)
(* of sessions, mode switches, crashes and restarts.                          *)
THEOREM DatabaseIsInOrder == Spec => []StoredOnceInOrder
<1>1. IInv => StoredOnceInOrder
  BY DEF IInv, StoreFits, StoreInOrder, StoredOnceInOrder, Increasing
<1> QED
  BY <1>1, Invariance, PTL

(* What the writer accepted is queued, in hand or stored, but for what        *)
(* overflow, a failed insert, pruning or a crash took (EventWriter::stop).    *)
THEOREM NothingIsLostSilently == Spec => []NothingVanishes
<1>1. IInv => NothingVanishes
  <2> SUFFICES ASSUME IInv, NEW s \in handed \ lost
               PROVE  s \in Events(jobs) \cup ToSet(store) \cup {writer.job}
    BY DEF NothingVanishes
  <2>1. s # Query
    BY DEF IInv, DeliveryTypes
  <2> QED
    BY <2>1 DEF IInv, StoreFits, Settled, Events, ToSet
<1> QED
  BY <1>1, Invariance, PTL

(* In a session without a switch of the mode each event notifyFrame met has   *)
(* been given to the writer when it returns.                                  *)
THEOREM WhatIsMetIsHandedOver == Spec => []MetEventsAreHanded
<1>1. IInv => MetEventsAreHanded
  <2> SUFFICES ASSUME IInv, gui.at = "idle", ~worker.switched
               PROVE  gui.seen \subseteq handed
    BY DEF MetEventsAreHanded
  <2>1. gui.todo = <<>>
    BY DEF IInv, AtRest
  <2> QED
    BY <2>1 DEF IInv, SameMode
<1> QED
  BY <1>1, Invariance, PTL
------------------------------------------------------------------------------
(* What the table keeps and what it gives up.                                 *)
RetentionInv == inserted \in Seq(Nat) /\ unpruned \in Nat /\ NewestRowsAreKept

LEMMA InsertRetains ==
    ASSUME IInv, RetentionInv, WriterInsert
    PROVE  RetentionInv'
<1>1. /\ store' = Append(store, writer.job)
      /\ inserted' = Append(inserted, writer.job) /\ unpruned' = unpruned + 1
  BY DEF WriterInsert
<1>2. /\ store \in Seq(Nat) /\ inserted \in Seq(Nat) /\ writer.job \in Nat
      /\ Len(store) \in Nat /\ Len(inserted) \in Nat
      /\ DOMAIN store = 1..Len(store) /\ unpruned \in Nat /\ StoreRows \in Nat
  BY LenProperties, CapacitiesAssumption DEF IInv, DeliveryTypes, RetentionInv
<1>3. /\ Len(store') = Len(store) + 1 /\ Len(inserted') = Len(inserted) + 1
      /\ store' \in Seq(Nat) /\ inserted' \in Seq(Nat)
      /\ \A i \in 1..Len(store) : store'[i] = store[i]
      /\ \A i \in 1..Len(inserted) : inserted'[i] = inserted[i]
      /\ store'[Len(store) + 1] = writer.job /\ inserted'[Len(inserted) + 1] = writer.job
  BY <1>1, <1>2, AppendProperties
<1>4. Pruned' = Pruned /\ Pruned \in Nat
  BY <1>2, <1>3 DEF RetentionInv, NewestRowsAreKept, Pruned
<1>5. DOMAIN store' = 1..(Len(store) + 1)
  BY <1>3, LenProperties
<1>6. ASSUME NEW i \in DOMAIN store'
      PROVE  store'[i] = inserted'[i + Pruned]
  <2>1. CASE i = Len(store) + 1
    <3>1. i + Pruned = Len(inserted) + 1
      BY <1>2, <2>1 DEF Pruned
    <3> QED
      BY <1>3, <2>1, <3>1
  <2>2. CASE i \in 1..Len(store)
    <3>0. Len(store) \in Nat /\ Len(inserted) \in Nat /\ Pruned \in Nat
      BY <1>2, <1>4
    <3>1. i + Pruned \in 1..Len(inserted)
      BY <2>2, <3>0 DEF Pruned
    <3>2. store[i] = inserted[i + Pruned]
      BY <1>2, <2>2 DEF RetentionInv, NewestRowsAreKept
    <3>3. store'[i] = store[i]
      BY <1>3, <2>2
    <3>4. inserted'[i + Pruned] = inserted[i + Pruned]
      BY <1>3, <3>1
    <3> QED
      BY <3>2, <3>3, <3>4
  <2> QED
    BY <1>2, <1>5, <2>1, <2>2
<1>7. (Pruned > 0 => Len(store) >= StoreRows) /\ Len(store) <= StoreRows + unpruned
  BY DEF RetentionInv, NewestRowsAreKept
<1>8. (Pruned > 0 => Len(store') >= StoreRows) /\ Len(store') <= StoreRows + unpruned'
  BY <1>1, <1>2, <1>3, <1>7
<1>9. unpruned' \in Nat
  BY <1>1, <1>2
<1>10. \A i \in DOMAIN store' : store'[i] = inserted'[i + Pruned']
  BY <1>4, <1>6
<1>11. NewestRowsAreKept'
  BY <1>4, <1>8, <1>10 DEF NewestRowsAreKept
<1> QED
  BY <1>3, <1>9, <1>11 DEF RetentionInv

LEMMA PruneRetains ==
    ASSUME IInv, RetentionInv, WriterPrune
    PROVE  RetentionInv'
<1> DEFINE cut == Cut(store, StoreRows)
<1>1. store' = Newest(store, StoreRows) /\ unpruned' = 0 /\ UNCHANGED inserted
  BY DEF WriterPrune
<1>2. /\ store \in Seq(Nat) /\ inserted \in Seq(Nat) /\ StoreRows \in Nat
      /\ Len(store) \in Nat /\ Len(inserted) \in Nat /\ DOMAIN store = 1..Len(store)
  BY LenProperties, CapacitiesAssumption DEF IInv, DeliveryTypes, RetentionInv
<1>3. /\ store' \in Seq(Nat) /\ cut \in 0..Len(store)
      /\ Len(store') = Len(store) - cut /\ Len(store') <= StoreRows
      /\ \A i \in 1..(Len(store) - cut) : store'[i] = store[i + cut]
  BY <1>1, <1>2, NewestCuts
<1>4. cut = 0 \/ Len(store') = StoreRows
  BY <1>2, <1>3 DEF Cut
<1> HIDE DEF cut
<1>5. DOMAIN store' = 1..(Len(store) - cut)
  BY <1>2, <1>3, LenProperties
<1>6. Pruned' = Pruned + cut /\ Pruned \in Nat /\ cut \in Nat
  BY <1>1, <1>2, <1>3 DEF RetentionInv, NewestRowsAreKept, Pruned
<1>7. ASSUME NEW i \in DOMAIN store'
      PROVE  store'[i] = inserted[i + Pruned']
  <2>0. i \in 1..(Len(store) - cut) /\ cut \in Int
    BY <1>5, <1>6
  <2>1. i \in Nat /\ i + cut \in DOMAIN store /\ store'[i] = store[i + cut]
    <3>1. i \in Nat /\ i + cut \in 1..Len(store)
      <4>1. Len(store) \in Int /\ cut >= 0
        BY <1>2, <1>6
      <4> QED
        BY <2>0, <4>1
    <3>2. store'[i] = store[i + cut]
      BY <1>3, <2>0
    <3> QED
      BY <1>2, <3>1, <3>2
  <2>2. store[i + cut] = inserted[(i + cut) + Pruned]
    BY <2>1 DEF RetentionInv, NewestRowsAreKept
  <2>3. (i + cut) + Pruned = i + Pruned'
    BY <1>6, <2>1
  <2> QED
    BY <2>1, <2>2, <2>3
<1>8. Pruned' > 0 => Len(store') >= StoreRows
  <2>1. Pruned > 0 => Len(store) >= StoreRows
    BY DEF RetentionInv, NewestRowsAreKept
  <2>2. CASE cut = 0
    BY <1>2, <1>3, <1>6, <2>1, <2>2
  <2>3. CASE Len(store') = StoreRows
    BY <1>2, <2>3
  <2> QED
    BY <1>4, <2>2, <2>3
<1>9. Pruned' \in Nat /\ Len(store') <= StoreRows + unpruned'
  <2>1. Pruned' \in Nat
    BY <1>6
  <2>2. StoreRows + unpruned' = StoreRows
    BY <1>1, <1>2
  <2> QED
    BY <1>3, <2>1, <2>2
<1>10. \A i \in DOMAIN store' : store'[i] = inserted'[i + Pruned']
  BY <1>1, <1>7
<1>11. NewestRowsAreKept'
  BY <1>8, <1>9, <1>10 DEF NewestRowsAreKept
<1> QED
  BY <1>1, <1>2, <1>11 DEF RetentionInv

LEMMA StepsRetain == IInv /\ RetentionInv /\ [Next]_vars => RetentionInv'
<1> SUFFICES ASSUME IInv, RetentionInv, [Next]_vars PROVE RetentionInv'
  OBVIOUS
<1>1. CASE UNCHANGED <<store, inserted, unpruned>>
  BY <1>1 DEF RetentionInv, NewestRowsAreKept, Pruned
<1>2. WriterInsert \/ WriterPrune \/ UNCHANGED <<store, inserted, unpruned>>
  BY DEF Next, vars, history, User, Gui, Writer, WorkerEvaluate, WorkerPublish, WorkerAnnounce,
     StartCamera, StartCameraFails, StopCamera, SetMode, NotifyFrame,
     NotifySnapshot, NotifySkip, NotifyEnqueue, NotifyEmit, IngestTurn, IngestEnd,
     HistoryArrives, WriterTake, WriterInsertFails, WriterPruneFails, WriterQuery, WriterPost,
     Quit, QuitEnds, Crash, Launch
<1> QED
  BY <1>1, <1>2, InsertRetains, PruneRetains

LEMMA InitRetains == Init => RetentionInv
<1>1. <<>> \in Seq(Nat) /\ Len(<<>>) = 0 /\ DOMAIN <<>> = {}
  BY EmptySeq
<1> QED
  BY <1>1, CapacitiesAssumption DEF Init, RetentionInv, NewestRowsAreKept, Pruned

(* The table gives up its oldest rows only, and only for StoreRows newer ones;*)
(* what prunes that failed or that a crash prevented have left over, the next *)
(* prune that works takes (EventWriter::handle, prune).                       *)
THEOREM TableKeepsTheNewest == Spec => []NewestRowsAreKept
<1>1. IInv /\ RetentionInv /\ [Next]_vars => (IInv /\ RetentionInv)'
  BY StepsKeepInvariant, StepsRetain
<1>2. Init => IInv /\ RetentionInv
  BY InitEstablishes, InitRetains
<1>3. RetentionInv => NewestRowsAreKept
  BY DEF RetentionInv
<1> QED
  BY <1>1, <1>2, <1>3, PTL DEF Spec
------------------------------------------------------------------------------
(* The event page: the model, the calls that bring it rows, and the query.    *)
CallTypes == [is : {"notify", "history"}, rows : Seq(Nat)]
PageTypes ==
    /\ latest \in {"none", "picture", "blank"}
    /\ calls \in Seq(CallTypes)
    /\ model \in [cursor : Nat, rows : Seq(Nat), loaded : BOOLEAN,
                  todo : Seq(Event), live : Seq(Nat), newMax : Nat]
    /\ Len(log) <= LogCapacity /\ lost \subseteq Nat

(* What ingest has nothing of when it is not at work, which it is during a    *)
(* session only.                                                              *)
IngestRests == /\ gui.at # "ingest" => model.todo = <<>> /\ model.live = <<>>
               /\ gui.at # "idle" => Running

(* No row is twice on the page or among those about to be.                    *)
Made(rows) == \A i \in DOMAIN rows : rows[i] \in 1..made
RowsDiffer == /\ Made(model.rows) /\ Made(model.live)
              /\ \A i, j \in DOMAIN model.rows : model.rows[i] = model.rows[j] => i = j
              /\ Increasing(model.live)
              /\ \A i \in DOMAIN model.live, j \in DOMAIN model.rows : model.live[i] # model.rows[j]

(* What ingest has yet to look at is newer than what it has collected.        *)
IngestInOrder ==
    /\ InOrder(model.todo)
    /\ \A k \in DOMAIN model.todo, i \in DOMAIN model.live : model.live[i] < model.todo[k].serial
    /\ \A k \in DOMAIN model.todo, i \in DOMAIN log :
          log[i].serial = model.todo[k].serial => log[i].id = model.todo[k].id

(* The cursor has passed what is on the page and can be met again, and newMax *)
(* what is about to be.                                                       *)
CursorCovers ==
    /\ Running => \A i \in DOMAIN log, j \in DOMAIN model.rows :
                     log[i].serial = model.rows[j] => log[i].id <= model.cursor
    /\ \A k \in DOMAIN model.todo, j \in DOMAIN model.rows :
          model.todo[k].serial = model.rows[j] => model.todo[k].id <= model.cursor
    /\ \A i \in DOMAIN log, j \in DOMAIN model.live :
          log[i].serial = model.live[j] => log[i].id <= model.newMax
    /\ gui.at = "ingest" => model.cursor <= model.newMax

(* The query is ahead of every event of its process: until it was answered    *)
(* the table has the events of earlier processes only.                        *)
QueryFirst == \A i \in DOMAIN jobs : jobs[i] = Query => i = 1 /\ writer.at = "idle"
Pending == \/ \E i \in DOMAIN jobs : jobs[i] = Query
           \/ writer.at = "busy" /\ writer.job = Query

(* Rows older than all that this process has made.                            *)
Older(serial) == /\ serial \in 1..made
                 /\ \A i \in DOMAIN log : serial < log[i].serial
                 /\ \A i \in DOMAIN model.todo : serial < model.todo[i].serial
                 /\ \A i \in DOMAIN model.live : serial < model.live[i]
                 /\ \A i \in DOMAIN model.rows : serial < model.rows[i]
AllOlder(rows) == \A r \in DOMAIN rows : Older(rows[r])
Answer(rows) == Increasing(rows) /\ (~model.loaded => AllOlder(rows))
HistoryFits == /\ QueryFirst
               /\ Pending /\ ~model.loaded => AllOlder(store)
               /\ Answer(writer.rows)
               /\ \A c \in DOMAIN calls : Answer(calls[c].rows)

PageInv == /\ PageTypes /\ IngestRests
           /\ RowsDiffer /\ IngestInOrder /\ CursorCovers /\ HistoryFits

LEMMA PageKept ==
    ASSUME PageInv, UNCHANGED <<model, log, made>>
    PROVE  /\ RowsDiffer' /\ IngestInOrder'
           /\ (gui'.at = "ingest" => gui.at = "ingest") /\ (Running' => Running) => CursorCovers'
<1>1. RowsDiffer' /\ IngestInOrder'
  BY DEF PageInv, RowsDiffer, Made, IngestInOrder, InOrder
<1>2. (gui'.at = "ingest" => gui.at = "ingest") /\ (Running' => Running) => CursorCovers'
  BY DEF PageInv, CursorCovers
<1> QED
  BY <1>1, <1>2

LEMMA AnswersKept ==
    ASSUME UNCHANGED <<model, log, made>>,
           QueryFirst', Pending' /\ ~model.loaded => AllOlder(store'),
           Answer(writer'.rows), \A c \in DOMAIN calls' : Answer(calls'[c].rows)
    PROVE  HistoryFits'
BY DEF HistoryFits, Answer, Increasing, AllOlder, Older

(* What the page has is kept when only the threads around it move.            *)
LEMMA QuietPage ==
    ASSUME PageInv, UNCHANGED <<model, log, made, jobs, store, writer, calls>>,
           latest' \in {"none", "picture", "blank"}, lost' \subseteq Nat,
           gui'.at = "ingest" => gui.at = "ingest", gui.at = "ingest" => gui'.at = "ingest",
           Running' => Running, gui'.at # "idle" => Running'
    PROVE  PageInv'
<1>1. PageTypes'
  BY DEF PageInv, PageTypes
<1>2. IngestRests'
  BY DEF PageInv, IngestRests
<1>3. HistoryFits'
  BY AnswersKept DEF PageInv, HistoryFits, QueryFirst, Pending
<1> QED
  BY <1>1, <1>2, <1>3, PageKept DEF PageInv

LEMMA CallsTyped ==
    ASSUME PageTypes
    PROVE  /\ Notify \in CallTypes
           /\ \A rows \in Seq(Nat) : History(rows) \in CallTypes
<1>1. <<>> \in Seq(Nat)
  BY EmptySeq
<1> QED
  BY <1>1 DEF Notify, History, CallTypes

LEMMA EmptyAnswer ==
    ASSUME NEW rows, rows = <<>>
    PROVE  Answer(rows)
<1>1. DOMAIN rows = {}
  BY EmptySeq
<1> QED
  BY <1>1 DEF Answer, Increasing, AllOlder

(* A call is queued behind the others.                                        *)
LEMMA CallPosted ==
    ASSUME PageInv, NEW call \in CallTypes,
           calls' = Append(calls, call), Answer(call.rows)
    PROVE  /\ calls' \in Seq(CallTypes)
           /\ \A c \in DOMAIN calls' : Answer(calls'[c].rows)
<1>1. calls \in Seq(CallTypes)
  BY DEF PageInv, PageTypes
<1>2. /\ calls' \in Seq(CallTypes)
      /\ Len(calls') = Len(calls) + 1
      /\ \A i \in 1..Len(calls) : calls'[i] = calls[i]
      /\ calls'[Len(calls) + 1] = call
  BY <1>1, AppendProperties
<1>3. Len(calls) \in Nat /\ DOMAIN calls = 1..Len(calls) /\ DOMAIN calls' = 1..(Len(calls) + 1)
  BY <1>1, <1>2, LenProperties
<1>4. ASSUME NEW c \in DOMAIN calls'
      PROVE  Answer(calls'[c].rows)
  <2>1. CASE c \in DOMAIN calls
    BY <1>2, <1>3, <2>1 DEF PageInv, HistoryFits
  <2>2. CASE c = Len(calls) + 1
    BY <1>2, <2>2
  <2> QED
    BY <1>3, <2>1, <2>2
<1> QED
  BY <1>2, <1>4

(* The oldest of them is dispatched.                                          *)
LEMMA CallTaken ==
    ASSUME PageInv, calls # <<>>, calls' = Tail(calls)
    PROVE  /\ calls' \in Seq(CallTypes)
           /\ \A c \in DOMAIN calls' : Answer(calls'[c].rows)
           /\ 1 \in DOMAIN calls /\ Head(calls) = calls[1]
           /\ calls[1] \in CallTypes
<1>1. calls \in Seq(CallTypes)
  BY DEF PageInv, PageTypes
<1>2. Len(calls) \in Nat \ {0} /\ DOMAIN calls = 1..Len(calls)
  BY <1>1, EmptySeq, LenProperties
<1>3. /\ calls' \in Seq(CallTypes)
      /\ Len(calls') = Len(calls) - 1
      /\ \A i \in 1..Len(calls') : calls'[i] = calls[i + 1]
  BY <1>1, HeadTailProperties
<1>4. DOMAIN calls' = 1..(Len(calls) - 1)
  BY <1>3, LenProperties
<1>5. ASSUME NEW c \in DOMAIN calls'
      PROVE  Answer(calls'[c].rows)
  <2>1. c \in 1..(Len(calls) - 1) /\ c + 1 \in 1..Len(calls)
    BY <1>2, <1>4
  <2>2. calls'[c] = calls[c + 1] /\ c + 1 \in DOMAIN calls
    BY <1>2, <1>3, <2>1
  <2> QED
    BY <2>2 DEF PageInv, HistoryFits
<1>6. Head(calls) = calls[1] /\ 1 \in DOMAIN calls /\ calls[1] \in CallTypes
  BY <1>1, <1>2, ElementOfSeq
<1> QED
  BY <1>3, <1>5, <1>6

(* What a frame adds to the log is newer than all there was.                  *)
LEMMA LogGrows ==
    ASSUME IInv, NEW n \in 0..MaxBatch, WorkerEvaluate(n)
    PROVE  /\ Len(log') <= LogCapacity /\ made' \in Nat /\ made <= made'
           /\ \A i \in DOMAIN log' : \/ \E j \in DOMAIN log : log'[i] = log[j]
                                     \/ log'[i].serial \in Nat /\ log'[i].serial > made
<1> DEFINE w == Grown(n)
           cut == Cut(w, LogCapacity)
           old == Len(log)
<1>1. log' = Newest(w, LogCapacity) /\ made' = made + n
  BY DEF WorkerEvaluate, Grown, FirstId
<1>2. /\ DeliveryTypes /\ n \in Nat /\ made \in Nat /\ LogCapacity \in Nat
      /\ old \in Nat /\ DOMAIN log = 1..old
  BY BoundsAssumption, CapacitiesAssumption, LenProperties DEF IInv, DeliveryTypes
<1>3. /\ w \in Seq(Event) /\ Len(w) = old + n
      /\ \A i \in 1..old : w[i] = log[i]
      /\ \A i \in (old + 1)..(old + n) : w[i].serial = made + (i - old)
  BY <1>2, GrownLog
<1> HIDE DEF w
<1>4. /\ log' \in Seq(Event) /\ cut \in 0..Len(w)
      /\ Len(log') = Len(w) - cut /\ Len(log') <= LogCapacity
      /\ \A i \in 1..(Len(w) - cut) : log'[i] = w[i + cut]
  BY <1>1, <1>2, <1>3, NewestCuts
<1> HIDE DEF cut, old
<1>5. DOMAIN log' = 1..(old + n - cut) /\ cut \in 0..(old + n)
  <2>1. Len(w) = old + n /\ cut \in Int
    BY <1>3, <1>4
  <2> QED
    BY <1>2, <1>4, <2>1, LenProperties
<1>6. ASSUME NEW i \in DOMAIN log'
      PROVE  \/ \E j \in DOMAIN log : log'[i] = log[j]
             \/ log'[i].serial \in Nat /\ log'[i].serial > made
  <2>1. i + cut \in 1..(old + n) /\ log'[i] = w[i + cut]
    <3> DEFINE len == Len(w)
    <3>1. len \in Nat /\ cut \in 0..len /\ i \in 1..(len - cut)
      BY <1>2, <1>3, <1>4, <1>5
    <3>2. log'[i] = w[i + cut] /\ len = old + n
      BY <1>3, <1>4, <3>1
    <3> HIDE DEF len
    <3>3. i + cut \in 1..len
      BY <3>1
    <3> QED
      BY <3>2, <3>3
  <2>2. CASE i + cut \in 1..old
    BY <1>2, <1>3, <2>1, <2>2
  <2>3. CASE i + cut \in (old + 1)..(old + n)
    BY <1>2, <1>3, <2>1, <2>3
  <2> QED
    BY <1>2, <2>1, <2>2, <2>3
<1> QED
  BY <1>1, <1>2, <1>4, <1>6

LEMMA EvaluatePage ==
    ASSUME IInv, PageInv, NEW n \in 0..MaxBatch, WorkerEvaluate(n)
    PROVE  PageInv'
<1>1. /\ worker.at = "loop" /\ worker'.at = "publish"
      /\ UNCHANGED <<latest, calls, gui, model, jobs, writer, store, lost>>
  BY DEF WorkerEvaluate
<1>2. /\ Len(log') <= LogCapacity /\ made \in Nat /\ made' \in Nat /\ made <= made'
      /\ \A i \in DOMAIN log' : \/ \E j \in DOMAIN log : log'[i] = log[j]
                                \/ log'[i].serial \in Nat /\ log'[i].serial > made
  BY LogGrows DEF IInv, DeliveryTypes
<1>3. PageTypes' /\ IngestRests'
  BY <1>1, <1>2 DEF PageInv, PageTypes, IngestRests, Running
<1>4. \A serial \in 1..made : serial \in 1..made'
  BY <1>2
<1>5. RowsDiffer'
  BY <1>1, <1>4 DEF PageInv, RowsDiffer, Made
<1>6. IngestInOrder'
  <2>1. InOrder(model.todo)'
    BY <1>1, <1>4 DEF PageInv, IngestInOrder, InOrder
  <2>2. ASSUME NEW k \in DOMAIN model.todo, NEW i \in DOMAIN log', log'[i].serial = model.todo[k].serial
        PROVE  log'[i].id = model.todo[k].id
    <3>1. model.todo[k].serial \in 1..made
      BY DEF PageInv, IngestInOrder, InOrder
    <3>2. ~(log'[i].serial > made)
      BY <1>2, <2>2, <3>1
    <3> QED
      BY <1>2, <2>2, <3>2 DEF PageInv, IngestInOrder
  <2> QED
    BY <1>1, <2>1, <2>2 DEF PageInv, IngestInOrder
<1>7. CursorCovers'
  <2>1. ASSUME NEW i \in DOMAIN log', NEW s \in 1..made, log'[i].serial = s
        PROVE  \E j \in DOMAIN log : log'[i] = log[j]
    BY <1>2, <2>1
  <2>2. \A j \in DOMAIN model.rows : model.rows[j] \in 1..made
    BY DEF PageInv, RowsDiffer, Made
  <2>3. \A j \in DOMAIN model.live : model.live[j] \in 1..made
    BY DEF PageInv, RowsDiffer, Made
  <2>4. Running
    BY <1>1 DEF Running
  <2>5. \A i \in DOMAIN log', j \in DOMAIN model.rows :
           log'[i].serial = model.rows[j] => log'[i].id <= model.cursor
    BY <2>1, <2>2, <2>4 DEF PageInv, CursorCovers
  <2>6. \A i \in DOMAIN log', j \in DOMAIN model.live :
           log'[i].serial = model.live[j] => log'[i].id <= model.newMax
    BY <2>1, <2>3 DEF PageInv, CursorCovers
  <2> QED
    BY <1>1, <2>5, <2>6 DEF PageInv, CursorCovers
<1>8. ASSUME NEW rows, AllOlder(rows)
      PROVE  /\ \A r \in DOMAIN rows : rows[r] \in 1..made'
             /\ \A r \in DOMAIN rows, i \in DOMAIN log' : rows[r] < log'[i].serial
  <2>1. \A r \in DOMAIN rows : rows[r] \in 1..made /\ \A j \in DOMAIN log : rows[r] < log[j].serial
    BY <1>8 DEF AllOlder, Older
  <2>2. ASSUME NEW r \in DOMAIN rows, NEW i \in DOMAIN log'
        PROVE  rows[r] < log'[i].serial
    <3>1. CASE log'[i].serial \in Nat /\ log'[i].serial > made
      BY <1>2, <2>1, <3>1
    <3> QED
      BY <1>2, <2>1, <3>1
  <2> QED
    BY <1>4, <2>1, <2>2
<1>9. \A rows : AllOlder(rows) =>
         \A r \in DOMAIN rows : /\ \A i \in DOMAIN model.todo : rows[r] < model.todo[i].serial
                                /\ \A i \in DOMAIN model.live : rows[r] < model.live[i]
                                /\ \A i \in DOMAIN model.rows : rows[r] < model.rows[i]
  BY DEF AllOlder, Older
<1>10. HistoryFits'
  <2>1. QueryFirst' /\ (Pending' => Pending)
    BY <1>1 DEF PageInv, HistoryFits, QueryFirst, Pending
  <2>2. Pending' /\ ~model.loaded => AllOlder(store)'
    BY <1>1, <1>8, <1>9, <2>1 DEF PageInv, HistoryFits, AllOlder, Older
  <2>3. Answer(writer.rows)'
    BY <1>1, <1>8, <1>9 DEF PageInv, HistoryFits, Answer, AllOlder, Older, Increasing
  <2>4. ASSUME NEW c \in DOMAIN calls
        PROVE  Answer(calls[c].rows)'
    <3>1. Answer(calls[c].rows)
      BY DEF PageInv, HistoryFits
    <3> QED
      BY <1>1, <1>8, <1>9, <3>1 DEF Answer, AllOlder, Older, Increasing
  <2> QED
    BY <1>1, <2>1, <2>2, <2>3, <2>4 DEF HistoryFits
<1> QED
  BY <1>3, <1>5, <1>6, <1>7, <1>10 DEF PageInv

(* A session begins or fails to: the cursor starts again, and so does the log *)
(* unless nobody reads it.                                                    *)
LEMMA StartPage ==
    ASSUME IInv, PageInv, StartCamera \/ StartCameraFails
    PROVE  PageInv'
<1>1. /\ UNCHANGED <<calls, jobs, writer, store, made, lost>>
      /\ gui.at = "idle" /\ gui'.at = "idle"
      /\ model' = [model EXCEPT !.cursor = 0]
      /\ \/ log' = <<>> /\ latest' = "none"
         \/ UNCHANGED <<log, latest>> /\ ~Running'
  BY DEF StartCamera, StartCameraFails, UserMay, history, Running, IInv, DeliveryTypes
<1>2. /\ model'.rows = model.rows /\ model'.loaded = model.loaded /\ model'.todo = model.todo
      /\ model'.live = model.live /\ model'.newMax = model.newMax /\ model'.cursor = 0
      /\ model.todo = <<>> /\ model.live = <<>>
  BY <1>1 DEF PageInv, PageTypes, IngestRests
<1>3. DOMAIN log' = {} \/ (log' = log /\ ~Running')
  BY <1>1, EmptySeq
<1>4. DOMAIN model.todo = {} /\ DOMAIN model.live = {}
  BY <1>2, EmptySeq
<1>5. PageTypes'
  <2>1. Len(log') <= LogCapacity
    BY <1>1, EmptySeq, CapacitiesAssumption DEF PageInv, PageTypes
  <2> QED
    BY <1>1, <2>1 DEF PageInv, PageTypes
<1>6. IngestRests' /\ RowsDiffer'
  BY <1>1, <1>2 DEF PageInv, IngestRests, RowsDiffer, Made
<1>7. IngestInOrder' /\ CursorCovers'
  BY <1>1, <1>2, <1>3, <1>4 DEF IngestInOrder, InOrder, CursorCovers
<1>8. \A serial : Older(serial) => Older(serial)'
  BY <1>1, <1>2, <1>3 DEF Older
<1>9. HistoryFits'
  BY <1>1, <1>2, <1>3 DEF PageInv, HistoryFits, QueryFirst, Pending, Answer, AllOlder, Older, Increasing
<1> QED
  BY <1>5, <1>6, <1>7, <1>9 DEF PageInv

(* A call is posted, taken, or dropped with all the others.                   *)
LEMMA CallsMove ==
    ASSUME PageInv, UNCHANGED <<model, log, made, jobs, store, writer, lost, latest>>,
           calls' \in Seq(CallTypes), \A c \in DOMAIN calls' : Answer(calls'[c].rows),
           gui'.at # "ingest", gui.at # "ingest", Running' => Running, gui'.at # "idle" => Running'
    PROVE  PageInv'
<1>1. PageTypes' /\ IngestRests'
  BY DEF PageInv, PageTypes, IngestRests
<1>2. HistoryFits'
  BY AnswersKept DEF PageInv, HistoryFits, QueryFirst, Pending
<1> QED
  BY <1>1, <1>2, PageKept DEF PageInv

LEMMA AnnouncePage ==
    ASSUME IInv, PageInv, WorkerAnnounce
    PROVE  PageInv'
<1>1. /\ UNCHANGED <<model, log, made, jobs, store, writer, lost, latest, gui>>
      /\ calls' = Append(calls, Notify) /\ Running /\ Running'
  BY DEF WorkerAnnounce, history, Running, IInv, DeliveryTypes
<1>2. Answer(Notify.rows)
  BY EmptyAnswer DEF Notify
<1>3. calls' \in Seq(CallTypes) /\ \A c \in DOMAIN calls' : Answer(calls'[c].rows)
  BY <1>1, <1>2, CallsTyped, CallPosted DEF PageInv
<1>4. PageTypes' /\ IngestRests'
  BY <1>1, <1>3 DEF PageInv, PageTypes, IngestRests
<1>5. HistoryFits'
  BY <1>1, <1>3, AnswersKept DEF PageInv, HistoryFits, QueryFirst, Pending
<1> QED
  BY <1>1, <1>4, <1>5, PageKept DEF PageInv

LEMMA NotifyPage ==
    ASSUME IInv, PageInv, NotifyFrame
    PROVE  PageInv'
<1>1. /\ UNCHANGED <<worker, model, log, made, jobs, store, writer, lost, latest>>
      /\ calls # <<>> /\ calls' = Tail(calls)
      /\ gui.at = "idle" /\ gui'.at \in {"idle", "snapshot"}
      /\ gui'.at = "snapshot" => Running
  BY DEF NotifyFrame, Dispatch, history, IInv, DeliveryTypes
<1> QED
  BY <1>1, CallTaken, CallsMove DEF Running

LEMMA QuitPage ==
    ASSUME IInv, PageInv, Quit
    PROVE  PageInv'
<1>1. /\ UNCHANGED <<gui, model, log, made, jobs, store, writer, lost, latest>>
      /\ calls' = <<>> /\ gui.at = "idle" /\ ~Running'
  BY DEF Quit, UserMay, history, Running, IInv, DeliveryTypes
<1>2. calls' \in Seq(CallTypes) /\ DOMAIN calls' = {}
  BY <1>1, EmptySeq
<1> QED
  BY <1>1, <1>2, CallsMove

(* notifyFrame hands an event to the writer; the query stays ahead or is gone.*)
LEMMA EnqueuePage ==
    ASSUME IInv, PageInv, NotifyEnqueue
    PROVE  PageInv'
<1> DEFINE s == Head(gui.todo).serial
<1>1. /\ UNCHANGED <<worker, model, log, made, store, writer, latest, calls>>
      /\ gui.at = "enqueue" /\ gui'.at = "enqueue" /\ gui.todo # <<>>
      /\ \/ UNCHANGED jobs /\ lost' = lost \cup {s}
         \/ jobs' = Queued(jobs, s) /\ lost' = lost \cup Overflowed(jobs)
  BY DEF NotifyEnqueue, IInv, DeliveryTypes
<1>2. s \in Nat \ {0}
  <2>1. gui.todo \in Seq(Event) /\ gui.todo # <<>>
    BY <1>1 DEF IInv, DeliveryTypes
  <2>2. 1 \in DOMAIN gui.todo /\ Head(gui.todo) = gui.todo[1]
    BY <2>1, EmptySeq, LenProperties
  <2>3. gui.todo[1].serial \in 1..made /\ made \in Nat
    BY <2>2 DEF IInv, DeliveryTypes, LogFits, InOrder
  <2> QED
    BY <2>2, <2>3
<1> HIDE DEF s
<1>3. jobs \in Seq(Nat) /\ Len(jobs) <= WriterCapacity /\ Len(jobs) \in Nat /\ DOMAIN jobs = 1..Len(jobs)
  BY LenProperties DEF IInv, DeliveryTypes
<1>4. Overflowed(jobs) \subseteq Nat
  <2>1. CASE Len(jobs) >= WriterCapacity
    <3>1. Len(jobs) > 0
      BY <1>3, <2>1, CapacitiesAssumption
    <3>2. Head(jobs) = jobs[1] /\ jobs[1] \in Nat
      BY <1>3, <3>1, ElementOfSeq
    <3>3. Overflowed(jobs) = Events(<<jobs[1]>>)
      BY <2>1, <3>2 DEF Overflowed
    <3>4. ToSet(<<jobs[1]>>) = {jobs[1]}
      BY DEF ToSet
    <3> QED
      BY <3>2, <3>3, <3>4 DEF Events
  <2>2. CASE ~(Len(jobs) >= WriterCapacity)
    BY <2>2 DEF Overflowed
  <2> QED
    BY <2>1, <2>2
<1>5. ASSUME NEW i \in DOMAIN jobs', jobs'[i] = Query
      PROVE  i = 1 /\ i \in DOMAIN jobs /\ jobs[i] = Query
  <2>1. CASE UNCHANGED jobs
    BY <1>5, <2>1 DEF PageInv, HistoryFits, QueryFirst
  <2>2. CASE jobs' = Queued(jobs, s)
    <3>1. /\ DOMAIN jobs' = 1..(Len(jobs) + 1 - Over(jobs))
          /\ jobs'[i] = IF i + Over(jobs) = Len(jobs) + 1 THEN s ELSE jobs[i + Over(jobs)]
      BY <1>2, <1>3, <2>2, QueuedKeeps
    <3>2. Over(jobs) \in {0, 1}
      BY DEF Over
    <3>3. i + Over(jobs) \in 1..Len(jobs) /\ jobs[i + Over(jobs)] = Query
      BY <1>2, <1>3, <1>5, <3>1, <3>2
    <3>4. i + Over(jobs) = 1
      BY <1>3, <3>3 DEF PageInv, HistoryFits, QueryFirst
    <3>5. i = 1 /\ Over(jobs) = 0
      BY <1>3, <3>1, <3>2, <3>4
    <3> QED
      BY <1>3, <3>3, <3>5
  <2> QED
    BY <1>1, <2>1, <2>2
<1>6. QueryFirst' /\ (Pending' => Pending)
  BY <1>1, <1>5 DEF PageInv, HistoryFits, QueryFirst, Pending
<1>7. HistoryFits'
  BY <1>1, <1>6, AnswersKept DEF PageInv, HistoryFits
<1>8. PageTypes' /\ IngestRests'
  BY <1>1, <1>2, <1>4 DEF PageInv, PageTypes, IngestRests, Running
<1> QED
  BY <1>1, <1>7, <1>8, PageKept DEF PageInv, Running

LEMMA OtherThreadsPage ==
    ASSUME IInv, PageInv,
           \/ WorkerPublish \/ StopCamera \/ NotifySnapshot \/ NotifySkip
           \/ \E m \in Modes : SetMode(m)
    PROVE  PageInv'
<1>1. /\ UNCHANGED <<model, log, made, jobs, store, writer, calls, lost>>
      /\ latest' = latest \/ latest' \in {"picture", "blank"}
      /\ gui'.at = gui.at \/ (gui.at = "snapshot" /\ gui'.at = "enqueue")
      /\ Running' => Running
      /\ ~Running' => gui.at = "idle" \/ ~Running
  BY DEF WorkerPublish, StopCamera, NotifySnapshot, NotifySkip, SetMode, UserMay, history,
         Running, IInv, DeliveryTypes
<1>2. latest' \in {"none", "picture", "blank"} /\ lost' \subseteq Nat
  BY <1>1 DEF PageInv, PageTypes
<1>3. gui.at # "idle" => Running
  BY DEF PageInv, IngestRests
<1> QED
  BY <1>1, <1>2, <1>3, QuietPage

(* ingest begins: its copy of the log.                                        *)
LEMMA EmitPage ==
    ASSUME IInv, PageInv, NotifyEmit
    PROVE  PageInv'
<1>1. /\ UNCHANGED <<worker, latest, calls, log, made, jobs, store, writer, lost>>
      /\ gui.at = "enqueue" /\ gui'.at = "ingest"
      /\ model' = [model EXCEPT !.todo = log, !.newMax = model.cursor]
      /\ log \in Seq(Event)
  BY DEF NotifyEmit, history, IInv, DeliveryTypes
<1>2. /\ model'.rows = model.rows /\ model'.loaded = model.loaded /\ model'.todo = log
      /\ model'.live = model.live /\ model'.newMax = model.cursor /\ model'.cursor = model.cursor
      /\ model.todo = <<>> /\ model.live = <<>> /\ Running /\ Running'
      /\ model.cursor \in Nat
  BY <1>1 DEF PageInv, PageTypes, IngestRests, Running
<1>3. DOMAIN model.live = {}
  BY <1>2, EmptySeq
<1>4. PageTypes'
  BY <1>1 DEF PageInv, PageTypes
<1>5. IngestRests' /\ RowsDiffer'
  BY <1>1, <1>2 DEF PageInv, IngestRests, RowsDiffer, Made
<1>6. InOrder(log) /\ \A i, k \in DOMAIN log : log[i].serial = log[k].serial => i = k
  <2>1. InOrder(log) /\ made \in Nat
    BY DEF IInv, LogFits, DeliveryTypes
  <2>2. DOMAIN log = 1..Len(log) /\ Len(log) \in Nat
    BY <1>1, LenProperties
  <2>3. ASSUME NEW i \in DOMAIN log, NEW k \in DOMAIN log, log[i].serial = log[k].serial, i # k
        PROVE  FALSE
    <3>1. log[i].serial \in 1..made /\ log[k].serial \in 1..made
      BY <2>1 DEF InOrder
    <3>2. i < k \/ k < i
      BY <2>2, <2>3
    <3>3. log[i].serial < log[k].serial \/ log[k].serial < log[i].serial
      BY <2>1, <3>2 DEF InOrder
    <3> QED
      BY <2>1, <2>3, <3>1, <3>3
  <2> QED
    BY <2>1, <2>3
<1>7. IngestInOrder'
  BY <1>1, <1>2, <1>3, <1>6 DEF IngestInOrder, InOrder
<1>8. CursorCovers'
  BY <1>1, <1>2, <1>3 DEF PageInv, CursorCovers
<1>9. \A serial : Older(serial) => Older(serial)'
  BY <1>1, <1>2 DEF Older
<1>10. HistoryFits'
  BY <1>1, <1>2, <1>9 DEF PageInv, HistoryFits, QueryFirst, Pending, Answer, AllOlder, Increasing
<1> QED
  BY <1>4, <1>5, <1>7, <1>8, <1>10 DEF PageInv

(* An event the cursor does not cover is collected.                           *)
LEMMA TurnPage ==
    ASSUME IInv, PageInv, IngestTurn
    PROVE  PageInv'
<1> DEFINE e == Head(model.todo)
<1>1. /\ UNCHANGED <<worker, latest, calls, log, made, jobs, store, writer, lost, gui>>
      /\ gui.at = "ingest" /\ model.todo # <<>>
      /\ \/ /\ e.id > model.cursor
            /\ model' = [model EXCEPT !.todo = Tail(@), !.live = Append(@, e.serial),
                                      !.newMax = IF e.id > @ THEN e.id ELSE @]
         \/ model' = [model EXCEPT !.todo = Tail(@)]
  BY DEF IngestTurn, history
<1>2. /\ model.todo \in Seq(Event) /\ model.live \in Seq(Nat) /\ model.rows \in Seq(Nat)
      /\ model.cursor \in Nat /\ model.newMax \in Nat
  BY DEF PageInv, PageTypes
<1>3. /\ 1 \in DOMAIN model.todo /\ e = model.todo[1] /\ e \in Event
      /\ Tail(model.todo) \in Seq(Event)
      /\ \A k \in DOMAIN Tail(model.todo) : /\ k + 1 \in DOMAIN model.todo
                                            /\ Tail(model.todo)[k] = model.todo[k + 1]
                                            /\ e.serial < model.todo[k + 1].serial
      /\ InOrder(Tail(model.todo))
  BY <1>1, <1>2, HeadTaken DEF PageInv, IngestInOrder
<1>4. e.serial \in Nat /\ e.id \in Nat /\ e.serial \in 1..made
  BY <1>3 DEF Event, PageInv, IngestInOrder, InOrder
<1> HIDE DEF e
<1>5. /\ model'.rows = model.rows /\ model'.loaded = model.loaded /\ model'.cursor = model.cursor
      /\ model'.todo = Tail(model.todo)
  BY <1>1 DEF PageInv, PageTypes
<1>6. /\ model'.newMax \in Nat /\ model'.live \in Seq(Nat)
      /\ model'.newMax >= model.newMax
      /\ \A i \in DOMAIN model'.live :
            \/ i \in DOMAIN model.live /\ model'.live[i] = model.live[i]
            \/ /\ model'.live[i] = e.serial /\ e.id > model.cursor /\ e.id <= model'.newMax
               /\ \A j \in DOMAIN model.live : j < i
               /\ \A j \in DOMAIN model'.live : j <= i
  <2>1. CASE model' = [model EXCEPT !.todo = Tail(@)]
    BY <1>2, <2>1 DEF PageInv, PageTypes
  <2>2. CASE /\ e.id > model.cursor
             /\ model' = [model EXCEPT !.todo = Tail(@), !.live = Append(@, e.serial),
                                       !.newMax = IF e.id > @ THEN e.id ELSE @]
    <3>1. /\ model'.live = Append(model.live, e.serial)
          /\ model'.newMax = IF e.id > model.newMax THEN e.id ELSE model.newMax
      BY <2>2 DEF PageInv, PageTypes
    <3>2. /\ model'.live \in Seq(Nat) /\ Len(model'.live) = Len(model.live) + 1
          /\ \A i \in 1..Len(model.live) : model'.live[i] = model.live[i]
          /\ model'.live[Len(model.live) + 1] = e.serial
      BY <1>2, <1>4, <3>1, AppendProperties
    <3>3. /\ Len(model.live) \in Nat /\ DOMAIN model.live = 1..Len(model.live)
          /\ DOMAIN model'.live = 1..(Len(model.live) + 1)
      BY <1>2, <3>2, LenProperties
    <3>4. model'.newMax \in Nat /\ model'.newMax >= model.newMax /\ e.id <= model'.newMax
      BY <1>2, <1>4, <3>1
    <3>5. ASSUME NEW i \in DOMAIN model'.live, i \notin DOMAIN model.live
          PROVE  /\ i = Len(model.live) + 1
                 /\ \A j \in DOMAIN model.live : j < i
                 /\ \A j \in DOMAIN model'.live : j <= i
      BY <3>3, <3>5
    <3> QED
      BY <2>2, <3>2, <3>3, <3>4, <3>5
  <2> QED
    BY <1>1, <2>1, <2>2
<1>7. PageTypes' /\ IngestRests'
  <2>1. model' \in [cursor : Nat, rows : Seq(Nat), loaded : BOOLEAN,
                    todo : Seq(Event), live : Seq(Nat), newMax : Nat]
    <3>1. \/ model' = [model EXCEPT !.todo = model'.todo, !.live = model'.live, !.newMax = model'.newMax]
          \/ model' = [model EXCEPT !.todo = model'.todo]
      BY <1>1 DEF PageInv, PageTypes
    <3> QED
      BY <1>3, <1>5, <1>6, <3>1 DEF PageInv, PageTypes
  <2> QED
    BY <1>1, <2>1 DEF PageInv, PageTypes, IngestRests, Running
<1>8. \A i \in DOMAIN model.live : model.live[i] < e.serial /\ model.live[i] \in 1..made
  BY <1>3 DEF PageInv, IngestInOrder, RowsDiffer, Made
<1>9. \A i \in DOMAIN model'.live : model'.live[i] \in 1..made
  BY <1>4, <1>6, <1>8
<1>10. Increasing(model'.live)
  <2> SUFFICES ASSUME NEW i \in DOMAIN model'.live, NEW j \in DOMAIN model'.live, i < j
               PROVE  model'.live[i] < model'.live[j]
    BY DEF Increasing
  <2>1. DOMAIN model'.live \subseteq Nat
    BY <1>6, LenProperties
  <2>2. i \in DOMAIN model.live /\ model'.live[i] = model.live[i]
    BY <1>6, <2>1
  <2>3. CASE j \in DOMAIN model.live /\ model'.live[j] = model.live[j]
    BY <2>2, <2>3 DEF PageInv, RowsDiffer, Increasing
  <2>4. CASE model'.live[j] = e.serial
    BY <1>8, <2>2, <2>4
  <2> QED
    BY <1>6, <2>3, <2>4
<1>11. \A i \in DOMAIN model'.live, j \in DOMAIN model.rows : model'.live[i] # model.rows[j]
  <2> SUFFICES ASSUME NEW i \in DOMAIN model'.live, NEW j \in DOMAIN model.rows
               PROVE  model'.live[i] # model.rows[j]
    OBVIOUS
  <2>1. CASE i \in DOMAIN model.live /\ model'.live[i] = model.live[i]
    BY <2>1 DEF PageInv, RowsDiffer
  <2>2. CASE model'.live[i] = e.serial /\ e.id > model.cursor
    <3>1. e.serial = model.rows[j] => e.id <= model.cursor
      BY <1>3 DEF PageInv, CursorCovers
    <3> QED
      BY <1>2, <1>4, <2>2, <3>1
  <2> QED
    BY <1>6, <2>1, <2>2
<1>12. RowsDiffer'
  BY <1>1, <1>5, <1>9, <1>10, <1>11 DEF PageInv, RowsDiffer, Made, Increasing
<1>13. IngestInOrder'
  <2>1. ASSUME NEW k \in DOMAIN model'.todo, NEW i \in DOMAIN model'.live
        PROVE  model'.live[i] < model'.todo[k].serial
    <3>1. k + 1 \in DOMAIN model.todo /\ model'.todo[k] = model.todo[k + 1]
          /\ e.serial < model'.todo[k].serial
      BY <1>3, <1>5
    <3> QED
      BY <1>6, <3>1 DEF PageInv, IngestInOrder
  <2>2. InOrder(model.todo)'
    BY <1>1, <1>3, <1>5 DEF InOrder
  <2> QED
    BY <1>1, <1>3, <1>5, <2>1, <2>2 DEF PageInv, IngestInOrder, InOrder
<1>14. CursorCovers'
  <2>1. ASSUME NEW i \in DOMAIN log, NEW j \in DOMAIN model'.live, log[i].serial = model'.live[j]
        PROVE  log[i].id <= model'.newMax
    <3>1. log[i].id \in Nat
      <4>1. log \in Seq(Event)
        BY DEF IInv, DeliveryTypes
      <4>2. log[i] \in Event
        BY <4>1, LenProperties, ElementOfSeq
      <4> QED
        BY <4>2 DEF Event
    <3>2. CASE j \in DOMAIN model.live /\ model'.live[j] = model.live[j]
      <4>1. log[i].id <= model.newMax
        BY <2>1, <3>2 DEF PageInv, CursorCovers
      <4> QED
        BY <1>2, <1>6, <3>1, <4>1
    <3>3. CASE model'.live[j] = e.serial /\ e.id <= model'.newMax
      <4>1. log[i].id = e.id
        BY <1>3, <2>1, <3>3 DEF PageInv, IngestInOrder
      <4> QED
        BY <3>3, <4>1
    <3> QED
      BY <1>6, <3>2, <3>3
  <2>2. model'.cursor <= model'.newMax
    <3>1. model.cursor <= model.newMax
      BY <1>1 DEF PageInv, CursorCovers
    <3> QED
      BY <1>2, <1>5, <1>6, <3>1
  <2>3. \A k \in DOMAIN model'.todo : k + 1 \in DOMAIN model.todo /\ model'.todo[k] = model.todo[k + 1]
    BY <1>3, <1>5
  <2> QED
    BY <1>1, <1>5, <2>1, <2>2, <2>3 DEF PageInv, CursorCovers, Running
<1>15. \A serial : Older(serial) => Older(serial)'
  <2> SUFFICES ASSUME NEW serial, Older(serial)
               PROVE  Older(serial)'
    OBVIOUS
  <2>1. \A i \in DOMAIN model'.todo : serial < model'.todo[i].serial
    BY <1>3, <1>5 DEF Older
  <2>2. \A i \in DOMAIN model'.live : serial < model'.live[i]
    BY <1>3, <1>6 DEF Older
  <2> QED
    BY <1>1, <1>5, <2>1, <2>2 DEF Older
<1>16. HistoryFits'
  BY <1>1, <1>5, <1>15 DEF PageInv, HistoryFits, QueryFirst, Pending, Answer, AllOlder, Increasing
<1> QED
  BY <1>7, <1>12, <1>13, <1>14, <1>16 DEF PageInv

(* Rows are appended to rows.                                                 *)
Joined(t, r, s) == /\ t \in Seq(Nat)
                   /\ \A i \in DOMAIN t :
                         \/ i \in DOMAIN r /\ t[i] = r[i]
                         \/ i \notin DOMAIN r /\ i - Len(r) \in DOMAIN s /\ t[i] = s[i - Len(r)]
Differ(r) == \A i, j \in DOMAIN r : r[i] = r[j] => i = j
LEMMA RowsAppended ==
    ASSUME NEW r \in Seq(Nat), NEW s \in Seq(Nat)
    PROVE  Joined(r \o s, r, s)
<1> DEFINE t == r \o s
<1>1. /\ t \in Seq(Nat) /\ Len(t) = Len(r) + Len(s)
      /\ \A i \in 1..Len(t) : t[i] = IF i <= Len(r) THEN r[i] ELSE s[i - Len(r)]
  BY ConcatProperties
<1>2. /\ Len(r) \in Nat /\ Len(s) \in Nat
      /\ DOMAIN r = 1..Len(r) /\ DOMAIN s = 1..Len(s) /\ DOMAIN t = 1..Len(t)
  BY <1>1, LenProperties
<1> HIDE DEF t
<1>3. ASSUME NEW i \in DOMAIN t
      PROVE  \/ i \in DOMAIN r /\ t[i] = r[i]
             \/ i \notin DOMAIN r /\ i - Len(r) \in DOMAIN s /\ t[i] = s[i - Len(r)]
  <2>1. i \in 1..(Len(r) + Len(s))
    BY <1>1, <1>2
  <2>2. CASE i <= Len(r)
    BY <1>1, <1>2, <2>1, <2>2
  <2>3. CASE ~(i <= Len(r))
    BY <1>1, <1>2, <2>1, <2>3
  <2> QED
    BY <2>2, <2>3
<1>4. Joined(t, r, s)
  BY <1>1, <1>3 DEF Joined
<1> QED
  BY <1>4 DEF t

LEMMA RowsStayDifferent ==
    ASSUME NEW r \in Seq(Nat), NEW s \in Seq(Nat), Increasing(s), Differ(r),
           \A i \in DOMAIN s, j \in DOMAIN r : s[i] # r[j]
    PROVE  Differ(r \o s)
<1> DEFINE t == r \o s
<1>1. /\ t \in Seq(Nat)
      /\ \A i \in DOMAIN t :
            \/ i \in DOMAIN r /\ t[i] = r[i]
            \/ i \notin DOMAIN r /\ i - Len(r) \in DOMAIN s /\ t[i] = s[i - Len(r)]
  <2>1. Joined(t, r, s)
    BY RowsAppended
  <2> QED
    BY <2>1 DEF Joined
<1>2. /\ DOMAIN s = 1..Len(s) /\ \A k \in DOMAIN s : s[k] \in Nat
      /\ Len(s) \in Nat /\ Len(r) \in Nat
  BY LenProperties, ElementOfSeq
<1>3. t \in Seq(Nat) /\ DOMAIN t = 1..Len(t) /\ Len(t) \in Nat
  BY <1>1, LenProperties
<1> HIDE DEF t
<1>4. ASSUME NEW k \in DOMAIN s, NEW l \in DOMAIN s, s[k] = s[l]
      PROVE  k = l
  <2>1. ~(k < l) /\ ~(l < k)
    <3>1. k < l => s[k] < s[l]
      BY DEF Increasing
    <3>2. l < k => s[l] < s[k]
      BY DEF Increasing
    <3>3. s[k] \in Nat /\ s[l] \in Nat
      BY <1>2
    <3> QED
      BY <1>4, <3>1, <3>2, <3>3
  <2> QED
    BY <1>2, <2>1
<1>5. ASSUME NEW i \in DOMAIN t, NEW j \in DOMAIN t, t[i] = t[j]
      PROVE  i = j
  <2>1. CASE i \in DOMAIN r /\ t[i] = r[i] /\ j \in DOMAIN r /\ t[j] = r[j]
    BY <1>5, <2>1 DEF Differ
  <2>2. CASE /\ i - Len(r) \in DOMAIN s /\ t[i] = s[i - Len(r)]
             /\ j - Len(r) \in DOMAIN s /\ t[j] = s[j - Len(r)]
    <3>1. i - Len(r) = j - Len(r)
      BY <1>4, <1>5, <2>2
    <3> QED
      BY <1>2, <1>3, <3>1
  <2> QED
    BY <1>1, <1>5, <2>1, <2>2
<1> QED
  BY <1>5 DEF Differ, t

(* What was collected is on the page, and the cursor has passed it.           *)
LEMMA EndPageTurns ==
    ASSUME IInv, PageInv, IngestEnd
    PROVE  PageInv'
<1>1. /\ UNCHANGED <<worker, latest, calls, log, made, jobs, store, writer, lost>>
      /\ gui.at = "ingest" /\ gui'.at = "idle" /\ model.todo = <<>>
      /\ model' = [model EXCEPT !.rows = @ \o model.live, !.cursor = model.newMax,
                                !.live = <<>>, !.newMax = 0]
  BY DEF IngestEnd, history, IInv, DeliveryTypes
<1>2. /\ model.live \in Seq(Nat) /\ model.rows \in Seq(Nat)
      /\ model.cursor \in Nat /\ model.newMax \in Nat /\ model.cursor <= model.newMax
      /\ Running /\ Running'
  BY <1>1 DEF PageInv, PageTypes, CursorCovers, IngestRests, Running
<1>3. /\ model'.rows = model.rows \o model.live /\ model'.cursor = model.newMax
      /\ model'.live = <<>> /\ model'.todo = <<>> /\ model'.newMax = 0
      /\ model'.loaded = model.loaded
  BY <1>1 DEF PageInv, PageTypes
<1>4. DOMAIN model'.live = {} /\ DOMAIN model'.todo = {} /\ model'.live \in Seq(Nat)
  BY <1>3, EmptySeq
<1> DEFINE n == Len(model.rows)
<1> DEFINE rows == model.rows \o model.live
<1>12. /\ rows \in Seq(Nat)
       /\ \A i \in DOMAIN rows : \/ i \in DOMAIN model.rows /\ rows[i] = model.rows[i]
                                 \/ i - n \in DOMAIN model.live /\ rows[i] = model.live[i - n]
       /\ \A i, j \in DOMAIN rows : rows[i] = rows[j] => i = j
  <2>1. model.rows \in Seq(Nat) /\ model.live \in Seq(Nat)
    BY <1>2
  <2>2. Joined(rows, model.rows, model.live)
    BY <2>1, RowsAppended
  <2>3. /\ Increasing(model.live) /\ Differ(model.rows)
        /\ \A i \in DOMAIN model.live, j \in DOMAIN model.rows : model.live[i] # model.rows[j]
    BY DEF PageInv, RowsDiffer, Differ
  <2>5. Differ(rows)
    BY <2>1, <2>3, RowsStayDifferent
  <2> QED
    BY <2>2, <2>5 DEF Joined, Differ
<1> HIDE DEF rows
<1>5. /\ model'.rows = rows /\ model'.rows \in Seq(Nat)
      /\ \A i \in DOMAIN model'.rows :
            \/ i \in DOMAIN model.rows /\ model'.rows[i] = model.rows[i]
            \/ i - n \in DOMAIN model.live /\ model'.rows[i] = model.live[i - n]
  <2>1. model'.rows = rows
    BY <1>3 DEF rows
  <2> QED
    BY <1>12, <2>1
<1> HIDE DEF n
<1>6. PageTypes' /\ IngestRests'
  <2>1. model' \in [cursor : Nat, rows : Seq(Nat), loaded : BOOLEAN,
                    todo : Seq(Event), live : Seq(Nat), newMax : Nat]
    <3> DEFINE Models == [cursor : Nat, rows : Seq(Nat), loaded : BOOLEAN,
                          todo : Seq(Event), live : Seq(Nat), newMax : Nat]
               half == [model EXCEPT !.rows = rows, !.cursor = model.newMax]
    <3>1. model \in Models /\ model.newMax \in Nat /\ rows \in Seq(Nat) /\ <<>> \in Seq(Nat)
      BY <1>2, <1>5, EmptySeq DEF PageInv, PageTypes
    <3>2. half \in Models
      BY <3>1
    <3>3. model' = [half EXCEPT !.live = <<>>, !.newMax = 0]
      BY <1>1 DEF rows
    <3> HIDE DEF half
    <3> QED
      BY <3>1, <3>2, <3>3
  <2> QED
    BY <1>1, <1>3, <2>1 DEF PageInv, PageTypes, IngestRests
<1>7. RowsDiffer'
  <2>1. \A i, j \in DOMAIN model'.rows : model'.rows[i] = model'.rows[j] => i = j
    BY <1>5, <1>12
  <2>2. \A i \in DOMAIN model'.rows : model'.rows[i] \in 1..made
    BY <1>5 DEF PageInv, RowsDiffer, Made
  <2> QED
    BY <1>1, <1>4, <2>1, <2>2 DEF RowsDiffer, Made, Increasing
<1>8. IngestInOrder'
  BY <1>4 DEF IngestInOrder, InOrder
<1>9. CursorCovers'
  <2>1. ASSUME NEW i \in DOMAIN log, NEW j \in DOMAIN model'.rows, log[i].serial = model'.rows[j]
        PROVE  log[i].id <= model.newMax
    <3>1. log[i].id \in Nat
      <4>1. log \in Seq(Event)
        BY DEF IInv, DeliveryTypes
      <4>2. log[i] \in Event
        BY <4>1, LenProperties, ElementOfSeq
      <4> QED
        BY <4>2 DEF Event
    <3>2. CASE j \in DOMAIN model.rows /\ model'.rows[j] = model.rows[j]
      <4>1. log[i].id <= model.cursor
        BY <1>2, <2>1, <3>2 DEF PageInv, CursorCovers
      <4> QED
        BY <1>2, <3>1, <4>1
    <3>3. CASE j - n \in DOMAIN model.live /\ model'.rows[j] = model.live[j - n]
      BY <2>1, <3>3 DEF PageInv, CursorCovers
    <3> QED
      BY <1>5, <3>2, <3>3
  <2> QED
    BY <1>1, <1>3, <1>4, <2>1 DEF CursorCovers
<1>10. \A serial : Older(serial) => Older(serial)'
  <2> SUFFICES ASSUME NEW serial, Older(serial)
               PROVE  Older(serial)'
    OBVIOUS
  <2>1. \A i \in DOMAIN model'.rows : serial < model'.rows[i]
    BY <1>5 DEF Older
  <2> QED
    BY <1>1, <1>4, <2>1 DEF Older
<1>11. HistoryFits'
  BY <1>1, <1>3, <1>10 DEF PageInv, HistoryFits, QueryFirst, Pending, Answer, AllOlder, Increasing
<1> QED
  BY <1>6, <1>7, <1>8, <1>9, <1>11 DEF PageInv

(* The answer of the query comes; it is older than all that is on the page.   *)
LEMMA HistoryPage ==
    ASSUME IInv, PageInv, HistoryArrives
    PROVE  PageInv'
<1> DEFINE r == Head(calls).rows
<1>1. /\ UNCHANGED <<worker, latest, log, made, jobs, store, writer, lost, gui>>
      /\ calls # <<>> /\ calls' = Tail(calls) /\ gui.at = "idle"
      /\ model' = IF model.loaded \/ r = <<>> THEN model
                  ELSE [model EXCEPT !.rows = @ \o r, !.loaded = TRUE]
  BY DEF HistoryArrives, Dispatch, history
<1>2. /\ calls' \in Seq(CallTypes)
      /\ \A c \in DOMAIN calls' : Answer(calls'[c].rows)
      /\ 1 \in DOMAIN calls /\ r = calls[1].rows /\ r \in Seq(Nat)
  BY <1>1, CallTaken DEF CallTypes
<1>3. Answer(r)
  BY <1>2 DEF PageInv, HistoryFits
<1>4. Running' => Running
  BY <1>1 DEF Running
<1> HIDE DEF r
<1>5. CASE model' = model
  BY <1>1, <1>2, <1>4, <1>5, CallsMove
<1>6. CASE ~model.loaded /\ model' = [model EXCEPT !.rows = @ \o r, !.loaded = TRUE]
  <2>1. /\ model'.rows = model.rows \o r /\ model'.cursor = model.cursor
        /\ model'.live = <<>> /\ model'.todo = <<>> /\ model'.newMax = model.newMax
        /\ model'.loaded = TRUE /\ model.rows \in Seq(Nat)
    BY <1>1, <1>6 DEF PageInv, PageTypes, IngestRests
  <2>2. DOMAIN model'.live = {} /\ DOMAIN model'.todo = {}
    BY <2>1, EmptySeq
  <2> DEFINE n == Len(model.rows)
  <2>4. Increasing(r) /\ AllOlder(r)
    BY <1>3, <1>6 DEF Answer
  <2> DEFINE rows == model.rows \o r
  <2>10. /\ rows \in Seq(Nat)
         /\ \A i \in DOMAIN rows : \/ i \in DOMAIN model.rows /\ rows[i] = model.rows[i]
                                   \/ i - n \in DOMAIN r /\ rows[i] = r[i - n]
         /\ \A i, j \in DOMAIN rows : rows[i] = rows[j] => i = j
    <3>1. model.rows \in Seq(Nat) /\ r \in Seq(Nat)
      BY <1>2, <2>1
    <3>2. Joined(rows, model.rows, r)
      BY <3>1, RowsAppended
    <3>3. ASSUME NEW i \in DOMAIN r, NEW j \in DOMAIN model.rows
          PROVE  r[i] # model.rows[j]
      <4>1. r[i] < model.rows[j] /\ r[i] \in Nat /\ model.rows[j] \in Nat
        BY <1>2, <2>1, <2>4, LenProperties, ElementOfSeq DEF AllOlder, Older
      <4> QED
        BY <4>1
    <3>4. Differ(model.rows)
      BY DEF PageInv, RowsDiffer, Differ
    <3>5. Differ(rows)
      BY <2>4, <3>1, <3>3, <3>4, RowsStayDifferent
    <3> QED
      BY <3>2, <3>5 DEF Joined, Differ
  <2> HIDE DEF n, rows
  <2>3. /\ model'.rows = rows /\ model'.rows \in Seq(Nat)
        /\ \A i \in DOMAIN model'.rows :
              \/ i \in DOMAIN model.rows /\ model'.rows[i] = model.rows[i]
              \/ i - n \in DOMAIN r /\ model'.rows[i] = r[i - n]
    <3>1. model'.rows = rows
      BY <2>1 DEF rows
    <3> QED
      BY <2>10, <3>1
  <2>5. PageTypes' /\ IngestRests'
    <3>1. model' \in [cursor : Nat, rows : Seq(Nat), loaded : BOOLEAN,
                      todo : Seq(Event), live : Seq(Nat), newMax : Nat]
      <4>1. model' = [model EXCEPT !.rows = model'.rows, !.loaded = TRUE]
        BY <1>6, <2>1
      <4> QED
        BY <2>3, <4>1 DEF PageInv, PageTypes
    <3> QED
      BY <1>1, <1>2, <2>1, <3>1 DEF PageInv, PageTypes, IngestRests, Running
  <2>6. RowsDiffer'
    <3>2. \A i, j \in DOMAIN model'.rows : model'.rows[i] = model'.rows[j] => i = j
      BY <2>3, <2>10
    <3>3. \A i \in DOMAIN model'.rows : model'.rows[i] \in 1..made
      BY <2>3, <2>4 DEF PageInv, RowsDiffer, Made, AllOlder, Older
    <3> QED
      BY <1>1, <2>2, <3>2, <3>3 DEF RowsDiffer, Made, Increasing
  <2>7. IngestInOrder'
    BY <2>2 DEF IngestInOrder, InOrder
  <2>8. CursorCovers'
    <3>1. ASSUME Running, NEW i \in DOMAIN log, NEW j \in DOMAIN model'.rows,
                 log[i].serial = model'.rows[j]
          PROVE  log[i].id <= model.cursor
      <4>1. CASE j \in DOMAIN model.rows /\ model'.rows[j] = model.rows[j]
        BY <3>1, <4>1 DEF PageInv, CursorCovers
      <4>2. CASE j - n \in DOMAIN r /\ model'.rows[j] = r[j - n]
        <5>1. r[j - n] < log[i].serial /\ r[j - n] \in 1..made
          BY <2>4, <4>2 DEF AllOlder, Older
        <5>2. made \in Nat
          BY DEF IInv, DeliveryTypes
        <5> QED
          BY <3>1, <4>2, <5>1, <5>2
      <4> QED
        BY <2>3, <4>1, <4>2
    <3> QED
      BY <1>1, <1>4, <2>1, <2>2, <3>1 DEF CursorCovers
  <2>9. HistoryFits'
    <3>1. \A seq : Answer(seq) => Answer(seq)'
      BY <2>1 DEF Answer, Increasing
    <3>2. QueryFirst'
      BY <1>1 DEF PageInv, HistoryFits, QueryFirst
    <3>3. Answer(writer.rows)'
      BY <1>1, <2>1 DEF PageInv, HistoryFits, Answer, Increasing
    <3>4. ASSUME NEW c \in DOMAIN calls'
          PROVE  Increasing(calls'[c].rows)
      BY <1>2, <3>4 DEF Answer
    <3>5. \A c \in DOMAIN calls' : Answer(calls[c].rows)'
      BY <2>1, <3>4 DEF Answer, Increasing
    <3> QED
      BY <2>1, <3>2, <3>3, <3>5 DEF HistoryFits
  <2> QED
    BY <2>5, <2>6, <2>7, <2>8, <2>9 DEF PageInv
<1> QED
  BY <1>1, <1>5, <1>6

(* The writer thread leaves the page alone but for the answer it posts.       *)
LEMMA WriterPage ==
    ASSUME IInv, PageInv, UNCHANGED <<worker, log, latest, gui, model, made>>,
           lost' \subseteq Nat, calls' \in Seq(CallTypes),
           \A c \in DOMAIN calls' : Answer(calls'[c].rows), Answer(writer'.rows),
           QueryFirst', Pending' => Pending /\ UNCHANGED store
    PROVE  PageInv'
<1>1. PageTypes' /\ IngestRests'
  BY DEF PageInv, PageTypes, IngestRests, Running
<1>2. HistoryFits'
  <2>1. Pending' /\ ~model.loaded => AllOlder(store')
    BY DEF PageInv, HistoryFits
  <2> QED
    BY <2>1, AnswersKept
<1>3. Running' => Running
  BY DEF Running
<1> QED
  BY <1>1, <1>2, <1>3, PageKept DEF PageInv

LEMMA TakePage ==
    ASSUME IInv, PageInv, WriterTake
    PROVE  PageInv'
<1>1. /\ UNCHANGED <<worker, log, latest, gui, model, made, store, lost, calls>>
      /\ writer.at = "idle" /\ jobs # <<>> /\ jobs' = Tail(jobs)
      /\ writer' = [at |-> "busy", job |-> Head(jobs), rows |-> <<>>]
  BY IdleWriterIs DEF WriterTake, history
<1>2. jobs \in Seq(Nat) /\ Len(jobs) \in Nat \ {0} /\ DOMAIN jobs = 1..Len(jobs)
  BY <1>1, EmptySeq, LenProperties DEF IInv, DeliveryTypes
<1>3. /\ Head(jobs) = jobs[1] /\ 1 \in DOMAIN jobs
      /\ \A i \in DOMAIN jobs' : jobs'[i] = jobs[i + 1] /\ i + 1 \in DOMAIN jobs /\ i + 1 # 1
  <2>1. /\ jobs' \in Seq(Nat) /\ Len(jobs') = Len(jobs) - 1
        /\ \A i \in 1..Len(jobs') : jobs'[i] = jobs[i + 1]
    BY <1>1, <1>2, HeadTailProperties
  <2>2. DOMAIN jobs' = 1..(Len(jobs) - 1)
    BY <2>1, LenProperties
  <2> QED
    BY <1>2, <2>1, <2>2
<1>4. \A i \in DOMAIN jobs' : jobs'[i] # Query
  BY <1>3 DEF PageInv, HistoryFits, QueryFirst
<1>5. QueryFirst'
  BY <1>4 DEF QueryFirst
<1>6. Pending' => Pending /\ UNCHANGED store
  BY <1>1, <1>3, <1>4 DEF Pending
<1>7. Answer(writer'.rows)
  BY <1>1, EmptyAnswer
<1> QED
  BY <1>1, <1>5, <1>6, <1>7, WriterPage DEF PageInv, PageTypes, HistoryFits

(* While the writer is at work no query waits behind it.                      *)
LEMMA NoneWaits ==
    ASSUME PageInv, writer.at # "idle", UNCHANGED jobs
    PROVE  /\ QueryFirst'
           /\ writer'.at # "busy" => ~Pending'
BY DEF PageInv, HistoryFits, QueryFirst, Pending

LEMMA InsertPage ==
    ASSUME IInv, PageInv, WriterInsert \/ WriterInsertFails \/ WriterPrune \/ WriterPruneFails
    PROVE  PageInv'
<1>1. /\ UNCHANGED <<worker, log, latest, gui, model, made, calls, jobs>>
      /\ writer.at # "idle"
      /\ \E at \in {"idle", "pruning"} : writer' = [at |-> at, job |-> 0, rows |-> <<>>]
      /\ \/ lost' = lost
         \/ lost' = lost \cup {writer.job}
         \/ lost' = lost \cup (ToSet(store) \ ToSet(store'))
  BY IdleWriterIs, PruningWriterIs
     DEF WriterInsert, WriterInsertFails, WriterPrune, WriterPruneFails, history
<1>2. store \in Seq(Nat) /\ writer.job \in Nat
  BY DEF IInv, DeliveryTypes
<1>3. ToSet(store) \subseteq Nat
  BY <1>2, LenProperties, ElementOfSeq DEF ToSet
<1>4. lost' \subseteq Nat
  BY <1>1, <1>2, <1>3 DEF PageInv, PageTypes
<1>5. writer'.rows = <<>> /\ writer'.at # "busy"
  BY <1>1
<1>6. Answer(writer'.rows)
  BY <1>5, EmptyAnswer
<1>7. QueryFirst' /\ ~Pending'
  BY <1>1, <1>5, NoneWaits
<1> QED
  BY <1>1, <1>4, <1>6, <1>7, WriterPage DEF PageInv, PageTypes, HistoryFits

(* The SELECT finds rows of earlier processes only.                           *)
LEMMA QueryPage ==
    ASSUME IInv, PageInv, WriterQuery
    PROVE  PageInv'
<1>1. /\ UNCHANGED <<worker, log, latest, gui, model, made, calls, jobs, store, lost>>
      /\ writer.at = "busy" /\ writer.job = Query
      /\ \/ /\ writer'.at = "posting"
            /\ writer'.rows = Oldest(store, HistoryLimit) \/ writer'.rows = <<>>
         \/ writer' = [at |-> "idle", job |-> 0, rows |-> <<>>]
  <2>1. writer \in [at : WriterPlaces, job : Nat, rows : Seq(Nat)]
    BY DEF IInv, DeliveryTypes
  <2> QED
    BY <2>1, IdleWriterIs DEF WriterQuery, history
<1>2. Increasing(store) /\ (~model.loaded => AllOlder(store))
  BY <1>1 DEF IInv, StoreFits, StoreInOrder, Increasing, PageInv, HistoryFits, Pending
<1>3. Answer(Oldest(store, HistoryLimit))
  <2>1. store \in Seq(Nat) /\ HistoryLimit \in Nat
    BY CapacitiesAssumption DEF IInv, DeliveryTypes
  <2>2. CASE Len(store) <= HistoryLimit
    BY <1>2, <2>2 DEF Oldest, Answer
  <2>3. CASE ~(Len(store) <= HistoryLimit)
    <3> DEFINE t == SubSeq(store, 1, HistoryLimit)
    <3>1. Len(store) \in Nat /\ DOMAIN store = 1..Len(store)
      BY <2>1, LenProperties
    <3>2. /\ t \in Seq(Nat) /\ Len(t) = HistoryLimit
          /\ \A i \in 1..HistoryLimit : t[i] = store[i]
      <4>1. \A i \in 1..HistoryLimit : store[i] \in Nat
        BY <2>1, <2>3, <3>1, ElementOfSeq
      <4>2. /\ t \in Seq(Nat)
            /\ Len(t) = IF 1 <= HistoryLimit THEN HistoryLimit - 1 + 1 ELSE 0
            /\ \A i \in 1..(HistoryLimit - 1 + 1) : t[i] = store[1 + i - 1]
        BY <2>1, <4>1, SubSeqProperties
      <4> HIDE DEF t
      <4> QED
        BY <2>1, <4>2
    <3> HIDE DEF t
    <3>3. \A i \in DOMAIN t : i \in DOMAIN store /\ t[i] = store[i]
      BY <2>1, <2>3, <3>1, <3>2, LenProperties
    <3>4. Oldest(store, HistoryLimit) = t
      BY <2>3 DEF Oldest, t
    <3> QED
      BY <1>2, <3>3, <3>4 DEF Answer, Increasing, AllOlder
  <2> QED
    BY <2>2, <2>3
<1>4. Answer(writer'.rows)
  BY <1>1, <1>3, EmptyAnswer
<1>5. QueryFirst' /\ ~Pending'
  BY <1>1, NoneWaits
<1> QED
  BY <1>1, <1>4, <1>5, WriterPage DEF PageInv, PageTypes, HistoryFits

LEMMA PostPage ==
    ASSUME IInv, PageInv, WriterPost
    PROVE  PageInv'
<1>1. /\ UNCHANGED <<worker, log, latest, gui, model, made, jobs, store, lost>>
      /\ writer.at = "posting" /\ writer' = [at |-> "idle", job |-> 0, rows |-> <<>>]
      /\ calls' = Append(calls, History(writer.rows)) \/ UNCHANGED calls
  BY IdleWriterIs DEF WriterPost, history
<1>2. History(writer.rows) \in CallTypes /\ History(writer.rows).rows = writer.rows
  <2>1. writer.rows \in Seq(Nat)
    BY DEF IInv, DeliveryTypes
  <2> QED
    BY <2>1, CallsTyped DEF PageInv, History
<1>3. calls' \in Seq(CallTypes) /\ \A c \in DOMAIN calls' : Answer(calls'[c].rows)
  <2>1. CASE UNCHANGED calls
    BY <2>1 DEF PageInv, PageTypes, HistoryFits
  <2>2. CASE calls' = Append(calls, History(writer.rows))
    BY <1>2, <2>2, CallPosted DEF PageInv, HistoryFits
  <2> QED
    BY <1>1, <2>1, <2>2
<1>4. QueryFirst' /\ ~Pending'
  BY <1>1, NoneWaits
<1>5. Answer(writer'.rows)
  BY <1>1, EmptyAnswer
<1> QED
  BY <1>1, <1>3, <1>4, <1>5, WriterPage DEF PageInv, PageTypes

(* While there is no process nothing is left in its memory.                   *)
Forgotten == app = "down" => /\ worker = IdleWorker /\ log = <<>> /\ latest = "none"
                             /\ calls = <<>> /\ model = EmptyModel

LEMMA ForgottenKept ==
    ASSUME IInv, Forgotten, [Next]_vars
    PROVE  Forgotten'
<1>1. CASE app = "down"
  <2>1. /\ worker.at = "none" /\ gui.at = "idle" /\ writer.at = "off"
        /\ log = <<>> /\ calls = <<>> /\ model = EmptyModel /\ latest = "none"
    BY <1>1 DEF Forgotten, IdleWorker, IInv, AtRest
  <2>2. app' = "up" \/ UNCHANGED <<app, worker, log, latest, calls, model>>
    BY <1>1, <2>1 DEF Next, vars, User, Gui, Writer, WorkerEvaluate, WorkerPublish, WorkerAnnounce,
          UserMay, StartCamera, StartCameraFails, StopCamera, SetMode, Dispatch, NotifyFrame,
          NotifySnapshot, NotifySkip, NotifyEnqueue, NotifyEmit, IngestTurn, IngestEnd,
          HistoryArrives, WriterTake, WriterInsert, WriterInsertFails, WriterPrune,
          WriterPruneFails, WriterQuery, WriterPost,
          Quit, QuitEnds, Crash, Launch
  <2> QED
    BY <1>1, <2>2 DEF Forgotten
<1>2. CASE app # "down"
  <2>1. app' # "down" \/ MemoryGone
    BY <1>2 DEF Next, vars, User, Gui, Writer, WorkerEvaluate, WorkerPublish, WorkerAnnounce,
          StartCamera, StartCameraFails, StopCamera, SetMode, NotifyFrame,
          NotifySnapshot, NotifySkip, NotifyEnqueue, NotifyEmit, IngestTurn, IngestEnd,
          HistoryArrives, WriterTake, WriterInsert, WriterInsertFails, WriterPrune,
          WriterPruneFails, WriterQuery, WriterPost,
          Quit, QuitEnds, Crash, Launch
  <2> QED
    BY <2>1 DEF Forgotten, MemoryGone
<1> QED
  BY <1>1, <1>2

LEMMA EmptyModelIs ==
    /\ EmptyModel \in [cursor : Nat, rows : Seq(Nat), loaded : BOOLEAN,
                       todo : Seq(Event), live : Seq(Nat), newMax : Nat]
    /\ DOMAIN EmptyModel.rows = {} /\ DOMAIN EmptyModel.live = {} /\ DOMAIN EmptyModel.todo = {}
    /\ EmptyModel.live = <<>> /\ EmptyModel.todo = <<>>
<1>1. <<>> \in Seq(Nat) /\ <<>> \in Seq(Event) /\ DOMAIN <<>> = {}
  BY EmptySeq
<1> QED
  BY <1>1 DEF EmptyModel

(* A page without rows, of a process that has nothing in its log.             *)
LEMMA EmptyPage ==
    ASSUME model' = EmptyModel, log' = <<>>, calls' = <<>>, latest' \in {"none", "picture", "blank"},
           gui'.at = "idle", lost' \subseteq Nat,
           writer'.rows = <<>>, QueryFirst',
           \A i \in DOMAIN store' : store'[i] \in 1..made'
    PROVE  PageInv'
<1>1. Len(<<>>) = 0 /\ DOMAIN <<>> = {} /\ <<>> \in Seq(CallTypes)
  BY EmptySeq
<1>2. 0 <= LogCapacity
  BY CapacitiesAssumption
<1>3. /\ PageTypes' /\ IngestRests' /\ RowsDiffer' /\ IngestInOrder' /\ CursorCovers'
  BY <1>1, <1>2, EmptyModelIs DEF PageTypes, IngestRests, RowsDiffer, Made, Increasing,
     IngestInOrder, InOrder, CursorCovers
<1>4. AllOlder(store)'
  BY <1>1, EmptyModelIs DEF AllOlder, Older
<1>5. Answer(writer.rows)'
  BY <1>1 DEF Answer, AllOlder, Increasing
<1>6. HistoryFits'
  BY <1>1, <1>4, <1>5 DEF HistoryFits
<1> QED
  BY <1>3, <1>6 DEF PageInv

LEMMA GonePage ==
    ASSUME IInv, PageInv, QuitEnds \/ Crash
    PROVE  PageInv'
<1>1. /\ MemoryGone /\ UNCHANGED <<store, made>>
      /\ \/ lost' = lost
         \/ lost' = lost \cup Events(jobs) \cup Events(<<writer.job>>)
  BY DEF QuitEnds, Crash, history
<1>2. lost' \subseteq Nat
  <2>1. jobs \in Seq(Nat) /\ writer.job \in Nat
    BY DEF IInv, DeliveryTypes
  <2>2. ToSet(jobs) \subseteq Nat /\ ToSet(<<writer.job>>) \subseteq Nat
    BY <2>1, LenProperties, ElementOfSeq DEF ToSet
  <2> QED
    BY <1>1, <2>2 DEF Events, PageInv, PageTypes
<1>3. \A i \in DOMAIN store : store[i] \in 1..made
  BY DEF IInv, StoreFits, StoreInOrder, DeliveryTypes
<1>4. DOMAIN <<>> = {}
  BY EmptySeq
<1>5. jobs' = <<>> /\ writer'.rows = <<>> /\ gui'.at = "idle"
  BY <1>1 DEF MemoryGone, NoWriter, IdleGui
<1>6. QueryFirst'
  BY <1>4, <1>5 DEF QueryFirst
<1> QED
  BY <1>1, <1>2, <1>3, <1>5, <1>6, EmptyPage DEF MemoryGone, PageInv, PageTypes

(* The first thing a new process queues is the query.                         *)
LEMMA FirstJobsQueryFirst ==
    ASSUME NEW w \in Writers
    PROVE  /\ w.rows = <<>>
           /\ \A i \in DOMAIN FirstJobs(w) : i = 1 /\ w.at = "idle"
<1>1. DOMAIN <<>> = {} /\ DOMAIN <<Query>> = {1}
  BY EmptySeq
<1>2. CASE w = NoWriter
  BY <1>1, <1>2 DEF NoWriter, FirstJobs
<1>3. CASE w = [at |-> "idle", job |-> 0, rows |-> <<>>]
  BY <1>1, <1>3 DEF FirstJobs
<1> QED
  BY <1>2, <1>3, IdleWriterIs DEF Writers

LEMMA LaunchPage ==
    ASSUME IInv, PageInv, Forgotten, Launch
    PROVE  PageInv'
<1>1. /\ app = "down" /\ UNCHANGED <<log, latest, calls, gui, model, store, made, lost>>
      /\ writer' \in Writers /\ jobs' = FirstJobs(writer')
  BY DEF Launch, history
<1>2. log = <<>> /\ calls = <<>> /\ model = EmptyModel /\ gui.at = "idle"
  BY <1>1 DEF Forgotten, IInv, AtRest
<1>3. writer'.rows = <<>> /\ QueryFirst'
  BY <1>1, FirstJobsQueryFirst DEF QueryFirst
<1>4. \A i \in DOMAIN store : store[i] \in 1..made
  BY DEF IInv, StoreFits, StoreInOrder, DeliveryTypes
<1> QED
  BY <1>1, <1>2, <1>3, <1>4, EmptyPage DEF PageInv, PageTypes

LEMMA InitPage == Init => PageInv /\ Forgotten
<1> SUFFICES ASSUME Init
             PROVE  PageInv /\ Forgotten
  OBVIOUS
<1>1. /\ app = "up" /\ model = EmptyModel /\ log = <<>> /\ calls = <<>> /\ latest = "none"
      /\ gui.at = "idle" /\ store = <<>> /\ lost = {}
      /\ writer \in Writers /\ jobs = FirstJobs(writer)
  BY DEF Init, IdleGui
<1>2. Len(<<>>) = 0 /\ DOMAIN <<>> = {} /\ <<>> \in Seq(CallTypes)
  BY EmptySeq
<1>3. 0 <= LogCapacity
  BY CapacitiesAssumption
<1>4. /\ PageTypes /\ IngestRests /\ RowsDiffer /\ IngestInOrder /\ CursorCovers
  BY <1>1, <1>2, <1>3, EmptyModelIs DEF PageTypes, IngestRests, RowsDiffer, Made, Increasing,
     IngestInOrder, InOrder, CursorCovers
<1>5. writer.rows = <<>> /\ QueryFirst
  BY <1>1, FirstJobsQueryFirst DEF QueryFirst
<1>6. AllOlder(store) /\ Answer(writer.rows)
  BY <1>1, <1>2, <1>5 DEF AllOlder, Answer, Increasing
<1>7. HistoryFits
  BY <1>1, <1>2, <1>5, <1>6 DEF HistoryFits
<1> QED
  BY <1>1, <1>4, <1>7 DEF PageInv, Forgotten

LEMMA StepsKeepPage == IInv /\ PageInv /\ Forgotten /\ [Next]_vars => PageInv'
<1> SUFFICES ASSUME IInv, PageInv, Forgotten, [Next]_vars
             PROVE  PageInv'
  OBVIOUS
<1>1. CASE UNCHANGED vars
  <2>1. UNCHANGED <<model, log, made, jobs, store, writer, calls, latest, lost, gui, worker>>
    BY <1>1 DEF vars, history
  <2>2. Running' = Running
    BY <2>1 DEF Running
  <2> QED
    BY <2>1, <2>2, QuietPage DEF PageInv, PageTypes, IngestRests
<1>2. CASE \E n \in 0..MaxBatch : WorkerEvaluate(n)
  BY <1>2, EvaluatePage
<1>3. CASE WorkerAnnounce
  BY <1>3, AnnouncePage
<1>4. CASE StartCamera \/ StartCameraFails
  BY <1>4, StartPage
<1>5. CASE \/ WorkerPublish \/ StopCamera \/ NotifySnapshot \/ NotifySkip
           \/ \E m \in Modes : SetMode(m)
  BY <1>5, OtherThreadsPage
<1>6. CASE NotifyFrame \/ HistoryArrives
  BY <1>6, NotifyPage, HistoryPage
<1>7. CASE NotifyEnqueue
  BY <1>7, EnqueuePage
<1>8. CASE NotifyEmit \/ IngestTurn \/ IngestEnd
  BY <1>8, EmitPage, TurnPage, EndPageTurns
<1>9. CASE Writer
  BY <1>9, TakePage, InsertPage, QueryPage, PostPage DEF Writer
<1>10. CASE Quit
  BY <1>10, QuitPage
<1>11. CASE QuitEnds \/ Crash
  BY <1>11, GonePage
<1>12. CASE Launch
  BY <1>12, LaunchPage
<1> QED
  BY <1>1, <1>2, <1>3, <1>4, <1>5, <1>6, <1>7, <1>8, <1>9, <1>10, <1>11, <1>12 DEF Next, User, Gui

(* The invariant of the event page is kept, by whatever order the three       *)
(* threads, the user, a crash and a restart come in.                          *)
THEOREM PageInvariance == Spec => [](IInv /\ RetentionInv /\ PageInv /\ Forgotten)
<1>1. Init => IInv /\ RetentionInv /\ PageInv /\ Forgotten
  BY InitEstablishes, InitRetains, InitPage
<1>2. IInv /\ RetentionInv /\ PageInv /\ Forgotten /\ [Next]_vars
      => (IInv /\ RetentionInv /\ PageInv /\ Forgotten)'
  BY StepsKeepInvariant, StepsRetain, StepsKeepPage, ForgottenKept
<1> QED
  BY <1>1, <1>2, PTL DEF Spec

(* EventModel shows no event twice, live rows and history together, for any   *)
(* number of sessions whose ids start at 1 again, and whenever the answer of  *)
(* the query comes.                                                           *)
THEOREM NoRowTwice == Spec => []ShownOnce
<1>1. PageInv => ShownOnce
  BY DEF PageInv, RowsDiffer, ShownOnce, IsInjective
<1> QED
  BY <1>1, PageInvariance, PTL

(* All variables have their types: in particular the log and the writer's     *)
(* queue are never longer than their capacities (EventLog::push, BoundedQueue)*)
THEOREM TypeCorrect == Spec => []TypeOK
<1>1. IInv /\ RetentionInv /\ PageInv => TypeOK
  <2> SUFFICES ASSUME IInv, RetentionInv, PageInv
               PROVE  TypeOK
    OBVIOUS
  <2>1. worker \in [at : {"none", "loop", "publish", "announce"}, lastMode : Modes \cup {NoMode},
                    nextId : Nat, switched : BOOLEAN]
    <3>1. worker \in [at : {"none", "loop", "publish", "announce"}, lastMode : Modes \cup {NoMode},
                      nextId : Nat \ {0}, switched : BOOLEAN]
      BY DEF IInv, DeliveryTypes
    <3> QED
      BY <3>1
  <2>2. handed \subseteq Nat
    BY DEF IInv, DeliveryTypes
  <2> QED
    BY <2>1, <2>2 DEF TypeOK, IInv, DeliveryTypes, RetentionInv, PageInv, PageTypes, CallTypes
<1> QED
  BY <1>1, PageInvariance, PTL
=============================================================================
