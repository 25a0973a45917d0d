--------------------------- MODULE AnalyticsProofs ---------------------------
(* Theorems about ByteTrack for every set of classes, every configuration of  *)
(* the tracker and every number of detections and frames, and about           *)
(* TrackRules for every set of tracks and foot points, every line, region and *)
(* threshold, with their proofs.                                              *)
EXTENDS ByteTrack, TrackRules, CountingLemmas, SequenceTheorems

(* ---- the tracker ---- *)

(* What holds of a live track t after the update for frame f: its type, and   *)
(* the agreement of its counters with its state and with the frame.           *)
Counters(t, f) ==
    /\ t \in Track
    /\ t.hits >= 1
    /\ t.state = "Lost" <=> t.timeSinceUpdate > 0
    /\ t.state = "Tentative" <=> t.hits < MinHits
    /\ t.state = "Tentative" => t.age = t.hits
    /\ t.hits + t.timeSinceUpdate <= t.age
    /\ t.timeSinceUpdate <= MaxLostFrames
    /\ t.timeSinceUpdate = f - t.lastSeen
    /\ t.age = f - t.firstSeen + 1

(* A sample changes nothing but the trajectory.                               *)
LEMMA SampleKeepsCounters ==
    ASSUME NEW t, NEW f \in Nat, Counters(t, f)
    PROVE  /\ Counters(Sampled(t, f), f)
           /\ Sampled(t, f).state = t.state
           /\ Sampled(t, f).class = t.class
           /\ Sampled(t, f).age = t.age
           /\ Sampled(t, f).hits = t.hits
<1> DEFINE all == Append(t.trajectory, f)
           excess == IF Len(all) > MaxTrajectoryPoints
                     THEN Len(all) - MaxTrajectoryPoints ELSE 0
           samples == SubSeq(all, excess + 1, Len(all))
<1>1. t.trajectory \in Seq(Nat)
  BY DEF Counters, Track
<1>2. all \in Seq(Nat)
  BY <1>1
<1>3. Len(all) \in Nat /\ excess \in Nat
  BY <1>2, TrackerAssumption
<1>4. samples \in Seq(Nat)
  BY <1>2, <1>3
<1>5. Sampled(t, f) = [t EXCEPT !.trajectory = samples]
  BY DEF Sampled
<1> HIDE DEF samples
<1>6. /\ Sampled(t, f) \in Track
      /\ Sampled(t, f).hits = t.hits
      /\ Sampled(t, f).age = t.age
      /\ Sampled(t, f).state = t.state
      /\ Sampled(t, f).class = t.class
      /\ Sampled(t, f).timeSinceUpdate = t.timeSinceUpdate
      /\ Sampled(t, f).firstSeen = t.firstSeen
      /\ Sampled(t, f).lastSeen = t.lastSeen
  BY <1>4, <1>5 DEF Counters, Track
<1> QED
  BY <1>6 DEF Counters

(* A match keeps the agreement: the misses end, and the track is confirmed    *)
(* with its MinHits-th match or was before.                                   *)
LEMMA HitKeepsCounters ==
    ASSUME NEW t, NEW f \in Nat, Counters(t, f)
    PROVE  Counters(Hit(t, f + 1), f + 1)
<1> DEFINE u == Hit(t, f + 1)
<1>1. /\ t.age \in Nat /\ t.hits \in Nat /\ t.timeSinceUpdate \in Nat
      /\ t.firstSeen \in Nat /\ t.lastSeen \in Nat /\ t.state \in States
  BY DEF Counters, Track
<1>2. StateOnHit(t.hits + 1, t.state) \in States
  BY <1>1 DEF StateOnHit, States
<1>3. /\ u \in Track
      /\ u.age = t.age + 1
      /\ u.hits = t.hits + 1
      /\ u.timeSinceUpdate = 0
      /\ u.lastSeen = f + 1
      /\ u.firstSeen = t.firstSeen
      /\ u.state = StateOnHit(t.hits + 1, t.state)
  <2>1. t \in Track /\ t.age + 1 \in Nat /\ t.hits + 1 \in Nat /\ f + 1 \in Nat
    BY <1>1 DEF Counters
  <2> QED
    BY <1>2, <2>1 DEF Hit, Track
<1> HIDE DEF u
<1>4. /\ u.state # "Lost"
      /\ u.state = "Tentative" <=> u.hits < MinHits
      /\ u.state = "Tentative" => t.state = "Tentative"
  BY <1>1, <1>3, TrackerAssumption DEF Counters, StateOnHit, States
<1>5. Counters(u, f + 1)
  BY <1>1, <1>3, <1>4, TrackerAssumption DEF Counters
<1> QED
  BY <1>5 DEF u

(* A miss keeps it unless the track is dropped.                               *)
LEMMA MissKeepsCounters ==
    ASSUME NEW t, NEW f \in Nat, Counters(t, f), ~Expires(t)
    PROVE  Counters(Missed(t), f + 1)
<1> DEFINE u == Missed(t)
<1>1. /\ t.age \in Nat /\ t.hits \in Nat /\ t.timeSinceUpdate \in Nat
      /\ t.firstSeen \in Nat /\ t.lastSeen \in Nat /\ t.state \in States
  BY DEF Counters, Track
<1>2. /\ u \in Track
      /\ u.age = t.age + 1
      /\ u.hits = t.hits
      /\ u.timeSinceUpdate = t.timeSinceUpdate + 1
      /\ u.lastSeen = t.lastSeen
      /\ u.firstSeen = t.firstSeen
      /\ u.state = "Lost"
  <2>1. t \in Track /\ t.age + 1 \in Nat /\ t.timeSinceUpdate + 1 \in Nat
    BY <1>1 DEF Counters
  <2> QED
    BY <2>1 DEF Missed, Track, States
<1> HIDE DEF u
<1>3. ~(t.hits < MinHits) /\ t.timeSinceUpdate + 1 <= MaxLostFrames
  BY <1>1, TrackerAssumption DEF Counters, Expires
<1>4. Counters(u, f + 1)
  BY <1>1, <1>2, <1>3, TrackerAssumption DEF Counters
<1> QED
  BY <1>4 DEF u

(* A new track starts with it.                                                *)
LEMMA FreshHasCounters ==
    ASSUME NEW class \in Classes, NEW f \in Nat
    PROVE  Counters(Fresh(class, f), f)
<1> DEFINE u == Fresh(class, f)
<1>1. StateOnHit(1, "Tentative") \in {"Tentative", "Confirmed"}
  BY DEF StateOnHit
<1>2. <<>> \in Seq(Nat)
  OBVIOUS
<1>3. /\ u \in Track
      /\ u.age = 1
      /\ u.hits = 1
      /\ u.timeSinceUpdate = 0
      /\ u.lastSeen = f
      /\ u.firstSeen = f
      /\ u.state = StateOnHit(1, "Tentative")
  BY <1>1, <1>2 DEF Fresh, Track, States
<1> HIDE DEF u
<1>4. Counters(u, f)
  BY <1>1, <1>3, TrackerAssumption DEF Counters, StateOnHit
<1> QED
  BY <1>4 DEF u

(* The trajectory of a track of age a holds the newest frames up to f.        *)
Continuous(s, a, f) ==
    /\ s \in Seq(Nat)
    /\ Len(s) = Least(a, MaxTrajectoryPoints)
    /\ \A i \in 1..Len(s) : s[i] = f - Len(s) + i

(* Appending the next frame and giving up what exceeds the bound keeps it so. *)
LEMMA SampleKeepsContinuous ==
    ASSUME NEW t, NEW a \in Nat, NEW f \in Nat, t \in Track,
           Continuous(t.trajectory, a, f)
    PROVE  Continuous(Sampled(t, f + 1).trajectory, a + 1, f + 1)
<1> DEFINE s == t.trajectory
           M == MaxTrajectoryPoints
           all == Append(s, f + 1)
           excess == IF Len(all) > M THEN Len(all) - M ELSE 0
           r == SubSeq(all, excess + 1, Len(all))
<1>1. s \in Seq(Nat) /\ M \in Nat /\ Len(s) \in Nat
  BY TrackerAssumption DEF Continuous
<1>2. Sampled(t, f + 1).trajectory = r
  BY DEF Sampled, Track
<1>3. all \in Seq(Nat) /\ Len(all) = Len(s) + 1
  BY <1>1
<1>4. \A i \in 1..Len(all) : all[i] = f + 1 - Len(all) + i
  <2>1. \A i \in 1..Len(s) : all[i] = s[i]
    BY <1>1
  <2>2. all[Len(s) + 1] = f + 1
    BY <1>1
  <2>3. \A i \in 1..Len(s) : s[i] = f - Len(s) + i
    BY DEF Continuous
  <2> HIDE DEF all, s
  <2> SUFFICES ASSUME NEW i \in 1..Len(all) PROVE all[i] = f + 1 - Len(all) + i
    OBVIOUS
  <2>4. CASE i = Len(s) + 1
    BY <1>1, <1>3, <2>2, <2>4
  <2>5. CASE i \in 1..Len(s)
    <3>1. all[i] = f - Len(s) + i
      BY <2>1, <2>3, <2>5
    <3> QED
      BY <1>1, <1>3, <3>1, <2>5
  <2> QED
    BY <1>1, <1>3, <2>4, <2>5
<1>5. Len(s) = Least(a, M)
  BY DEF Continuous
<1> HIDE DEF all, s
<1>6. excess \in Nat /\ Len(all) - excess = Least(a + 1, M)
  BY <1>1, <1>3, <1>5 DEF Least
<1>7. Least(a + 1, M) \in Nat
  BY <1>1 DEF Least
<1> HIDE DEF excess
<1>8. /\ r \in Seq(Nat)
      /\ Len(r) = Len(all) - excess
      /\ \A i \in 1..Len(r) : r[i] = all[excess + i]
  <2>1. PICK n \in Nat : n = Len(all)
    BY <1>1, <1>3
  <2>2. PICK k \in Nat : k = excess /\ k <= n
    BY <1>6, <1>7, <2>1
  <2>3. \A i \in (k + 1)..n : all[i] \in Nat
    BY <1>3, <2>1
  <2>4. /\ SubSeq(all, k + 1, n) \in Seq(Nat)
        /\ Len(SubSeq(all, k + 1, n)) = IF k + 1 <= n THEN n - (k + 1) + 1 ELSE 0
        /\ \A i \in 1..(n - (k + 1) + 1) : SubSeq(all, k + 1, n)[i] = all[k + 1 + i - 1]
    BY <2>3, SubSeqProperties
  <2>5. r = SubSeq(all, k + 1, n)
    BY <2>1, <2>2
  <2>6. Len(r) = n - k
    BY <2>2, <2>4, <2>5
  <2>7. ASSUME NEW i \in 1..Len(r)
        PROVE  r[i] = all[k + i]
    <3>1. i \in 1..(n - (k + 1) + 1) /\ k + 1 + i - 1 = k + i
      BY <2>2, <2>6, <2>7
    <3> HIDE DEF r
    <3> QED
      BY <2>4, <2>5, <3>1
  <2> HIDE DEF r
  <2> QED
    BY <2>1, <2>2, <2>4, <2>5, <2>6, <2>7
<1> HIDE DEF r
<1>9. \A i \in 1..Len(r) : r[i] = f + 1 - Len(r) + i
  <2> SUFFICES ASSUME NEW i \in 1..Len(r) PROVE r[i] = f + 1 - Len(r) + i
    OBVIOUS
  <2>1. Len(all) \in Nat /\ Len(r) \in Nat
    BY <1>1, <1>3, <1>6, <1>7, <1>8
  <2>2. excess + i \in 1..Len(all)
    BY <1>6, <1>8, <2>1
  <2>3. r[i] = f + 1 - Len(all) + (excess + i)
    BY <1>4, <1>8, <2>2
  <2>4. PICK n \in Nat : n = Len(all)
    BY <2>1
  <2>5. Len(r) = n - excess
    BY <1>8, <2>4
  <2> QED
    BY <1>1, <1>6, <2>3, <2>4, <2>5
<1>10. Continuous(r, a + 1, f + 1)
  BY <1>6, <1>8, <1>9 DEF Continuous
<1> QED
  BY <1>2, <1>10

Agrees(t, f) == Counters(t, f) /\ Continuous(t.trajectory, t.age, f)
ConfirmedAt == IF MinHits <= 1 THEN 1 ELSE MinHits
Shows(t) == t.state # "Tentative"

(* One frame in the life of a matched track: it stays of its class and stays  *)
(* shown, and it is first shown with its ConfirmedAt-th match in a row.       *)
LEMMA HitStep ==
    ASSUME NEW t, NEW f \in Nat, Agrees(t, f),
           NEW w, w = Sampled(Hit(t, f + 1), f + 1)
    PROVE  /\ Agrees(w, f + 1)
           /\ w.class = t.class
           /\ Shows(t) => Shows(w)
           /\ ~Shows(t) /\ Shows(w) => w.age = w.hits /\ w.hits = ConfirmedAt
<1> DEFINE u == Hit(t, f + 1)
<1>1. Counters(u, f + 1)
  BY HitKeepsCounters DEF Agrees
<1>2. t \in Track /\ t.age \in Nat /\ t.hits \in Nat /\ t.state \in States
  BY DEF Agrees, Counters, Track
<1>3. /\ u \in Track
      /\ u.trajectory = t.trajectory
      /\ u.class = t.class
      /\ u.age = t.age + 1
      /\ u.hits = t.hits + 1
      /\ u.state = StateOnHit(t.hits + 1, t.state)
  <2>1. u \in Track
    BY <1>1 DEF Counters
  <2> QED
    BY <1>2, <2>1 DEF Hit, Track
<1> HIDE DEF u
<1>4. /\ Counters(w, f + 1)
      /\ w.state = u.state /\ w.class = u.class /\ w.age = u.age /\ w.hits = u.hits
  BY <1>1, SampleKeepsCounters DEF u
<1>5. Continuous(w.trajectory, w.age, f + 1)
  <2>1. Continuous(u.trajectory, t.age, f)
    BY <1>3 DEF Agrees
  <2>2. Continuous(Sampled(u, f + 1).trajectory, t.age + 1, f + 1)
    BY <1>2, <1>3, <2>1, SampleKeepsContinuous
  <2> QED
    BY <1>3, <1>4, <2>2 DEF u
<1>6. Shows(t) => Shows(w)
  BY <1>3, <1>4 DEF Shows, StateOnHit
<1>7. ASSUME ~Shows(t), Shows(w) PROVE w.age = w.hits /\ w.hits = ConfirmedAt
  <2>1. t.age = t.hits /\ t.hits < MinHits /\ t.hits >= 1
    BY <1>7 DEF Agrees, Counters, Shows
  <2>2. t.hits + 1 >= MinHits
    BY <1>3, <1>4, <1>7 DEF Shows, StateOnHit
  <2> QED
    BY <1>2, <1>3, <1>4, <2>1, <2>2, TrackerAssumption DEF ConfirmedAt
<1> QED
  BY <1>3, <1>4, <1>5, <1>6, <1>7 DEF Agrees

(* One frame in the life of a missed track that is not dropped.               *)
LEMMA MissStep ==
    ASSUME NEW t, NEW f \in Nat, Agrees(t, f), ~Expires(t),
           NEW w, w = Sampled(Missed(t), f + 1)
    PROVE  Agrees(w, f + 1) /\ w.class = t.class /\ Shows(t) /\ Shows(w)
<1> DEFINE u == Missed(t)
<1>1. Counters(u, f + 1)
  BY MissKeepsCounters DEF Agrees
<1>2. t \in Track /\ t.age \in Nat
  BY DEF Agrees, Counters, Track
<1>3. /\ u \in Track
      /\ u.trajectory = t.trajectory
      /\ u.class = t.class
      /\ u.age = t.age + 1
      /\ u.state = "Lost"
  <2>1. u \in Track
    BY <1>1 DEF Counters
  <2> QED
    BY <1>2, <2>1 DEF Missed, Track
<1> HIDE DEF u
<1>4. /\ Counters(w, f + 1)
      /\ w.state = u.state /\ w.class = u.class /\ w.age = u.age
  BY <1>1, SampleKeepsCounters DEF u
<1>5. Continuous(w.trajectory, w.age, f + 1)
  <2>1. Continuous(u.trajectory, t.age, f)
    BY <1>3 DEF Agrees
  <2>2. Continuous(Sampled(u, f + 1).trajectory, t.age + 1, f + 1)
    BY <1>2, <1>3, <2>1, SampleKeepsContinuous
  <2> QED
    BY <1>3, <1>4, <2>2 DEF u
<1>6. Shows(t) /\ Shows(w)
  BY <1>3, <1>4 DEF Shows, Expires
<1> QED
  BY <1>3, <1>4, <1>5, <1>6 DEF Agrees

(* The first frame of a new track.                                            *)
LEMMA FreshStep ==
    ASSUME NEW class \in Classes, NEW f \in Nat,
           NEW w, w = Sampled(Fresh(class, f + 1), f + 1)
    PROVE  /\ Agrees(w, f + 1)
           /\ w.class = class
           /\ Shows(w) => w.age = w.hits /\ w.hits = ConfirmedAt
<1> DEFINE u == Fresh(class, f + 1)
<1>1. Counters(u, f + 1)
  BY FreshHasCounters
<1>2. u \in Track
  BY <1>1 DEF Counters
<1>3. /\ u.trajectory = <<>>
      /\ u.class = class
      /\ u.age = 1
      /\ u.hits = 1
      /\ u.state = StateOnHit(1, "Tentative")
  BY DEF Fresh
<1> HIDE DEF u
<1>4. /\ Counters(w, f + 1)
      /\ w.state = u.state /\ w.class = u.class /\ w.age = u.age /\ w.hits = u.hits
  BY <1>1, SampleKeepsCounters DEF u
<1>5. Continuous(w.trajectory, w.age, f + 1)
  <2>1. Continuous(u.trajectory, 0, f)
    BY <1>3, TrackerAssumption DEF Continuous, Least
  <2>2. Continuous(Sampled(u, f + 1).trajectory, 0 + 1, f + 1)
    BY <1>2, <2>1, SampleKeepsContinuous
  <2>3. Sampled(u, f + 1) = w /\ w.age = 0 + 1
    BY <1>3, <1>4 DEF u
  <2> QED
    BY <2>2, <2>3
<1>6. Shows(w) => w.age = w.hits /\ w.hits = ConfirmedAt
  BY <1>3, <1>4, TrackerAssumption DEF Shows, StateOnHit, ConfirmedAt
<1> QED
  BY <1>3, <1>4, <1>5, <1>6 DEF Agrees

(* The inductive invariant: types, every live track as above, and statistics  *)
(* that account for every id given.                                           *)
TracksAgree == \A id \in Live : Agrees(tracks[id], frame)
PublishedIsShown == published = {id \in Live : Shows(tracks[id])}
IInv == TypeOK /\ TracksAgree /\ PublishedIsShown /\ StatsAddUp

(* Update is Settle for some matched tracks and some finite set of unmatched  *)
(* detections.                                                                *)
LEMMA UpdateSettles ==
    ASSUME NEW detections \in DetectionLists, Update(detections)
    PROVE  \E hit \in SUBSET Live, fresh \in SUBSET DOMAIN detections :
              IsFiniteSet(fresh) /\ Settle(detections, hit, fresh)
<1> DEFINE high == InBand(detections, "high")
           low == InBand(detections, "low")
<1>1. PICK first \in Associations(detections, high, Live) :
        \E second \in Associations(detections, low, Live \ DOMAIN first) :
            Settle(detections, DOMAIN first \cup DOMAIN second, high \ Range(first))
  BY DEF Update
<1>2. PICK second \in Associations(detections, low, Live \ DOMAIN first) :
            Settle(detections, DOMAIN first \cup DOMAIN second, high \ Range(first))
  BY <1>1
<1>3. DOMAIN first \subseteq Live /\ DOMAIN second \subseteq Live
  BY <1>1, <1>2 DEF Associations, Injection
<1>4. high \ Range(first) \subseteq DOMAIN detections
  BY DEF InBand
<1>5. IsFiniteSet(DOMAIN detections)
  <2>1. PICK n \in 0..MaxDetections : detections \in [1..n -> Detection]
    BY DEF DetectionLists
  <2>2. IsFiniteSet(1..n)
    BY <2>1, FS_Interval, TrackerAssumption
  <2> QED
    BY <2>1, <2>2
<1>6. IsFiniteSet(high \ Range(first))
  BY <1>4, <1>5, FS_Subset
<1> HIDE DEF high, low
<1> QED
  BY <1>2, <1>3, <1>4, <1>6

(* What an update does to the tracks: some go, which expire; the others       *)
(* follow HitStep or MissStep; new ones follow the ids given so far.          *)
TracksMove(gone, k) ==
    LET new == nextId..(nextId + k - 1) IN
    /\ gone \subseteq {id \in Live : Expires(tracks[id])}
    /\ DOMAIN tracks' = (Live \ gone) \cup new
    /\ \A id \in Live \ gone :
          /\ Agrees(tracks'[id], frame + 1)
          /\ tracks'[id].class = tracks[id].class
          /\ Shows(tracks[id]) => Shows(tracks'[id])
          /\ ~Shows(tracks[id]) /\ Shows(tracks'[id]) =>
                tracks'[id].age = tracks'[id].hits /\ tracks'[id].hits = ConfirmedAt
    /\ \A id \in new :
          /\ Agrees(tracks'[id], frame + 1)
          /\ Shows(tracks'[id]) =>
                tracks'[id].age = tracks'[id].hits /\ tracks'[id].hits = ConfirmedAt
    /\ tracks' = [id \in DOMAIN tracks' |-> tracks'[id]]
    /\ nextId' = nextId + k
    /\ published' = {id \in DOMAIN tracks' : Shows(tracks'[id])}
    /\ stats' \in [activeTracks : {Cardinality(published')},
                   createdTracks : {stats.createdTracks + k},
                   lostTracks : Nat,
                   removedTracks : {stats.removedTracks + Cardinality(gone)}]
    /\ frame' = frame + 1

LEMMA SettleMoves ==
    ASSUME IInv, NEW detections \in DetectionLists,
           NEW hit \in SUBSET Live, NEW fresh \in SUBSET DOMAIN detections,
           IsFiniteSet(fresh), Settle(detections, hit, fresh)
    PROVE  \E gone \in SUBSET Live, k \in Nat : TracksMove(gone, k)
<1> DEFINE stamp == frame + 1
           k == Cardinality(fresh)
           gone == {id \in Live \ hit : Expires(tracks[id])}
           kept == Live \ gone
           new == nextId..(nextId + k - 1)
           moved(id) == IF id \in hit THEN Hit(tracks[id], stamp) ELSE Missed(tracks[id])
           lost == {id \in Live \ hit : tracks[id].state = "Confirmed"}
<1>1. PICK order \in Bijection(new, fresh) :
        /\ tracks' = [id \in kept \cup new |->
                        Sampled(IF id \in kept THEN moved(id)
                                ELSE Fresh(detections[order[id]].class, stamp), stamp)]
        /\ nextId' = nextId + k
        /\ published' = {id \in kept \cup new : tracks'[id].state # "Tentative"}
        /\ stats' = [activeTracks |-> Cardinality(published'),
                     createdTracks |-> stats.createdTracks + k,
                     lostTracks |-> stats.lostTracks + Cardinality(lost),
                     removedTracks |-> stats.removedTracks + Cardinality(gone)]
        /\ frame' = stamp
  BY DEF Settle
<1>2. k \in Nat /\ frame \in Nat /\ nextId \in Nat \ {0} /\ Live \subseteq 1..(nextId - 1)
  BY FS_CardinalityType DEF IInv, TypeOK
<1>3. kept \cap new = {}
  BY <1>2
<1>4. \A id \in new : detections[order[id]].class \in Classes
  <2>1. order \in [new -> fresh]
    BY <1>1 DEF Bijection, Injection
  <2>2. \A i \in DOMAIN detections : detections[i] \in Detection
    BY DEF DetectionLists
  <2> QED
    BY <2>1, <2>2 DEF Detection
<1>5. ASSUME NEW id \in kept
      PROVE  /\ Agrees(tracks'[id], stamp)
             /\ tracks'[id].class = tracks[id].class
             /\ Shows(tracks[id]) => Shows(tracks'[id])
             /\ ~Shows(tracks[id]) /\ Shows(tracks'[id]) =>
                   tracks'[id].age = tracks'[id].hits /\ tracks'[id].hits = ConfirmedAt
  <2>1. Agrees(tracks[id], frame)
    BY DEF IInv, TracksAgree
  <2>2. tracks'[id] = Sampled(moved(id), stamp)
    BY <1>1
  <2>3. CASE id \in hit
    <3>1. tracks'[id] = Sampled(Hit(tracks[id], frame + 1), frame + 1)
      BY <2>2, <2>3
    <3> QED
      BY <1>2, <2>1, <3>1, HitStep
  <2>4. CASE id \notin hit
    <3>1. tracks'[id] = Sampled(Missed(tracks[id]), frame + 1)
      BY <2>2, <2>4
    <3>2. ~Expires(tracks[id])
      BY <2>4
    <3> QED
      BY <1>2, <2>1, <3>1, <3>2, MissStep
  <2> QED
    BY <2>3, <2>4
<1>6. ASSUME NEW id \in new
      PROVE  /\ Agrees(tracks'[id], stamp)
             /\ Shows(tracks'[id]) =>
                   tracks'[id].age = tracks'[id].hits /\ tracks'[id].hits = ConfirmedAt
  <2>1. PICK class \in Classes : class = detections[order[id]].class
    BY <1>4
  <2>2. tracks'[id] = Sampled(Fresh(class, frame + 1), frame + 1)
    BY <1>1, <1>3, <2>1
  <2> QED
    BY <1>2, <2>2, FreshStep
<1>7. stats.lostTracks + Cardinality(lost) \in Nat
  <2>1. IsFiniteSet(Live)
    <3>1. IsFiniteSet(1..(nextId - 1))
      BY <1>2, FS_Interval
    <3> QED
      BY <1>2, <3>1, FS_Subset
  <2>2. IsFiniteSet(lost)
    BY <2>1, FS_Subset
  <2>3. Cardinality(lost) \in Nat
    BY <2>2, FS_CardinalityType
  <2>4. stats.lostTracks \in Nat
    BY DEF IInv, TypeOK, TrackerStats
  <2> QED
    BY <2>3, <2>4
<1>8. gone \subseteq {id \in Live : Expires(tracks[id])}
  OBVIOUS
<1>9. DOMAIN tracks' = kept \cup new
  BY <1>1
<1>10. tracks' = [id \in DOMAIN tracks' |-> tracks'[id]]
  BY <1>1
<1>11. published' = {id \in DOMAIN tracks' : Shows(tracks'[id])}
  BY <1>1, <1>9 DEF Shows
<1>12. TracksMove(gone, k)
  <2>1. /\ nextId' = nextId + k
        /\ frame' = frame + 1
        /\ stats' \in [activeTracks : {Cardinality(published')},
                       createdTracks : {stats.createdTracks + k},
                       lostTracks : Nat,
                       removedTracks : {stats.removedTracks + Cardinality(gone)}]
    BY <1>1, <1>7
  <2> HIDE DEF gone, k
  <2> QED
    BY <2>1, <1>5, <1>6, <1>8, <1>9, <1>10, <1>11 DEF TracksMove
<1>13. gone \in SUBSET Live
  OBVIOUS
<1> HIDE DEF gone, k
<1> QED
  BY <1>2, <1>12, <1>13

(* Such a move, a reset and the start keep or establish the invariant.         *)
LEMMA MoveKeepsInvariant ==
    ASSUME IInv, NEW gone \in SUBSET Live, NEW k \in Nat, TracksMove(gone, k)
    PROVE  IInv'
<1> DEFINE new == nextId..(nextId + k - 1)
           live == DOMAIN tracks'
<1>1. nextId \in Nat \ {0} /\ Live \subseteq 1..(nextId - 1) /\ frame \in Nat
  BY DEF IInv, TypeOK
<1>2. /\ IsFiniteSet(Live) /\ IsFiniteSet(gone)
      /\ Cardinality(Live) \in Nat /\ Cardinality(gone) \in Nat
      /\ live \subseteq 1..(nextId + k - 1)
      /\ IsFiniteSet(live)
      /\ Cardinality(live) = Cardinality(Live) - Cardinality(gone) + k
  <2>1. live = (Live \ gone) \cup new
    BY DEF TracksMove
  <2>2. Live \cap new = {} /\ live \subseteq 1..(nextId + k - 1)
    BY <1>1, <2>1
  <2>3. IsFiniteSet(1..(nextId - 1)) /\ IsFiniteSet(1..(nextId + k - 1))
    BY <1>1, FS_Interval
  <2>4. IsFiniteSet(Live) /\ IsFiniteSet(live) /\ IsFiniteSet(gone)
    BY <1>1, <2>2, <2>3, FS_Subset
  <2>5. IsFiniteSet(new) /\ Cardinality(new) = k
    <3>1. nextId \in Int /\ nextId + k - 1 \in Int
      BY <1>1
    <3>2. /\ IsFiniteSet(new)
          /\ Cardinality(new) = IF nextId > nextId + k - 1 THEN 0
                                ELSE nextId + k - 1 - nextId + 1
      BY <3>1, FS_Interval
    <3> HIDE DEF new
    <3> QED
      BY <1>1, <3>2
  <2> HIDE DEF new, live
  <2>6. Cardinality((Live \ gone) \cup new)
          = Cardinality(Live) - Cardinality(gone) + Cardinality(new)
    BY <2>2, <2>4, <2>5, LosesAndGains
  <2> QED
    BY <2>1, <2>2, <2>4, <2>5, <2>6, FS_CardinalityType
<1>3. \A id \in live : Agrees(tracks'[id], frame')
  BY DEF TracksMove
<1>4. published' \subseteq live /\ IsFiniteSet(published') /\ Cardinality(published') \in Nat
  <2>1. published' \subseteq live
    BY DEF TracksMove
  <2> QED
    BY <1>2, <2>1, FS_Subset, FS_CardinalityType
<1>5. PICK c \in Nat, r \in Nat, i \in Nat, g \in Nat :
        /\ c = stats.createdTracks /\ r = stats.removedTracks
        /\ i = Cardinality(Live) /\ g = Cardinality(gone)
        /\ c = nextId - 1 /\ c = i + r
  BY <1>2 DEF IInv, TypeOK, TrackerStats, StatsAddUp
<1>6. /\ stats'.activeTracks = Cardinality(published')
      /\ stats'.createdTracks = c + k
      /\ stats'.removedTracks = r + g
      /\ stats' \in [activeTracks : {Cardinality(published')}, createdTracks : {c + k},
                     lostTracks : Nat, removedTracks : {r + g}]
  BY <1>5 DEF TracksMove
<1>7. StatsAddUp'
  <2>1. nextId' = nextId + k
    BY DEF TracksMove
  <2>2. stats'.createdTracks = nextId' - 1
    BY <1>1, <1>5, <1>6, <2>1
  <2>3. Cardinality(live) = i - g + k
    BY <1>2, <1>5
  <2>4. stats'.createdTracks = Cardinality(live) + stats'.removedTracks
    BY <1>5, <1>6, <2>3
  <2> QED
    BY <1>6, <2>2, <2>4 DEF StatsAddUp, Live
<1>8. TypeOK'
  <2>1. nextId' \in Nat \ {0} /\ live \subseteq 1..(nextId' - 1) /\ frame' \in Nat
    BY <1>1, <1>2 DEF TracksMove
  <2>2. tracks' \in [live -> Track]
    <3>1. \A id \in live : tracks'[id] \in Track
      BY <1>3 DEF Agrees, Counters
    <3> QED
      BY <3>1 DEF TracksMove
  <2>3. stats' \in TrackerStats
    BY <1>4, <1>5, <1>6 DEF TrackerStats
  <2> QED
    BY <1>4, <2>1, <2>2, <2>3 DEF TypeOK, Live
<1>9. TracksAgree' /\ PublishedIsShown'
  BY <1>3 DEF TracksAgree, PublishedIsShown, TracksMove, Live
<1> QED
  BY <1>7, <1>8, <1>9 DEF IInv, Live

LEMMA ResetEstablishes ==
    ASSUME Reset, frame \in Nat
    PROVE  IInv'
<1>1. DOMAIN tracks' = {} /\ tracks' \in [{} -> Track]
  BY DEF Reset
<1>2. Cardinality({}) = 0
  BY FS_EmptySet
<1>3. TypeOK'
  BY <1>1 DEF Reset, TypeOK, TrackerStats, NoStats, Live
<1>4. StatsAddUp'
  BY <1>1, <1>2 DEF Reset, StatsAddUp, NoStats, Live
<1> QED
  BY <1>1, <1>3, <1>4 DEF IInv, Reset, TracksAgree, PublishedIsShown, Live

LEMMA InitEstablishes == Init => IInv
<1> SUFFICES ASSUME Init PROVE IInv
  OBVIOUS
<1>1. DOMAIN tracks = {} /\ tracks \in [{} -> Track]
  BY DEF Init
<1>2. Cardinality({}) = 0
  BY FS_EmptySet
<1>3. TypeOK
  BY <1>1 DEF Init, TypeOK, TrackerStats, NoStats, Live
<1>4. StatsAddUp
  BY <1>1, <1>2 DEF Init, StatsAddUp, NoStats, Live
<1> QED
  BY <1>1, <1>3, <1>4 DEF IInv, Init, TracksAgree, PublishedIsShown, Live

(* Every step is a move of the tracks, a reset or a stutter.                  *)
LEMMA StepsAreMoves ==
    ASSUME IInv, [Next]_vars
    PROVE  \/ \E gone \in SUBSET Live, k \in Nat : TracksMove(gone, k)
           \/ Reset
           \/ UNCHANGED vars
<1>1. ASSUME NEW detections \in DetectionLists, Update(detections)
      PROVE  \E gone \in SUBSET Live, k \in Nat : TracksMove(gone, k)
  BY <1>1, UpdateSettles, SettleMoves
<1> QED
  BY <1>1 DEF Next

(* The strengthened invariant holds in every reachable state.                 *)
THEOREM Invariance == Spec => []IInv
<1>1. IInv /\ [Next]_vars => IInv'
  <2> SUFFICES ASSUME IInv, [Next]_vars PROVE IInv'
    OBVIOUS
  <2>1. CASE \E gone \in SUBSET Live, k \in Nat : TracksMove(gone, k)
    BY <2>1, MoveKeepsInvariant
  <2>2. CASE Reset
    BY <2>2, ResetEstablishes DEF IInv, TypeOK
  <2>3. CASE UNCHANGED vars
    BY <2>3 DEF vars, IInv, TypeOK, TracksAgree, PublishedIsShown, StatsAddUp, Live
  <2> QED
    BY <2>1, <2>2, <2>3, StepsAreMoves
<1> QED
  BY <1>1, InitEstablishes, PTL DEF Spec

(* Every field stays in its range, and every id in use was given.             *)
THEOREM TypeCorrect == Spec => []TypeOK
BY Invariance, PTL DEF IInv

(* The state of every track, its counters and its time stamps tell one story. *)
THEOREM CountersAgree == Spec => []CountersAreTrue
<1>1. IInv => CountersAreTrue
  BY DEF IInv, StatsAddUp, TracksAgree, Agrees, Counters, StateMatchesCounters, CountersMatchClock,
         CountersAreTrue
<1> QED
  BY <1>1, Invariance, PTL

(* No trajectory has a gap or outgrows its bound.                             *)
THEOREM TrajectoriesComplete == Spec => []TrajectoryContinuous
<1>1. IInv => TrajectoryContinuous
  <2> SUFFICES ASSUME IInv, NEW id \in Live
               PROVE  LET t == tracks[id]
                          kept == Least(t.age, MaxTrajectoryPoints)
                      IN  /\ Len(t.trajectory) = kept
                          /\ \A i \in 1..kept : t.trajectory[i] = frame - kept + i
    BY DEF TrajectoryContinuous
  <2>1. Continuous(tracks[id].trajectory, tracks[id].age, frame)
    BY DEF IInv, TracksAgree, Agrees
  <2> QED
    BY <2>1 DEF Continuous
<1> QED
  BY <1>1, Invariance, PTL

(* The statistics account for every track that was ever created.              *)
THEOREM StatsAccount == Spec => []StatsAddUp
BY Invariance, PTL DEF IInv

(* A move of the tracks shows a track first at its confirmation, and a shown  *)
(* track that goes has been missed MaxLostFrames times.                       *)
LEMMA MoveShows ==
    ASSUME IInv, NEW gone \in SUBSET Live, NEW k \in Nat, TracksMove(gone, k)
    PROVE  /\ \A id \in published' \ published :
                tracks'[id].age = tracks'[id].hits /\ tracks'[id].hits = ConfirmedAt
           /\ \A id \in published \ published' :
                tracks[id].timeSinceUpdate = MaxLostFrames
<1>1. published = {id \in Live : Shows(tracks[id])}
  BY DEF IInv, PublishedIsShown
<1>2. ASSUME NEW id \in published' \ published
      PROVE  tracks'[id].age = tracks'[id].hits /\ tracks'[id].hits = ConfirmedAt
  <2>1. id \in DOMAIN tracks' /\ Shows(tracks'[id])
    BY DEF TracksMove
  <2>2. CASE id \in Live \ gone
    BY <1>1, <2>1, <2>2 DEF TracksMove
  <2>3. CASE id \in nextId..(nextId + k - 1)
    BY <2>1, <2>3 DEF TracksMove
  <2> QED
    BY <2>1, <2>2, <2>3 DEF TracksMove
<1>3. ASSUME NEW id \in published \ published'
      PROVE  tracks[id].timeSinceUpdate = MaxLostFrames
  <2>1. id \in Live /\ Shows(tracks[id])
    BY <1>1
  <2>2. id \in gone
    BY <2>1 DEF TracksMove
  <2>3. Expires(tracks[id])
    BY <2>2 DEF TracksMove
  <2>4. Counters(tracks[id], frame)
    BY <2>1 DEF IInv, TracksAgree, Agrees
  <2>5. tracks[id].timeSinceUpdate \in Nat
    BY <2>4 DEF Counters, Track
  <2> QED
    BY <2>1, <2>3, <2>4, <2>5, TrackerAssumption DEF Expires, Shows, Counters
<1> QED
  BY <1>2, <1>3

(* A client sees a track exactly from its confirmation to its expiry.         *)
THEOREM ShownAsPromised == Spec => ShownFromConfirmationToExpiry
<1> DEFINE Promise ==
      /\ \A id \in published' \ published :
            LET t == tracks'[id]
            IN  /\ t.age = t.hits
                /\ t.hits = IF MinHits <= 1 THEN 1 ELSE MinHits
      /\ frame' # frame =>
            \A id \in published \ published' :
                tracks[id].timeSinceUpdate = MaxLostFrames
<1>1. IInv /\ [Next]_vars => [Promise]_vars
  <2> SUFFICES ASSUME IInv, [Next]_vars PROVE Promise \/ UNCHANGED vars
    OBVIOUS
  <2>1. CASE \E gone \in SUBSET Live, k \in Nat : TracksMove(gone, k)
    BY <2>1, MoveShows DEF ConfirmedAt
  <2>2. CASE Reset
    BY <2>2 DEF Reset
  <2> QED
    BY <2>1, <2>2, StepsAreMoves
<1> QED
  BY <1>1, Invariance, PTL DEF Spec, ShownFromConfirmationToExpiry

(* The tracker implements the life cycle its clients rely on.                 *)
THEOREM LifecycleImplemented == Spec => ImplementsLifecycle
<1> USE DEF Lifecycle!Live, Lifecycle!lifecycleVars
<1>1. Init => Lifecycle!Init
  <2> SUFFICES ASSUME Init PROVE Lifecycle!Init
    OBVIOUS
  <2>1. Live = {} /\ nextId = 1 /\ published = {}
    BY DEF Init, Live
  <2> QED
    BY <2>1 DEF Lifecycle!Init
<1>2. IInv /\ IInv' /\ [Next]_vars => [Lifecycle!Next]_Lifecycle!lifecycleVars
  <2> SUFFICES ASSUME IInv, IInv', [Next]_vars
               PROVE  Lifecycle!Next \/ UNCHANGED Lifecycle!lifecycleVars
    OBVIOUS
  <2>1. ASSUME NEW gone \in SUBSET Live, NEW k \in Nat, TracksMove(gone, k)
        PROVE  Lifecycle!Frame
    <3> DEFINE new == nextId..(nextId + k - 1)
               live == DOMAIN tracks'
    <3>1. /\ nextId \in Nat \ {0} /\ nextId' = nextId + k
          /\ live = (Live \ gone) \cup new
          /\ Live \subseteq 1..(nextId - 1)
      BY <2>1 DEF TracksMove, IInv, TypeOK
    <3>2. /\ nextId' - 1 \in Nat /\ nextId - 1 <= nextId' - 1
          /\ (nextId - 1 + 1)..(nextId' - 1) = new
      BY <3>1
    <3>3. \A id \in live : tracks'[id].class \in Classes
      BY DEF IInv, TypeOK, Track, Live
    <3>4. \A id \in Live \cap live : id \in Live \ gone
      BY <3>1
    <3>5. \A id \in Live \cap live : tracks'[id].class = tracks[id].class
      BY <2>1, <3>4 DEF TracksMove
    <3>6. published \cap live \subseteq published'
      <4> SUFFICES ASSUME NEW id \in published \cap live PROVE id \in published'
        OBVIOUS
      <4>1. id \in Live /\ Shows(tracks[id])
        BY DEF IInv, PublishedIsShown
      <4> QED
        BY <2>1, <3>4, <4>1 DEF TracksMove
    <3>7. published' \subseteq live
      BY <2>1 DEF TracksMove
    <3>8. Live' = live
      BY DEF Live
    <3> HIDE DEF new, live
    <3> QED
      BY <3>1, <3>2, <3>3, <3>5, <3>6, <3>7, <3>8 DEF Lifecycle!Frame
  <2>2. CASE Reset
    <3>1. Live' = {} /\ nextId' = 1 /\ published' = {}
      BY <2>2 DEF Reset, Live
    <3> QED
      BY <3>1 DEF Lifecycle!Next, Lifecycle!Forget
  <2>3. CASE UNCHANGED vars
    BY <2>3 DEF vars, Live
  <2> QED
    BY <2>1, <2>2, <2>3, StepsAreMoves DEF Lifecycle!Next
<1> QED
  BY <1>1, <1>2, Invariance, PTL DEF Spec, ImplementsLifecycle, Lifecycle!Spec

(* ---- the rules ---- *)

(* The inductive invariant: the properties together, and the fact that the    *)
(* histories are kept for the present of the last frame.                       *)
HistoriesMatch == /\ DOMAIN crossed = Counted(seen)
                  /\ DOMAIN entered = InRoi(seen)
                  /\ \A id \in DOMAIN entered : entered[id] \in Nat
RulesIInv == /\ RulesTypeOK
        /\ MemoryOfPresentOnly
        /\ OccupancyFollowsCrossings
        /\ OccupancyIsBacked
        /\ StayBeginsWithIntrusion
        /\ HistoriesMatch

LEMMA RulesInitEstablishes == RulesInit => RulesIInv
<1> SUFFICES ASSUME RulesInit PROVE RulesIInv
  OBVIOUS
<1>1. DOMAIN Nothing = {} /\ Nothing \in [{} -> Feet] /\ Nothing \in Frames
      /\ Nothing \in [{} -> [entered : Nat, emitted : BOOLEAN]]
  BY DEF Nothing, Frames
<1>2. Counted(seen) = {} /\ InRoi(seen) = {} /\ Restrict(seen, {}) = Nothing
  BY DEF RulesInit, Counted, InRoi, Restrict, Nothing
<1>3. Cardinality({}) = 0
  BY FS_EmptySet
<1>4. RulesTypeOK
  BY <1>1 DEF RulesInit, RulesTypeOK, NoCount
<1>5. MemoryOfPresentOnly
  BY <1>1, <1>2 DEF RulesInit, MemoryOfPresentOnly, NoCount
<1>6. OccupancyFollowsCrossings /\ OccupancyIsBacked
  BY <1>1, <1>3 DEF RulesInit, OccupancyFollowsCrossings, OccupancyIsBacked, NoCount
<1>7. StayBeginsWithIntrusion /\ HistoriesMatch
  BY <1>1, <1>2 DEF RulesInit, StayBeginsWithIntrusion, HistoriesMatch
<1> QED
  BY <1>4, <1>5, <1>6, <1>7 DEF RulesIInv

LEMMA RulesResetEstablishes ==
    ASSUME RulesIInv, ResetRules
    PROVE  RulesIInv'
<1>1. DOMAIN Nothing = {} /\ Nothing \in [{} -> Feet] /\ Nothing \in Frames
      /\ Nothing \in [{} -> [entered : Nat, emitted : BOOLEAN]]
  BY DEF Nothing, Frames
<1>2. Counted(seen)' = {} /\ InRoi(seen)' = {} /\ Restrict(seen, {})' = Nothing
  BY DEF ResetRules, Counted, InRoi, Restrict, Nothing
<1>3. Cardinality({}) = 0
  BY FS_EmptySet
<1>4. RulesTypeOK'
  BY <1>1 DEF ResetRules, RulesIInv, RulesTypeOK, NoCount
<1>5. MemoryOfPresentOnly'
  BY <1>1, <1>2 DEF ResetRules, MemoryOfPresentOnly, NoCount
<1>6. OccupancyFollowsCrossings' /\ OccupancyIsBacked'
  BY <1>1, <1>3 DEF ResetRules, OccupancyFollowsCrossings, OccupancyIsBacked, NoCount
<1>7. StayBeginsWithIntrusion' /\ HistoriesMatch'
  BY <1>1, <1>2 DEF ResetRules, StayBeginsWithIntrusion, HistoriesMatch
<1> QED
  BY <1>4, <1>5, <1>6, <1>7 DEF RulesIInv

(* What a frame leaves in the memory of the rules.                            *)
LEMMA FrameIsRemembered ==
    ASSUME RulesIInv, NEW present \in Frames, NEW t \in Nat, Evaluate(present, t)
    PROVE  RulesTypeOK' /\ MemoryOfPresentOnly' /\ HistoriesMatch'
<1> DEFINE counted == Counted(present)
           inRoi == InRoi(present)
<1>1. /\ seen' = present /\ now' = t /\ line' = line /\ accepted' = accepted
      /\ lastFoot' = Restrict(present, counted)
      /\ counting'.lastFoot = Restrict(present, counted)
      /\ counting'.inside = (counting.inside \ (Forgotten(present) \cup GoesOut(present)))
                               \cup GoesIn(present)
      /\ counting'.countIn = counting.countIn + Cardinality(GoesIn(present))
      /\ counting'.countOut = counting.countOut + Cardinality(GoesOut(present))
      /\ intruded' = inRoi
      /\ DOMAIN stays' = inRoi /\ DOMAIN crossed' = counted /\ DOMAIN entered' = inRoi
  BY DEF Evaluate, LineEvaluate, CountEvaluate, RoiEvaluate, LoiterEvaluate, Remember
<1>2. Counted(seen)' = counted /\ InRoi(seen)' = inRoi
  BY <1>1 DEF Counted, InRoi
<1>3. DOMAIN present \subseteq Ids /\ \A id \in DOMAIN present : present[id] \in Feet
  BY DEF Frames
<1>4. counted \subseteq DOMAIN present /\ inRoi \subseteq counted
  BY DEF Counted, InRoi
<1>5. Restrict(present, counted) \in [counted -> Feet] /\ counted \in SUBSET Ids
  BY <1>3, <1>4 DEF Restrict
<1>6. GoesIn(present) \subseteq counted /\ GoesOut(present) \subseteq counted
  BY DEF GoesIn, GoesOut
<1>7. counting'.inside \subseteq counted
  <2>1. counting.inside \subseteq DOMAIN counting.lastFoot
    BY DEF RulesIInv, MemoryOfPresentOnly
  <2> QED
    BY <1>1, <1>6, <2>1 DEF Forgotten, Counted
<1>8. counting'.countIn \in Nat /\ counting'.countOut \in Nat
  <2>1. IsFiniteSet(GoesIn(present)) /\ IsFiniteSet(GoesOut(present))
    BY <1>5, <1>6, RulesAssumption, FS_Subset
  <2>2. Cardinality(GoesIn(present)) \in Nat /\ Cardinality(GoesOut(present)) \in Nat
    BY <2>1, FS_CardinalityType
  <2>3. counting.countIn \in Nat /\ counting.countOut \in Nat
    BY DEF RulesIInv, RulesTypeOK
  <2> QED
    BY <1>1, <2>2, <2>3
<1>9. \A id \in DOMAIN stays : stays[id] \in [entered : Nat, emitted : BOOLEAN]
  BY DEF RulesIInv, RulesTypeOK
<1>10. stays' \in [inRoi -> [entered : Nat, emitted : BOOLEAN]]
  <2>1. \A id \in inRoi : Stay(id, t) \in [entered : Nat, emitted : BOOLEAN]
    BY <1>9 DEF Stay
  <2>2. stays' = [id \in inRoi |->
                    [Stay(id, t) EXCEPT !.emitted = @ \/ id \in Loiters(present, t)]]
    BY DEF Evaluate, LoiterEvaluate
  <2> QED
    BY <2>1, <2>2
<1>11. \A id \in inRoi : entered'[id] \in Nat
  <2>1. \A id \in DOMAIN entered : entered[id] \in Nat
    BY DEF RulesIInv, HistoriesMatch
  <2> QED
    BY <2>1 DEF Evaluate, Remember
<1>12. RulesTypeOK'
  <2>1. inRoi \in SUBSET Ids
    BY <1>4, <1>5
  <2>2. line' \in Lines /\ accepted' \in Filters
    BY <1>1 DEF RulesIInv, RulesTypeOK
  <2> HIDE DEF counted, inRoi
  <2> QED
    BY <1>1, <1>4, <1>5, <1>7, <1>8, <1>10, <2>1, <2>2 DEF RulesTypeOK
<1>13. MemoryOfPresentOnly'
  <2>1. DOMAIN Restrict(present, counted) = counted
    BY DEF Restrict
  <2>2. Restrict(seen, Counted(seen))' = Restrict(present, counted)
    BY <1>1, <1>2 DEF Restrict
  <2> HIDE DEF counted, inRoi
  <2> QED
    BY <1>1, <1>2, <1>7, <2>1, <2>2 DEF MemoryOfPresentOnly
<1>14. HistoriesMatch'
  BY <1>1, <1>2, <1>11 DEF HistoriesMatch
<1> QED
  BY <1>12, <1>13, <1>14

LEMMA CrossingDirections ==
    ASSUME NEW memory, NEW present, NEW id
    PROVE  Crossing(memory, present, id) \in Directions
BY DEF Crossing, ClassifyCrossing, Directions

(* The set of the counting rule follows the crossings of the line rule: both  *)
(* remember the same foot points, so they see the same crossings.             *)
LEMMA FrameKeepsOccupancy ==
    ASSUME RulesIInv, NEW present \in Frames, NEW t \in Nat, Evaluate(present, t)
    PROVE  OccupancyFollowsCrossings'
<1> DEFINE counted == Counted(present)
           Dir(id) == Crossing(lastFoot, present, id)
<1>1. counting'.inside = (counting.inside \ (Forgotten(present) \cup GoesOut(present)))
                            \cup GoesIn(present)
  BY DEF Evaluate, CountEvaluate
<1>2. /\ counting.lastFoot = lastFoot
      /\ counting.inside \subseteq DOMAIN lastFoot
      /\ counting.inside = {id \in DOMAIN crossed : crossed[id] = "Forward"}
  BY DEF RulesIInv, MemoryOfPresentOnly, OccupancyFollowsCrossings
<1>3. /\ GoesIn(present) = {id \in counted \ counting.inside : Dir(id) = "Forward"}
      /\ GoesOut(present) = {id \in counted \cap counting.inside : Dir(id) = "Reverse"}
  BY <1>2 DEF GoesIn, GoesOut
<1>4. \A id \in counted : (\E e \in LineEvents(present) : e.track = id) <=> Dir(id) # "None"
  <2>1. ASSUME NEW id \in counted, NEW e \in LineEvents(present), e.track = id
        PROVE  Dir(id) # "None"
    <3>1. PICK i \in counted : Dir(i) # "None" /\ e = Event("line", i, Dir(i))
      BY DEF LineEvents
    <3>2. e.track = i
      BY <3>1 DEF Event
    <3> QED
      BY <2>1, <3>1, <3>2
  <2>2. ASSUME NEW id \in counted, Dir(id) # "None"
        PROVE  \E e \in LineEvents(present) : e.track = id
    <3>1. Event("line", id, Dir(id)) \in LineEvents(present)
      BY <2>2 DEF LineEvents
    <3>2. Event("line", id, Dir(id)).track = id
      BY DEF Event
    <3> QED
      BY <3>1, <3>2
  <2> QED
    BY <2>1, <2>2
<1>5. crossed' = [id \in counted |->
                    IF \E e \in LineEvents(present) : e.track = id
                    THEN Dir(id)
                    ELSE IF id \in DOMAIN crossed THEN crossed[id] ELSE "None"]
  BY DEF Evaluate, Remember
<1>6. \A id \in counted :
         crossed'[id] = IF Dir(id) # "None" THEN Dir(id)
                        ELSE IF id \in DOMAIN crossed THEN crossed[id] ELSE "None"
  BY <1>4, <1>5
<1>7. DOMAIN crossed' = counted
  BY <1>5
<1>8. \A id : id \in counted <=> id \in DOMAIN present /\ id \in accepted
  BY DEF Counted
<1>9. \A id \in counting.inside : id \in Forgotten(present) <=> id \notin counted
  BY <1>2, <1>8 DEF Forgotten
<1>10. \A id \in counted : Dir(id) \in {"None", "Forward", "Reverse"}
  BY CrossingDirections DEF Directions
<1> HIDE DEF counted, Dir
<1>11. ASSUME NEW id \in counted
       PROVE  id \in counting'.inside <=> crossed'[id] = "Forward"
  <2>1. CASE Dir(id) = "Forward"
    BY <1>1, <1>3, <1>6, <1>9, <2>1
  <2>2. CASE Dir(id) = "Reverse"
    BY <1>1, <1>3, <1>6, <2>2
  <2>3. CASE Dir(id) = "None"
    <3>1. crossed'[id] = IF id \in DOMAIN crossed THEN crossed[id] ELSE "None"
      BY <1>6, <2>3
    <3>2. id \in counting'.inside <=> id \in counting.inside
      BY <1>1, <1>3, <1>9, <2>3
    <3> QED
      BY <1>2, <3>1, <3>2
  <2> QED
    BY <1>10, <2>1, <2>2, <2>3
<1>12. counting'.inside \subseteq counted
  BY <1>1, <1>3, <1>9
<1> QED
  BY <1>7, <1>11, <1>12 DEF OccupancyFollowsCrossings

(* Every track in the set was counted in, and those counted out left it.      *)
LEMMA FrameKeepsBacking ==
    ASSUME RulesIInv, NEW present \in Frames, NEW t \in Nat, Evaluate(present, t)
    PROVE  OccupancyIsBacked'
<1> DEFINE gain == GoesIn(present)
           out == GoesOut(present)
           lost == counting.inside \cap (Forgotten(present) \cup out)
<1>1. /\ counting'.inside = (counting.inside \ (Forgotten(present) \cup out)) \cup gain
      /\ counting'.countIn = counting.countIn + Cardinality(gain)
      /\ counting'.countOut = counting.countOut + Cardinality(out)
  BY DEF Evaluate, CountEvaluate
<1>2. counting'.inside = (counting.inside \ lost) \cup gain
  BY <1>1
<1>3. /\ out \subseteq lost /\ lost \subseteq counting.inside
      /\ counting.inside \cap gain = {}
  BY DEF GoesIn, GoesOut
<1>4. counting.inside \subseteq Ids /\ gain \subseteq Ids
  BY DEF RulesIInv, RulesTypeOK, GoesIn, Counted, Frames
<1>5. /\ IsFiniteSet(counting.inside) /\ IsFiniteSet(gain)
      /\ IsFiniteSet(lost) /\ IsFiniteSet(out)
  BY <1>3, <1>4, RulesAssumption, FS_Subset
<1> HIDE DEF gain, out, lost
<1>6. Cardinality((counting.inside \ lost) \cup gain)
        = Cardinality(counting.inside) - Cardinality(lost) + Cardinality(gain)
  BY <1>3, <1>5, LosesAndGains
<1>7. Cardinality(out) <= Cardinality(lost)
  BY <1>3, <1>5, FS_Subset
<1>8. PICK i \in Nat, l \in Nat, g \in Nat, o \in Nat :
        /\ i = Cardinality(counting.inside) /\ l = Cardinality(lost)
        /\ g = Cardinality(gain) /\ o = Cardinality(out)
  BY <1>5, FS_CardinalityType
<1>9. PICK a \in Nat, b \in Nat : a = counting.countIn /\ b = counting.countOut
  BY DEF RulesIInv, RulesTypeOK
<1>10. b + i <= a
  BY <1>8, <1>9 DEF RulesIInv, OccupancyIsBacked
<1>11. Cardinality(counting'.inside) = i - l + g
  BY <1>2, <1>6, <1>8
<1>12. counting'.countIn = a + g /\ counting'.countOut = b + o /\ o <= l
  BY <1>1, <1>7, <1>8, <1>9
<1>13. (b + o) + (i - l + g) <= a + g
  BY <1>10, <1>12
<1> QED
  BY <1>11, <1>12, <1>13 DEF OccupancyIsBacked

(* A stay begins in the frame that reports the intrusion, and its alarm is    *)
(* raised in the first frame in which it has lasted LoiterTime.               *)
LEMMA FrameKeepsStays ==
    ASSUME RulesIInv, NEW present \in Frames, NEW t \in Nat, t >= now, Evaluate(present, t)
    PROVE  StayBeginsWithIntrusion'
<1> DEFINE inRoi == InRoi(present)
<1>1. /\ now' = t
      /\ stays' = [id \in inRoi |->
                     [Stay(id, t) EXCEPT !.emitted = @ \/ id \in Loiters(present, t)]]
      /\ entered' = [id \in inRoi |->
                     IF id \in DOMAIN entered
                        /\ Event("roi", id, "intrusion") \notin RoiEvents(present)
                     THEN entered[id] ELSE t]
  BY DEF Evaluate, LoiterEvaluate, Remember
<1>2. intruded = DOMAIN stays /\ DOMAIN entered = DOMAIN stays /\ now \in Nat
  BY DEF RulesIInv, MemoryOfPresentOnly, HistoriesMatch, RulesTypeOK
<1>3. \A id \in inRoi :
         Event("roi", id, "intrusion") \in RoiEvents(present) <=> id \notin DOMAIN stays
  BY <1>2 DEF RoiEvents, Event
<1>4. SUFFICES ASSUME NEW id \in inRoi
               PROVE  /\ stays'[id].entered = entered'[id]
                      /\ stays'[id].emitted <=> t - entered'[id] >= LoiterTime
  BY <1>1 DEF StayBeginsWithIntrusion
<1>5. LoiterTime \in Nat \ {0}
  BY RulesAssumption
<1>6. /\ id \in Loiters(present, t) <=>
           ~Stay(id, t).emitted /\ t - Stay(id, t).entered >= LoiterTime
  BY DEF Loiters
<1>7. CASE id \in DOMAIN stays
  <2>1. /\ stays[id] \in [entered : Nat, emitted : BOOLEAN]
        /\ stays[id].entered = entered[id]
        /\ stays[id].emitted <=> now - entered[id] >= LoiterTime
    BY <1>7 DEF RulesIInv, RulesTypeOK, StayBeginsWithIntrusion
  <2>2. Stay(id, t) = stays[id]
    BY <1>7 DEF Stay
  <2>3. entered'[id] = entered[id]
    BY <1>1, <1>2, <1>3, <1>7
  <2>4. /\ stays'[id].entered = stays[id].entered
        /\ stays'[id].emitted <=> stays[id].emitted \/ id \in Loiters(present, t)
    BY <1>1, <2>1, <2>2
  <2>5. PICK e \in Nat : e = entered[id]
    BY <2>1
  <2>6. stays[id].emitted => t - e >= LoiterTime
    BY <1>2, <1>5, <2>1, <2>5
  <2>7. id \in Loiters(present, t) <=> ~stays[id].emitted /\ t - e >= LoiterTime
    BY <1>6, <2>1, <2>2, <2>5
  <2> QED
    BY <2>1, <2>3, <2>4, <2>5, <2>6, <2>7
<1>8. CASE id \notin DOMAIN stays
  <2>1. Stay(id, t) = [entered |-> t, emitted |-> FALSE]
    BY <1>8 DEF Stay
  <2>2. entered'[id] = t
    BY <1>1, <1>2, <1>8
  <2>3. id \notin Loiters(present, t) /\ ~(t - t >= LoiterTime)
    BY <1>5, <1>6, <2>1
  <2>4. stays'[id] = [[entered |-> t, emitted |-> FALSE]
                        EXCEPT !.emitted = @ \/ id \in Loiters(present, t)]
    BY <1>1, <2>1
  <2>5. stays'[id].entered = t /\ ~stays'[id].emitted
    BY <2>3, <2>4
  <2> QED
    BY <2>2, <2>3, <2>5
<1> QED
  BY <1>7, <1>8

(* How far to the left of the line from a to b a point is, in parts of its    *)
(* length.                                                                    *)
Left(a, b, r) == Cross2(Minus(b, a), Minus(r, a))

LEMMA CrossIsInt ==
    ASSUME NEW a \in Points, NEW b \in Points, NEW r \in Points
    PROVE  Left(a, b, r) \in Int
BY DEF Points, Left, Cross2, Minus

LEMMA SignIs ==
    ASSUME NEW n \in Int
    PROVE  /\ Sign(n) \in {-1, 0, 1}
           /\ Sign(n) > 0 <=> n > 0
           /\ Sign(n) < 0 <=> n < 0
BY DEF Sign

LEMMA Cancel ==
    ASSUME NEW d \in Int, NEW x \in Int, NEW y \in Int, d # 0, d * x = d * y
    PROVE  x = y
OBVIOUS

(* The product that is positive when v is to one side of u.                   *)
Turn(vx, vy, ux, uy) == vx * uy - vy * ux

(* One coordinate of a point at m/d of the way from x along u, and at n/d of  *)
(* the way from y along v.                                                    *)
Meets(d, x, m, u, y, n, v) == d * x + m * u = d * y + n * v

(* The move from p to q and the line from a to b: where they meet is given by *)
(* how far off the line the ends of the move are, and the other way round.    *)
LEMMA Meeting ==
    ASSUME NEW p \in Points, NEW q \in Points, NEW a \in Points, NEW b \in Points,
           NEW d, d = Left(a, b, p) - Left(a, b, q)
    PROVE  /\ d = Cross2(Minus(q, p), Minus(b, a))
           /\ Left(p, q, b) = Left(p, q, a) + d
           /\ d * p.x + Left(a, b, p) * Minus(q, p).x = d * a.x - Left(p, q, a) * Minus(b, a).x
           /\ d * p.y + Left(a, b, p) * Minus(q, p).y = d * a.y - Left(p, q, a) * Minus(b, a).y
<1>1. d = Cross2(Minus(q, p), Minus(b, a))
  BY DEF Points, Left, Cross2, Minus
<1>2. Left(p, q, b) = Left(p, q, a) + d
  BY DEF Points, Left, Cross2, Minus
<1>3. d * p.x + Left(a, b, p) * Minus(q, p).x = d * a.x - Left(p, q, a) * Minus(b, a).x
  BY DEF Points, Left, Cross2, Minus
<1>4. d * p.y + Left(a, b, p) * Minus(q, p).y = d * a.y - Left(p, q, a) * Minus(b, a).y
  BY DEF Points, Left, Cross2, Minus
<1> QED
  BY <1>1, <1>2, <1>3, <1>4

(* When both coordinates meet, m is eliminated.                               *)
LEMMA CrossedSum ==
    ASSUME NEW c \in Int, NEW m \in Int, NEW n \in Int,
           NEW ux \in Int, NEW uy \in Int, NEW vx \in Int, NEW vy \in Int, NEW wx \in Int, NEW wy \in Int,
           Meets(c, wx, m, ux, 0, n, vx), Meets(c, wy, m, uy, 0, n, vy)
    PROVE  c * Turn(wx, wy, ux, uy) = n * Turn(vx, vy, ux, uy)
<1>1. c * wx + m * ux = n * vx /\ c * wy + m * uy = n * vy
  BY DEF Meets
<1>2. (c * wx + m * ux) * uy - (c * wy + m * uy) * ux = (n * vx) * uy - (n * vy) * ux
  BY <1>1
<1>3. (c * wx + m * ux) * uy - (c * wy + m * uy) * ux = c * (wx * uy - wy * ux)
  OBVIOUS
<1>4. (n * vx) * uy - (n * vy) * ux = n * (vx * uy - vy * ux)
  OBVIOUS
<1> QED
  BY <1>2, <1>3, <1>4 DEF Turn

(* The same seen from the start of the line.                                  *)
LEMMA FromCorner ==
    ASSUME NEW c \in Int, NEW m \in Int, NEW n \in Int,
           NEW x \in Int, NEW y \in Int, NEW u \in Int, NEW v \in Int,
           Meets(c, x, m, u, y, n, v)
    PROVE  Meets(c, x - y, m, u, 0, n, v)
<1>1. c * (x - y) = c * x - c * y
  OBVIOUS
<1>2. c * x \in Int /\ c * y \in Int /\ m * u \in Int /\ n * v \in Int
  OBVIOUS
<1> QED
  BY <1>1, <1>2 DEF Meets

(* What the two coordinates of a meeting point say of n.                      *)
LEMMA MeetingIsThere ==
    ASSUME NEW p \in Points, NEW q \in Points, NEW a \in Points, NEW b \in Points,
           NEW c \in Int, NEW m \in Int, NEW n \in Int,
           Meets(c, p.x, m, Minus(q, p).x, a.x, n, Minus(b, a).x),
           Meets(c, p.y, m, Minus(q, p).y, a.y, n, Minus(b, a).y)
    PROVE  c * Left(p, q, a) = - (n * (Left(a, b, p) - Left(a, b, q)))
<1> DEFINE ux == q.x - p.x
           uy == q.y - p.y
           vx == b.x - a.x
           vy == b.y - a.y
           wx == p.x - a.x
           wy == p.y - a.y
<1>1. ux \in Int /\ uy \in Int /\ vx \in Int /\ vy \in Int /\ wx \in Int /\ wy \in Int
  BY DEF Points
<1>2. Meets(c, wx, m, ux, 0, n, vx) /\ Meets(c, wy, m, uy, 0, n, vy)
  <2>1. p.x \in Int /\ p.y \in Int /\ a.x \in Int /\ a.y \in Int
    BY DEF Points
  <2>2. Meets(c, p.x, m, ux, a.x, n, vx) /\ Meets(c, p.y, m, uy, a.y, n, vy)
    BY DEF Minus
  <2> HIDE DEF ux, uy, vx, vy
  <2> QED
    BY <1>1, <2>1, <2>2, FromCorner
<1>3. Left(p, q, a) = Turn(wx, wy, ux, uy)
  BY DEF Points, Left, Cross2, Minus, Turn
<1>4. Left(a, b, p) - Left(a, b, q) = - Turn(vx, vy, ux, uy)
  BY DEF Points, Left, Cross2, Minus, Turn
<1> HIDE DEF ux, uy, vx, vy, wx, wy
<1>5. c * Turn(wx, wy, ux, uy) = n * Turn(vx, vy, ux, uy)
  BY <1>1, <1>2, CrossedSum
<1>6. PICK i \in Int : i = Turn(vx, vy, ux, uy)
  BY <1>1 DEF Turn
<1>7. n * i = - (n * (- i))
  OBVIOUS
<1> QED
  BY <1>3, <1>4, <1>5, <1>6, <1>7

LEMMA TimesSign ==
    ASSUME NEW s \in {1, -1}, NEW e \in Int, NEW f \in Int, NEW g \in Int,
           NEW x \in Int, NEW y \in Int, NEW u \in Int, NEW v \in Int,
           e * x + f * u = e * y - g * v
    PROVE  Meets(e * s, x, f * s, u, y, - (g * s), v)
<1>1. (e * x + f * u) * s = (e * y - g * v) * s
  OBVIOUS
<1>2. (e * x + f * u) * s = (e * s) * x + (f * s) * u
  OBVIOUS
<1>3. (e * y - g * v) * s = (e * s) * y + (- (g * s)) * v
  OBVIOUS
<1> QED
  BY <1>1, <1>2, <1>3 DEF Meets

(* When the ends of the move lie on both sides of the line, the test of the   *)
(* code is true exactly when path and segment have a point in common.         *)
LEMMA PathMeetsSegment ==
    ASSUME NEW p \in Points, NEW q \in Points, NEW a \in Points, NEW b \in Points, a # b,
           \/ Left(a, b, p) > 0 /\ Left(a, b, q) < 0
           \/ Left(a, b, p) < 0 /\ Left(a, b, q) > 0
    PROVE  SegmentsIntersect(p, q, a, b) <=> CommonPoint(p, q, a, b)
<1> DEFINE lp == Left(a, b, p)
           lq == Left(a, b, q)
           ma == Left(p, q, a)
           mb == Left(p, q, b)
           e == lp - lq
           s == Sign(e)
           d == e * s
<1>1. lp \in Int /\ lq \in Int /\ ma \in Int /\ mb \in Int
  BY CrossIsInt
<1>2. /\ e = Cross2(Minus(q, p), Minus(b, a))
      /\ mb = ma + e
      /\ e * p.x + lp * Minus(q, p).x = e * a.x - ma * Minus(b, a).x
      /\ e * p.y + lp * Minus(q, p).y = e * a.y - ma * Minus(b, a).y
  BY Meeting
<1>3. /\ Minus(q, p).x \in Int /\ Minus(q, p).y \in Int
      /\ Minus(b, a).x \in Int /\ Minus(b, a).y \in Int
      /\ p.x \in Int /\ p.y \in Int /\ a.x \in Int /\ a.y \in Int
  BY DEF Points, Minus
<1>4. /\ \A m, n \in Int :
            /\ Meets(d, p.x, m, Minus(q, p).x, a.x, n, Minus(b, a).x)
            /\ Meets(d, p.y, m, Minus(q, p).y, a.y, n, Minus(b, a).y)
            => d * ma = - (n * e)
  <2>1. d \in Int
    BY <1>1 DEF Sign
  <2> QED
    BY <2>1, MeetingIsThere
<1>5. p # q
  BY <1>1
<1>6. CommonPoint(p, q, a, b) <=>
         \E m, n \in 0..d : /\ Meets(d, p.x, m, Minus(q, p).x, a.x, n, Minus(b, a).x)
                            /\ Meets(d, p.y, m, Minus(q, p).y, a.y, n, Minus(b, a).y)
  BY <1>2 DEF CommonPoint, Meets
<1>7. SegmentsIntersect(p, q, a, b) <=>
         \/ Sign(ma) # Sign(mb) /\ Sign(lp) # Sign(lq)
         \/ Sign(ma) = 0 /\ OnSegment(p, a, q)
         \/ Sign(mb) = 0 /\ OnSegment(p, b, q)
         \/ Sign(lp) = 0 /\ OnSegment(a, p, b)
         \/ Sign(lq) = 0 /\ OnSegment(a, q, b)
  BY <1>5 DEF SegmentsIntersect, Orientation, Left
<1> HIDE DEF lp, lq, ma, mb
<1>8. SegmentsIntersect(p, q, a, b) <=> ((ma <= 0 /\ 0 <= mb) \/ (mb <= 0 /\ 0 <= ma))
  <2>1. Sign(lp) # 0 /\ Sign(lq) # 0 /\ Sign(lp) # Sign(lq)
    BY <1>1, SignIs DEF lp, lq
  <2>2. e \in Int /\ e # 0 /\ mb = ma + e
    BY <1>1, <1>2 DEF lp, lq
  <2> HIDE DEF e
  <2>3. Sign(ma) # Sign(mb) <=> ((ma <= 0 /\ 0 <= mb) \/ (mb <= 0 /\ 0 <= ma))
    BY <1>1, <2>2 DEF Sign
  <2>4. (Sign(ma) = 0 \/ Sign(mb) = 0) => Sign(ma) # Sign(mb)
    BY <1>1, <2>2 DEF Sign
  <2> QED
    BY <1>7, <2>1, <2>3, <2>4
<1>9. s \in {1, -1} /\ e \in Int /\ e # 0 /\ d \in Int /\ d > 0 /\ d = e * s
  BY <1>1 DEF Sign, lp, lq
<1> HIDE DEF e, d, s
<1>10. CommonPoint(p, q, a, b) => ((ma <= 0 /\ 0 <= mb) \/ (mb <= 0 /\ 0 <= ma))
  <2> SUFFICES ASSUME NEW m \in 0..d, NEW n \in 0..d,
                      Meets(d, p.x, m, Minus(q, p).x, a.x, n, Minus(b, a).x),
                      Meets(d, p.y, m, Minus(q, p).y, a.y, n, Minus(b, a).y)
               PROVE  (ma <= 0 /\ 0 <= mb) \/ (mb <= 0 /\ 0 <= ma)
    BY <1>6
  <2>1. n \in Int /\ m \in Int
    BY <1>9
  <2>2. d * ma = - (n * e)
    BY <1>4, <2>1
  <2>3. CASE s = 1
    <3>1. d * ma = d * (-n)
      BY <1>1, <1>9, <2>1, <2>2, <2>3
    <3>2. ma = -n
      BY <1>1, <1>9, <2>1, <3>1, Cancel
    <3> QED
      BY <1>1, <1>2, <1>9, <2>1, <2>3, <3>2
  <2>4. CASE s = -1
    <3>1. d * ma = d * n
      BY <1>1, <1>9, <2>1, <2>2, <2>4
    <3>2. ma = n
      BY <1>1, <1>9, <2>1, <3>1, Cancel
    <3> QED
      BY <1>1, <1>2, <1>9, <2>1, <2>4, <3>2
  <2> QED
    BY <1>9, <2>3, <2>4
<1>11. ((ma <= 0 /\ 0 <= mb) \/ (mb <= 0 /\ 0 <= ma)) => CommonPoint(p, q, a, b)
  <2> SUFFICES ASSUME (ma <= 0 /\ 0 <= mb) \/ (mb <= 0 /\ 0 <= ma)
               PROVE  CommonPoint(p, q, a, b)
    OBVIOUS
  <2> DEFINE m == lp * s
             n == - (ma * s)
  <2>1. m \in 0..d /\ n \in 0..d
    BY <1>1, <1>2, <1>9 DEF e, lp, lq
  <2>2. /\ Meets(e * s, p.x, m, Minus(q, p).x, a.x, n, Minus(b, a).x)
        /\ Meets(e * s, p.y, m, Minus(q, p).y, a.y, n, Minus(b, a).y)
    <3>1. /\ e * p.x + lp * Minus(q, p).x = e * a.x - ma * Minus(b, a).x
          /\ e * p.y + lp * Minus(q, p).y = e * a.y - ma * Minus(b, a).y
      BY <1>2
    <3>2. s \in {1, -1} /\ e \in Int /\ lp \in Int /\ ma \in Int
      BY <1>1, <1>9
    <3> QED
      BY <1>3, <3>1, <3>2, TimesSign, Zenon
  <2>3. d = e * s
    BY <1>9
  <2> HIDE DEF m, n
  <2> QED
    BY <1>6, <2>1, <2>2, <2>3
<1> QED
  BY <1>8, <1>10, <1>11

(* A move is classified by the sides of its ends and by whether it meets the  *)
(* segment.                                                                   *)
LEMMA ClassifiesMovement ==
    ASSUME NEW p \in Points, NEW q \in Points, NEW a \in Points, NEW b \in Points, a # b
    PROVE  /\ ClassifyCrossing(p, q, a, b) = "Forward" <=>
                 /\ Orientation(a, b, p) > 0 /\ Orientation(a, b, q) < 0
                 /\ CommonPoint(p, q, a, b)
           /\ ClassifyCrossing(p, q, a, b) = "Reverse" <=>
                 /\ Orientation(a, b, p) < 0 /\ Orientation(a, b, q) > 0
                 /\ CommonPoint(p, q, a, b)
<1> DEFINE sp == Orientation(a, b, p)
           sq == Orientation(a, b, q)
           meets == SegmentsIntersect(p, q, a, b)
           common == CommonPoint(p, q, a, b)
<1>1. /\ sp \in {-1, 0, 1} /\ sq \in {-1, 0, 1}
      /\ sp > 0 <=> Left(a, b, p) > 0
      /\ sp < 0 <=> Left(a, b, p) < 0
      /\ sq > 0 <=> Left(a, b, q) > 0
      /\ sq < 0 <=> Left(a, b, q) < 0
  <2>1. Left(a, b, p) \in Int /\ Left(a, b, q) \in Int
    BY CrossIsInt
  <2>2. sp = Sign(Left(a, b, p)) /\ sq = Sign(Left(a, b, q))
    BY DEF Orientation, Left
  <2> QED
    BY <2>1, <2>2, SignIs
<1>2. LineSide(p, a, b) = sp /\ LineSide(q, a, b) = sq
  BY DEF LineSide
<1>3. ClassifyCrossing(p, q, a, b) =
        IF sp = 0 \/ sq = 0 \/ sp = sq \/ ~meets THEN "None"
        ELSE IF sp > 0 THEN "Forward" ELSE "Reverse"
  BY <1>2 DEF ClassifyCrossing
<1>4. (sp > 0 /\ sq < 0) \/ (sp < 0 /\ sq > 0) => (meets <=> common)
  BY <1>1, PathMeetsSegment
<1> HIDE DEF sp, sq, meets, common
<1>5. /\ ClassifyCrossing(p, q, a, b) = "Forward" <=> sp > 0 /\ sq < 0 /\ meets
      /\ ClassifyCrossing(p, q, a, b) = "Reverse" <=> sp < 0 /\ sq > 0 /\ meets
  <2>1. sp \in {-1, 0, 1} /\ sq \in {-1, 0, 1}
    BY <1>1
  <2> QED
    BY <1>3, <2>1
<1>6. /\ ClassifyCrossing(p, q, a, b) = "Forward" <=> sp > 0 /\ sq < 0 /\ common
      /\ ClassifyCrossing(p, q, a, b) = "Reverse" <=> sp < 0 /\ sq > 0 /\ common
  BY <1>4, <1>5
<1> QED
  BY <1>6 DEF sp, sq, common

(* The line rule remembers every track of the frame before that passes the    *)
(* filter, so that what it classifies is the movement since that frame.       *)
LEMMA FrameReportsMovement ==
    ASSUME RulesIInv, NEW present \in Frames, NEW t \in Nat, Evaluate(present, t),
           NEW id \in accepted \cap DOMAIN present
    PROVE  /\ Event("line", id, "Forward") \in events' <=>
                 /\ id \in DOMAIN seen /\ LeftOf(seen[id]) /\ RightOf(present[id])
                 /\ CommonPoint(seen[id], present[id], line.a, line.b)
           /\ Event("line", id, "Reverse") \in events' <=>
                 /\ id \in DOMAIN seen /\ RightOf(seen[id]) /\ LeftOf(present[id])
                 /\ CommonPoint(seen[id], present[id], line.a, line.b)
           /\ Event("roi", id, "intrusion") \in events' <=>
                 present[id] \in Roi /\ ~(id \in DOMAIN seen /\ seen[id] \in Roi)
<1>1. events' = LineEvents(present) \cup CountEvents(present)
                   \cup RoiEvents(present) \cup LoiterEvents(present, t)
  BY DEF Evaluate
<1>2. id \in Counted(present) /\ (id \in DOMAIN seen <=> id \in Counted(seen))
  BY DEF Counted
<1>3. lastFoot = Restrict(seen, Counted(seen)) /\ intruded = InRoi(seen)
  BY DEF RulesIInv, MemoryOfPresentOnly
<1>4. id \in DOMAIN lastFoot <=> id \in DOMAIN seen
  BY <1>2, <1>3 DEF Restrict
<1>5. id \in DOMAIN seen => lastFoot[id] = seen[id]
  BY <1>2, <1>3 DEF Restrict
<1>6. /\ line.a \in Points /\ line.b \in Points /\ line.a # line.b
      /\ present[id] \in Points
      /\ id \in DOMAIN seen => seen[id] \in Points
  <2>1. line \in Lines /\ seen \in Frames
    BY DEF RulesIInv, RulesTypeOK
  <2>2. line.a \in Points /\ line.b \in Points /\ line.a # line.b
    BY <2>1, RulesAssumption
  <2>3. Feet \subseteq Points
    BY RulesAssumption
  <2>4. present[id] \in Feet /\ (id \in DOMAIN seen => seen[id] \in Feet)
    BY <2>1 DEF Frames
  <2> QED
    BY <2>2, <2>3, <2>4
<1>7. ASSUME NEW dir \in {"Forward", "Reverse"}
      PROVE  Event("line", id, dir) \in events' <=>
                /\ id \in DOMAIN seen
                /\ ClassifyCrossing(seen[id], present[id], line.a, line.b) = dir
  <2>1. Event("line", id, dir) \in events' <=> Event("line", id, dir) \in LineEvents(present)
    BY <1>1 DEF Event, CountEvents, RoiEvents, LoiterEvents
  <2>2. Event("line", id, dir) \in LineEvents(present) <=> Crossing(lastFoot, present, id) = dir
    <3>1. dir # "None"
      OBVIOUS
    <3>2. ASSUME NEW i, Event("line", id, dir) = Event("line", i, Crossing(lastFoot, present, i))
          PROVE  i = id /\ Crossing(lastFoot, present, id) = dir
      <4>1. i = id
        BY <3>2 DEF Event
      <4> QED
        BY <3>2, <4>1 DEF Event
    <3> QED
      BY <1>2, <3>1, <3>2 DEF LineEvents
  <2>3. Crossing(lastFoot, present, id) =
          IF id \in DOMAIN seen THEN ClassifyCrossing(seen[id], present[id], line.a, line.b)
          ELSE "None"
    BY <1>4, <1>5 DEF Crossing
  <2> QED
    BY <2>1, <2>2, <2>3
<1>8. Event("roi", id, "intrusion") \in events' <=>
         present[id] \in Roi /\ ~(id \in DOMAIN seen /\ seen[id] \in Roi)
  <2>1. Event("roi", id, "intrusion") \in events'
           <=> Event("roi", id, "intrusion") \in RoiEvents(present)
    BY <1>1 DEF Event, LineEvents, CountEvents, LoiterEvents
  <2>2. Event("roi", id, "intrusion") \in RoiEvents(present)
           <=> id \in InRoi(present) /\ id \notin intruded
    BY DEF RoiEvents, Event
  <2>3. /\ id \in InRoi(present) <=> present[id] \in Roi
        /\ id \in intruded <=> id \in DOMAIN seen /\ seen[id] \in Roi
    BY <1>2, <1>3 DEF InRoi, Counted
  <2> QED
    BY <2>1, <2>2, <2>3
<1>9. id \in DOMAIN seen =>
        /\ ClassifyCrossing(seen[id], present[id], line.a, line.b) = "Forward" <=>
              /\ LeftOf(seen[id]) /\ RightOf(present[id])
              /\ CommonPoint(seen[id], present[id], line.a, line.b)
        /\ ClassifyCrossing(seen[id], present[id], line.a, line.b) = "Reverse" <=>
              /\ RightOf(seen[id]) /\ LeftOf(present[id])
              /\ CommonPoint(seen[id], present[id], line.a, line.b)
  BY <1>6, ClassifiesMovement DEF LeftOf, RightOf
<1> QED
  BY <1>7, <1>8, <1>9

(* The strengthened invariant holds in every reachable state.                 *)
THEOREM RulesInvariance == RulesSpec => []RulesIInv
<1>1. RulesIInv /\ [RulesNext]_rulesVars => RulesIInv'
  <2> SUFFICES ASSUME RulesIInv, [RulesNext]_rulesVars PROVE RulesIInv'
    OBVIOUS
  <2>1. ASSUME NEW present \in Frames, NEW gap \in Gaps, Evaluate(present, now + gap)
        PROVE  RulesIInv'
    <3>1. now + gap \in Nat /\ now + gap >= now
      BY RulesAssumption DEF RulesIInv, RulesTypeOK
    <3>2. PICK t \in Nat : t = now + gap
      BY <3>1
    <3>3. t >= now /\ Evaluate(present, t)
      BY <2>1, <3>1, <3>2
    <3> QED
      BY <3>3, FrameIsRemembered, FrameKeepsOccupancy, FrameKeepsBacking,
         FrameKeepsStays DEF RulesIInv
  <2>2. CASE ResetRules
    BY <2>2, RulesResetEstablishes
  <2>3. CASE UNCHANGED rulesVars
    BY <2>3 DEF rulesVars, RulesIInv, RulesTypeOK, MemoryOfPresentOnly, OccupancyFollowsCrossings,
         OccupancyIsBacked, StayBeginsWithIntrusion, HistoriesMatch, Counted, InRoi,
         Restrict
  <2> QED
    BY <2>1, <2>2, <2>3 DEF RulesNext
<1> QED
  BY <1>1, RulesInitEstablishes, PTL DEF RulesSpec

(* The memory of every rule stays in its type.                                *)
THEOREM RulesTypeCorrect == RulesSpec => []RulesTypeOK
BY RulesInvariance, PTL DEF RulesIInv

(* No rule remembers a track that has left the scene.                         *)
THEOREM MemoryBounded == RulesSpec => []MemoryOfPresentOnly
BY RulesInvariance, PTL DEF RulesIInv

(* Counting and line crossing agree on who is inside, and the counters back   *)
(* the occupancy.                                                             *)
THEOREM OccupancyCorrect == RulesSpec => []OccupancyExplained
<1>1. RulesIInv => OccupancyExplained
  BY DEF RulesIInv, OccupancyExplained
<1> QED
  BY <1>1, RulesInvariance, PTL

(* Loitering is timed from the intrusion and raised once, in time.            *)
THEOREM LoiteringCorrect == RulesSpec => []StayBeginsWithIntrusion
BY RulesInvariance, PTL DEF RulesIInv

(* What the line rule and the region rule report of a track is exactly what   *)
(* it did since the frame before, for every line, region and movement.        *)
THEOREM EventsExplained == RulesSpec => EventsMatchMovement
<1> DEFINE Explained(id) ==
        LET met == id \in DOMAIN seen
            foot == seen'[id]
            crosses(From(_), To(_)) ==
                /\ met
                /\ From(seen[id])
                /\ To(foot)
                /\ CommonPoint(seen[id], foot, line.a, line.b)
        IN  /\ Event("line", id, "Forward") \in events' <=> crosses(LeftOf, RightOf)
            /\ Event("line", id, "Reverse") \in events' <=> crosses(RightOf, LeftOf)
            /\ Event("roi", id, "intrusion") \in events'
                 <=> foot \in Roi /\ ~(met /\ seen[id] \in Roi)
<1>1. ASSUME RulesIInv, [RulesNext]_rulesVars
      PROVE  [\A id \in accepted \cap DOMAIN seen' : Explained(id)]_rulesVars
  <2>1. ASSUME NEW present \in Frames, NEW gap \in Gaps, Evaluate(present, now + gap)
        PROVE  \A id \in accepted \cap DOMAIN seen' : Explained(id)
    <3>1. PICK t \in Nat : t = now + gap
      BY <1>1, RulesAssumption DEF RulesIInv, RulesTypeOK
    <3>2. Evaluate(present, t) /\ seen' = present
      BY <2>1, <3>1 DEF Evaluate
    <3> QED
      BY <1>1, <3>2, FrameReportsMovement
  <2>2. CASE ResetRules
    <3>1. DOMAIN seen' = {}
      BY <2>2 DEF ResetRules, Nothing
    <3> QED
      BY <3>1
  <2> QED
    BY <1>1, <2>1, <2>2 DEF RulesNext
<1> QED
  BY <1>1, RulesInvariance, PTL DEF RulesSpec, EventsMatchMovement
==============================================================================
