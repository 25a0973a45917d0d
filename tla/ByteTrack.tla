------------------------------ MODULE ByteTrack ------------------------------
(***************************************************************************)
(* ByteTrackTracker: per frame, the live tracks are matched first with the *)
(* detections of high confidence and then with those of low confidence;    *)
(* what stays unmatched ages out, is dropped or starts a new track.        *)
(*                                                                         *)
(* Boxes and their overlaps are abstracted: greedyIouAssociate may return  *)
(* any pairing of detections and tracks of the same class that uses each   *)
(* at most once (module GreedyMatching models the greedy choice itself).   *)
(* The Kalman filter, labels and confidences beyond their band are data.   *)
(***************************************************************************)
EXTENDS Integers, Sequences, FiniteSets, Functions

CONSTANTS Classes, MinHits, MaxLostFrames, MaxTrajectoryPoints,
          MaxDetections, \* bound: detections of a frame
          MaxId,         \* bound: identities given
          MaxFrames      \* bound: frames

ASSUME TrackerAssumption == /\ MinHits \in Int
                            /\ MaxLostFrames \in Nat
                            /\ MaxTrajectoryPoints \in Nat
                            /\ MaxDetections \in Nat
                            /\ MaxId \in Nat
                            /\ MaxFrames \in Nat

VARIABLES tracks,    \* m_tracks, by id (the vector is in the order of the ids)
          nextId,    \* m_nextId
          stats,     \* m_stats
          published, \* the ids of the tracks the last update returned
          frame      \* the frame of the last update, which stamps what it writes

vars == <<tracks, nextId, stats, published, frame>>

States == {"Tentative", "Confirmed", "Lost"}
Track == [class : Classes, state : States, age : Nat, hits : Nat,
          timeSinceUpdate : Nat, firstSeen : Nat, lastSeen : Nat,
          trajectory : Seq(Nat)]
TrackerStats == [activeTracks : Nat, createdTracks : Nat,
                 lostTracks : Nat, removedTracks : Nat]
Detection == [class : Classes, score : {"high", "low", "noise"}]

Live == DOMAIN tracks
NoStats == [activeTracks |-> 0, createdTracks |-> 0,
            lostTracks |-> 0, removedTracks |-> 0]
Least(a, b) == IF a <= b THEN a ELSE b

Init == /\ tracks = [id \in {} |-> 0]
        /\ nextId = 1
        /\ stats = NoStats
        /\ published = {}
        /\ frame = 0

\* The positions of the detections above highThresh, and of those above
\* lowThresh only.
InBand(detections, band) == {i \in DOMAIN detections : detections[i].score = band}

\* greedyIouAssociate: which detection each matched track is paired with.
Associations(detections, indices, ids) ==
    {match \in UNION {Injection(matched, indices) : matched \in SUBSET ids} :
        \A id \in DOMAIN match : detections[match[id]].class = tracks[id].class}

StateOnHit(hits, state) == IF hits >= MinHits THEN "Confirmed" ELSE state

\* mutant: a match that is not stamped
HitUnstamped(track, now) ==
    [track EXCEPT !.age = @ + 1, !.hits = @ + 1, !.timeSinceUpdate = 0,
                  !.state = StateOnHit(track.hits + 1, @)]
\* applyDetection, after the prediction that aged the track.
Hit(track, now) ==
    [track EXCEPT !.age = @ + 1, !.hits = @ + 1, !.timeSinceUpdate = 0,
                  !.lastSeen = now, !.state = StateOnHit(track.hits + 1, @)]
\* mutant: a miss sends the track back to where it was before its confirmation
MissedDemotes(track) ==
    [track EXCEPT !.age = @ + 1, !.state = "Tentative", !.timeSinceUpdate = @ + 1]
Missed(track) ==
    [track EXCEPT !.age = @ + 1, !.state = "Lost", !.timeSinceUpdate = @ + 1]
\* mutant: off by one
ExpiresEarly(track) == \/ track.state = "Tentative"
                       \/ track.timeSinceUpdate + 1 >= MaxLostFrames
Expires(track) == \/ track.state = "Tentative"
                  \/ track.timeSinceUpdate + 1 > MaxLostFrames
Fresh(class, now) ==
    [class |-> class, state |-> StateOnHit(1, "Tentative"), age |-> 1, hits |-> 1,
     timeSinceUpdate |-> 0, firstSeen |-> now, lastSeen |-> now, trajectory |-> <<>>]

\* mutant: a full trajectory gives up one sample too many
SampledShort(track, now) ==
    LET all == Append(track.trajectory, now)
        excess == IF Len(all) >= MaxTrajectoryPoints
                  THEN Len(all) + 1 - MaxTrajectoryPoints ELSE 0
    IN  [track EXCEPT !.trajectory = SubSeq(all, excess + 1, Len(all))]
\* appendTrajectory: the newest MaxTrajectoryPoints samples are kept.
Sampled(track, now) ==
    LET all == Append(track.trajectory, now)
        excess == IF Len(all) > MaxTrajectoryPoints
                  THEN Len(all) - MaxTrajectoryPoints ELSE 0
    IN  [track EXCEPT !.trajectory = SubSeq(all, excess + 1, Len(all))]

\* The rest of update, once the tracks in `hit' are matched and the high
\* detections at `fresh' are not.  New ids follow the order of the detections.
Settle(detections, hit, fresh) ==
    LET now == frame + 1
        gone == {id \in Live \ hit : Expires(tracks[id])}
        kept == Live \ gone
        new == nextId..(nextId + Cardinality(fresh) - 1)
        next(id) == IF id \in hit THEN Hit(tracks[id], now) ELSE Missed(tracks[id])
    IN \E order \in Bijection(new, fresh) :
        /\ \A a, b \in new : a < b => order[a] < order[b]
        /\ tracks' = [id \in kept \cup new |->
                        Sampled(IF id \in kept THEN next(id)
                                ELSE Fresh(detections[order[id]].class, now), now)]
        /\ nextId' = nextId + Cardinality(fresh)
        /\ published' = {id \in kept \cup new : tracks'[id].state # "Tentative"}
        /\ stats' = [activeTracks |-> Cardinality(published'),
                     createdTracks |-> stats.createdTracks + Cardinality(fresh),
                     lostTracks |-> stats.lostTracks
                        + Cardinality({id \in Live \ hit : tracks[id].state = "Confirmed"}),
                     removedTracks |-> stats.removedTracks + Cardinality(gone)]
        /\ frame' = now

\* update: high detections first, then low ones with the tracks left over.
Update(detections) ==
    LET high == InBand(detections, "high")
        low == InBand(detections, "low")
    IN \E first \in Associations(detections, high, Live) :
         \E second \in Associations(detections, low, Live \ DOMAIN first) :
            Settle(detections, DOMAIN first \cup DOMAIN second, high \ Range(first))

\* Frames are stamped by the capture, which a reset of the tracker leaves alone.
Reset == /\ tracks' = [id \in {} |-> 0]
         /\ nextId' = 1
         /\ stats' = NoStats
         /\ published' = {}
         /\ UNCHANGED frame

DetectionLists == UNION {[1..n -> Detection] : n \in 0..MaxDetections}

Next == \/ /\ frame < MaxFrames
           /\ \E detections \in DetectionLists :
                /\ nextId + Cardinality(InBand(detections, "high")) <= MaxId + 1
                /\ Update(detections)
        \/ Reset

Spec == Init /\ [][Next]_vars
------------------------------------------------------------------------------
TypeOK == /\ nextId \in Nat \ {0}
          /\ Live \subseteq 1..(nextId - 1)
          /\ tracks \in [Live -> Track]
          /\ stats \in TrackerStats
          /\ published \subseteq Live
          /\ frame \in Nat

\* The counters of a track and its state say the same: Lost means missed
\* since its last match, Tentative means matched in every frame of its life
\* and not yet often enough, and a track is not kept beyond MaxLostFrames.
StateMatchesCounters ==
    \A id \in Live : LET t == tracks[id] IN
        /\ t.hits >= 1
        /\ t.state = "Lost" <=> t.timeSinceUpdate > 0
        /\ t.state = "Tentative" <=> t.hits < MinHits
        /\ t.state = "Tentative" => t.age = t.hits
        /\ t.hits + t.timeSinceUpdate <= t.age
        /\ t.timeSinceUpdate <= MaxLostFrames

\* The counters agree with the time stamps of the frames: a miss is counted
\* for every frame since the last match, a frame of age for every frame of life.
CountersMatchClock ==
    \A id \in Live : LET t == tracks[id] IN
        /\ t.timeSinceUpdate = frame - t.lastSeen
        /\ t.age = frame - t.firstSeen + 1

\* Every track created is live or was counted as removed, whether it expired
\* or was dropped before it was ever confirmed.
StatsAddUp == /\ stats.createdTracks = nextId - 1
              /\ stats.createdTracks = Cardinality(Live) + stats.removedTracks
              /\ stats.activeTracks = Cardinality(published)

\* What the tracker tells its clients is true: the state and the counters of a
\* track by one another and by the clock, and its totals by its tracks.
CountersAreTrue == StateMatchesCounters /\ CountersMatchClock /\ StatsAddUp

\* The trajectory holds the newest frames of the track's life without a gap,
\* the frames in which it was lost included.
TrajectoryContinuous ==
    \A id \in Live :
        LET t == tracks[id]
            kept == Least(t.age, MaxTrajectoryPoints)
        IN  /\ Len(t.trajectory) = kept
            /\ \A i \in 1..kept : t.trajectory[i] = frame - kept + i

\* A client first sees a track exactly when it was matched MinHits times in a
\* row, and last sees it when it was missed MaxLostFrames times in a row.
ShownFromConfirmationToExpiry ==
    [][/\ \A id \in published' \ published :
            LET t == tracks'[id]
            IN  /\ t.age = t.hits
                /\ t.hits = IF MinHits <= 1 THEN 1 ELSE MinHits
       /\ frame' # frame =>
            \A id \in published \ published' :
                tracks[id].timeSinceUpdate = MaxLostFrames]_vars

Lifecycle == INSTANCE TrackLifecycle WITH
    given <- nextId - 1,
    subject <- [id \in Live |-> tracks[id].class],
    shown <- published

\* The tracker keeps its promise: an id is never given twice, never changes
\* class, never flickers and never comes back, until the tracker is reset.
ImplementsLifecycle == Lifecycle!Spec
==============================================================================
