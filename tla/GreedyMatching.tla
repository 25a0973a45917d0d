---------------------------- MODULE GreedyMatching ----------------------------
(***************************************************************************)
(* greedyIouAssociate: detections and predicted tracks of one class are    *)
(* paired, the pair that overlaps most first.  A call is a record of its   *)
(* arguments and its local variables; the two inner loops look at one pair *)
(* after another, and the outer one takes the best pair of each round.     *)
(* What detUsed and trackUsed say is read off the matches.                 *)
(***************************************************************************)
EXTENDS Boxes, Sequences

NoMatch == [detection |-> 0, track |-> 0, iou |-> NoOverlap]
Pair(call, d, t) ==
    [detection |-> d, track |-> t,
     iou |-> IntersectionOverUnion(call.detections[d].box, call.tracks[t].box)]

NewCall(detections, tracks, threshold) ==
    [detections |-> detections, tracks |-> tracks, threshold |-> threshold,
     matches |-> <<>>, best |-> NoMatch, d |-> 1, t |-> 1]
Trivial(call) == call.detections = <<>> \/ call.tracks = <<>>

Used(call, p) == \E i \in DOMAIN call.matches : \/ call.matches[i].detection = p.detection
                                                \/ call.matches[i].track = p.track
\* Of one class, and overlapping, by the threshold at least.
Similar(call, p) ==
    /\ call.detections[p.detection].class = call.tracks[p.track].class
    /\ ~MoreThan(call.threshold, p.iou)
    /\ MoreThan(p.iou, NoOverlap)

\* mutant: the first pair over the threshold is taken, not the best one
BetterFirst(call, p) == ~Used(call, p) /\ Similar(call, p) /\ call.best = NoMatch
\* No best yet is an overlap of nothing: a pair has to overlap at all.
Better(call, p) == ~Used(call, p) /\ Similar(call, p) /\ MoreThan(p.iou, call.best.iou)

\* The body of the inner loops.
Looking(call) == call.d <= Len(call.detections)
LookAtPair(call) ==
    LET p == Pair(call, call.d, call.t)
        last == call.t = Len(call.tracks)
    IN  [call EXCEPT !.best = IF Better(call, p) THEN p ELSE @,
                     !.d = IF last THEN @ + 1 ELSE @,
                     !.t = IF last THEN 1 ELSE @ + 1]

\* The end of a round.
TakeBest(call) == [call EXCEPT !.matches = Append(@, call.best), !.best = NoMatch, !.d = 1, !.t = 1]
==============================================================================
