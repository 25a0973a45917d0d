----------------------------- MODULE Perception -----------------------------
(***************************************************************************)
(* The computations on one frame that keep no state between frames, each   *)
(* called once with every input of small sets: what the detectors make of  *)
(* the answer of a network, where a click on the picture lands, and how    *)
(* detections and tracks are paired, which is a loop and takes a step for  *)
(* each pair it looks at; and the latency windows, which are filled and    *)
(* reset for as long as one likes.                                         *)
(***************************************************************************)
EXTENDS Decoding, GreedyMatching, StatsProbe, Letterbox, SequencesExt

CONSTANTS FrameSizes,      \* sizes of a frame, an empty one among them
          YoloOutputs,     \* lists of rows
          SsdOutputs,      \* face outputs
          ContourLists,    \* what moves
          Thresholds,      \* of confidence
          MostOverlaps,    \* nmsThreshold
          DetectionLists, TrackLists, LeastOverlaps,
          Items, Clicks,   \* sizes of the item and points of it
          WindowSize,      \* 256 in the code
          Latencies

Rects == [x : Int, y : Int, width : Int, height : Int]
\* Certainties are between 0 and 1: the last layer of the network sees to that.
YoloRows == [cx : Int, cy : Int, width : Int, height : Int,
             objectness : 0..Levels, scores : Seq(0..Levels) \ {<<>>}]
SsdRows == [confidence : Int, x1 : Int, y1 : Int, x2 : Int, y2 : Int]
ASSUME PerceptionAssumption ==
    /\ DetectionLists \subseteq Seq([class : Nat, box : Rects])
    /\ TrackLists \subseteq Seq([class : Nat, box : Rects])
    /\ FrameSizes \cup Items \subseteq [width : Int, height : Int]
    /\ Clicks \subseteq [x : Int, y : Int]
    /\ NoPoint \notin [x : Int \X Int, y : Int \X Int]
    /\ WindowSize \in Nat \ {0} /\ Latencies \subseteq Int
    /\ Unit \in Nat \ {0} /\ Levels \in Nat
    /\ YoloOutputs \subseteq Seq(YoloRows) /\ Thresholds \subseteq Int
    /\ MostOverlaps \subseteq Int \X (Nat \ {0})
    /\ SsdOutputs \subseteq [rows : Seq(SsdRows), columns : Int]
    /\ ContourLists \subseteq Seq([area : Int, bounds : Rects])

VARIABLE computed  \* the operation, what it was given and what it returned

Nothing == [op |-> "none"]
NothingComputed == computed = Nothing

DecodeYolo ==
    /\ computed = Nothing
    /\ \E rows \in YoloOutputs, size \in FrameSizes, threshold \in Thresholds, most \in MostOverlaps :
          computed' = [op |-> "yolo", rows |-> rows, size |-> size, threshold |-> threshold, most |-> most,
                   detections |-> YoloDetections(rows, size, threshold, most)]
DetectFaces ==
    /\ computed = Nothing
    /\ \E ready \in BOOLEAN, output \in SsdOutputs, size \in FrameSizes, threshold \in Thresholds :
          computed' = [op |-> "faces", ready |-> ready, output |-> output, size |-> size, threshold |-> threshold,
                   detections |-> FaceDetections(ready, output, size, threshold)]
DetectMotion ==
    /\ computed = Nothing
    /\ \E contours \in ContourLists, size \in FrameSizes, minArea \in {1, 2} :
          computed' = [op |-> "motion", contours |-> contours, size |-> size, minArea |-> minArea,
                   detections |-> MotionDetections(contours, size, minArea)]
Associate ==
    /\ computed = Nothing
    /\ \E detections \in DetectionLists, tracks \in TrackLists, threshold \in LeastOverlaps :
          LET call == NewCall(detections, tracks, threshold)
          IN  computed' = [op |-> IF Trivial(call) THEN "associated" ELSE "associate", call |-> call]
AssociateLooks ==
    /\ computed.op = "associate"
    /\ Looking(computed.call)
    /\ computed' = [computed EXCEPT !.call = LookAtPair(@)]
AssociateTakes ==
    /\ computed.op = "associate"
    /\ ~Looking(computed.call)
    /\ computed.call.best # NoMatch
    /\ computed' = [computed EXCEPT !.call = TakeBest(@)]
AssociateReturns ==
    /\ computed.op = "associate"
    /\ ~Looking(computed.call)
    /\ computed.call.best = NoMatch
    /\ computed' = [computed EXCEPT !.op = "associated"]
MapClick ==
    /\ computed = Nothing
    /\ \E item \in Items, frame \in FrameSizes, click \in Clicks :
          computed' = [op |-> "map", item |-> item, frame |-> frame, click |-> click,
                   point |-> ItemToFrame(ComputeLetterbox(item, frame), click, frame)]

\* The probe of one pipeline; `newest' are the samples of each stage since the
\* last reset, as far back as the window is to reach.
Probe == IF computed = Nothing
           THEN [op |-> "probe", probe |-> NewProbe, newest |-> [stage \in Stages |-> <<>>]]
           ELSE computed
Sampled(stage, ms) ==
    LET all == Append(Probe.newest[stage], ms)
    IN  [Probe.newest EXCEPT ![stage] = IF Len(all) > WindowSize THEN Tail(all) ELSE all]
Measured(stage, ms, probe) ==
    computed' = [Probe EXCEPT !.probe = probe, !.newest = Sampled(stage, ms)]
Measure ==
    /\ computed.op \in {"none", "probe"}
    /\ \E ms \in Latencies :
          \/ Measured("inference", ms, OnInferred(Probe.probe, WindowSize, ms))
          \/ Measured("tracking", ms, OnTracked(Probe.probe, WindowSize, ms))
          \/ Measured("rules", ms, OnRuled(Probe.probe, WindowSize, ms))
ResetMeasures ==
    /\ computed.op = "probe"
    /\ computed' = [Probe EXCEPT !.probe = ResetProbe(@), !.newest = [stage \in Stages |-> <<>>]]

Return == computed.op \notin {"none", "associate", "probe"} /\ computed' = Nothing

Compute == \/ DecodeYolo \/ DetectFaces \/ DetectMotion \/ MapClick
           \/ Associate \/ AssociateLooks \/ AssociateTakes \/ AssociateReturns
           \/ Measure \/ ResetMeasures \/ Return

PerceptionSpec == NothingComputed /\ [][Compute]_computed
------------------------------------------------------------------------------
Pixels(box) == ((box.x)..(box.x + box.width - 1)) \X ((box.y)..(box.y + box.height - 1))
FramePixels(size) == Pixels(FrameRect(size))
TooClose(a, b) == MoreThan(<<Cardinality(a \cap b), Cardinality(a \cup b)>>, computed.most)

\* What a row claims: how sure it is, and which pixels it means.
Sureness(row) == LET best == CHOOSE s \in Range(row.scores) : \A t \in Range(row.scores) : t <= s
                 IN  row.objectness * best
Meant(row) == LET w == At(row.width, computed.size.width)
                  h == At(row.height, computed.size.height)
                  left == At(row.cx, computed.size.width) - Quotient(w, 2)
                  top == At(row.cy, computed.size.height) - Quotient(h, 2)
              IN  {p \in FramePixels(computed.size) : /\ left <= p[1] /\ p[1] < left + w
                                                  /\ top <= p[2] /\ p[2] < top + h}
ObjectsExplained ==
    LET kept == Range(computed.detections)
        sure == {row \in Range(computed.rows) : Sureness(row) > computed.threshold /\ Meant(row) # {}}
        Shows(d, row) == /\ Pixels(d.box) = Meant(row)
                         /\ d.confidence = Sureness(row)
                         /\ row.objectness * row.scores[d.class] = Sureness(row)
    IN  /\ \A d \in kept : \E row \in sure : Shows(d, row)
        /\ \A i, j \in DOMAIN computed.detections :
              i # j => ~TooClose(Pixels(computed.detections[i].box), Pixels(computed.detections[j].box))
        /\ \A row \in sure : \E d \in kept :
              /\ d.confidence >= Sureness(row)
              /\ Shows(d, row) \/ TooClose(Pixels(d.box), Meant(row))

FacePixels(row) ==
    LET Between(v, a, b) == (a <= v /\ v < b) \/ (b <= v /\ v < a)
    IN  {p \in FramePixels(computed.size) :
            /\ Between(p[1], At(row.x1, computed.size.width), At(row.x2, computed.size.width))
            /\ Between(p[2], At(row.y1, computed.size.height), At(row.y2, computed.size.height))}
FacesExplained ==
    LET sure == {row \in Range(computed.output.rows) : row.confidence >= computed.threshold}
    IN  {Pixels(d.box) : d \in Range(computed.detections)} =
            IF computed.ready /\ computed.output.columns >= 7
              THEN {FacePixels(row) : row \in sure} \ {{}} ELSE {}

MotionExplained ==
    {Pixels(d.box) : d \in Range(computed.detections)} =
        {Pixels(c.bounds) \cap FramePixels(computed.size) :
            c \in {c \in Range(computed.contours) : c.area >= computed.minArea}} \ {{}}

\* The detections are the visible part of what the network or the background
\* model claims with certainty: none of them is empty or reaches out of the
\* frame, no two objects overlap too much, and every claim above the threshold
\* is there, unless one that is as certain overlaps it too much.  That the
\* decoder gives up on a row by its objectness alone loses nothing.
DetectionsExplained ==
    /\ computed.op = "yolo" => ObjectsExplained
    /\ computed.op = "faces" => FacesExplained
    /\ computed.op = "motion" => MotionExplained

\* Detections and tracks are paired so that no two would rather have each
\* other: each is used once, pairs are of one class and overlap enough, and of
\* a detection and a track that could be paired and are not, one has a partner
\* that overlaps it as much.
AssociationStable ==
    computed.op = "associated" =>
        LET call == computed.call
            matches == call.matches
            Overlap(d, t) == Pair(call, d, t).iou
            Possible(d, t) == Similar(call, Pair(call, d, t))
        IN  /\ \A i \in DOMAIN matches : Possible(matches[i].detection, matches[i].track)
            /\ \A i, j \in DOMAIN matches :
                  i # j => /\ matches[i].detection # matches[j].detection
                           /\ matches[i].track # matches[j].track
            /\ \A d \in DOMAIN call.detections, t \in DOMAIN call.tracks :
                  Possible(d, t) =>
                    \E i \in DOMAIN matches :
                        /\ matches[i].detection = d \/ matches[i].track = t
                        /\ ~MoreThan(Overlap(d, t), Overlap(matches[i].detection, matches[i].track))

\* A click between the corners of the picture as it is drawn, its edges included,
\* returns the point of the frame that is drawn there, and a click on the bars
\* beside it returns nothing; the picture is whole, as large as the item allows,
\* and lies in its middle, so that a click on the other side returns the point on
\* the other side.
ClicksLandWhereDrawn ==
    computed.op = "map" =>
        LET box == ComputeLetterbox(computed.item, computed.frame)
            fine == Fine(computed.frame)
            across == ItemToFrame(box, [x |-> computed.item.width - computed.click.x,
                                        y |-> computed.item.height - computed.click.y], computed.frame)
            Is(ratio, n) == ratio[1] = n * ratio[2]
            near == FrameToItem(box, [x |-> 0, y |-> 0], computed.frame)
            far == FrameToItem(box, [x |-> computed.frame.width, y |-> computed.frame.height], computed.frame)
        IN  IF ~Fits(computed.frame, computed.item) THEN computed.point = NoPoint
            ELSE /\ computed.point # NoPoint <=>
                      /\ near.x <= computed.click.x * fine /\ computed.click.x * fine <= far.x
                      /\ near.y <= computed.click.y * fine /\ computed.click.y * fine <= far.y
                 /\ computed.point # NoPoint =>
                      /\ Is(<<computed.point.x[1] + across.x[1], across.x[2]>>, computed.frame.width)
                      /\ Is(<<computed.point.y[1] + across.y[1], across.y[2]>>, computed.frame.height)
                 /\ \A x \in 0..computed.frame.width, y \in 0..computed.frame.height :
                      FrameToItem(box, [x |-> x, y |-> y], computed.frame)
                            = [x |-> computed.click.x * fine, y |-> computed.click.y * fine] =>
                        computed.point # NoPoint /\ Is(computed.point.x, x) /\ Is(computed.point.y, y)
                 /\ far.x <= computed.item.width * fine /\ far.y <= computed.item.height * fine
                 /\ far.x = computed.item.width * fine \/ far.y = computed.item.height * fine

\* The samples of a stage are those of its newest frames, all of them and none
\* from before the last start: round the ring from the oldest, they are in order.
WindowsHoldNewest ==
    computed.op = "probe" =>
        \A stage \in Stages :
            LET ring == computed.probe[stage].samples
                newest == computed.newest[stage]
            IN  /\ Len(ring) = Len(newest)
                /\ \E oldest \in 0..Len(ring) : \A i \in DOMAIN newest :
                       newest[i] = ring[((oldest + i - 1) % Len(ring)) + 1]

SumOf(list) == LET Sum[i \in 0..Len(list)] == IF i = 0 THEN 0 ELSE Sum[i - 1] + list[i]
               IN  Sum[Len(list)]
\* The latencies shown are those of the newest frames of the stage they are
\* shown for: the means are theirs, half of them are at most and half at least
\* the median, and the upper percentile lies between the median and the longest.
LatenciesExplained ==
    computed.op = "probe" =>
        LET IsMean(mean, list) == mean[1] * Len(list) = SumOf(list) * mean[2]
            newest == computed.newest["inference"]
            shown == Snapshot(computed.probe)
            AtMost(v) == Cardinality({i \in DOMAIN newest : 100 * newest[i] <= v})
            AtLeast(v) == Cardinality({i \in DOMAIN newest : 100 * newest[i] >= v})
        IN  /\ IsMean(shown.avgInference, newest)
            /\ IsMean(shown.avgTracking, computed.newest["tracking"])
            /\ IsMean(shown.avgRules, computed.newest["rules"])
            /\ 2 * AtMost(shown.p50Inference) >= Len(newest)
            /\ 2 * AtLeast(shown.p50Inference) >= Len(newest)
            /\ shown.p50Inference <= shown.p95Inference
            /\ newest # <<>> => AtLeast(shown.p95Inference) > 0
==============================================================================
