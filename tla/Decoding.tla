------------------------------ MODULE Decoding ------------------------------
(***************************************************************************)
(* How the detectors turn what a network or a background model returns     *)
(* into detections: yolo::decodeDetections with the suppression of OpenCV, *)
(* ssd::decodeDetections for FaceDetector, and MotionDetector::detect.     *)
(*                                                                         *)
(* The coordinates of a row are fractions of the frame, here in parts of   *)
(* Unit; an objectness or a class score is in parts of Levels, hence their *)
(* product and every threshold of confidence in parts of Levels * Levels.  *)
(* All outputs of a YOLO network are walked through as one list of rows.   *)
(* The detections of a frame are numbered by the rows or contours they     *)
(* come from; their order in the vector is left out.                       *)
(***************************************************************************)
EXTENDS Boxes, Sequences

CONSTANTS Unit, Levels

At(part, whole) == Quotient(part * whole, Unit)
------------------------------------------------------------------------------
\* The first of the best classes, as cv::minMaxLoc reports it.
BestClass(scores) == CHOOSE c \in DOMAIN scores :
    \A d \in DOMAIN scores : scores[d] < scores[c] \/ (scores[d] = scores[c] /\ c <= d)

\* mutant: the box is not cut to the frame
CenteredBoxUncut(row, size) ==
    LET w == At(row.width, size.width)
        h == At(row.height, size.height)
    IN  Rect(At(row.cx, size.width) - Quotient(w, 2), At(row.cy, size.height) - Quotient(h, 2), w, h)
CenteredBox(row, size) ==
    LET w == At(row.width, size.width)
        h == At(row.height, size.height)
    IN  Meet(Rect(At(row.cx, size.width) - Quotient(w, 2),
                  At(row.cy, size.height) - Quotient(h, 2), w, h), FrameRect(size))

Candidate(row, size) ==
    LET best == BestClass(row.scores)
    IN  [class |-> best, confidence |-> row.objectness * row.scores[best],
         box |-> CenteredBox(row, size)]

\* The three reasons to pass a row over, the cheapest first.
IsCandidate(row, size, threshold) ==
    /\ row.objectness * Levels >= threshold
    /\ Candidate(row, size).confidence >= threshold
    /\ ~Empty(CenteredBox(row, size))
Candidates(rows, size, threshold) ==
    [i \in {i \in DOMAIN rows : IsCandidate(rows[i], size, threshold)} |-> Candidate(rows[i], size)]

\* cv::dnn::NMSBoxes: of the candidates above the threshold the most certain one
\* is kept, and what overlaps it too much is dropped, until none is left.
MostCertain(found, left) == CHOOSE i \in left : \A j \in left :
    found[j].confidence < found[i].confidence \/ (found[j].confidence = found[i].confidence /\ i <= j)
TooAlike(found, i, j, most) == MoreThan(IntersectionOverUnion(found[i].box, found[j].box), most)
NMSBoxes(found, threshold, most) ==
    LET Kept[left \in SUBSET DOMAIN found] ==
            IF left = {} THEN {}
            ELSE LET best == MostCertain(found, left)
                 IN  {best} \cup Kept[{j \in left \ {best} : ~TooAlike(found, best, j, most)}]
    IN  Kept[{i \in DOMAIN found : found[i].confidence > threshold}]

YoloDetections(rows, size, threshold, most) ==
    LET found == Candidates(rows, size, threshold)
    IN  [i \in NMSBoxes(found, threshold, most) |-> found[i]]
------------------------------------------------------------------------------
FaceClass == 0
\* The corners of a face may lie outside the frame.
FaceBox(row, size) ==
    Meet(Corners(At(row.x1, size.width), At(row.y1, size.height),
                 At(row.x2, size.width), At(row.y2, size.height)), FrameRect(size))
\* Anything but a 1 x 1 x N x 7 output means no faces.
SsdDetections(output, size, threshold) ==
    LET IsFace(row) == row.confidence >= threshold /\ ~Empty(FaceBox(row, size))
        faces == {i \in DOMAIN output.rows : IsFace(output.rows[i])}
    IN  IF output.columns < 7 THEN <<>>
        ELSE [i \in faces |-> [class |-> FaceClass, confidence |-> output.rows[i].confidence,
                               box |-> FaceBox(output.rows[i], size)]]
\* FaceDetector::detect: a detector without a model sees no faces.
FaceDetections(ready, output, size, threshold) ==
    IF ~ready \/ Area(size) = 0 THEN <<>> ELSE SsdDetections(output, size, threshold)

MotionClass == -1
\* MotionDetector::detect, after the background model and the contours.
MotionDetections(contours, size, minArea) ==
    LET IsLarge(c) == c.area >= minArea /\ ~Empty(Meet(c.bounds, FrameRect(size)))
        moved == {i \in DOMAIN contours : IsLarge(contours[i])}
    IN  [i \in moved |-> [class |-> MotionClass, confidence |-> Levels * Levels,
                          box |-> Meet(contours[i].bounds, FrameRect(size))]]
==============================================================================
