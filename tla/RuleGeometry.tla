---------------------------- MODULE RuleGeometry ----------------------------
(***************************************************************************)
(* The geometry the rules share: on which side of a directed line a point  *)
(* lies, whether two segments meet, and whether a move crosses a segment.  *)
(* Points have integer coordinates (a unit is half a pixel: a foot point   *)
(* is the middle of a box's lower edge), so that the tolerance of 1e-6 of  *)
(* the code is that of exact arithmetic.                                   *)
(***************************************************************************)
EXTENDS Integers

Points == [x : Int, y : Int]

Minus(p, q) == [x |-> p.x - q.x, y |-> p.y - q.y]
Cross2(u, v) == u.x * v.y - u.y * v.x
Sign(n) == IF n = 0 THEN 0 ELSE IF n > 0 THEN 1 ELSE -1
AtMost(a, b, c) == a <= b \/ a <= c   \* a <= max(b, c)

Orientation(p, q, r) == Sign(Cross2(Minus(q, p), Minus(r, p)))

\* q, known to be collinear with p and r, lies in their bounding box.
OnSegment(p, q, r) == /\ AtMost(q.x, p.x, r.x) /\ AtMost(-q.x, -p.x, -r.x)
                      /\ AtMost(q.y, p.y, r.y) /\ AtMost(-q.y, -p.y, -r.y)

SegmentsIntersect(p1, p2, q1, q2) ==
    LET o1 == Orientation(p1, p2, q1)
        o2 == Orientation(p1, p2, q2)
        o3 == Orientation(q1, q2, p1)
        o4 == Orientation(q1, q2, p2)
    IN  /\ p1 # p2
        /\ q1 # q2
        /\ \/ o1 # o2 /\ o3 # o4
           \/ o1 = 0 /\ OnSegment(p1, q1, p2)
           \/ o2 = 0 /\ OnSegment(p1, q2, p2)
           \/ o3 = 0 /\ OnSegment(q1, p1, q2)
           \/ o4 = 0 /\ OnSegment(q1, p2, q2)

LineSide(point, a, b) == IF a = b THEN 0 ELSE Orientation(a, b, point)

Directions == {"None", "Forward", "Reverse"}

\* mutant: the line is taken for endless
ClassifyEndless(previous, current, a, b) ==
    LET previousSide == LineSide(previous, a, b)
        currentSide == LineSide(current, a, b)
    IN  IF previousSide = 0 \/ currentSide = 0 \/ previousSide = currentSide
        THEN "None"
        ELSE IF previousSide > 0 THEN "Forward" ELSE "Reverse"
ClassifyCrossing(previous, current, a, b) ==
    LET previousSide == LineSide(previous, a, b)
        currentSide == LineSide(current, a, b)
    IN  IF \/ previousSide = 0
           \/ currentSide = 0
           \/ previousSide = currentSide
           \/ ~SegmentsIntersect(previous, current, a, b)
        THEN "None"
        ELSE IF previousSide > 0 THEN "Forward" ELSE "Reverse"
==============================================================================
