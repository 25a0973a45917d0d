-------------------------------- MODULE Boxes --------------------------------
(***************************************************************************)
(* Rectangles of pixels, as cv::Rect has them, and how much two of them    *)
(* overlap.  A ratio is a pair of integers, compared by their products.    *)
(***************************************************************************)
EXTENDS Integers

Lesser(a, b) == IF a <= b THEN a ELSE b
Greater(a, b) == IF a >= b THEN a ELSE b

Rect(x, y, width, height) == [x |-> x, y |-> y, width |-> width, height |-> height]
FrameRect(size) == Rect(0, 0, size.width, size.height)
Empty(box) == box.width <= 0 \/ box.height <= 0
Area(box) == box.width * box.height

\* operator& of cv::Rect: nothing in common is the rectangle of zeros.
Meet(a, b) ==
    LET x == Greater(a.x, b.x)
        y == Greater(a.y, b.y)
        both == Rect(x, y, Lesser(a.x + a.width, b.x + b.width) - x,
                           Lesser(a.y + a.height, b.y + b.height) - y)
    IN  IF Empty(both) THEN Rect(0, 0, 0, 0) ELSE both

\* cv::Rect of two corners, in whichever order they come.
Corners(x1, y1, x2, y2) ==
    Rect(Lesser(x1, x2), Lesser(y1, y2),
         Greater(x1, x2) - Lesser(x1, x2), Greater(y1, y2) - Lesser(y1, y2))

\* A conversion to int, and a division of two of them, cut off towards zero.
Quotient(n, d) == IF n >= 0 THEN n \div d ELSE -((-n) \div d)

MoreThan(p, q) == p[1] * q[2] > q[1] * p[2]
NoOverlap == <<0, 1>>
IntersectionOverUnion(a, b) ==
    LET inter == Area(Meet(a, b))
    IN  IF Empty(a) \/ Empty(b) \/ inter = 0 THEN NoOverlap
        ELSE <<inter, Area(a) + Area(b) - inter>>
==============================================================================
