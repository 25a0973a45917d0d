------------------------------ MODULE Letterbox ------------------------------
(***************************************************************************)
(* Where the video is drawn inside the item that shows it: scaled alike in *)
(* both directions, centred, with bars at the sides.  Lengths are in parts *)
(* of Fine(frame), with which every quotient of the code is a whole number;*)
(* a scale and a point of the frame are pairs of integers.                 *)
(***************************************************************************)
EXTENDS Integers

CONSTANT NoPoint

Fine(frame) == 2 * frame.width * frame.height
Fits(frame, item) == \A size \in {frame, item} : size.width > 0 /\ size.height > 0

Scale(item, frame) ==
    IF item.width * frame.height <= item.height * frame.width
      THEN <<item.width, frame.width>> ELSE <<item.height, frame.height>>

ComputeLetterbox(item, frame) ==
    IF ~Fits(frame, item)
      THEN [scale |-> <<0, 1>>, contentW |-> 0, contentH |-> 0, offsetX |-> 0, offsetY |-> 0]
      ELSE LET scale == Scale(item, frame)
               w == (frame.width * scale[1] * Fine(frame)) \div scale[2]
               h == (frame.height * scale[1] * Fine(frame)) \div scale[2]
           IN  [scale |-> scale, contentW |-> w, contentH |-> h,
                offsetX |-> (item.width * Fine(frame) - w) \div 2,
                offsetY |-> (item.height * Fine(frame) - h) \div 2]

\* mutant: a point beside the picture is mapped like one on it
ItemToFrameAnywhere(box, point, frame) ==
    LET x == point.x * Fine(frame) - box.offsetX
        y == point.y * Fine(frame) - box.offsetY
        fine == box.scale[1] * Fine(frame)
    IN  IF box.scale[1] = 0 THEN NoPoint
        ELSE [x |-> <<x * box.scale[2], fine>>, y |-> <<y * box.scale[2], fine>>]
ItemToFrame(box, point, frame) ==
    LET x == point.x * Fine(frame) - box.offsetX
        y == point.y * Fine(frame) - box.offsetY
        fine == box.scale[1] * Fine(frame)
    IN  IF \/ box.scale[1] = 0
           \/ x < 0 \/ y < 0 \/ x > box.contentW \/ y > box.contentH
          THEN NoPoint
          ELSE [x |-> <<x * box.scale[2], fine>>, y |-> <<y * box.scale[2], fine>>]

FrameToItem(box, point, frame) ==
    IF box.scale[1] = 0 THEN NoPoint
    ELSE [x |-> box.offsetX + (point.x * box.scale[1] * Fine(frame)) \div box.scale[2],
          y |-> box.offsetY + (point.y * box.scale[1] * Fine(frame)) \div box.scale[2]]
==============================================================================
