---------------------------- MODULE MCDetectors ----------------------------
(***************************************************************************)
(* The detector of mode Object with its engines, and the computations of   *)
(* module Perception.  Those keep nothing from call to call, so it is      *)
(* enough to call them before there is an engine.  Coordinates are in      *)
(* quarters of the frame, scores in halves.                                *)
(***************************************************************************)
EXTENDS MCObjectDetector, Perception

MCInit == Init /\ NothingComputed
MCNext == \/ computed = Nothing /\ Next /\ UNCHANGED computed
          \/ engine = None /\ engines = 0 /\ model = Missing /\ ~hasTensorRT /\ Compute /\ UNCHANGED vars
MCSpec == MCInit /\ [][MCNext]_<<vars, computed>>
MCSymmetry == Permutations(Frames)

Size(width, height) == [width |-> width, height |-> height]
MCFrameSizes == {Size(4, 3), Size(3, 2), Size(0, 0)}

Row(box, objectness, scores) ==
    [cx |-> box[1], cy |-> box[2], width |-> box[3], height |-> box[4],
     objectness |-> objectness, scores |-> scores]
\* The whole frame, its middle, two halves, one across the right edge, one
\* across the left, one beside the frame.
MCObjectBoxes == {<<2, 2, 4, 4>>, <<2, 2, 2, 2>>, <<1, 2, 2, 4>>, <<4, 2, 2, 4>>,
                  <<-1, 2, 4, 4>>, <<6, 2, 1, 1>>}
MCRows == {Row(box, objectness, scores) : box \in MCObjectBoxes, objectness \in {1, 2},
                                          scores \in {<<1, 1>>, <<0, 2>>, <<2, 1>>}}
\* Three in a row, each of which overlaps its neighbours only.
MCChain == {Row(<<x, 2, 2, 4>>, confidence[1], <<confidence[2]>>) :
               x \in {1, 2, 3}, confidence \in {<<1, 1>>, <<2, 1>>, <<2, 2>>}}
MCYoloOutputs == SeqOf(MCRows, 2) \cup [1..3 -> MCChain]
MCMostOverlaps == {<<1, 4>>, <<1, 2>>}

Face(confidence, corners) == [confidence |-> confidence, x1 |-> corners[1], y1 |-> corners[2],
                              x2 |-> corners[3], y2 |-> corners[4]]
\* Inside, reaching out, with its corners swapped, and outside.
MCFaces == {Face(confidence, corners) : confidence \in {1, 2},
               corners \in {<<1, 0, 3, 4>>, <<-2, -3, 2, 5>>, <<4, 3, 0, 1>>, <<5, 1, 7, 3>>}}
MCSsdOutputs == [rows : SeqOf(MCFaces, 2), columns : {6, 7}]

MCBoxes == {Rect(0, 0, 2, 2), Rect(1, 0, 2, 2), Rect(0, 0, 3, 2), Rect(3, 2, 1, 1), Rect(0, 0, 0, 0)}
MCContourLists == SeqOf([area : {0, 1, 2}, bounds : MCBoxes], 2)
MCObjects == [class : {1, 2}, box : MCBoxes]
MCObjectLists == SeqOf(MCObjects, 2)
MCLeastOverlaps == {<<0, 1>>, <<1, 2>>}

MCItems == {Size(8, 4), Size(3, 6), Size(4, 3), Size(0, 4)}
MCClicks == [x : 0..8, y : 0..6]
==============================================================================
