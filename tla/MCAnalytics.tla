----------------------------- MODULE MCAnalytics -----------------------------
(***************************************************************************)
(* What the inference worker does with the detections of a frame: the      *)
(* tracker and then the rules.  They share no state, and the rules are     *)
(* given any tracks at all, those of the tracker among them; so that it is *)
(* enough to let either move while the other one is as it was made.        *)
(*                                                                         *)
(* The rules get two tracks, of which the filter may ignore one, that move *)
(* among both sides of a line, the line itself and its prolongation.       *)
(***************************************************************************)
EXTENDS ByteTrack, TrackRules

CONSTANTS t1, t2

At(i, j) == [x |-> i, y |-> j]

MCIds == {t1, t2}
MCFilters == {{t1}, {t1, t2}}
MCFeet == {At(0, 0), At(1, 1), At(2, 0), At(2, 3), At(0, 3)}
MCRoi == {At(2, 0), At(1, 1)}
\* A vertical segment that the moves between the upper points pass by, and a
\* slanted one that some moves touch at its end.
MCLines == {[a |-> At(1, -1), b |-> At(1, 2)], [a |-> At(3, 1), b |-> At(1, 0)]}
MCGaps == {1, 2}

MCInit == Init /\ RulesInit
MCNext == \/ RulesInit /\ Next /\ UNCHANGED rulesVars
          \/ Init /\ RulesNext /\ UNCHANGED vars
MCSpec == MCInit /\ [][MCNext]_<<vars, rulesVars>>
==============================================================================
