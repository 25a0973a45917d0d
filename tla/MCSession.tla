----------------------------- MODULE MCSession -----------------------------
(***************************************************************************)
(* Three libraries, two of them with one id, for two of the modes; a line  *)
(* tool and a polygon tool.                                                *)
(***************************************************************************)
EXTENDS Session, TLC

CONSTANTS p, q

MCPlugins == {"face", "face2", "yolo"}
MCPluginId == [face |-> "vision.face", face2 |-> "vision.face", yolo |-> "vision.yolo"]
MCPluginMode == [face |-> "Face", face2 |-> "Face", yolo |-> "Object"]
MCModes == {"Face", "Object"}
MCTools == {"Line", "Loiter"}
MCPoints == {p, q}
MCSeconds == {0, 1}
MCSymmetry == Permutations({p, q})
==============================================================================
