-------------------------- MODULE MCFrameSplitLoad --------------------------
(***************************************************************************)
(* Two sublevels, two actors in the persistent level and in the first of   *)
(* them, one in the second.                                                *)
(***************************************************************************)
EXTENDS FrameSplitLoad

CONSTANTS p1, p2, a1, a2, b1

MCActor == {p1, p2, a1, a2, b1}
MCLevelOf == [a \in MCActor |-> IF a \in {p1, p2} THEN 0 ELSE IF a \in {a1, a2} THEN 1 ELSE 2]
=============================================================================
