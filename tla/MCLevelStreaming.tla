-------------------------- MODULE MCLevelStreaming --------------------------
(* LevelStreaming with two interchangeable sublevels. *)
EXTENDS LevelStreaming, TLC

CONSTANTS West, East, S0, S1

MCLevel == {West, East}
MCState == {S0, S1}
MCSymmetry == Permutations(MCLevel)

=============================================================================
