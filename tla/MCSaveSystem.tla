---------------------------- MODULE MCSaveSystem ----------------------------
(* A small instance of SaveSystem: two requests, two slots, two maps and   *)
(* two states of the game.  Two requests are the least at which a load can *)
(* wait for a save of the same slot, or a save for a load.                 *)
EXTENDS SaveSystem

CONSTANTS t1, t2, s1, s2, A, B, x, y

MCTask == {t1, t2}
MCSlot == {s1, s2}
MCMap == {A, B}
MCState == {x, y}

(* Files on pool threads, and not; loads split over frames, and not. *)
Async == [asyncSave |-> TRUE, asyncLoad |-> TRUE, split |-> FALSE]
Split == [asyncSave |-> TRUE, asyncLoad |-> TRUE, split |-> TRUE]
Sync == [asyncSave |-> FALSE, asyncLoad |-> FALSE, split |-> FALSE]
MCPreset == {Async, Split, Sync}

(* Saves that override and that do not; loads have no use for the rest.   *)
(* Screenshots are left to the liveness run.                               *)
Saves == [kind : {"save"}, slot : Slot, override : BOOLEAN, shot : BOOLEAN]
Loads == [kind : {"load"}, slot : Slot, override : {FALSE}, shot : {FALSE}]
MCAsked == {r \in Saves : ~r.shot} \cup Loads
MCAskedAll == Saves \cup Loads

(* No file, a torn one, one of another map. *)
MCOldFile == {Missing, Torn, [map |-> B, state |-> y]}

(* For liveness, which symmetry does not preserve: one slot, last saved on *)
(* the other map, one state of the game, and of the loads that read on a   *)
(* pool thread those over many frames.                                     *)
MCTwoPresets == {Split, Sync}
MCOneSlot == {s1}
MCOneState == {x}
MCOldElsewhere == {[map |-> B, state |-> x]}

MCSymmetry == Permutations(MCTask) \cup Permutations(MCSlot)

=============================================================================
