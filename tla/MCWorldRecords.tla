---------------------------- MODULE MCWorldRecords ----------------------------
(* A level with an actor that is saved, an empty place and an actor that   *)
(* is not, and a streaming level; four threads make two tasks per level.   *)
EXTENDS WorldRecords, TLC

CONSTANTS main, sub, n1, n2, f1, f2, A, B, U

MCLevels == <<main, sub>>
ActorOf(n, c) == [name |-> n, class |-> c, value |-> 1, ref |-> None]
MCStartWorld == main :> <<ActorOf(n1, A), NoActor, ActorOf(n2, U)>> @@ sub :> <<ActorOf(n1, B)>>
=============================================================================
