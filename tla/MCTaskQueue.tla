---------------------------- MODULE MCTaskQueue ----------------------------
(* A small instance of TaskQueue: three requests and two presets.  Three   *)
(* is the least at which one task runs, one is next and one can overtake.  *)
EXTENDS TaskQueue

CONSTANTS t1, t2, t3, p1, p2

MCTask == {t1, t2, t3}
MCPreset == {p1, p2}

=============================================================================
