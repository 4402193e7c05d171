--------------------------- MODULE SerialRequests ---------------------------
(***************************************************************************)
(* What USaveManager promises of the save and load requests it is given:   *)
(* they are served one at a time, in the order they were made, and the     *)
(* next one is taken up the moment the one before it is done.  Nothing is  *)
(* said of how a request is served or of whether it succeeds.              *)
(***************************************************************************)
EXTENDS Naturals, Sequences, FiniteSets

CONSTANT Request            \* the requests that may ever be made

VARIABLES
    log,                    \* every request made, in order
    done,                   \* how many of them have been served
    serving                 \* the request being served, as a set

vars == <<log, done, serving>>

TypeOK ==
    /\ log \in Seq(Request)
    /\ done \in Nat
    /\ serving \in SUBSET Request

Init ==
    /\ log = <<>>
    /\ done = 0
    /\ serving = {}

(* A request is logged once; an idle server takes it up at once. *)
Submit(r) ==
    /\ \A i \in 1..Len(log) : log[i] # r
    /\ log' = Append(log, r)
    /\ serving' = IF serving = {} THEN {r} ELSE serving
    /\ UNCHANGED done

(* The request in service ends and the one made next, if any, starts. *)
Complete ==
    /\ serving # {}
    /\ done' = done + 1
    /\ serving' = IF done + 1 < Len(log) THEN {log[done + 2]} ELSE {}
    /\ UNCHANGED log

Next == Complete \/ \E r \in Request : Submit(r)

Spec == Init /\ [][Next]_vars

=============================================================================
