------------------------------ MODULE TaskQueue ------------------------------
(***************************************************************************)
(* The task queue of USaveManager: USaveManager::Tasks, CreateTask,        *)
(* FinishTask and Tick, with the life cycle of USlotDataTask (Prepare,     *)
(* Start, Finish).  All of it runs on the game thread, so what can         *)
(* interleave is not threads but calls: OnStart, Tick and OnFinish run     *)
(* user code (delegates, interface events), which makes new requests while *)
(* the queue is in the middle of a call of its own.                        *)
(*                                                                         *)
(* The C++ call stack is modelled by "active" (the virtual function that   *)
(* is executing) and "unwinding" (the calls to Finish below it, waiting    *)
(* for FinishTask to return).  What a task does between Start and Finish   *)
(* is left open here; SaveSystem fills it in.                              *)
(***************************************************************************)
EXTENDS Naturals, Sequences, SequencesExt

CONSTANTS
    Task,                   \* the USlotDataTask objects, one per request
    NoTask,                 \* the null task
    Preset,                 \* the presets the game may activate
    NoPreset,               \* the preset of a task that is not prepared
    DefaultPreset           \* the preset Initialize activates

ASSUME NoTaskAssumption == NoTask \notin Task
ASSUME PresetAssumption == DefaultPreset \in Preset /\ NoPreset \notin Preset

VARIABLES
    tasks,                  \* USaveManager::Tasks
    activePreset,           \* USaveManager::ActivePreset
    preset,                 \* USlotDataTask::Preset of each task
    running,                \* USlotDataTask::bRunning
    finished,               \* USlotDataTask::bFinished
    succeeded,              \* USlotDataTask::bSucceeded
    active,                 \* the task function executing, or NoCall
    unwinding,              \* Finish calls waiting for FinishTask to return
    asking,                 \* the request whose Start is at the bottom of the stack
    answer,                 \* what SaveSlot or LoadSlot returned to its caller
    served                  \* history: the tasks finished, in order

flags == <<running, finished, succeeded>>
stack == <<active, unwinding, asking>>
vars == <<tasks, activePreset, preset, running, finished, succeeded,
          active, unwinding, asking, answer, served>>

Function == {"OnStart", "Tick", "OnFinish"}
Call == [fn : Function, task : Task, ok : BOOLEAN]
NoCall == [fn |-> "none", task |-> NoTask, ok |-> FALSE]
Frame == [task : Task, ok : BOOLEAN]

TypeOK ==
    /\ tasks \in Seq(Task)
    /\ activePreset \in Preset
    /\ preset \in [Task -> Preset \cup {NoPreset}]
    /\ running \in [Task -> BOOLEAN]
    /\ finished \in [Task -> BOOLEAN]
    /\ succeeded \in [Task -> BOOLEAN]
    /\ active \in Call \cup {NoCall}
    /\ unwinding \in Seq(Frame)
    /\ asking \in Task \cup {NoTask}
    /\ answer \in [Task -> {"unasked", "pending", "accepted", "refused"}]
    /\ served \in Seq(Task)

Init ==
    /\ tasks = <<>>
    /\ activePreset = DefaultPreset
    /\ preset = [t \in Task |-> NoPreset]
    /\ running = [t \in Task |-> FALSE]
    /\ finished = [t \in Task |-> FALSE]
    /\ succeeded = [t \in Task |-> FALSE]
    /\ active = NoCall
    /\ unwinding = <<>>
    /\ asking = NoTask
    /\ answer = [t \in Task |-> "unasked"]
    /\ served = <<>>

(* The game thread is outside of the manager. *)
Idle == active = NoCall /\ unwinding = <<>> /\ asking = NoTask

(* Game code runs: outside of the manager, or in a callback of a task. *)
GameCodeRuns == Idle \/ active # NoCall

Scheduled(t) == Contains(tasks, t)

(* TArray::Remove; a task is in the array at most once. *)
Without(q, t) ==
    IF Contains(q, t) THEN RemoveAt(q, CHOOSE i \in 1..Len(q) : q[i] = t) ELSE q

(* Mutant of MayStart: the test for the first place is forgotten. *)
MayStartAnywhere(t, q) == ~running[t] /\ q # <<>>

(* The test in USlotDataTask::Start, for a queue q. *)
MayStart(t, q) == ~running[t] /\ q # <<>> /\ q[1] = t

(* Start of a task that may start: bRunning is set and OnStart begins. *)
Begin(t) ==
    /\ running' = [running EXCEPT ![t] = TRUE]
    /\ active' = [fn |-> "OnStart", task |-> t, ok |-> FALSE]

(* CreateTask<>()->Setup()->Bind()->Start(), in SaveSlot and LoadSlot.  A  *)
(* task that is queued but not started is answered for at once, because    *)
(* IsScheduled holds; one that starts is answered for when Start returns.  *)
CreateTask(t) ==
    /\ GameCodeRuns
    /\ answer[t] = "unasked"
    /\ tasks' = Append(tasks, t)
    /\ preset' = [preset EXCEPT ![t] = activePreset]
    /\ \/ /\ MayStart(t, Append(tasks, t))
          /\ Begin(t)
          /\ answer' = [answer EXCEPT ![t] = "pending"]
          /\ asking' = t
       \/ /\ ~MayStart(t, Append(tasks, t))
          /\ answer' = [answer EXCEPT ![t] = "accepted"]
          /\ UNCHANGED <<running, active, asking>>
    /\ UNCHANGED <<activePreset, finished, succeeded, unwinding, served>>

(* USaveManager::Tick, or an engine callback to the first task. *)
Tick ==
    /\ Idle
    /\ tasks # <<>>
    /\ running[Head(tasks)]
    /\ active' = [fn |-> "Tick", task |-> Head(tasks), ok |-> FALSE]
    /\ UNCHANGED <<tasks, activePreset, preset, flags, unwinding, asking, answer, served>>

(* OnStart or Tick returns and the task goes on in a later frame. *)
Return ==
    /\ active.fn \in {"OnStart", "Tick"}
    /\ active' = NoCall
    /\ UNCHANGED <<tasks, activePreset, preset, flags, unwinding, asking, answer, served>>

(* OnStart or Tick calls Finish(ok), whose first call is OnFinish. *)
Finish(ok) ==
    /\ active.fn \in {"OnStart", "Tick"}
    /\ running[active.task]
    /\ active' = [active EXCEPT !.fn = "OnFinish", !.ok = ok]
    /\ UNCHANGED <<tasks, activePreset, preset, flags, unwinding, asking, answer, served>>

(* FinishTask(active.task) when the array left by Tasks.Remove is "rest". *)
LeaveBehind(rest) ==
    /\ active.fn = "OnFinish"
    /\ tasks' = rest
    /\ unwinding' = Append(unwinding, [task |-> active.task, ok |-> active.ok])
    /\ served' = Append(served, active.task)
    /\ UNCHANGED <<activePreset, preset, finished, succeeded, asking, answer>>

(* Mutants of StartFirst: no test for an empty array; nothing started. *)
StartFirstUnchecked(q) ==
    IF q # <<>> /\ MayStart(q[1], q) THEN Begin(q[1])
    ELSE IF q = <<>> THEN Begin(NoTask) ELSE active' = NoCall /\ UNCHANGED running
StartFirstForgotten(q) == active' = NoCall /\ UNCHANGED running

(* Tasks[0]->Start(), when there is a task. *)
StartFirst(q) ==
    IF q # <<>> /\ MayStart(q[1], q)
    THEN Begin(q[1])
    ELSE active' = NoCall /\ UNCHANGED running

(* Mutants of FinishTask: the last task put in the place of the one taken  *)
(* out (TArray::RemoveSwap), and no task taken out at all.                 *)
FinishTaskSwap ==
    LET rest == Without(tasks, active.task)
        swapped == IF rest = <<>> THEN rest ELSE <<Last(rest)>> \o Front(rest)
    IN LeaveBehind(swapped) /\ StartFirst(swapped)
FinishTaskKeeps == LeaveBehind(tasks) /\ StartFirst(tasks)

(* OnFinish has returned: FinishTask takes the task out and starts the     *)
(* next one from inside the Finish call of this one.                       *)
FinishTask ==
    LET rest == Without(tasks, active.task)
    IN LeaveBehind(rest) /\ StartFirst(rest)

(* FinishTask returns to the innermost Finish, which sets its flags last. *)
FinishReturns ==
    /\ active = NoCall
    /\ unwinding # <<>>
    /\ LET frame == Last(unwinding)
       IN /\ finished' = [finished EXCEPT ![frame.task] = TRUE]
          /\ succeeded' = [succeeded EXCEPT ![frame.task] = frame.ok]
    /\ unwinding' = Front(unwinding)
    /\ UNCHANGED <<tasks, activePreset, preset, running, active, asking, answer, served>>

(* Mutant of Accepts: a task that goes on after Start counts as failed. *)
AcceptsFinishedOnly(t) == finished[t] /\ succeeded[t]

(* IsSucceeded() || IsScheduled(). *)
Accepts(t) == (finished[t] /\ succeeded[t]) \/ Scheduled(t)

(* Start has returned to SaveSlot or LoadSlot, which reads the flags. *)
Answer ==
    /\ active = NoCall
    /\ unwinding = <<>>
    /\ asking # NoTask
    /\ answer' = [answer EXCEPT ![asking] = IF Accepts(asking) THEN "accepted" ELSE "refused"]
    /\ asking' = NoTask
    /\ UNCHANGED <<tasks, activePreset, preset, flags, active, unwinding, served>>

(* Mutant of SetActivePreset: the preset is changed under queued tasks. *)
SetActivePresetAnytime(p) ==
    /\ GameCodeRuns
    /\ p # activePreset
    /\ activePreset' = p
    /\ UNCHANGED <<tasks, preset, flags, stack, answer, served>>

(* SetActivePreset, from the game or from a callback: refused while tasks  *)
(* are queued and when the preset is already active.                       *)
SetActivePreset(p) ==
    /\ GameCodeRuns
    /\ tasks = <<>>
    /\ p # activePreset
    /\ activePreset' = p
    /\ UNCHANGED <<tasks, preset, flags, stack, answer, served>>

Next ==
    \/ \E t \in Task : CreateTask(t)
    \/ Tick
    \/ Return
    \/ \E ok \in BOOLEAN : Finish(ok)
    \/ FinishTask
    \/ FinishReturns
    \/ Answer
    \/ \E p \in Preset : SetActivePreset(p)

Safety == Init /\ [][Next]_vars

-----------------------------------------------------------------------------
(* The engine ticks the manager and calls return; every task that is      *)
(* ticked for ever finishes at last.  The last assumption is about the     *)
(* tasks, not about the queue: SaveSystem and FrameSplitLoad check it.     *)

Fairness ==
    /\ WF_vars(Tick)
    /\ WF_vars(Return \/ \E ok \in BOOLEAN : Finish(ok))
    /\ SF_vars(\E ok \in BOOLEAN : Finish(ok))
    /\ WF_vars(FinishTask)
    /\ WF_vars(FinishReturns)
    /\ WF_vars(Answer)

Spec == Safety /\ Fairness

-----------------------------------------------------------------------------

(* No wake-up is lost and no task overtakes another: whenever tasks are   *)
(* queued the first one runs, and it is the only one that does.  FinishTask *)
(* is the only code that starts a task made while another one ran.         *)
OnlyHeadRuns ==
    \A i \in 1..Len(tasks) : running[tasks[i]] <=> i = 1

(* Task code executes only for the first task, so a callback that makes a *)
(* request can never start a second task under the feet of the first.      *)
CallbacksOfHead ==
    active # NoCall => tasks # <<>> /\ active.task = Head(tasks)

(* A task finishes once: it leaves the queue for good, and no Finish of   *)
(* its own is on the stack more than once (OnFinish fires the delegates).  *)
FinishedOnce ==
    /\ \A i, j \in 1..Len(served) : served[i] = served[j] => i = j
    /\ \A i \in 1..Len(served) : ~Scheduled(served[i])

(* The answer of SaveSlot and LoadSlot can be trusted although bFinished  *)
(* is set only after the next task has started: "false" is never said of a *)
(* task that goes on or has succeeded.                                     *)
RefusedHasFailed ==
    \A t \in Task : answer[t] = "refused" => finished[t] /\ ~succeeded[t]

(* Every queued task works with the active preset: SetActivePreset cannot *)
(* change it between the request and its execution, callbacks included.    *)
QueueUsesActivePreset ==
    \A i \in 1..Len(tasks) : preset[tasks[i]] = activePreset

(* The strengthening that makes the invariants above inductive: the queue, *)
(* the history, the stack of Finish calls and the flags tell one story.    *)
NoRepeats(q) == \A i, j \in 1..Len(q) : q[i] = q[j] => i = j

Unwinds(t) == \E i \in 1..Len(unwinding) : unwinding[i].task = t

QueueInv ==
    /\ NoRepeats(tasks)
    /\ \A t \in Task : running[t] => Scheduled(t) \/ Contains(served, t)
    /\ \A t \in Task : Scheduled(t) \/ Contains(served, t) => answer[t] # "unasked"

StackInv ==
    /\ \A i, j \in 1..Len(unwinding) : unwinding[i].task = unwinding[j].task => i = j
    /\ \A t \in Task : Unwinds(t) => ~finished[t]
    /\ \A t \in Task : Contains(served, t) <=> (finished[t] \/ Unwinds(t))

AnswerInv ==
    /\ \A t \in Task : answer[t] = "pending" <=> asking = t
    /\ asking # NoTask => Scheduled(asking) \/ Contains(served, asking)

IInv ==
    /\ TypeOK
    /\ OnlyHeadRuns
    /\ CallbacksOfHead
    /\ FinishedOnce
    /\ RefusedHasFailed
    /\ QueueUsesActivePreset
    /\ QueueInv
    /\ StackInv
    /\ AnswerInv

(* The queue implements SerialRequests: requests are served one at a time *)
(* in the order they were made, and the next starts when one is finished.  *)
Requests == INSTANCE SerialRequests WITH
    Request <- Task,
    log <- served \o tasks,
    done <- Len(served),
    serving <- {t \in Task : running[t] /\ Scheduled(t)}

ImplementsSerialRequests == Requests!Spec

(* Every request is served and every caller gets its answer. *)
EveryRequestIsServed ==
    \A t \in Task :
        answer[t] # "unasked" ~>
            finished[t] /\ answer[t] \in {"accepted", "refused"}

=============================================================================
