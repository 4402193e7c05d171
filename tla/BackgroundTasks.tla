--------------------------- MODULE BackgroundTasks ---------------------------
(***************************************************************************)
(* The tasks of USaveManager::MTTasks: slots are listed and deleted on     *)
(* pool threads, beside the saves that write them, or synchronously, in a  *)
(* call of the game.  FScopedTaskList::Tick takes the finished tasks out   *)
(* of the list and tells the caller of each: the game's code, which may    *)
(* make new requests meanwhile, or a latent action of a blueprint, which   *)
(* lives as long as the world it was made in.                              *)
(*                                                                         *)
(* The game thread is in one place at a time: game is "idle", "wait" (in   *)
(* a synchronous list), "tick" (at a place of the list of tasks) or        *)
(* "callback" (in the delegate of the task at that place).                 *)
(***************************************************************************)
EXTENDS Naturals, Sequences

CONSTANTS
    Slot,
    Node,                   \* the latent nodes of blueprints
    Game, Nobody, Freed,    \* others that are told, nobody, a destroyed action
    MaxTasks                \* bound: tasks that are created

Listener == Node \cup {Game, Nobody, Freed}
Kind == {"list", "info", "deleteAll", "deleteOne"}

ASSUME BackgroundTasksAssumption ==
    /\ {Game, Nobody, Freed} \cap Node = {}
    /\ Game # Nobody /\ Game # Freed /\ Nobody # Freed
    /\ MaxTasks \in Nat

VARIABLES
    phase,                  \* play, exit (in Deinitialize), ended, dead
    file,                   \* of every slot: none, open, torn, saved
    saving,                 \* the slot a Saver's file task has open
    task,                   \* every task created, in order
    holders,                \* MTTasks.Tasks, by their place in task
    game, at,               \* where the game thread is
    action                  \* of every node: none, waiting, finished

vars == <<phase, file, saving, task, holders, game, at, action>>
places == <<phase, holders, game, at, action>>

IsDone(t) == task[t].listed /\ task[t].todo = {}
Alive == phase \in {"play", "exit"}
GameRuns == phase = "play" /\ game \in {"idle", "callback"}

(* A task; told is how often its caller was.  What it owes is history: the *)
(* slots that were saved all the time since a list was asked for and are   *)
(* not in it yet, or those that a deletion has to delete.                  *)
NewTask(kind, listener, slots) ==
    [kind |-> kind, listener |-> listener, listed |-> slots # {}, todo |-> slots,
     nulls |-> {}, told |-> 0,
     owed |-> CASE kind = "list" -> {s \in Slot : file[s] = "saved"}
                [] kind = "deleteAll" -> {s \in Slot : file[s] \in {"saved", "torn"}}
                [] OTHER -> slots]

(* A file is deleted or written: no list has to have that slot any more.   *)
Without(tasks, s) ==
    [t \in DOMAIN tasks |->
        IF tasks[t].kind = "list" THEN [tasks[t] EXCEPT !.owed = @ \ {s}] ELSE tasks[t]]
-----------------------------------------------------------------------------
Init ==
    /\ phase = "play"
    /\ file \in [Slot -> {"none", "torn", "saved"}]
    /\ saving = Nobody
    /\ task = <<>> /\ holders = <<>>
    /\ game = "idle" /\ at = 1
    /\ action = [n \in Node |-> "none"]

(* FScopedTaskList::CreateTask *)
Create(new) ==
    /\ Len(task) < MaxTasks
    /\ task' = Append(task, new)
    /\ holders' = Append(holders, Len(task) + 1)

CreateTask(kind, listener, slots) == Create(NewTask(kind, listener, slots))

(* A file without a readable info gives a null info.  One that is being    *)
(* written cannot be opened or is read half written, as the platform will. *)
ReadsNull(s) == {file[s] = "torn"} \cup IF file[s] = "open" THEN {TRUE} ELSE {}

LoadAllSlotInfos ==
    /\ GameRuns
    /\ CreateTask("list", Game, {})
    /\ UNCHANGED <<phase, file, saving, game, at, action>>

DeleteAllSlots ==
    /\ GameRuns
    /\ CreateTask("deleteAll", Game, {})
    /\ UNCHANGED <<phase, file, saving, game, at, action>>

(* LoadInfo, as the Loader calls it, reads the file in the call, but its   *)
(* task stays in the list.                                                 *)
LoadInfo(s) ==
    /\ GameRuns
    /\ \E null \in ReadsNull(s) :
        Create([NewTask("info", Nobody, {}) EXCEPT !.listed = TRUE, !.nulls = IF null THEN {s} ELSE {}])
    /\ UNCHANGED <<phase, file, saving, game, at, action>>

(* LoadAllSlotInfosSync and DeleteSlot: the work is done in the call, and  *)
(* the list is ticked.                                                     *)
LoadAllSlotInfosSync ==
    /\ phase = "play" /\ game = "idle"
    /\ CreateTask("list", Game, {})
    /\ game' = "wait"
    /\ UNCHANGED <<phase, file, saving, at, action>>

DeleteSlot(s) ==
    /\ phase = "play" /\ game = "idle"
    /\ CreateTask("deleteOne", Nobody, {s})
    /\ game' = "wait"
    /\ UNCHANGED <<phase, file, saving, at, action>>

SyncCallTicks ==
    /\ phase = "play" /\ game = "wait" /\ IsDone(Len(task))
    /\ game' = "tick" /\ at' = 1
    /\ UNCHANGED <<phase, file, saving, task, holders, action>>

(* Either one in a callback: the task being told has not been marked as    *)
(* notified, so it is told again, and destroyed by the inner tick while    *)
(* its delegate is executed.                                               *)
SyncCallInCallback ==
    /\ phase = "play" /\ game = "callback"
    /\ phase' = "dead"
    /\ task' = [task EXCEPT ![holders[at]].told = @ + 1]
    /\ UNCHANGED <<file, saving, holders, game, at, action>>
-----------------------------------------------------------------------------
(* FLoadSlotInfosTask::DoWork, FDeleteSlotsTask::DoWork                    *)
FindSlotFileNames(t) ==
    /\ Alive /\ ~task[t].listed
    /\ task' = [task EXCEPT ![t].listed = TRUE, ![t].todo = {s \in Slot : file[s] # "none"}]
    /\ UNCHANGED <<places, file, saving>>

(* Mutant of ReadInfo: the list ends at an info that is null. *)
ReadInfoUntilNull(t, s) ==
    /\ Alive /\ task[t].kind = "list" /\ s \in task[t].todo
    /\ \E null \in ReadsNull(s) :
        task' = [task EXCEPT ![t].todo = IF null THEN {} ELSE @ \ {s},
                             ![t].owed = IF file[s] = "saved" THEN @ \ {s} ELSE @,
                             ![t].nulls = IF null THEN @ \cup {s} ELSE @]
    /\ UNCHANGED <<places, file, saving>>

ReadInfo(t, s) ==
    /\ Alive /\ task[t].kind = "list" /\ s \in task[t].todo
    /\ \E null \in ReadsNull(s) :
        task' = [task EXCEPT ![t].todo = @ \ {s},
                             ![t].owed = IF file[s] = "saved" THEN @ \ {s} ELSE @,
                             ![t].nulls = IF null THEN @ \cup {s} ELSE @]
    /\ UNCHANGED <<places, file, saving>>

(* A file somebody has open may not be deleted, as the platform will; the  *)
(* result is not looked at.                                                *)
IsOpen(s) ==
    \/ file[s] = "open"
    \/ \E u \in DOMAIN task : task[u].kind = "list" /\ s \in task[u].todo

(* Mutant of DeleteFile: the first that may not be deleted ends the work. *)
DeleteFileOrStop(t, s) ==
    /\ Alive /\ task[t].kind \in {"deleteAll", "deleteOne"} /\ s \in task[t].todo
    /\ \/ /\ file' = [file EXCEPT ![s] = "none"]
          /\ task' = Without([task EXCEPT ![t].todo = @ \ {s}], s)
       \/ /\ IsOpen(s)
          /\ task' = [task EXCEPT ![t].todo = {}, ![t].owed = @ \ {s}]
          /\ UNCHANGED file
    /\ UNCHANGED <<places, saving>>

DeleteFile(t, s) ==
    /\ Alive /\ task[t].kind \in {"deleteAll", "deleteOne"} /\ s \in task[t].todo
    /\ \/ /\ file' = [file EXCEPT ![s] = "none"]
          /\ task' = Without([task EXCEPT ![t].todo = @ \ {s}], s)
       \/ /\ IsOpen(s)
          /\ task' = [task EXCEPT ![t].todo = @ \ {s}, ![t].owed = @ \ {s}]
          /\ UNCHANGED file
    /\ UNCHANGED <<places, saving>>

DoWork(t) == FindSlotFileNames(t) \/ \E s \in Slot : ReadInfo(t, s) \/ DeleteFile(t, s)
-----------------------------------------------------------------------------
(* A Saver deletes the old file and writes a new one on a pool thread:     *)
(* nobody owes anything of the old one.                                    *)
SaveOpens(s) ==
    /\ phase = "play" /\ saving = Nobody
    /\ saving' = s
    /\ file' = [file EXCEPT ![s] = "open"]
    /\ task' = [t \in DOMAIN task |-> [task[t] EXCEPT !.owed = @ \ {s}]]
    /\ UNCHANGED places

(* What was deleted in the meantime stays deleted. *)
SaveEnds ==
    /\ Alive /\ saving \in Slot
    /\ saving' = Nobody
    /\ file' = [file EXCEPT ![saving] = IF @ = "open" THEN "saved" ELSE @]
    /\ UNCHANGED <<places, task>>
-----------------------------------------------------------------------------
(* USaveManager::Tick, FScopedTaskList::Tick                               *)
Tick ==
    /\ phase = "play" /\ game = "idle"
    /\ game' = "tick" /\ at' = 1
    /\ UNCHANGED <<phase, file, saving, task, holders, action>>

RemoveAtSwap(s, i) == SubSeq([s EXCEPT ![i] = s[Len(s)]], 1, Len(s) - 1)

(* Mutant of TaskIsOver: the last task goes, which may be a new one. *)
LastTaskIsOver ==
    IF phase = "exit" THEN at' = at + 1 /\ UNCHANGED holders
    ELSE holders' = SubSeq(holders, 1, Len(holders) - 1) /\ UNCHANGED at

(* Its caller was told: the task goes from the list, which CancelAll does  *)
(* in the end.                                                             *)
TaskIsOver ==
    IF phase = "exit" THEN at' = at + 1 /\ UNCHANGED holders
    ELSE holders' = RemoveAtSwap(holders, at) /\ UNCHANGED at

(* Mutant of Passes: CancelAll waits for no task. *)
PassesUnfinished(t) ==
    /\ ~IsDone(t)
    /\ at' = at + 1
    /\ UNCHANGED <<phase, file, saving, task, holders, game, action>>

(* Tick goes on to the next task, Cancel waits for this one. *)
Passes(t) ==
    /\ phase = "play" /\ ~IsDone(t)
    /\ at' = at + 1
    /\ UNCHANGED <<phase, file, saving, task, holders, game, action>>

(* Its caller is told; what it was is of no interest any more. *)
Told(t) ==
    [task EXCEPT ![t] = [NewTask("info", Nobody, {}) EXCEPT !.listed = TRUE, !.told = task[t].told + 1]]

(* TryNotifyFinish, by who listens.  AfterFinish uses every info it has.   *)
TellsOfNull(t) ==
    /\ IsDone(t) /\ task[t].nulls # {}
    /\ phase' = "dead"
    /\ UNCHANGED <<file, saving, task, holders, game, at, action>>

TellsNobody(t) ==
    /\ IsDone(t) /\ task[t].nulls = {} /\ task[t].listener = Nobody
    /\ task' = Told(t)
    /\ TaskIsOver
    /\ UNCHANGED <<phase, file, saving, game, action>>

TellsGame(t) ==
    /\ IsDone(t) /\ task[t].nulls = {} /\ task[t].listener = Game
    /\ task' = Told(t)
    /\ game' = "callback"
    /\ UNCHANGED <<phase, file, saving, holders, at, action>>

TellsAction(t) ==
    /\ IsDone(t) /\ task[t].nulls = {} /\ task[t].listener \in Node
    /\ task' = Told(t)
    /\ action' = [action EXCEPT ![task[t].listener] = "finished"]
    /\ TaskIsOver
    /\ UNCHANGED <<phase, file, saving, game>>

(* The action's memory is written to, which may go unnoticed. *)
TellsFreed(t) ==
    /\ IsDone(t) /\ task[t].nulls = {} /\ task[t].listener = Freed
    /\ task' = Told(t)
    /\ \/ phase' = "dead" /\ UNCHANGED <<holders, at>>
       \/ TaskIsOver /\ UNCHANGED phase
    /\ UNCHANGED <<file, saving, game, action>>

TickTask ==
    /\ Alive /\ game = "tick" /\ at \in DOMAIN holders
    /\ LET t == holders[at]
       IN  Passes(t) \/ TellsOfNull(t) \/ TellsNobody(t) \/ TellsGame(t)
           \/ TellsAction(t) \/ TellsFreed(t)

CallbackReturns ==
    /\ Alive /\ game = "callback"
    /\ game' = "tick"
    /\ TaskIsOver
    /\ UNCHANGED <<phase, file, saving, task, action>>

TickEnds ==
    /\ phase = "play" /\ game = "tick" /\ at > Len(holders)
    /\ game' = "idle"
    /\ UNCHANGED <<phase, file, saving, task, holders, at, action>>
-----------------------------------------------------------------------------
(* The latent actions: they bind themselves to the delegate of their task. *)
StartAction(n, kind) ==
    /\ phase = "play" /\ game = "idle" /\ action[n] = "none"
    /\ CreateTask(kind, n, {})
    /\ action' = [action EXCEPT ![n] = "waiting"]
    /\ UNCHANGED <<phase, file, saving, game, at>>

BPLoadAllSlotInfos(n) == StartAction(n, "list")
BPDeleteAllSlots(n) == StartAction(n, "deleteAll")

(* UpdateOperation triggers the node's output, and the action is gone. *)
UpdateOperation(n) ==
    /\ phase = "play" /\ game = "idle" /\ action[n] = "finished"
    /\ action' = [action EXCEPT ![n] = "none"]
    /\ UNCHANGED <<phase, file, saving, task, holders, game, at>>

(* Another map opens; the world goes, and its actions with it. *)
WorldIsDestroyed ==
    /\ phase = "play" /\ game = "idle"
    /\ \E n \in Node : action[n] # "none"
    /\ action' = [n \in Node |-> "none"]
    /\ task' = [t \in DOMAIN task |->
                    IF task[t].listener \in Node /\ action[task[t].listener] = "waiting"
                       /\ task[t].told = 0
                    THEN [task[t] EXCEPT !.listener = Freed] ELSE task[t]]
    /\ UNCHANGED <<phase, file, saving, holders, game, at>>
-----------------------------------------------------------------------------
(* Deinitialize, CancelAll *)
Deinitialize ==
    /\ phase = "play" /\ game = "idle"
    /\ phase' = "exit" /\ game' = "tick" /\ at' = 1
    /\ UNCHANGED <<file, saving, task, holders, action>>

(* A callback creates a task while the list is gone through. *)
RequestWhileCancelling ==
    /\ phase = "exit" /\ game = "callback"
    /\ phase' = "dead"
    /\ UNCHANGED <<file, saving, task, holders, game, at, action>>

AllAreCancelled ==
    /\ phase = "exit" /\ game = "tick" /\ at > Len(holders)
    /\ phase' = "ended" /\ game' = "idle"
    /\ holders' = <<>>
    /\ UNCHANGED <<file, saving, task, at, action>>
-----------------------------------------------------------------------------
Requests ==
    \/ LoadAllSlotInfos \/ DeleteAllSlots \/ LoadAllSlotInfosSync
    \/ \E s \in Slot : LoadInfo(s) \/ DeleteSlot(s)
    \/ \E n \in Node : BPLoadAllSlotInfos(n) \/ BPDeleteAllSlots(n)

GameThread == SyncCallTicks \/ Tick \/ TickTask \/ TickEnds \/ CallbackReturns \/ AllAreCancelled

Next ==
    \/ Requests \/ GameThread
    \/ \E t \in DOMAIN task : DoWork(t)
    \/ SaveEnds \/ \E s \in Slot : SaveOpens(s)
    \/ \E n \in Node : UpdateOperation(n)
    \/ WorldIsDestroyed \/ Deinitialize
    \/ SyncCallInCallback \/ RequestWhileCancelling

Spec == Init /\ [][Next]_vars

(* The game thread goes on, pool threads do their work, and a world that   *)
(* lives updates its latent actions.                                       *)
Fairness ==
    /\ WF_vars(GameThread)
    /\ \A t \in 1..MaxTasks : WF_vars(t \in DOMAIN task /\ DoWork(t))
    /\ \A n \in Node : SF_vars(UpdateOperation(n))

FairSpec == Spec /\ Fairness
-----------------------------------------------------------------------------
(* Every caller is told once: at most once while the process lives, and    *)
(* exactly once when it has ended well.  What Tick takes from the list was *)
(* told, and CancelAll tells the rest, whatever callbacks add to the list  *)
(* while they run.  Phase "dead", where nothing is promised, is reached by *)
(* SyncCallInCallback, RequestWhileCancelling, TellsOfNull, TellsFreed.    *)
ToldOnce ==
    /\ phase # "dead" => \A t \in DOMAIN task : task[t].told <= 1
    /\ phase = "ended" => \A t \in DOMAIN task : task[t].told = 1

(* A list has every slot that was saved all the time from the request to   *)
(* its end, whatever is saved and deleted beside it.                       *)
ListsMissNoSlot ==
    \A t \in DOMAIN task : task[t].kind = "list" /\ IsDone(t) => task[t].owed = {}

(* Once a deletion is done, the slots there were when it was asked for are *)
(* gone until they are saved again, but for those a list had open: for     *)
(* these FDeleteSlotsTask reports success all the same.                    *)
DeletedIsGone ==
    \A t \in DOMAIN task :
        task[t].kind \in {"deleteAll", "deleteOne"} /\ IsDone(t) =>
            \A s \in task[t].owed : file[s] = "none"

Waits(t) == t \in DOMAIN task /\ task[t].told = 0

(* Every caller is told in the end, unless the process dies. *)
EveryTaskIsTold ==
    \A t \in 1..MaxTasks : Waits(t) ~> ~Waits(t) \/ phase = "dead"

(* The output of a latent node is triggered in the end, unless its world   *)
(* or the process ends first.                                              *)
NodesGoOn ==
    \A n \in Node : action[n] = "waiting" ~> action[n] = "none" \/ phase \in {"exit", "ended", "dead"}

(* What is to be told, of the tasks in the list: in CancelAll, those from  *)
(* the one it is at, and never the one whose delegate is executed.         *)
Pending ==
    {holders[i] : i \in {i \in DOMAIN holders :
        (phase = "exit" => i >= at) /\ (game = "callback" => i # at)}}

Task ==
    [kind : Kind, listener : Listener, listed : BOOLEAN, todo : SUBSET Slot,
     nulls : SUBSET Slot, told : Nat, owed : SUBSET Slot]

TypeOK ==
    /\ phase \in {"play", "exit", "ended", "dead"}
    /\ file \in [Slot -> {"none", "open", "torn", "saved"}]
    /\ saving \in Slot \cup {Nobody}
    /\ task \in Seq(Task)
    /\ holders \in Seq(1..Len(task))
    /\ game \in {"idle", "wait", "tick", "callback"} /\ at \in Nat \ {0}
    /\ action \in [Node -> {"none", "waiting", "finished"}]

ListInv ==
    /\ \A i, j \in DOMAIN holders : holders[i] = holders[j] => i = j
    /\ game = "callback" => at \in DOMAIN holders
    /\ phase = "exit" => game \in {"tick", "callback"}
    /\ phase = "ended" => holders = <<>>
    /\ \A t \in DOMAIN task : task[t].told = IF t \in Pending THEN 0 ELSE 1

(* A task is in the list, before its turn, exactly as long as its caller   *)
(* was not told: the inductive invariant.                                  *)
BackgroundIInv == TypeOK /\ (phase # "dead" => ListInv)

(* What a list owes is saved and still to be read, what a deletion owes is *)
(* still to be deleted or gone: the inductive invariant of the work.       *)
Owes(k, f) ==
    /\ k.kind = "list" => \A s \in k.owed : f[s] = "saved" /\ (k.listed => s \in k.todo)
    /\ k.kind \in {"deleteAll", "deleteOne"} =>
        \A s \in k.owed : k.listed /\ s \notin k.todo => f[s] = "none"

OwedInv == \A t \in DOMAIN task : Owes(task[t], file)
=============================================================================
