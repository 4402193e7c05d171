--------------------------- MODULE LevelStreaming ---------------------------
(***************************************************************************)
(* Sublevels that are streamed in and out.  USaveManager is told when one  *)
(* is shown or hidden and requests a USlotDataTask_LevelLoader, which gives *)
(* the level its state back, or a USlotDataTask_LevelSaver, which keeps it  *)
(* in the level's record.  The records belong to a USlotData; a task has   *)
(* the one that was CurrentData when it was created, and a Loader makes a  *)
(* new one current.                                                        *)
(*                                                                         *)
(* The queue is SerialRequests, which TaskQueue implements.  The steps of  *)
(* a task that the code makes in one call are not interleaved with others: *)
(* while stage is "start" only the task in service moves.                  *)
(***************************************************************************)
EXTENDS Naturals, Sequences

CONSTANTS
    Requests,       \* bounds how many requests are made
    Level,          \* the sublevels
    State, Fresh,   \* what a level can be in; Fresh when it was just loaded
    Nothing         \* no record, no promise

Task == 1 .. Requests
FirstData == 0

(* The USlotData a Loader reads has the number of its task. *)
Data == {FirstData} \cup Task

Kept == [Level -> State \cup {Nothing}]

ASSUME StreamingAssumption ==
    /\ Requests \in Nat
    /\ Fresh \in State /\ Nothing \notin State
    /\ Nothing \notin Kept

VARIABLES
    log, done, serving,     \* the queue: see SerialRequests
    kind,                   \* the class of each task
    level,                  \* StreamingLevel of a level task
    data,                   \* SlotData each task was prepared with
    stage,                  \* where the task in service is
    current,                \* CurrentData
    records,                \* SubLevels of each USlotData
    file,                   \* what the slot file holds of the sublevels
    stream,                 \* where the engine has each level
    live,                   \* the state each loaded level is in
    memory,                 \* history: the state each level must come back with
    unkept,                 \* history: the levels hidden when nothing kept it
    saved,                  \* history: what the last save must bring back
    mixed                   \* history: a task ran with data no longer current

queue == <<log, done, serving>>
request == <<kind, level, data>>
world == <<stream, live>>
history == <<memory, unkept, saved, mixed>>
vars == <<queue, request, stage, current, records, file, world, history>>

Queue == INSTANCE SerialRequests WITH Request <- Task

StreamingTypeOK ==
    /\ Queue!TypeOK
    /\ kind \in [Task -> {"none", "save", "load", "levelSave", "levelLoad"}]
    /\ level \in [Task -> Level \cup {Nothing}]
    /\ data \in [Task -> Data]
    /\ stage \in {"rest", "start", "writing", "reading"}
    /\ current \in Data
    /\ records \in [Data -> Kept]
    /\ file \in Kept \cup {Nothing}
    /\ stream \in [Level -> {"unloaded", "hidden", "shown"}]
    /\ live \in [Level -> State]
    /\ memory \in Kept
    /\ unkept \in SUBSET Level
    /\ saved \in Kept
    /\ mixed \in BOOLEAN

NoRecords == [l \in Level |-> Nothing]

(* TryInstantiateInfo made an empty USlotData; no file yet. *)
StreamingInit ==
    /\ Queue!Init
    /\ kind = [t \in Task |-> "none"]
    /\ level = [t \in Task |-> Nothing]
    /\ data = [t \in Task |-> FirstData]
    /\ stage = "rest"
    /\ current = FirstData
    /\ records = [d \in Data |-> NoRecords]
    /\ file = Nothing
    /\ stream \in [Level -> {"unloaded", "hidden", "shown"}]
    /\ live = [l \in Level |-> Fresh]
    /\ memory = NoRecords
    /\ unkept = {}
    /\ saved = NoRecords
    /\ mixed = FALSE

-----------------------------------------------------------------------------
(* Requests.                                                               *)

Loaded(l) == stream[l] # "unloaded"
Idle == serving = {}

(* Between two calls: no task, or one that waits for its file. *)
Quiet == stage # "start"

(* CreateTask with Prepare, Setup and Start. *)
Create(k, l) ==
    LET t == Len(log) + 1 IN
    /\ t \in Task
    /\ Queue!Submit(t)
    /\ kind' = [kind EXCEPT ![t] = k]
    /\ level' = [level EXCEPT ![t] = l]
    /\ data' = [data EXCEPT ![t] = current]
    /\ stage' = IF Idle THEN "start" ELSE stage

SaveSlot ==
    /\ Quiet
    /\ Create("save", Nothing)
    /\ UNCHANGED <<current, records, file, world, history>>

LoadSlot ==
    /\ Quiet
    /\ file # Nothing
    /\ Create("load", Nothing)
    /\ UNCHANGED <<current, records, file, world, history>>

(* A level that is hidden is to come back as it is.  Its state is kept at   *)
(* once when no task is in the way and the current data has a record of    *)
(* it; a LevelSaver that waits, or finds no record, may never keep it.     *)
IsKeptNow(l) == Idle /\ records[current][l] # Nothing

Remembered(l, s) ==
    /\ memory' = [memory EXCEPT ![l] = s]
    /\ unkept' = IF s = Nothing \/ IsKeptNow(l) THEN unkept \ {l} ELSE unkept \cup {l}

(* Mutant of SerializeStreamingLevel: hidden levels are not saved. *)
SerializeStreamingLevelNever(l) ==
    UNCHANGED <<queue, request, stage>> /\ l \in Level

(* SerializeStreamingLevel. *)
SerializeStreamingLevel(l) == Create("levelSave", l)

(* OnLevelHidden.  A level that is being removed is not saved.             *)
HideLevel(l) ==
    /\ Quiet
    /\ stream[l] = "shown"
    /\ stream' = [stream EXCEPT ![l] = "hidden"]
    /\ \/ /\ SerializeStreamingLevel(l)
          /\ Remembered(l, live[l])
       \/ /\ UNCHANGED <<queue, request, stage>>
          /\ Remembered(l, Nothing)
    /\ UNCHANGED <<current, records, file, live, saved, mixed>>

(* OnLevelShown, DeserializeStreamingLevel. *)
ShowLevel(l) ==
    /\ Quiet
    /\ stream[l] = "hidden"
    /\ stream' = [stream EXCEPT ![l] = "shown"]
    /\ Create("levelLoad", l)
    /\ UNCHANGED <<current, records, file, live, history>>

-----------------------------------------------------------------------------
(* The tasks.                                                              *)

Running(t, k) == serving = {t} /\ kind[t] = k

(* Finish, FinishTask: the next task starts in the same call. *)
Finish ==
    /\ Queue!Complete
    /\ stage' = IF serving' = {} THEN "rest" ELSE "start"
    /\ UNCHANGED request

(* A level task whose data is not the current one. *)
Stale(t) == data[t] # current

(* Mutant of SetCurrentData: what a Loader read is not kept. *)
SetCurrentDataNever(d) == d \in Data /\ UNCHANGED current

(* __SetCurrentData. *)
SetCurrentData(d) == current' = d

(* OnStart of both level tasks: the level is loaded and has a record. *)
CanRun(t) == Loaded(level[t]) /\ records[data[t]][level[t]] # Nothing

(* USlotDataTask_LevelSaver::OnStart.  One that waited records the level as *)
(* it is by now, which is then what the level comes back with.             *)
LevelSave(t) ==
    /\ stage = "start" /\ Running(t, "levelSave")
    /\ IF CanRun(t)
       THEN /\ records' = [records EXCEPT ![data[t]][level[t]] = live[level[t]]]
            /\ memory' = [memory EXCEPT ![level[t]] = live[level[t]]]
            /\ unkept' = unkept \ {level[t]}
       ELSE UNCHANGED <<records, memory, unkept>>
    /\ mixed' = (mixed \/ Stale(t))
    /\ Finish
    /\ UNCHANGED <<current, file, world, saved>>

(* USlotDataTask_LevelLoader::OnStart and FinishedDeserializing, of a load  *)
(* that is not split: its data becomes the current one.                    *)
LevelLoad(t) ==
    /\ stage = "start" /\ Running(t, "levelLoad")
    /\ IF CanRun(t)
       THEN /\ live' = [live EXCEPT ![level[t]] = records[data[t]][level[t]]]
            /\ SetCurrentData(data[t])
       ELSE UNCHANGED <<live, current>>
    /\ mixed' = (mixed \/ Stale(t))
    /\ Finish
    /\ UNCHANGED <<records, file, stream, memory, unkept, saved>>

(* Mutants of SnapshotOf: unloaded levels lose, loaded levels keep records. *)
SnapshotOfLoadedOnly(kept) == [l \in Level |-> IF Loaded(l) THEN live[l] ELSE Nothing]
SnapshotOfKnownOnly(kept) ==
    [l \in Level |-> IF Loaded(l) /\ kept[l] # Nothing THEN live[l] ELSE kept[l]]

(* PrepareAllLevels and SerializeLevelSync: a loaded level is recorded as   *)
(* it is, the record of another one stays.                                 *)
SnapshotOf(kept) == [l \in Level |-> IF Loaded(l) THEN live[l] ELSE kept[l]]

(* Saver::OnStart, up to the file task.  The current data is used, not the *)
(* one the task was prepared with.                                         *)
SaveBegins(t) ==
    /\ stage = "start" /\ Running(t, "save")
    /\ records' = [records EXCEPT ![current] = SnapshotOf(records[current])]
    /\ memory' = [l \in Level |-> IF Loaded(l) THEN live[l] ELSE memory[l]]
    /\ unkept' = {l \in unkept : ~Loaded(l)}
    /\ saved' = [l \in Level |-> IF l \in unkept' THEN Nothing ELSE memory'[l]]
    /\ stage' = "writing"
    /\ UNCHANGED <<queue, request, current, file, world, mixed>>

(* The file task writes the records; CleanRecords keeps those of sublevels. *)
SaveEnds(t) ==
    /\ stage = "writing" /\ Running(t, "save")
    /\ file' = records[current]
    /\ Finish
    /\ UNCHANGED <<current, records, world, history>>

(* Loader::OnStart: the file is read, on a pool thread. *)
LoadBegins(t) ==
    /\ stage = "start" /\ Running(t, "load")
    /\ stage' = "reading"
    /\ records' = [records EXCEPT ![t] = file]
    /\ UNCHANGED <<queue, request, current, file, world, history>>

(* DeserializeSync and FinishedDeserializing, not split: the loaded levels  *)
(* that have a record are restored, and the data becomes the current one.  *)
LoadEnds(t) ==
    /\ stage = "reading" /\ Running(t, "load")
    /\ live' = [l \in Level |->
          IF Loaded(l) /\ records[t][l] # Nothing THEN records[t][l] ELSE live[l]]
    /\ SetCurrentData(t)
    /\ memory' = saved
    /\ unkept' = {}
    /\ Finish
    /\ UNCHANGED <<records, file, stream, saved, mixed>>

TaskRuns ==
    \E t \in Task :
        \/ LevelSave(t) \/ LevelLoad(t)
        \/ SaveBegins(t) \/ SaveEnds(t) \/ LoadBegins(t) \/ LoadEnds(t)

-----------------------------------------------------------------------------
(* The game and the engine.                                                *)

Play(l) ==
    /\ Quiet
    /\ stream[l] = "shown"
    /\ \E s \in State \ {live[l]} : live' = [live EXCEPT ![l] = s]
    /\ UNCHANGED <<queue, request, stage, current, records, file, stream, history>>

LoadLevel(l) ==
    /\ Quiet
    /\ stream[l] = "unloaded"
    /\ stream' = [stream EXCEPT ![l] = "hidden"]
    /\ live' = [live EXCEPT ![l] = Fresh]
    /\ UNCHANGED <<queue, request, stage, current, records, file, history>>

UnloadLevel(l) ==
    /\ Quiet
    /\ stream[l] = "hidden"
    /\ stream' = [stream EXCEPT ![l] = "unloaded"]
    /\ live' = [live EXCEPT ![l] = Fresh]
    /\ UNCHANGED <<queue, request, stage, current, records, file, history>>

EngineRuns == \E l \in Level :
    HideLevel(l) \/ ShowLevel(l) \/ Play(l) \/ LoadLevel(l) \/ UnloadLevel(l)

StreamingNext == SaveSlot \/ LoadSlot \/ TaskRuns \/ EngineRuns

StreamingSpec == StreamingInit /\ [][StreamingNext]_vars

-----------------------------------------------------------------------------
(* Properties.                                                             *)

(* A level hidden while nothing else was under way is cached: whatever     *)
(* saves, loads and streaming follow, the current data has its state, or   *)
(* the one of the save that was loaded since.                              *)
LevelsAreCached ==
    Quiet /\ ~mixed =>
        \A l \in Level \ unkept :
            memory[l] # Nothing => records[current][l] = memory[l]

(* The level gets that state back when the LevelLoader of its being shown  *)
(* runs, however many tasks it waited for.                                 *)
LevelComesBack ==
    [][\A t \in Task :
          LevelLoad(t) /\ Loaded(level[t]) /\ ~mixed' =>
              LET l == level[t] IN
              l \notin unkept /\ memory[l] # Nothing => live'[l] = memory[l]]_vars

(* The slot file holds the world of the moment the Saver started, and what *)
(* the unloaded levels must come back with, though levels are streamed     *)
(* and the game goes on while the file is written.                         *)
FileIsOneMoment ==
    stage # "writing" /\ ~mixed =>
        \A l \in Level :
            saved[l] # Nothing => file # Nothing /\ file[l] = saved[l]

(* The current data is the one of the last Loader that was served, unless  *)
(* a level task ran with data that was no longer current.                  *)
LastLoadIsCurrent ==
    ~mixed => \A t \in 1 .. done : kind[t] = "load" => t <= current

-----------------------------------------------------------------------------
(* The inductive invariant.                                                *)

(* Tasks are numbered as they are made and served in that order; what a    *)
(* task holds and what is current is older than the task in service.       *)
OrderInv ==
    /\ done \in Nat /\ done <= Len(log)
    /\ \A i \in 1 .. Len(log) : log[i] = i /\ data[i] < i
    /\ done < Len(log) => serving = {done + 1}
    /\ done = Len(log) => serving = {}
    /\ current <= done

StageInv ==
    /\ (stage = "rest") <=> Idle
    /\ stage = "writing" => \A t \in serving : kind[t] = "save"
    /\ stage = "reading" => \A t \in serving : kind[t] = "load" /\ records[t] = file
    /\ \A t \in Task :
          /\ kind[t] = "load" => file # Nothing
          /\ kind[t] \in {"levelSave", "levelLoad"} => level[t] \in Level

(* The state of a level that was just hidden is in the level itself until  *)
(* its LevelSaver runs, which is the very next thing to happen.            *)
KeptNext(l) ==
    /\ stage = "start"
    /\ Loaded(l) /\ live[l] = memory[l]
    /\ \A t \in serving : kind[t] = "levelSave" /\ level[t] = l /\ data[t] = current

KeptInv ==
    ~mixed => \A l \in Level \ unkept :
        memory[l] # Nothing =>
            /\ records[current][l] # Nothing
            /\ records[current][l] = memory[l] \/ KeptNext(l)

(* What is being written is the save. *)
WritingInv ==
    stage = "writing" /\ ~mixed =>
        \A l \in Level : saved[l] # Nothing => records[current][l] = saved[l]

StreamingIInv ==
    /\ StreamingTypeOK /\ OrderInv /\ StageInv
    /\ KeptInv /\ WritingInv /\ FileIsOneMoment /\ LastLoadIsCurrent

=============================================================================
