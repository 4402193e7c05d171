----------------------------- MODULE WorldRecords -----------------------------
(***************************************************************************)
(* The actors of the world and their records.  A save cuts the actors of   *)
(* every level into shares, one task each; tasks run on pool threads and   *)
(* the game thread, fill records of their own, and the Saver appends these *)
(* to the records of the levels.  A load brings the world to the records:  *)
(* actors that are not recorded are destroyed, records without an actor    *)
(* are respawned, and then every actor is restored from its record.        *)
(*                                                                         *)
(* Actors and records find each other by name and class.  References are   *)
(* stored as path names.                                                   *)
(***************************************************************************)
EXTENDS Integers, Sequences, FiniteSets

CONSTANTS
    Levels,                 \* the persistent level, then the streaming levels
    Name,                   \* the names actors begin with
    Fresh,                  \* and those the engine makes up
    Class, Value,
    Allowed,                \* the classes the filter lets through
    Picky,                  \* classes that do not spawn where they collide
    New,                    \* the value of an actor that was just spawned
    Threads,                \* NumberOfThreads
    MinObjectsPerTask,
    StartWorld,             \* the actors of a map that was just opened
    MaxMoves, MaxLoads,     \* bounds: changes the game makes, and loads
    NoActor, None

LevelSet == {Levels[i] : i \in DOMAIN Levels}
Path == LevelSet \X (Name \cup Fresh)
Actor == [name : Name \cup Fresh, class : Class, value : Value, ref : Path \cup {None}]
Task == [level : LevelSet, start : Nat, num : Nat, storeGameInstance : BOOLEAN]

ASSUME WorldRecordsAssumption ==
    /\ Levels \in Seq(LevelSet) /\ Levels # <<>>
    /\ \A i, j \in DOMAIN Levels : Levels[i] = Levels[j] => i = j
    /\ Allowed \subseteq Class /\ Picky \subseteq Class /\ New \in Value
    /\ Threads \in Nat \ {0} /\ MinObjectsPerTask \in Nat \ {0}
    /\ NoActor \notin Actor
    /\ StartWorld \in [LevelSet -> Seq(Actor \cup {NoActor})]
    /\ StartWorld[Levels[1]] # <<>>                           \* its AWorldSettings
    /\ \A l \in LevelSet : \A i, j \in DOMAIN StartWorld[l] :
        StartWorld[l][i] # NoActor /\ StartWorld[l][j] # NoActor
        /\ StartWorld[l][i].name = StartWorld[l][j].name => i = j   \* unique in their level

VARIABLES
    phase,                  \* what the game thread is at
    at,                     \* the level it is at, by its place in Levels
    mt,                     \* Preset->IsMTSerializationSave
    authority,              \* the world has an AGameMode: it is not a client's
    loaded,                 \* the levels in memory
    classes,                \* the classes the game has
    world,                  \* Level->Actors
    garbage,                \* names of destroyed actors, not collected yet
    bStoreGameInstance,     \* of the SlotData, during a save
    index,                  \* actors of the level that are in a share
    tasks,                  \* the shares
    job,                    \* of every task: waiting, storing, done
    gameInstance,           \* its record: old, stored, or torn by two writers
    records,                \* the records of the levels
    toSpawn,                \* ActorsToSpawn, by their place in the records
    isSaved,                \* there is a file of the slot
    file,                   \* the records in it
    saved,                  \* history: what the last save had to record
    others,                 \* history: actors of the other classes before the load
    given,                  \* history: names the respawned actors were given
    moves, loads

worldVars == <<mt, authority, loaded, classes, world, garbage>>
saveVars == <<bStoreGameInstance, index, tasks, job, gameInstance>>
fileVars == <<isSaved, file, saved>>
vars == <<phase, at, worldVars, saveVars, records, toSpawn, fileVars, others, given, moves,
          loads>>

NoRecords == [l \in LevelSet |-> <<>>]
Actors(l) == {i \in DOMAIN world[l] : world[l][i] # NoActor}
LivePaths == UNION {{<<l, world[l][i].name>> : i \in Actors(l)} : l \in LevelSet}
Level == Levels[at]
IsAllowed(actor) == actor # NoActor /\ actor.class \in Allowed

(* The levels are taken in order; those not in memory are passed over. *)
IsNext(n) ==
    /\ n > at /\ Levels[n] \in loaded
    /\ \A k \in (at + 1)..(n - 1) : Levels[k] \notin loaded
NextLevels == {n \in DOMAIN Levels : IsNext(n)}
IsLast == \A n \in DOMAIN Levels : n > at => Levels[n] \notin loaded

(* The actors of the map just opened, but for those of classes there are   *)
(* no more.                                                                *)
Opened(known) ==
    [l \in LevelSet |->
        IF l \notin loaded THEN <<>>
        ELSE [i \in DOMAIN StartWorld[l] |->
                IF StartWorld[l][i] # NoActor /\ StartWorld[l][i].class \in known
                THEN StartWorld[l][i] ELSE NoActor]]
-----------------------------------------------------------------------------
Init ==
    /\ phase = "play" /\ at = 1
    /\ mt \in BOOLEAN /\ authority \in BOOLEAN
    /\ loaded \in {S \in SUBSET LevelSet : Levels[1] \in S}
    /\ classes = Class
    /\ world = Opened(Class)
    /\ garbage = {}
    /\ index = 0 /\ tasks = <<>> /\ job = <<>>
    /\ bStoreGameInstance = FALSE /\ gameInstance = "old"
    /\ records = NoRecords /\ toSpawn = {}
    /\ isSaved = FALSE /\ file = NoRecords /\ saved = NoRecords
    /\ others = {} /\ given = <<>>
    /\ moves = 0 /\ loads = 0

(* The game plays: it spawns, destroys and changes actors. *)
Play ==
    /\ phase \in {"play", "loaded"} /\ moves < MaxMoves
    /\ phase' = "play" /\ moves' = moves + 1
    /\ UNCHANGED <<at, mt, loaded, saveVars, toSpawn, fileVars, others, given, loads>>

Spawn(l, n, c) ==
    /\ Play
    /\ l \in loaded /\ c \in classes /\ <<l, n>> \notin LivePaths \cup garbage
    /\ world' = [world EXCEPT ![l] =
                    Append(@, [name |-> n, class |-> c, value |-> New, ref |-> None])]
    /\ UNCHANGED <<authority, classes, garbage, records>>

DestroyActor(l, i) ==
    /\ Play
    /\ i \in Actors(l)
    /\ garbage' = garbage \cup {<<l, world[l][i].name>>}
    /\ world' = [world EXCEPT ![l][i] = NoActor]
    /\ UNCHANGED <<authority, classes, records>>

Change(l, i, v, ref) ==
    /\ Play
    /\ i \in Actors(l) /\ ref \in LivePaths \cup {None}
    /\ world' = [world EXCEPT ![l][i].value = v, ![l][i].ref = ref]
    /\ UNCHANGED <<authority, classes, garbage, records>>

(* Destroyed actors are freed, and references to them are cleared. *)
Collected(actor) ==
    IF actor # NoActor /\ actor.ref \in garbage THEN [actor EXCEPT !.ref = None] ELSE actor

CollectGarbage ==
    /\ phase \in {"play", "loaded"} /\ garbage # {}
    /\ phase' = "play"
    /\ garbage' = {}
    /\ world' = [l \in LevelSet |-> [i \in DOMAIN world[l] |-> Collected(world[l][i])]]
    /\ UNCHANGED <<at, mt, authority, loaded, classes, saveVars, records, toSpawn, fileVars,
                   others, given, moves, loads>>

(* The map is opened again, here or on a server; or the game is started    *)
(* again, maybe in a version that no longer has some of the classes.       *)
Reopen(gone) ==
    /\ Play
    /\ \/ gone = {} /\ UNCHANGED records
       \/ records' = NoRecords
    /\ authority' \in BOOLEAN
    /\ classes' = classes \ gone
    /\ world' = Opened(classes')
    /\ garbage' = {}
-----------------------------------------------------------------------------
(* USlotDataTask_Saver::SerializeWorld, SerializeLevelSync                 *)
NumTasksPerLevel ==
    LET n == Len(Levels)                                      \* Levels.Num() + 1
        rounded == (2 * Threads + n) \div (2 * n)
    IN  IF ~mt THEN 1 ELSE IF rounded < 1 THEN 1 ELSE rounded
NumPerTask(count) ==
    LET balanced == (count + NumTasksPerLevel - 1) \div NumTasksPerLevel
    IN  IF balanced < MinObjectsPerTask THEN MinObjectsPerTask ELSE balanced

StartSave ==
    /\ phase \in {"play", "loaded"} /\ authority
    /\ phase' = "split" /\ at' = 1
    /\ index' = 0 /\ tasks' = <<>> /\ job' = <<>>
    /\ bStoreGameInstance' \in BOOLEAN /\ gameInstance' = "old"
    /\ records' = [records EXCEPT ![Levels[1]] = <<>>]
    /\ UNCHANGED <<worldVars, toSpawn, fileVars, others, given, moves, loads>>

(* On a client SerializeWorld returns at once and the file is written all  *)
(* the same: without actors of the persistent level, and with whatever the *)
(* records of streaming levels held.                                       *)
ClientSaves ==
    /\ phase \in {"play", "loaded"} /\ ~authority
    /\ phase' = "play"
    /\ records' = [records EXCEPT ![Levels[1]] = <<>>]
    /\ isSaved' = TRUE /\ file' = records' /\ saved' = file'
    /\ UNCHANGED <<at, worldVars, saveVars, toSpawn, others, given, moves, loads>>

NumToSerialize(count) ==
    LET remaining == count - index
    IN  IF remaining < NumPerTask(count) THEN remaining ELSE NumPerTask(count)

(* Mutant of Share: it begins with the last actor of the one before. *)
OverlappingShare(count) ==
    [level |-> Level, start |-> IF index > 0 THEN index - 1 ELSE 0,
     num |-> NumToSerialize(count), storeGameInstance |-> index <= 0 /\ bStoreGameInstance]

(* Mutant of Share: every task stores the game instance. *)
StoringShare(count) ==
    [level |-> Level, start |-> index, num |-> NumToSerialize(count),
     storeGameInstance |-> bStoreGameInstance]

Share(count) ==
    [level |-> Level, start |-> index, num |-> NumToSerialize(count),
     storeGameInstance |-> index <= 0 /\ bStoreGameInstance]

(* One round of the loop that makes the tasks of a level. *)
AddTask ==
    LET count == Len(world[Level])
    IN  /\ phase = "split" /\ index < count
        /\ tasks' = Append(tasks, Share(count))
        /\ index' = index + NumToSerialize(count)
        /\ UNCHANGED <<phase, at, worldVars, bStoreGameInstance, job, gameInstance, records,
                       toSpawn, fileVars, others, given, moves, loads>>

(* Mutant of SplitNextLevel: its records stay. *)
SplitKeepingRecords ==
    /\ phase = "split" /\ index >= Len(world[Level])
    /\ at' \in NextLevels
    /\ index' = 0
    /\ UNCHANGED <<phase, worldVars, bStoreGameInstance, tasks, job, gameInstance, records,
                   toSpawn, fileVars, others, given, moves, loads>>

(* The next level, whose records are emptied. *)
SplitNextLevel ==
    /\ phase = "split" /\ index >= Len(world[Level])
    /\ \E n \in NextLevels :
        /\ at' = n
        /\ records' = [records EXCEPT ![Levels[n]] = <<>>]
    /\ index' = 0
    /\ UNCHANGED <<phase, worldVars, bStoreGameInstance, tasks, job, gameInstance, toSpawn,
                   fileVars, others, given, moves, loads>>

(* RunScheduledTasks *)
StartTasks ==
    /\ phase = "split" /\ index >= Len(world[Level]) /\ IsLast
    /\ phase' = "run"
    /\ job' = [t \in DOMAIN tasks |-> "waiting"]
    /\ UNCHANGED <<at, worldVars, bStoreGameInstance, index, tasks, gameInstance, records,
                   toSpawn, fileVars, others, given, moves, loads>>

(* Without MT the tasks run one by one, the first of them last. *)
MayRun(t) ==
    \/ mt
    \/ \A u \in DOMAIN tasks \ {t} : t = 1 \/ (1 < u /\ u < t) => job[u] = "done"

(* FMTTask_SerializeActors::DoWork: the first task of every level writes   *)
(* the game instance, into the one record of the slot's data.              *)
StoreGameInstance(t) ==
    /\ phase = "run" /\ job[t] = "waiting" /\ MayRun(t) /\ tasks[t].storeGameInstance
    /\ job' = [job EXCEPT ![t] = "storing"]
    /\ gameInstance' = IF \E u \in DOMAIN tasks : job[u] = "storing" THEN "torn" ELSE gameInstance
    /\ UNCHANGED <<phase, at, worldVars, bStoreGameInstance, index, tasks, records, toSpawn,
                   fileVars, others, given, moves, loads>>

SerializeActors(t) ==
    /\ phase = "run" /\ MayRun(t)
    /\ job[t] = IF tasks[t].storeGameInstance THEN "storing" ELSE "waiting"
    /\ job' = [job EXCEPT ![t] = "done"]
    /\ gameInstance' = IF job[t] = "storing" /\ gameInstance # "torn" THEN "stored"
                       ELSE gameInstance
    /\ UNCHANGED <<phase, at, worldVars, bStoreGameInstance, index, tasks, records, toSpawn,
                   fileVars, others, given, moves, loads>>

(* The loop of DoWork over num actors from the place start on. *)
RecordsOf(actors, start, num) ==
    LET Upto[n \in 0..num] ==
            IF n = 0 THEN <<>>
            ELSE IF IsAllowed(actors[start + n]) THEN Append(Upto[n - 1], actors[start + n])
                 ELSE Upto[n - 1]
    IN  Upto[num]

(* The records a task leaves. *)
ActorRecords(t) == RecordsOf(world[tasks[t].level], tasks[t].start, tasks[t].num)

(* DumpData, of the first n tasks. *)
Dumped[n \in 0..Len(tasks)] ==
    IF n = 0 THEN records
    ELSE [Dumped[n - 1] EXCEPT ![tasks[n].level] = @ \o ActorRecords(n)]

(* All tasks are waited for, their records dumped and written to the file; *)
(* USlotData::CleanRecords(true) keeps those of streaming levels.          *)
FinishSave ==
    /\ phase = "run" /\ \A t \in DOMAIN tasks : job[t] = "done"
    /\ phase' = "play"
    /\ isSaved' = TRUE /\ file' = Dumped[Len(tasks)]
    /\ records' = [file' EXCEPT ![Levels[1]] = <<>>]
    /\ saved' = [l \in LevelSet |-> RecordsOf(world[l], 0, Len(world[l]))]
    /\ index' = 0 /\ tasks' = <<>> /\ job' = <<>>
    /\ bStoreGameInstance' = FALSE /\ gameInstance' = "old"
    /\ UNCHANGED <<at, worldVars, toSpawn, others, given, moves, loads>>
-----------------------------------------------------------------------------
(* USlotDataTask_Loader                                                    *)
RecordOf(l, actor) ==
    {k \in DOMAIN records[l] :
        actor # NoActor /\ records[l][k].name = actor.name /\ records[l][k].class = actor.class}

(* FObjectRecord::Serialize: of a class the game no longer has, nothing    *)
(* but the name and class is read, and what follows is read out of step.   *)
Unreadable == \E l \in LevelSet : \E k \in DOMAIN file[l] : file[l][k].class \notin classes

OtherActors ==
    UNION {{<<l, world[l][i]>> : i \in {j \in Actors(l) : ~IsAllowed(world[l][j])}} :
                l \in LevelSet}

StartLoad ==
    /\ phase \in {"play", "loaded"} /\ isSaved
    /\ loads < MaxLoads /\ loads' = loads + 1
    /\ phase' = IF Unreadable THEN "broken" ELSE "prepare"
    /\ at' = 1
    /\ records' = file
    /\ others' = OtherActors
    /\ given' = <<>>
    /\ UNCHANGED <<worldVars, saveVars, toSpawn, fileVars, moves>>

(* PrepareLevel, of one level: actors without a record go, and the records *)
(* without an actor are kept for RespawnActors.                            *)
PrepareLevel ==
    LET doomed == {i \in Actors(Level) :
                    IsAllowed(world[Level][i]) /\ RecordOf(Level, world[Level][i]) = {}}
    IN  /\ phase = "prepare"
        /\ phase' = "respawn"
        /\ world' = [world EXCEPT ![Level] =
                        [i \in DOMAIN @ |-> IF i \in doomed THEN NoActor ELSE @[i]]]
        /\ garbage' = garbage \cup {<<Level, world[Level][i].name>> : i \in doomed}
        /\ toSpawn' = {k \in DOMAIN records[Level] :
                        \A i \in DOMAIN world[Level] : k \notin RecordOf(Level, world[Level][i])}
        /\ UNCHANGED <<at, mt, authority, loaded, classes, saveVars, records, fileVars, others,
                       given, moves, loads>>

(* The names the engine may give: the one asked for, unless it is in use   *)
(* by an actor, be it a destroyed one that was not collected yet.          *)
GivenNames(l, n) ==
    LET Free(names) == {m \in names : <<l, m>> \notin LivePaths \cup garbage}
    IN  IF n \in Free({n}) THEN {n}
        ELSE Free(Name) \cup {m \in Free(Fresh) : m = CHOOSE f \in Free(Fresh) : TRUE}

GivenTo(path, n) ==
    [p \in DOMAIN given \cup {path} |-> IF p = path THEN n ELSE given[p]]

(* Mutant of RespawnActor: the record keeps the name it had. *)
RespawnUnderOldRecord(k, n) ==
    LET record == records[Level][k]
    IN  /\ phase = "respawn" /\ k \in toSpawn
        /\ n \in GivenNames(Level, record.name)
        /\ world' = [world EXCEPT ![Level] =
                        Append(@, [name |-> n, class |-> record.class,
                                   value |-> New, ref |-> None])]
        /\ toSpawn' = toSpawn \ {k}
        /\ given' = GivenTo(<<Level, record.name>>, n)
        /\ UNCHANGED <<phase, at, mt, authority, loaded, classes, garbage, saveVars, records,
                       fileVars, others, moves, loads>>

(* RespawnActors, one record; its name is brought up to date. *)
RespawnActor(k, n) ==
    LET record == records[Level][k]
    IN  /\ phase = "respawn" /\ k \in toSpawn
        /\ n \in GivenNames(Level, record.name)
        /\ world' = [world EXCEPT ![Level] =
                        Append(@, [name |-> n, class |-> record.class,
                                   value |-> New, ref |-> None])]
        /\ records' = [records EXCEPT ![Level][k] = [record EXCEPT !.name = n]]
        /\ toSpawn' = toSpawn \ {k}
        /\ given' = GivenTo(<<Level, record.name>>, n)
        /\ UNCHANGED <<phase, at, mt, authority, loaded, classes, garbage, saveVars, fileVars,
                       others, moves, loads>>

(* SpawnActor refuses, and its null result is used. *)
RespawnFails(k) ==
    /\ phase = "respawn" /\ k \in toSpawn
    /\ records[Level][k].class \in Picky
    /\ phase' = "broken"
    /\ UNCHANGED <<at, worldVars, saveVars, records, toSpawn, fileVars, others, given, moves,
                   loads>>

(* PrepareAllLevels goes on to the next level, or all are prepared. *)
PrepareNextLevel ==
    /\ phase = "respawn" /\ toSpawn = {}
    /\ IF IsLast THEN phase' = "restore" /\ at' = 1
       ELSE phase' = "prepare" /\ at' \in NextLevels
    /\ UNCHANGED <<worldVars, saveVars, records, toSpawn, fileVars, others, given, moves, loads>>

(* FSEArchive: the object of that path now, if there is one. *)
Resolved(ref) == IF ref \in LivePaths THEN ref ELSE None

(* DeserializeActor, of one that has a record. *)
Restored(l, actor) ==
    LET found == RecordOf(l, actor)
    IN  IF IsAllowed(actor) /\ found # {}
        THEN LET record == records[l][CHOOSE k \in found : TRUE]
             IN  [actor EXCEPT !.value = record.value, !.ref = Resolved(record.ref)]
        ELSE actor

(* DeserializeLevelSync, and FinishedDeserializing after the last level.   *)
RestoreLevel ==
    /\ phase = "restore"
    /\ world' = [world EXCEPT ![Level] = [i \in DOMAIN @ |-> Restored(Level, @[i])]]
    /\ IF IsLast
       THEN phase' = "loaded" /\ UNCHANGED at /\ records' = [records EXCEPT ![Levels[1]] = <<>>]
       ELSE at' \in NextLevels /\ UNCHANGED <<phase, records>>
    /\ UNCHANGED <<mt, authority, loaded, classes, garbage, saveVars, toSpawn, fileVars, others,
                   given, moves, loads>>

(* The process died of what it read, or of the actor it did not get. *)
Restart ==
    /\ phase = "broken"
    /\ phase' = "play"
    /\ world' = Opened(classes)
    /\ garbage' = {} /\ toSpawn' = {} /\ records' = NoRecords
    /\ UNCHANGED <<at, mt, authority, loaded, classes, saveVars, fileVars, others, given, moves,
                   loads>>
-----------------------------------------------------------------------------
Game ==
    \/ \E l \in LevelSet, n \in Name, c \in Class : Spawn(l, n, c)
    \/ \E l \in LevelSet : \E i \in DOMAIN world[l] :
        \/ DestroyActor(l, i)
        \/ \E v \in Value, ref \in Path \cup {None} : Change(l, i, v, ref)
    \/ CollectGarbage
    \/ \E gone \in {{}} \cup {{c} : c \in classes} : Reopen(gone)

Save ==
    \/ StartSave \/ ClientSaves \/ AddTask \/ SplitNextLevel \/ StartTasks
    \/ \E t \in DOMAIN job : StoreGameInstance(t) \/ SerializeActors(t)
    \/ FinishSave

Load ==
    \/ StartLoad \/ PrepareLevel \/ PrepareNextLevel \/ RestoreLevel
    \/ \E k \in toSpawn : RespawnFails(k) \/ \E n \in Name \cup Fresh : RespawnActor(k, n)

Next == Game \/ Save \/ Load \/ Restart

Spec == Init /\ [][Next]_vars
-----------------------------------------------------------------------------
Covers(task, l, i) == task.level = l /\ task.start <= i /\ i < task.start + task.num

(* The loop that cuts levels into tasks leaves no actor out and gives none *)
(* to two tasks, however the numbers round.                                *)
EveryActorInOneShare ==
    phase = "run" =>
        \A l \in loaded : \A i \in 0..(Len(world[l]) - 1) :
            \E t \in DOMAIN tasks :
                /\ Covers(tasks[t], l, i)
                /\ \A u \in DOMAIN tasks : Covers(tasks[u], l, i) => u = t

(* The records in the file are the allowed actors, each once and in order, *)
(* whatever the order in which the tasks ran.  Of a save without an        *)
(* AGameMode, which records no actors, it says nothing.                    *)
FileIsTheWorld == file = saved

(* The game instance is stored when the preset says so and only then, and  *)
(* by one task, unless tasks of several levels run at once.                *)
GameInstanceIsWhole ==
    phase = "run" /\ (\A t \in DOMAIN tasks : job[t] = "done") =>
        IF bStoreGameInstance
        THEN \/ gameInstance = "stored"
             \/ mt /\ \E n \in DOMAIN Levels : n > 1 /\ Levels[n] \in loaded
        ELSE gameInstance = "old"

Renamed(path) == path \in DOMAIN given /\ given[path] # path[2]
NameNow(path) == IF path \in DOMAIN given THEN given[path] ELSE path[2]
IsBack(ref, then) ==
    \/ ref = then
    \/ /\ then # None
       /\ \/ Renamed(then)
          \/ \A k \in DOMAIN saved[then[1]] : saved[then[1]][k].name # then[2]

(* After a load the world is what was saved: every recorded actor is there *)
(* once with its value, no other of those classes is, the rest is left as  *)
(* it was, and references to recorded actors are whole, unless the actor   *)
(* they name could not have its name back.  A load that dies of a class    *)
(* that is gone or of an actor that does not spawn never gets here.        *)
LoadRestores ==
    phase = "loaded" =>
        /\ others = OtherActors
        /\ \A l \in loaded :
            /\ Cardinality({i \in Actors(l) : IsAllowed(world[l][i])}) = Len(saved[l])
            /\ \A k \in DOMAIN saved[l] : \E i \in Actors(l) :
                LET then == saved[l][k] now == world[l][i]
                IN  /\ now.name = NameNow(<<l, then.name>>)
                    /\ now.class = then.class /\ now.value = then.value
                    /\ IsBack(now.ref, then.ref)
-----------------------------------------------------------------------------
(* A sequence, of whatever. *)
IsASeq(s) == s \in Seq({s[i] : i \in DOMAIN s})

TypeInv ==
    /\ phase \in {"play", "split", "run", "prepare", "respawn", "restore", "loaded", "broken"}
    /\ at \in DOMAIN Levels /\ mt \in BOOLEAN
    /\ loaded \subseteq LevelSet /\ Levels[1] \in loaded
    /\ DOMAIN world = LevelSet /\ \A l \in LevelSet : IsASeq(world[l])
    /\ Len(world[Levels[1]]) > 0
    /\ index \in Nat /\ tasks \in Seq(Task)
    /\ gameInstance \in {"old", "stored", "torn"}

(* Each of the first c actors of a level is in one share, and no share     *)
(* goes beyond them.                                                       *)
Tiled(shares, l, c) ==
    /\ \A i \in 0..(c - 1) : \E t \in DOMAIN shares :
        /\ Covers(shares[t], l, i)
        /\ \A u \in DOMAIN shares : Covers(shares[u], l, i) => u = t
    /\ \A t \in DOMAIN shares : shares[t].level = l => shares[t].start + shares[t].num <= c

(* How many actors of the n-th level are in shares by now. *)
Shared(n) == IF n < at THEN Len(world[Levels[n]]) ELSE IF n = at THEN index ELSE 0

SplitInv ==
    phase = "split" =>
        /\ Level \in loaded /\ index <= Len(world[Level])
        /\ \A n \in DOMAIN Levels : Levels[n] \in loaded => Tiled(tasks, Levels[n], Shared(n))

SharesInv ==
    phase \in {"split", "run"} =>
        \A t \in DOMAIN tasks :
            /\ tasks[t].level \in loaded /\ tasks[t].num > 0
            /\ tasks[t].storeGameInstance <=> tasks[t].start = 0 /\ bStoreGameInstance

RunInv ==
    phase = "run" =>
        /\ \A l \in loaded : Tiled(tasks, l, Len(world[l]))
        /\ job \in [DOMAIN tasks -> {"waiting", "storing", "done"}]
        /\ \A t \in DOMAIN tasks : job[t] = "storing" => tasks[t].storeGameInstance
        /\ ~mt => \A t \in DOMAIN tasks : job[t] # "waiting" => MayRun(t)

StoredInv ==
    /\ phase = "split" => gameInstance = "old"
    /\ phase = "run" =>
        /\ \A t \in DOMAIN tasks :
            tasks[t].storeGameInstance /\ job[t] = "done" => gameInstance # "old"
        /\ ~bStoreGameInstance => gameInstance = "old"
        /\ gameInstance = "torn" => mt /\ \E n \in DOMAIN Levels : n > 1 /\ Levels[n] \in loaded

(* The cutting of the levels into shares and the running of the tasks,     *)
(* all of it.                                                              *)
SharesIInv == TypeInv /\ SplitInv /\ SharesInv /\ RunInv /\ StoredInv

(* Of two tasks of a level the later one has the later actors. *)
InOrder(shares) ==
    \A u, t \in DOMAIN shares :
        u < t /\ shares[u].level = shares[t].level =>
            shares[u].start + shares[u].num <= shares[t].start

(* What is in the slot's data and file; levels that are not in memory have *)
(* nothing there.                                                          *)
FileInv ==
    /\ world \in [LevelSet -> Seq(Actor \cup {NoActor})]
    /\ records \in [LevelSet -> Seq(Actor)] /\ file \in [LevelSet -> Seq(Actor)]
    /\ file = saved
    /\ \A l \in LevelSet \ loaded : world[l] = <<>> /\ records[l] = <<>> /\ file[l] = <<>>
    /\ phase \in {"split", "run"} => InOrder(tasks)
    /\ phase = "split" => \A n \in 1..at : records[Levels[n]] = <<>>
    /\ phase = "run" => records = NoRecords

(* Names tell the actors of a level apart, and the records. *)
NamesInv ==
    \A l \in LevelSet :
        /\ \A i, j \in Actors(l) : world[l][i].name = world[l][j].name => i = j
        /\ \A j, k \in DOMAIN file[l] : file[l][j].name = file[l][k].name => j = k
        /\ \A k \in DOMAIN file[l] : file[l][k] # NoActor /\ file[l][k].class \in Allowed

(* What a client would write. *)
RestInv ==
    phase \in {"play", "loaded"} =>
        \A l \in LevelSet :
            /\ \A j, k \in DOMAIN records[l] : records[l][j].name = records[l][k].name => j = k
            /\ \A k \in DOMAIN records[l] :
                records[l][k] # NoActor /\ records[l][k].class \in Allowed

(* The actors and the records of a level belong together one to one, but   *)
(* for the records whose actors are to be spawned.                         *)
Matches(l, k, i) ==
    world[l][i].name = records[l][k].name /\ world[l][i].class = records[l][k].class
InStep(l, missing) ==
    /\ \A i \in Actors(l) : IsAllowed(world[l][i]) =>
            \E k \in DOMAIN records[l] \ missing : Matches(l, k, i)
    /\ \A k \in DOMAIN records[l] \ missing : \E i \in Actors(l) : Matches(l, k, i)
    /\ \A j, k \in DOMAIN records[l] \ missing : records[l][j].name = records[l][k].name => j = k

(* The records under the names their actors have now. *)
RecordNow(l, record) == [record EXCEPT !.name = NameNow(<<l, record.name>>)]
RecordsInv ==
    phase \in {"prepare", "respawn", "restore"} =>
        /\ Level \in loaded
        /\ others = OtherActors
        /\ records = [l \in LevelSet |-> [k \in DOMAIN file[l] |-> RecordNow(l, file[l][k])]]
        /\ \A path \in DOMAIN given : \E n \in DOMAIN Levels :
                /\ path[1] = Levels[n]
                /\ (phase = "prepare" => n < at) /\ (phase = "respawn" => n <= at)

PrepareInv ==
    /\ phase \in {"prepare", "respawn"} =>
        \A n \in DOMAIN Levels : Levels[n] \in loaded /\ n < at => InStep(Levels[n], {})
    /\ phase = "respawn" =>
        /\ toSpawn \subseteq DOMAIN records[Level] /\ InStep(Level, toSpawn)
        /\ \A k \in toSpawn : <<Level, file[Level][k].name>> \notin DOMAIN given
    /\ phase = "restore" => \A l \in loaded : InStep(l, {})

(* The levels that have been restored. *)
RestoreInv ==
    phase = "restore" =>
        \A n \in DOMAIN Levels : Levels[n] \in loaded /\ n < at =>
            LET l == Levels[n]
            IN  \A k \in DOMAIN records[l] : \A i \in Actors(l) : Matches(l, k, i) =>
                    /\ world[l][i].value = records[l][k].value
                    /\ world[l][i].ref = Resolved(records[l][k].ref)

(* The way of the actors into the file and back into the world. *)
LoadIInv ==
    /\ FileInv /\ NamesInv /\ RestInv
    /\ RecordsInv /\ PrepareInv /\ RestoreInv /\ LoadRestores

FlagsInv == authority \in BOOLEAN /\ bStoreGameInstance \in BOOLEAN /\ isSaved \in BOOLEAN

(* All of it: the inductive invariant. *)
WorldIInv == FlagsInv /\ SharesIInv /\ LoadIInv
=============================================================================
