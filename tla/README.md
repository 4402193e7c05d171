# SaveExtension in TLA+

SaveExtension is a plugin for Unreal Engine 4 that saves a running game to
*slots* and brings it back. This directory models the queue of save and load
requests, the tasks that serve them and the threads they use, the files they
leave, the maps and levels that open meanwhile, the actors and their records,
the filters that choose them, the background tasks that list and delete slots,
and the editor in which filters are made. TLC checks the models on
small instances; TLAPS proves theorems about them for every value of their
constants. Paths below are relative to `src/Source/SaveExtension`.

## The system

| component | state | operations | interacts with |
|---|---|---|---|
| **Task queue** `SaveManager.cpp`, `SlotDataTask.cpp` | `Tasks`, `ActivePreset`; of each task `Preset`, `bRunning`, `bFinished`, `bSucceeded` | `CreateTask`, `Start`, `Finish`, `FinishTask`, `Tick`, `SetActivePreset` | called by the game between frames and from callbacks; calls the virtual functions of the first task |
| **Saver** `SlotDataTask_Saver.cpp`, `SaveFileTask.h` | snapshot of the world, `FAsyncTask`, thumbnail flags | `OnStart`, `SaveFile`, `Tick`, `OnFinish` | writes the slot file on a pool thread or in the call; events; the screenshot of the engine |
| **Loader** `SlotDataTask_Loader.cpp`, `LoadFileTask.h` | `LoadState`, `NewSlotInfo`, the data task, the current level and actor | `OnStart`, `Tick`, `OnMapLoaded`, deserialization | reads the file twice; opens a map; respawns and restores actors, maybe over many frames |
| **Slot files** `FileAdapter.cpp`, `DeleteSlotsTask.cpp` | `<slot>.sav` | save, load, delete, list | shared by all of the above, and by the next process |
| **Process life, map travel** `SaveManager.cpp` | `CurrentInfo`, `CurrentData` | `Initialize`, `Deinitialize`, `OnMapLoadStarted`, `OnMapLoadFinished` | the engine opens maps and collects garbage |
| **Level streaming** `SlotDataTask_Level*.cpp`, `LevelStreamingNotifier.h` | a record for each sublevel | `SerializeLevelSync`, `DeserializeLevelSync`, the level tasks | queued with the other tasks |
| **World serialization** `MTTask_SerializeActors.cpp` | shares of actors, one archive per task | `SerializeSync`, `SerializeLevelSync` | pool threads fill records the Saver owns |
| **Records, preparation** `Records.cpp`, `SlotDataTask_Loader.cpp` | actor and component records | `PrepareLevel`, `RespawnActors`, `FindRecord` | filters choose the actors |
| **Filters** `ClassFilter.cpp`, `LevelFilter.h`, `SavePreset.cpp` | allowed and ignored classes, the baked set | `FromPreset`, `BakeAllowedClasses`, `IsClassAllowed` | copied from the preset into the slot by saves, read from it by loads |
| **Background tasks** `ScopedTaskManager.h`, `LoadSlotInfosTask.cpp` | `MTTasks` | `CreateTask`, `Tick`, `CancelAll` | list, load and delete slots on pool threads |
| **Latent actions** `LatentActions/*` | one action of a blueprint node | constructor, `UpdateOperation` | bound to the delegate of a task |
| **Events, lifetime** `LifetimeComponent.cpp` | subscribed objects | `OnSaveBegan` ... `OnLoadFinished` | run game code in the middle of tasks |
| **Slot info** `SlotInfo.cpp`, `SavePreset.h` | played time, thumbnail cache, ids | | |
| **Editor** `../Editor/Private/Customizations/*` | the tree of classes, the popup that marks them | `PopulateClassHierarchy`, `AddAsset`, `RemoveAsset`, `OnClassClicked` | asset registry, loaded classes; writes the filters of presets |

Everything but the file tasks and the shares of actors runs on the game
thread. What makes the code hard is therefore less the threads than the *calls*:
`Finish` starts the next task before it has set its own flags, delegates and
events let the game make requests in the middle of a task, a Loader is left
and entered again by the engine when a map opens, and the file on disk is in
an intermediate state for as long as any of this goes on. PROJECT.json lists
each hazard at its line.

What makes each component correct: requests are served one at a time, in
order, once, and every caller is told the truth; what was reported as saved is
on disk and stays there until it is replaced on purpose; a load brings back
what the last save of the slot stored; a process that dies loses at most the
save it was working on; a state of a streamed level comes back when the level
does; every actor is serialized once, restored once, and belongs to one
record; every class a filter marks is saved, and no other; every caller of a
background task is told once, with every slot there is; no request waits for
ever.

## The modules

| module | models | extends |
|---|---|---|
| `SerialRequests` | what the queue promises: requests in a log, served one at a time in order | |
| `TaskQueue` | the task queue, with its re-entrant calls | |
| `TaskQueue_proofs` | the theorems about it | `TaskQueue`, `TLAPS` |
| `SaveSystem` | Saver, Loader, slot files, file threads, maps, process life | `TaskQueue` |
| `SaveSystem_proofs` | the theorems about it | `SaveSystem`, `TaskQueue_proofs` |
| `FrameSplitLoad` | one load cut into frames: `DeserializeASyncLoop`, `FindNextAsyncLevel`, the LevelLoader | |
| `FrameSplitLoad_proofs` | the theorems about it | `FrameSplitLoad`, `TLAPS` |
| `LevelStreaming` | streamed sublevels, their records, the level tasks, the current data | instance of `SerialRequests` |
| `LevelStreaming_proofs` | the theorems about it | `LevelStreaming`, `TLAPS` |
| `WorldRecords` | a world, its shares and records: `SerializeWorld`, `PrepareLevel`, `RespawnActors`, restoring | |
| `WorldRecords_proofs` | the theorems about it | `WorldRecords`, `TLAPS` |
| `ClassFilters` | marks, bakes, the filters a slot keeps, what saves and loads do with them | |
| `ClassFilters_proofs` | the theorems about it | `ClassFilters`, `TLAPS` |
| `BackgroundTasks` | `FScopedTaskList`, the tasks on it, the latent actions bound to them | |
| `BackgroundTasks_proofs` | the theorems about it | `BackgroundTasks`, `TLAPS` |
| `ClassHierarchy` | the editor's tree of classes | |
| `ClassFilterEditor` | the popup and the clear button that edit a filter | `ClassHierarchy` |
| `ClassFilterEditor_proofs` | the theorems about both | `ClassFilterEditor`, `TLAPS` |
| `MCTaskQueue`, `MCSaveSystem`, `MCFrameSplitLoad`, `MCLevelStreaming`, `MCWorldRecords`, `MCClassFilters`, `MCBackgroundTasks`, `MCClassFilterEditor` | the instances TLC checks | the module of that name |

`TaskQueue` is shown to implement `SerialRequests`. `SaveSystem` composes the
detailed queue with the tasks on it; `LevelStreaming` composes the abstract one
with the tasks of sublevels, which need no more of it than its promise.
`FrameSplitLoad` opens up the frames of a split load, which in `SaveSystem` are
`LoaderPauses` and `LoaderEnds`, actor by actor and level by level; `WorldRecords` opens
up `SaverSerializes` and `LoaderApplies`, with the actors one by one, and `ClassFilters`
the choice of the actors, which is the constant `Allowed` of `WorldRecords`.
`BackgroundTasks` is the other list of tasks of the manager: what it shares with
the queue are the slot files, and a Saver is there as the file it has open.

### TaskQueue

`tasks`, `activePreset`, `preset`, `running`, `finished`, `succeeded` are the
members of the same names. The C++ stack is explicit, because the order of
what happens *inside* `Finish` is the point: `active` is the virtual function
that is executing, `unwinding` the `Finish` calls below it whose `FinishTask`
has not returned, `asking` the request whose `Start` is at the bottom. One
action is one stretch of code between two points where game code may run:

    CreateTask   CreateTask<>()->Setup()->Bind()->Start() of SaveSlot, LoadSlot
    Tick         USaveManager::Tick, or OnMapLoadFinished, to the first task
    Return       OnStart or Tick returns
    Finish       Finish(ok), up to and with OnFinish
    FinishTask   Tasks.Remove and Tasks[0]->Start()
    FinishReturns  bFinished and bSucceeded are set
    Answer       SaveSlot or LoadSlot evaluates IsSucceeded() || IsScheduled()

A request or `SetActivePreset` may come at any point where any task function
executes: more freedom than the code gives, so what is shown here holds for
every task class. `SaveSystem` restricts it to the callbacks there are
(`GameMayCall`). The level tasks, which are queued by the engine and not by a
caller, are requests here like others; their answers are of no interest.

### SaveSystem

Every step on the game thread is a step of `TaskQueue` with the work of the
first task conjoined, so the invariants of the queue hold in it. One
behaviour is one process. `OldFile` is what earlier processes may have left:
a file is missing, torn (the process ended between the truncation and the last
flush), or whole, of this or another map, or of a map removed since.

* `SaverBegins`, `SaverSerializes`, `SaverWrote`, `SaverTicks`: `OnStart` in two parts,
  cut at `OnSaveBegan`, the end of a synchronous `SaveFile`, and `Tick`.
* `WriteOpens`, `WriteEnds`, `DataIsRead`: the file task. On a pool thread these
  interleave with everything; in a synchronous call the game thread's next
  step waits for them.
* `LoaderBegins` (info), `LoaderChecksMap` (first map or travel), `LoaderTicks`
  (`Tick` and `OnMapLoaded`, by `LoadState`), `LoaderApplies` (after
  `OnLoadBegan`, when the load is not split: all levels in this call).
* `LoaderPauses`, `LoaderEnds`: one frame of a split load, the first in the call
  that began it; the time of the frame is over, or it is the last one. Each
  frame leaves *any* state, since some actors are restored and others are what
  the game has made of them. The last one ends in a success, be all levels
  restored or some passed over, or, when a level is loaded of which the data
  has no record (`work.unrecorded`), in a failure.
* `LevelsStream`, `StackOverflows`: under a split load levels without a record come
  and go, the level at work may go, after which `Tick` waits for it (`stuck`), and
  `FindNextAsyncLevel` may call itself without end.
* `MapLoads`: the engine opens the requested map, collects garbage and calls
  `OnMapLoadFinished`. `GameTravels`: the game asks for a map itself.
* `NullInfoRead`, `Crash`, `Exit`: three ways a process ends.

The data is reduced to what the properties tell apart: a saved game is its map
and a state; `CurrentInfo` is its slot; the history variables `told`,
`content`, `owner` and `diverted` remember what each delegate was told, what
each task stored or restored, the last writer of a slot, and whether the game
itself took the level from a Loader at work. A map opens with the state
`Fresh`, so a load that restores nothing is seen.

Choices to know of. What a split load restores is not decided here:
`LoadBringsTheGameBack` promises its map, and `LoadIsComplete` of `FrameSplitLoad` its
actors, with the exceptions there are. A save on a client, which has no
`AGameMode`, stores a game without actors (`Bare`) and is told a success like any
other: `SuccessIsDurable` says that what was taken is on disk, not that it was
worth taking. A file of a slot that is deleted while a Saver has it open
stays deleted. Of the two sections of a torn file, the info may be readable
and the data never is. A file task left over by a Loader that failed is
dropped: it can only read. With a screenshot asked for, a Saver may find the
picture of an earlier save in the cache, nondeterministically. In `Exit` the
save on exit may happen or not (`bSaveOnExit`).

### FrameSplitLoad

One behaviour is one load, by a Loader (`task = "world"`) or a LevelLoader
(`"level"`), from its first actor to `Finish`. `current`, `valid`, `actors` and `index`
are `CurrentLevel`, whether that weak pointer leads somewhere, `CurrentLevelActors`
and `CurrentActorIndex`; `inLoop` is whether the game thread is inside
`DeserializeASyncLoop`.

    StartWorld, StartLevel   DeserializeASync; LevelLoader::OnStart
    NextActor                one turn of the loop, which may run out of time
    LevelDone                the end of the loop, FindNextAsyncLevel, the next level
    Tick                     Loader::Tick, which a LevelLoader inherits

Between frames actors are destroyed and spawned, and levels loaded, unloaded
and, once their objects are collected, loaded again with new actors; actors
are destroyed and spawned from inside the loop as well, by the code of the
actor that is restored. The order of `ULevel::Actors` is arbitrary, and so is
the moment the time of a frame runs out, except that a frame restores at
least one actor unless that actor is `Slow`. `FindNextAsyncLevel` calling itself
for ever is the state `overflow`. The history variables say which actors had to
be restored (`due`), which were (`restored`), twice (`repeated`), at which ones a
frame was cut (`cut`), and whether the first sublevel was away at its turn
(`passedOver`). The list of streaming levels is constant during a load.

### LevelStreaming

A USlotData is a number, 0 for the one the game starts with and `t` for the
one that Loader `t` reads; `records[d]` is its `SubLevels`, `current` is `CurrentData`, and
`data[t]` the `SlotData` a task was prepared with. `stage` is where the task in
service is: `start` while a call on the game thread runs, `writing` or `reading`
while it waits for its file, which is when the engine and the game move.

    HideLevel   OnLevelHidden and SerializeStreamingLevel, unless the level is being removed
    ShowLevel   OnLevelShown and DeserializeStreamingLevel
    LevelSave, LevelLoad     the whole of a level task, which runs in one call
    SaveBegins, SaveEnds     a Saver up to its file task, and after it
    LoadBegins, LoadEnds     the same of a Loader

`memory` is the state a level must come back with (that of its being hidden,
of a later save, or of the save that was loaded since), `saved` the same for
the last save; `unkept` are the levels hidden when nothing could keep their
state at once, `mixed` is whether a level task ran with data that was no longer
current. Those two are the exceptions of the properties (see *Disagreements*).
All saves go to one slot and one map; failing saves and loads are the matter
of `SaveSystem`.

### WorldRecords

`world[l]` is `ULevel::Actors`, with the null entries destroyed actors leave
(`NoActor`); an actor is its name, class, one value and one reference. `records`
are the records of the levels in the current data, `file` those on disk.

    StartSave, AddTask, SplitNextLevel   SerializeWorld, the loop of SerializeLevelSync
    ClientSaves                          a save without AGameMode
    StartTasks                           RunScheduledTasks
    StoreGameInstance, SerializeActors   FMTTask_SerializeActors::DoWork, in two parts
    FinishSave                           DumpData of every task, SaveFile, CleanRecords(true)
    StartLoad                            the records of the file are the current ones
    PrepareLevel, RespawnActor, PrepareNextLevel   PrepareAllLevels
    RestoreLevel                         DeserializeLevelSync, FinishedDeserializing

`NumTasksPerLevel` and `NumPerTask` keep the arithmetic of the code: rounding to
nearest, rounding up, the minimum. With `mt` (`IsMTSerializationSave`) the tasks
run in any order and overlap; without, one by one, the first of them last. A
save runs in one call, so the game moves only between saves and loads: it
spawns, destroys and changes actors, collects garbage, opens the map again,
and may come back in a version without some class. A destroyed actor keeps
its name until garbage is collected; the engine then gives a respawned actor
another one, and references by path to it lead nowhere. A record of a class
that is gone, or a null result of `SpawnActor`, leads to phase `broken`, from
which only `Restart` leads. Components, transforms and tags are part of the
value. The variables `saved`, `others` and `given` are history.

`RecordsOf` is the loop of `DoWork`, as a recursive function of the number of turns
made; `ActorRecords(t)` is what it leaves for the share of task `t`, and `saved` what one
loop over all of a level would leave, so that `FileIsTheWorld` compares the work
of the tasks with work that was never cut. It is about worlds with `authority`:
`SerializeWorld` of a client returns at once, the file has the records of
streaming levels as they were and none of the persistent level (`ClientSaves`),
and there is nothing to compare it with. `isSaved` tells no file from one without
records, which can be loaded like any other; the load then destroys every actor
of the filter's classes. `GameInstanceIsWhole` asks what the preset says
(`bStoreGameInstance`). That actors of a level have names
of their own is an assumption on `StartWorld` (the engine keeps the names of
objects of one outer apart) and a result for every later world (`NamesInv`).

### ClassFilters

An actor is its class here. `slot` is the `GeneralLevelFilter` of the current data,
`baked` the four `BakedAllowedClasses`, `todo` what is left of the bake under way,
`file` what the slot keeps. `BeginSave` copies the filters of the preset
(`FromPreset`, with the arguments as the code has them), `BeginLoad` takes those of
the file and brings the classes of its records into memory, `BeginHide` and
`BeginShow` (the level tasks) bake those of the current data again; `BakeClass`
is one turn of the second pass of `BakeAllowedClasses`, in any order. `EndSave` and
`EndHide` record what is allowed, `EndLoad` says what `PrepareLevel` destroys.
Between tasks the game loads classes, changes the preset, streams the
sublevel, and restarts. `Allows` is the reference: going up from the class the
first mark counts, and allows where a class bears both.

### BackgroundTasks

`task` is every task that was created, `holders` the array `MTTasks.Tasks`, `game` and
`at` the place of the game thread in `FScopedTaskList::Tick`.

    LoadAllSlotInfos, LoadInfo, DeleteAllSlots      CreateTask on the list
    LoadAllSlotInfosSync, DeleteSlot, SyncCallTicks the same in a call, with a tick
    FindSlotFileNames, ReadInfo, DeleteFile         DoWork, on a pool thread
    SaveOpens, SaveEnds                             a Saver's file beside them
    Tick, Passes, Tells..., CallbackReturns, TickEnds   FScopedTaskList::Tick
    StartAction, UpdateOperation, WorldIsDestroyed  latent actions
    Deinitialize, AllAreCancelled                   CancelAll

`Tells...` is `TryNotifyFinish`, by who listens: the game, whose callback may make
requests while the list is gone through, a latent node, or nobody. Four ways
lead to phase `dead`, where the process has crashed or its behaviour is no longer
defined, and where nothing is promised: `TellsOfNull` (a torn file),
`TellsFreed` (a node whose world was destroyed; it may also go unnoticed),
`SyncCallInCallback` (a list ticked from inside its own tick) and
`RequestWhileCancelling` (the array grows under the loop of `CancelAll`). `owed` is
history: the slots a list has to have, or a deletion to delete.

### ClassHierarchy and ClassFilterEditor

`Chain` gives every class itself and those above it, in order. `tree` gives every
`FSEClassFilterNode` its parent; a node stands for a class in memory or for a
blueprint asset. `PopulateClassHierarchy` is the whole of the function of that
name: the tree of the classes in memory (`ClassTree`), then the loop that hangs
the nodes of assets, in the order the registry lists them (`Linked` is one turn,
which hangs a node and fills its place in the list with the last node, or goes on to the
next one), and `AddUniqueChild`, by which the node of an asset takes the place
and the children of that of its class. Every turn leaves one node less to look
at, so as many turns are made as the list has nodes.
`AddAsset` and `RemoveAsset` are the handlers of the registry; the file of a class in
memory may be deleted too. There is one tree: the header keeps it, and the
delegate that asks for a new one, in statics (`ClassFilterHelpers.h:155`), one for
each translation unit, which are one and the same in a unity build. In another
build a popup may not hear of a refresh, so fewer steps happen than here.

The popup has copies of the nodes with the mark each had (`shown`), those found by
a search (`found`, which a refresh leaves `older`), and repopulates in `Tick`. `Click`
is `OnClassClicked` with `MarkClass`; `ClearFilter` is the button of the row, which
resets the base class too. One popup and one edited filter are modelled.

## The runs

| run | instance | shows |
|---|---|---|
| `queue` | 3 tasks, 2 presets | `OnlyHeadRuns`, `FinishedOnce`, `RefusedHasFailed`, `QueueUsesActivePreset`, the refinement of `SerialRequests`, and `EveryRequestIsServed` |
| `saves` | 2 tasks, 2 slots, 2 maps and a lost one, 2 states, symmetric, presets that are asynchronous, split or neither (3,980,720 states) | `SuccessIsDurable`, `OnlyTheSaveAtWorkIsAtRisk`, `OverrideIsAsked`, `LoadsSeeTheLastSave`, `LoadBringsTheGameBack`, `LoadsFailForCause` |
| `told` | 2 tasks, 1 slot, 2 maps, 1 state, kills and screenshots, 2 presets (546,766 states) | `EveryRequestIsTold` |
| `write_fails` | as `told`, a disk that refuses writes | `SuccessIsDurable` is violated |
| `frame_split` | 2 sublevels, 5 actors, one ignored, one slow | `LoadIsComplete`, `OnlyCutActorsRepeat`, `LoadEnds`, and the inductive `LoadIInv` |
| `next_level` | the same | `NextLevelIsFound` is violated |
| `streaming` | 5 requests, 2 sublevels, 2 states, symmetric | `LevelsAreCached`, `LevelComesBack`, `FileIsOneMoment`, `LastLoadIsCurrent`, and the inductive `StreamingIInv` |
| `world` | 2 levels, 2 names and 2 new ones, 3 classes, 4 threads, server or client (981,532 states) | `EveryActorInOneShare`, `FileIsTheWorld`, `GameInstanceIsWhole`, `LoadRestores`, and the inductive `WorldIInv` |
| `filters` | 4 classes in a tree, 3 presets | `BakeIsNearestMark`, `LoadSparesTheRecorded`, and the inductive `FiltersIInv` |
| `load_filter` | the same | `SavesUseTheSaveFilters` is violated |
| `tasks` | 2 tasks, 2 slots, 1 latent node, a Saver | `ToldOnce`, `ListsMissNoSlot`, `DeletedIsGone`, `EveryTaskIsTold`, `NodesGoOn` |
| `editor` | a chain of 3 blueprints, 3 native classes, one search, 2 marks (489,592 states) | `EachClassOnce`, `TreeKeepsClasses`, `ColoursTellTheBake` |

**Bounds.** Three requests are the least at which one runs, one is next and one
could overtake; the stack of `Finish` calls then grows to its full depth. With
two, a load waits for a save of the same slot and the other way round, a save
overrides a save, and a request is made from each callback of another. Two
slots are the least that tell the slot at work from another, two maps the
least that make a Loader travel, two states the least at which an old and a
new save differ. A task is a request, so the number of requests is the only
bound on the length of a session; deletions, travels and play are unbounded.
In `frame_split` a level has two actors so that it can be cut between them, one
level has one so that a frame can reach the next level, and the second
sublevel is the one that `FindNextAsyncLevel` must find; five requests in `streaming`
are a save, a hidden level, a load, a shown level behind it, and a save of the
result.

In `world` four threads make two tasks for each level, so that a level is cut and
one with a single actor is not; the persistent level begins with an actor that
is saved, a null entry and one that is not saved; two changes of the game
(`MaxMoves`) between saves and loads are enough to destroy a recorded actor and
take its name, and two loads (`MaxLoads`) to load into a world that a load left.
Three levels or more cuts add no case to the loop, and the theorems cover them.
In `filters` a class has up to two others above it, the presets nest marks both
ways, mark a class twice and mark one that is not loaded; the session is
unbounded. In `tasks` the bound is the number of tasks (`MaxTasks`): two are one that
is told and one that its callback, a node or a synchronous call adds. In
`editor` the tree is rebuilt in every order of the registry, with the asset in the
middle of the chain coming and going (`Movable`); two marks (`MaxMarks`) are one that
allows and one below it that denies.

**Crashes.** A killed process leaves the disk as it is, so what a crash can cost
is an invariant of the disk in *every* state: `OnlyTheSaveAtWorkIsAtRisk`. The
run `saves` leaves the action `Crash` out for that reason, `told` has it.

**Fairness.** `EveryRequestIsTold` assumes `SaveFairness`: a call on the game thread
returns (weak fairness of `TaskRuns`); a pool thread runs its task; the engine
ticks the manager and opens a requested map again and again, strong fairness,
since both happen only between calls; the engine takes a requested
screenshot; a load split over frames has a last frame, strong fairness,
because other ticks go on between. What stands behind the last is `LoadEnds` of
`FrameSplitLoad`, under the weak fairness of the loop and of `Tick` alone: a load
ends, or it is left in one of four named ways. In `told` the first two are
`StackOverflows`, which ends the process, and `LevelsStream`, which takes the level
(`diverted`); the third, `LevelLoadIsCut`, is no Loader's; the fourth, an actor slower
than the time limit (`AtSlowActor`), is what the strong fairness excludes. No
fairness is asked of the game: it may never make a request and never stop
travelling.

`EveryTaskIsTold` and `NodesGoOn` assume that the game thread goes on (weak fairness
of `GameThread`, which includes the ticks the engine gives the manager in every
frame), that a pool thread does the work of its task (weak fairness of `DoWork`,
for each task), and that a world which lives updates the latent action of each
node (strong fairness, since that happens between calls). Nothing is asked
of Savers or of `Deinitialize`.

Deadlock is not checked in `SaveSystem` and `BackgroundTasks`, where a process ends,
nor in `FrameSplitLoad`, where a load does.

**The exception of `diverted`.** A Loader in `LoadingMap` waits for its own map.
If the game opens another one, the Loader, and every request after it, waits
until the game happens to come by that map; and a split load waits for its
level if that was unloaded. The properties about loads say so (`~diverted`)
instead of hiding it.

### Disagreements found

Three are shown by runs that end in a violation:

1. *A failed write is a success* (`write_fails`). `FSaveFileTask::DoWork` drops the
   result of `SaveFile`; `Delegates.h:9` says the info is null if the save failed.
   The old file is gone by then.
2. *The search for the next level does not end* (`next_level`).
   `FindNextAsyncLevel` calls itself with unchanged members when the next sublevel is not
   loaded; `SlotDataTask_Loader.cpp:619` says it finds the next one.
3. *The filters for loading are used by saves* (`load_filter`). `FromPreset` asks
   `GetActorFilter(true)`, which means loading, for the filter of saves, and the
   other way round; loads ask `ShouldSave`. `SavePreset.h:101` says the load filter is
   used while loading.

The others are exceptions that properties which hold name, so that each
property says exactly what is left of the promise:

4. *A torn file ends the process* (`NullInfoRead` in `SaveSystem`, `TellsOfNull` in
   `BackgroundTasks`, exception of `EveryTaskIsTold`). The null info of an unreadable
   file is dereferenced by `AfterFinish` at a later tick.
5. *Synchronous loads of another map fail* (`asyncLoad` in `LoadsFailForCause`).
   What `FLoadFileTask` reads is held by a weak pointer; only objects made on a
   pool thread survive the garbage collection that goes with the new map.
   `Docs/resources/multithreading.md:37` presents the setting as free to choose.
6. *A LevelLoader that is cut is never continued* (`LevelLoadIsCut` in `LoadEnds`).
   The `Tick` it inherits looks at a `LoadState` it never sets, and the queue waits
   for ever; `SlotDataTask_LevelLoader.cpp:56` says it continues on the next frame.
7. *A level shown during a load brings the old data back* (`mixed` in
   `LevelsAreCached` and `LastLoadIsCurrent`). Its LevelLoader holds the `CurrentData` from
   before the load and makes it current again, against `SaveManager.h:80`.
8. *A level that no save has seen is not cached* (`unkept` in `LevelsAreCached`),
   against `Docs/resources/level-streaming.md:5`: only a Saver makes records.
9. *The game instance is stored by several tasks at once* (the second disjunct
   of `GameInstanceIsWhole`): the first task of every level writes the one record.
10. *`FDeleteSlotsTask` reports success* for files it could not delete, because a
    list had them open (`owed` in `DeletedIsGone`).
11. *A respawn may crash the load* (phase `broken` of `WorldRecords`): a null
    `SpawnActor` is used, and a record of a class that is gone puts what follows it
    out of step.
12. *A latent node outlived by its task* (`TellsFreed`), and lists changed from
    inside their own loop (`SyncCallInCallback`, `RequestWhileCancelling`).
13. *The tree of classes misses some* (`BelowTwoBlueprints` in `TreeKeepsClasses`),
    against `../Editor/Private/Customizations/ClassFilter/ClassFilterHelpers.h:50`: a class below a blueprint in
    memory whose super class is another blueprint in memory may be lost.
14. *A split load fails where another does not* (`work.unrecorded` in
    `LoadsFailForCause`). A sublevel in memory of which the file has no record ends
    it in a failure, in the middle of restoring the world
    (`Private/Serialization/SlotDataTask_Loader.cpp:305`); a load that is not
    split skips such a level (line 272).
15. *A save on a client is a success without actors* (`SerializeWorld`, `ClientSaves`).
16. *A click after a refresh under a search* marks a node that was replaced
    (`strayed` in `ColoursTellTheBake`).

## The theorems

`TaskQueue_proofs` proves, for any set of tasks and any set of presets, that

    Safety => []TypeOK, []OnlyHeadRuns, []FinishedOnce, []RefusedHasFailed,
              []QueueUsesActivePreset, []IInv, ImplementsSerialRequests

from `NoTaskAssumption` and `PresetAssumption` alone. `OnlyHeadRuns` is not
inductive: whether `FinishTask` starts the right task depends on no task being
queued twice and on no queued task having run before, and `RefusedHasFailed`
depends on which `Finish` calls are still on the stack. `IInv` adds

* `QueueInv`: no task is queued twice; one that runs is queued or served; one
  that is queued or served was asked for;
* `StackInv`: a task is on the stack of `Finish` calls at most once and is not
  finished while it is; a served task is finished or on that stack;
* `AnswerInv`: the pending answer is that of `asking`, which is queued or served.

Lemmas about `Append`, `RemoveAt` (as `Without`) and `Contains` come first, then
one step per action, then the conjuncts the action can disturb. The refinement maps each step to `Submit` (`CreateTask`),
`Complete` (`FinishTask`) or a stutter, with `IInv` as the invariant.

`SaveSystem_proofs` first shows that every step of `SaveSystem` is a step of
`TaskQueue` or leaves it alone (`QueueInTheSystem`), so all of the above holds there.
Then, for any slots, maps, states and requests,

    SaveSafety => []SaveTypeOK, []DiskInv, []LoadInv, OverrideIsAsked,
                  LoadBringsTheGameBack, LoadsFailForCause
    ~WritesFail  |-  SaveSafety => []SuccessIsDurable,
                     []OnlyTheSaveAtWorkIsAtRisk, LoadsSeeTheLastSave

`~WritesFail`, a disk that takes what is written, is an assumption that run
`write_fails` shows to be needed. None of these is inductive: what a `told` save left
on disk depends on who writes files now. `DiskInv` relates the files to their
last writer (`OwnerInv`), the work of the running task to its request and its
stage (`StageInv`, `SavingInv`, `ReadingInv`), and what was told to what was stored
(`ToldInv`), with `IInv` to know that one task works at a time. `LoadInv` relates
the file, the info, the data and the map of a Loader over its whole life
(`LoadedInv`), and the travel of the engine to the state it waits in (`TravelInv`).
Of a split load the last two theorems say what holds of it: its map, and a
failure for want of a file or of a record. That its actors are restored too is
`LoadIsComplete`, proved below.

`FrameSplitLoad_proofs` proves, for any number of sublevels and any finite set of
actors, `LoadSafety => []LoadIInv`, `[]LoadIsComplete` and `[]OnlyCutActorsRepeat`. The
invariant says that what is due is restored, ahead of the level and index at
work, or gone (`DueInv`), and that what is restored is behind them (`RestoredInv`);
it needs that `CurrentLevelActors` has each actor of the level once (`CopyInv`).

`LevelStreaming_proofs` proves, for any number of requests, sublevels and states,
`StreamingSpec => []StreamingIInv`, `[]LevelsAreCached`, `[]FileIsOneMoment`,
`[]LastLoadIsCurrent` and `LevelComesBack`. A level that was just hidden is not in its
record yet: `KeptInv` says that then its LevelSaver is the task in service, with
the current data, before anything else can move (`KeptNext`). `OrderInv` says that
tasks hold data older than themselves, so that a Loader reads into a USlotData
nobody uses.

`WorldRecords_proofs` proves, for any levels, worlds, filters, numbers of threads
and minimal shares, `Spec => []WorldIInv`, `[]EveryActorInOneShare`,
`[]GameInstanceIsWhole`, `[]FileIsTheWorld` and `[]LoadRestores`. `WorldIInv` has two halves,
for the two halves of an actor's way, and the types of its flags.

`SharesIInv` is about the cutting. That the shares are right when they are run is
not inductive; `SplitInv` says that at any turn of the loop the shares made so far
tile the actors up to `index` (`Tiled`), of every level that was passed and of none
that was not (`TilesGrow`, for one more share). For that a share has at least one
actor and none beyond the last, whatever the divisions round to (`ShareSize`).
`RunInv` carries the tiling to the tasks and says what a run without threads is
in; `StoredInv` says who wrote the game instance.

`LoadIInv` is about the records.

* *Into the file.* That the records of all tasks together are those of an uncut
  loop needs, beyond the tiling, that of two tasks of a level the later has the
  later actors (`InOrder`), since records are dumped in the order of the tasks,
  and that the records of a level were emptied (`FileInv`). What is left in the
  records between saves and loads still has names of its own and classes of the
  filter (`RestInv`), as a save on a client writes it to the file. The proof goes by
  induction twice: a loop over `a + b` actors leaves what one over `a` and one over
  the next `b` leave (`RecordsOfBoth`), and after `n` tasks each level has the records
  of the actors the first `n` shares cover (`DumpedIsTaken`, `DumpedIsTheWorld`).
* *Back into the world.* `LoadRestores` is not inductive at any point of a load.
  `InStep` says that in a level that was prepared the actors of the filter's
  classes and the records are one to one, by name and class; while actors are
  respawned, but for the records in `toSpawn` (`PrepareInv`). Names are unique in
  the world and in the file (`NamesInv`), and the records are those of the file
  under the names their actors were given (`RecordsInv`); without that a respawned
  actor could take the name of a second record. A level that was passed by
  `RestoreLevel` has the values and the resolved references (`RestoreInv`), and
  nothing that is done to later levels changes which paths resolve.

The library's induction theorems take an operator, which the provers cannot
instantiate. `Induct` states induction over the naturals for a *set* `S` that has 0
and is closed under `+ 1` instead, and is proved from the pigeonhole theorem of
`FiniteSetTheorems`; what a recursive function computes follows from it
(`RecordsOfIs`, `DumpedIs`).

`ClassFilters_proofs` proves, for any classes, chains of super classes and presets,
`Spec => []FiltersIInv`, `[]BakeIsNearestMark` and `[]LoadSparesTheRecorded`. `BakeInv` says
that what is baked is allowed by the nearest mark, and that what is allowed is
baked or still to be looked at. The order of the classes does not matter
because every loaded class with a mark that allows is baked before the second
pass, and what else is baked by then is itself allowed by a mark above it: going
up, a class meets one before it meets any that is ignored exactly if its
nearest mark allows it (`BakedIsAllowed`, `AllowedPasses`). `RecordsInv` says what every record holds.

`BackgroundTasks_proofs` proves, for any number of tasks, slots and nodes,
`Spec => []BackgroundIInv` and `[]ToldOnce`. `ListInv` says that the tasks that were not
told are exactly those in `Pending`: in the list, from the place `CancelAll` is at
on, and not the one whose delegate is executed. The lemmas are about the list:
what `RemoveAllSwap` at the current place and `CreateTask` at its end leave pending.

It also proves `Spec => []ListsMissNoSlot` and `[]DeletedIsGone`. The invariant is
`OwedInv`: what a list owes is saved and, once the files are listed, still to be
read; what a deletion owes is still to be deleted or gone. Each step of a pool
thread must keep it for *every* task, as one task deletes what another reads.

`ClassFilterEditor_proofs` proves, for any finite set of classes and their chains,
any assets in any order of the registry, and any filter,
`Spec => []EditorIInv`, `[]EachClassOnce`, `[]ColoursTellTheBake` and `TreeKeepsClasses`.
It assumes that the chains end at `Object`, that what is above a class on one is
that class's own chain, and that the classes above a native class are native.

* *The loop.* `LoopInv` says of every turn that the nodes are a forest whose roots
  are the nodes still in the list, that siblings differ in class, that no class
  in `Kept` has lost all its nodes, and that none of those was passed over
  (`LinkedKeepsLoopInv`). The last part is why a loop that never goes back is
  enough: the parent of a node in the list is in it too, or below a node that is
  (`PresentBelowPending`). What `AddUniqueChild` does with twins is in `UniqueChild`: a
  node that goes leaves one of its class, or was below two blueprints in memory.
  At the end no root but that of the tree is in `Kept`, so all of `Kept` is below
  it (`EndedKeeps`). Each class is once in the tree because siblings differ and
  every node is below that of its super class (`OnceBelowRoot`).
* *The popup.* `ColoursTellTheBake` needs that a popup has, between two of its nodes,
  every node of the tree, so that a node is below another on screen exactly if
  its class is (`IsCopy`, `CopyBelow`), and that the copies have the marks of the
  filter after every click, which marks one node: those of a class are one.
  The nearest mark above then decides both the colour and the bake (`ColourTells`).

`EditorIInv` itself is not a property of run `editor`: it was checked there before it
was proved, and the three properties that follow from it stay.

Only model-checked is liveness (`EveryRequestIsServed`, `EveryRequestIsTold`, `LoadEnds`,
`EveryTaskIsTold`, `NodesGoOn`), which is beyond the prover. Every other property of a
passing run is stated by a theorem.

## Not modelled

* *Settings, the blueprint library, module registration*: forwarding functions
  and configuration objects with no behaviour of their own.
* *The archive format*: byte layout. Where a property depends on it, what it
  does is modelled: paths that are resolved or not, a record read out of step.
* *`SaveGameAction`, `LoadGameAction`*: of the same form as the two latent actions in
  `BackgroundTasks`, bound to tasks of the queue.
* *Played time, ids, the thumbnail cache*: a Saver's wait for a picture is in
  `SaveSystem`, the picture is not.
* *`bAutoLoad` and the save on exit*: in `Exit` the save may happen or not.
* *`LifetimeComponent`*, and objects that subscribe while events are sent. The
  places where events let game code run are in `SaveSystem` (`GameMayCall`).
* *`FSEClassFilter::Merge` and `operator==`*: no task calls them.
* *Of the editor*: undo, several filters edited at once, the button that clears
  in the popup, the creation of asset types.
* *The tests*: read for intent.

## The plan

1. Done: `TaskQueue`, `SaveSystem`, `FrameSplitLoad`, `LevelStreaming`, `WorldRecords`,
   `ClassFilters`, `BackgroundTasks`, `ClassHierarchy`, `ClassFilterEditor`, with their
   proofs.
2. Theorems: that a latent action waiting for a task always has one that can still
   tell it, which is the safety half of `NodesGoOn` (that of `EveryRequestIsServed`
   is `OnlyHeadRuns`); and what stays true of the other slots on a disk that refuses
   a write.
3. `Lifetime`: subscribers of events that come and go while one is sent, and
   `Start`, `Saved`, `Resume`, `Finish` of a component.
4. Played time, thumbnails, `bAutoLoad` and the save on exit, in `SaveSystem`.
