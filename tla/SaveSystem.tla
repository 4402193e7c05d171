----------------------------- MODULE SaveSystem -----------------------------
(***************************************************************************)
(* What the tasks of the queue do: USlotDataTask_Saver writes the game to  *)
(* the file of a slot, USlotDataTask_Loader brings it back.  Every step    *)
(* below that runs on the game thread is a step of TaskQueue with the      *)
(* task's own work conjoined, so all that is said of the queue holds here. *)
(*                                                                         *)
(* Besides the game thread there are: one file task on a pool thread       *)
(* (FSaveFileTask or FLoadFileTask of the first task), the engine, which   *)
(* opens maps and takes screenshots, and the game itself, which plays on   *)
(* between frames and is called back by the tasks.                         *)
(*                                                                         *)
(* One behaviour is one process, from Initialize to its end by Deinitialize *)
(* or by a crash.  What an earlier process left on disk is in Init.        *)
(***************************************************************************)
EXTENDS TaskQueue

CONSTANTS
    Slot, NoSlot,           \* the slot names, and the None name
    Map, NoMap,             \* the maps the game can open
    LostMap,                \* a map named in an old save and gone since
    State, Fresh,           \* what the game can be in; Fresh on a map just opened
    Bare,                   \* the state of a game without the actors that are saved
    FirstMap,               \* the map the game starts on
    Missing, Torn,          \* no file; a file that was never completed
    Nothing,                \* the null object
    Asked,                  \* the requests the game makes
    OldFile,                \* what earlier processes may have left of a slot
    Crashes,                \* the process may be killed
    WritesFail              \* the disk may refuse a write

Request == [kind : {"save", "load"}, slot : Slot, override : BOOLEAN, shot : BOOLEAN]
Game == [map : Map, state : State]
Save == [map : Map \cup {LostMap}, state : State]

ASSUME SaveSystemAssumption ==
    /\ Preset \subseteq [asyncSave : BOOLEAN, asyncLoad : BOOLEAN, split : BOOLEAN]
    /\ FirstMap \in Map /\ {Fresh, Bare} \subseteq State /\ LostMap \notin Map
    /\ NoMap \notin Map \cup {LostMap} /\ NoSlot \notin Slot
    /\ {Missing, Torn, Nothing} \cap Save = {}
    /\ Nothing \notin Request
    /\ Missing # Torn
    /\ OldFile \subseteq Save \cup {Missing, Torn}
    /\ Asked \subseteq Request
    /\ {Crashes, WritesFail} \subseteq BOOLEAN

VARIABLES
    file,                   \* the .sav file of each slot
    game,                   \* the world: its map, and its state
    travel,                 \* the map the engine will open next
    current,                \* FileName of USaveManager::CurrentInfo
    request,                \* the arguments each task was set up with
    work,                   \* the members of the first task: see Work
    nullInfo,               \* MTTasks holds an FLoadSlotInfosTask with a null info
    phase,                  \* of the process
    told,                   \* history: what the delegate of each task was told
    content,                \* history: the game each task stored or brought back
    owner,                  \* history: the Saver that last wrote to a slot
    diverted                \* history: the game took the level from a Loader at work

(* LoadState of a Loader or the point a Saver has reached; the state of   *)
(* its FAsyncTask; NewSlotInfo; the data written or read; the thumbnail;   *)
(* for a split load, whether a level is loaded that the data has no record *)
(* of, and the load will come to it.                                       *)
Work == [stage : {"idle", "began", "saving", "reading", "loadingMap",
                  "waiting", "loadBegan", "deserializing", "stuck"},
         io : {"none", "queued", "open", "done"},
         info : Save \cup {Nothing},
         data : Save \cup {Nothing},
         picture : BOOLEAN,
         unrecorded : BOOLEAN]
NoWork == [stage |-> "idle", io |-> "none", info |-> Nothing,
           data |-> Nothing, picture |-> TRUE, unrecorded |-> FALSE]

disk == <<file, owner>>
world == <<game, travel, diverted>>
session == <<current, nullInfo, phase>>
story == <<request, told, content>>
allvars == <<vars, disk, world, session, story, work>>

SaveTypeOK ==
    /\ TypeOK
    /\ file \in [Slot -> Save \cup {Missing, Torn}]
    /\ game \in Game
    /\ travel \in Map \cup {NoMap}
    /\ current \in Slot \cup {NoSlot}
    /\ request \in [Task -> Request \cup {Nothing}]
    /\ work \in Work
    /\ nullInfo \in BOOLEAN
    /\ phase \in {"up", "closing", "crashed"}
    /\ told \in [Task -> {"nothing", "success", "failure"}]
    /\ content \in [Task -> Save \cup {Nothing}]
    /\ owner \in [Slot -> Task \cup {NoTask}]
    /\ diverted \in BOOLEAN

(* Initialize.  ReloadCurrentSlot, called for bAutoLoad, finds no current  *)
(* info yet and returns false.                                             *)
SaveInit ==
    /\ Init
    /\ file \in [Slot -> OldFile]
    /\ game = [map |-> FirstMap, state |-> Fresh]
    /\ travel = NoMap
    /\ current = NoSlot
    /\ request = [t \in Task |-> Nothing]
    /\ work = NoWork
    /\ nullInfo = FALSE
    /\ phase = "up"
    /\ told = [t \in Task |-> "nothing"]
    /\ content = [t \in Task |-> Nothing]
    /\ owner = [s \in Slot |-> NoTask]
    /\ diverted = FALSE

-----------------------------------------------------------------------------
(* Requests of the game.                                                   *)

(* Where the code gives control to the game: between frames, in OnSaveBegan *)
(* and OnLoadBegan, and in the delegates OnFinish executes.                *)
GameMayCall ==
    /\ phase = "up"
    /\ \/ Idle
       \/ active.fn = "OnFinish"
       \/ active # NoCall /\ work.stage \in {"began", "loadBegan", "deserializing"}

Ask(t, r) ==
    /\ CreateTask(t)
    /\ request' = [request EXCEPT ![t] = r]
    /\ UNCHANGED <<disk, world, work, current, nullInfo, told, content>>

SaveSlot(t, r) ==
    /\ GameMayCall
    /\ r.kind = "save"
    /\ Ask(t, r)
    /\ UNCHANGED phase

(* LoadSlot; IsSlotSaved looks for a file of any content. *)
LoadSlot(t, r) ==
    /\ GameMayCall
    /\ r.kind = "load"
    /\ file[r.slot] # Missing
    /\ Ask(t, r)
    /\ UNCHANGED phase

(* DeleteSlot.  It also ticks MTTasks: see NullInfoRead.  A file that is   *)
(* open for writing may go too; its writer then goes on into the void.     *)
DeleteSlot(s) ==
    /\ GameMayCall
    /\ ~nullInfo
    /\ file[s] # Missing
    /\ file' = [file EXCEPT ![s] = Missing]
    /\ owner' = [owner EXCEPT ![s] = NoTask]
    /\ UNCHANGED <<vars, world, session, story, work>>

-----------------------------------------------------------------------------
(* The running task: its member functions are called with active.task.     *)

me == active.task
mine == request[me]
Calling(fn, kind) == active.fn = fn /\ mine.kind = kind

(* Finish(ok), as far as the delegates that OnFinish executes first. *)
FinishTold(ok) ==
    /\ Finish(ok)
    /\ told' = [told EXCEPT ![me] = IF ok THEN "success" ELSE "failure"]

GoOn == Return /\ UNCHANGED told
Stay == active.fn # "OnFinish" /\ UNCHANGED <<vars, told>>

(* Mutant of MayWrite: bOverride is not looked at. *)
MayWriteAlways(r) == r.slot \in Slot

(* bOverride, or there is no file. *)
MayWrite(r) == r.override \/ file[r.slot] = Missing

(* Saver::OnStart up to OnSaveBegan: an old file is deleted, or spared.    *)
SaverBegins ==
    /\ Calling("OnStart", "save")
    /\ work.stage = "idle"
    /\ IF MayWrite(mine)
       THEN /\ Stay
            /\ file' = [file EXCEPT ![mine.slot] = Missing]
            /\ owner' = [owner EXCEPT ![mine.slot] = me]
            /\ work' = [work EXCEPT !.stage = "began"]
       ELSE FinishTold(FALSE) /\ UNCHANGED <<disk, work>>
    /\ UNCHANGED <<world, session, request, content>>

(* SerializeWorld: the game as it is now; on a client, which has no        *)
(* AGameMode, it returns before any actor is recorded, and OnStart goes on. *)
SerializeWorld == {game, [game EXCEPT !.state = Bare]}

(* The rest of OnStart, and SaveFile: the snapshot is taken and the file   *)
(* task starts, on a pool thread or in the middle of this call.  A cached   *)
(* thumbnail is accepted in place of the one just asked for.               *)
SaverSerializes ==
    /\ Calling("OnStart", "save")
    /\ work.stage = "began"
    /\ current' = mine.slot
    /\ \E save \in SerializeWorld, cached \in BOOLEAN :
          /\ work' = [work EXCEPT !.stage = "saving", !.io = "queued", !.data = save,
                                  !.picture = ~mine.shot \/ cached]
          /\ content' = [content EXCEPT ![me] = save]
    /\ IF preset[me].asyncSave THEN GoOn ELSE Stay
    /\ UNCHANGED <<disk, world, nullInfo, phase, request>>

(* SaveFile after a file task that ran synchronously. *)
SaverWrote ==
    /\ Calling("OnStart", "save")
    /\ work.stage = "saving"
    /\ work.io = "done"
    /\ IF mine.shot THEN GoOn ELSE FinishTold(TRUE)
    /\ UNCHANGED <<disk, world, session, request, content, work>>

(* Mutant of FileTaskIsDone: a task that was started counts as done. *)
FileTaskIsStarted == work.io # "none"

(* IsDone of SaveTask and LoadDataTask. *)
FileTaskIsDone == work.io = "done"

(* Saver::Tick. *)
SaverTicks ==
    /\ Calling("Tick", "save")
    /\ IF FileTaskIsDone /\ work.picture THEN FinishTold(TRUE) ELSE GoOn
    /\ UNCHANGED <<disk, world, session, request, content, work>>

(* The infos that LoadInfo may make of a file.  A torn one may still hold  *)
(* its first section, the info, but never the whole of the data.           *)
InfosIn(f) ==
    CASE f = Missing -> {Nothing}
      [] f = Torn -> {Nothing} \cup Save
      [] OTHER -> {f}

(* Loader::OnStart up to StartLoadingData.  LoadInfo of a file without an  *)
(* info leaves a null one in the result of its FLoadSlotInfosTask.         *)
LoaderBegins ==
    /\ Calling("OnStart", "load")
    /\ work.stage = "idle"
    /\ \E info \in InfosIn(file[mine.slot]) :
          IF info = Nothing
          THEN /\ FinishTold(FALSE)
               /\ nullInfo' = (nullInfo \/ file[mine.slot] = Torn)
               /\ UNCHANGED work
          ELSE /\ Stay
               /\ work' = [work EXCEPT !.stage = "reading", !.io = "queued", !.info = info]
               /\ UNCHANGED nullInfo
    /\ diverted' = (diverted \/ travel # NoMap)
    /\ UNCHANGED <<disk, game, travel, current, phase, request, content>>

(* StartDeserialization up to OnLoadBegan.  Which levels have a record is  *)
(* the file's affair, and asked by a split load only.                      *)
StartDeserialization ==
    \/ /\ work.data = Nothing
       /\ FinishTold(FALSE) /\ UNCHANGED work
    \/ /\ work.data # Nothing
       /\ Stay
       /\ \E unrecorded \in BOOLEAN :
             /\ unrecorded => preset[me].split
             /\ work' = [work EXCEPT !.stage = "loadBegan", !.unrecorded = unrecorded]

(* Mutant of WhenDataLoaded: LoadState is not set to WaitingForData. *)
WhenDataLoadedForgets ==
    IF FileTaskIsDone THEN StartDeserialization ELSE GoOn /\ UNCHANGED work

(* The data is there, or the Loader waits for it. *)
WhenDataLoaded ==
    IF FileTaskIsDone
    THEN StartDeserialization
    ELSE GoOn /\ work' = [work EXCEPT !.stage = "waiting"]

(* Mutants of OnItsMap and MapExists: the tests are left out. *)
OnAnyMap == work.info # Nothing
MapExistsUnchecked(m) == m # NoMap

(* The game is on the map of the save; MakeSureMapNameIsValid. *)
OnItsMap == work.info.map = game.map
MapExists(m) == m \in Map

(* The rest of Loader::OnStart: is the game on the map of the save? *)
LoaderChecksMap ==
    /\ Calling("OnStart", "load")
    /\ work.stage = "reading"
    /\ preset[me].asyncLoad \/ FileTaskIsDone
    /\ \/ /\ OnItsMap
          /\ WhenDataLoaded
          /\ UNCHANGED travel
       \/ /\ ~OnItsMap /\ ~MapExists(work.info.map)
          /\ FinishTold(FALSE)
          /\ UNCHANGED <<work, travel>>
       \/ /\ ~OnItsMap /\ MapExists(work.info.map)
          /\ travel' = work.info.map
          /\ GoOn
          /\ work' = [work EXCEPT !.stage = "loadingMap"]
    /\ UNCHANGED <<disk, game, diverted, session, request, content>>

(* Loader::Tick and OnMapLoaded, by LoadState.  While a Loader waits for   *)
(* its map, only the call after a map was opened can find it.              *)
LoaderTicks ==
    /\ Calling("Tick", "load")
    /\ \/ /\ work.stage = "loadingMap" /\ OnItsMap
          /\ WhenDataLoaded
       \/ /\ work.stage = "waiting" /\ FileTaskIsDone
          /\ StartDeserialization
       \/ /\ \/ work.stage = "loadingMap" /\ ~OnItsMap
             \/ work.stage = "waiting" /\ ~FileTaskIsDone
             \/ work.stage = "stuck"
          /\ GoOn
          /\ UNCHANGED work
    /\ UNCHANGED <<disk, world, session, request, content>>

(* StartDeserialization after OnLoadBegan, when the load is not split:     *)
(* all levels are restored in this call.                                   *)
LoaderApplies ==
    /\ active.fn \in {"OnStart", "Tick"}
    /\ work.stage = "loadBegan" /\ ~preset[me].split
    /\ current' = mine.slot
    /\ FinishTold(TRUE)
    /\ game' = [game EXCEPT !.state = work.data.state]
    /\ content' = [content EXCEPT ![me] = work.data]
    /\ UNCHANGED <<disk, travel, diverted, nullInfo, phase, request, work>>

(* A split load in one frame: DeserializeASync in the call that began it,  *)
(* DeserializeASyncLoop in a later one.  Some of the actors are restored,  *)
(* the others are what the game has made of them: any state may come of it. *)
SplitFrame ==
    /\ active.fn \in {"OnStart", "Tick"}
    /\ preset[me].split
    /\ \/ work.stage = "loadBegan" /\ current' = mine.slot
       \/ work.stage = "deserializing" /\ UNCHANGED current
    /\ \E s \in State : game' = [game EXCEPT !.state = s]
    /\ UNCHANGED <<disk, travel, diverted, nullInfo, phase, request>>

(* The time of the frame is over before the actors are. *)
LoaderPauses ==
    /\ SplitFrame
    /\ GoOn
    /\ work' = [work EXCEPT !.stage = "deserializing"]
    /\ UNCHANGED content

(* The last frame of a split load: FinishedDeserializing, be all levels    *)
(* restored or some passed over; or a level turns up that has no record.   *)
(* FrameSplitLoad shows when.                                              *)
LoaderEnds ==
    /\ SplitFrame
    /\ \/ /\ FinishTold(TRUE)
          /\ content' = [content EXCEPT ![me] = work.data]
       \/ /\ work.unrecorded
          /\ FinishTold(FALSE)
          /\ UNCHANGED content
    /\ UNCHANGED work

-----------------------------------------------------------------------------
(* Calls that return: TaskQueue says all of it.                            *)

(* Manager::Tick calls Tick of the first task; no more after Deinitialize. *)
ManagerTicks ==
    /\ phase = "up"
    /\ Tick
    /\ UNCHANGED <<disk, world, session, story, work>>

(* FinishTask: the next task starts with members of its own. *)
TaskLeaves ==
    /\ FinishTask
    /\ work' = NoWork
    /\ UNCHANGED <<disk, world, session, story>>

CallReturns ==
    /\ FinishReturns \/ Answer
    /\ UNCHANGED <<disk, world, session, story, work>>

GamePicksPreset ==
    /\ GameMayCall
    /\ \E p \in Preset : SetActivePreset(p)
    /\ UNCHANGED <<disk, world, session, story, work>>

-----------------------------------------------------------------------------
(* The pool thread, or the game thread in a synchronous file task.         *)

Saving == work.stage = "saving"
slotOfHead == request[Head(tasks)].slot

(* Mutant of Written: the game is serialized on the pool thread. *)
WrittenLate == game

(* What goes to the file: the records Saver::OnStart has made. *)
Written == work.data

(* FSaveFileTask: FFileAdapter::SaveFile opens the file, which truncates   *)
(* it, before it serializes anything.  DoWork ignores its result.          *)
WriteOpens ==
    /\ Saving /\ work.io = "queued"
    /\ \/ /\ file' = [file EXCEPT ![slotOfHead] = Torn]
          /\ work' = [work EXCEPT !.io = "open"]
       \/ /\ WritesFail
          /\ work' = [work EXCEPT !.io = "done"]
          /\ UNCHANGED file
    /\ UNCHANGED <<vars, owner, world, session, story>>

WriteEnds ==
    /\ Saving /\ work.io = "open"
    /\ work' = [work EXCEPT !.io = "done"]
    /\ \/ file' = [file EXCEPT ![slotOfHead] = IF @ = Torn THEN Written ELSE @]
       \/ WritesFail /\ UNCHANGED file
    /\ UNCHANGED <<vars, owner, world, session, story>>

(* FLoadFileTask::DoWork: the whole file is read a second time. *)
DataIsRead ==
    /\ work.info # Nothing /\ work.io = "queued"
    /\ work' = [work EXCEPT !.io = "done",
                            !.data = IF file[slotOfHead] \in {Missing, Torn}
                                     THEN Nothing ELSE file[slotOfHead]]
    /\ UNCHANGED <<vars, disk, world, session, story>>

-----------------------------------------------------------------------------
(* The game and the engine.                                                *)

Play ==
    /\ phase = "up" /\ Idle
    /\ \E s \in State \ {game.state} : game' = [game EXCEPT !.state = s]
    /\ UNCHANGED <<vars, disk, travel, diverted, session, story, work>>

(* The game opens a map, possibly while a Loader is at work. *)
GameTravels(m) ==
    /\ GameMayCall
    /\ travel # m
    /\ travel' = m
    /\ diverted' = (diverted \/ work.info # Nothing)
    /\ UNCHANGED <<vars, disk, game, session, story, work>>

(* Mutant of DataSurvives: the objects a pool thread makes are not flagged. *)
DataSurvivesNever == work.stage # "loadingMap"

(* FLoadFileTask has weak pointers to the objects it reads: the garbage    *)
(* collector spares them only when they were made on a pool thread, whose  *)
(* objects stay flagged Async until the file task is destroyed.            *)
DataSurvives == work.stage # "loadingMap" \/ preset[Head(tasks)].asyncLoad

(* The engine opens the map it was last told to and collects garbage.      *)
(* OnMapLoadFinished tells a Loader that waits for its map; one that was   *)
(* restoring actors of the old map finds no level any more.                *)
MapLoads ==
    /\ phase = "up" /\ Idle
    /\ travel # NoMap
    /\ game' = [map |-> travel, state |-> Fresh]
    /\ travel' = NoMap
    /\ work' = [work EXCEPT
           !.data = IF DataSurvives THEN @ ELSE Nothing,
           !.stage = IF @ = "deserializing" THEN "stuck" ELSE @]
    /\ IF work.stage = "loadingMap" THEN Tick ELSE UNCHANGED vars
    /\ UNCHANGED <<disk, diverted, session, story>>

(* Levels stream in and out under a split load, and so levels without a    *)
(* record come and go.  When the one at work goes, Tick waits for it.      *)
LevelsStream ==
    /\ GameMayCall
    /\ work.stage \in {"loadBegan", "deserializing"}
    /\ preset[Head(tasks)].split
    /\ \/ /\ work' = [work EXCEPT !.unrecorded = ~@]
          /\ UNCHANGED diverted
       \/ /\ Idle
          /\ work' = [work EXCEPT !.stage = "stuck"]
          /\ diverted' = TRUE
    /\ UNCHANGED <<vars, disk, game, travel, session, story>>

(* The engine writes the screenshot a Saver waits for. *)
ScreenshotIsTaken ==
    /\ phase = "up"
    /\ Saving /\ ~work.picture
    /\ work' = [work EXCEPT !.picture = TRUE]
    /\ UNCHANGED <<vars, disk, world, session, story>>

(* FLoadSlotInfosTask::AfterFinish dereferences the null info of a torn    *)
(* file when MTTasks is ticked next.                                       *)
NullInfoRead ==
    /\ GameMayCall /\ nullInfo
    /\ phase' = "crashed"
    /\ UNCHANGED <<vars, disk, world, story, work, current, nullInfo>>

(* FindNextAsyncLevel calls itself without end: see FrameSplitLoad.        *)
StackOverflows ==
    /\ active.fn \in {"OnStart", "Tick"}
    /\ work.stage \in {"loadBegan", "deserializing"} /\ preset[me].split
    /\ phase' = "crashed"
    /\ UNCHANGED <<vars, disk, world, story, work, current, nullInfo>>

(* The process is killed. *)
Crash ==
    /\ Crashes /\ phase # "crashed"
    /\ phase' = "crashed"
    /\ UNCHANGED <<vars, disk, world, story, work, current, nullInfo>>

(* Deinitialize.  With bSaveOnExit the current slot is saved, as far as it *)
(* gets without ticks; BeginDestroy lets the file task run to its end.     *)
Exit ==
    /\ phase = "up" /\ Idle /\ ~nullInfo
    /\ phase' = "closing"
    /\ \/ UNCHANGED <<vars, disk, world, work, current, nullInfo, story>>
       \/ /\ current # NoSlot
          /\ \E t \in Task :
                Ask(t, [kind |-> "save", slot |-> current, override |-> TRUE, shot |-> FALSE])

TaskRuns ==
    \/ SaverBegins \/ SaverSerializes \/ SaverWrote \/ SaverTicks
    \/ LoaderBegins \/ LoaderChecksMap \/ LoaderTicks \/ LoaderApplies \/ LoaderPauses \/ LoaderEnds
    \/ TaskLeaves \/ CallReturns

FileTaskRuns == WriteOpens \/ WriteEnds \/ DataIsRead

GameRuns ==
    \/ \E t \in Task, r \in Asked : SaveSlot(t, r) \/ LoadSlot(t, r)
    \/ \E s \in Slot : DeleteSlot(s)
    \/ \E m \in Map : GameTravels(m)
    \/ GamePicksPreset
    \/ Play \/ LevelsStream

ProcessEnds == NullInfoRead \/ StackOverflows \/ Crash \/ Exit

SaveNext ==
    /\ phase # "crashed"
    /\ TaskRuns \/ FileTaskRuns \/ GameRuns \/ ProcessEnds
        \/ ManagerTicks \/ MapLoads \/ ScreenshotIsTaken

SaveSafety == SaveInit /\ [][SaveNext]_allvars

(* Calls return, pool threads and the engine make progress, and a load     *)
(* split over frames comes to its last one.                                *)
SaveFairness ==
    /\ WF_allvars(TaskRuns /\ phase # "crashed")
    /\ SF_allvars(LoaderEnds /\ phase # "crashed")
    /\ WF_allvars(FileTaskRuns /\ phase # "crashed")
    /\ SF_allvars(ManagerTicks)
    /\ SF_allvars(MapLoads)
    /\ WF_allvars(ScreenshotIsTaken)

SaveSpec == SaveSafety /\ SaveFairness

-----------------------------------------------------------------------------

(* A save told to have succeeded is on disk as it was taken, until the     *)
(* slot is saved again or deleted: the file task is done by then, whether  *)
(* it ran on a pool thread or not, and nobody else wrote to the file.      *)
(* What was taken on a client is a save without actors.                    *)
SuccessIsDurable ==
    \A t \in Task :
        told[t] = "success" /\ request[t].kind = "save" /\ owner[request[t].slot] = t
            => file[request[t].slot] = content[t]

(* A crash at any moment costs at most the slot being saved: every other   *)
(* slot that was ever saved, and not deleted, has a whole file.            *)
OnlyTheSaveAtWorkIsAtRisk ==
    \A s \in Slot :
        owner[s] # NoTask /\ file[s] \in {Missing, Torn}
            => tasks # <<>> /\ Head(tasks) = owner[s] /\ told[owner[s]] = "nothing"

(* A Saver that may not override checks for a file when it starts and      *)
(* opens it later, on another thread: no whole save is ever lost to it.    *)
OverrideIsAsked ==
    [][\A s \in Slot :
          file[s] \in Save /\ file'[s] # file[s]
              => owner'[s] = NoTask \/ request[owner'[s]].override]_allvars

Succeeds(t, kind) ==
    request[t] # Nothing /\ request[t].kind = kind /\ told[t] = "nothing" /\ told'[t] = "success"
Fails(t, kind) ==
    request[t] # Nothing /\ request[t].kind = kind /\ told[t] = "nothing" /\ told'[t] = "failure"

(* A load brings back the last save of its slot: a load asked for while a  *)
(* save of that slot is under way waits for it and reads the new file.     *)
LoadsSeeTheLastSave ==
    [][\A t \in Task :
          Succeeds(t, "load") /\ owner[request[t].slot] # NoTask
              => content'[t] = content[owner[request[t].slot]]]_allvars

(* When a load has succeeded the game is on the map of the save and, if it *)
(* was not split over frames, in the state that was saved, unless the game *)
(* opened a map while the Loader worked.  What a split load may leave out  *)
(* FrameSplitLoad says.                                                    *)
LoadBringsTheGameBack ==
    [][\A t \in Task :
          Succeeds(t, "load") /\ ~diverted =>
              /\ game'.map = content'[t].map
              /\ preset[t].split \/ game' = content'[t]]_allvars

(* A load fails only for want of a whole file on a map that still exists,  *)
(* or, split over frames, for a level the file has no record of; provided  *)
(* the file is read on a pool thread.  Data read in the call is held       *)
(* by a weak pointer alone, so that opening the map of the save collects   *)
(* it (multithreading.md:37 leaves the choice free).                       *)
GoodFile(s) == file[s] \in Save /\ file[s].map # LostMap
LoadsFailForCause ==
    [][\A t \in Task :
          Fails(t, "load") /\ preset[t].asyncLoad =>
              \/ ~GoodFile(request[t].slot)
              \/ preset[t].split /\ work.unrecorded]_allvars

(* The strengthening that makes the properties of the disk inductive: what *)
(* the first task has come to, what was told of each task, who last wrote  *)
(* to a file and what is in it.                                            *)
SaverAtWork == work.stage \in {"began", "saving"}

RequestInv ==
    \A t \in Task : request[t] = Nothing <=> answer[t] = "unasked"

StageInv ==
    /\ work.stage # "idle" => tasks # <<>>
    /\ work.stage # "idle" =>
          (SaverAtWork <=> request[Head(tasks)].kind = "save")
    /\ work.stage \in {"idle", "began"} => work.io = "none" /\ work.data = Nothing
    /\ work.info # Nothing <=> work.stage # "idle" /\ ~SaverAtWork
    /\ work.stage \in {"loadBegan", "deserializing"} =>
          work.io = "done" /\ work.data # Nothing

ToldInv ==
    /\ \A t \in Task : told[t] # "nothing" =>
          Contains(served, t) \/ (active.fn = "OnFinish" /\ active.task = t)
    /\ active.fn = "OnFinish" => told[active.task] # "nothing"

OwnerInv ==
    \A s \in Slot : owner[s] # NoTask =>
        LET t == owner[s]
        IN /\ request[t] # Nothing /\ request[t].kind = "save" /\ request[t].slot = s
           /\ \/ told[t] = "success" /\ (WritesFail \/ (file[s] = content[t] /\ file[s] \in Save))
              \/ told[t] = "nothing" /\ SaverAtWork /\ t = Head(tasks)

SavingInv ==
    SaverAtWork =>
        /\ owner[slotOfHead] \in {Head(tasks), NoTask}
        /\ work.io # "done" => told[Head(tasks)] = "nothing"
        /\ Saving => content[Head(tasks)] = work.data /\ work.data \in Save
        /\ owner[slotOfHead] = Head(tasks) =>
              /\ work.io \in {"none", "queued"} => file[slotOfHead] = Missing
              /\ work.io = "open" => file[slotOfHead] = Torn
              /\ work.io = "done" => WritesFail \/ file[slotOfHead] = work.data

ReadingInv ==
    work.info # Nothing /\ work.data # Nothing /\ owner[slotOfHead] # NoTask
        => WritesFail \/ work.data = content[owner[slotOfHead]]

DiskInv ==
    /\ IInv
    /\ SaveTypeOK
    /\ RequestInv
    /\ StageInv
    /\ ToldInv
    /\ OwnerInv
    /\ SavingInv
    /\ ReadingInv

(* The same for loads: the file is that of the info as long as it is whole,*)
(* the data is that of the info, and the Loader is on its map or on its    *)
(* way there.                                                              *)
LoadedInv ==
    work.info # Nothing =>
        /\ file[slotOfHead] \in Save => file[slotOfHead] = work.info
        /\ work.data # Nothing => work.data = work.info
        /\ work.io = "done" /\ work.data = Nothing /\ file[slotOfHead] \in Save
              => ~preset[Head(tasks)].asyncLoad

TravelInv ==
    work.info # Nothing /\ ~diverted =>
        /\ work.stage # "loadingMap" => travel = NoMap
        /\ work.stage = "loadingMap" =>
              IF OnItsMap THEN travel = NoMap ELSE travel = work.info.map
        /\ work.stage \in {"waiting", "loadBegan", "deserializing"} => OnItsMap

LoadInv == LoadedInv /\ TravelInv

(* Every delegate is executed, while the process lives and the game takes  *)
(* no level from under a Loader, which then waits for its map or its level *)
(* for ever.                                                               *)
EveryRequestIsTold ==
    \A t \in Task :
        request[t] # Nothing ~> told[t] # "nothing" \/ phase # "up" \/ diverted

=============================================================================
