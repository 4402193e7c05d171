-------------------------- MODULE SaveSystem_proofs --------------------------
(***************************************************************************)
(* Proofs about SaveSystem, for any slots, maps, states and requests.      *)
(* First: whatever the tasks do, the queue is used as TaskQueue says, so   *)
(* its theorems hold in the whole system.  Then the disk: what was told as *)
(* saved is there, and a crash costs one slot.  Last the loads: what they  *)
(* restore is what was saved, and they fail for a cause.                   *)
(***************************************************************************)
EXTENDS SaveSystem, TaskQueue_proofs

-----------------------------------------------------------------------------
(* Steps of the system as steps of the queue. *)

LEMMA TaskStepIsQueueStep == TaskRuns => [Next]_vars
<1> USE DEF Next, Stay, GoOn, FinishTold
<1>1. SaverBegins \/ SaverSerializes \/ SaverWrote \/ SaverTicks => [Next]_vars
  BY DEF SaverBegins, SaverSerializes, SaverWrote, SaverTicks
<1>2. LoaderBegins \/ LoaderApplies \/ LoaderPauses \/ LoaderEnds => [Next]_vars
  BY DEF LoaderBegins, LoaderApplies, LoaderPauses, LoaderEnds
<1>3. WhenDataLoaded \/ StartDeserialization => [Next]_vars
  BY DEF WhenDataLoaded, StartDeserialization
<1>4. LoaderChecksMap \/ LoaderTicks => [Next]_vars
  BY <1>3 DEF LoaderChecksMap, LoaderTicks
<1>5. TaskLeaves \/ CallReturns => [Next]_vars
  BY DEF TaskLeaves, CallReturns
<1>6. QED
  BY <1>1, <1>2, <1>4, <1>5 DEF TaskRuns

LEMMA GameStepIsQueueStep == GameRuns \/ ProcessEnds => [Next]_vars
<1> USE DEF Next
<1>1. ASSUME NEW t \in Task, NEW r, Ask(t, r) PROVE Next
  BY <1>1 DEF Ask
<1>2. GameRuns => [Next]_vars
  BY <1>1 DEF GameRuns, SaveSlot, LoadSlot, DeleteSlot, GameTravels, GamePicksPreset, Play,
     LevelsStream
<1>3. ProcessEnds => [Next]_vars
  BY <1>1 DEF ProcessEnds, NullInfoRead, StackOverflows, Crash, Exit
<1>4. QED
  BY <1>2, <1>3

LEMMA StepIsQueueStep == [SaveNext]_allvars => [Next]_vars
<1>1. FileTaskRuns => UNCHANGED vars
  BY DEF FileTaskRuns, WriteOpens, WriteEnds, DataIsRead
<1>2. ManagerTicks \/ MapLoads \/ ScreenshotIsTaken => [Next]_vars
  BY DEF ManagerTicks, MapLoads, ScreenshotIsTaken, Next
<1>3. UNCHANGED allvars => UNCHANGED vars
  BY DEF allvars
<1>4. QED
  BY <1>1, <1>2, <1>3, TaskStepIsQueueStep, GameStepIsQueueStep DEF SaveNext

(* Saver, Loader, engine and game use the queue as TaskQueue says: all its *)
(* theorems, and SerialRequests, hold with files, maps and crashes too.    *)
THEOREM QueueInTheSystem == SaveSafety => Safety
<1>1. SaveInit => Init
  BY DEF SaveInit
<1>2. QED
  BY <1>1, StepIsQueueStep, PTL DEF SaveSafety, Safety

THEOREM QueueInvariantHolds == SaveSafety => []IInv
BY QueueInTheSystem, InductiveInvariant, PTL

-----------------------------------------------------------------------------
(* Facts about a state in which DiskInv holds. *)

(* Every task of the queue has its request. *)
LEMMA FirstTask ==
    ASSUME DiskInv, tasks # <<>>
    PROVE  /\ Head(tasks) \in Task
           /\ Head(tasks) = tasks[1]
           /\ request[Head(tasks)] \in Request
           /\ request[Head(tasks)] # Nothing
           /\ Head(tasks) # NoTask
<1>1. tasks \in Seq(Task)
  BY DEF DiskInv, IInv, TypeOK
<1>2. Head(tasks) \in Task /\ Head(tasks) = tasks[1] /\ Contains(tasks, Head(tasks))
  BY <1>1 DEF Contains
<1>3. answer[Head(tasks)] # "unasked"
  BY <1>2 DEF DiskInv, IInv, QueueInv, Scheduled
<1>4. request[Head(tasks)] # Nothing
  BY <1>2, <1>3 DEF DiskInv, RequestInv
<1>5. QED
  BY <1>2, <1>4, NoTaskAssumption DEF DiskInv, SaveTypeOK

(* A function of a task executes: it is the first task's, and before       *)
(* OnFinish nothing has been told.                                         *)
LEMMA RunningTask ==
    ASSUME DiskInv, active.fn \in Function
    PROVE  /\ tasks # <<>>
           /\ me = Head(tasks)
           /\ me \in Task
           /\ mine \in Request
           /\ mine # Nothing
           /\ active.fn # "OnFinish" => told[me] = "nothing"
<1>1. active \in Call /\ active # NoCall
  BY CallValues DEF DiskInv, IInv, TypeOK
<1>2. tasks # <<>> /\ me = Head(tasks)
  BY <1>1 DEF DiskInv, IInv, CallbacksOfHead, me
<1>3. me \in Task /\ mine \in Request /\ mine # Nothing
  BY <1>2, FirstTask DEF mine
<1>4. ~Contains(served, me)
  <2>1. tasks \in Seq(Task) /\ served \in Seq(Task) /\ Contains(tasks, me)
    BY <1>2 DEF DiskInv, IInv, TypeOK, Contains
  <2>2. QED
    BY <2>1 DEF DiskInv, IInv, FinishedOnce, Scheduled, Contains
<1>5. active.fn # "OnFinish" => told[me] = "nothing"
  BY <1>3, <1>4 DEF DiskInv, ToldInv
<1>6. QED
  BY <1>2, <1>3, <1>5

-----------------------------------------------------------------------------
(* DiskInv holds at first, and no step of the system breaks it. *)

LEMMA InitDiskInv == SaveInit => DiskInv
<1> SUFFICES ASSUME SaveInit PROVE DiskInv
  OBVIOUS
<1>1. IInv
  BY InitIInv DEF SaveInit
<1>2. SaveTypeOK
  BY <1>1, SaveSystemAssumption, NoTaskAssumption
     DEF IInv, SaveInit, SaveTypeOK, Game, Save, Work, NoWork
<1>3. RequestInv /\ StageInv /\ ToldInv
  BY DEF SaveInit, Init, NoCall, RequestInv, StageInv, ToldInv, NoWork, SaverAtWork
<1>4. OwnerInv /\ SavingInv /\ ReadingInv
  BY DEF SaveInit, OwnerInv, SavingInv, ReadingInv, NoWork, SaverAtWork
<1>5. QED
  BY <1>1, <1>2, <1>3, <1>4 DEF DiskInv

(* Steps that change neither the queue nor the files nor what a task does. *)
LEMMA BystanderDiskInv ==
    ASSUME DiskInv, IInv', SaveTypeOK',
           UNCHANGED <<tasks, active, answer, served, request, told, content, file, owner>>,
           UNCHANGED <<work.stage, work.io, work.info, work.data>>
    PROVE  DiskInv'
<1>1. UNCHANGED <<work.stage, work.io, work.info, work.data, SaverAtWork, Saving, slotOfHead>>
  BY DEF DiskInv, SaveTypeOK, Work, SaverAtWork, Saving, slotOfHead
<1>2. RequestInv' /\ StageInv' /\ ToldInv'
  BY <1>1 DEF DiskInv, RequestInv, StageInv, ToldInv
<1>3. OwnerInv' /\ SavingInv' /\ ReadingInv'
  BY <1>1 DEF DiskInv, OwnerInv, SavingInv, ReadingInv
<1>4. QED
  BY <1>2, <1>3 DEF DiskInv

(* A request from the game. *)
LEMMA AskDiskInv ==
    ASSUME NEW t \in Task, NEW r \in Request, DiskInv, IInv', Ask(t, r),
           UNCHANGED <<nullInfo>>, phase' \in {"up", "closing", "crashed"}
    PROVE  DiskInv'
<1> USE DEF Ask, CreateTask, Begin
<1>1. /\ request[t] = Nothing
      /\ request' = [request EXCEPT ![t] = r] /\ r # Nothing
      /\ request \in [Task -> Request \cup {Nothing}]
  BY SaveSystemAssumption DEF DiskInv, RequestInv, SaveTypeOK
<1>2. SaveTypeOK'
  BY <1>1 DEF DiskInv, SaveTypeOK, IInv, disk, world
<1>3. /\ tasks # <<>> => Head(tasks') = Head(tasks) /\ Head(tasks) # t
      /\ tasks' # <<>>
  BY <1>1, FirstTask, AppendElements DEF DiskInv, IInv, TypeOK
<1>4. /\ work.stage # "idle" => Head(tasks') = Head(tasks)
            /\ request'[Head(tasks)] = request[Head(tasks)]
      /\ tasks' # <<>> /\ work' = work /\ (SaverAtWork' <=> SaverAtWork)
      /\ Saving' <=> Saving
  BY <1>1, <1>3, FirstTask DEF DiskInv, StageInv, SaverAtWork, Saving
<1>5. RequestInv'
  BY <1>1 DEF DiskInv, IInv, TypeOK, RequestInv
<1>6. StageInv'
  BY <1>4 DEF DiskInv, StageInv
<1>7. ToldInv'
  <2>1. active' = active \/ (active = NoCall /\ active'.fn = "OnStart")
    <3>1. MayStart(t, Append(tasks, t)) => tasks = <<>>
      BY <1>3, FirstTask, AppendElements DEF MayStart, DiskInv, IInv, TypeOK
    <3>2. QED
      BY <3>1 DEF DiskInv, IInv, CallbacksOfHead
  <2>2. QED
    BY <2>1 DEF DiskInv, ToldInv, NoCall
<1>8. OwnerInv'
  <2>1. ASSUME NEW s \in Slot, owner[s] # NoTask
        PROVE  owner[s] \in Task /\ owner[s] # t
    BY <1>1, <2>1 DEF DiskInv, OwnerInv, SaveTypeOK
  <2>2. QED
    BY <1>1, <1>4, <2>1 DEF DiskInv, OwnerInv, SaverAtWork, disk
<1>9. SavingInv' /\ ReadingInv'
  <2>1. work.stage # "idle" => slotOfHead' = slotOfHead
    BY <1>4 DEF slotOfHead
  <2>2. work.info # Nothing => work.stage # "idle"
    BY DEF DiskInv, StageInv
  <2>3. QED
    BY <1>4, <2>1, <2>2 DEF DiskInv, SavingInv, ReadingInv, SaverAtWork, disk
<1>10. QED
  BY <1>2, <1>5, <1>6, <1>7, <1>8, <1>9 DEF DiskInv

(* What a function of the first task may do to the queue: it goes on, it   *)
(* returns, or it calls Finish.                                            *)
LEMMA CallGoesOn ==
    ASSUME DiskInv, Stay \/ GoOn
    PROVE  UNCHANGED <<tasks, served, answer, told>> /\ ToldInv'
<1>1. UNCHANGED <<tasks, served, answer, told>>
  BY DEF Stay, GoOn, Return, vars
<1>2. active' = active \/ (active'.fn = "none" /\ active.fn # "OnFinish")
  BY DEF Stay, GoOn, Return, vars, NoCall
<1>3. QED
  BY <1>1, <1>2 DEF DiskInv, ToldInv

LEMMA CallFinishes ==
    ASSUME DiskInv, NEW ok \in BOOLEAN, FinishTold(ok)
    PROVE  /\ UNCHANGED <<tasks, served, answer>>
           /\ ToldInv'
           /\ told[me] = "nothing"
           /\ told' = [told EXCEPT ![me] = IF ok THEN "success" ELSE "failure"]
           /\ told' \in [Task -> {"nothing", "success", "failure"}]
           /\ \A t \in Task \ {me} : told'[t] = told[t]
<1> USE DEF FinishTold, Finish
<1>1. UNCHANGED <<tasks, served, answer>>
  OBVIOUS
<1>2. me \in Task /\ told[me] = "nothing"
  BY RunningTask DEF Function
<1>3. told \in [Task -> {"nothing", "success", "failure"}]
  BY DEF DiskInv, SaveTypeOK
<1>4. active \in Call
  BY CallValues DEF DiskInv, IInv, TypeOK, Function
<1>5. active'.fn = "OnFinish" /\ active'.task = me
  BY <1>4 DEF Call, me
<1>6. ToldInv'
  BY <1>2, <1>3, <1>5 DEF DiskInv, ToldInv, me
<1>7. QED
  BY <1>1, <1>2, <1>3, <1>6

(* Finish by a task that has done its work, or that has not begun it: a    *)
(* Saver is told to have succeeded only when its file is written.          *)
LEMMA FinishDiskInv ==
    ASSUME DiskInv, IInv', SaveTypeOK', NEW ok \in BOOLEAN, FinishTold(ok),
           UNCHANGED <<file, owner, work, request>>,
           \A t \in Task \ {me} : content'[t] = content[t],
           mine.kind = "save" =>
              UNCHANGED content /\ (work.stage = "idle" \/ (ok /\ work.io = "done"))
    PROVE  DiskInv'
<1>1. /\ tasks # <<>> /\ me = Head(tasks) /\ me \in Task /\ me # NoTask
      /\ mine = request[me] /\ slotOfHead = mine.slot
  BY RunningTask, NoTaskAssumption DEF FinishTold, Finish, Function, mine, slotOfHead
<1>2. /\ UNCHANGED <<tasks, served, answer>> /\ ToldInv' /\ told[me] = "nothing"
      /\ told' = [told EXCEPT ![me] = IF ok THEN "success" ELSE "failure"]
      /\ told \in [Task -> {"nothing", "success", "failure"}]
      /\ \A t \in Task \ {me} : told'[t] = told[t]
  BY CallFinishes DEF DiskInv, SaveTypeOK
<1>3. RequestInv' /\ StageInv'
  BY <1>2 DEF DiskInv, RequestInv, StageInv, SaverAtWork
<1>4. ASSUME NEW s \in Slot, owner[s] # NoTask
      PROVE  /\ owner[s] \in Task /\ request[owner[s]].kind = "save"
             /\ owner[s] # me =>
                   /\ told'[owner[s]] = "success" /\ content'[owner[s]] = content[owner[s]]
                   /\ WritesFail \/ (file[s] = content[owner[s]] /\ file[s] \in Save)
             /\ owner[s] = me =>
                   /\ told'[me] = "success" /\ content' = content
                   /\ WritesFail \/ (file[s] = content[me] /\ file[s] \in Save)
  <2>1. owner[s] \in Task /\ request[owner[s]].kind = "save" /\ request[owner[s]].slot = s
    BY <1>4 DEF DiskInv, OwnerInv, SaveTypeOK
  <2>2. ASSUME owner[s] # me
        PROVE  /\ told'[owner[s]] = "success" /\ content'[owner[s]] = content[owner[s]]
               /\ WritesFail \/ (file[s] = content[owner[s]] /\ file[s] \in Save)
    BY <1>1, <1>2, <1>4, <2>1, <2>2 DEF DiskInv, OwnerInv
  <2>3. ASSUME owner[s] = me
        PROVE  /\ told'[me] = "success" /\ content' = content
               /\ WritesFail \/ (file[s] = content[me] /\ file[s] \in Save)
    <3>1. SaverAtWork /\ mine.kind = "save" /\ slotOfHead = s
      BY <1>1, <1>2, <1>4, <2>1, <2>3 DEF DiskInv, OwnerInv
    <3>2. Saving /\ work.io = "done" /\ ok
      BY <3>1 DEF DiskInv, StageInv, SaverAtWork, Saving
    <3>3. content[me] = work.data /\ work.data \in Save /\ (WritesFail \/ file[s] = work.data)
      BY <1>1, <2>3, <3>1, <3>2 DEF DiskInv, SavingInv
    <3>4. QED
      BY <1>1, <1>2, <3>1, <3>2, <3>3
  <2>4. QED
    BY <2>1, <2>2, <2>3
<1>5. OwnerInv'
  BY <1>1, <1>2, <1>4 DEF DiskInv, OwnerInv
<1>6. SavingInv'
  BY <1>1, <1>2 DEF DiskInv, SavingInv, StageInv, SaverAtWork, Saving, slotOfHead
<1>7. ReadingInv'
  <2>1. work.info # Nothing => mine.kind # "save" /\ slotOfHead \in Slot
    BY <1>1, RunningTask DEF DiskInv, StageInv, FinishTold, Finish, Function, Request
  <2>2. slotOfHead' = slotOfHead
    BY <1>2 DEF slotOfHead
  <2>3. QED
    BY <1>1, <1>4, <2>1, <2>2 DEF DiskInv, ReadingInv
<1>8. QED
  BY <1>2, <1>3, <1>5, <1>6, <1>7 DEF DiskInv

LEMMA SaverBeginsDiskInv ==
    ASSUME DiskInv, IInv', SaverBegins
    PROVE  DiskInv'
<1> USE DEF SaverBegins, Calling
<1>1. /\ tasks # <<>> /\ me = Head(tasks) /\ me \in Task /\ me # NoTask
      /\ mine \in Request /\ mine # Nothing /\ told[me] = "nothing"
      /\ mine.slot \in Slot /\ mine.kind = "save" /\ mine = request[me]
  BY RunningTask, NoTaskAssumption DEF Function, Request, mine
<1>2. /\ work.stage = "idle" /\ work.io = "none" /\ work.info = Nothing
      /\ work \in Work /\ owner \in [Slot -> Task \cup {NoTask}]
      /\ file \in [Slot -> Save \cup {Missing, Torn}]
  BY DEF DiskInv, StageInv, SaveTypeOK, SaverAtWork
<1>3. ASSUME NEW s \in Slot, owner[s] # NoTask
      PROVE  owner[s] # me /\ owner[s] \in Task /\ told[owner[s]] = "success"
  BY <1>1, <1>2, <1>3 DEF DiskInv, OwnerInv, SaverAtWork
<1>4. CASE MayWrite(mine)
  <2>1. /\ file' = [file EXCEPT ![mine.slot] = Missing]
        /\ owner' = [owner EXCEPT ![mine.slot] = me]
        /\ work' = [work EXCEPT !.stage = "began"]
        /\ UNCHANGED <<tasks, served, answer, told, request, content>>
        /\ ToldInv'
    BY <1>4, CallGoesOn
  <2>2. /\ work'.stage = "began" /\ work'.io = "none" /\ work'.info = Nothing
        /\ work' \in Work /\ SaverAtWork' /\ ~Saving' /\ slotOfHead' = mine.slot
    BY <1>1, <1>2, <2>1 DEF Work, SaverAtWork, Saving, slotOfHead
  <2>3. SaveTypeOK'
    BY <1>1, <1>2, <2>1, <2>2 DEF DiskInv, SaveTypeOK, IInv, world, session
  <2>4. RequestInv' /\ StageInv'
    BY <1>1, <2>1, <2>2 DEF DiskInv, RequestInv, StageInv
  <2>5. OwnerInv'
    BY <1>1, <1>2, <1>3, <2>1, <2>2 DEF DiskInv, OwnerInv
  <2>6. SavingInv' /\ ReadingInv'
    BY <1>1, <1>2, <2>1, <2>2 DEF SavingInv, ReadingInv
  <2>7. QED
    BY <2>1, <2>3, <2>4, <2>5, <2>6 DEF DiskInv
<1>5. CASE ~MayWrite(mine)
  <2>1. FinishTold(FALSE) /\ UNCHANGED <<file, owner, work, request, content>>
    BY <1>5 DEF disk
  <2>2. SaveTypeOK'
    BY <2>1, CallFinishes DEF DiskInv, SaveTypeOK, IInv, world, session
  <2>3. QED
    BY <1>2, <2>1, <2>2, FinishDiskInv
<1>6. QED
  BY <1>4, <1>5

LEMMA SaverSerializesDiskInv ==
    ASSUME DiskInv, IInv', SaverSerializes
    PROVE  DiskInv'
<1> USE DEF SaverSerializes, Calling
<1>1. /\ tasks # <<>> /\ me = Head(tasks) /\ me \in Task /\ me # NoTask
      /\ mine \in Request /\ mine # Nothing /\ told[me] = "nothing"
      /\ mine.slot \in Slot /\ mine.kind = "save" /\ mine = request[me]
  BY RunningTask, NoTaskAssumption DEF Function, Request, mine
<1>2. /\ work.stage = "began" /\ work.io = "none" /\ work.info = Nothing
      /\ work \in Work /\ content \in [Task -> Save \cup {Nothing}]
      /\ game \in Game
  BY DEF DiskInv, StageInv, SaveTypeOK, SaverAtWork
<1>3. PICK save \in SerializeWorld, cached \in BOOLEAN :
        /\ work' = [work EXCEPT !.stage = "saving", !.io = "queued", !.data = save,
                                !.picture = ~mine.shot \/ cached]
        /\ content' = [content EXCEPT ![me] = save]
  OBVIOUS
<1>4. UNCHANGED <<tasks, served, answer, told, request, file, owner>> /\ ToldInv'
  BY CallGoesOn DEF disk, Return, GoOn, Stay
<1>5. save \in Save
  BY <1>2, SaveSystemAssumption DEF SerializeWorld, Game, Save
<1>6. mine.shot \in BOOLEAN
  BY <1>1 DEF Request
<1>7. /\ work' \in Work /\ work'.stage = "saving" /\ work'.io = "queued"
      /\ work'.data = save /\ work'.info = Nothing
      /\ SaverAtWork' /\ Saving' /\ slotOfHead' = slotOfHead /\ slotOfHead = mine.slot
      /\ SaverAtWork
  BY <1>1, <1>2, <1>3, <1>4, <1>5, <1>6
     DEF Work, SaverAtWork, Saving, slotOfHead
<1>8. SaveTypeOK'
  BY <1>1, <1>2, <1>3, <1>4, <1>5, <1>7 DEF DiskInv, SaveTypeOK, IInv, world
<1>9. RequestInv' /\ StageInv'
  BY <1>1, <1>4, <1>7 DEF DiskInv, RequestInv, StageInv
<1>10. OwnerInv'
  BY <1>1, <1>2, <1>3, <1>4, <1>7 DEF DiskInv, OwnerInv, SaveTypeOK
<1>11. SavingInv' /\ ReadingInv'
  BY <1>1, <1>2, <1>3, <1>4, <1>5, <1>7 DEF DiskInv, SavingInv, ReadingInv
<1>12. QED
  BY <1>4, <1>8, <1>9, <1>10, <1>11 DEF DiskInv

LEMMA SaverFinishesDiskInv ==
    ASSUME DiskInv, IInv', SaverWrote \/ SaverTicks
    PROVE  DiskInv'
<1> USE DEF SaverWrote, SaverTicks, Calling, FileTaskIsDone
<1>1. UNCHANGED <<file, owner, work, request, content>>
  BY DEF disk
<1>2. CASE FinishTold(TRUE)
  <2>1. SaveTypeOK'
    BY <1>1, <1>2, CallFinishes DEF DiskInv, SaveTypeOK, IInv, world, session
  <2>2. work.io = "done"
    BY <1>2, RunningTask DEF FinishTold, Finish, GoOn, Return, NoCall, Function,
       DiskInv, IInv, TypeOK, Call
  <2>3. QED
    BY <1>1, <1>2, <2>1, <2>2, FinishDiskInv
<1>3. CASE GoOn
  <2>1. UNCHANGED <<tasks, served, answer, told>> /\ ToldInv'
    BY <1>3, CallGoesOn
  <2>2. SaveTypeOK'
    BY <1>1, <2>1 DEF DiskInv, SaveTypeOK, IInv, world, session
  <2>3. QED
    BY <1>1, <2>1, <2>2 DEF DiskInv, RequestInv, StageInv, OwnerInv, SavingInv, ReadingInv,
       SaverAtWork, Saving, slotOfHead
<1>4. QED
  BY <1>2, <1>3

(* A Loader that goes on to another LoadState keeps its data.              *)
LEMMA StageOfWork ==
    ASSUME DiskInv, NEW stage \in {"loadingMap", "waiting", "loadBegan", "deserializing", "stuck"},
           NEW unrecorded \in BOOLEAN,
           \/ work' = [work EXCEPT !.stage = stage]
           \/ work' = [work EXCEPT !.stage = stage, !.unrecorded = unrecorded]
    PROVE  work' \in Work /\ work'.stage = stage /\ UNCHANGED <<work.io, work.info, work.data>>
BY DEF DiskInv, SaveTypeOK, Work

(* A Loader goes on to another LoadState without finishing. *)
LEMMA LoaderMovesDiskInv ==
    ASSUME DiskInv, IInv', SaveTypeOK', Stay \/ GoOn,
           active.fn \in Function, mine.kind = "load", work.stage # "idle",
           NEW stage \in {"loadingMap", "waiting", "loadBegan", "deserializing"},
           work'.stage = stage, UNCHANGED <<work.io, work.info, work.data>>,
           stage \in {"loadBegan", "deserializing"} => work.io = "done" /\ work.data # Nothing,
           UNCHANGED <<file, owner, request, content>>
    PROVE  DiskInv'
<1>1. tasks # <<>> /\ me = Head(tasks) /\ mine = request[me]
  BY RunningTask DEF mine
<1>2. UNCHANGED <<tasks, served, answer, told>> /\ ToldInv'
  BY CallGoesOn
<1>3. ~SaverAtWork /\ ~SaverAtWork' /\ work.info # Nothing
  <2>1. ~SaverAtWork /\ work.info # Nothing
    BY <1>1 DEF DiskInv, StageInv
  <2>2. QED
    BY <2>1 DEF SaverAtWork
<1>4. RequestInv' /\ StageInv'
  BY <1>1, <1>2, <1>3 DEF DiskInv, RequestInv, StageInv
<1>5. OwnerInv' /\ SavingInv'
  BY <1>2, <1>3 DEF DiskInv, OwnerInv, SavingInv
<1>6. ReadingInv'
  BY <1>2 DEF DiskInv, ReadingInv, slotOfHead
<1>7. QED
  BY <1>2, <1>4, <1>5, <1>6 DEF DiskInv

LEMMA LoaderBeginsDiskInv ==
    ASSUME DiskInv, IInv', LoaderBegins
    PROVE  DiskInv'
<1> USE DEF LoaderBegins, Calling
<1>1. /\ tasks # <<>> /\ me = Head(tasks) /\ me \in Task /\ mine = request[me]
      /\ mine \in Request /\ mine.slot \in Slot
  BY RunningTask DEF Function, Request, mine
<1>2. /\ work.stage = "idle" /\ work.io = "none" /\ work.data = Nothing /\ ~SaverAtWork
      /\ work \in Work /\ file[mine.slot] \in Save \cup {Missing, Torn}
  BY <1>1 DEF DiskInv, StageInv, SaveTypeOK, SaverAtWork
<1>3. PICK info \in InfosIn(file[mine.slot]) :
        IF info = Nothing
        THEN /\ FinishTold(FALSE)
             /\ nullInfo' = (nullInfo \/ file[mine.slot] = Torn)
             /\ UNCHANGED work
        ELSE /\ Stay
             /\ work' = [work EXCEPT !.stage = "reading", !.io = "queued", !.info = info]
             /\ UNCHANGED nullInfo
  OBVIOUS
<1>4. info \in Save \cup {Nothing}
  BY <1>2 DEF InfosIn
<1>5. /\ UNCHANGED <<file, owner, request, content, current, game, travel, phase>>
      /\ diverted' \in BOOLEAN /\ nullInfo' \in BOOLEAN
  <2>1. diverted' \in BOOLEAN
    BY Zenon
  <2>2. nullInfo' \in BOOLEAN
    BY <1>3, Zenon DEF DiskInv, SaveTypeOK
  <2>3. QED
    BY <2>1, <2>2 DEF disk
<1>6. CASE info = Nothing
  <2>1. FinishTold(FALSE) /\ UNCHANGED work
    BY <1>3, <1>6
  <2>2. SaveTypeOK'
    BY <1>5, <2>1, CallFinishes DEF DiskInv, SaveTypeOK, IInv
  <2>3. QED
    BY <1>2, <1>5, <2>1, <2>2, FinishDiskInv
<1>7. CASE info # Nothing
  <2>1. Stay /\ work' = [work EXCEPT !.stage = "reading", !.io = "queued", !.info = info]
    BY <1>3, <1>7
  <2>2. UNCHANGED <<tasks, served, answer, told>> /\ ToldInv'
    BY <2>1, CallGoesOn
  <2>3. /\ work'.stage = "reading" /\ work'.io = "queued" /\ work'.info = info
        /\ work'.data = Nothing /\ work' \in Work /\ ~SaverAtWork'
    BY <1>2, <1>4, <2>1 DEF Work, SaverAtWork
  <2>4. SaveTypeOK'
    BY <1>5, <2>2, <2>3 DEF DiskInv, SaveTypeOK, IInv
  <2>5. RequestInv' /\ StageInv'
    BY <1>1, <1>5, <1>7, <2>2, <2>3 DEF DiskInv, RequestInv, StageInv
  <2>6. OwnerInv' /\ SavingInv' /\ ReadingInv'
    BY <1>2, <1>5, <2>2, <2>3 DEF DiskInv, OwnerInv, SavingInv, ReadingInv
  <2>7. QED
    BY <2>2, <2>4, <2>5, <2>6 DEF DiskInv
<1>8. QED
  BY <1>6, <1>7

(* OnMapLoaded and the tests that come to it: the data is there, or not. *)
LEMMA DeserializationDiskInv ==
    ASSUME DiskInv, IInv', active.fn \in Function, mine.kind = "load", work.stage # "idle",
           WhenDataLoaded \/ (FileTaskIsDone /\ StartDeserialization),
           UNCHANGED <<disk, game, diverted, session, request, content>>,
           travel' = travel
    PROVE  DiskInv'
<1> USE DEF disk, session
<1>1. \/ FileTaskIsDone /\ StartDeserialization
      \/ GoOn /\ work' = [work EXCEPT !.stage = "waiting"]
  BY DEF WhenDataLoaded
<1>2. CASE GoOn /\ work' = [work EXCEPT !.stage = "waiting"]
  <2>1. work' \in Work /\ work'.stage = "waiting" /\ UNCHANGED <<work.io, work.info, work.data>>
    BY <1>2, StageOfWork
  <2>2. SaveTypeOK'
    BY <1>2, <2>1, CallGoesOn DEF DiskInv, SaveTypeOK, IInv
  <2>3. QED
    BY <1>2, <2>1, <2>2, LoaderMovesDiskInv
<1>3. CASE FileTaskIsDone /\ work.data = Nothing /\ StartDeserialization
  <2>1. FinishTold(FALSE) /\ UNCHANGED work
    BY <1>3 DEF StartDeserialization
  <2>2. SaveTypeOK'
    BY <2>1, CallFinishes DEF DiskInv, SaveTypeOK, IInv
  <2>3. QED
    BY <2>1, <2>2, FinishDiskInv
<1>4. CASE FileTaskIsDone /\ work.data # Nothing /\ StartDeserialization
  <2>1. Stay
    BY <1>4 DEF StartDeserialization
  <2>2. work' \in Work /\ work'.stage = "loadBegan" /\ UNCHANGED <<work.io, work.info, work.data>>
    BY <1>4, StageOfWork DEF StartDeserialization
  <2>3. SaveTypeOK'
    BY <2>1, <2>2, CallGoesOn DEF DiskInv, SaveTypeOK, IInv
  <2>4. QED
    BY <1>4, <2>1, <2>2, <2>3, LoaderMovesDiskInv DEF FileTaskIsDone
<1>5. QED
  BY <1>1, <1>2, <1>3, <1>4

LEMMA LoaderChecksMapDiskInv ==
    ASSUME DiskInv, IInv', LoaderChecksMap
    PROVE  DiskInv'
<1> USE DEF LoaderChecksMap, Calling, disk, session
<1>1. active.fn \in Function /\ mine.kind = "load" /\ work.stage # "idle"
  BY DEF Function
<1>2. CASE OnItsMap /\ WhenDataLoaded /\ UNCHANGED travel
  BY <1>1, <1>2, DeserializationDiskInv
<1>3. CASE FinishTold(FALSE) /\ UNCHANGED <<work, travel>>
  <2>1. SaveTypeOK'
    BY <1>3, CallFinishes DEF DiskInv, SaveTypeOK, IInv
  <2>2. QED
    BY <1>1, <1>3, <2>1, FinishDiskInv
<1>4. CASE /\ MapExists(work.info.map)
           /\ travel' = work.info.map
           /\ GoOn
           /\ work' = [work EXCEPT !.stage = "loadingMap"]
  <2>1. work' \in Work /\ work'.stage = "loadingMap"
        /\ UNCHANGED <<work.io, work.info, work.data>>
    BY <1>4, StageOfWork
  <2>2. SaveTypeOK'
    BY <1>4, <2>1, CallGoesOn DEF DiskInv, SaveTypeOK, IInv, MapExists
  <2>3. QED
    BY <1>1, <1>4, <2>1, <2>2, LoaderMovesDiskInv
<1>5. QED
  BY <1>2, <1>3, <1>4

LEMMA LoaderTicksDiskInv ==
    ASSUME DiskInv, IInv', LoaderTicks
    PROVE  DiskInv'
<1> USE DEF LoaderTicks, Calling
<1>1. active.fn \in Function /\ mine.kind = "load"
  BY DEF Function
<1>2. CASE work.stage # "idle" /\ (WhenDataLoaded \/ (FileTaskIsDone /\ StartDeserialization))
  BY <1>1, <1>2, DeserializationDiskInv DEF world
<1>3. CASE GoOn /\ UNCHANGED work
  <2>1. UNCHANGED <<tasks, served, answer, told>> /\ ToldInv'
    BY <1>3, CallGoesOn
  <2>2. SaveTypeOK'
    BY <1>3, <2>1 DEF DiskInv, SaveTypeOK, IInv, disk, world, session
  <2>3. QED
    BY <1>3, <2>1, <2>2 DEF DiskInv, RequestInv, StageInv, OwnerInv, SavingInv, ReadingInv,
       SaverAtWork, Saving, slotOfHead, disk
<1>4. QED
  BY <1>2, <1>3

(* The task whose data is restored is a Loader that has all of it. *)
LEMMA RestoringTask ==
    ASSUME DiskInv, active.fn \in Function, work.stage \in {"loadBegan", "deserializing"}
    PROVE  /\ tasks # <<>> /\ me = Head(tasks) /\ me \in Task
           /\ mine \in Request /\ mine.slot \in Slot /\ mine.kind = "load"
           /\ work.io = "done" /\ work.data \in Save
<1>1. tasks # <<>> /\ me = Head(tasks) /\ me \in Task /\ mine \in Request /\ mine = request[me]
  BY RunningTask DEF mine
<1>2. mine.kind # "save" /\ work.io = "done" /\ work.data # Nothing
  BY <1>1 DEF DiskInv, StageInv, SaverAtWork
<1>3. QED
  BY <1>1, <1>2 DEF Request, DiskInv, SaveTypeOK, Work

(* What the calls that restore actors have in common.                      *)
LEMMA RestoringSteps ==
    ASSUME DiskInv, LoaderApplies \/ LoaderPauses \/ LoaderEnds
    PROVE  /\ active.fn \in Function /\ work.stage \in {"loadBegan", "deserializing"}
           /\ UNCHANGED <<file, owner, request, travel, diverted, nullInfo, phase>>
           /\ current' \in Slot \cup {NoSlot}
           /\ game' \in Game /\ game'.map = game.map
<1> USE DEF LoaderApplies, LoaderPauses, LoaderEnds, SplitFrame
<1>1. active.fn \in Function /\ work.stage \in {"loadBegan", "deserializing"}
  BY DEF Function
<1>2. mine.slot \in Slot /\ work.data \in Save
  BY <1>1, RestoringTask
<1>3. UNCHANGED <<file, owner, request, travel, diverted, nullInfo, phase>>
  BY DEF disk
<1>4. current' \in Slot \cup {NoSlot}
  BY <1>2 DEF DiskInv, SaveTypeOK
<1>5. \E s \in State : game' = [game EXCEPT !.state = s]
  BY <1>2 DEF Save
<1>6. QED
  BY <1>1, <1>3, <1>4, <1>5 DEF DiskInv, SaveTypeOK, Game

LEMMA LoaderRestoresDiskInv ==
    ASSUME DiskInv, IInv', LoaderApplies \/ LoaderPauses \/ LoaderEnds
    PROVE  DiskInv'
<1>1. active.fn \in Function /\ work.stage \in {"loadBegan", "deserializing"}
  BY RestoringSteps
<1>2. /\ me \in Task /\ mine.kind = "load" /\ work.io = "done"
      /\ work.data \in Save /\ work.data # Nothing
  BY <1>1, RestoringTask, SaveSystemAssumption
<1>3. /\ UNCHANGED <<file, owner, request, travel, diverted, nullInfo, phase>>
      /\ current' \in Slot \cup {NoSlot} /\ game' \in Game
  BY RestoringSteps
<1>4. CASE LoaderPauses
  <2>1. GoOn /\ UNCHANGED content
    BY <1>4 DEF LoaderPauses
  <2>2. work' \in Work /\ work'.stage = "deserializing"
        /\ UNCHANGED <<work.io, work.info, work.data>>
    BY <1>4, StageOfWork DEF LoaderPauses
  <2>3. SaveTypeOK'
    BY <1>3, <2>1, <2>2, CallGoesOn DEF DiskInv, SaveTypeOK, IInv
  <2>4. QED
    BY <1>1, <1>2, <1>3, <2>1, <2>2, <2>3, LoaderMovesDiskInv
<1>5. CASE LoaderApplies \/ LoaderEnds
  <2>1. UNCHANGED work /\ (content' = content \/ content' = [content EXCEPT ![me] = work.data])
    BY <1>5 DEF LoaderApplies, LoaderEnds
  <2>2. content' \in [Task -> Save \cup {Nothing}]
        /\ \A t \in Task \ {me} : content'[t] = content[t]
    BY <1>2, <2>1 DEF DiskInv, SaveTypeOK
  <2>3. PICK ok \in BOOLEAN : FinishTold(ok)
    BY <1>5 DEF LoaderApplies, LoaderEnds
  <2>4. SaveTypeOK'
    BY <1>3, <2>1, <2>2, <2>3, CallFinishes DEF DiskInv, SaveTypeOK, IInv
  <2>5. QED
    BY <1>2, <1>3, <2>1, <2>2, <2>3, <2>4, FinishDiskInv
<1>6. QED
  BY <1>4, <1>5

(* The first task leaves: what was told of it stands, and is on disk.      *)
LEMMA TaskLeavesDiskInv ==
    ASSUME DiskInv, IInv', TaskLeaves
    PROVE  DiskInv'
<1>1. /\ tasks # <<>> /\ tasks[1] = active.task /\ Head(tasks) = tasks[1]
      /\ active.fn = "OnFinish" /\ active'.fn # "OnFinish"
      /\ served' = Append(served, active.task) /\ answer' = answer
      /\ served \in Seq(Task) /\ active.task \in Task
  <2>1. FinishTask /\ IInv
    BY DEF TaskLeaves, DiskInv
  <2>2. active'.fn # "OnFinish"
    BY <2>1, FinishTaskFacts DEF Begin, NoCall
  <2>3. /\ active.fn = "OnFinish" /\ served' = Append(served, active.task) /\ answer' = answer
        /\ served \in Seq(Task)
    BY <2>1 DEF FinishTask, LeaveBehind, IInv, TypeOK
  <2>4. QED
    BY <2>1, <2>2, <2>3, FinishTaskFacts, FirstTask
<1>2. UNCHANGED <<file, owner, game, travel, diverted, current, nullInfo, phase, request,
                  told, content>> /\ work' = NoWork
  BY DEF TaskLeaves, disk, world, session, story
<1>3. ~SaverAtWork' /\ work'.info = Nothing /\ work' \in Work
  BY <1>2 DEF NoWork, SaverAtWork, Work
<1>4. SaveTypeOK'
  BY <1>2, <1>3 DEF DiskInv, SaveTypeOK, IInv
<1>5. RequestInv' /\ StageInv'
  BY <1>1, <1>2, <1>3 DEF DiskInv, RequestInv, StageInv, NoWork
<1>6. ToldInv'
  <2>1. ASSUME NEW t \in Task, Contains(served, t) \/ t = active.task
        PROVE  Contains(served', t)
    BY <1>1, <2>1, AppendElements DEF Contains
  <2>2. QED
    BY <1>1, <1>2, <2>1 DEF DiskInv, ToldInv
<1>7. OwnerInv'
  <2>1. told[Head(tasks)] # "nothing"
    BY <1>1 DEF DiskInv, ToldInv
  <2>2. QED
    BY <1>2, <2>1 DEF DiskInv, OwnerInv
<1>8. SavingInv' /\ ReadingInv'
  BY <1>3 DEF SavingInv, ReadingInv
<1>9. QED
  BY <1>4, <1>5, <1>6, <1>7, <1>8 DEF DiskInv

(* Calls that begin or return change nothing but the stack and the flags.  *)
LEMMA CallDiskInv ==
    ASSUME DiskInv, IInv', FinishReturns \/ Answer \/ Tick \/ (\E p \in Preset : SetActivePreset(p)),
           UNCHANGED <<file, owner, request, told, content, work>>, SaveTypeOK'
    PROVE  DiskInv'
<1> USE DEF FinishReturns, Answer, Tick, SetActivePreset, flags, stack
<1>1. UNCHANGED <<tasks, served>>
  OBVIOUS
<1>2. active' = active \/ (active = NoCall /\ active'.fn = "Tick")
  BY DEF Idle
<1>3. RequestInv'
  <2>1. answer' = answer \/ Answer
    OBVIOUS
  <2>2. CASE Answer
    BY <2>2 DEF DiskInv, RequestInv, IInv, TypeOK, AnswerInv
  <2>3. QED
    BY <2>1, <2>2 DEF DiskInv, RequestInv
<1>4. ToldInv'
  BY <1>1, <1>2 DEF DiskInv, ToldInv, NoCall
<1>5. StageInv' /\ OwnerInv' /\ SavingInv' /\ ReadingInv'
  BY <1>1 DEF DiskInv, StageInv, OwnerInv, SavingInv, ReadingInv, SaverAtWork, Saving,
     slotOfHead
<1>6. QED
  BY <1>3, <1>4, <1>5 DEF DiskInv

(* A map opens: of the first task only its data and its stage may change,  *)
(* and never of a Saver.                                                   *)
LEMMA MapLoadsDiskInv ==
    ASSUME DiskInv, IInv', MapLoads
    PROVE  DiskInv'
<1> USE DEF MapLoads
<1>1. /\ UNCHANGED <<file, owner, request, told, content, tasks, served, answer>>
      /\ active' = active \/ (active = NoCall /\ active'.fn = "Tick")
  BY DEF disk, story, vars, Tick, Idle
<1>2. /\ work'.stage = (IF work.stage = "deserializing" THEN "stuck" ELSE work.stage)
      /\ work'.io = work.io /\ work'.info = work.info
      /\ work'.data = (IF DataSurvives THEN work.data ELSE Nothing)
      /\ work' \in Work
  BY DEF DiskInv, SaveTypeOK, Work
<1>3. (SaverAtWork' <=> SaverAtWork) /\ (Saving' <=> Saving) /\ slotOfHead' = slotOfHead
  BY <1>1, <1>2 DEF SaverAtWork, Saving, slotOfHead
<1>4. work.stage # "loadingMap" => work'.data = work.data
  BY <1>2 DEF DataSurvives
<1>5. SaveTypeOK'
  BY <1>1, <1>2, SaveSystemAssumption
     DEF DiskInv, SaveTypeOK, IInv, Game, disk, session, story
<1>6. RequestInv' /\ ToldInv'
  BY <1>1 DEF DiskInv, RequestInv, ToldInv, NoCall
<1>7. StageInv'
  BY <1>1, <1>2, <1>3, <1>4 DEF DiskInv, StageInv
<1>8. OwnerInv' /\ SavingInv' /\ ReadingInv'
  BY <1>1, <1>2, <1>3, <1>4 DEF DiskInv, OwnerInv, SavingInv, ReadingInv, SaverAtWork
<1>9. QED
  BY <1>5, <1>6, <1>7, <1>8 DEF DiskInv

(* The pool thread writes, step by step, to the file of the Saver at work. *)
LEMMA WriteDiskInv ==
    ASSUME DiskInv, IInv', WriteOpens \/ WriteEnds
    PROVE  DiskInv'
<1> USE DEF WriteOpens, WriteEnds, Written
<1>1. /\ UNCHANGED <<tasks, active, served, answer, request, told, content, owner>>
      /\ UNCHANGED <<game, travel, diverted, current, nullInfo, phase>>
  BY DEF vars, world, session, story
<1>2. /\ Saving /\ SaverAtWork /\ tasks # <<>> /\ Head(tasks) \in Task
      /\ Head(tasks) # NoTask /\ slotOfHead \in Slot
      /\ work.io \in {"queued", "open"} /\ work.info = Nothing
  BY FirstTask DEF Saving, SaverAtWork, DiskInv, StageInv, slotOfHead, Request
<1>3. /\ content[Head(tasks)] = work.data /\ work.data \in Save
      /\ owner[slotOfHead] \in {Head(tasks), NoTask}
  BY <1>2 DEF DiskInv, SavingInv
<1>4. /\ work'.io \in {"open", "done"} /\ work'.stage = work.stage /\ work'.info = work.info
      /\ work'.data = work.data /\ work' \in Work
      /\ WriteOpens /\ ~WritesFail => work'.io = "open"
      /\ WriteEnds => work'.io = "done"
  BY DEF DiskInv, SaveTypeOK, Work
<1>5. Saving' /\ SaverAtWork' /\ slotOfHead' = slotOfHead
  BY <1>1, <1>2, <1>4 DEF Saving, SaverAtWork, slotOfHead
<1>6. /\ file' \in [Slot -> Save \cup {Missing, Torn}]
      /\ \A s \in Slot \ {slotOfHead} : file'[s] = file[s]
  BY <1>2, <1>3 DEF DiskInv, SaveTypeOK
<1>7. SaveTypeOK'
  BY <1>1, <1>4, <1>6 DEF DiskInv, SaveTypeOK, IInv
<1>8. RequestInv' /\ ToldInv' /\ StageInv' /\ ReadingInv'
  BY <1>1, <1>2, <1>4, <1>5 DEF DiskInv, RequestInv, ToldInv, StageInv, ReadingInv, Saving
<1>9. OwnerInv'
  <2>1. ASSUME NEW s \in Slot, owner[s] # NoTask, s = slotOfHead
        PROVE  /\ owner[s] = Head(tasks) /\ told[owner[s]] = "nothing"
               /\ request[owner[s]] # Nothing /\ request[owner[s]].kind = "save"
               /\ request[owner[s]].slot = s
    <3>1. owner[s] = Head(tasks)
      BY <1>3, <2>1
    <3>2. told[Head(tasks)] = "nothing"
      BY <1>2 DEF DiskInv, SavingInv
    <3>3. QED
      BY <2>1, <3>1, <3>2 DEF DiskInv, OwnerInv
  <2>2. ASSUME NEW s \in Slot, owner[s] # NoTask, s # slotOfHead
        PROVE  /\ request[owner[s]] # Nothing /\ request[owner[s]].kind = "save"
               /\ request[owner[s]].slot = s
               /\ told[owner[s]] = "success"
               /\ WritesFail \/ (file'[s] = content[owner[s]] /\ file'[s] \in Save)
    BY <1>6, <2>2 DEF DiskInv, OwnerInv, slotOfHead
  <2>3. QED
    <3> SUFFICES ASSUME NEW s \in Slot, owner'[s] # NoTask
                 PROVE  LET t == owner'[s]
                        IN /\ request'[t] # Nothing /\ request'[t].kind = "save"
                           /\ request'[t].slot = s
                           /\ \/ /\ told'[t] = "success"
                                 /\ WritesFail \/ (file'[s] = content'[t] /\ file'[s] \in Save)
                              \/ told'[t] = "nothing" /\ SaverAtWork' /\ t = Head(tasks')
      BY DEF OwnerInv
    <3>1. CASE s = slotOfHead
      BY <1>1, <1>5, <2>1, <3>1
    <3>2. CASE s # slotOfHead
      BY <1>1, <2>2, <3>2
    <3>3. QED
      BY <3>1, <3>2
<1>10. SavingInv'
  <2>1. ASSUME owner[slotOfHead] = Head(tasks)
        PROVE  /\ work'.io = "open" => file'[slotOfHead] = Torn
               /\ work'.io = "done" => WritesFail \/ file'[slotOfHead] = work.data
    <3>1. file \in [Slot -> Save \cup {Missing, Torn}]
      BY DEF DiskInv, SaveTypeOK
    <3>2. CASE WriteOpens
      <4>1. CASE /\ file' = [file EXCEPT ![slotOfHead] = Torn]
                 /\ work' = [work EXCEPT !.io = "open"]
        <5>1. work'.io = "open"
          BY <4>1 DEF DiskInv, SaveTypeOK, Work
        <5>2. QED
          BY <1>2, <3>1, <4>1, <5>1
      <4>2. CASE WritesFail /\ work' = [work EXCEPT !.io = "done"]
        <5>1. work'.io = "done"
          BY <4>2 DEF DiskInv, SaveTypeOK, Work
        <5>2. QED
          BY <4>2, <5>1
      <4>3. QED
        BY <3>2, <4>1, <4>2
    <3>3. CASE WriteEnds
      <4>1. file[slotOfHead] = Torn
        BY <1>2, <2>1, <3>3 DEF DiskInv, SavingInv
      <4>2. QED
        BY <1>2, <1>4, <3>1, <3>3, <4>1
    <3>4. QED
      BY <3>2, <3>3
  <2>2. told[Head(tasks)] = "nothing"
    BY <1>2 DEF DiskInv, SavingInv
  <2>3. slotOfHead' = slotOfHead /\ Head(tasks)' = Head(tasks) /\ owner' = owner
        /\ told' = told /\ content' = content
    BY <1>1, <1>5
  <2> HIDE DEF WriteOpens, WriteEnds, Written
  <2>4. QED
    BY <1>2, <1>3, <1>4, <2>1, <2>2, <2>3 DEF SavingInv
<1>11. QED
  BY <1>7, <1>8, <1>9, <1>10 DEF DiskInv

(* The pool thread reads the file of the Loader at work. *)
LEMMA DataIsReadDiskInv ==
    ASSUME DiskInv, IInv', DataIsRead
    PROVE  DiskInv'
<1> USE DEF DataIsRead
<1>1. /\ UNCHANGED <<tasks, active, served, answer, request, told, content, owner, file>>
      /\ UNCHANGED <<game, travel, diverted, current, nullInfo, phase>>
  BY DEF vars, disk, world, session, story
<1>2. /\ tasks # <<>> /\ work.stage # "idle" /\ ~SaverAtWork /\ slotOfHead \in Slot
      /\ work.info # Nothing
      /\ work.stage \notin {"loadBegan", "deserializing"}
  BY FirstTask DEF DiskInv, StageInv, slotOfHead, Request
<1>3. /\ work'.io = "done" /\ work'.stage = work.stage /\ work'.info = work.info
      /\ work'.data = (IF file[slotOfHead] \in {Missing, Torn} THEN Nothing ELSE file[slotOfHead])
      /\ work' \in Work
  BY <1>2 DEF DiskInv, SaveTypeOK, Work
<1>4. ~SaverAtWork' /\ slotOfHead' = slotOfHead
  BY <1>1, <1>2, <1>3 DEF SaverAtWork, slotOfHead
<1>5. SaveTypeOK'
  BY <1>1, <1>3 DEF DiskInv, SaveTypeOK, IInv
<1>6. RequestInv' /\ ToldInv' /\ StageInv' /\ OwnerInv' /\ SavingInv'
  BY <1>1, <1>2, <1>3, <1>4 DEF DiskInv, RequestInv, ToldInv, StageInv, OwnerInv, SavingInv,
     SaverAtWork
<1>7. ReadingInv'
  BY <1>1, <1>2, <1>3, <1>4, SaveSystemAssumption DEF DiskInv, OwnerInv, ReadingInv
<1>8. QED
  BY <1>5, <1>6, <1>7 DEF DiskInv

(* A file is deleted, even under the Saver that writes it. *)
LEMMA DeleteSlotDiskInv ==
    ASSUME NEW d \in Slot, DiskInv, IInv', DeleteSlot(d)
    PROVE  DiskInv'
<1> USE DEF DeleteSlot
<1>1. UNCHANGED <<tasks, active, served, answer, request, told, content, work,
                  game, travel, diverted, current, nullInfo, phase>>
  BY DEF vars, world, session, story
<1>2. /\ owner'[d] = NoTask /\ \A s \in Slot \ {d} : owner'[s] = owner[s] /\ file'[s] = file[s]
      /\ owner' \in [Slot -> Task \cup {NoTask}]
      /\ file' \in [Slot -> Save \cup {Missing, Torn}]
  BY DEF DiskInv, SaveTypeOK
<1>3. (SaverAtWork' <=> SaverAtWork) /\ (Saving' <=> Saving) /\ slotOfHead' = slotOfHead
      /\ Head(tasks') = Head(tasks)
  BY <1>1 DEF SaverAtWork, Saving, slotOfHead
<1>4. (SaverAtWork \/ work.info # Nothing) => slotOfHead \in Slot /\ Head(tasks) # NoTask
  BY FirstTask DEF DiskInv, StageInv, slotOfHead, Request, SaverAtWork
<1>5. SaveTypeOK'
  BY <1>1, <1>2 DEF DiskInv, SaveTypeOK, IInv
<1>6. RequestInv' /\ ToldInv' /\ StageInv'
  BY <1>1, <1>3 DEF DiskInv, RequestInv, ToldInv, StageInv
<1>7. OwnerInv'
  BY <1>1, <1>2, <1>3 DEF DiskInv, OwnerInv
<1>8. SavingInv' /\ ReadingInv'
  <2> HIDE DEF DeleteSlot
  <2>1. SavingInv'
    BY <1>1, <1>2, <1>3, <1>4 DEF DiskInv, SavingInv
  <2>2. ReadingInv'
    BY <1>1, <1>2, <1>3, <1>4 DEF DiskInv, ReadingInv
  <2>3. QED
    BY <2>1, <2>2
<1>9. QED
  BY <1>5, <1>6, <1>7, <1>8 DEF DiskInv

LEMMA GameDiskInv ==
    ASSUME DiskInv, IInv', GameRuns \/ ProcessEnds
    PROVE  DiskInv'
<1>1. ASSUME NEW t \in Task, NEW r \in Asked, SaveSlot(t, r) \/ LoadSlot(t, r) PROVE DiskInv'
  <2>1. r \in Request /\ Ask(t, r) /\ UNCHANGED <<nullInfo, phase>>
    BY <1>1, SaveSystemAssumption DEF SaveSlot, LoadSlot, Ask
  <2>2. phase' \in {"up", "closing", "crashed"}
    BY <2>1 DEF DiskInv, SaveTypeOK
  <2>3. QED
    BY <2>1, <2>2, AskDiskInv
<1>2. ASSUME NEW s \in Slot, DeleteSlot(s) PROVE DiskInv'
  BY <1>2, DeleteSlotDiskInv
<1>3. ASSUME NEW m \in Map, GameTravels(m) PROVE DiskInv'
  <2>1. diverted' \in BOOLEAN
    BY <1>3, Zenon DEF GameTravels
  <2>2. UNCHANGED <<file, owner, game, request, told, content, work, current, nullInfo, phase,
                    tasks, active, served, answer>>
    BY <1>3 DEF GameTravels, vars, disk, session, story
  <2>3. SaveTypeOK' /\ UNCHANGED <<work.stage, work.io, work.info, work.data>>
    BY <1>3, <2>1, <2>2 DEF GameTravels, DiskInv, SaveTypeOK, IInv, Work
  <2>4. QED
    BY <2>2, <2>3, BystanderDiskInv
<1>4. ASSUME GamePicksPreset PROVE DiskInv'
  BY <1>4, CallDiskInv DEF GamePicksPreset, disk, world, session, story, DiskInv, SaveTypeOK, IInv
<1>5. ASSUME Play PROVE DiskInv'
  <2>1. UNCHANGED <<file, owner, travel, diverted, request, told, content, work, current,
                    nullInfo, phase, tasks, active, served, answer>>
    BY <1>5 DEF Play, vars, disk, session, story
  <2>2. SaveTypeOK' /\ UNCHANGED <<work.stage, work.io, work.info, work.data>>
    BY <1>5, <2>1 DEF Play, DiskInv, SaveTypeOK, IInv, Work, Game
  <2>3. QED
    BY <2>1, <2>2, BystanderDiskInv
<1>6. ASSUME LevelsStream PROVE DiskInv'
  <2>1. UNCHANGED <<file, owner, game, travel, request, told, content, current, nullInfo, phase,
                    tasks, active, served, answer, preset>>
    BY <1>6 DEF LevelsStream, vars, disk, session, story
  <2>2. diverted' \in BOOLEAN
    BY <1>6, Zenon DEF LevelsStream, DiskInv, SaveTypeOK
  <2>3. CASE work' = [work EXCEPT !.unrecorded = ~@]
    <3>1. work' \in Work /\ UNCHANGED <<work.stage, work.io, work.info, work.data>>
      BY <2>3 DEF DiskInv, SaveTypeOK, Work
    <3>2. SaveTypeOK'
      BY <2>1, <2>2, <3>1 DEF DiskInv, SaveTypeOK, IInv
    <3>3. QED
      BY <2>1, <3>1, <3>2, BystanderDiskInv
  <2>4. CASE work' = [work EXCEPT !.stage = "stuck"]
    <3>1. work' \in Work /\ work'.stage = "stuck" /\ UNCHANGED <<work.io, work.info, work.data>>
      BY <2>4, StageOfWork
    <3>2. SaveTypeOK'
      BY <2>1, <2>2, <3>1 DEF DiskInv, SaveTypeOK, IInv
    <3>3. work.stage \in {"loadBegan", "deserializing"} /\ ~SaverAtWork /\ ~SaverAtWork'
          /\ slotOfHead' = slotOfHead
      BY <1>6, <2>1, <3>1 DEF LevelsStream, SaverAtWork, slotOfHead
    <3>4. RequestInv' /\ StageInv' /\ ToldInv'
      BY <2>1, <3>1, <3>3 DEF DiskInv, RequestInv, StageInv, ToldInv
    <3>5. OwnerInv' /\ SavingInv' /\ ReadingInv'
      BY <2>1, <3>1, <3>3 DEF DiskInv, OwnerInv, SavingInv, ReadingInv
    <3>6. QED
      BY <3>2, <3>4, <3>5 DEF DiskInv
  <2>5. QED
    BY <1>6, <2>3, <2>4 DEF LevelsStream
<1>7. ASSUME NullInfoRead \/ StackOverflows \/ Crash \/ (Exit /\ UNCHANGED <<vars, disk, world, work, current, nullInfo, story>>)
      PROVE  DiskInv'
  <2>1. UNCHANGED <<file, owner, game, travel, diverted, request, told, content, work, current,
                    nullInfo, tasks, active, served, answer>>
        /\ phase' \in {"up", "closing", "crashed"}
    BY <1>7 DEF NullInfoRead, StackOverflows, Crash, Exit, vars, disk, world, story
  <2>2. SaveTypeOK' /\ UNCHANGED <<work.stage, work.io, work.info, work.data>>
    BY <2>1 DEF DiskInv, SaveTypeOK, IInv, Work
  <2>3. QED
    BY <2>1, <2>2, BystanderDiskInv
<1>8. ASSUME Exit, ~UNCHANGED <<vars, disk, world, work, current, nullInfo, story>>
      PROVE  DiskInv'
  <2>1. PICK t \in Task :
           Ask(t, [kind |-> "save", slot |-> current, override |-> TRUE, shot |-> FALSE])
    BY <1>8 DEF Exit
  <2>2. [kind |-> "save", slot |-> current, override |-> TRUE, shot |-> FALSE] \in Request
    BY <1>8 DEF Exit, Request, DiskInv, SaveTypeOK
  <2>3. QED
    BY <1>8, <2>1, <2>2, AskDiskInv DEF Exit, Ask
<1>9. QED
  BY <1>1, <1>2, <1>3, <1>4, <1>5, <1>6, <1>7, <1>8 DEF GameRuns, ProcessEnds

LEMMA NextDiskInv == DiskInv /\ [SaveNext]_allvars => DiskInv'
<1> SUFFICES ASSUME DiskInv, [SaveNext]_allvars PROVE DiskInv'
  OBVIOUS
<1>1. IInv'
  BY StepIsQueueStep, NextIInv DEF DiskInv
<1>2. ASSUME TaskRuns PROVE DiskInv'
  <2>1. CASE SaverBegins \/ SaverSerializes \/ SaverWrote \/ SaverTicks
    BY <1>1, <2>1, SaverBeginsDiskInv, SaverSerializesDiskInv, SaverFinishesDiskInv
  <2>2. CASE LoaderBegins \/ LoaderChecksMap \/ LoaderTicks \/ LoaderApplies
            \/ LoaderPauses \/ LoaderEnds
    BY <1>1, <2>2, LoaderBeginsDiskInv, LoaderChecksMapDiskInv, LoaderTicksDiskInv,
       LoaderRestoresDiskInv
  <2>3. CASE TaskLeaves
    BY <1>1, <2>3, TaskLeavesDiskInv
  <2>4. CASE CallReturns
    BY <1>1, <2>4, CallDiskInv
       DEF CallReturns, disk, world, session, story, DiskInv, SaveTypeOK, IInv
  <2>5. QED
    BY <1>2, <2>1, <2>2, <2>3, <2>4 DEF TaskRuns
<1>3. ASSUME FileTaskRuns PROVE DiskInv'
  BY <1>1, <1>3, WriteDiskInv, DataIsReadDiskInv DEF FileTaskRuns
<1>4. ASSUME ManagerTicks PROVE DiskInv'
  BY <1>1, <1>4, CallDiskInv
     DEF ManagerTicks, disk, world, session, story, DiskInv, SaveTypeOK, IInv
<1>5. ASSUME ScreenshotIsTaken PROVE DiskInv'
  <2>1. UNCHANGED <<file, owner, game, travel, diverted, request, told, content, current,
                    nullInfo, phase, tasks, active, served, answer>>
        /\ work' = [work EXCEPT !.picture = TRUE]
    BY <1>5 DEF ScreenshotIsTaken, vars, disk, world, session, story
  <2>2. SaveTypeOK' /\ UNCHANGED <<work.stage, work.io, work.info, work.data>>
    BY <1>1, <2>1 DEF DiskInv, SaveTypeOK, IInv, Work
  <2>3. QED
    BY <1>1, <2>1, <2>2, BystanderDiskInv
<1>6. ASSUME UNCHANGED allvars PROVE DiskInv'
  <2>1. UNCHANGED <<file, owner, game, travel, diverted, request, told, content, work, current,
                    nullInfo, phase, tasks, active, served, answer>>
    BY <1>6 DEF allvars, vars, disk, world, session, story
  <2>2. SaveTypeOK' /\ UNCHANGED <<work.stage, work.io, work.info, work.data>>
    BY <1>1, <2>1 DEF DiskInv, SaveTypeOK, IInv, Work
  <2>3. QED
    BY <1>1, <2>1, <2>2, BystanderDiskInv
<1>7. QED
  BY <1>1, <1>2, <1>3, <1>4, <1>5, <1>6, GameDiskInv, MapLoadsDiskInv DEF SaveNext

-----------------------------------------------------------------------------
(* What holds of the disk. *)

THEOREM DiskInvariant == SaveSafety => []DiskInv
BY InitDiskInv, NextDiskInv, PTL DEF SaveSafety

(* Files, maps, requests and the work of the tasks keep their types. *)
THEOREM SavesTypeCorrect == SaveSafety => []SaveTypeOK
<1>1. DiskInv => SaveTypeOK
  BY DEF DiskInv
<1>2. QED
  BY <1>1, DiskInvariant, PTL

(* While the disk takes writes, what a delegate was told is saved is in    *)
(* the file of its slot, whole, until it is replaced or deleted.           *)
THEOREM SavedIsOnDisk ==
    ASSUME ~WritesFail
    PROVE  SaveSafety => []SuccessIsDurable
<1>1. DiskInv => SuccessIsDurable
  <2> SUFFICES ASSUME DiskInv, NEW t \in Task, told[t] = "success",
                      request[t].kind = "save", owner[request[t].slot] = t
               PROVE  file[request[t].slot] = content[t]
    BY DEF SuccessIsDurable
  <2>1. request[t] # Nothing
    <3>1. served \in Seq(Task) /\ tasks \in Seq(Task)
      BY DEF DiskInv, IInv, TypeOK
    <3>2. Contains(served, t) \/ Contains(tasks, t)
      <4>1. CASE active.fn = "OnFinish" /\ active.task = t
        BY <3>1, <4>1, RunningTask DEF Function, me, Contains
      <4>2. QED
        BY <4>1 DEF DiskInv, ToldInv
    <3>3. QED
      BY <3>2 DEF DiskInv, IInv, QueueInv, Scheduled, RequestInv
  <2>2. request[t].slot \in Slot /\ t # NoTask
    BY <2>1, NoTaskAssumption DEF DiskInv, SaveTypeOK, Request
  <2>3. QED
    BY <2>2 DEF DiskInv, OwnerInv
<1>2. QED
  BY <1>1, DiskInvariant, PTL

(* While the disk takes writes, only the slot of the Saver at work can be  *)
(* found missing or torn after a crash, of all that were ever saved.       *)
THEOREM CrashCostsOneSlot ==
    ASSUME ~WritesFail
    PROVE  SaveSafety => []OnlyTheSaveAtWorkIsAtRisk
<1>1. DiskInv => OnlyTheSaveAtWorkIsAtRisk
  <2> SUFFICES ASSUME DiskInv, NEW s \in Slot, owner[s] # NoTask, file[s] \in {Missing, Torn}
               PROVE  /\ tasks # <<>> /\ Head(tasks) = owner[s]
                      /\ told[owner[s]] = "nothing"
    BY DEF OnlyTheSaveAtWorkIsAtRisk
  <2>1. file[s] \notin Save
    BY SaveSystemAssumption
  <2>2. told[owner[s]] = "nothing" /\ SaverAtWork /\ owner[s] = Head(tasks)
    BY <2>1 DEF DiskInv, OwnerInv
  <2>3. tasks # <<>>
    BY <2>2 DEF DiskInv, StageInv, SaverAtWork
  <2>4. QED
    BY <2>2, <2>3
<1>2. QED
  BY <1>1, DiskInvariant, PTL

(* The steps that change files, and those that tell of a success. *)
LEMMA FileSteps ==
    ASSUME [SaveNext]_allvars, ~UNCHANGED disk
    PROVE  \/ SaverBegins \/ WriteOpens \/ WriteEnds
           \/ \E s \in Slot : DeleteSlot(s)
<1>1. TaskRuns => SaverBegins \/ UNCHANGED disk
  BY DEF TaskRuns, SaverSerializes, SaverWrote, SaverTicks, LoaderBegins, LoaderChecksMap,
     LoaderTicks, LoaderApplies, SplitFrame, LoaderPauses, LoaderEnds, TaskLeaves, CallReturns
<1>2. FileTaskRuns => WriteOpens \/ WriteEnds \/ UNCHANGED disk
  BY DEF FileTaskRuns, DataIsRead
<1>3. ASSUME NEW t \in Task, NEW r, Ask(t, r) PROVE UNCHANGED disk
  BY <1>3 DEF Ask
<1>4. GameRuns => (\E s \in Slot : DeleteSlot(s)) \/ UNCHANGED disk
  BY <1>3 DEF GameRuns, SaveSlot, LoadSlot, GameTravels, GamePicksPreset, Play, LevelsStream
<1>5. ProcessEnds => UNCHANGED disk
  BY <1>3 DEF ProcessEnds, NullInfoRead, StackOverflows, Crash, Exit
<1>6. ManagerTicks \/ MapLoads \/ ScreenshotIsTaken \/ UNCHANGED allvars => UNCHANGED disk
  BY DEF ManagerTicks, MapLoads, ScreenshotIsTaken, allvars
<1>7. QED
  BY <1>1, <1>2, <1>4, <1>5, <1>6 DEF SaveNext

(* No whole save is lost to a Saver that was not allowed to override, even *)
(* though the file is looked for in OnStart and opened later.              *)
THEOREM OverridingIsAsked == SaveSafety => OverrideIsAsked
<1>1. ASSUME DiskInv, [SaveNext]_allvars, NEW s \in Slot, file[s] \in Save, file'[s] # file[s]
      PROVE  owner'[s] = NoTask \/ request[owner'[s]].override
  <2>1. \/ SaverBegins \/ WriteOpens \/ WriteEnds
        \/ \E d \in Slot : DeleteSlot(d)
    BY <1>1, FileSteps DEF disk
  <2>2. file[s] \notin {Missing, Torn}
    BY <1>1, SaveSystemAssumption
  <2>3. CASE SaverBegins
    <3>1. mine.slot = s /\ MayWrite(mine) /\ owner' = [owner EXCEPT ![mine.slot] = me]
      BY <1>1, <2>3 DEF SaverBegins, disk, DiskInv, SaveTypeOK
    <3>2. owner'[s] = me /\ mine.override
      BY <1>1, <2>2, <3>1 DEF MayWrite, DiskInv, SaveTypeOK
    <3>3. QED
      BY <3>2 DEF mine
  <2>4. CASE WriteOpens \/ WriteEnds
    <3>1. SaverAtWork /\ slotOfHead = s /\ owner' = owner
      BY <1>1, <2>2, <2>4 DEF WriteOpens, WriteEnds, Saving, SaverAtWork, DiskInv, SaveTypeOK
    <3>2. owner[s] # Head(tasks)
      BY <1>1, <2>2, <2>4, <3>1 DEF WriteOpens, WriteEnds, DiskInv, SavingInv, SaveTypeOK
    <3>3. owner[s] = NoTask
      BY <1>1, <3>1, <3>2 DEF DiskInv, SavingInv
    <3>4. QED
      BY <3>1, <3>3
  <2>5. ASSUME NEW d \in Slot, DeleteSlot(d)
        PROVE  owner'[s] = NoTask
    BY <1>1, <2>5 DEF DeleteSlot, DiskInv, SaveTypeOK
  <2>6. QED
    BY <2>1, <2>3, <2>4, <2>5
<1>2. DiskInv /\ [SaveNext]_allvars =>
        [\A s \in Slot : file[s] \in Save /\ file'[s] # file[s]
            => owner'[s] = NoTask \/ request[owner'[s]].override]_allvars
  BY <1>1
<1>3. QED
  BY <1>2, DiskInvariant, PTL DEF SaveSafety, OverrideIsAsked

(* A delegate is told something: the function of the first task finishes.  *)
LEMMA TellingSteps ==
    ASSUME [SaveNext]_allvars, ~UNCHANGED told
    PROVE  \/ FinishTold(FALSE)
              /\ (SaverBegins \/ LoaderBegins \/ LoaderChecksMap \/ LoaderTicks \/ LoaderEnds)
           \/ FinishTold(TRUE) /\ (SaverWrote \/ SaverTicks \/ LoaderApplies \/ LoaderEnds)
<1> USE DEF Stay, GoOn
<1>1. WhenDataLoaded \/ StartDeserialization => FinishTold(FALSE) \/ UNCHANGED told
  BY DEF WhenDataLoaded, StartDeserialization
<1>2. SaverBegins \/ LoaderBegins \/ LoaderChecksMap \/ LoaderTicks
         => FinishTold(FALSE) \/ UNCHANGED told
  BY <1>1 DEF SaverBegins, LoaderBegins, LoaderChecksMap, LoaderTicks
<1>3. SaverWrote \/ SaverTicks \/ LoaderApplies \/ LoaderEnds
         => FinishTold(TRUE) \/ (LoaderEnds /\ FinishTold(FALSE)) \/ UNCHANGED told
  BY DEF SaverWrote, SaverTicks, LoaderApplies, LoaderEnds
<1>4. SaverSerializes \/ LoaderPauses \/ TaskLeaves \/ CallReturns => UNCHANGED told
  BY DEF SaverSerializes, LoaderPauses, TaskLeaves, CallReturns, story
<1>5. FileTaskRuns => UNCHANGED told
  BY DEF FileTaskRuns, WriteOpens, WriteEnds, DataIsRead, story
<1>6. ASSUME NEW t \in Task, NEW r, Ask(t, r) PROVE UNCHANGED told
  BY <1>6 DEF Ask
<1>7. GameRuns => UNCHANGED told
  BY <1>6 DEF GameRuns, SaveSlot, LoadSlot, DeleteSlot, GameTravels, GamePicksPreset, Play,
     LevelsStream, story
<1>8. ProcessEnds => UNCHANGED told
  BY <1>6 DEF ProcessEnds, NullInfoRead, StackOverflows, Crash, Exit, story
<1>9. ManagerTicks \/ MapLoads \/ ScreenshotIsTaken \/ UNCHANGED allvars => UNCHANGED told
  BY DEF ManagerTicks, MapLoads, ScreenshotIsTaken, allvars, story
<1>10. QED
  BY <1>2, <1>3, <1>4, <1>5, <1>7, <1>8, <1>9 DEF SaveNext, TaskRuns

(* A Loader tells of a success when it has restored the data it read.      *)
LEMMA SucceedingLoader ==
    ASSUME DiskInv, [SaveNext]_allvars, NEW t \in Task, Succeeds(t, "load")
    PROVE  /\ t = me /\ mine = request[t] /\ tasks # <<>> /\ me = Head(tasks)
           /\ mine \in Request /\ mine.kind = "load"
           /\ work.stage \in {"loadBegan", "deserializing"}
           /\ work.data \in Save /\ work.info # Nothing
           /\ content' = [content EXCEPT ![t] = work.data]
           /\ game' \in Game /\ game'.map = game.map
           /\ preset[t].split \/ game' = [game EXCEPT !.state = work.data.state]
           /\ UNCHANGED <<file, owner>>
<1>1. told'[t] = "success" /\ told[t] = "nothing" /\ request[t].kind = "load"
  BY DEF Succeeds
<1>2. \/ FinishTold(FALSE)
         /\ (SaverBegins \/ LoaderBegins \/ LoaderChecksMap \/ LoaderTicks \/ LoaderEnds)
      \/ FinishTold(TRUE) /\ (SaverWrote \/ SaverTicks \/ LoaderApplies \/ LoaderEnds)
  BY <1>1, TellingSteps
<1>3. t = me /\ mine = request[t]
  BY <1>1, <1>2, CallFinishes DEF mine
<1>4. FinishTold(TRUE) /\ (SaverWrote \/ SaverTicks \/ LoaderApplies \/ LoaderEnds)
  BY <1>1, <1>2, <1>3, CallFinishes
<1>5. FinishTold(TRUE) /\ (LoaderApplies \/ LoaderEnds)
  BY <1>1, <1>3, <1>4 DEF SaverWrote, SaverTicks, Calling
<1>6. active.fn \in Function /\ work.stage \in {"loadBegan", "deserializing"}
  BY <1>5, RestoringSteps
<1>7. work.info # Nothing
  BY <1>6 DEF DiskInv, StageInv, SaverAtWork
<1>8. /\ content' = [content EXCEPT ![me] = work.data]
      /\ preset[me].split \/ game' = [game EXCEPT !.state = work.data.state]
  <2>1. ~(FinishTold(FALSE) /\ FinishTold(TRUE))
    BY <1>1, <1>3, CallFinishes
  <2>2. QED
    BY <1>5, <2>1 DEF LoaderApplies, LoaderEnds, SplitFrame
<1>9. game' \in Game /\ game'.map = game.map /\ UNCHANGED <<file, owner>>
  BY <1>5, RestoringSteps
<1>10. QED
  BY <1>3, <1>6, <1>7, <1>8, <1>9, RestoringTask

(* A load brings back what the last save of its slot stored. *)
THEOREM LastSaveIsLoaded ==
    ASSUME ~WritesFail
    PROVE  SaveSafety => LoadsSeeTheLastSave
<1>1. ASSUME DiskInv, [SaveNext]_allvars, NEW t \in Task, Succeeds(t, "load"),
             owner[request[t].slot] # NoTask
      PROVE  content'[t] = content[owner[request[t].slot]]
  <2>1. content'[t] = work.data /\ slotOfHead = request[t].slot /\ work.data # Nothing
        /\ work.info # Nothing
    BY <1>1, SucceedingLoader, SaveSystemAssumption DEF slotOfHead, DiskInv, SaveTypeOK
  <2>2. QED
    BY <1>1, <2>1 DEF DiskInv, ReadingInv
<1>2. DiskInv /\ [SaveNext]_allvars =>
        [\A t \in Task : Succeeds(t, "load") /\ owner[request[t].slot] # NoTask
            => content'[t] = content[owner[request[t].slot]]]_allvars
  BY <1>1
<1>3. QED
  BY <1>2, DiskInvariant, PTL DEF SaveSafety, LoadsSeeTheLastSave

-----------------------------------------------------------------------------
(* What holds of a Loader between the reading of the info and its end.     *)

(* Steps a Loader at work does not notice. *)
LEMMA FrameLoadInv ==
    ASSUME LoadInv,
           work'.info # Nothing =>
              /\ work'.info = work.info /\ work'.data = work.data /\ work'.io = work.io
              /\ work'.stage = work.stage
              /\ UNCHANGED <<file, game.map, travel, diverted>>
              /\ Head(tasks') = Head(tasks)
              /\ request'[Head(tasks)] = request[Head(tasks)]
              /\ preset'[Head(tasks)] = preset[Head(tasks)]
    PROVE  LoadInv'
<1>1. LoadedInv'
  BY DEF LoadInv, LoadedInv, slotOfHead
<1>2. TravelInv'
  BY DEF LoadInv, TravelInv, OnItsMap
<1>3. QED
  BY <1>1, <1>2 DEF LoadInv

(* The queue does not change the first task, nor the preset of a task.     *)
LEMMA QueueFrame ==
    ASSUME DiskInv, FinishReturns \/ Answer \/ Tick \/ Return \/ (\E ok \in BOOLEAN : Finish(ok))
                    \/ (\E p \in Preset : SetActivePreset(p)) \/ UNCHANGED vars
    PROVE  UNCHANGED <<tasks, preset>>
BY DEF FinishReturns, Answer, Tick, Return, Finish, SetActivePreset, vars

LEMMA AskLoadInv ==
    ASSUME DiskInv, LoadInv, NEW t \in Task, NEW r, Ask(t, r)
    PROVE  LoadInv'
<1> USE DEF Ask, CreateTask
<1>1. UNCHANGED <<work, file, game, travel, diverted>>
  BY DEF disk, world
<1>2. ASSUME work.info # Nothing
      PROVE  /\ Head(tasks') = Head(tasks) /\ Head(tasks) # t
             /\ request'[Head(tasks)] = request[Head(tasks)]
             /\ preset'[Head(tasks)] = preset[Head(tasks)]
  <2>1. tasks # <<>>
    BY <1>2 DEF DiskInv, StageInv
  <2>2. request[t] = Nothing /\ Head(tasks) # t
    BY <2>1, FirstTask DEF DiskInv, RequestInv
  <2>3. Head(tasks') = Head(tasks)
    BY <2>1, AppendElements DEF DiskInv, IInv, TypeOK
  <2>4. QED
    BY <2>1, <2>2, <2>3, FirstTask DEF DiskInv, SaveTypeOK, IInv, TypeOK
<1>3. QED
  BY <1>1, <1>2, FrameLoadInv

LEMMA SaverLoadInv ==
    ASSUME DiskInv, LoadInv,
           \/ SaverBegins \/ SaverSerializes \/ SaverWrote \/ SaverTicks
           \/ WriteOpens \/ WriteEnds
    PROVE  LoadInv'
<1>1. work.info = Nothing
  <2>1. CASE SaverBegins \/ SaverSerializes \/ SaverWrote \/ WriteOpens \/ WriteEnds
    BY <2>1 DEF SaverBegins, SaverSerializes, SaverWrote, WriteOpens, WriteEnds, Saving,
       DiskInv, StageInv, SaverAtWork
  <2>2. CASE SaverTicks
    BY <2>2, RunningTask DEF SaverTicks, Calling, Function, DiskInv, StageInv, mine
  <2>3. QED
    BY <2>1, <2>2
<1>2. work'.info = Nothing
  BY <1>1 DEF SaverBegins, SaverSerializes, SaverWrote, SaverTicks, WriteOpens, WriteEnds,
     DiskInv, SaveTypeOK, Work
<1>3. QED
  BY <1>2, FrameLoadInv

LEMMA LoaderBeginsLoadInv ==
    ASSUME DiskInv, LoadInv, LoaderBegins
    PROVE  LoadInv'
<1> USE DEF LoaderBegins, Calling
<1>1. /\ tasks # <<>> /\ me = Head(tasks) /\ mine = request[me] /\ slotOfHead = mine.slot
      /\ mine.slot \in Slot
  BY RunningTask DEF Function, mine, slotOfHead, Request
<1>2. work.info = Nothing /\ work.data = Nothing /\ work.io = "none" /\ work \in Work
  BY DEF DiskInv, StageInv, SaverAtWork, SaveTypeOK
<1>3. PICK info \in InfosIn(file[mine.slot]) :
        IF info = Nothing
        THEN FinishTold(FALSE) /\ UNCHANGED work
        ELSE /\ Stay
             /\ work' = [work EXCEPT !.stage = "reading", !.io = "queued", !.info = info]
  OBVIOUS
<1>4. CASE info = Nothing
  BY <1>2, <1>3, <1>4, FrameLoadInv
<1>5. CASE info # Nothing
  <2>1. /\ Stay /\ UNCHANGED <<tasks, file, request, preset>>
        /\ travel' = travel
        /\ ~diverted' => travel = NoMap
        /\ work' = [work EXCEPT !.stage = "reading", !.io = "queued", !.info = info]
    BY <1>3, <1>5 DEF Stay, vars, disk
  <2>2. /\ work'.stage = "reading" /\ work'.io = "queued" /\ work'.info = info
        /\ work'.data = Nothing
    BY <1>2, <2>1 DEF Work
  <2>3. file[mine.slot] \in Save => info = file[mine.slot]
    BY <1>3, SaveSystemAssumption DEF InfosIn
  <2>4. slotOfHead' = slotOfHead
    BY <2>1 DEF slotOfHead
  <2>5. LoadedInv'
    BY <1>1, <2>1, <2>2, <2>3, <2>4 DEF LoadedInv
  <2>6. TravelInv'
    BY <2>1, <2>2 DEF TravelInv
  <2>7. QED
    BY <2>5, <2>6 DEF LoadInv
<1>6. QED
  BY <1>4, <1>5

LEMMA LoaderMovesLoadInv ==
    ASSUME DiskInv, LoadInv, UNCHANGED <<tasks, preset, request, file, diverted>>,
           game'.map = game.map,
           NEW stage \in {"loadingMap", "waiting", "loadBegan", "deserializing"},
           work'.stage = stage, UNCHANGED <<work.io, work.info, work.data>>,
           IF stage = "loadingMap"
           THEN ~OnItsMap /\ travel' = work.info.map
           ELSE travel' = travel /\ (work.info # Nothing /\ ~diverted => OnItsMap /\ travel = NoMap)
    PROVE  LoadInv'
<1>1. (OnItsMap' <=> OnItsMap) /\ slotOfHead' = slotOfHead
  BY DEF OnItsMap, slotOfHead
<1>2. LoadedInv'
  BY <1>1 DEF LoadInv, LoadedInv
<1>3. TravelInv'
  BY <1>1 DEF TravelInv
<1>4. QED
  BY <1>2, <1>3 DEF LoadInv

LEMMA DeserializationLoadInv ==
    ASSUME DiskInv, LoadInv, WhenDataLoaded \/ StartDeserialization,
           UNCHANGED <<request, file, diverted, game, travel>>,
           work.info # Nothing /\ ~diverted => OnItsMap /\ travel = NoMap
    PROVE  LoadInv'
<1>1. UNCHANGED <<tasks, preset>>
  BY DEF WhenDataLoaded, StartDeserialization, GoOn, Stay, FinishTold, Return, Finish, vars
<1>2. CASE work' = work
  BY <1>1, <1>2, FrameLoadInv
<1>3. ASSUME work' # work
      PROVE  /\ work'.stage \in {"waiting", "loadBegan"}
             /\ UNCHANGED <<work.io, work.info, work.data>>
  <2>1. \/ work' = [work EXCEPT !.stage = "waiting"]
        \/ \E unrecorded \in BOOLEAN :
              work' = [work EXCEPT !.stage = "loadBegan", !.unrecorded = unrecorded]
    BY <1>3 DEF WhenDataLoaded, StartDeserialization
  <2>2. CASE work' = [work EXCEPT !.stage = "waiting"]
    BY <2>2, StageOfWork
  <2>3. ASSUME NEW unrecorded \in BOOLEAN,
               work' = [work EXCEPT !.stage = "loadBegan", !.unrecorded = unrecorded]
        PROVE  work'.stage = "loadBegan" /\ UNCHANGED <<work.io, work.info, work.data>>
    BY <2>3, StageOfWork
  <2>4. QED
    BY <2>1, <2>2, <2>3
<1>4. CASE work' # work
  BY <1>1, <1>3, <1>4, LoaderMovesLoadInv
<1>5. QED
  BY <1>2, <1>4

LEMMA LoaderLoadInv ==
    ASSUME DiskInv, LoadInv,
           LoaderChecksMap \/ LoaderTicks \/ LoaderApplies \/ LoaderPauses \/ LoaderEnds
    PROVE  LoadInv'
<1>1. UNCHANGED <<file, diverted, request>>
  BY RestoringSteps DEF LoaderChecksMap, LoaderTicks, disk, world
<1>2. CASE LoaderChecksMap
  <2> USE <1>2 DEF LoaderChecksMap
  <2>1. CASE OnItsMap /\ WhenDataLoaded /\ UNCHANGED travel
    BY <1>1, <2>1, DeserializationLoadInv DEF LoadInv, TravelInv
  <2>2. CASE FinishTold(FALSE) /\ UNCHANGED <<work, travel>>
    BY <1>1, <2>2, FrameLoadInv DEF FinishTold, Finish
  <2>3. CASE ~OnItsMap /\ travel' = work.info.map /\ GoOn
             /\ work' = [work EXCEPT !.stage = "loadingMap"]
    BY <1>1, <2>3, StageOfWork, LoaderMovesLoadInv DEF GoOn, Return
  <2>4. QED
    BY <2>1, <2>2, <2>3
<1>3. CASE LoaderTicks
  <2> USE <1>3 DEF LoaderTicks, world
  <2>1. CASE work.stage = "loadingMap" /\ OnItsMap /\ WhenDataLoaded
    BY <1>1, <2>1, DeserializationLoadInv DEF LoadInv, TravelInv
  <2>2. CASE work.stage = "waiting" /\ StartDeserialization
    BY <1>1, <2>2, DeserializationLoadInv DEF LoadInv, TravelInv
  <2>3. CASE GoOn /\ UNCHANGED work
    BY <1>1, <2>3, FrameLoadInv DEF GoOn, Return
  <2>4. QED
    BY <2>1, <2>2, <2>3
<1>4. CASE LoaderApplies \/ LoaderPauses \/ LoaderEnds
  <2>1. travel' = travel /\ game'.map = game.map
        /\ work.stage \in {"loadBegan", "deserializing"}
    BY <1>4, RestoringSteps
  <2>2. UNCHANGED <<tasks, preset>>
    BY <1>4 DEF LoaderApplies, LoaderPauses, LoaderEnds, GoOn, Return, FinishTold, Finish
  <2>3. CASE UNCHANGED work
    BY <1>1, <2>1, <2>2, <2>3, FrameLoadInv
  <2>4. CASE work' = [work EXCEPT !.stage = "deserializing"]
    BY <1>1, <2>1, <2>2, <2>4, StageOfWork, LoaderMovesLoadInv DEF LoadInv, TravelInv
  <2>5. QED
    BY <1>4, <2>3, <2>4 DEF LoaderApplies, LoaderPauses, LoaderEnds
<1>5. QED
  BY <1>2, <1>3, <1>4

(* The only step that can lose the data of a Loader, and the one that      *)
(* brings it to its map.                                                   *)
LEMMA MapLoadsLoadInv ==
    ASSUME DiskInv, LoadInv, MapLoads
    PROVE  LoadInv'
<1> USE DEF MapLoads
<1>1. /\ UNCHANGED <<file, request, diverted, tasks, preset>>
      /\ travel # NoMap /\ travel' = NoMap /\ game'.map = travel
  BY DEF disk, story, vars, Tick
<1>2. /\ work'.stage = (IF work.stage = "deserializing" THEN "stuck" ELSE work.stage)
      /\ work'.io = work.io /\ work'.info = work.info
      /\ work'.data = (IF DataSurvives THEN work.data ELSE Nothing)
  BY DEF DiskInv, SaveTypeOK, Work
<1>3. LoadedInv'
  BY <1>1, <1>2 DEF LoadInv, LoadedInv, slotOfHead, DataSurvives
<1>4. TravelInv'
  BY <1>1, <1>2 DEF LoadInv, TravelInv, OnItsMap
<1>5. QED
  BY <1>3, <1>4 DEF LoadInv

LEMMA DataIsReadLoadInv ==
    ASSUME DiskInv, LoadInv, DataIsRead
    PROVE  LoadInv'
<1> USE DEF DataIsRead
<1>1. UNCHANGED <<tasks, preset, request, file, game, travel, diverted>>
  BY DEF vars, disk, world, story
<1>2. /\ work'.io = "done" /\ work'.stage = work.stage /\ work'.info = work.info
      /\ work'.data = (IF file[slotOfHead] \in {Missing, Torn} THEN Nothing ELSE file[slotOfHead])
  BY DEF DiskInv, SaveTypeOK, Work
<1>3. work.info # Nothing /\ slotOfHead \in Slot
  BY FirstTask DEF DiskInv, StageInv, slotOfHead, Request
<1>4. slotOfHead' = slotOfHead /\ (OnItsMap' <=> OnItsMap)
  BY <1>1, <1>2 DEF slotOfHead, OnItsMap
<1>5. LoadedInv'
  BY <1>1, <1>2, <1>3, <1>4, SaveSystemAssumption DEF LoadInv, LoadedInv, DiskInv, SaveTypeOK
<1>6. TravelInv'
  BY <1>1, <1>2, <1>4 DEF LoadInv, TravelInv
<1>7. QED
  BY <1>5, <1>6 DEF LoadInv

LEMMA GameLoadInv ==
    ASSUME DiskInv, LoadInv, GameRuns \/ ProcessEnds
    PROVE  LoadInv'
<1>1. ASSUME NEW t \in Task, NEW r, Ask(t, r) PROVE LoadInv'
  BY <1>1, AskLoadInv
<1>2. ASSUME NEW d \in Slot, DeleteSlot(d) PROVE LoadInv'
  <2>1. /\ UNCHANGED <<tasks, preset, request, game, travel, diverted, work>>
        /\ \A s \in Slot : file'[s] \in Save => file'[s] = file[s]
    BY <1>2, SaveSystemAssumption DEF DeleteSlot, vars, world, story, DiskInv, SaveTypeOK
  <2>2. slotOfHead' = slotOfHead /\ (OnItsMap' <=> OnItsMap)
    BY <2>1 DEF slotOfHead, OnItsMap
  <2>3. work.info # Nothing => slotOfHead \in Slot
    BY FirstTask DEF DiskInv, StageInv, slotOfHead, Request
  <2>4. LoadedInv'
    BY <2>1, <2>2, <2>3 DEF LoadInv, LoadedInv
  <2>5. TravelInv'
    BY <2>1, <2>2 DEF LoadInv, TravelInv
  <2>6. QED
    BY <2>4, <2>5 DEF LoadInv
<1>3. ASSUME NEW m \in Map, GameTravels(m) PROVE LoadInv'
  <2>1. UNCHANGED <<tasks, preset, request, file, game, work>>
    BY <1>3 DEF GameTravels, vars, disk, story
  <2>2. LoadedInv'
    BY <2>1 DEF LoadInv, LoadedInv, slotOfHead
  <2>3. work.info # Nothing => diverted'
    BY <1>3 DEF GameTravels
  <2>4. TravelInv'
    BY <2>1, <2>3 DEF TravelInv
  <2>5. QED
    BY <2>2, <2>4 DEF LoadInv
<1>4. GamePicksPreset => LoadInv'
  BY QueueFrame, FrameLoadInv DEF GamePicksPreset, disk, world, session, story
<1>5. Play => LoadInv'
  <2>1. Play => UNCHANGED <<tasks, preset, request, file, travel, diverted, work>>
                /\ game'.map = game.map
    BY DEF Play, vars, disk, story, DiskInv, SaveTypeOK, Game
  <2>2. QED
    BY <2>1, FrameLoadInv
<1>6. ASSUME LevelsStream PROVE LoadInv'
  <2>1. UNCHANGED <<tasks, preset, request, file, game, travel>>
    BY <1>6 DEF LevelsStream, vars, disk, story
  <2>2. /\ UNCHANGED <<work.io, work.info, work.data>>
        /\ diverted' \/ (work'.stage = work.stage /\ diverted' = diverted)
    BY <1>6, StageOfWork DEF LevelsStream, DiskInv, SaveTypeOK, Work
  <2>3. LoadedInv'
    BY <2>1, <2>2 DEF LoadInv, LoadedInv, slotOfHead
  <2>4. TravelInv'
    BY <2>1, <2>2 DEF LoadInv, TravelInv, OnItsMap
  <2>5. QED
    BY <2>3, <2>4 DEF LoadInv
<1>7. ASSUME \/ NullInfoRead \/ StackOverflows \/ Crash
             \/ UNCHANGED <<vars, disk, world, work, current, nullInfo, story>>
      PROVE  LoadInv'
  <2>1. UNCHANGED <<tasks, preset, request, file, game, travel, diverted, work>>
    BY <1>7 DEF NullInfoRead, StackOverflows, Crash, vars, disk, world, story
  <2>2. QED
    BY <2>1, FrameLoadInv
<1>8. QED
  BY <1>1, <1>2, <1>3, <1>4, <1>5, <1>6, <1>7 DEF GameRuns, ProcessEnds, SaveSlot, LoadSlot, Exit

LEMMA NextLoadInv == DiskInv /\ LoadInv /\ [SaveNext]_allvars => LoadInv'
<1> SUFFICES ASSUME DiskInv, LoadInv, [SaveNext]_allvars PROVE LoadInv'
  OBVIOUS
<1>1. TaskLeaves => LoadInv'
  BY FrameLoadInv DEF TaskLeaves, NoWork
<1>2. CallReturns \/ ManagerTicks => LoadInv'
  BY QueueFrame, FrameLoadInv DEF CallReturns, ManagerTicks, disk, world, session, story
<1>3. ScreenshotIsTaken => LoadInv'
  <2>1. ScreenshotIsTaken =>
          /\ UNCHANGED <<tasks, preset, request, file, game, travel, diverted>>
          /\ work'.info = work.info /\ work'.data = work.data /\ work'.io = work.io
          /\ work'.stage = work.stage
    BY DEF ScreenshotIsTaken, vars, disk, world, session, story, DiskInv, SaveTypeOK, Work
  <2>2. QED
    BY <2>1, FrameLoadInv
<1>4. UNCHANGED allvars => LoadInv'
  <2>1. UNCHANGED allvars =>
          UNCHANGED <<tasks, preset, request, file, game, travel, diverted, work>>
    BY DEF allvars, vars, disk, world, session, story
  <2>2. QED
    BY <2>1, FrameLoadInv
<1>5. QED
  BY <1>1, <1>2, <1>3, <1>4, SaverLoadInv, LoaderBeginsLoadInv, LoaderLoadInv, MapLoadsLoadInv,
     DataIsReadLoadInv, GameLoadInv DEF SaveNext, TaskRuns, FileTaskRuns

THEOREM LoaderInvariant == SaveSafety => []LoadInv
<1>1. SaveInit => LoadInv
  BY DEF SaveInit, NoWork, LoadInv, LoadedInv, TravelInv
<1>2. QED
  BY <1>1, NextLoadInv, DiskInvariant, PTL DEF SaveSafety

(* A load that succeeds leaves the game on the map that was saved and, if  *)
(* it restores all levels in one call, in the state that was saved, unless *)
(* the game opened a map while it was under way.                           *)
THEOREM LoadRestoresTheGame == SaveSafety => LoadBringsTheGameBack
<1>1. ASSUME DiskInv, LoadInv, [SaveNext]_allvars, NEW t \in Task, Succeeds(t, "load"), ~diverted
      PROVE  game'.map = content'[t].map /\ (preset[t].split \/ game' = content'[t])
  <2>1. /\ work.stage \in {"loadBegan", "deserializing"}
        /\ work.data \in Save /\ work.info # Nothing
        /\ content'[t] = work.data
        /\ game' \in Game /\ game'.map = game.map
        /\ preset[t].split \/ game' = [game EXCEPT !.state = work.data.state]
    BY <1>1, SucceedingLoader DEF DiskInv, SaveTypeOK
  <2>2. work.data = work.info
    BY <1>1, <2>1, SaveSystemAssumption DEF LoadInv, LoadedInv
  <2>3. OnItsMap
    BY <1>1, <2>1 DEF LoadInv, TravelInv
  <2>4. QED
    BY <1>1, <2>1, <2>2, <2>3 DEF OnItsMap, DiskInv, SaveTypeOK, Game, Save
<1>2. DiskInv /\ LoadInv /\ [SaveNext]_allvars =>
        [\A t \in Task : Succeeds(t, "load") /\ ~diverted =>
            /\ game'.map = content'[t].map
            /\ preset[t].split \/ game' = content'[t]]_allvars
  BY <1>1
<1>3. QED
  BY <1>2, DiskInvariant, LoaderInvariant, PTL DEF SaveSafety, LoadBringsTheGameBack

(* With files read on a pool thread, a load fails only when the slot has   *)
(* no whole file of a map that exists, or when it is split over frames and *)
(* a level is loaded that the file has no record of.                       *)
THEOREM FailureHasACause == SaveSafety => LoadsFailForCause
<1>1. ASSUME DiskInv, LoadInv, [SaveNext]_allvars, NEW t \in Task, Fails(t, "load"),
             preset[t].asyncLoad, ~(preset[t].split /\ work.unrecorded)
      PROVE  ~GoodFile(request[t].slot)
  <2>1. told'[t] = "failure" /\ told[t] = "nothing" /\ request[t].kind = "load"
    BY <1>1 DEF Fails
  <2>2. \/ FinishTold(FALSE)
           /\ (SaverBegins \/ LoaderBegins \/ LoaderChecksMap \/ LoaderTicks \/ LoaderEnds)
        \/ FinishTold(TRUE) /\ (SaverWrote \/ SaverTicks \/ LoaderApplies \/ LoaderEnds)
    BY <1>1, <2>1, TellingSteps
  <2>3. t = me /\ mine = request[t]
    BY <1>1, <2>1, <2>2, CallFinishes DEF mine
  <2>4. ~FinishTold(TRUE)
    BY <1>1, <2>1, <2>3, CallFinishes
  <2>5. FinishTold(FALSE) /\ (LoaderBegins \/ LoaderChecksMap \/ LoaderTicks)
    <3>1. ~LoaderEnds
      BY <1>1, <2>3, <2>4 DEF LoaderEnds, SplitFrame
    <3>2. QED
      BY <2>1, <2>2, <2>3, <2>4, <3>1 DEF SaverBegins, Calling
  <2>6. /\ tasks # <<>> /\ me = Head(tasks) /\ mine.slot \in Slot /\ slotOfHead = mine.slot
    BY <1>1, <2>5, RunningTask DEF FinishTold, Finish, Function, Request, mine, slotOfHead
  <2>7. ~(GoOn /\ FinishTold(FALSE)) /\ ~(Stay /\ FinishTold(FALSE))
    BY <1>1, CallValues
       DEF GoOn, Stay, Return, FinishTold, Finish, NoCall, DiskInv, IInv, TypeOK, Call,
       Function, vars
  <2>8. CASE LoaderBegins
    <3>1. Nothing \in InfosIn(file[mine.slot])
      BY <2>5, <2>7, <2>8 DEF LoaderBegins
    <3>2. file[mine.slot] \notin Save
      BY <3>1, SaveSystemAssumption DEF InfosIn
    <3>3. QED
      BY <2>3, <3>2 DEF GoodFile
  <2>9. CASE FileTaskIsDone /\ work.data = Nothing /\ work.info # Nothing
    BY <1>1, <2>3, <2>6, <2>9 DEF GoodFile, LoadInv, LoadedInv, FileTaskIsDone
  <2>10. ASSUME LoaderChecksMap \/ LoaderTicks,
               ~(FileTaskIsDone /\ work.data = Nothing /\ work.info # Nothing)
        PROVE  work.info # Nothing /\ ~MapExists(work.info.map)
    <3>1. work.info # Nothing
      BY <1>1, <2>6, <2>10, RunningTask DEF LoaderChecksMap, LoaderTicks, Calling, Function,
         DiskInv, StageInv, SaverAtWork
    <3>2. ~WhenDataLoaded /\ ~(FileTaskIsDone /\ StartDeserialization)
      BY <2>5, <2>7, <2>10, <3>1 DEF WhenDataLoaded, StartDeserialization
    <3>3. QED
      BY <2>5, <2>7, <2>10, <3>1, <3>2 DEF LoaderChecksMap, LoaderTicks
  <2>11. ASSUME work.info # Nothing, ~MapExists(work.info.map)
         PROVE  ~GoodFile(request[t].slot)
    <3>1. work.info.map = LostMap
      BY <1>1, <2>11 DEF MapExists, DiskInv, SaveTypeOK, Work, Save
    <3>2. QED
      BY <1>1, <2>3, <2>6, <2>11, <3>1 DEF GoodFile, LoadInv, LoadedInv
  <2>12. QED
    BY <2>5, <2>8, <2>9, <2>10, <2>11
<1>2. DiskInv /\ LoadInv /\ [SaveNext]_allvars =>
        [\A t \in Task : Fails(t, "load") /\ preset[t].asyncLoad
            => \/ ~GoodFile(request[t].slot)
               \/ preset[t].split /\ work.unrecorded]_allvars
  BY <1>1
<1>3. QED
  BY <1>2, DiskInvariant, LoaderInvariant, PTL DEF SaveSafety, LoadsFailForCause

=============================================================================
