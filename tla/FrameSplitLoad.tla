--------------------------- MODULE FrameSplitLoad ---------------------------
(***************************************************************************)
(* The frame-split loads.  USlotDataTask_Loader restores the actors of the *)
(* persistent level, then those of each streamed sublevel;                 *)
(* USlotDataTask_LevelLoader those of one sublevel.  Either looks at one   *)
(* actor after the other until MaxFrameMs are over, and leaves the rest to *)
(* the next frame.  Between two frames actors come and go, and so do       *)
(* levels.                                                                 *)
(*                                                                         *)
(* SaveSystem has the frames of a Loader as LoaderPauses and LoaderEnds,   *)
(* and leaves open what they restore.  One behaviour here is one load,     *)
(* from OnStart (LevelLoader) or the call of DeserializeASync (Loader) to  *)
(* Finish.                                                                 *)
(***************************************************************************)
EXTENDS Integers, Sequences, FiniteSets

CONSTANTS
    Sublevels,      \* the number of streaming levels of the world
    Actor,          \* the actors there may be, before and after a reload
    LevelOf,        \* the level of each: 0 is the persistent level
    Ignored,        \* the actors the filter of their level leaves out
    Slow            \* the actors that take MaxFrameMs and more to restore

(* Sublevel n is entry n-1 of World->GetStreamingLevels(). *)
Sublevel == 1 .. Sublevels
Level == 0 .. Sublevels
NotStarted == -1

ASSUME LoadAssumption ==
    /\ Sublevels \in Nat
    /\ IsFiniteSet(Actor)
    /\ LevelOf \in [Actor -> Level]
    /\ Ignored \subseteq Actor /\ Slow \subseteq Actor

VARIABLES
    task,           \* "world" for a Loader, "level" for a LevelLoader
    current,        \* the level at work: CurrentLevel, CurrentSLevel
    valid,          \* CurrentLevel.IsValid(): its ULevel is the one begun with
    actors,         \* CurrentLevelActors
    index,          \* CurrentActorIndex, counted from 1
    inLoop,         \* in DeserializeASyncLoop, called by OnStart or Tick
    used,           \* this call has restored an actor: its time runs
    result,         \* how Finish was called
    overflow,       \* FindNextAsyncLevel calls itself without end
    recorded,       \* the sublevels with a record in SlotData
    loaded,         \* the sublevels with IsLevelLoaded()
    held,           \* those whose ULevel is not yet garbage collected
    status,         \* of each actor
    due,            \* history: the actors there when the load began
    restored,       \* history: the actors that were given their state back
    repeated,       \* history: those that were given it more than once
    cut,            \* history: those at which the time of a frame ran out
    passedOver      \* history: the first sublevel was not there at its turn

loop == <<current, valid, actors, index, inLoop, used>>
outcome == <<result, overflow>>
world == <<recorded, loaded, held, status>>
history == <<due, restored, repeated, cut, passedOver>>
vars == <<task, loop, outcome, world, history>>

LoadTypeOK ==
    /\ task \in {"world", "level"}
    /\ current \in Level \cup {NotStarted}
    /\ valid \in BOOLEAN
    /\ actors \in Seq(Actor)
    /\ index \in Nat \ {0}
    /\ inLoop \in BOOLEAN
    /\ used \in BOOLEAN
    /\ result \in {"none", "success", "failure"}
    /\ overflow \in BOOLEAN
    /\ recorded \subseteq Sublevel
    /\ loaded \subseteq held
    /\ held \subseteq Sublevel
    /\ status \in [Actor -> {"unborn", "alive", "dead"}]
    /\ due \subseteq Actor /\ restored \subseteq Actor
    /\ repeated \subseteq Actor /\ cut \subseteq Actor
    /\ passedOver \in BOOLEAN

Loading == result = "none" /\ ~overflow
Alive(l) == {a \in Actor : LevelOf[a] = l /\ status[a] = "alive"}
HasRecord(l) == l = 0 \/ l \in recorded

(* The world as PrepareAllLevels leaves it. *)
LoadInit ==
    /\ task \in {"world", "level"}
    /\ current = NotStarted /\ valid = FALSE
    /\ actors = <<>> /\ index = 1
    /\ inLoop = FALSE /\ used = FALSE
    /\ result = "none" /\ overflow = FALSE
    /\ recorded \in SUBSET Sublevel
    /\ loaded \in SUBSET Sublevel /\ held = loaded
    /\ status \in [Actor -> {"unborn", "alive"}]
    /\ \A a \in Actor : status[a] = "alive" => LevelOf[a] \in loaded \cup {0}
    /\ due = {} /\ restored = {} /\ repeated = {} /\ cut = {}
    /\ passedOver = FALSE

-----------------------------------------------------------------------------
(* The code of the tasks.                                                  *)

(* The actors of S in the order of an array, whichever it is. *)
Orders(S) ==
    {s \in [1 .. Cardinality(S) -> S] :
        /\ \A a \in S : \E i \in DOMAIN s : s[i] = a
        /\ \A i, j \in DOMAIN s : s[i] = s[j] => i = j}

FinishWith(r) ==
    /\ result' = r
    /\ inLoop' = FALSE
    /\ UNCHANGED <<current, valid, actors, index, used, overflow>>

(* Mutant of Restart: the index is not reset. *)
RestartKeepsIndex(l) == index' = index /\ actors' \in Orders(Alive(l))

(* A level begins with its first actor; new actors won't be considered. *)
Restart(l) == index' = 1 /\ actors' \in Orders(Alive(l))

(* DeserializeLevelASync: with a record, the loop starts anew, and so does *)
(* its time.                                                               *)
DeserializeLevelASync(l) ==
    IF HasRecord(l)
    THEN /\ current' = l /\ valid' = TRUE
         /\ Restart(l)
         /\ inLoop' = TRUE /\ used' = FALSE
         /\ UNCHANGED outcome
    ELSE FinishWith("failure")

(* USlotDataTask_Loader::DeserializeASync. *)
StartWorld ==
    /\ task = "world" /\ current = NotStarted /\ Loading
    /\ DeserializeLevelASync(0)
    /\ due' = {a \in Actor : status[a] = "alive"} \ Ignored
    /\ UNCHANGED <<task, world, restored, repeated, cut, passedOver>>

(* USlotDataTask_LevelLoader::OnStart. *)
StartLevel ==
    /\ task = "level" /\ current = NotStarted /\ Loading
    /\ \E l \in Sublevel :
          IF l \in loaded /\ HasRecord(l)
          THEN DeserializeLevelASync(l) /\ due' = Alive(l)
          ELSE FinishWith("failure") /\ due' = {}
    /\ UNCHANGED <<task, world, restored, repeated, cut, passedOver>>

(* Whether the loop restores an actor: a Loader asks the filter first.     *)
(* A copied pointer to an actor that was destroyed is null.                *)
Restores(a) == status[a] = "alive" /\ (task = "level" \/ a \notin Ignored)

(* Mutant of OutOfTime: the time of the first actor is not waited for. *)
OutOfTimeEarly(a) == a \in Actor

(* An actor alone stays within the time of a frame, unless it is slow. *)
OutOfTime(a) == used \/ a \in Slow

(* One turn of the loop of DeserializeASyncLoop.  When the time is over, it *)
(* returns before the index moves on.                                      *)
NextActor ==
    /\ inLoop /\ index <= Len(actors)
    /\ LET a == actors[index] IN
       IF Restores(a)
       THEN /\ restored' = restored \cup {a}
            /\ repeated' = IF a \in restored THEN repeated \cup {a} ELSE repeated
            /\ \/ /\ a \notin Slow
                  /\ index' = index + 1 /\ used' = TRUE
                  /\ UNCHANGED <<inLoop, cut>>
               \/ /\ OutOfTime(a)
                  /\ inLoop' = FALSE /\ cut' = cut \cup {a}
                  /\ UNCHANGED <<index, used>>
       ELSE index' = index + 1 /\ UNCHANGED <<inLoop, used, restored, repeated, cut>>
    /\ UNCHANGED <<task, current, valid, actors, outcome, world, due, passedOver>>

(* Mutants of NextLevel: the same sublevel again, the one after the next. *)
NextLevelStays == IF current = 0 THEN 1 ELSE current
NextLevelSkips == current + 2

(* FindNextAsyncLevel: the entry after that of CurrentSLevel, which is null *)
(* for the persistent level.                                               *)
NextLevel == current + 1

(* What follows the loop.  A LevelLoader is done.  A Loader goes on with    *)
(* the next level; the first sublevel is taken as it is, and one that is    *)
(* not loaded ends the load; for a later one that is not loaded             *)
(* FindNextAsyncLevel calls itself and finds the same one again.           *)
LevelDone ==
    /\ inLoop /\ index > Len(actors)
    /\ IF task = "level" \/ ~valid \/ NextLevel \notin Sublevel
       THEN FinishWith("success") /\ UNCHANGED passedOver
       ELSE \/ /\ NextLevel \in loaded
               /\ DeserializeLevelASync(NextLevel)
               /\ UNCHANGED passedOver
            \/ /\ NextLevel \notin loaded /\ current = 0
               /\ FinishWith("success")
               /\ passedOver' = TRUE
            \/ /\ NextLevel \notin loaded /\ current # 0
               /\ overflow' = TRUE /\ inLoop' = FALSE
               /\ UNCHANGED <<current, valid, actors, index, used, result, passedOver>>
    /\ UNCHANGED <<task, world, due, restored, repeated, cut>>

(* USlotDataTask_Loader::Tick, which a LevelLoader inherits: LoadState is   *)
(* Deserializing in a Loader only.                                         *)
Tick ==
    /\ task = "world" /\ current # NotStarted
    /\ Loading /\ ~inLoop
    /\ valid
    /\ inLoop' = TRUE /\ used' = FALSE
    /\ UNCHANGED <<task, current, valid, actors, index, outcome, world, history>>

-----------------------------------------------------------------------------
(* The game and the engine.                                                *)

(* Actors are destroyed and spawned at any time, also by what the restored  *)
(* ones set off.                                                           *)
Destroy(a) ==
    /\ Loading /\ status[a] = "alive"
    /\ status' = [status EXCEPT ![a] = "dead"]
    /\ UNCHANGED <<task, loop, outcome, recorded, loaded, held, history>>

Spawn(a) ==
    /\ Loading /\ status[a] = "unborn"
    /\ LevelOf[a] \in loaded \cup {0}
    /\ status' = [status EXCEPT ![a] = "alive"]
    /\ UNCHANGED <<task, loop, outcome, recorded, loaded, held, history>>

(* Levels are loaded and unloaded between frames.  A level that was         *)
(* unloaded can be loaded again once its objects are collected, with new    *)
(* actors.                                                                 *)
LoadLevel(l) ==
    /\ Loading /\ ~inLoop /\ l \notin held
    /\ loaded' = loaded \cup {l}
    /\ held' = held \cup {l}
    /\ \E S \in SUBSET {a \in Actor : LevelOf[a] = l /\ status[a] = "unborn"} :
          status' = [a \in Actor |-> IF a \in S THEN "alive" ELSE status[a]]
    /\ UNCHANGED <<task, loop, outcome, recorded, history>>

UnloadLevel(l) ==
    /\ Loading /\ ~inLoop /\ l \in loaded
    /\ loaded' = loaded \ {l}
    /\ UNCHANGED <<task, loop, outcome, recorded, held, status, history>>

CollectGarbage(l) ==
    /\ Loading /\ ~inLoop /\ l \in held \ loaded
    /\ held' = held \ {l}
    /\ status' = [a \in Actor |-> IF LevelOf[a] = l /\ status[a] = "alive"
                                 THEN "dead" ELSE status[a]]
    /\ valid' = (valid /\ current # l)
    /\ UNCHANGED <<task, current, actors, index, inLoop, used, outcome, recorded, loaded, history>>

GameRuns ==
    \/ \E a \in Actor : Destroy(a) \/ Spawn(a)
    \/ \E l \in Sublevel : LoadLevel(l) \/ UnloadLevel(l) \/ CollectGarbage(l)

TaskRuns == StartWorld \/ StartLevel \/ NextActor \/ LevelDone

LoadNext == TaskRuns \/ Tick \/ GameRuns

LoadSafety == LoadInit /\ [][LoadNext]_vars

(* A call goes on until it returns; the engine ticks the manager. *)
LoadFairness == WF_vars(TaskRuns) /\ WF_vars(Tick)
LoadSpec == LoadSafety /\ LoadFairness

-----------------------------------------------------------------------------
(* Properties.                                                             *)

(* A load that says it succeeded has restored every actor that was there    *)
(* when it began and still is, whatever came, went or was reloaded          *)
(* meanwhile, unless the first sublevel was away when the persistent level  *)
(* was done: FinishedDeserializing is reached past all levels.             *)
LoadIsComplete ==
    result = "success" /\ ~passedOver =>
        \A a \in due : status[a] = "alive" => a \in restored

(* Once an actor has its state back, the game goes on with it, and the load *)
(* does not set it back again, except where the time of a frame ran out:    *)
(* there DeserializeASyncLoop returns before CurrentActorIndex moves on.    *)
OnlyCutActorsRepeat == repeated \subseteq cut

(* The ways a load is left hanging: FindNextAsyncLevel does not return; the  *)
(* level at work is gone, and Tick waits for it; a LevelLoader was cut, and *)
(* Tick does not go on with it; an actor alone takes the time of a frame,   *)
(* and is restored in every frame.                                         *)
LevelIsGone == current # NotStarted /\ ~valid
LevelLoadIsCut == task = "level" /\ cut # {} /\ ~inLoop
AtSlowActor == index <= Len(actors) /\ actors[index] \in cut \cap Slow

(* Every load ends, or it is left in one of the ways above: nothing else    *)
(* that happens between frames keeps DeserializeASyncLoop from its end.     *)
LoadEnds ==
    <>(result # "none" \/ overflow \/ LevelIsGone \/ LevelLoadIsCut \/ AtSlowActor)

(* FindNextAsyncLevel, of a level that is not loaded: "If this level is     *)
(* unloaded, find next".                                                   *)
NextLevelIsFound == ~overflow

-----------------------------------------------------------------------------
(* Why the two invariants hold.                                            *)

(* Before anything was begun nothing was done; the loop runs on a level     *)
(* that is there.                                                          *)
StartInv ==
    /\ current = NotStarted => due = {} /\ restored = {}
    /\ inLoop => current # NotStarted /\ valid /\ Loading

(* CurrentLevelActors holds actors of the level, each of them once.         *)
CopyInv ==
    /\ \A i \in DOMAIN actors : LevelOf[actors[i]] = current
    /\ \A i, j \in DOMAIN actors : actors[i] = actors[j] => i = j

(* Restored are actors of the levels before, and those before the index;    *)
(* the one at the index if the time ran out there.                         *)
RestoredInv ==
    /\ \A a \in restored :
          \/ LevelOf[a] < current
          \/ \E i \in DOMAIN actors :
                actors[i] = a /\ (i < index \/ (i = index /\ a \in cut))
    /\ repeated \subseteq cut

(* No actor of the levels before is left, nor one before the index.         *)
Progress(a) ==
    \/ LevelOf[a] < current /\ a \in restored
    \/ LevelOf[a] > current
    \/ \E i \in DOMAIN actors : actors[i] = a /\ (i < index => a \in restored)

DueInv ==
    /\ \A a \in due : status[a] # "unborn"
    /\ \A a \in due : status[a] = "alive" => Progress(a)
    /\ task = "world" => due \cap Ignored = {}
    /\ task = "level" => \A a \in due : LevelOf[a] = current

LoadIInv == LoadTypeOK /\ StartInv /\ CopyInv /\ RestoredInv /\ DueInv /\ LoadIsComplete

=============================================================================
