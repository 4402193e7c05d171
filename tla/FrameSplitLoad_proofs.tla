------------------------ MODULE FrameSplitLoad_proofs ------------------------
(***************************************************************************)
(* Proofs about FrameSplitLoad, for any number of sublevels and any set of *)
(* actors: a load that ends with success is complete, and it sets back no  *)
(* actor twice that the time limit did not make it.                        *)
(***************************************************************************)
EXTENDS FrameSplitLoad, FiniteSetTheorems, TLAPS

LEMMA LevelFacts ==
    /\ Level \subseteq Int /\ Sublevel \subseteq Level
    /\ 0 \in Level /\ NotStarted \notin Level
    /\ \A l \in Level \cup {NotStarted} : l \in Int /\ -1 <= l /\ l <= Sublevels
    /\ \A a \in Actor : LevelOf[a] \in Level /\ LevelOf[a] \in Nat
BY LoadAssumption DEF Level, Sublevel, NotStarted

(* What is copied of a level: a sequence of its actors, each once. *)
LEMMA CopyOfLevel ==
    ASSUME NEW l, NEW s \in Orders(Alive(l))
    PROVE  /\ s \in Seq(Actor)
           /\ \A i \in DOMAIN s : LevelOf[s[i]] = l
           /\ \A i, j \in DOMAIN s : s[i] = s[j] => i = j
           /\ \A a \in Actor : LevelOf[a] = l /\ status[a] = "alive"
                                  => \E i \in DOMAIN s : s[i] = a
<1> DEFINE S == Alive(l)
<1>1. S \subseteq Actor /\ IsFiniteSet(S)
  BY LoadAssumption, FS_Subset DEF Alive
<1>2. Cardinality(S) \in Nat
  BY <1>1, FS_CardinalityType
<1>3. s \in [1 .. Cardinality(S) -> S]
  BY DEF Orders
<1>4. s \in Seq(S)
  BY <1>2, <1>3
<1>5. \A i \in DOMAIN s : s[i] \in S
  BY <1>3
<1> HIDE DEF S
<1>6. s \in Seq(Actor)
  BY <1>1, <1>4
<1>7. QED
  BY <1>5, <1>6 DEF Orders, Alive, S

-----------------------------------------------------------------------------
(* The invariant when a level begins, in OnStart or after another level:   *)
(* what was due in the levels before is restored, and nothing else is.     *)

LEMMA LevelBegins ==
    ASSUME LoadIInv, result = "none", ~overflow,
           NEW l \in Level, HasRecord(l), DeserializeLevelASync(l),
           UNCHANGED <<task, world, restored, repeated, cut, passedOver>>,
           due' \subseteq Actor,
           \A a \in due' : status[a] # "unborn",
           \A a \in due' : status[a] = "alive" /\ LevelOf[a] < l => a \in restored,
           \A a \in restored : LevelOf[a] < l,
           task = "world" => due' \cap Ignored = {},
           task = "level" => \A a \in due' : LevelOf[a] = l
    PROVE  LoadIInv'
<1> USE LevelFacts
<1>1. /\ current' = l /\ valid' = TRUE /\ index' = 1
      /\ actors' \in Orders(Alive(l))
      /\ inLoop' = TRUE /\ used' = FALSE
      /\ UNCHANGED <<result, overflow>>
  BY DEF DeserializeLevelASync, Restart, outcome
<1>2. /\ actors' \in Seq(Actor)
      /\ \A i \in DOMAIN actors' : LevelOf[actors'[i]] = l
      /\ \A i, j \in DOMAIN actors' : actors'[i] = actors'[j] => i = j
      /\ \A a \in Actor : LevelOf[a] = l /\ status[a] = "alive"
                             => \E i \in DOMAIN actors' : actors'[i] = a
  BY <1>1, CopyOfLevel
<1>3. LoadTypeOK'
  <2>1. valid' \in BOOLEAN /\ inLoop' \in BOOLEAN /\ used' \in BOOLEAN
    BY <1>1, Zenon
  <2>2. QED
    BY <1>1, <1>2, <2>1 DEF LoadIInv, LoadTypeOK, world
<1>4. StartInv'
  BY <1>1 DEF StartInv, Loading
<1>5. CopyInv'
  BY <1>1, <1>2 DEF CopyInv
<1>6. RestoredInv'
  BY <1>1 DEF LoadIInv, RestoredInv
<1>7. DueInv'
  <2>1. ASSUME NEW a \in due', status[a] = "alive"
        PROVE  Progress(a)'
    <3>1. a \in Actor /\ LevelOf[a] \in Int /\ l \in Int
      BY <2>1, LoadAssumption
    <3>2. CASE LevelOf[a] = l
      <4>1. PICK i \in DOMAIN actors' : actors'[i] = a
        BY <1>2, <2>1, <3>1, <3>2
      <4>2. i \in Nat /\ i >= 1
        BY <1>2
      <4>3. QED
        BY <1>1, <4>1, <4>2 DEF Progress
    <3>3. CASE LevelOf[a] # l
      BY <1>1, <2>1, <3>1, <3>3 DEF Progress
    <3>4. QED
      BY <3>2, <3>3
  <2>2. QED
    BY <1>1, <2>1 DEF DueInv, world
<1>8. LoadIsComplete'
  BY <1>1 DEF LoadIsComplete
<1>9. QED
  BY <1>3, <1>4, <1>5, <1>6, <1>7, <1>8 DEF LoadIInv

(* When a load ends with a failure, or is abandoned. *)
LEMMA LoadFails ==
    ASSUME LoadIInv, FinishWith("failure"),
           UNCHANGED <<task, world, due, restored, repeated, cut, passedOver>>
    PROVE  LoadIInv'
<1>1. /\ UNCHANGED <<current, valid, actors, index, used, overflow>>
      /\ inLoop' = FALSE /\ inLoop' \in BOOLEAN /\ result' = "failure"
  BY Zenon DEF FinishWith
<1> USE <1>1
<1>2. LoadTypeOK'
  BY DEF LoadIInv, LoadTypeOK, world
<1>3. StartInv' /\ CopyInv' /\ RestoredInv' /\ LoadIsComplete'
  BY DEF LoadIInv, StartInv, CopyInv, RestoredInv, LoadIsComplete
<1>4. DueInv'
  BY DEF LoadIInv, DueInv, Progress, world
<1>5. QED
  BY <1>2, <1>3, <1>4 DEF LoadIInv

-----------------------------------------------------------------------------
(* The steps of a task.                                                    *)

LEMMA StartWorldKeeps == LoadIInv /\ StartWorld => LoadIInv'
<1> SUFFICES ASSUME LoadIInv, StartWorld PROVE LoadIInv'
  OBVIOUS
<1> USE LevelFacts
<1>1. HasRecord(0) /\ DeserializeLevelASync(0)
  BY DEF StartWorld, HasRecord
<1>2. result = "none" /\ ~overflow
  BY DEF StartWorld, Loading
<1>3. due = {} /\ restored = {}
  BY DEF LoadIInv, StartInv, StartWorld
<1>4. /\ due' \subseteq Actor /\ due' \cap Ignored = {}
      /\ \A a \in due' : status[a] = "alive" /\ ~(LevelOf[a] < 0)
  BY LoadAssumption DEF StartWorld
<1>5. QED
  BY <1>1, <1>2, <1>3, <1>4, LevelBegins DEF StartWorld

LEMMA StartLevelKeeps == LoadIInv /\ StartLevel => LoadIInv'
<1> SUFFICES ASSUME LoadIInv, StartLevel PROVE LoadIInv'
  OBVIOUS
<1> USE LevelFacts
<1>1. PICK l \in Sublevel :
         IF l \in loaded /\ HasRecord(l)
         THEN DeserializeLevelASync(l) /\ due' = Alive(l)
         ELSE FinishWith("failure") /\ due' = {}
  BY DEF StartLevel
<1>2. due = {} /\ restored = {}
  BY DEF LoadIInv, StartInv, StartLevel
<1>3. CASE l \in loaded /\ HasRecord(l)
  <2>1. /\ due' \subseteq Actor
        /\ \A a \in due' : status[a] = "alive" /\ LevelOf[a] = l
    BY <1>1, <1>3 DEF Alive
  <2>2. /\ task = "level" /\ result = "none" /\ ~overflow /\ l \in Level
        /\ UNCHANGED <<task, world, restored, repeated, cut, passedOver>>
    BY DEF StartLevel, Loading
  <2>3. /\ \A a \in due' : status[a] # "unborn"
        /\ \A a \in due' : status[a] = "alive" /\ LevelOf[a] < l => a \in restored
    BY <2>1, <2>2
  <2>4. QED
    BY <1>1, <1>2, <1>3, <2>1, <2>2, <2>3, LevelBegins
<1>4. CASE ~(l \in loaded /\ HasRecord(l))
  BY <1>1, <1>2, <1>4, LoadFails DEF StartLevel
<1>5. QED
  BY <1>3, <1>4

LEMMA NextActorKeeps == LoadIInv /\ NextActor => LoadIInv'
<1> SUFFICES ASSUME LoadIInv, NextActor PROVE LoadIInv'
  OBVIOUS
<1> USE LevelFacts
<1> DEFINE a == actors[index]
<1>1. /\ inLoop /\ current # NotStarted /\ valid /\ Loading
      /\ index \in DOMAIN actors /\ index \in Nat \ {0} /\ a \in Actor /\ LevelOf[a] = current
      /\ UNCHANGED <<task, current, valid, actors, result, overflow>>
      /\ UNCHANGED <<recorded, loaded, held, status, due, passedOver>>
  BY DEF NextActor, LoadIInv, LoadTypeOK, StartInv, CopyInv, outcome, world
<1>2. \/ /\ Restores(a) /\ restored' = restored \cup {a}
         /\ repeated' = IF a \in restored THEN repeated \cup {a} ELSE repeated
         /\ \/ /\ index' = index + 1 /\ used' = TRUE
               /\ UNCHANGED <<inLoop, cut>>
            \/ /\ inLoop' = FALSE /\ cut' = cut \cup {a}
               /\ UNCHANGED <<index, used>>
      \/ /\ ~Restores(a) /\ index' = index + 1
         /\ UNCHANGED <<inLoop, used, restored, repeated, cut>>
  BY DEF NextActor
<1> HIDE DEF a
<1>3. /\ index' \in {index, index + 1} /\ restored \subseteq restored'
      /\ restored' \subseteq restored \cup {a} /\ cut \subseteq cut'
      /\ index' = index + 1 /\ Restores(a) => a \in restored'
      /\ index' = index + 1 \/ (index' = index /\ a \in cut')
      /\ repeated' \subseteq repeated \cup {a} /\ cut' \subseteq cut \cup {a}
  BY <1>2
<1>4. LoadTypeOK'
  <2>1. inLoop' \in BOOLEAN /\ used' \in BOOLEAN
    BY <1>2, Zenon DEF LoadIInv, LoadTypeOK
  <2>2. restored' \subseteq Actor /\ repeated' \subseteq Actor /\ cut' \subseteq Actor
    BY <1>1, <1>3 DEF LoadIInv, LoadTypeOK
  <2>3. index' \in Nat \ {0}
    BY <1>1, <1>3
  <2>4. QED
    BY <1>1, <2>1, <2>2, <2>3 DEF LoadIInv, LoadTypeOK
<1>5. StartInv'
  BY <1>1, <1>2 DEF LoadIInv, StartInv, Loading
<1>6. CopyInv'
  BY <1>1 DEF LoadIInv, CopyInv
<1>7. RestoredInv'
  <2>1. a \in restored => a \in cut
    <3>1. SUFFICES ASSUME a \in restored PROVE a \in cut
      OBVIOUS
    <3>2. PICK i \in DOMAIN actors : actors[i] = a /\ (i < index \/ (i = index /\ a \in cut))
      BY <1>1, <3>1 DEF LoadIInv, RestoredInv
    <3>3. i = index
      BY <1>1, <3>2 DEF LoadIInv, CopyInv, a
    <3>4. QED
      BY <1>1, <3>2, <3>3
  <2>2. ASSUME NEW b \in restored'
        PROVE  \/ LevelOf[b] < current'
               \/ \E i \in DOMAIN actors' :
                     actors'[i] = b /\ (i < index' \/ (i = index' /\ b \in cut'))
    <3>1. CASE b = a
      <4>1. actors[index] = a /\ (index < index' \/ (index = index' /\ a \in cut'))
        <5>1. actors[index] = a /\ index < index + 1
          BY <1>1 DEF a
        <5>2. QED
          BY <1>3, <5>1
      <4>2. QED
        BY <1>1, <3>1, <4>1
    <3>2. CASE b # a
      <4>1. b \in restored
        BY <1>3, <2>2, <3>2
      <4>2. ASSUME NEW i \in DOMAIN actors, actors[i] = b,
                   i < index \/ (i = index /\ b \in cut)
            PROVE  i < index' \/ (i = index' /\ b \in cut')
        <5>1. i # index
          BY <3>2, <4>2 DEF a
        <5>2. i \in Nat
          BY DEF LoadIInv, LoadTypeOK
        <5>3. QED
          BY <1>1, <1>3, <4>2, <5>1, <5>2
      <4>3. QED
        BY <1>1, <4>1, <4>2 DEF LoadIInv, RestoredInv
    <3>3. QED
      BY <3>1, <3>2
  <2>3. repeated' \subseteq cut'
    BY <1>2, <1>3, <2>1 DEF LoadIInv, RestoredInv
  <2>4. QED
    BY <2>2, <2>3 DEF RestoredInv
<1>8. DueInv'
  <2>1. ASSUME NEW b \in due, status[b] = "alive"
        PROVE  Progress(b)'
    <3>1. Progress(b)
      BY <2>1 DEF LoadIInv, DueInv
    <3>2. CASE LevelOf[b] < current \/ LevelOf[b] > current
      BY <1>1, <1>3, <3>1, <3>2 DEF Progress, LoadIInv, LoadTypeOK, CopyInv
    <3>3. ASSUME NEW i \in DOMAIN actors, actors[i] = b, i < index => b \in restored
          PROVE  i < index' => b \in restored'
      <4>1. CASE i = index
        <5>1. b = a
          BY <3>3, <4>1 DEF a
        <5>2. Restores(a)
          BY <2>1, <5>1, <1>1 DEF Restores, LoadIInv, LoadTypeOK, DueInv
        <5>3. QED
          BY <1>1, <1>3, <4>1, <5>1, <5>2
      <4>2. CASE i # index
        <5>1. i \in Nat
          BY DEF LoadIInv, LoadTypeOK
        <5>2. QED
          BY <1>1, <1>3, <3>3, <4>2, <5>1
      <4>3. QED
        BY <4>1, <4>2
    <3>4. QED
      BY <1>1, <3>1, <3>2, <3>3 DEF Progress
  <2>2. QED
    BY <1>1, <2>1 DEF LoadIInv, DueInv
<1>9. LoadIsComplete'
  BY <1>1 DEF LoadIsComplete, Loading
<1>10. QED
  BY <1>4, <1>5, <1>6, <1>7, <1>8, <1>9 DEF LoadIInv

(* After its loop a level has no actor left to restore. *)
LEMMA LevelIsDone ==
    ASSUME LoadIInv, inLoop, index > Len(actors)
    PROVE  /\ current \in Level /\ valid /\ Loading
           /\ \A a \in restored : LevelOf[a] <= current
           /\ \A a \in due : status[a] = "alive" /\ LevelOf[a] <= current => a \in restored
<1> USE LevelFacts
<1>1. current \in Level /\ valid /\ Loading
  BY DEF LoadIInv, LoadTypeOK, StartInv
<1>2. \A i \in DOMAIN actors : i \in Nat /\ i < index /\ LevelOf[actors[i]] = current
  BY DEF LoadIInv, LoadTypeOK, CopyInv
<1>3. ASSUME NEW a \in restored PROVE LevelOf[a] <= current
  BY <1>1, <1>2 DEF LoadIInv, LoadTypeOK, RestoredInv
<1>4. ASSUME NEW a \in due, status[a] = "alive", LevelOf[a] <= current PROVE a \in restored
  <2>1. Progress(a)
    BY <1>4 DEF LoadIInv, DueInv
  <2>2. ~(LevelOf[a] > current)
    BY <1>1, <1>4 DEF LoadIInv, LoadTypeOK
  <2>3. QED
    BY <1>2, <2>1, <2>2 DEF Progress
<1>5. QED
  BY <1>1, <1>3, <1>4

(* FinishedDeserializing, or FindNextAsyncLevel that does not return. *)
LEMMA LoadStops ==
    ASSUME LoadIInv, inLoop' = FALSE,
           UNCHANGED <<task, current, valid, actors, index, used, world>>,
           UNCHANGED <<due, restored, repeated, cut>>,
           result' \in {"none", "success", "failure"},
           overflow' \in BOOLEAN, passedOver' \in BOOLEAN,
           result' = "success" /\ ~passedOver' =>
              \A a \in due : status[a] = "alive" => a \in restored
    PROVE  LoadIInv'
<1>1. inLoop' \in BOOLEAN
  BY Zenon
<1>2. LoadTypeOK'
  BY <1>1 DEF LoadIInv, LoadTypeOK, world
<1>3. StartInv' /\ CopyInv' /\ RestoredInv'
  BY DEF LoadIInv, StartInv, CopyInv, RestoredInv
<1>4. DueInv'
  BY DEF LoadIInv, DueInv, Progress, world
<1>5. LoadIsComplete'
  BY DEF LoadIsComplete, world
<1>6. QED
  BY <1>2, <1>3, <1>4, <1>5 DEF LoadIInv

LEMMA LevelDoneKeeps == LoadIInv /\ LevelDone => LoadIInv'
<1> SUFFICES ASSUME LoadIInv, LevelDone PROVE LoadIInv'
  OBVIOUS
<1> USE LevelFacts
<1>1. /\ current \in Level /\ valid /\ Loading
      /\ \A a \in restored : LevelOf[a] <= current
      /\ \A a \in due : status[a] = "alive" /\ LevelOf[a] <= current => a \in restored
  BY LevelIsDone DEF LevelDone
<1>2. UNCHANGED <<task, world, due, restored, repeated, cut>>
  BY DEF LevelDone
<1>3. /\ due \subseteq Actor /\ restored \subseteq Actor
      /\ passedOver \in BOOLEAN /\ overflow \in BOOLEAN /\ task \in {"world", "level"}
      /\ result \in {"none", "success", "failure"}
  BY DEF LoadIInv, LoadTypeOK
<1>4. CASE /\ task = "level" \/ ~valid \/ NextLevel \notin Sublevel
           /\ FinishWith("success") /\ UNCHANGED passedOver
  <2>1. ASSUME NEW a \in due PROVE LevelOf[a] <= current
    <3>1. CASE task = "level"
      <4>1. LevelOf[a] = current /\ current \in Nat
        BY <1>3, <2>1, <3>1 DEF LoadIInv, DueInv
      <4>2. QED
        BY <4>1
    <3>2. CASE NextLevel \notin Sublevel
      <4>1. current = Sublevels
        BY <1>1, <3>2, LoadAssumption DEF NextLevel, Sublevel, Level
      <4>2. QED
        BY <1>3, <4>1
    <3>3. QED
      BY <1>1, <1>4, <3>1, <3>2
  <2>2. \A a \in due : status[a] = "alive" => a \in restored
    BY <1>1, <2>1
  <2>3. /\ inLoop' = FALSE /\ result' = "success"
        /\ UNCHANGED <<current, valid, actors, index, used, overflow, passedOver>>
    BY <1>4, Zenon DEF FinishWith
  <2>4. passedOver' \in BOOLEAN /\ overflow' \in BOOLEAN
    BY <1>3, <2>3
  <2>5. QED
    BY <1>2, <2>2, <2>3, <2>4, LoadStops
<1>5. CASE task # "level" /\ NextLevel \in loaded /\ DeserializeLevelASync(NextLevel) /\ UNCHANGED passedOver
  <2>1. NextLevel \in Level /\ NextLevel = current + 1
    BY <1>5 DEF NextLevel, LoadIInv, LoadTypeOK
  <2>2. CASE HasRecord(NextLevel)
    <3>1. /\ \A a \in due : status[a] = "alive" /\ LevelOf[a] < NextLevel => a \in restored
          /\ \A a \in restored : LevelOf[a] < NextLevel
      BY <1>1, <1>3, <2>1
    <3>2. /\ \A a \in due' : status[a] # "unborn"
          /\ task = "world" => due' \cap Ignored = {}
          /\ due' = due
      BY <1>2 DEF LoadIInv, DueInv
    <3>3. result = "none" /\ ~overflow
      BY <1>1 DEF Loading
    <3>4. QED
      BY <1>2, <1>3, <1>5, <2>1, <2>2, <3>1, <3>2, <3>3, LevelBegins
  <2>3. CASE ~HasRecord(NextLevel)
    BY <1>2, <1>5, <2>3, LoadFails DEF DeserializeLevelASync
  <2>4. QED
    BY <2>2, <2>3
<1>6. CASE FinishWith("success") /\ passedOver' = TRUE
  <2>1. /\ inLoop' = FALSE /\ result' = "success" /\ passedOver' \in BOOLEAN
        /\ UNCHANGED <<current, valid, actors, index, used, overflow>>
    BY <1>6, Zenon DEF FinishWith
  <2>2. overflow' \in BOOLEAN
    BY <1>3, <2>1
  <2>3. QED
    BY <1>2, <1>6, <2>1, <2>2, LoadStops
<1>7. CASE /\ overflow' = TRUE /\ inLoop' = FALSE
           /\ UNCHANGED <<current, valid, actors, index, used, result, passedOver>>
  <2>1. overflow' \in BOOLEAN
    BY <1>7, Zenon
  <2>2. result' = "none"
    BY <1>1, <1>7 DEF Loading
  <2>3. QED
    BY <1>2, <1>3, <1>7, <2>1, <2>2, LoadStops
<1>8. QED
  BY <1>4, <1>5, <1>6, <1>7 DEF LevelDone

LEMMA TickKeeps == LoadIInv /\ Tick => LoadIInv'
<1> SUFFICES ASSUME LoadIInv, Tick PROVE LoadIInv'
  OBVIOUS
<1>1. /\ inLoop' = TRUE /\ used' = FALSE
      /\ UNCHANGED <<task, current, valid, actors, index, result, overflow>>
      /\ UNCHANGED <<recorded, loaded, held, status, due, restored, repeated, cut, passedOver>>
  BY DEF Tick, outcome, world, history
<1>2. inLoop' \in BOOLEAN /\ used' \in BOOLEAN
  BY <1>1, Zenon
<1>3. LoadTypeOK'
  BY <1>1, <1>2 DEF LoadIInv, LoadTypeOK
<1>4. StartInv' /\ CopyInv' /\ RestoredInv'
  BY <1>1 DEF LoadIInv, StartInv, CopyInv, RestoredInv, Tick, Loading
<1>5. DueInv' /\ LoadIsComplete'
  BY <1>1 DEF LoadIInv, DueInv, Progress, LoadIsComplete
<1>6. QED
  BY <1>3, <1>4, <1>5 DEF LoadIInv

-----------------------------------------------------------------------------
(* The game and the engine: actors may die, new ones are born.             *)

LEMMA GameKeeps == LoadIInv /\ GameRuns => LoadIInv'
<1> SUFFICES ASSUME LoadIInv, GameRuns PROVE LoadIInv'
  OBVIOUS
<1> USE LevelFacts
<1>1. /\ Loading
      /\ UNCHANGED <<task, current, actors, index, inLoop, used, result, overflow>>
      /\ UNCHANGED <<recorded, due, restored, repeated, cut, passedOver>>
  BY DEF GameRuns, Destroy, Spawn, LoadLevel, UnloadLevel, CollectGarbage, loop, outcome, history
<1>2. /\ loaded' \subseteq held' /\ held' \subseteq Sublevel
      /\ valid' \in BOOLEAN /\ (valid' = valid \/ ~inLoop)
  <2>1. CASE \E a \in Actor : Destroy(a) \/ Spawn(a)
    BY <2>1 DEF Destroy, Spawn, loop, LoadIInv, LoadTypeOK
  <2>2. CASE \E l \in Sublevel : LoadLevel(l)
    BY <2>2 DEF LoadLevel, loop, LoadIInv, LoadTypeOK
  <2>3. CASE \E l \in Sublevel : UnloadLevel(l)
    BY <2>3 DEF UnloadLevel, loop, LoadIInv, LoadTypeOK
  <2>4. CASE \E l \in Sublevel : CollectGarbage(l)
    BY <2>4 DEF CollectGarbage, LoadIInv, LoadTypeOK
  <2>5. QED
    BY <2>1, <2>2, <2>3, <2>4 DEF GameRuns
<1>3. /\ status' \in [Actor -> {"unborn", "alive", "dead"}]
      /\ \A a \in Actor : status[a] # "unborn" =>
            status'[a] # "unborn" /\ (status'[a] = "alive" => status[a] = "alive")
  <2>1. CASE \E a \in Actor : Destroy(a) \/ Spawn(a)
    BY <2>1 DEF Destroy, Spawn, LoadIInv, LoadTypeOK
  <2>2. CASE \E l \in Sublevel : LoadLevel(l)
    BY <2>2 DEF LoadLevel, LoadIInv, LoadTypeOK
  <2>3. CASE \E l \in Sublevel : UnloadLevel(l)
    BY <2>3 DEF UnloadLevel, LoadIInv, LoadTypeOK
  <2>4. CASE \E l \in Sublevel : CollectGarbage(l)
    BY <2>4 DEF CollectGarbage, LoadIInv, LoadTypeOK
  <2>5. QED
    BY <2>1, <2>2, <2>3, <2>4 DEF GameRuns
<1>4. LoadTypeOK'
  BY <1>1, <1>2, <1>3 DEF LoadIInv, LoadTypeOK
<1>5. StartInv' /\ CopyInv' /\ RestoredInv'
  BY <1>1, <1>2 DEF LoadIInv, StartInv, CopyInv, RestoredInv, Loading
<1>6. DueInv'
  BY <1>1, <1>3 DEF LoadIInv, LoadTypeOK, DueInv, Progress
<1>7. LoadIsComplete'
  BY <1>1 DEF LoadIsComplete, Loading
<1>8. QED
  BY <1>4, <1>5, <1>6, <1>7 DEF LoadIInv

-----------------------------------------------------------------------------
(* The theorems.                                                           *)

LEMMA LoadInitOK == LoadInit => LoadIInv
<1> SUFFICES ASSUME LoadInit PROVE LoadIInv
  OBVIOUS
<1>1. LoadTypeOK
  <2>1. valid \in BOOLEAN /\ inLoop \in BOOLEAN /\ used \in BOOLEAN
        /\ overflow \in BOOLEAN /\ passedOver \in BOOLEAN
    BY Zenon DEF LoadInit
  <2>2. QED
    BY <2>1 DEF LoadInit, LoadTypeOK
<1>2. StartInv /\ CopyInv /\ RestoredInv /\ DueInv /\ LoadIsComplete
  BY DEF LoadInit, StartInv, CopyInv, RestoredInv, DueInv, LoadIsComplete
<1>3. QED
  BY <1>1, <1>2 DEF LoadIInv

(* The strengthening is an invariant of every load, frame by frame. *)
THEOREM LoadInvariant == LoadSafety => []LoadIInv
<1>1. LoadIInv /\ [LoadNext]_vars => LoadIInv'
  <2>1. LoadIInv /\ UNCHANGED vars => LoadIInv'
    BY DEF vars, loop, outcome, world, history, LoadIInv, LoadTypeOK, StartInv, Loading,
           CopyInv, RestoredInv, DueInv, Progress, LoadIsComplete
  <2>2. QED
    BY <2>1, StartWorldKeeps, StartLevelKeeps, NextActorKeeps, LevelDoneKeeps,
       TickKeeps, GameKeeps DEF LoadNext, TaskRuns
<1>2. QED
  BY <1>1, LoadInitOK, PTL DEF LoadSafety

(* A frame-split load that reports success has restored every actor that   *)
(* was there from its beginning to its end, in every level, unless the     *)
(* first sublevel was away at its turn.                                    *)
THEOREM SuccessIsComplete == LoadSafety => []LoadIsComplete
<1>1. LoadIInv => LoadIsComplete
  BY DEF LoadIInv
<1>2. QED
  BY <1>1, LoadInvariant, PTL

(* DeserializeASyncLoop restores no actor twice but those at which it      *)
(* returned for the next frame.                                            *)
THEOREM NoActorIsSetBack == LoadSafety => []OnlyCutActorsRepeat
<1>1. LoadIInv => OnlyCutActorsRepeat
  BY DEF LoadIInv, RestoredInv, OnlyCutActorsRepeat
<1>2. QED
  BY <1>1, LoadInvariant, PTL
=============================================================================
