-------------------------- MODULE WorldRecords_proofs --------------------------
(***************************************************************************)
(* That a save gives every actor of the world to one task, that the game   *)
(* instance is stored whole unless tasks of several levels run at once,    *)
(* that the file holds the actors the filter lets through, and that a load *)
(* brings them back: for any levels, actors, filters, and numbers of       *)
(* threads.                                                                *)
(*                                                                         *)
(* First the shares (SharesIInv), then what the tasks make of them, by     *)
(* induction over the actors and over the tasks, and then the way of the   *)
(* records into the file and back (LoadIInv).                              *)
(***************************************************************************)
EXTENDS WorldRecords, FiniteSetTheorems, FunctionTheorems, TLAPS

(* That a variable of a group stays is said by naming the group. *)
USE DEF worldVars, saveVars, fileVars

LEMMA SeqIsASeq ==
    ASSUME NEW S, NEW s \in Seq(S)
    PROVE  IsASeq(s) /\ Len(s) \in Nat /\ DOMAIN s = 1..Len(s)
<1> DEFINE T == {s[i] : i \in DOMAIN s}
<1>1. Len(s) \in Nat /\ DOMAIN s = 1..Len(s) /\ s \in [1..Len(s) -> S]
  OBVIOUS
<1>2. s \in [1..Len(s) -> T]
  BY <1>1
<1>3. s \in Seq(T)
  BY <1>1, <1>2
<1> QED
  BY <1>1, <1>3 DEF IsASeq

LEMMA LenOfASeq ==
    ASSUME NEW s, IsASeq(s)
    PROVE  Len(s) \in Nat /\ DOMAIN s = 1..Len(s)
BY SeqIsASeq DEF IsASeq

LEMMA MapIsASeq ==
    ASSUME NEW s, IsASeq(s), NEW f, f = [i \in DOMAIN s |-> f[i]]
    PROVE  IsASeq(f) /\ Len(f) = Len(s)
<1> DEFINE T == {f[i] : i \in DOMAIN s}
<1>1. Len(s) \in Nat /\ DOMAIN s = 1..Len(s)
  BY LenOfASeq
<1>2. f \in [1..Len(s) -> T]
  BY <1>1
<1>3. f \in Seq(T) /\ Len(f) = Len(s)
  BY <1>1, <1>2
<1> QED
  BY <1>3, SeqIsASeq

LEMMA AppendIsASeq ==
    ASSUME NEW s, IsASeq(s), NEW e
    PROVE  IsASeq(Append(s, e)) /\ Len(Append(s, e)) > 0
<1> DEFINE T == {s[i] : i \in DOMAIN s} \cup {e}
<1>1. s \in Seq({s[i] : i \in DOMAIN s})
  BY DEF IsASeq
<1>2. s \in Seq(T)
  <2>1. Len(s) \in Nat /\ DOMAIN s = 1..Len(s)
    BY LenOfASeq
  <2>2. s \in [1..Len(s) -> T]
    BY <1>1, <2>1
  <2> QED
    BY <2>1, <2>2
<1> HIDE DEF T
<1>3. e \in T
  BY DEF T
<1>4. Append(s, e) \in Seq(T) /\ Len(Append(s, e)) = Len(s) + 1 /\ Len(s) \in Nat
  BY <1>2, <1>3
<1>5. IsASeq(Append(s, e))
  BY <1>4, SeqIsASeq
<1> QED
  BY <1>4, <1>5

(* What the world may become in a step. *)
LEMMA WorldKeeps ==
    ASSUME DOMAIN world = LevelSet, \A l \in LevelSet : IsASeq(world[l]),
           Len(world[Levels[1]]) > 0, Levels[1] \in LevelSet,
           DOMAIN world' = LevelSet,
           \A l \in LevelSet :
              \/ world'[l] = world[l]
              \/ world'[l] = [i \in DOMAIN world[l] |-> world'[l][i]]
              \/ \E e : world'[l] = Append(world[l], e)
    PROVE  (\A l \in LevelSet : IsASeq(world'[l])) /\ Len(world'[Levels[1]]) > 0
<1>1. ASSUME NEW l \in LevelSet
      PROVE  IsASeq(world'[l]) /\ (Len(world[l]) > 0 => Len(world'[l]) > 0)
  <2>0. IsASeq(world[l])
    OBVIOUS
  <2>1. CASE world'[l] = world[l]
    BY <2>0, <2>1
  <2>2. CASE world'[l] = [i \in DOMAIN world[l] |-> world'[l][i]]
    BY <2>0, <2>2, MapIsASeq
  <2>3. CASE \E e : world'[l] = Append(world[l], e)
    BY <2>0, <2>3, AppendIsASeq
  <2> QED
    BY <2>1, <2>2, <2>3
<1> QED
  BY <1>1
-----------------------------------------------------------------------------
(* A task that takes the next actors of its level. *)
LEMMA TilesGrow ==
    ASSUME NEW shares \in Seq(Task), NEW l, NEW c \in Nat, NEW task \in Task,
           Tiled(shares, l, c), task.level = l, task.start = c
    PROVE  Tiled(Append(shares, task), l, c + task.num)
<1> DEFINE more == Append(shares, task)
           last == Len(shares) + 1
           d == c + task.num
<1>1. /\ last \in DOMAIN more /\ more[last] = task
      /\ \A t \in DOMAIN shares : more[t] = shares[t] /\ t \in DOMAIN more /\ t # last
      /\ \A t \in DOMAIN more : t \in DOMAIN shares \/ t = last
  OBVIOUS
<1>0. /\ d = c + task.num /\ task.num \in Nat /\ task.start \in Nat
      /\ \A t \in DOMAIN shares : shares[t].start \in Nat /\ shares[t].num \in Nat
  <2>1. \A x \in Task : x.start \in Nat /\ x.num \in Nat
    BY DEF Task
  <2>2. \A t \in DOMAIN shares : shares[t] \in Task
    OBVIOUS
  <2> QED
    BY <2>1, <2>2
<1> HIDE DEF more, last, d
<1>2. ASSUME NEW t \in DOMAIN more, more[t].level = l
      PROVE  more[t].start + more[t].num <= d
  <2>1. CASE t = last
    BY <2>1, <1>0, <1>1
  <2>2. CASE t \in DOMAIN shares
    <3>1. shares[t].start + shares[t].num <= c
      BY <2>2, <1>1, <1>2 DEF Tiled
    <3> QED
      BY <3>1, <2>2, <1>0, <1>1
  <2> QED
    BY <2>1, <2>2, <1>1
<1>3. ASSUME NEW i \in 0..(d - 1)
      PROVE  \E t \in DOMAIN more :
                /\ Covers(more[t], l, i)
                /\ \A u \in DOMAIN more : Covers(more[u], l, i) => u = t
  <2>0. i \in Nat /\ i < d
    BY <1>0
  <2>1. CASE i < c
    <3>1. i \in 0..(c - 1)
      BY <2>0, <2>1
    <3>2. PICK t \in DOMAIN shares :
            /\ Covers(shares[t], l, i)
            /\ \A u \in DOMAIN shares : Covers(shares[u], l, i) => u = t
      BY <3>1 DEF Tiled
    <3>3. Covers(more[t], l, i) /\ t \in DOMAIN more
      BY <3>2, <1>1
    <3>4. ~Covers(more[last], l, i)
      BY <2>1, <1>1, <2>0 DEF Covers
    <3>5. \A u \in DOMAIN more : Covers(more[u], l, i) => u = t
      BY <3>2, <3>4, <1>1
    <3> QED
      BY <3>3, <3>5
  <2>2. CASE ~(i < c)
    <3>1. Covers(more[last], l, i) /\ last \in DOMAIN more
      BY <2>0, <2>2, <1>0, <1>1 DEF Covers
    <3>2. ASSUME NEW u \in DOMAIN shares
          PROVE  ~Covers(more[u], l, i)
      <4>1. shares[u].level = l => shares[u].start + shares[u].num <= c
        BY DEF Tiled
      <4> QED
        BY <4>1, <2>0, <2>2, <1>0, <1>1 DEF Covers
    <3> QED
      BY <3>1, <3>2, <1>1
  <2> QED
    BY <2>1, <2>2
<1>4. Tiled(more, l, d)
  BY <1>2, <1>3 DEF Tiled
<1> QED
  BY <1>4 DEF more, d

(* A task of another level. *)
LEMMA TilesStay ==
    ASSUME NEW shares \in Seq(Task), NEW l, NEW c \in Nat, NEW task \in Task,
           Tiled(shares, l, c), task.level # l
    PROVE  Tiled(Append(shares, task), l, c)
<1> DEFINE more == Append(shares, task)
           last == Len(shares) + 1
<1>1. /\ more[last] = task
      /\ \A t \in DOMAIN shares : more[t] = shares[t] /\ t \in DOMAIN more
      /\ \A t \in DOMAIN more : t \in DOMAIN shares \/ t = last
  OBVIOUS
<1> HIDE DEF more, last
<1>2. \A t \in DOMAIN more : more[t].level = l => t \in DOMAIN shares
  BY <1>1
<1>3. \A t \in DOMAIN more : more[t].level = l => more[t].start + more[t].num <= c
  BY <1>1, <1>2 DEF Tiled
<1>4. ASSUME NEW i \in 0..(c - 1)
      PROVE  \E t \in DOMAIN more :
                /\ Covers(more[t], l, i)
                /\ \A u \in DOMAIN more : Covers(more[u], l, i) => u = t
  <2>1. PICK t \in DOMAIN shares :
            /\ Covers(shares[t], l, i)
            /\ \A u \in DOMAIN shares : Covers(shares[u], l, i) => u = t
    BY DEF Tiled
  <2>2. \A u \in DOMAIN more : Covers(more[u], l, i) => u \in DOMAIN shares
    BY <1>2 DEF Covers
  <2> QED
    BY <2>1, <2>2, <1>1
<1> QED
  BY <1>3, <1>4 DEF Tiled, more

(* Shares of at least one actor, and never more than there are. *)
LEMMA ShareSize ==
    ASSUME NEW count \in Nat, index \in Nat, index < count, mt \in BOOLEAN
    PROVE  NumToSerialize(count) \in Nat \ {0} /\ index + NumToSerialize(count) <= count
<1> USE WorldRecordsAssumption
<1>1. NumTasksPerLevel \in Nat \ {0}
  <2> DEFINE n == Len(Levels)
             rounded == (2 * Threads + n) \div (2 * n)
  <2>1. n \in Nat /\ n > 0
    OBVIOUS
  <2>2. 2 * Threads + n \in Nat /\ 2 * n \in Nat /\ 2 * n > 0
    BY <2>1
  <2>3. rounded \in Int
    <3> HIDE DEF n
    <3>1. \A a \in Nat, b \in Nat : b > 0 => a \div b \in Int
      OBVIOUS
    <3> QED
      BY <2>2, <3>1
  <2> QED
    BY <2>3, Z3 DEF NumTasksPerLevel
<1>2. NumPerTask(count) \in Nat \ {0}
  <2> DEFINE n == NumTasksPerLevel
             balanced == (count + n - 1) \div n
  <2>1. n \in Nat /\ n > 0 /\ count + n - 1 \in Nat
    BY <1>1
  <2>2. balanced \in Int
    <3> HIDE DEF n
    <3>1. \A a \in Nat, b \in Nat : b > 0 => a \div b \in Int
      OBVIOUS
    <3> QED
      BY <2>1, <3>1
  <2>3. MinObjectsPerTask \in Nat \ {0}
    OBVIOUS
  <2> HIDE DEF n, balanced
  <2>4. NumPerTask(count) = IF balanced < MinObjectsPerTask THEN MinObjectsPerTask ELSE balanced
    BY DEF NumPerTask, balanced, n
  <2> QED
    BY <2>2, <2>3, <2>4
<1> QED
  BY <1>2 DEF NumToSerialize
-----------------------------------------------------------------------------
LEMMA KnownLevels ==
    /\ 1 \in DOMAIN Levels /\ Levels[1] \in LevelSet
    /\ DOMAIN Levels = 1..Len(Levels) /\ Len(Levels) \in Nat
    /\ \A n \in DOMAIN Levels : Levels[n] \in LevelSet
    /\ \A l \in LevelSet : \E n \in DOMAIN Levels : l = Levels[n]
BY WorldRecordsAssumption DEF LevelSet

(* The actors of a map that was just opened. *)
LEMMA OpenedWorld ==
    ASSUME NEW known, loaded \subseteq LevelSet, Levels[1] \in loaded
    PROVE  /\ DOMAIN Opened(known) = LevelSet
           /\ \A l \in LevelSet : IsASeq(Opened(known)[l])
           /\ Len(Opened(known)[Levels[1]]) > 0
<1> USE KnownLevels
<1>1. ASSUME NEW l \in LevelSet
      PROVE  IsASeq(StartWorld[l]) /\ (l = Levels[1] => Len(StartWorld[l]) > 0)
  <2>1. StartWorld[l] \in Seq(Actor \cup {NoActor})
    BY WorldRecordsAssumption
  <2>2. l = Levels[1] => StartWorld[l] # <<>>
    BY WorldRecordsAssumption
  <2> HIDE DEF Actor
  <2> QED
    BY <2>1, <2>2, SeqIsASeq
<1>2. ASSUME NEW l \in LevelSet
      PROVE  /\ IsASeq(Opened(known)[l])
             /\ l = Levels[1] => Len(Opened(known)[l]) > 0
  <2>1. CASE l \notin loaded
    <3>1. Opened(known)[l] = <<>>
      BY <2>1 DEF Opened
    <3>2. <<>> \in Seq({})
      OBVIOUS
    <3> QED
      BY <2>1, <3>1, <3>2, SeqIsASeq
  <2>2. CASE l \in loaded
    <3> DEFINE f == Opened(known)[l]
    <3>1. f = [i \in DOMAIN StartWorld[l] |->
                IF StartWorld[l][i] # NoActor /\ StartWorld[l][i].class \in known
                THEN StartWorld[l][i] ELSE NoActor]
      BY <2>2 DEF Opened
    <3> HIDE DEF f
    <3>2. f = [i \in DOMAIN StartWorld[l] |-> f[i]]
      BY <3>1
    <3>3. IsASeq(f) /\ Len(f) = Len(StartWorld[l])
      BY <1>1, <3>2, MapIsASeq
    <3> QED
      BY <1>1, <3>3 DEF f
  <2> QED
    BY <2>1, <2>2
<1> QED
  BY <1>2 DEF Opened

LEMMA InitSharesIInv == Init => SharesIInv
<1> SUFFICES ASSUME Init
             PROVE  SharesIInv
  OBVIOUS
<1>1. loaded \subseteq LevelSet /\ Levels[1] \in loaded /\ world = Opened(Class)
  BY DEF Init
<1>2. TypeInv
  <2>1. tasks \in Seq(Task)
    BY DEF Init
  <2> QED
    BY <1>1, <2>1, OpenedWorld, KnownLevels DEF Init, TypeInv
<1>3. SplitInv /\ SharesInv /\ RunInv /\ StoredInv
  BY DEF Init, SplitInv, SharesInv, RunInv, StoredInv
<1> QED
  BY <1>2, <1>3 DEF SharesIInv

(* While nothing is cut or run there is nothing to keep but the world. *)
LEMMA IdleKeeps ==
    ASSUME SharesIInv,
           phase' \in {"play", "prepare", "respawn", "restore", "loaded", "broken"},
           at' \in DOMAIN Levels, UNCHANGED <<mt, loaded>>,
           index' \in Nat, tasks' \in Seq(Task), gameInstance' \in {"old", "stored", "torn"},
           DOMAIN world' = LevelSet, \A l \in LevelSet : IsASeq(world'[l]),
           Len(world'[Levels[1]]) > 0
    PROVE  SharesIInv'
<1>1. mt' \in BOOLEAN
  BY DEF SharesIInv, TypeInv
<1>2. TypeInv'
  BY <1>1 DEF SharesIInv, TypeInv
<1>3. SplitInv' /\ SharesInv' /\ RunInv' /\ StoredInv'
  BY DEF SplitInv, SharesInv, RunInv, StoredInv
<1> QED
  BY <1>2, <1>3 DEF SharesIInv

(* The game and the loads. *)
LEMMA LoadsKeepSharesIInv ==
    ASSUME SharesIInv, Game \/ Load \/ Restart
    PROVE  SharesIInv'
<1> USE KnownLevels
<1>0. /\ at \in DOMAIN Levels /\ loaded \subseteq LevelSet /\ Levels[1] \in loaded
      /\ DOMAIN world = LevelSet /\ \A l \in LevelSet : IsASeq(world[l])
      /\ Len(world[Levels[1]]) > 0
      /\ index \in Nat /\ tasks \in Seq(Task) /\ gameInstance \in {"old", "stored", "torn"}
  BY DEF SharesIInv, TypeInv
<1>1. ASSUME NEW l \in LevelSet, NEW n \in Name, NEW c \in Class, Spawn(l, n, c)
      PROVE  SharesIInv'
  <2>1. DOMAIN world' = LevelSet
    BY <1>0, <1>1 DEF Spawn
  <2>2. \A k \in LevelSet : world'[k] = world[k] \/ \E e : world'[k] = Append(world[k], e)
    BY <1>0, <1>1 DEF Spawn
  <2>3. (\A k \in LevelSet : IsASeq(world'[k])) /\ Len(world'[Levels[1]]) > 0
    BY <1>0, <2>1, <2>2, WorldKeeps
  <2> QED
    BY <1>0, <1>1, <2>1, <2>3, IdleKeeps DEF Spawn, Play
<1>2. ASSUME NEW l \in LevelSet, NEW i \in DOMAIN world[l], DestroyActor(l, i)
      PROVE  SharesIInv'
  <2>1. DOMAIN world' = LevelSet
    BY <1>0, <1>2 DEF DestroyActor
  <2>2. \A k \in LevelSet : world'[k] = world[k]
                            \/ world'[k] = [j \in DOMAIN world[k] |-> world'[k][j]]
    BY <1>0, <1>2 DEF DestroyActor
  <2>3. (\A k \in LevelSet : IsASeq(world'[k])) /\ Len(world'[Levels[1]]) > 0
    BY <1>0, <2>1, <2>2, WorldKeeps
  <2> QED
    BY <1>0, <1>2, <2>1, <2>3, IdleKeeps DEF DestroyActor, Play
<1>3. ASSUME NEW l \in LevelSet, NEW i \in DOMAIN world[l],
             NEW v \in Value, NEW ref \in Path \cup {None}, Change(l, i, v, ref)
      PROVE  SharesIInv'
  <2>1. DOMAIN world' = LevelSet
    BY <1>0, <1>3 DEF Change
  <2>2. \A k \in LevelSet : world'[k] = world[k]
                            \/ world'[k] = [j \in DOMAIN world[k] |-> world'[k][j]]
    BY <1>0, <1>3 DEF Change
  <2>3. (\A k \in LevelSet : IsASeq(world'[k])) /\ Len(world'[Levels[1]]) > 0
    BY <1>0, <2>1, <2>2, WorldKeeps
  <2> QED
    BY <1>0, <1>3, <2>1, <2>3, IdleKeeps DEF Change, Play
<1>4. CASE CollectGarbage
  <2>1. DOMAIN world' = LevelSet
    BY <1>4 DEF CollectGarbage
  <2>2. \A k \in LevelSet : world'[k] = [j \in DOMAIN world[k] |-> world'[k][j]]
    BY <1>4 DEF CollectGarbage
  <2>3. (\A k \in LevelSet : IsASeq(world'[k])) /\ Len(world'[Levels[1]]) > 0
    BY <1>0, <2>1, <2>2, WorldKeeps
  <2> QED
    BY <1>0, <1>4, <2>1, <2>3, IdleKeeps DEF CollectGarbage
<1>5. ASSUME NEW gone, Reopen(gone)
      PROVE  SharesIInv'
  <2>1. world' = Opened(classes')
    BY <1>5 DEF Reopen
  <2>2. /\ DOMAIN world' = LevelSet /\ \A l \in LevelSet : IsASeq(world'[l])
        /\ Len(world'[Levels[1]]) > 0
    BY <1>0, <2>1, OpenedWorld
  <2> QED
    BY <1>0, <1>5, <2>2, IdleKeeps DEF Reopen, Play
<1>6. CASE StartLoad
  BY <1>0, <1>6, IdleKeeps DEF StartLoad
<1>7. CASE PrepareLevel
  <2>1. DOMAIN world' = LevelSet
    BY <1>0, <1>7 DEF PrepareLevel
  <2>2. \A k \in LevelSet : world'[k] = world[k]
                            \/ world'[k] = [j \in DOMAIN world[k] |-> world'[k][j]]
    BY <1>0, <1>7 DEF PrepareLevel
  <2>3. (\A k \in LevelSet : IsASeq(world'[k])) /\ Len(world'[Levels[1]]) > 0
    BY <1>0, <2>1, <2>2, WorldKeeps
  <2> QED
    BY <1>0, <1>7, <2>1, <2>3, IdleKeeps DEF PrepareLevel
<1>8. ASSUME NEW k \in toSpawn, NEW n, RespawnActor(k, n)
      PROVE  SharesIInv'
  <2>1. DOMAIN world' = LevelSet
    BY <1>0, <1>8 DEF RespawnActor
  <2>2. \A l \in LevelSet : world'[l] = world[l] \/ \E e : world'[l] = Append(world[l], e)
    BY <1>0, <1>8 DEF RespawnActor
  <2>3. (\A l \in LevelSet : IsASeq(world'[l])) /\ Len(world'[Levels[1]]) > 0
    BY <1>0, <2>1, <2>2, WorldKeeps
  <2>4. /\ phase' = "respawn" /\ UNCHANGED <<at, mt, loaded, saveVars>>
    BY <1>8 DEF RespawnActor
  <2> QED
    BY <1>0, <2>1, <2>3, <2>4, IdleKeeps
<1>9. ASSUME NEW k \in toSpawn, RespawnFails(k)
      PROVE  SharesIInv'
  BY <1>0, <1>9, IdleKeeps DEF RespawnFails
<1>10. CASE PrepareNextLevel
  BY <1>0, <1>10, IdleKeeps DEF PrepareNextLevel, NextLevels
<1>11. CASE RestoreLevel
  <2>1. DOMAIN world' = LevelSet
    BY <1>0, <1>11 DEF RestoreLevel
  <2>2. \A k \in LevelSet : world'[k] = world[k]
                            \/ world'[k] = [j \in DOMAIN world[k] |-> world'[k][j]]
    BY <1>0, <1>11 DEF RestoreLevel
  <2>3. (\A k \in LevelSet : IsASeq(world'[k])) /\ Len(world'[Levels[1]]) > 0
    BY <1>0, <2>1, <2>2, WorldKeeps
  <2>4. at' \in DOMAIN Levels /\ phase' \in {"restore", "loaded"}
    BY <1>0, <1>11 DEF RestoreLevel, NextLevels
  <2> QED
    BY <1>0, <1>11, <2>1, <2>3, <2>4, IdleKeeps DEF RestoreLevel
<1>12. CASE Restart
  <2>1. world' = Opened(classes)
    BY <1>12 DEF Restart
  <2>2. /\ DOMAIN world' = LevelSet /\ \A l \in LevelSet : IsASeq(world'[l])
        /\ Len(world'[Levels[1]]) > 0
    BY <1>0, <2>1, OpenedWorld
  <2> QED
    BY <1>0, <1>12, <2>2, IdleKeeps DEF Restart
<1> QED
  BY <1>1, <1>2, <1>3, <1>4, <1>5, <1>6, <1>7, <1>8, <1>9, <1>10, <1>11, <1>12 DEF Game, Load
-----------------------------------------------------------------------------
(* The steps of a save that leave the world and the game instance alone,   *)
(* up to the start of the tasks.                                           *)
LEMMA StartSaveKeeps ==
    ASSUME SharesIInv, StartSave
    PROVE  SharesIInv'
<1> USE KnownLevels
<1>0. /\ loaded \subseteq LevelSet /\ Levels[1] \in loaded
      /\ \A l \in LevelSet : IsASeq(world[l])
  BY DEF SharesIInv, TypeInv
<1>1. /\ phase' = "split" /\ at' = 1 /\ index' = 0 /\ tasks' = <<>> /\ gameInstance' = "old"
      /\ UNCHANGED <<mt, loaded, world>>
  BY DEF StartSave
<1>2. TypeInv'
  <2>1. tasks' \in Seq(Task)
    BY <1>1
  <2> QED
    BY <1>1, <2>1 DEF SharesIInv, TypeInv
<1>3. SplitInv'
  <2>1. Len(world[Levels[1]]) \in Nat /\ Level' = Levels[1]
    BY <1>0, <1>1, LenOfASeq DEF Level
  <2>2. \A n \in DOMAIN Levels : Shared(n)' = 0
    <3>1. \A n \in DOMAIN Levels : ~(n < 1)
      OBVIOUS
    <3> QED
      BY <1>1, <3>1 DEF Shared
  <2>3. ASSUME NEW l
        PROVE  Tiled(tasks', l, 0)
    BY <1>1 DEF Tiled
  <2> QED
    BY <1>0, <1>1, <2>1, <2>2, <2>3 DEF SplitInv
<1>4. SharesInv' /\ RunInv' /\ StoredInv'
  BY <1>1 DEF SharesInv, RunInv, StoredInv
<1> QED
  BY <1>2, <1>3, <1>4 DEF SharesIInv

LEMMA AddTaskKeeps ==
    ASSUME SharesIInv, AddTask
    PROVE  SharesIInv'
<1> USE KnownLevels
<1> DEFINE count == Len(world[Level])
           size == NumToSerialize(count)
<1>0. /\ at \in DOMAIN Levels /\ loaded \subseteq LevelSet /\ \A l \in LevelSet : IsASeq(world[l])
      /\ index \in Nat /\ tasks \in Seq(Task) /\ mt \in BOOLEAN
  BY DEF SharesIInv, TypeInv
<1>1. /\ phase = "split" /\ phase' = "split" /\ index < count
      /\ tasks' = Append(tasks, Share(count)) /\ index' = index + size
      /\ UNCHANGED <<at, mt, loaded, world, gameInstance, bStoreGameInstance>>
  BY DEF AddTask
<1>2. count \in Nat /\ Level \in loaded /\ Level \in LevelSet
  BY <1>0, <1>1, LenOfASeq DEF SharesIInv, SplitInv, Level
<1>3. size \in Nat \ {0} /\ index + size <= count
  BY <1>0, <1>1, <1>2, ShareSize
<1>4. /\ Share(count) \in Task /\ Share(count).level = Level /\ Share(count).start = index
      /\ Share(count).num = size /\ (Share(count).storeGameInstance <=> index = 0 /\ bStoreGameInstance)
  <2> DEFINE Of(flag) == [level |-> Level, start |-> index, num |-> size,
                          storeGameInstance |-> flag]
  <2>1. Share(count) = Of(index <= 0 /\ bStoreGameInstance)
    BY DEF Share
  <2>2. size \in Nat
    BY <1>3
  <2> HIDE DEF size, count
  <2>3. \A flag \in BOOLEAN : /\ Of(flag) \in Task /\ Of(flag).level = Level
                              /\ Of(flag).start = index /\ Of(flag).num = size
                              /\ Of(flag).storeGameInstance = flag
    BY <1>0, <1>2, <2>2 DEF Task
  <2> HIDE DEF Of
  <2>4. CASE index = 0 /\ bStoreGameInstance
    <3>1. (index <= 0 /\ bStoreGameInstance) = TRUE
      BY <2>4
    <3>2. Share(count) = Of(TRUE)
      BY <2>1, <3>1
    <3> QED
      BY <2>3, <2>4, <3>2
  <2>5. CASE ~(index = 0 /\ bStoreGameInstance)
    <3>1. (index <= 0 /\ bStoreGameInstance) = FALSE
      BY <1>0, <2>5
    <3>2. Share(count) = Of(FALSE)
      BY <2>1, <3>1
    <3> QED
      BY <2>3, <2>5, <3>2
  <2> QED
    BY <2>4, <2>5
<1> HIDE DEF count, size
<1> DEFINE share == Share(count)
<1> HIDE DEF share
<1>5. /\ tasks' = Append(tasks, share) /\ share \in Task /\ share.level = Level
      /\ share.start = index /\ share.num = size /\ (share.storeGameInstance <=> index = 0 /\ bStoreGameInstance)
  BY <1>1, <1>4 DEF share
<1>6. TypeInv'
  <2>1. tasks' \in Seq(Task) /\ index' \in Nat
    BY <1>0, <1>1, <1>3, <1>5
  <2> QED
    BY <1>1, <2>1 DEF SharesIInv, TypeInv
<1>7. SplitInv'
  <2>1. Level' = Level /\ count' = count
    BY <1>1 DEF Level, count
  <2>2. ASSUME NEW n \in DOMAIN Levels, Levels[n] \in loaded
        PROVE  Tiled(tasks', Levels[n], Shared(n)')
    <3>1. Tiled(tasks, Levels[n], Shared(n))
      BY <1>1, <2>2 DEF SharesIInv, SplitInv
    <3>2. CASE n = at
      <4>1. Shared(n) = index /\ Shared(n)' = index + size
        BY <1>0, <1>1, <3>2 DEF Shared
      <4>2. Levels[n] = Level
        BY <3>2 DEF Level
      <4> QED
        BY <1>0, <1>5, <3>1, <4>1, <4>2, TilesGrow
    <3>3. CASE n # at
      <4>1. Shared(n)' = Shared(n) /\ Shared(n) \in Nat
        BY <1>0, <1>1, <3>3, LenOfASeq DEF Shared
      <4>2. Levels[n] # Level
        BY <1>0, <3>3, WorldRecordsAssumption DEF Level
      <4> QED
        BY <1>0, <1>5, <3>1, <4>1, <4>2, TilesStay
    <3> QED
      BY <3>2, <3>3
  <2> QED
    BY <1>1, <1>2, <1>3, <2>1, <2>2 DEF SplitInv, count
<1>8. SharesInv'
  <2>1. \A t \in DOMAIN tasks' : tasks'[t] = share \/ (t \in DOMAIN tasks /\ tasks'[t] = tasks[t])
    BY <1>0, <1>5
  <2>2. \A t \in DOMAIN tasks :
            /\ tasks[t].level \in loaded /\ tasks[t].num > 0
            /\ tasks[t].storeGameInstance <=> tasks[t].start = 0 /\ bStoreGameInstance
    BY <1>1 DEF SharesIInv, SharesInv
  <2> QED
    BY <1>1, <1>2, <1>3, <1>5, <2>1, <2>2 DEF SharesInv
<1>9. RunInv' /\ StoredInv'
  BY <1>1 DEF SharesIInv, RunInv, StoredInv
<1> QED
  BY <1>6, <1>7, <1>8, <1>9 DEF SharesIInv

LEMMA SplitNextLevelKeeps ==
    ASSUME SharesIInv, SplitNextLevel
    PROVE  SharesIInv'
<1> USE KnownLevels
<1>0. /\ at \in DOMAIN Levels /\ loaded \subseteq LevelSet /\ \A l \in LevelSet : IsASeq(world[l])
      /\ index \in Nat /\ tasks \in Seq(Task) /\ mt \in BOOLEAN
  BY DEF SharesIInv, TypeInv
<1>1. /\ phase = "split" /\ phase' = "split" /\ index >= Len(world[Level]) /\ index' = 0
      /\ UNCHANGED <<mt, loaded, world, tasks, gameInstance, bStoreGameInstance>>
  BY DEF SplitNextLevel
<1>2. at' \in DOMAIN Levels /\ IsNext(at')
  BY DEF SplitNextLevel, NextLevels
<1>3. index = Len(world[Level])
  <2>1. Len(world[Level]) \in Nat /\ index <= Len(world[Level])
    BY <1>0, <1>1, LenOfASeq DEF SharesIInv, SplitInv, Level
  <2> QED
    BY <1>0, <1>1, <2>1
<1>4. TypeInv'
  <2>1. index' \in Nat
    BY <1>1
  <2> QED
    BY <1>1, <1>2, <2>1 DEF SharesIInv, TypeInv
<1>5. SplitInv'
  <2>1. Level' = Levels[at'] /\ Level' \in loaded /\ at' > at
    BY <1>2 DEF Level, IsNext
  <2>2. ASSUME NEW n \in DOMAIN Levels, Levels[n] \in loaded
        PROVE  Tiled(tasks, Levels[n], Shared(n)')
    <3>1. Tiled(tasks, Levels[n], Shared(n))
      BY <1>1, <2>2 DEF SharesIInv, SplitInv
    <3>2. ~(at < n /\ n < at')
      BY <1>0, <1>2, <2>2 DEF IsNext
    <3>3. Shared(n)' = Shared(n)
      <4>1. CASE n < at
        BY <1>0, <1>1, <1>2, <2>1, <4>1 DEF Shared
      <4>2. CASE n = at
        BY <1>0, <1>1, <1>2, <1>3, <2>1, <4>2 DEF Shared, Level
      <4>3. CASE n > at
        BY <1>0, <1>1, <1>2, <2>1, <3>2, <4>3 DEF Shared
      <4> QED
        BY <1>0, <4>1, <4>2, <4>3
    <3> QED
      BY <3>1, <3>3
  <2>3. Len(world[Level']) \in Nat
    BY <1>0, <2>1, LenOfASeq
  <2> QED
    BY <1>1, <2>1, <2>2, <2>3 DEF SplitInv
<1>6. SharesInv' /\ RunInv' /\ StoredInv'
  BY <1>1 DEF SharesIInv, SharesInv, RunInv, StoredInv
<1> QED
  BY <1>4, <1>5, <1>6 DEF SharesIInv

LEMMA StartTasksKeeps ==
    ASSUME SharesIInv, StartTasks
    PROVE  SharesIInv'
<1> USE KnownLevels
<1>0. /\ at \in DOMAIN Levels /\ loaded \subseteq LevelSet /\ \A l \in LevelSet : IsASeq(world[l])
      /\ index \in Nat
  BY DEF SharesIInv, TypeInv
<1>1. /\ phase = "split" /\ phase' = "run" /\ index >= Len(world[Level]) /\ IsLast
      /\ job' = [t \in DOMAIN tasks |-> "waiting"]
      /\ UNCHANGED <<at, mt, loaded, world, index, tasks, gameInstance, bStoreGameInstance>>
  BY DEF StartTasks
<1>2. TypeInv'
  BY <1>1 DEF SharesIInv, TypeInv
<1>3. \A l \in loaded : Tiled(tasks, l, Len(world[l]))
  <2> SUFFICES ASSUME NEW l \in loaded
               PROVE  Tiled(tasks, l, Len(world[l]))
    OBVIOUS
  <2>1. PICK n \in DOMAIN Levels : l = Levels[n]
    BY <1>0
  <2>2. Tiled(tasks, l, Shared(n))
    BY <1>1, <2>1 DEF SharesIInv, SplitInv
  <2>3. ~(n > at)
    BY <1>1, <2>1 DEF IsLast
  <2>4. Shared(n) = Len(world[l])
    <3>1. CASE n < at
      BY <2>1, <3>1 DEF Shared
    <3>2. CASE n = at
      <4>1. Len(world[Level]) \in Nat /\ index <= Len(world[Level])
        BY <1>0, <1>1, LenOfASeq DEF SharesIInv, SplitInv, Level
      <4> QED
        BY <1>0, <1>1, <2>1, <3>2, <4>1 DEF Shared, Level
    <3> QED
      BY <1>0, <2>3, <3>1, <3>2
  <2> QED
    BY <2>2, <2>4
<1>4. RunInv'
  BY <1>1, <1>3 DEF RunInv
<1>5. SplitInv' /\ SharesInv' /\ StoredInv'
  BY <1>1 DEF SharesIInv, SplitInv, SharesInv, StoredInv
<1> QED
  BY <1>2, <1>4, <1>5 DEF SharesIInv
-----------------------------------------------------------------------------
LEMMA TaskTypes ==
    ASSUME SharesIInv
    PROVE  /\ DOMAIN tasks = 1..Len(tasks) /\ Len(tasks) \in Nat
           /\ \A t \in DOMAIN tasks : /\ tasks[t].start \in Nat /\ tasks[t].num \in Nat
                                      /\ tasks[t].storeGameInstance \in BOOLEAN
<1>1. tasks \in Seq(Task)
  BY DEF SharesIInv, TypeInv
<1>2. \A x \in Task : x.start \in Nat /\ x.num \in Nat /\ x.storeGameInstance \in BOOLEAN
  BY DEF Task
<1>3. \A t \in DOMAIN tasks : tasks[t] \in Task
  BY <1>1
<1> QED
  BY <1>1, <1>2, <1>3

(* Two tasks that store the game instance, one of them in the middle of    *)
(* it: they are of different levels and run on different threads.          *)
LEMMA TwoWriters ==
    ASSUME SharesIInv, phase = "run",
           NEW t \in DOMAIN tasks, NEW u \in DOMAIN tasks, t # u,
           tasks[t].storeGameInstance, tasks[u].storeGameInstance,
           MayRun(t), MayRun(u), job[t] # "done", job[u] # "done"
    PROVE  mt /\ \E n \in DOMAIN Levels : n > 1 /\ Levels[n] \in loaded
<1> USE KnownLevels
<1>1. mt
  <2>1. t \in 1..Len(tasks) /\ u \in 1..Len(tasks) /\ Len(tasks) \in Nat
    BY TaskTypes
  <2>2. ~mt => t # 1 /\ u # 1 /\ ~(u < t) /\ ~(t < u)
    BY <2>1 DEF MayRun
  <2> QED
    BY <2>1, <2>2
<1>2. ASSUME tasks[t].level = Levels[1], tasks[u].level = Levels[1]
      PROVE  FALSE
  <2>1. \A v \in {t, u} : tasks[v].start = 0 /\ tasks[v].num > 0
    BY DEF SharesIInv, SharesInv
  <2>2. Covers(tasks[t], Levels[1], 0) /\ Covers(tasks[u], Levels[1], 0)
    BY <1>2, <2>1, TaskTypes DEF Covers
  <2>3. 0 \in 0..(Len(world[Levels[1]]) - 1)
    BY LenOfASeq DEF SharesIInv, TypeInv
  <2>4. Tiled(tasks, Levels[1], Len(world[Levels[1]]))
    BY DEF SharesIInv, TypeInv, RunInv
  <2> QED
    BY <2>2, <2>3, <2>4 DEF Tiled
<1>3. \A v \in {t, u} : tasks[v].level \in loaded
  BY DEF SharesIInv, SharesInv
<1>4. PICK l \in loaded : l # Levels[1]
  BY <1>2, <1>3
<1>5. PICK n \in DOMAIN Levels : l = Levels[n]
  BY <1>4 DEF SharesIInv, TypeInv
<1> QED
  BY <1>1, <1>4, <1>5

LEMMA StoreGameInstanceKeeps ==
    ASSUME SharesIInv, NEW t \in DOMAIN job, StoreGameInstance(t)
    PROVE  SharesIInv'
<1>1. /\ phase = "run" /\ phase' = "run" /\ job[t] = "waiting" /\ MayRun(t)
      /\ tasks[t].storeGameInstance /\ job' = [job EXCEPT ![t] = "storing"]
      /\ UNCHANGED <<at, mt, loaded, world, index, tasks, bStoreGameInstance>>
  BY DEF StoreGameInstance
<1>2. gameInstance' = IF \E u \in DOMAIN tasks : job[u] = "storing" THEN "torn" ELSE gameInstance
  BY DEF StoreGameInstance
<1>3. /\ job \in [DOMAIN tasks -> {"waiting", "storing", "done"}]
      /\ \A u \in DOMAIN tasks : job[u] = "storing" => tasks[u].storeGameInstance
      /\ ~mt => \A u \in DOMAIN tasks : job[u] # "waiting" => MayRun(u)
  BY <1>1 DEF SharesIInv, RunInv
<1>4. gameInstance \in {"old", "stored", "torn"} /\ gameInstance' \in {"old", "stored", "torn"}
  BY <1>2 DEF SharesIInv, TypeInv
<1>5. TypeInv'
  BY <1>1, <1>4 DEF SharesIInv, TypeInv
<1>6. SplitInv' /\ SharesInv'
  BY <1>1 DEF SharesIInv, SplitInv, SharesInv
<1>7. RunInv'
  <2>1. ASSUME ~mt, NEW u \in DOMAIN tasks, job'[u] # "waiting"
        PROVE  MayRun(u)'
    <3>1. MayRun(u)
      BY <1>1, <1>3, <2>1
    <3>2. ASSUME NEW v \in DOMAIN tasks \ {u}, u = 1 \/ (1 < v /\ v < u)
          PROVE  job'[v] = "done"
      <4>1. job[v] = "done"
        BY <2>1, <3>1, <3>2 DEF MayRun
      <4> QED
        BY <1>1, <1>3, <4>1
    <3> QED
      BY <1>1, <3>2 DEF MayRun
  <2>2. \A l \in loaded : Tiled(tasks, l, Len(world[l]))
    BY <1>1 DEF SharesIInv, RunInv
  <2>3. /\ job' \in [DOMAIN tasks -> {"waiting", "storing", "done"}]
        /\ \A u \in DOMAIN tasks : job'[u] = "storing" => tasks[u].storeGameInstance
    BY <1>1, <1>3
  <2> QED
    BY <1>1, <2>1, <2>2, <2>3 DEF RunInv
<1>8. StoredInv'
  <2>1. \A u \in DOMAIN tasks :
            tasks[u].storeGameInstance /\ job'[u] = "done" => gameInstance' # "old"
    BY <1>1, <1>2, <1>3 DEF SharesIInv, StoredInv
  <2>2. gameInstance' = "torn" => mt /\ \E n \in DOMAIN Levels : n > 1 /\ Levels[n] \in loaded
    <3>1. CASE \E u \in DOMAIN tasks : job[u] = "storing"
      <4>1. PICK u \in DOMAIN tasks : job[u] = "storing"
        BY <3>1
      <4>2. MayRun(u)
        BY <1>3, <4>1 DEF MayRun
      <4> QED
        BY <1>1, <1>3, <4>1, <4>2, TwoWriters
    <3>2. CASE ~\E u \in DOMAIN tasks : job[u] = "storing"
      BY <1>1, <1>2, <3>2 DEF SharesIInv, StoredInv
    <3> QED
      BY <3>1, <3>2
  <2>3. bStoreGameInstance
    BY <1>1, <1>3 DEF SharesIInv, SharesInv
  <2> QED
    BY <1>1, <2>1, <2>2, <2>3 DEF StoredInv
<1> QED
  BY <1>5, <1>6, <1>7, <1>8 DEF SharesIInv

LEMMA SerializeActorsKeeps ==
    ASSUME SharesIInv, NEW t \in DOMAIN job, SerializeActors(t)
    PROVE  SharesIInv'
<1>1. /\ phase = "run" /\ phase' = "run" /\ MayRun(t) /\ job' = [job EXCEPT ![t] = "done"]
      /\ job[t] = IF tasks[t].storeGameInstance THEN "storing" ELSE "waiting"
      /\ gameInstance' = IF job[t] = "storing" /\ gameInstance # "torn" THEN "stored"
                         ELSE gameInstance
      /\ UNCHANGED <<at, mt, loaded, world, index, tasks, bStoreGameInstance>>
  BY DEF SerializeActors
<1>2. /\ job \in [DOMAIN tasks -> {"waiting", "storing", "done"}]
      /\ \A u \in DOMAIN tasks : job[u] = "storing" => tasks[u].storeGameInstance
      /\ ~mt => \A u \in DOMAIN tasks : job[u] # "waiting" => MayRun(u)
  BY <1>1 DEF SharesIInv, RunInv
<1>3. gameInstance \in {"old", "stored", "torn"} /\ gameInstance' \in {"old", "stored", "torn"}
  BY <1>1 DEF SharesIInv, TypeInv
<1>4. TypeInv'
  BY <1>1, <1>3 DEF SharesIInv, TypeInv
<1>5. SplitInv' /\ SharesInv'
  BY <1>1 DEF SharesIInv, SplitInv, SharesInv
<1>6. RunInv'
  <2>1. ASSUME ~mt, NEW u \in DOMAIN tasks, job'[u] # "waiting"
        PROVE  MayRun(u)'
    <3>1. MayRun(u)
      BY <1>1, <1>2, <2>1
    <3> QED
      BY <1>1, <1>2, <2>1, <3>1 DEF MayRun
  <2>2. \A l \in loaded : Tiled(tasks, l, Len(world[l]))
    BY <1>1 DEF SharesIInv, RunInv
  <2>3. /\ job' \in [DOMAIN tasks -> {"waiting", "storing", "done"}]
        /\ \A u \in DOMAIN tasks : job'[u] = "storing" => tasks[u].storeGameInstance
    BY <1>1, <1>2
  <2> QED
    BY <1>1, <2>1, <2>2, <2>3 DEF RunInv
<1>7. StoredInv'
  <2>1. job[t] = "storing" => bStoreGameInstance
    BY <1>1, <1>2 DEF SharesIInv, SharesInv
  <2> QED
    BY <1>1, <1>2, <1>3, <2>1 DEF SharesIInv, StoredInv
<1> QED
  BY <1>4, <1>5, <1>6, <1>7 DEF SharesIInv

LEMMA FinishSaveKeeps ==
    ASSUME SharesIInv, FinishSave
    PROVE  SharesIInv'
<1>1. /\ phase' = "play" /\ index' = 0 /\ tasks' = <<>> /\ gameInstance' = "old"
      /\ UNCHANGED <<at, mt, loaded, world>>
  BY DEF FinishSave
<1>2. tasks' \in Seq(Task)
  BY <1>1
<1>3. /\ at \in DOMAIN Levels /\ DOMAIN world = LevelSet
      /\ \A l \in LevelSet : IsASeq(world[l])
      /\ Len(world[Levels[1]]) > 0
  BY DEF SharesIInv, TypeInv
<1> QED
  BY <1>1, <1>2, <1>3, IdleKeeps

LEMMA ClientSavesKeeps ==
    ASSUME SharesIInv, ClientSaves
    PROVE  SharesIInv'
<1>1. /\ at \in DOMAIN Levels /\ DOMAIN world = LevelSet
      /\ \A l \in LevelSet : IsASeq(world[l])
      /\ Len(world[Levels[1]]) > 0
      /\ index \in Nat /\ tasks \in Seq(Task) /\ gameInstance \in {"old", "stored", "torn"}
  BY DEF SharesIInv, TypeInv
<1> QED
  BY <1>1, IdleKeeps DEF ClientSaves

LEMMA NextKeepsSharesIInv == SharesIInv /\ [Next]_vars => SharesIInv'
<1> SUFFICES ASSUME SharesIInv, [Next]_vars
             PROVE  SharesIInv'
  OBVIOUS
<1>1. CASE Game \/ Load \/ Restart
  BY <1>1, LoadsKeepSharesIInv
<1>2. CASE Save
  BY <1>2, StartSaveKeeps, AddTaskKeeps, SplitNextLevelKeeps, StartTasksKeeps,
     StoreGameInstanceKeeps, SerializeActorsKeeps, FinishSaveKeeps, ClientSavesKeeps DEF Save
<1>3. CASE UNCHANGED vars
  <2>1. UNCHANGED <<phase, at, mt, loaded, world, bStoreGameInstance, index, tasks, job, gameInstance>>
    BY <1>3 DEF vars
  <2>2. TypeInv'
    BY <2>1 DEF SharesIInv, TypeInv
  <2>3. SplitInv'
    BY <2>1 DEF SharesIInv, SplitInv, Level, Shared
  <2>4. SharesInv'
    BY <2>1 DEF SharesIInv, SharesInv
  <2>5. RunInv'
    BY <2>1 DEF SharesIInv, RunInv, MayRun
  <2>6. StoredInv'
    BY <2>1 DEF SharesIInv, StoredInv
  <2> QED
    BY <2>2, <2>3, <2>4, <2>5, <2>6 DEF SharesIInv
<1> QED
  BY <1>1, <1>2, <1>3 DEF Next
-----------------------------------------------------------------------------
(* The shares of a level tile it up to the actor the loop is at, each      *)
(* first share stores the game instance, and tasks run in their order      *)
(* without MT: the inductive invariant of the save.                        *)
THEOREM SavesAreCut == Spec => []SharesIInv
BY InitSharesIInv, NextKeepsSharesIInv, PTL DEF Spec

(* SerializeLevelSync gives every actor of every loaded level to exactly   *)
(* one task, for any number of actors, levels and threads.                 *)
THEOREM SharesAreRight == Spec => []EveryActorInOneShare
<1>1. SharesIInv => EveryActorInOneShare
  BY DEF SharesIInv, RunInv, Tiled, EveryActorInOneShare
<1> QED
  BY <1>1, SavesAreCut, PTL

(* The game instance is stored when bStoreGameInstance says so, and by one *)
(* task at a time, unless FMTTask_SerializeActors runs for several levels  *)
(* on pool threads; otherwise its record is left alone.                    *)
THEOREM GameInstanceIsStored == Spec => []GameInstanceIsWhole
<1>1. ASSUME SharesIInv, phase = "run", \A t \in DOMAIN tasks : job[t] = "done",
             bStoreGameInstance
      PROVE  \/ gameInstance = "stored"
             \/ mt /\ \E n \in DOMAIN Levels : n > 1 /\ Levels[n] \in loaded
  <2>1. Levels[1] \in loaded /\ Levels[1] \in LevelSet /\ gameInstance \in {"old", "stored", "torn"}
    BY <1>1, KnownLevels DEF SharesIInv, TypeInv
  <2>2. 0 \in 0..(Len(world[Levels[1]]) - 1)
    BY <1>1, <2>1, LenOfASeq DEF SharesIInv, TypeInv
  <2>3. PICK t \in DOMAIN tasks : Covers(tasks[t], Levels[1], 0)
    BY <1>1, <2>1, <2>2 DEF SharesIInv, RunInv, Tiled
  <2>4. tasks[t].start = 0
    BY <1>1, <2>3, TaskTypes DEF Covers
  <2>5. tasks[t].storeGameInstance
    BY <1>1, <2>4 DEF SharesIInv, SharesInv
  <2> QED
    BY <1>1, <2>1, <2>5 DEF SharesIInv, StoredInv
<1>2. SharesIInv /\ phase = "run" /\ ~bStoreGameInstance => gameInstance = "old"
  BY DEF SharesIInv, StoredInv
<1>3. SharesIInv => GameInstanceIsWhole
  BY <1>1, <1>2 DEF GameInstanceIsWhole
<1> QED
  BY <1>3, SavesAreCut, PTL
-----------------------------------------------------------------------------
(* Induction: were x the number of a step that is not in S, then those up  *)
(* to x that are not could be put, one down each, into one place less.     *)
LEMMA Induct ==
    ASSUME NEW S, 0 \in S, \A n \in Nat : n \in S => n + 1 \in S
    PROVE  \A n \in Nat : n \in S
<1> SUFFICES ASSUME NEW x \in Nat, x \notin S
             PROVE  FALSE
  OBVIOUS
<1> DEFINE A == (0..x) \ S
           B == A \ {x}
           f == [n \in A |-> n - 1]
<1>1. IsFiniteSet(A) /\ x \in A
  <2>1. IsFiniteSet(0..x)
    BY FS_Interval
  <2>2. IsFiniteSet(A)
    BY <2>1, FS_Difference, Zenon
  <2> QED
    BY <2>2
<1>2. \A n \in A : n - 1 \in B
  <2> SUFFICES ASSUME NEW n \in A
               PROVE  n - 1 \in B
    OBVIOUS
  <2>1. n \in Nat /\ n <= x /\ n # 0 /\ n \notin S
    OBVIOUS
  <2>2. n - 1 \in Nat /\ n - 1 \notin S /\ n - 1 <= x /\ n - 1 # x
    BY <2>1
  <2> QED
    BY <2>2
<1>3. IsFiniteSet(B) /\ Cardinality(B) = Cardinality(A) - 1 /\ Cardinality(A) \in Nat
  BY <1>1, FS_RemoveElement, FS_CardinalityType
<1>4. f \in [A -> B]
  BY <1>2
<1>5. Cardinality(B) < Cardinality(A)
  BY <1>3
<1>6. \A m, n \in A : f[m] = f[n] => m = n
  OBVIOUS
<1> HIDE DEF A, B, f
<1>7. \E m, n \in A : m # n /\ f[m] = f[n]
  BY <1>1, <1>3, <1>4, <1>5, FS_PigeonHole
<1> QED
  BY <1>6, <1>7
-----------------------------------------------------------------------------
(* What RecordsOf computes. *)
More(w, start, r, n) == IF IsAllowed(w[start + n]) THEN Append(r, w[start + n]) ELSE r
Gathers(f, w, start, num) ==
    f = [n \in 0..num |-> IF n = 0 THEN <<>>
                          ELSE IF IsAllowed(w[start + n]) THEN Append(f[n - 1], w[start + n])
                          ELSE f[n - 1]]

LEMMA GathersIs ==
    ASSUME NEW f, NEW w, NEW start, NEW num \in Nat, Gathers(f, w, start, num)
    PROVE  f[0] = <<>> /\ \A n \in Nat : n < num => f[n + 1] = More(w, start, f[n], n + 1)
<1>1. \A n \in 0..num : f[n] = IF n = 0 THEN <<>>
                          ELSE IF IsAllowed(w[start + n]) THEN Append(f[n - 1], w[start + n])
                          ELSE f[n - 1]
  BY Zenon DEF Gathers
<1>2. 0 \in 0..num
  OBVIOUS
<1>3. ASSUME NEW n \in Nat, n < num
      PROVE  f[n + 1] = More(w, start, f[n], n + 1)
  <2>1. n + 1 \in 0..num /\ n + 1 # 0 /\ (n + 1) - 1 = n
    BY <1>3
  <2> QED
    BY <1>1, <2>1, Zenon DEF More
<1> QED
  BY <1>1, <1>2, <1>3

LEMMA GathersExists ==
    ASSUME NEW w, NEW start
    PROVE  \A num \in Nat : \E f : Gathers(f, w, start, num)
<1> DEFINE S == {num \in Nat : \E f : Gathers(f, w, start, num)}
<1>1. 0 \in S
  <2> DEFINE f == [n \in 0..0 |-> <<>>]
  <2>1. Gathers(f, w, start, 0)
    BY DEF Gathers
  <2> QED
    BY <2>1
<1>2. ASSUME NEW num \in Nat, num \in S
      PROVE  num + 1 \in S
  <2>1. PICK f : Gathers(f, w, start, num)
    BY <1>2
  <2> DEFINE g == [n \in 0..(num + 1) |-> IF n = num + 1 THEN More(w, start, f[num], num + 1)
                                          ELSE f[n]]
  <2>2. f[0] = <<>> /\ \A n \in Nat : n < num => f[n + 1] = More(w, start, f[n], n + 1)
    BY <2>1, GathersIs
  <2>3. ASSUME NEW n \in 0..(num + 1)
        PROVE  g[n] = IF n = 0 THEN <<>>
                      ELSE IF IsAllowed(w[start + n]) THEN Append(g[n - 1], w[start + n])
                      ELSE g[n - 1]
    <3>1. CASE n = 0
      BY <2>2, <3>1
    <3>2. CASE n # 0
      <4>1. n - 1 \in Nat /\ n - 1 \in 0..(num + 1) /\ n - 1 # num + 1 /\ (n - 1) + 1 = n
        BY <3>2
      <4>2. g[n - 1] = f[n - 1]
        BY <4>1
      <4>3. g[n] = More(w, start, f[n - 1], n)
        <5>1. CASE n = num + 1
          <6>1. n - 1 = num
            BY <5>1
          <6> QED
            BY <5>1, <6>1
        <5>2. CASE n # num + 1
          <6>1. n - 1 < num
            BY <5>2
          <6>2. f[(n - 1) + 1] = More(w, start, f[n - 1], (n - 1) + 1)
            BY <2>2, <4>1, <6>1
          <6> QED
            BY <4>1, <5>2, <6>2
        <5> QED
          BY <5>1, <5>2
      <4> HIDE DEF g
      <4> QED
        BY <3>2, <4>2, <4>3 DEF More
    <3> QED
      BY <3>1, <3>2
  <2>4. g = [n \in 0..(num + 1) |-> g[n]]
    OBVIOUS
  <2> HIDE DEF g
  <2>5. Gathers(g, w, start, num + 1)
    BY <2>3, <2>4, Zenon DEF Gathers
  <2> QED
    BY <2>5
<1> HIDE DEF S
<1>3. \A num \in Nat : num \in S
  BY <1>1, <1>2, Induct
<1> QED
  BY <1>3 DEF S

LEMMA GathersSame ==
    ASSUME NEW w, NEW start, NEW f, NEW g, NEW num \in Nat, NEW more \in Nat, num <= more,
           Gathers(f, w, start, num), Gathers(g, w, start, more)
    PROVE  f[num] = g[num]
<1> DEFINE S == {n \in Nat : n <= num => f[n] = g[n]}
<1>1. f[0] = <<>> /\ \A n \in Nat : n < num => f[n + 1] = More(w, start, f[n], n + 1)
  BY GathersIs
<1>2. g[0] = <<>> /\ \A n \in Nat : n < more => g[n + 1] = More(w, start, g[n], n + 1)
  BY GathersIs
<1>3. 0 \in S
  BY <1>1, <1>2
<1>4. \A n \in Nat : n \in S => n + 1 \in S
  <2> SUFFICES ASSUME NEW n \in Nat, n \in S, n + 1 <= num
               PROVE  f[n + 1] = g[n + 1]
    OBVIOUS
  <2>1. n < num /\ n < more /\ f[n] = g[n]
    OBVIOUS
  <2> QED
    BY <1>1, <1>2, <2>1
<1> HIDE DEF S
<1>5. num \in S
  BY <1>3, <1>4, Induct
<1> QED
  BY <1>5 DEF S

LEMMA RecordsOfIs ==
    ASSUME NEW w, NEW start
    PROVE  /\ RecordsOf(w, start, 0) = <<>>
           /\ \A n \in Nat : RecordsOf(w, start, n + 1) =
                                More(w, start, RecordsOf(w, start, n), n + 1)
<1>1. ASSUME NEW num \in Nat
      PROVE  \E f : Gathers(f, w, start, num) /\ RecordsOf(w, start, num) = f[num]
  <2> DEFINE f == CHOOSE f : Gathers(f, w, start, num)
  <2>1. Gathers(f, w, start, num)
    BY GathersExists, Zenon
  <2>2. RecordsOf(w, start, num) = f[num]
    BY Zenon DEF RecordsOf, Gathers
  <2> QED
    BY <2>1, <2>2
<1>2. RecordsOf(w, start, 0) = <<>>
  <2>1. PICK f : Gathers(f, w, start, 0) /\ RecordsOf(w, start, 0) = f[0]
    BY <1>1
  <2> QED
    BY <2>1, GathersIs
<1>3. ASSUME NEW n \in Nat
      PROVE  RecordsOf(w, start, n + 1) = More(w, start, RecordsOf(w, start, n), n + 1)
  <2>1. PICK f : Gathers(f, w, start, n) /\ RecordsOf(w, start, n) = f[n]
    BY <1>1
  <2>2. PICK g : Gathers(g, w, start, n + 1) /\ RecordsOf(w, start, n + 1) = g[n + 1]
    BY <1>1
  <2>3. f[n] = g[n]
    <3>1. n + 1 \in Nat /\ n <= n + 1
      OBVIOUS
    <3> DEFINE m == n + 1
    <3>2. Gathers(f, w, start, n) /\ Gathers(g, w, start, m)
      BY <2>1, <2>2
    <3>3. m \in Nat /\ n <= m
      BY <3>1
    <3> HIDE DEF m
    <3> QED
      BY <3>2, <3>3, GathersSame
  <2>4. g[n + 1] = More(w, start, g[n], n + 1)
    BY <2>2, GathersIs
  <2> QED
    BY <2>1, <2>2, <2>3, <2>4
<1> QED
  BY <1>2, <1>3
-----------------------------------------------------------------------------
LEMMA RecordsOfType ==
    ASSUME NEW w, NEW start \in Nat
    PROVE  \A n \in Nat : RecordsOf(w, start, n) \in Seq({w[i] : i \in Nat})
<1> DEFINE T == {w[i] : i \in Nat}
           S == {n \in Nat : RecordsOf(w, start, n) \in Seq(T)}
<1>1. 0 \in S
  <2>1. RecordsOf(w, start, 0) = <<>> /\ 0 \in Nat
    BY RecordsOfIs
  <2>2. <<>> \in Seq(T)
    OBVIOUS
  <2> QED
    BY <2>1, <2>2
<1>2. ASSUME NEW n \in Nat, n \in S
      PROVE  n + 1 \in S
  <2>1. w[start + (n + 1)] \in T
    OBVIOUS
  <2> DEFINE r == RecordsOf(w, start, n)
             e == w[start + (n + 1)]
  <2>2. r \in Seq(T)
    BY <1>2
  <2>3. RecordsOf(w, start, n + 1) = IF IsAllowed(e) THEN Append(r, e) ELSE r
    BY RecordsOfIs DEF More
  <2> HIDE DEF r, e, T
  <2>4. Append(r, e) \in Seq(T)
    BY <2>1, <2>2 DEF e
  <2>5. RecordsOf(w, start, n + 1) \in Seq(T)
    BY <2>2, <2>3, <2>4
  <2> QED
    BY <2>5
<1> HIDE DEF S
<1>3. \A n \in Nat : n \in S
  BY <1>1, <1>2, Induct
<1> QED
  BY <1>3 DEF S

(* The records of neighbouring shares make those of both. *)
LEMMA RecordsOfBoth ==
    ASSUME NEW w, NEW a \in Nat
    PROVE  \A n \in Nat : RecordsOf(w, 0, a + n) = RecordsOf(w, 0, a) \o RecordsOf(w, a, n)
<1> DEFINE T == {w[i] : i \in Nat}
           S == {n \in Nat : RecordsOf(w, 0, a + n) = RecordsOf(w, 0, a) \o RecordsOf(w, a, n)}
           x == RecordsOf(w, 0, a)
<1>0. /\ x \in Seq(T)
      /\ \A n \in Nat : RecordsOf(w, a, n) \in Seq(T)
  BY RecordsOfType
<1>1. 0 \in S
  <2>1. RecordsOf(w, a, 0) = <<>>
    BY RecordsOfIs
  <2>2. x \o <<>> = x
    <3> HIDE DEF x
    <3> QED
      BY <1>0
  <2>3. a + 0 = a
    OBVIOUS
  <2> QED
    BY <2>1, <2>2, <2>3
<1>2. ASSUME NEW n \in Nat, n \in S
      PROVE  n + 1 \in S
  <2> DEFINE e == w[a + (n + 1)]
             y == RecordsOf(w, a, n)
  <2>1. a + n \in Nat /\ (a + n) + 1 = a + (n + 1) /\ 0 + ((a + n) + 1) = a + (n + 1)
    OBVIOUS
  <2>2. RecordsOf(w, 0, (a + n) + 1) = More(w, 0, RecordsOf(w, 0, a + n), (a + n) + 1)
    BY <2>1, RecordsOfIs
  <2>3. RecordsOf(w, 0, a + n) = x \o y
    BY <1>2
  <2>4. RecordsOf(w, 0, a + (n + 1)) = IF IsAllowed(e) THEN Append(x \o y, e) ELSE x \o y
    BY <2>1, <2>2, <2>3 DEF More
  <2>5. RecordsOf(w, a, n + 1) = IF IsAllowed(e) THEN Append(y, e) ELSE y
    BY RecordsOfIs DEF More
  <2>6. x \in Seq(T) /\ y \in Seq(T) /\ e \in T
    <3>1. y \in Seq(T)
      BY <1>0
    <3>2. a + (n + 1) \in Nat
      OBVIOUS
    <3> QED
      BY <1>0, <3>1, <3>2
  <2> HIDE DEF x, y, e, T
  <2>7. Append(x \o y, e) = x \o Append(y, e)
    BY <2>6
  <2>8. RecordsOf(w, 0, a + (n + 1)) = x \o RecordsOf(w, a, n + 1)
    BY <2>4, <2>5, <2>7
  <2> QED
    BY <2>8 DEF x
<1> HIDE DEF S
<1>3. \A n \in Nat : n \in S
  BY <1>1, <1>2, Induct
<1> QED
  BY <1>3 DEF S

(* Where the records of the first n actors come from. *)
From(w, n, r, g) ==
    /\ g \in [1..Len(r) -> 1..n]
    /\ \A k \in 1..Len(r) : r[k] = w[g[k]] /\ IsAllowed(w[g[k]])
    /\ \A j, k \in 1..Len(r) : g[j] = g[k] => j = k
    /\ \A i \in 1..n : IsAllowed(w[i]) => \E k \in 1..Len(r) : g[k] = i

LEMMA FromOneMore ==
    ASSUME NEW w, NEW T, NEW r \in Seq(T), NEW n \in Nat, NEW g, From(w, n, r, g),
           w[n + 1] \in T
    PROVE  /\ IsAllowed(w[n + 1]) => \E h : From(w, n + 1, Append(r, w[n + 1]), h)
           /\ ~IsAllowed(w[n + 1]) => \E h : From(w, n + 1, r, h)
<1> DEFINE m == Len(r)
           e == w[n + 1]
           s == Append(r, e)
           h == [k \in 1..(m + 1) |-> IF k = m + 1 THEN n + 1 ELSE g[k]]
<1>1. m \in Nat /\ Len(s) = m + 1 /\ s[m + 1] = e /\ \A k \in 1..m : s[k] = r[k]
  OBVIOUS
<1>2. /\ g \in [1..m -> 1..n]
      /\ \A k \in 1..m : r[k] = w[g[k]] /\ IsAllowed(w[g[k]])
      /\ \A j, k \in 1..m : g[j] = g[k] => j = k
      /\ \A i \in 1..n : IsAllowed(w[i]) => \E k \in 1..m : g[k] = i
  BY DEF From
<1>3. \A k \in 1..m : g[k] \in 1..n /\ g[k] \in Nat /\ g[k] # n + 1 /\ g[k] \in 1..(n + 1)
  BY <1>2
<1>4. \A k \in 1..(m + 1) : k \in 1..m \/ k = m + 1
  BY <1>1
<1>5. \A i \in 1..(n + 1) : i \in 1..n \/ i = n + 1
  OBVIOUS
<1>6. n + 1 \in 1..(n + 1) /\ m + 1 \in 1..(m + 1) /\ \A k \in 1..m : k \in 1..(m + 1) /\ k # m + 1
  BY <1>1
<1>7. ASSUME IsAllowed(e)
      PROVE  From(w, n + 1, s, h)
  <2>1. /\ h[m + 1] = n + 1 /\ \A k \in 1..m : h[k] = g[k]
        /\ h = [k \in 1..(m + 1) |-> h[k]]
    BY <1>6
  <2> HIDE DEF h
  <2>2. h \in [1..(m + 1) -> 1..(n + 1)]
    BY <1>3, <1>4, <1>6, <2>1
  <2> HIDE DEF s, e, m
  <2>3. \A k \in 1..(m + 1) : s[k] = w[h[k]] /\ IsAllowed(w[h[k]])
    BY <1>1, <1>2, <1>4, <1>7, <2>1 DEF e
  <2>4. \A j, k \in 1..(m + 1) : h[j] = h[k] => j = k
    BY <1>2, <1>3, <1>4, <2>1
  <2>5. \A i \in 1..(n + 1) : IsAllowed(w[i]) => \E k \in 1..(m + 1) : h[k] = i
    BY <1>2, <1>5, <1>6, <2>1
  <2> QED
    BY <1>1, <2>2, <2>3, <2>4, <2>5 DEF From
<1>8. ASSUME ~IsAllowed(e)
      PROVE  From(w, n + 1, r, g)
  <2>1. g \in [1..m -> 1..(n + 1)]
    BY <1>2, <1>3
  <2>2. \A i \in 1..(n + 1) : IsAllowed(w[i]) => \E k \in 1..m : g[k] = i
    BY <1>2, <1>5, <1>8
  <2> QED
    BY <1>2, <2>1, <2>2 DEF From
<1> QED
  BY <1>7, <1>8

(* The records are the allowed actors: each actor once, and no other. *)
LEMMA RecordsAreTheAllowed ==
    ASSUME NEW w
    PROVE  \A n \in Nat : \E g : From(w, n, RecordsOf(w, 0, n), g)
<1> DEFINE T == {w[i] : i \in Nat}
           S == {n \in Nat : \E g : From(w, n, RecordsOf(w, 0, n), g)}
<1>1. 0 \in S
  <2>1. RecordsOf(w, 0, 0) = <<>> /\ Len(<<>>) = 0
    BY RecordsOfIs
  <2> DEFINE g == [k \in 1..0 |-> 0]
  <2>2. From(w, 0, <<>>, g)
    BY DEF From
  <2> HIDE DEF g
  <2> QED
    BY <2>1, <2>2
<1>2. ASSUME NEW n \in Nat, n \in S
      PROVE  n + 1 \in S
  <2> DEFINE r == RecordsOf(w, 0, n)
  <2>1. r \in Seq(T) /\ w[n + 1] \in T
    BY RecordsOfType
  <2>2. PICK g : From(w, n, r, g)
    BY <1>2
  <2>3. RecordsOf(w, 0, n + 1) = IF IsAllowed(w[n + 1]) THEN Append(r, w[n + 1]) ELSE r
    <3>1. 0 + (n + 1) = n + 1
      OBVIOUS
    <3> QED
      BY <3>1, RecordsOfIs DEF More
  <2> HIDE DEF r, T
  <2>4. \E h : From(w, n + 1, RecordsOf(w, 0, n + 1), h)
    BY <2>1, <2>2, <2>3, FromOneMore
  <2> QED
    BY <2>4
<1> HIDE DEF S
<1>3. \A n \in Nat : n \in S
  BY <1>1, <1>2, Induct
<1> QED
  BY <1>3 DEF S
-----------------------------------------------------------------------------
(* What Dumped computes. *)
Dumps(f, num) ==
    f = [n \in 0..num |-> IF n = 0 THEN records
                          ELSE [f[n - 1] EXCEPT ![tasks[n].level] = @ \o ActorRecords(n)]]
WithTask(r, n) == [r EXCEPT ![tasks[n].level] = @ \o ActorRecords(n)]

LEMMA DumpsIs ==
    ASSUME NEW f, NEW num \in Nat, Dumps(f, num)
    PROVE  f[0] = records /\ \A n \in Nat : n < num => f[n + 1] = WithTask(f[n], n + 1)
<1>1. \A n \in 0..num : f[n] = IF n = 0 THEN records
                               ELSE [f[n - 1] EXCEPT ![tasks[n].level] = @ \o ActorRecords(n)]
  BY Zenon DEF Dumps
<1>2. 0 \in 0..num
  OBVIOUS
<1>3. ASSUME NEW n \in Nat, n < num
      PROVE  f[n + 1] = WithTask(f[n], n + 1)
  <2>1. n + 1 \in 0..num /\ n + 1 # 0 /\ (n + 1) - 1 = n
    BY <1>3
  <2> QED
    BY <1>1, <2>1, Zenon DEF WithTask
<1> QED
  BY <1>1, <1>2, <1>3

LEMMA DumpsExists == \A num \in Nat : \E f : Dumps(f, num)
<1> DEFINE S == {num \in Nat : \E f : Dumps(f, num)}
<1>1. 0 \in S
  <2> DEFINE f == [n \in 0..0 |-> records]
  <2>1. Dumps(f, 0)
    BY DEF Dumps
  <2> QED
    BY <2>1
<1>2. ASSUME NEW num \in Nat, num \in S
      PROVE  num + 1 \in S
  <2>1. PICK f : Dumps(f, num)
    BY <1>2
  <2> DEFINE g == [n \in 0..(num + 1) |-> IF n = num + 1 THEN WithTask(f[num], num + 1) ELSE f[n]]
  <2>2. f[0] = records /\ \A n \in Nat : n < num => f[n + 1] = WithTask(f[n], n + 1)
    BY <2>1, DumpsIs
  <2>3. ASSUME NEW n \in 0..(num + 1)
        PROVE  g[n] = IF n = 0 THEN records
                      ELSE [g[n - 1] EXCEPT ![tasks[n].level] = @ \o ActorRecords(n)]
    <3>1. CASE n = 0
      BY <2>2, <3>1
    <3>2. CASE n # 0
      <4>1. n - 1 \in Nat /\ n - 1 \in 0..(num + 1) /\ n - 1 # num + 1 /\ (n - 1) + 1 = n
        BY <3>2
      <4>2. g[n - 1] = f[n - 1]
        BY <4>1
      <4>3. g[n] = WithTask(f[n - 1], n)
        <5>1. CASE n = num + 1
          <6>1. n - 1 = num
            BY <5>1
          <6> QED
            BY <5>1, <6>1
        <5>2. CASE n # num + 1
          <6>1. n - 1 < num
            BY <5>2
          <6>2. f[(n - 1) + 1] = WithTask(f[n - 1], (n - 1) + 1)
            BY <2>2, <4>1, <6>1
          <6> QED
            BY <4>1, <5>2, <6>2
        <5> QED
          BY <5>1, <5>2
      <4> HIDE DEF g
      <4> QED
        BY <3>2, <4>2, <4>3, Zenon DEF WithTask
    <3> QED
      BY <3>1, <3>2
  <2>4. g = [n \in 0..(num + 1) |-> g[n]]
    OBVIOUS
  <2> HIDE DEF g
  <2>5. Dumps(g, num + 1)
    BY <2>3, <2>4, Zenon DEF Dumps
  <2> QED
    BY <2>5
<1> HIDE DEF S
<1>3. \A num \in Nat : num \in S
  BY <1>1, <1>2, Induct
<1> QED
  BY <1>3 DEF S

LEMMA DumpedIs ==
    ASSUME Len(tasks) \in Nat
    PROVE  /\ Dumped[0] = records
           /\ \A n \in Nat : n < Len(tasks) => Dumped[n + 1] = WithTask(Dumped[n], n + 1)
<1> DEFINE f == CHOOSE f : Dumps(f, Len(tasks))
<1>1. \E g : Dumps(g, Len(tasks))
  BY DumpsExists
<1>2. Dumps(f, Len(tasks))
  BY <1>1, Zenon
<1>3. Dumped = f
  BY Zenon DEF Dumped, Dumps
<1> HIDE DEF f
<1> QED
  BY <1>2, <1>3, DumpsIs
-----------------------------------------------------------------------------
(* The first n tasks have the first c actors of the level. *)
Taken(n, l, c) == \A i \in Nat : i < c <=> \E t \in 1..n : Covers(tasks[t], l, i)

LEMMA TakenBefore ==
    ASSUME SharesIInv, phase = "run", InOrder(tasks),
           NEW n \in Nat, n < Len(tasks), NEW l \in loaded,
           NEW c \in Nat, c <= Len(world[l]), Taken(n + 1, l, c)
    PROVE  /\ tasks[n + 1].level # l => Taken(n, l, c)
           /\ tasks[n + 1].level = l => /\ Taken(n, l, tasks[n + 1].start)
                                        /\ c = tasks[n + 1].start + tasks[n + 1].num
<1> DEFINE task == tasks[n + 1]
<1>0. /\ DOMAIN tasks = 1..Len(tasks) /\ Len(tasks) \in Nat
      /\ \A t \in DOMAIN tasks : tasks[t].start \in Nat /\ tasks[t].num \in Nat /\ tasks[t].num > 0
  BY TaskTypes DEF SharesIInv, SharesInv
<1>1. /\ n + 1 \in DOMAIN tasks /\ n + 1 \in 1..(n + 1)
      /\ \A t \in 1..n : t \in DOMAIN tasks /\ t \in Nat /\ t < n + 1 /\ t \in 1..(n + 1)
      /\ \A t \in 1..(n + 1) : t \in 1..n \/ t = n + 1
  BY <1>0
<1>2. task.start \in Nat /\ task.num \in Nat /\ task.num > 0
  BY <1>0, <1>1
<1>3. CASE task.level # l
  <2>1. \A i \in Nat : ~Covers(task, l, i)
    BY <1>3 DEF Covers
  <2>2. Taken(n, l, c)
    BY <1>1, <2>1 DEF Taken
  <2> QED
    BY <1>3, <2>2
<1>4. CASE task.level = l
  <2>1. Tiled(tasks, l, Len(world[l])) /\ Len(world[l]) \in Nat
    BY LenOfASeq DEF SharesIInv, RunInv, TypeInv
  <2>2. \A t \in 1..n : tasks[t].level = l => tasks[t].start + tasks[t].num <= task.start
    BY <1>1, <1>4 DEF InOrder
  <2>3. \A i \in Nat : task.start <= i /\ i < task.start + task.num => i < c
    BY <1>1, <1>4 DEF Taken, Covers
  <2>4. task.start + task.num <= c
    <3>1. (task.start + task.num) - 1 \in Nat /\ task.start <= (task.start + task.num) - 1
      BY <1>2
    <3> QED
      BY <1>2, <2>3, <3>1
  <2>5. \A t \in 1..n : \A i \in Nat : Covers(tasks[t], l, i) => i < task.start
    <3> SUFFICES ASSUME NEW t \in 1..n, NEW i \in Nat, Covers(tasks[t], l, i)
                 PROVE  i < task.start
      OBVIOUS
    <3>1. tasks[t].start + tasks[t].num <= task.start /\ i < tasks[t].start + tasks[t].num
      BY <2>2 DEF Covers
    <3> QED
      BY <1>0, <1>1, <1>2, <3>1
  <2>6. c = task.start + task.num
    <3> SUFFICES ASSUME task.start + task.num < c
                 PROVE  FALSE
      BY <1>2, <2>4
    <3>1. task.start + task.num \in Nat
      BY <1>2
    <3>2. PICK t \in 1..(n + 1) : Covers(tasks[t], l, task.start + task.num)
      BY <3>1 DEF Taken
    <3>3. t \in 1..n
      <4>1. ~Covers(task, l, task.start + task.num)
        BY <1>2 DEF Covers
      <4> QED
        BY <1>1, <3>2, <4>1
    <3> QED
      BY <1>2, <2>5, <3>1, <3>2, <3>3
  <2>7. Taken(n, l, task.start)
    <3>1. ASSUME NEW i \in Nat, i < task.start
          PROVE  \E t \in 1..n : Covers(tasks[t], l, i)
      <4>1. i < c
        BY <1>2, <2>6, <3>1
      <4>2. PICK t \in 1..(n + 1) : Covers(tasks[t], l, i)
        BY <4>1 DEF Taken
      <4>3. ~Covers(task, l, i)
        BY <1>2, <3>1 DEF Covers
      <4> QED
        BY <1>1, <4>2, <4>3
    <3> QED
      BY <2>5, <3>1 DEF Taken
  <2> QED
    BY <1>4, <2>6, <2>7
<1> QED
  BY <1>3, <1>4

(* The records of a level after n tasks are those of the actors they have. *)
LEMMA DumpedIsTaken ==
    ASSUME SharesIInv, FileInv, phase = "run"
    PROVE  \A n \in Nat : n <= Len(tasks) =>
            /\ Dumped[n] = [l \in LevelSet |-> Dumped[n][l]]
            /\ \A l \in LevelSet \ loaded : Dumped[n][l] = <<>>
            /\ \A l \in loaded : \A c \in Nat :
                c <= Len(world[l]) /\ Taken(n, l, c) => Dumped[n][l] = RecordsOf(world[l], 0, c)
<1> DEFINE Right(n) ==
            /\ Dumped[n] = [l \in LevelSet |-> Dumped[n][l]]
            /\ \A l \in LevelSet \ loaded : Dumped[n][l] = <<>>
            /\ \A l \in loaded : \A c \in Nat :
                c <= Len(world[l]) /\ Taken(n, l, c) => Dumped[n][l] = RecordsOf(world[l], 0, c)
           S == {n \in Nat : n <= Len(tasks) => Right(n)}
<1>0. /\ Len(tasks) \in Nat /\ loaded \subseteq LevelSet
      /\ records = NoRecords /\ InOrder(tasks)
      /\ \A t \in DOMAIN tasks : tasks[t].level \in loaded
  BY TaskTypes DEF SharesIInv, TypeInv, FileInv, SharesInv
<1>1. 0 \in S
  <2>1. Dumped[0] = [l \in LevelSet |-> <<>>]
    BY <1>0, DumpedIs DEF NoRecords
  <2>2. ASSUME NEW l \in loaded, NEW c \in Nat, Taken(0, l, c)
        PROVE  RecordsOf(world[l], 0, c) = <<>>
    <3>1. ~(0 < c)
      BY <2>2 DEF Taken
    <3>2. c = 0
      BY <3>1
    <3> QED
      BY <3>2, RecordsOfIs
  <2>3. Right(0)
    BY <1>0, <2>1, <2>2
  <2> QED
    BY <2>3
<1>2. ASSUME NEW n \in Nat, n \in S
      PROVE  n + 1 \in S
  <2> SUFFICES ASSUME n + 1 <= Len(tasks)
               PROVE  Right(n + 1)
    OBVIOUS
  <2> DEFINE task == tasks[n + 1]
  <2>1. n < Len(tasks) /\ n <= Len(tasks)
    BY <1>0
  <2>2. Right(n)
    BY <1>2, <2>1
  <2>3. Dumped[n + 1] = WithTask(Dumped[n], n + 1)
    BY <1>0, <2>1, DumpedIs
  <2>4. n + 1 \in DOMAIN tasks /\ task.level \in loaded /\ task.start \in Nat /\ task.num \in Nat
    <3>1. DOMAIN tasks = 1..Len(tasks)
      BY TaskTypes
    <3>2. n + 1 \in DOMAIN tasks
      BY <1>0, <2>1, <3>1
    <3> QED
      BY <1>0, <3>2, TaskTypes
  <2>5. /\ Dumped[n + 1] = [l \in LevelSet |-> Dumped[n + 1][l]]
        /\ \A l \in LevelSet : Dumped[n + 1][l] = IF l = task.level
                                                  THEN Dumped[n][l] \o ActorRecords(n + 1)
                                                  ELSE Dumped[n][l]
    BY <1>0, <2>2, <2>3, <2>4 DEF WithTask
  <2>6. \A l \in LevelSet \ loaded : Dumped[n + 1][l] = <<>>
    BY <2>2, <2>4, <2>5
  <2>7. ASSUME NEW l \in loaded, NEW c \in Nat, c <= Len(world[l]), Taken(n + 1, l, c)
        PROVE  Dumped[n + 1][l] = RecordsOf(world[l], 0, c)
    <3>0. l \in LevelSet
      BY <1>0
    <3>1. CASE task.level # l
      <4>1. Taken(n, l, c)
        BY <1>0, <2>1, <2>7, <3>1, TakenBefore
      <4> QED
        BY <2>2, <2>5, <2>7, <3>0, <3>1, <4>1
    <3>2. CASE task.level = l
      <4>1. Taken(n, l, task.start) /\ c = task.start + task.num
        BY <1>0, <2>1, <2>7, <3>2, TakenBefore
      <4>2. task.start <= Len(world[l])
        <5>1. Len(world[l]) \in Nat
          BY <3>0, LenOfASeq DEF SharesIInv, TypeInv
        <5> QED
          BY <2>4, <2>7, <4>1, <5>1
      <4>3. Dumped[n][l] = RecordsOf(world[l], 0, task.start)
        BY <2>2, <2>4, <4>1, <4>2
      <4>4. ActorRecords(n + 1) = RecordsOf(world[l], task.start, task.num)
        BY <3>2 DEF ActorRecords
      <4>5. RecordsOf(world[l], 0, task.start + task.num)
                = RecordsOf(world[l], 0, task.start) \o RecordsOf(world[l], task.start, task.num)
        BY <2>4, RecordsOfBoth
      <4> QED
        BY <2>5, <3>0, <3>2, <4>1, <4>3, <4>4, <4>5
    <3> QED
      BY <3>1, <3>2
  <2> QED
    BY <2>5, <2>6, <2>7
<1> HIDE DEF S
<1>3. \A n \in Nat : n \in S
  BY <1>1, <1>2, Induct
<1> QED
  BY <1>3 DEF S

(* What a save writes is what the world is. *)
LEMMA DumpedIsTheWorld ==
    ASSUME SharesIInv, FileInv, phase = "run"
    PROVE  Dumped[Len(tasks)] = [l \in LevelSet |-> RecordsOf(world[l], 0, Len(world[l]))]
<1> DEFINE d == Dumped[Len(tasks)]
<1>0. /\ Len(tasks) \in Nat /\ DOMAIN tasks = 1..Len(tasks) /\ loaded \subseteq LevelSet
      /\ \A l \in LevelSet : Len(world[l]) \in Nat
      /\ \A l \in LevelSet \ loaded : world[l] = <<>>
  BY TaskTypes, LenOfASeq DEF SharesIInv, TypeInv, FileInv
<1>1. /\ d = [l \in LevelSet |-> d[l]]
      /\ \A l \in LevelSet \ loaded : d[l] = <<>>
      /\ \A l \in loaded : \A c \in Nat :
            c <= Len(world[l]) /\ Taken(Len(tasks), l, c) => d[l] = RecordsOf(world[l], 0, c)
  <2>1. Len(tasks) <= Len(tasks)
    BY <1>0
  <2> QED
    BY <1>0, <2>1, DumpedIsTaken
<1>2. ASSUME NEW l \in LevelSet
      PROVE  d[l] = RecordsOf(world[l], 0, Len(world[l]))
  <2>1. CASE l \notin loaded
    <3>1. world[l] = <<>> /\ Len(<<>>) = 0
      BY <1>0, <2>1
    <3>2. d[l] = <<>>
      BY <1>1, <2>1
    <3> QED
      BY <3>1, <3>2, RecordsOfIs
  <2>2. CASE l \in loaded
    <3>1. Tiled(tasks, l, Len(world[l]))
      BY <2>2 DEF SharesIInv, RunInv
    <3>2. ASSUME NEW i \in Nat, NEW t \in 1..Len(tasks), Covers(tasks[t], l, i)
          PROVE  i < Len(world[l])
      <4>1. tasks[t].start + tasks[t].num <= Len(world[l]) /\ i < tasks[t].start + tasks[t].num
        BY <1>0, <3>1, <3>2 DEF Tiled, Covers
      <4>2. tasks[t].start \in Nat /\ tasks[t].num \in Nat
        BY <1>0, TaskTypes
      <4> QED
        BY <1>0, <4>1, <4>2
    <3>3. ASSUME NEW i \in Nat, i < Len(world[l])
          PROVE  \E t \in 1..Len(tasks) : Covers(tasks[t], l, i)
      <4>1. i \in 0..(Len(world[l]) - 1)
        BY <1>0, <3>3
      <4> QED
        BY <1>0, <3>1, <4>1 DEF Tiled
    <3>4. Taken(Len(tasks), l, Len(world[l]))
      BY <3>2, <3>3 DEF Taken
    <3> QED
      BY <1>0, <1>1, <2>2, <3>4
  <2> QED
    BY <2>1, <2>2
<1> HIDE DEF d
<1>3. d = [l \in LevelSet |-> RecordsOf(world[l], 0, Len(world[l]))]
  BY <1>1, <1>2
<1> QED
  BY <1>3 DEF d
-----------------------------------------------------------------------------
(* Records of actors, and how they change. *)
LEMMA ActorFields ==
    ASSUME NEW a \in Actor
    PROVE  /\ a.name \in Name \cup Fresh /\ a.class \in Class /\ a.value \in Value
           /\ a.ref \in Path \cup {None} /\ a # NoActor
BY WorldRecordsAssumption DEF Actor

LEMMA ActorNamed ==
    ASSUME NEW a \in Actor, NEW n \in Name \cup Fresh
    PROVE  LET b == [a EXCEPT !.name = n]
           IN  /\ b \in Actor /\ b.name = n /\ b.class = a.class
               /\ b.value = a.value /\ b.ref = a.ref
BY DEF Actor

LEMMA ActorChanged ==
    ASSUME NEW a \in Actor, NEW v \in Value, NEW r \in Path \cup {None}
    PROVE  LET b == [a EXCEPT !.value = v, !.ref = r]
           IN  b \in Actor /\ b.name = a.name /\ b.class = a.class /\ b.value = v /\ b.ref = r
BY DEF Actor

LEMMA ActorReferring ==
    ASSUME NEW a \in Actor, NEW r \in Path \cup {None}
    PROVE  LET b == [a EXCEPT !.ref = r]
           IN  b \in Actor /\ b.name = a.name
BY DEF Actor

LEMMA ActorSpawned ==
    ASSUME NEW n \in Name \cup Fresh, NEW c \in Class
    PROVE  LET b == [name |-> n, class |-> c, value |-> New, ref |-> None]
           IN  b \in Actor /\ b.name = n /\ b.class = c
BY WorldRecordsAssumption DEF Actor
-----------------------------------------------------------------------------
Place == Actor \cup {NoActor}
Unique(w) ==
    \A i, j \in DOMAIN w : w[i] # NoActor /\ w[j] # NoActor /\ w[i].name = w[j].name => i = j
GoodWorld(w) ==
    /\ w \in [LevelSet -> Seq(Place)]
    /\ \A l \in LevelSet \ loaded : w[l] = <<>>
    /\ \A l \in LevelSet : Unique(w[l])

LEMMA SeqFacts ==
    ASSUME NEW S, NEW s \in Seq(S)
    PROVE  /\ Len(s) \in Nat /\ DOMAIN s = 1..Len(s) /\ s \in [1..Len(s) -> S]
           /\ \A i \in DOMAIN s : s[i] \in S
OBVIOUS

LEMMA FunctionIsSeq ==
    ASSUME NEW S, NEW n \in Nat, NEW s, s = [i \in 1..n |-> s[i]], \A i \in 1..n : s[i] \in S
    PROVE  s \in Seq(S) /\ Len(s) = n
<1>1. s \in [1..n -> S]
  OBVIOUS
<1> QED
  BY <1>1

(* Actors go or change, and keep their names. *)
LEMMA WorldMapped ==
    ASSUME GoodWorld(world), NEW w, w = [l \in LevelSet |-> w[l]],
           \A l \in LevelSet :
             /\ w[l] = [i \in DOMAIN world[l] |-> w[l][i]]
             /\ \A i \in DOMAIN world[l] :
                 /\ w[l][i] \in Place
                 /\ w[l][i] # NoActor => world[l][i] # NoActor /\ w[l][i].name = world[l][i].name
    PROVE  GoodWorld(w)
<1>0. /\ world \in [LevelSet -> Seq(Place)]
      /\ \A l \in LevelSet \ loaded : world[l] = <<>>
      /\ \A l \in LevelSet : Unique(world[l])
  BY DEF GoodWorld
<1>1. ASSUME NEW l \in LevelSet
      PROVE  w[l] \in Seq(Place) /\ Len(w[l]) = Len(world[l]) /\ DOMAIN w[l] = DOMAIN world[l]
  <2>1. world[l] \in Seq(Place)
    BY <1>0
  <2>2. Len(world[l]) \in Nat /\ DOMAIN world[l] = 1..Len(world[l])
    BY <2>1, SeqFacts
  <2>3. w[l] = [i \in 1..Len(world[l]) |-> w[l][i]]
    BY <2>2
  <2>4. \A i \in 1..Len(world[l]) : w[l][i] \in Place
    BY <2>2
  <2> HIDE DEF Place
  <2>5. w[l] \in Seq(Place) /\ Len(w[l]) = Len(world[l])
    BY <2>2, <2>3, <2>4, FunctionIsSeq
  <2> QED
    BY <2>2, <2>3, <2>5
<1>2. ASSUME NEW l \in LevelSet \ loaded
      PROVE  w[l] = <<>>
  <2>1. Len(w[l]) = 0 /\ w[l] \in Seq(Place)
    BY <1>0, <1>1
  <2> QED
    BY <2>1
<1>3. ASSUME NEW l \in LevelSet
      PROVE  Unique(w[l])
  BY <1>0, <1>1 DEF Unique
<1> QED
  BY <1>1, <1>2, <1>3 DEF GoodWorld

(* An actor is spawned under a name that is free. *)
LEMMA WorldGrown ==
    ASSUME GoodWorld(world), NEW l \in LevelSet, l \in loaded, NEW a \in Actor,
           <<l, a.name>> \notin LivePaths
    PROVE  GoodWorld([world EXCEPT ![l] = Append(@, a)])
<1> DEFINE w == [world EXCEPT ![l] = Append(@, a)]
           s == world[l]
           t == Append(s, a)
<1>0. /\ world \in [LevelSet -> Seq(Place)]
      /\ \A k \in LevelSet \ loaded : world[k] = <<>>
      /\ \A k \in LevelSet : Unique(world[k])
  BY DEF GoodWorld
<1>1. s \in Seq(Place) /\ a \in Place
  BY <1>0 DEF Place
<1>2. ASSUME NEW i \in DOMAIN s, s[i] # NoActor
      PROVE  s[i].name # a.name
  BY <1>2 DEF LivePaths, Actors
<1>3. w \in [LevelSet -> Seq(Place)] /\ w[l] = t /\ \A k \in LevelSet : k # l => w[k] = world[k]
  <2>1. t \in Seq(Place)
    <3> HIDE DEF s
    <3> QED
      BY <1>1
  <2> QED
    BY <1>0, <2>1
<1>4. Unique(t)
  <2>1. /\ Len(s) \in Nat /\ DOMAIN s = 1..Len(s)
        /\ DOMAIN t = 1..(Len(s) + 1) /\ t[Len(s) + 1] = a
        /\ \A i \in DOMAIN s : t[i] = s[i]
    <3> HIDE DEF s
    <3> QED
      BY <1>1
  <2>2. \A i \in DOMAIN t : i \in DOMAIN s \/ i = Len(s) + 1
    BY <2>1
  <2>3. Unique(s)
    BY <1>0
  <2> HIDE DEF s, t
  <2> QED
    BY <1>2, <2>1, <2>2, <2>3 DEF Unique
<1>5. \A k \in LevelSet : Unique(w[k])
  BY <1>0, <1>3, <1>4
<1>6. \A k \in LevelSet \ loaded : w[k] = <<>>
  BY <1>0, <1>3
<1> QED
  BY <1>3, <1>5, <1>6 DEF GoodWorld

LEMMA WorldOpened ==
    ASSUME NEW known
    PROVE  GoodWorld(Opened(known))
<1> DEFINE w == Opened(known)
<1>1. w = [l \in LevelSet |-> w[l]]
  BY DEF Opened
<1>2. ASSUME NEW l \in LevelSet
      PROVE  w[l] \in Seq(Place) /\ (l \notin loaded => w[l] = <<>>) /\ Unique(w[l])
  <2>1. CASE l \notin loaded
    <3>1. w[l] = <<>>
      BY <2>1 DEF Opened
    <3> HIDE DEF w
    <3> QED
      BY <2>1, <3>1 DEF Unique
  <2>2. CASE l \in loaded
    <3> DEFINE s == StartWorld[l]
    <3>1. /\ s \in Seq(Place)
          /\ \A i, j \in DOMAIN s : s[i] # NoActor /\ s[j] # NoActor /\ s[i].name = s[j].name => i = j
      BY WorldRecordsAssumption DEF Place
    <3>2. w[l] = [i \in DOMAIN s |-> IF s[i] # NoActor /\ s[i].class \in known
                                     THEN s[i] ELSE NoActor]
      BY <2>2 DEF Opened
    <3> HIDE DEF w, s
    <3>3. Len(s) \in Nat /\ DOMAIN s = 1..Len(s) /\ \A i \in DOMAIN s : s[i] \in Place
      BY <3>1, SeqFacts
    <3>4. w[l] = [i \in 1..Len(s) |-> w[l][i]] /\ \A i \in 1..Len(s) : w[l][i] \in {s[i], NoActor}
      BY <3>2, <3>3
    <3>5. \A i \in 1..Len(s) : w[l][i] \in Place
      BY <3>3, <3>4 DEF Place
    <3>6. w[l] \in Seq(Place)
      BY <3>3, <3>4, <3>5, FunctionIsSeq
    <3>7. Unique(w[l])
      BY <3>1, <3>3, <3>4 DEF Unique
    <3> QED
      BY <2>2, <3>6, <3>7
  <2> QED
    BY <2>1, <2>2
<1> QED
  BY <1>1, <1>2 DEF GoodWorld
-----------------------------------------------------------------------------
LEMMA WorldIsGood ==
    ASSUME LoadIInv
    PROVE  GoodWorld(world)
BY DEF LoadIInv, FileInv, NamesInv, GoodWorld, Place, Unique, Actors

LEMMA EmptyRecords ==
    NoRecords \in [LevelSet -> Seq(Actor)] /\ \A l \in LevelSet : NoRecords[l] = <<>>
<1> HIDE DEF Actor
<1> QED
  BY DEF NoRecords

(* Before a load and after it the world and the file only have to be good, *)
(* and the records that may be there still.                                *)
LEMMA RestingKeeps ==
    ASSUME LoadIInv, GoodWorld(world)', phase' \in {"play", "broken"},
           \/ records' = NoRecords
           \/ UNCHANGED records /\ (phase' = "play" => phase \in {"play", "loaded"}),
           UNCHANGED <<loaded, file, saved>>
    PROVE  LoadIInv'
<1>1. FileInv'
  BY EmptyRecords DEF LoadIInv, FileInv, GoodWorld, Place
<1>2. NamesInv'
  BY DEF LoadIInv, NamesInv, GoodWorld, Unique, Actors
<1>3. RecordsInv' /\ PrepareInv' /\ RestoreInv' /\ LoadRestores'
  BY DEF RecordsInv, PrepareInv, RestoreInv, LoadRestores
<1>4. RestInv'
  BY EmptyRecords DEF LoadIInv, RestInv
<1> QED
  BY <1>1, <1>2, <1>3, <1>4 DEF LoadIInv

LEMMA GameKeeps ==
    ASSUME SharesIInv, LoadIInv, Game
    PROVE  LoadIInv'
<1>0. /\ GoodWorld(world) /\ loaded \subseteq LevelSet
      /\ world \in [LevelSet -> Seq(Place)]
  BY WorldIsGood DEF GoodWorld, SharesIInv, TypeInv
<1>1. ASSUME NEW l \in LevelSet
      PROVE  /\ world[l] \in Seq(Place) /\ \A i \in DOMAIN world[l] : world[l][i] \in Place
             /\ world[l] = [i \in DOMAIN world[l] |-> world[l][i]]
  <2>1. world[l] \in Seq(Place)
    BY <1>0
  <2> QED
    BY <2>1, SeqFacts
<1>2. ASSUME NEW l \in LevelSet, NEW n \in Name, NEW c \in Class, Spawn(l, n, c)
      PROVE  LoadIInv'
  <2> DEFINE a == [name |-> n, class |-> c, value |-> New, ref |-> None]
  <2>1. a \in Actor /\ a.name = n
    BY ActorSpawned
  <2>2. <<l, n>> \notin LivePaths /\ l \in loaded /\ world' = [world EXCEPT ![l] = Append(@, a)]
    BY <1>2 DEF Spawn
  <2>3. /\ phase' = "play" /\ phase \in {"play", "loaded"}
        /\ UNCHANGED <<loaded, records, file, saved>>
    BY <1>2 DEF Spawn, Play
  <2> HIDE DEF a
  <2>4. GoodWorld(world')
    BY <1>0, <2>1, <2>2, WorldGrown
  <2> QED
    BY <2>3, <2>4, RestingKeeps DEF GoodWorld
<1>3. ASSUME NEW l \in LevelSet, NEW i \in DOMAIN world[l], DestroyActor(l, i)
      PROVE  LoadIInv'
  <2>1. /\ phase' = "play" /\ phase \in {"play", "loaded"}
        /\ UNCHANGED <<loaded, records, file, saved>>
    BY <1>3 DEF DestroyActor, Play
  <2>2. world' = [world EXCEPT ![l][i] = NoActor]
    BY <1>3 DEF DestroyActor
  <2>3. world' = [k \in LevelSet |-> world'[k]]
    BY <1>0, <2>2
  <2>4. ASSUME NEW k \in LevelSet
        PROVE  /\ world'[k] = [j \in DOMAIN world[k] |-> world'[k][j]]
               /\ \A j \in DOMAIN world[k] : world'[k][j] \in {world[k][j], NoActor}
    <3>1. world'[k] = IF k = l THEN [world[l] EXCEPT ![i] = NoActor] ELSE world[k]
      BY <1>0, <2>2
    <3> QED
      BY <1>1, <3>1
  <2>5. GoodWorld(world')
    BY <1>0, <1>1, <2>3, <2>4, WorldMapped DEF Place
  <2> QED
    BY <2>1, <2>5, RestingKeeps DEF GoodWorld
<1>4. ASSUME NEW l \in LevelSet, NEW i \in DOMAIN world[l],
             NEW v \in Value, NEW ref \in Path \cup {None}, Change(l, i, v, ref)
      PROVE  LoadIInv'
  <2>1. /\ phase' = "play" /\ phase \in {"play", "loaded"}
        /\ UNCHANGED <<loaded, records, file, saved>>
    BY <1>4 DEF Change, Play
  <2> DEFINE b == [world[l][i] EXCEPT !.value = v, !.ref = ref]
  <2>2. world' = [world EXCEPT ![l] = [@ EXCEPT ![i] = b]] /\ world[l][i] # NoActor
    BY <1>0, <1>4 DEF Change, Actors
  <2>3. world[l][i] \in Actor /\ b \in Actor /\ b.name = world[l][i].name
    <3>1. world[l][i] \in Actor
      BY <1>1, <2>2 DEF Place
    <3> QED
      BY <3>1 DEF Actor
  <2> HIDE DEF b
  <2>4. world' = [k \in LevelSet |-> world'[k]]
    BY <1>0, <2>2
  <2>5. ASSUME NEW k \in LevelSet
        PROVE  /\ world'[k] = [j \in DOMAIN world[k] |-> world'[k][j]]
               /\ \A j \in DOMAIN world[k] :
                    world'[k][j] = IF k = l /\ j = i THEN b ELSE world[k][j]
    <3>1. world'[k] = IF k = l THEN [world[l] EXCEPT ![i] = b] ELSE world[k]
      BY <1>0, <2>2
    <3> QED
      BY <1>1, <3>1
  <2>6. GoodWorld(world')
    <3>1. ASSUME NEW k \in LevelSet, NEW j \in DOMAIN world[k]
          PROVE  /\ world'[k][j] \in Place
                 /\ world'[k][j] # NoActor =>
                        world[k][j] # NoActor /\ world'[k][j].name = world[k][j].name
      <4>1. CASE k = l /\ j = i
        <5>1. world'[k][j] = b /\ world[k][j] # NoActor /\ b.name = world[k][j].name
          BY <2>2, <2>3, <2>5, <4>1
        <5> QED
          BY <2>3, <5>1 DEF Place
      <4>2. CASE ~(k = l /\ j = i)
        BY <1>1, <2>5, <4>2
      <4> QED
        BY <4>1, <4>2
    <3> QED
      BY <1>0, <2>4, <2>5, <3>1, WorldMapped
  <2> QED
    BY <2>1, <2>6, RestingKeeps DEF GoodWorld
<1>5. CASE CollectGarbage
  <2>1. /\ phase' = "play" /\ phase \in {"play", "loaded"}
        /\ UNCHANGED <<loaded, records, file, saved>>
    BY <1>5 DEF CollectGarbage
  <2>2. world' = [l \in LevelSet |-> [i \in DOMAIN world[l] |-> Collected(world[l][i])]]
    BY <1>5 DEF CollectGarbage
  <2>3. ASSUME NEW a \in Place
        PROVE  Collected(a) \in Place
               /\ (Collected(a) # NoActor => a # NoActor /\ Collected(a).name = a.name)
    <3>1. CASE a = NoActor
      BY <3>1 DEF Collected, Place
    <3>2. CASE a # NoActor
      <4>1. a \in Actor
        BY <3>2 DEF Place
      <4>2. Collected(a) = a \/ Collected(a) = [a EXCEPT !.ref = None]
        BY DEF Collected
      <4> QED
        BY <3>2, <4>1, <4>2, ActorReferring DEF Place
    <3> QED
      BY <3>1, <3>2
  <2>4. GoodWorld(world')
    BY <1>0, <1>1, <2>2, <2>3, WorldMapped
  <2> QED
    BY <2>1, <2>4, RestingKeeps DEF GoodWorld
<1>6. ASSUME NEW gone, Reopen(gone)
      PROVE  LoadIInv'
  <2>1. /\ phase' = "play" /\ phase \in {"play", "loaded"}
        /\ UNCHANGED records \/ records' = NoRecords
        /\ UNCHANGED <<loaded, file, saved>> /\ world' = Opened(classes')
    BY <1>6 DEF Reopen, Play
  <2>2. GoodWorld(world')
    BY <2>1, WorldOpened
  <2> QED
    BY <2>1, <2>2, RestingKeeps DEF GoodWorld
<1> QED
  BY <1>2, <1>3, <1>4, <1>5, <1>6 DEF Game

LEMMA RestartKeeps ==
    ASSUME LoadIInv, Restart
    PROVE  LoadIInv'
<1>1. /\ phase' = "play" /\ records' = NoRecords
      /\ UNCHANGED <<loaded, file, saved>> /\ world' = Opened(classes)
  BY DEF Restart
<1>2. GoodWorld(world')
  BY <1>1, WorldOpened
<1> QED
  BY <1>1, <1>2, RestingKeeps DEF GoodWorld
-----------------------------------------------------------------------------
(* A save leaves the world alone, and the file until all tasks are done. *)
LEMMA SavingKeeps ==
    ASSUME LoadIInv, phase' \in {"split", "run"}, UNCHANGED <<loaded, world, file, saved>>,
           records' \in [LevelSet -> Seq(Actor)],
           \A l \in LevelSet \ loaded : records'[l] = <<>>,
           InOrder(tasks'),
           phase' = "split" => \A n \in 1..at' : records'[Levels[n]] = <<>>,
           phase' = "run" => records' = NoRecords
    PROVE  LoadIInv'
<1>1. FileInv'
  BY DEF LoadIInv, FileInv
<1>2. NamesInv'
  BY DEF LoadIInv, NamesInv, Actors
<1>3. RestInv' /\ RecordsInv' /\ PrepareInv' /\ RestoreInv' /\ LoadRestores'
  BY DEF RestInv, RecordsInv, PrepareInv, RestoreInv, LoadRestores
<1> QED
  BY <1>1, <1>2, <1>3 DEF LoadIInv

LEMMA EmptiedRecords ==
    ASSUME LoadIInv, NEW l \in LevelSet
    PROVE  LET r == [records EXCEPT ![l] = <<>>]
           IN  /\ r \in [LevelSet -> Seq(Actor)] /\ r[l] = <<>>
               /\ \A k \in LevelSet : records[k] = <<>> => r[k] = <<>>
<1>1. records \in [LevelSet -> Seq(Actor)]
  BY DEF LoadIInv, FileInv
<1> HIDE DEF Actor
<1> QED
  BY <1>1

LEMMA OrderedMore ==
    ASSUME NEW shares \in Seq(Task), NEW task \in Task, InOrder(shares),
           Tiled(shares, task.level, task.start)
    PROVE  InOrder(Append(shares, task))
<1> DEFINE more == Append(shares, task)
           last == Len(shares) + 1
<1>1. /\ DOMAIN shares = 1..Len(shares) /\ Len(shares) \in Nat
      /\ DOMAIN more = 1..last /\ more[last] = task
      /\ \A t \in DOMAIN shares : more[t] = shares[t]
  OBVIOUS
<1>2. \A t \in DOMAIN more : t = last \/ (t \in DOMAIN shares /\ t < last)
  BY <1>1
<1>3. ASSUME NEW u \in DOMAIN more, NEW t \in DOMAIN more, u < t, more[u].level = more[t].level
      PROVE  more[u].start + more[u].num <= more[t].start
  <2>1. u \in DOMAIN shares
    BY <1>1, <1>3
  <2>2. CASE t = last
    BY <1>1, <1>3, <2>1, <2>2 DEF Tiled
  <2>3. CASE t \in DOMAIN shares
    BY <1>1, <1>3, <2>1, <2>3 DEF InOrder
  <2> QED
    BY <1>2, <2>2, <2>3
<1> HIDE DEF more
<1>4. InOrder(more)
  BY <1>3 DEF InOrder
<1> QED
  BY <1>4 DEF more

LEMMA SaveKeeps ==
    ASSUME SharesIInv, LoadIInv, Save
    PROVE  LoadIInv'
<1>0. /\ 1 \in DOMAIN Levels /\ DOMAIN Levels = 1..Len(Levels) /\ Len(Levels) \in Nat
      /\ \A n \in DOMAIN Levels : Levels[n] \in LevelSet
      /\ at \in DOMAIN Levels /\ loaded \subseteq LevelSet /\ Levels[1] \in loaded
      /\ tasks \in Seq(Task) /\ \A l \in LevelSet : IsASeq(world[l])
  BY KnownLevels DEF SharesIInv, TypeInv
<1>1. /\ records \in [LevelSet -> Seq(Actor)] /\ \A l \in LevelSet \ loaded : records[l] = <<>>
  BY DEF LoadIInv, FileInv
<1>2. CASE StartSave
  <2>1. /\ phase' = "split" /\ at' = 1 /\ tasks' = <<>> /\ UNCHANGED <<loaded, world, file, saved>>
        /\ records' = [records EXCEPT ![Levels[1]] = <<>>]
    BY <1>2 DEF StartSave
  <2>2. InOrder(tasks')
    BY <2>1 DEF InOrder
  <2>3. /\ records' \in [LevelSet -> Seq(Actor)] /\ records'[Levels[1]] = <<>>
        /\ \A l \in LevelSet \ loaded : records'[l] = <<>>
    BY <1>0, <1>1, <2>1, EmptiedRecords
  <2>4. \A n \in 1..at' : records'[Levels[n]] = <<>>
    <3>1. \A n \in 1..1 : n = 1
      OBVIOUS
    <3> QED
      BY <2>1, <2>3, <3>1
  <2> QED
    BY <2>1, <2>2, <2>3, <2>4, SavingKeeps
<1>3. CASE AddTask
  <2> DEFINE count == Len(world[Level])
             share == Share(count)
  <2>1. /\ phase = "split" /\ phase' = "split" /\ UNCHANGED <<at, loaded, world, records, file, saved>>
        /\ tasks' = Append(tasks, share) /\ index < count
    BY <1>3 DEF AddTask
  <2>2. share \in Task /\ share.level = Level /\ share.start = index
    <3>1. tasks' \in Seq(Task)
      BY <1>3, AddTaskKeeps DEF SharesIInv, TypeInv
    <3>2. Len(tasks) + 1 \in DOMAIN tasks' /\ tasks'[Len(tasks) + 1] = share
      <4> HIDE DEF share
      <4> QED
        BY <1>0, <2>1
    <3>3. share \in Task
      BY <3>1, <3>2, SeqFacts
    <3> QED
      BY <3>3 DEF Share
  <2>3. Tiled(tasks, Level, index)
    <3>1. Tiled(tasks, Levels[at], Shared(at)) /\ Shared(at) = index
      BY <1>0, <2>1 DEF SharesIInv, SplitInv, Shared, Level
    <3> QED
      BY <3>1 DEF Level
  <2>4. InOrder(tasks)
    BY <2>1 DEF LoadIInv, FileInv
  <2> HIDE DEF share, count
  <2>5. InOrder(tasks')
    BY <1>0, <2>1, <2>2, <2>3, <2>4, OrderedMore
  <2>6. \A n \in 1..at : records[Levels[n]] = <<>>
    BY <2>1 DEF LoadIInv, FileInv
  <2> QED
    BY <1>1, <2>1, <2>5, <2>6, SavingKeeps
<1>4. CASE SplitNextLevel
  <2>1. /\ phase = "split" /\ phase' = "split" /\ UNCHANGED <<loaded, world, tasks, file, saved>>
        /\ IsNext(at') /\ at' \in DOMAIN Levels
        /\ records' = [records EXCEPT ![Levels[at']] = <<>>]
    BY <1>4 DEF SplitNextLevel, NextLevels
  <2>2. InOrder(tasks') /\ \A n \in 1..at : records[Levels[n]] = <<>>
    BY <2>1 DEF LoadIInv, FileInv
  <2>3. /\ records' \in [LevelSet -> Seq(Actor)] /\ records'[Levels[at']] = <<>>
        /\ \A l \in LevelSet : records[l] = <<>> => records'[l] = <<>>
    BY <1>0, <2>1, EmptiedRecords
  <2>4. ASSUME NEW n \in 1..at'
        PROVE  records'[Levels[n]] = <<>>
    <3>1. n \in DOMAIN Levels /\ n \in Nat /\ at \in Nat /\ at' \in Nat /\ at < at'
      BY <1>0, <2>1 DEF IsNext
    <3>2. CASE n \in 1..at
      BY <1>0, <2>2, <2>3, <3>1, <3>2
    <3>3. CASE n \in (at + 1)..(at' - 1)
      BY <1>0, <1>1, <2>1, <2>3, <3>1, <3>3 DEF IsNext
    <3>4. CASE n = at'
      BY <2>3, <3>4
    <3> QED
      BY <3>1, <3>2, <3>3, <3>4
  <2> QED
    BY <1>1, <2>1, <2>2, <2>3, <2>4, SavingKeeps
<1>5. CASE StartTasks
  <2>1. /\ phase = "split" /\ phase' = "run" /\ IsLast
        /\ UNCHANGED <<at, loaded, world, tasks, records, file, saved>>
    BY <1>5 DEF StartTasks
  <2>2. InOrder(tasks') /\ \A n \in 1..at : records[Levels[n]] = <<>>
    BY <2>1 DEF LoadIInv, FileInv
  <2>3. ASSUME NEW l \in LevelSet
        PROVE  records[l] = <<>>
    <3>1. PICK n \in DOMAIN Levels : l = Levels[n]
      BY KnownLevels
    <3>2. n > at => l \notin loaded
      BY <2>1, <3>1 DEF IsLast
    <3>3. n \in 1..at \/ n > at
      BY <1>0
    <3> QED
      BY <1>1, <2>2, <3>1, <3>2, <3>3
  <2>4. records = NoRecords
    BY <1>1, <2>3 DEF NoRecords
  <2> QED
    BY <1>1, <2>1, <2>2, <2>4, SavingKeeps
<1>6. ASSUME NEW t \in DOMAIN job, StoreGameInstance(t) \/ SerializeActors(t)
      PROVE  LoadIInv'
  <2>1. /\ phase = "run" /\ phase' = "run"
        /\ UNCHANGED <<at, loaded, world, tasks, records, file, saved>>
    BY <1>6 DEF StoreGameInstance, SerializeActors
  <2>2. InOrder(tasks') /\ records = NoRecords
    BY <2>1 DEF LoadIInv, FileInv
  <2> QED
    BY <1>1, <2>1, <2>2, SavingKeeps
<1>7. CASE FinishSave
  <2>1. /\ phase = "run" /\ phase' = "play" /\ UNCHANGED <<loaded, world>>
        /\ file' = Dumped[Len(tasks)] /\ records' = [file' EXCEPT ![Levels[1]] = <<>>]
        /\ saved' = [l \in LevelSet |-> RecordsOf(world[l], 0, Len(world[l]))]
    BY <1>7 DEF FinishSave
  <2>2. file' = saved'
    BY <2>1, DumpedIsTheWorld DEF LoadIInv
  <2>3. /\ \A l \in LevelSet : world[l] \in Seq(Place) /\ Unique(world[l])
        /\ \A l \in LevelSet \ loaded : world[l] = <<>>
    BY WorldIsGood DEF GoodWorld
  <2>4. ASSUME NEW l \in LevelSet
        PROVE  /\ file'[l] \in Seq(Actor)
               /\ \A j, k \in DOMAIN file'[l] : file'[l][j].name = file'[l][k].name => j = k
               /\ \A k \in DOMAIN file'[l] : file'[l][k] # NoActor /\ file'[l][k].class \in Allowed
    <3> DEFINE w == world[l]
               r == RecordsOf(w, 0, Len(w))
    <3>1. file'[l] = r
      BY <2>1, <2>2
    <3>2. w \in Seq(Place) /\ Unique(w)
      BY <2>3
    <3> HIDE DEF w
    <3>3. Len(w) \in Nat /\ DOMAIN w = 1..Len(w) /\ \A i \in DOMAIN w : w[i] \in Place
      BY <3>2, SeqFacts
    <3>4. PICK g : From(w, Len(w), r, g)
      BY <3>3, RecordsAreTheAllowed
    <3>5. r \in Seq({w[i] : i \in Nat})
      BY <3>3, RecordsOfType
    <3> HIDE DEF r
    <3>6. Len(r) \in Nat /\ DOMAIN r = 1..Len(r) /\ r = [k \in 1..Len(r) |-> r[k]]
      BY <3>5
    <3>7. ASSUME NEW k \in 1..Len(r)
          PROVE  g[k] \in DOMAIN w /\ r[k] = w[g[k]] /\ r[k] \in Actor
                 /\ r[k] # NoActor /\ r[k].class \in Allowed
      <4>1. g[k] \in DOMAIN w /\ r[k] = w[g[k]] /\ IsAllowed(w[g[k]])
        BY <3>3, <3>4 DEF From
      <4> QED
        BY <3>3, <4>1 DEF IsAllowed, Place
    <3>8. r \in Seq(Actor)
      BY <3>6, <3>7, FunctionIsSeq
    <3>9. ASSUME NEW j \in 1..Len(r), NEW k \in 1..Len(r), r[j].name = r[k].name
          PROVE  j = k
      <4>1. g[j] = g[k]
        BY <3>2, <3>7, <3>9 DEF Unique
      <4> QED
        BY <3>4, <4>1 DEF From
    <3> QED
      BY <3>1, <3>6, <3>7, <3>8, <3>9
  <2>5. file' = [l \in LevelSet |-> file'[l]]
    BY <2>1, <2>2
  <2>6. file' \in [LevelSet -> Seq(Actor)]
    BY <2>4, <2>5
  <2>7. \A l \in LevelSet \ loaded : file'[l] = <<>>
    <3>1. ASSUME NEW l \in LevelSet \ loaded
          PROVE  file'[l] = <<>>
      <4>1. world[l] = <<>> /\ Len(<<>>) = 0
        BY <2>3
      <4> QED
        BY <2>1, <2>2, <4>1, RecordsOfIs
    <3> QED
      BY <3>1
  <2>8. records' \in [LevelSet -> Seq(Actor)] /\ \A l \in LevelSet \ loaded : records'[l] = <<>>
    <3> HIDE DEF Actor
    <3> QED
      BY <1>0, <2>1, <2>6, <2>7
  <2>9. FileInv'
    <3>1. world' \in [LevelSet -> Seq(Actor \cup {NoActor})]
      BY <2>1 DEF LoadIInv, FileInv
    <3> QED
      BY <2>1, <2>2, <2>3, <2>6, <2>7, <2>8, <3>1 DEF FileInv
  <2>10. NamesInv'
    BY <2>1, <2>4 DEF LoadIInv, NamesInv, Actors
  <2>11. RecordsInv' /\ PrepareInv' /\ RestoreInv' /\ LoadRestores'
    BY <2>1 DEF RecordsInv, PrepareInv, RestoreInv, LoadRestores
  <2>12. RestInv'
    <3>1. \A l \in LevelSet : records'[l] = file'[l] \/ records'[l] = <<>>
      BY <1>0, <2>1, <2>5
    <3> QED
      BY <2>4, <3>1 DEF RestInv
  <2> QED
    BY <2>9, <2>10, <2>11, <2>12 DEF LoadIInv
<1>8. CASE ClientSaves
  <2>1. /\ phase \in {"play", "loaded"} /\ phase' = "play" /\ UNCHANGED <<loaded, world>>
        /\ records' = [records EXCEPT ![Levels[1]] = <<>>] /\ file' = records' /\ saved' = file'
    BY <1>8 DEF ClientSaves
  <2>2. /\ records' \in [LevelSet -> Seq(Actor)]
        /\ \A l \in LevelSet \ loaded : records'[l] = <<>>
    BY <1>0, <1>1, <2>1, EmptiedRecords
  <2>3. \A l \in LevelSet : records'[l] = records[l] \/ records'[l] = <<>>
    BY <1>0, <1>1, <2>1
  <2>4. FileInv'
    BY <2>1, <2>2 DEF LoadIInv, FileInv
  <2>5. RestInv'
    BY <2>1, <2>3 DEF LoadIInv, RestInv
  <2>6. NamesInv'
    BY <2>1, <2>5 DEF LoadIInv, NamesInv, RestInv, Actors
  <2>7. RecordsInv' /\ PrepareInv' /\ RestoreInv' /\ LoadRestores'
    BY <2>1 DEF RecordsInv, PrepareInv, RestoreInv, LoadRestores
  <2> QED
    BY <2>4, <2>5, <2>6, <2>7 DEF LoadIInv
<1> QED
  BY <1>2, <1>3, <1>4, <1>5, <1>6, <1>7, <1>8 DEF Save
-----------------------------------------------------------------------------
LEMMA LoadingFile ==
    ASSUME LoadIInv, GoodWorld(world)', UNCHANGED <<loaded, file, saved>>,
           records' \in [LevelSet -> Seq(Actor)],
           \A l \in LevelSet \ loaded : records'[l] = <<>>,
           phase' \notin {"split", "run"}
    PROVE  FileInv' /\ NamesInv'
<1>1. FileInv'
  BY DEF LoadIInv, FileInv, GoodWorld, Place
<1>2. NamesInv'
  BY DEF LoadIInv, NamesInv, GoodWorld, Unique, Actors
<1> QED
  BY <1>1, <1>2

LEMMA LoadTypes ==
    ASSUME SharesIInv, LoadIInv
    PROVE  /\ at \in DOMAIN Levels /\ DOMAIN Levels = 1..Len(Levels) /\ Len(Levels) \in Nat
           /\ 1 \in DOMAIN Levels /\ \A n \in DOMAIN Levels : Levels[n] \in LevelSet
           /\ \A m, n \in DOMAIN Levels : Levels[m] = Levels[n] => m = n
           /\ loaded \subseteq LevelSet /\ Levels[1] \in loaded
           /\ world \in [LevelSet -> Seq(Place)]
           /\ records \in [LevelSet -> Seq(Actor)] /\ file \in [LevelSet -> Seq(Actor)]
           /\ \A l \in LevelSet :
                /\ \A i \in DOMAIN world[l] : world[l][i] \in Place
                /\ Len(world[l]) \in Nat /\ DOMAIN world[l] = 1..Len(world[l])
                /\ world[l] = [i \in DOMAIN world[l] |-> world[l][i]]
                /\ \A i \in Actors(l) : i \in DOMAIN world[l] /\ world[l][i] \in Actor
                /\ \A k \in DOMAIN records[l] : records[l][k] \in Actor
                /\ \A k \in DOMAIN file[l] : file[l][k] \in Actor
                /\ l \notin loaded => world[l] = <<>> /\ records[l] = <<>> /\ file[l] = <<>>
<1>1. /\ at \in DOMAIN Levels /\ DOMAIN Levels = 1..Len(Levels) /\ Len(Levels) \in Nat
      /\ 1 \in DOMAIN Levels /\ \A n \in DOMAIN Levels : Levels[n] \in LevelSet
      /\ \A m, n \in DOMAIN Levels : Levels[m] = Levels[n] => m = n
      /\ loaded \subseteq LevelSet /\ Levels[1] \in loaded
  BY KnownLevels, WorldRecordsAssumption DEF SharesIInv, TypeInv
<1>2. /\ world \in [LevelSet -> Seq(Place)]
      /\ records \in [LevelSet -> Seq(Actor)] /\ file \in [LevelSet -> Seq(Actor)]
      /\ \A l \in LevelSet \ loaded : world[l] = <<>> /\ records[l] = <<>> /\ file[l] = <<>>
  BY DEF LoadIInv, FileInv, Place
<1>3. ASSUME NEW l \in LevelSet
      PROVE  /\ \A i \in DOMAIN world[l] : world[l][i] \in Place
             /\ Len(world[l]) \in Nat /\ DOMAIN world[l] = 1..Len(world[l])
             /\ world[l] = [i \in DOMAIN world[l] |-> world[l][i]]
             /\ \A i \in Actors(l) : i \in DOMAIN world[l] /\ world[l][i] \in Actor
             /\ \A k \in DOMAIN records[l] : records[l][k] \in Actor
             /\ \A k \in DOMAIN file[l] : file[l][k] \in Actor
  <2>1. world[l] \in Seq(Place) /\ records[l] \in Seq(Actor) /\ file[l] \in Seq(Actor)
    BY <1>2
  <2>2. /\ \A i \in DOMAIN world[l] : world[l][i] \in Place
        /\ Len(world[l]) \in Nat /\ DOMAIN world[l] = 1..Len(world[l])
        /\ world[l] = [i \in DOMAIN world[l] |-> world[l][i]]
    BY <2>1, SeqFacts
  <2>3. \A i \in Actors(l) : i \in DOMAIN world[l] /\ world[l][i] \in Actor
    BY <2>2 DEF Actors, Place
  <2> QED
    BY <2>1, <2>2, <2>3, SeqFacts
<1> QED
  BY <1>1, <1>2, <1>3

LEMMA SameName ==
    ASSUME NEW a \in Actor
    PROVE  [a EXCEPT !.name = a.name] = a
BY DEF Actor

LEMMA StartLoadKeeps ==
    ASSUME SharesIInv, LoadIInv, StartLoad
    PROVE  LoadIInv'
<1>1. /\ phase' \in {"broken", "prepare"} /\ at' = 1 /\ records' = file /\ given' = <<>>
      /\ UNCHANGED <<loaded, world, file, saved>> /\ others' = OtherActors
  BY DEF StartLoad
<1>2. FileInv' /\ NamesInv'
  <2>1. GoodWorld(world)'
    BY <1>1, WorldIsGood DEF GoodWorld
  <2> QED
    BY <1>1, <2>1, LoadTypes, LoadingFile
<1>3. RecordsInv'
  <2>1. Level' \in loaded
    BY <1>1, LoadTypes DEF Level
  <2>2. others' = OtherActors'
    BY <1>1 DEF OtherActors, Actors
  <2>3. DOMAIN given' = {}
    BY <1>1
  <2>4. \A l \in LevelSet : \A k \in DOMAIN file[l] : RecordNow(l, file[l][k])' = file[l][k]
    BY <1>1, <2>3, LoadTypes, SameName DEF RecordNow, NameNow
  <2>5. file = [l \in LevelSet |-> [k \in DOMAIN file[l] |-> file[l][k]]]
    <3>1. \A l \in LevelSet : file[l] \in Seq(Actor)
      BY LoadTypes
    <3>2. \A l \in LevelSet : file[l] = [k \in DOMAIN file[l] |-> file[l][k]]
      BY <3>1, SeqFacts
    <3> HIDE DEF Actor
    <3> QED
      BY <3>2, LoadTypes
  <2>6. records' = [l \in LevelSet |-> [k \in DOMAIN file[l] |-> RecordNow(l, file[l][k])']]
    BY <1>1, <2>4, <2>5
  <2> QED
    BY <1>1, <2>1, <2>2, <2>3, <2>6 DEF RecordsInv
<1>4. PrepareInv'
  <2>1. \A n \in DOMAIN Levels : ~(n < 1)
    BY LoadTypes
  <2> QED
    BY <1>1, <2>1 DEF PrepareInv
<1>5. RestInv' /\ RestoreInv' /\ LoadRestores'
  BY <1>1 DEF RestInv, RestoreInv, LoadRestores
<1> QED
  BY <1>2, <1>3, <1>4, <1>5 DEF LoadIInv
-----------------------------------------------------------------------------
(* A level the step has nothing to do with stays in step. *)
LEMMA InStepStays ==
    ASSUME NEW l, NEW missing, InStep(l, missing), world'[l] = world[l],
           records'[l] = records[l]
    PROVE  InStep(l, missing)'
BY DEF InStep, Matches, Actors, IsAllowed

LEMMA PrepareLevelKeeps ==
    ASSUME SharesIInv, LoadIInv, PrepareLevel
    PROVE  LoadIInv'
<1> DEFINE w == world[Level]
           doomed == {i \in Actors(Level) : IsAllowed(w[i]) /\ RecordOf(Level, w[i]) = {}}
<1>1. /\ phase = "prepare" /\ phase' = "respawn"
      /\ UNCHANGED <<at, loaded, records, file, saved, others, given>>
      /\ world' = [world EXCEPT ![Level] = [i \in DOMAIN @ |-> IF i \in doomed THEN NoActor ELSE @[i]]]
      /\ toSpawn' = {k \in DOMAIN records[Level] : \A i \in DOMAIN w : k \notin RecordOf(Level, w[i])}
  BY DEF PrepareLevel
<1>2. Level \in loaded /\ Level' = Level /\ Level \in LevelSet
  BY <1>1, LoadTypes DEF Level, LoadIInv, RecordsInv
<1>3. /\ world' = [l \in LevelSet |-> world'[l]]
      /\ world'[Level] = [i \in DOMAIN w |-> IF i \in doomed THEN NoActor ELSE w[i]]
      /\ \A l \in LevelSet : l # Level => world'[l] = world[l]
  <2> DEFINE v == [i \in DOMAIN w |-> IF i \in doomed THEN NoActor ELSE w[i]]
  <2>1. world' = [world EXCEPT ![Level] = v]
    BY <1>1
  <2>2. DOMAIN world = LevelSet
    BY LoadTypes
  <2> HIDE DEF v
  <2>3. /\ world' = [l \in LevelSet |-> world'[l]] /\ world'[Level] = v
        /\ \A l \in LevelSet : l # Level => world'[l] = world[l]
    BY <1>2, <2>1, <2>2
  <2> QED
    BY <2>3 DEF v
<1> HIDE DEF doomed
<1>4. \A l \in LevelSet : \A i \in DOMAIN world[l] :
        world'[l][i] = IF l = Level /\ i \in doomed THEN NoActor ELSE world[l][i]
  BY <1>3
<1>5. \A i \in doomed : IsAllowed(w[i]) /\ RecordOf(Level, w[i]) = {} /\ i \in Actors(Level)
  BY DEF doomed
<1>6. FileInv' /\ NamesInv'
  <2>1. \A l \in LevelSet : world'[l] = [i \in DOMAIN world[l] |-> world'[l][i]]
    BY <1>3, LoadTypes
  <2>2. \A l \in LevelSet : \A i \in DOMAIN world[l] :
            /\ world'[l][i] \in Place
            /\ world'[l][i] # NoActor => world[l][i] # NoActor /\ world'[l][i].name = world[l][i].name
    BY <1>4, LoadTypes DEF Place
  <2>3. GoodWorld(world')
    BY <1>3, <2>1, <2>2, WorldIsGood, WorldMapped
  <2> QED
    BY <1>1, <2>3, LoadTypes, LoadingFile DEF GoodWorld
<1>7. \A l \in LevelSet : DOMAIN world'[l] = DOMAIN world[l]
  BY <1>3
<1>8. \A l \in LevelSet : Actors(l)' = IF l = Level THEN Actors(l) \ doomed ELSE Actors(l)
  BY <1>4, <1>7 DEF Actors
<1>9. OtherActors' = OtherActors
  <2>1. \A l \in LevelSet : \A i \in DOMAIN world[l] :
            i \in Actors(l)' /\ ~IsAllowed(world'[l][i]) <=> i \in Actors(l) /\ ~IsAllowed(world[l][i])
    BY <1>4, <1>5, <1>8
  <2>2. \A l \in LevelSet : \A i \in Actors(l) : ~IsAllowed(world[l][i]) => world'[l][i] = world[l][i]
    BY <1>4, <1>5 DEF Actors
  <2>3. \A l \in LevelSet : {<<l, world[l][i]>> : i \in {j \in Actors(l) : ~IsAllowed(world[l][j])}}
                          = {<<l, world'[l][i]>> : i \in {j \in Actors(l)' : ~IsAllowed(world'[l][j])}}
    <3> SUFFICES ASSUME NEW l \in LevelSet
                 PROVE  {<<l, world[l][i]>> : i \in {j \in Actors(l) : ~IsAllowed(world[l][j])}}
                          = {<<l, world'[l][i]>> : i \in {j \in Actors(l)' : ~IsAllowed(world'[l][j])}}
      OBVIOUS
    <3>1. {j \in Actors(l) : ~IsAllowed(world[l][j])} = {j \in Actors(l)' : ~IsAllowed(world'[l][j])}
      BY <1>7, <2>1 DEF Actors
    <3> QED
      BY <2>2, <3>1
  <2> QED
    BY <2>3 DEF OtherActors, IsAllowed
<1>10. RecordsInv'
  <2>1. /\ others = OtherActors
        /\ records = [l \in LevelSet |-> [k \in DOMAIN file[l] |-> RecordNow(l, file[l][k])]]
        /\ \A path \in DOMAIN given : \E n \in DOMAIN Levels : path[1] = Levels[n] /\ n < at
    BY <1>1 DEF LoadIInv, RecordsInv
  <2>2. \A l, r : RecordNow(l, r)' = RecordNow(l, r)
    BY <1>1 DEF RecordNow, NameNow
  <2>3. \A path \in DOMAIN given : \E n \in DOMAIN Levels : path[1] = Levels[n] /\ n <= at
    BY <2>1, LoadTypes
  <2> QED
    BY <1>1, <1>2, <1>9, <2>1, <2>2, <2>3 DEF RecordsInv
<1>11. \A k \in DOMAIN records[Level] :
            /\ <<Level, file[Level][k].name>> \notin DOMAIN given /\ k \in DOMAIN file[Level]
            /\ records[Level][k].name = file[Level][k].name
  <2> SUFFICES ASSUME NEW k \in DOMAIN records[Level]
               PROVE  /\ <<Level, file[Level][k].name>> \notin DOMAIN given /\ k \in DOMAIN file[Level]
                      /\ records[Level][k].name = file[Level][k].name
    OBVIOUS
  <2>1. /\ records = [l \in LevelSet |-> [j \in DOMAIN file[l] |-> RecordNow(l, file[l][j])]]
        /\ \A path \in DOMAIN given : \E n \in DOMAIN Levels : path[1] = Levels[n] /\ n < at
    BY <1>1 DEF LoadIInv, RecordsInv
  <2>2. k \in DOMAIN file[Level] /\ records[Level][k] = RecordNow(Level, file[Level][k])
    BY <1>2, <2>1
  <2>3. ASSUME <<Level, file[Level][k].name>> \in DOMAIN given
        PROVE  FALSE
    <3>1. PICK n \in DOMAIN Levels : Level = Levels[n] /\ n < at
      BY <2>1, <2>3
    <3>2. n = at
      BY <3>1, LoadTypes DEF Level
    <3> QED
      BY <3>1, <3>2, LoadTypes
  <2>4. RecordNow(Level, file[Level][k]) = file[Level][k]
    BY <1>2, <2>2, <2>3, LoadTypes, SameName DEF RecordNow, NameNow
  <2> QED
    BY <2>2, <2>3, <2>4
<1>12. InStep(Level, toSpawn)'
  <2>0. \A i \in DOMAIN w : \A k : k \in RecordOf(Level, w[i]) <=>
            k \in DOMAIN records[Level] /\ i \in Actors(Level) /\ Matches(Level, k, i)
    BY DEF RecordOf, Matches, Actors
  <2>1. ASSUME NEW i \in Actors(Level)', IsAllowed(world'[Level][i])
        PROVE  \E k \in DOMAIN records[Level] \ toSpawn' : Matches(Level, k, i)'
    <3>1. i \in Actors(Level) /\ i \notin doomed /\ i \in DOMAIN w /\ world'[Level][i] = w[i]
      BY <1>2, <1>4, <1>8, <2>1, LoadTypes
    <3>2. RecordOf(Level, w[i]) # {}
      BY <2>1, <3>1 DEF doomed
    <3>3. PICK k : k \in RecordOf(Level, w[i])
      BY <3>2
    <3>4. k \in DOMAIN records[Level] /\ Matches(Level, k, i) /\ k \notin toSpawn'
      BY <1>1, <2>0, <3>1, <3>3
    <3> QED
      BY <1>1, <1>2, <3>1, <3>4 DEF Matches
  <2>2. ASSUME NEW k \in DOMAIN records[Level] \ toSpawn'
        PROVE  \E i \in Actors(Level)' : Matches(Level, k, i)'
    <3>1. PICK i \in DOMAIN w : k \in RecordOf(Level, w[i])
      BY <1>1
    <3>2. i \in Actors(Level) /\ Matches(Level, k, i) /\ i \notin doomed
      BY <1>5, <2>0, <3>1
    <3>3. i \in Actors(Level)' /\ world'[Level][i] = w[i]
      BY <1>2, <1>4, <1>8, <3>1, <3>2
    <3> QED
      BY <1>1, <1>2, <3>2, <3>3 DEF Matches
  <2>3. \A j, k \in DOMAIN records[Level] : records[Level][j].name = records[Level][k].name => j = k
    BY <1>2, <1>11 DEF LoadIInv, NamesInv
  <2> QED
    BY <1>1, <1>2, <2>1, <2>2, <2>3 DEF InStep, IsAllowed
<1>13. PrepareInv'
  <2>1. ASSUME NEW n \in DOMAIN Levels, Levels[n] \in loaded, n < at
        PROVE  InStep(Levels[n], {})'
    <3>1. InStep(Levels[n], {})
      BY <1>1, <2>1 DEF LoadIInv, PrepareInv
    <3>2. Levels[n] # Level
      BY <2>1, LoadTypes DEF Level
    <3> QED
      BY <1>1, <1>3, <2>1, <3>1, <3>2, InStepStays, LoadTypes
  <2>2. toSpawn' \subseteq DOMAIN records[Level]
    BY <1>1
  <2> QED
    BY <1>1, <1>2, <1>11, <1>12, <2>1, <2>2 DEF PrepareInv
<1>14. RestInv' /\ RestoreInv' /\ LoadRestores'
  BY <1>1 DEF RestInv, RestoreInv, LoadRestores
<1> QED
  BY <1>6, <1>10, <1>13, <1>14 DEF LoadIInv
-----------------------------------------------------------------------------
LEMMA NamesAreFree ==
    ASSUME NEW l, NEW m, NEW n \in GivenNames(l, m), m \in Name \cup Fresh
    PROVE  n \in Name \cup Fresh /\ <<l, n>> \notin LivePaths
BY DEF GivenNames

LEMMA RespawnActorKeeps ==
    ASSUME SharesIInv, LoadIInv, NEW k \in toSpawn, NEW n, RespawnActor(k, n)
    PROVE  LoadIInv'
<1> DEFINE record == records[Level][k]
           a == [name |-> n, class |-> record.class, value |-> New, ref |-> None]
           w == world[Level]
           path == <<Level, record.name>>
<1>1. /\ phase = "respawn" /\ phase' = "respawn"
      /\ UNCHANGED <<at, loaded, file, saved, others>>
      /\ n \in GivenNames(Level, record.name)
      /\ world' = [world EXCEPT ![Level] = Append(@, a)]
      /\ records' = [records EXCEPT ![Level][k] = [record EXCEPT !.name = n]]
      /\ toSpawn' = toSpawn \ {k}
      /\ given' = GivenTo(path, n)
  BY DEF RespawnActor
<1>2. Level \in loaded /\ Level' = Level /\ Level \in LevelSet
  BY <1>1, LoadTypes DEF Level, LoadIInv, RecordsInv
<1>3. /\ toSpawn \subseteq DOMAIN records[Level] /\ InStep(Level, toSpawn)
      /\ \A j \in toSpawn : <<Level, file[Level][j].name>> \notin DOMAIN given
      /\ \A m \in DOMAIN Levels : Levels[m] \in loaded /\ m < at => InStep(Levels[m], {})
  BY <1>1 DEF LoadIInv, PrepareInv
<1>4. /\ others = OtherActors
      /\ records = [l \in LevelSet |-> [j \in DOMAIN file[l] |-> RecordNow(l, file[l][j])]]
      /\ \A p \in DOMAIN given : \E m \in DOMAIN Levels : p[1] = Levels[m] /\ m <= at
  BY <1>1 DEF LoadIInv, RecordsInv
<1>5. /\ k \in DOMAIN records[Level] /\ k \in DOMAIN file[Level]
      /\ record = file[Level][k] /\ record \in Actor /\ record.name \in Name \cup Fresh
      /\ path \notin DOMAIN given
  <2>1. k \in DOMAIN records[Level] /\ k \in DOMAIN file[Level]
    BY <1>2, <1>3, <1>4
  <2>2. record = RecordNow(Level, file[Level][k])
    BY <1>2, <1>4, <2>1
  <2>3. <<Level, file[Level][k].name>> \notin DOMAIN given /\ file[Level][k] \in Actor
    BY <1>2, <1>3, <2>1, LoadTypes
  <2>4. record = file[Level][k]
    BY <2>2, <2>3, SameName DEF RecordNow, NameNow
  <2> HIDE DEF record
  <2> QED
    BY <2>1, <2>3, <2>4, ActorFields DEF path
<1>6. n \in Name \cup Fresh /\ <<Level, n>> \notin LivePaths
  BY <1>1, <1>5, NamesAreFree
<1>7. a \in Actor /\ a.name = n /\ a.class = record.class /\ a # NoActor
  <2>1. record.class \in Class
    BY <1>5, ActorFields
  <2> HIDE DEF record
  <2>2. a \in Actor /\ a.name = n /\ a.class = record.class
    BY <1>6, <2>1, ActorSpawned
  <2> QED
    BY <2>2, ActorFields
<1>8. /\ DOMAIN w = 1..Len(w) /\ Len(w) \in Nat /\ w \in Seq(Place)
      /\ world'[Level] = Append(w, a) /\ \A l \in LevelSet : l # Level => world'[l] = world[l]
  <2>1. world \in [LevelSet -> Seq(Place)]
    BY LoadTypes
  <2> HIDE DEF a
  <2> QED
    BY <1>1, <1>2, <2>1, LoadTypes
<1> HIDE DEF a
<1>8a. PICK last \in Nat : last = Len(w) + 1
  BY <1>8
<1>9. /\ DOMAIN world'[Level] = 1..last /\ world'[Level][last] = a
      /\ \A i \in DOMAIN w : world'[Level][i] = w[i] /\ i # last /\ i \in DOMAIN world'[Level]
      /\ \A i \in DOMAIN world'[Level] : i \in DOMAIN w \/ i = last
      /\ last \in DOMAIN world'[Level]
  <2>1. a \in Place
    BY <1>7 DEF Place
  <2> HIDE DEF w, Place
  <2> QED
    BY <1>8, <1>8a, <2>1
<1>10. /\ \A l \in LevelSet : l # Level => Actors(l)' = Actors(l)
       /\ Actors(Level)' = Actors(Level) \cup {last}
  BY <1>2, <1>7, <1>8, <1>9 DEF Actors
<1> DEFINE after == [record EXCEPT !.name = n]
<1>11. /\ after \in Actor /\ after.name = n /\ after.class = record.class
       /\ after.value = record.value /\ after.ref = record.ref
  <2>1. record \in Actor
    BY <1>5
  <2> HIDE DEF record
  <2> QED
    BY <1>6, <2>1 DEF Actor
<1>12. /\ records' = [l \in LevelSet |-> records'[l]]
       /\ records'[Level] = [records[Level] EXCEPT ![k] = after]
       /\ \A l \in LevelSet : l # Level => records'[l] = records[l]
  <2>1. DOMAIN records = LevelSet
    BY LoadTypes
  <2>2. records' = [records EXCEPT ![Level][k] = after]
    BY <1>1
  <2> HIDE DEF after
  <2>3. records' = [records EXCEPT ![Level] = [records[Level] EXCEPT ![k] = after]]
    BY <1>2, <1>5, <2>1, <2>2
  <2> QED
    BY <1>2, <2>1, <2>3
<1> HIDE DEF after
<1>13. /\ DOMAIN records'[Level] = DOMAIN records[Level]
       /\ records'[Level][k] = after
       /\ \A j \in DOMAIN records[Level] : j # k => records'[Level][j] = records[Level][j]
  BY <1>5, <1>12
<1>14. FileInv' /\ NamesInv'
  <2>1. GoodWorld(world')
    BY <1>1, <1>2, <1>6, <1>7, WorldIsGood, WorldGrown
  <2>2. records' \in [LevelSet -> Seq(Actor)]
    <3>1. records[Level] \in Seq(Actor)
      BY <1>2, LoadTypes
    <3>2. records'[Level] \in Seq(Actor)
      <4>1. Len(records[Level]) \in Nat /\ DOMAIN records[Level] = 1..Len(records[Level])
            /\ \A j \in DOMAIN records[Level] : records[Level][j] \in Actor
        BY <3>1, SeqFacts
      <4>2. records'[Level] = [j \in 1..Len(records[Level]) |-> records'[Level][j]]
        BY <1>12, <4>1
      <4>3. \A j \in 1..Len(records[Level]) : records'[Level][j] \in Actor
        BY <1>11, <1>13, <4>1
      <4> QED
        BY <4>1, <4>2, <4>3, FunctionIsSeq
    <3> QED
      BY <1>12, <3>2, LoadTypes
  <2>3. \A l \in LevelSet \ loaded : records'[l] = <<>>
    BY <1>2, <1>12, LoadTypes
  <2> QED
    BY <1>1, <2>1, <2>2, <2>3, LoadingFile DEF GoodWorld
<1>15. OtherActors' = OtherActors
  <2>1. IsAllowed(a)
    BY <1>2, <1>5, <1>7 DEF IsAllowed, LoadIInv, NamesInv
  <2>2. ASSUME NEW l \in LevelSet
        PROVE  {<<l, world[l][i]>> : i \in {j \in Actors(l) : ~IsAllowed(world[l][j])}}
                = {<<l, world'[l][i]>> : i \in {j \in Actors(l)' : ~IsAllowed(world'[l][j])}}
    <3>1. CASE l # Level
      BY <1>8, <1>10, <3>1
    <3>2. CASE l = Level
      <4>1. \A i \in Actors(Level) : world'[Level][i] = w[i] /\ i # last
        BY <1>9 DEF Actors
      <4>2. ~(~IsAllowed(world'[Level][last]))
        BY <1>9, <2>1
      <4>3. \A j : j \in Actors(Level)' /\ ~IsAllowed(world'[Level][j])
                        <=> j \in Actors(Level) /\ ~IsAllowed(w[j])
        BY <1>10, <4>1, <4>2
      <4>4. {j \in Actors(l) : ~IsAllowed(world[l][j])} = {j \in Actors(l)' : ~IsAllowed(world'[l][j])}
        BY <1>2, <3>2, <4>3
      <4> QED
        BY <3>2, <4>1, <4>4
    <3> QED
      BY <3>1, <3>2
  <2> QED
    BY <2>2 DEF OtherActors, IsAllowed
<1>16. /\ DOMAIN given' = DOMAIN given \cup {path} /\ given'[path] = n
       /\ \A p \in DOMAIN given : given'[p] = given[p] /\ p # path
  BY <1>1, <1>5 DEF GivenTo
<1>17. RecordsInv'
  <2>1. ASSUME NEW l \in LevelSet, NEW j \in DOMAIN file[l]
        PROVE  records'[l][j] = RecordNow(l, file[l][j])'
    <3>1. records[l][j] = RecordNow(l, file[l][j])
      BY <1>4
    <3>2. CASE l = Level /\ j = k
      <4>1. records'[l][j] = after
        BY <1>13, <3>2
      <4>2. NameNow(<<l, file[l][j].name>>)' = n
        BY <1>1, <1>5, <1>16, <3>2 DEF NameNow
      <4> QED
        BY <1>1, <1>5, <3>2, <4>1, <4>2 DEF RecordNow, after
    <3>3. CASE ~(l = Level /\ j = k)
      <4>1. <<l, file[l][j].name>> # path
        <5>1. CASE l # Level
          BY <5>1
        <5>2. CASE l = Level
          <6>1. j # k /\ k \in DOMAIN file[l] /\ record = file[l][k]
            BY <1>5, <3>3, <5>2
          <6>2. file[l][j].name # file[l][k].name
            BY <6>1 DEF LoadIInv, NamesInv
          <6> QED
            BY <6>1, <6>2
        <5> QED
          BY <5>1, <5>2
      <4>2. NameNow(<<l, file[l][j].name>>)' = NameNow(<<l, file[l][j].name>>)
        BY <1>1, <1>16, <4>1 DEF NameNow
      <4>3. records'[l][j] = records[l][j]
        <5>1. j \in DOMAIN records[l]
          BY <1>4
        <5> QED
          BY <1>12, <1>13, <3>3, <5>1
      <4> QED
        BY <1>1, <3>1, <4>2, <4>3 DEF RecordNow
    <3> QED
      BY <3>2, <3>3
  <2>2. ASSUME NEW l \in LevelSet
        PROVE  records'[l] = [j \in DOMAIN file[l] |-> RecordNow(l, file[l][j])']
    <3>1. DOMAIN records[l] = DOMAIN file[l]
      BY <1>4
    <3>2. records'[l] = [j \in DOMAIN records[l] |-> records'[l][j]]
      <4>1. CASE l = Level
        BY <1>12, <4>1
      <4>2. CASE l # Level
        BY <1>4, <1>12, <4>2
      <4> QED
        BY <4>1, <4>2
    <3> QED
      BY <2>1, <3>1, <3>2
  <2>3. records' = [l \in LevelSet |-> [j \in DOMAIN file[l] |-> RecordNow(l, file[l][j])']]
    BY <1>12, <2>2
  <2>4. \A p \in DOMAIN given' : \E m \in DOMAIN Levels : p[1] = Levels[m] /\ m <= at
    <3>1. path[1] = Levels[at] /\ at <= at
      BY LoadTypes DEF Level
    <3> QED
      BY <1>4, <1>16, <3>1, LoadTypes
  <2> QED
    BY <1>1, <1>2, <1>4, <1>15, <2>3, <2>4 DEF RecordsInv
<1>18. InStep(Level, toSpawn)'
  <2>0. /\ DOMAIN records'[Level] \ toSpawn' = (DOMAIN records[Level] \ toSpawn) \cup {k}
        /\ \A i \in Actors(Level) : i \in DOMAIN w
        /\ \A j \in DOMAIN records[Level] \ toSpawn : j # k /\ records'[Level][j] = records[Level][j]
    BY <1>1, <1>5, <1>13 DEF Actors
  <2>1. \A j \in DOMAIN records[Level] \ toSpawn : \A i \in Actors(Level) :
            Matches(Level, j, i)' <=> Matches(Level, j, i)
    BY <1>1, <1>2, <1>9, <2>0 DEF Matches
  <2>2. Matches(Level, k, last)'
    BY <1>1, <1>2, <1>7, <1>9, <1>11, <1>13 DEF Matches
  <2>3. ASSUME NEW i \in Actors(Level)', IsAllowed(world'[Level][i])
        PROVE  \E j \in DOMAIN records'[Level] \ toSpawn' : Matches(Level, j, i)'
    <3>1. CASE i = last
      BY <2>0, <2>2, <3>1
    <3>2. CASE i # last
      <4>1. i \in Actors(Level) /\ IsAllowed(w[i])
        BY <1>9, <1>10, <2>0, <2>3, <3>2
      <4>2. PICK j \in DOMAIN records[Level] \ toSpawn : Matches(Level, j, i)
        BY <1>3, <4>1 DEF InStep
      <4> QED
        BY <2>0, <2>1, <4>1, <4>2
    <3> QED
      BY <3>1, <3>2
  <2>4. ASSUME NEW j \in DOMAIN records'[Level] \ toSpawn'
        PROVE  \E i \in Actors(Level)' : Matches(Level, j, i)'
    <3>1. CASE j = k
      BY <1>10, <2>2, <3>1
    <3>2. CASE j # k
      <4>1. j \in DOMAIN records[Level] \ toSpawn
        BY <2>0, <3>2
      <4>2. PICK i \in Actors(Level) : Matches(Level, j, i)
        BY <1>3, <4>1 DEF InStep
      <4> QED
        BY <1>10, <2>1, <4>1, <4>2
    <3> QED
      BY <3>1, <3>2
  <2>5. ASSUME NEW j \in DOMAIN records[Level] \ toSpawn
        PROVE  records'[Level][j].name # n
    <3>1. PICK i \in Actors(Level) : Matches(Level, j, i)
      BY <1>3 DEF InStep
    <3>2. <<Level, world[Level][i].name>> \in LivePaths
      BY <1>2 DEF LivePaths
    <3> QED
      BY <1>6, <2>0, <3>1, <3>2 DEF Matches
  <2>6. \A i, j \in DOMAIN records'[Level] \ toSpawn' :
            records'[Level][i].name = records'[Level][j].name => i = j
    <3>1. \A i, j \in DOMAIN records[Level] \ toSpawn :
            records[Level][i].name = records[Level][j].name => i = j
      BY <1>3 DEF InStep
    <3>2. records'[Level][k].name = n
      BY <1>11, <1>13
    <3> QED
      BY <2>0, <2>5, <3>1, <3>2
  <2> QED
    BY <1>1, <1>2, <2>3, <2>4, <2>6 DEF InStep, IsAllowed
<1>19. PrepareInv'
  <2>1. ASSUME NEW m \in DOMAIN Levels, Levels[m] \in loaded, m < at
        PROVE  InStep(Levels[m], {})'
    <3>1. InStep(Levels[m], {}) /\ Levels[m] \in LevelSet
      BY <1>3, <2>1, LoadTypes
    <3>2. Levels[m] # Level
      BY <2>1, LoadTypes DEF Level
    <3> QED
      BY <1>8, <1>12, <3>1, <3>2, InStepStays
  <2>2. /\ toSpawn' \subseteq DOMAIN records'[Level]
        /\ \A j \in toSpawn' : <<Level, file[Level][j].name>> \notin DOMAIN given'
    <3>1. ASSUME NEW j \in toSpawn'
          PROVE  <<Level, file[Level][j].name>> # path
      <4>1. j \in DOMAIN file[Level] /\ j # k
        BY <1>1, <1>2, <1>3, <1>4
      <4> QED
        BY <1>2, <1>5, <4>1 DEF LoadIInv, NamesInv
    <3> QED
      BY <1>1, <1>3, <1>13, <1>16, <3>1
  <2> QED
    BY <1>1, <1>2, <1>18, <2>1, <2>2 DEF PrepareInv
<1>20. RestInv' /\ RestoreInv' /\ LoadRestores'
  BY <1>1 DEF RestInv, RestoreInv, LoadRestores
<1> QED
  BY <1>14, <1>17, <1>19, <1>20 DEF LoadIInv
-----------------------------------------------------------------------------
LEMMA RespawnFailsKeeps ==
    ASSUME SharesIInv, LoadIInv, NEW k, RespawnFails(k)
    PROVE  LoadIInv'
<1>1. phase' = "broken" /\ UNCHANGED <<loaded, world, records, file, saved>>
  BY DEF RespawnFails
<1>2. GoodWorld(world)'
  BY <1>1, WorldIsGood DEF GoodWorld
<1> QED
  BY <1>1, <1>2, RestingKeeps

LEMMA PrepareNextLevelKeeps ==
    ASSUME SharesIInv, LoadIInv, PrepareNextLevel
    PROVE  LoadIInv'
<1>1. /\ phase = "respawn" /\ toSpawn = {} /\ phase' \in {"prepare", "restore"}
      /\ UNCHANGED <<loaded, world, records, toSpawn, file, saved, others, given>>
      /\ phase' = "restore" => IsLast /\ at' = 1
      /\ phase' = "prepare" => at' \in DOMAIN Levels /\ IsNext(at')
  BY DEF PrepareNextLevel, NextLevels
<1>2. FileInv' /\ NamesInv'
  <2>1. GoodWorld(world)'
    BY <1>1, WorldIsGood DEF GoodWorld
  <2> QED
    BY <1>1, <2>1, LoadTypes, LoadingFile
<1>3. RecordsInv'
  <2>1. /\ others = OtherActors
        /\ records = [l \in LevelSet |-> [k \in DOMAIN file[l] |-> RecordNow(l, file[l][k])]]
        /\ \A path \in DOMAIN given : \E n \in DOMAIN Levels : path[1] = Levels[n] /\ n <= at
    BY <1>1 DEF LoadIInv, RecordsInv
  <2>2. Level' \in loaded
    BY <1>1, LoadTypes DEF Level, IsNext
  <2>3. OtherActors' = OtherActors /\ \A l, r : RecordNow(l, r)' = RecordNow(l, r)
    BY <1>1 DEF OtherActors, Actors, RecordNow, NameNow
  <2>4. ASSUME NEW path \in DOMAIN given
        PROVE  \E n \in DOMAIN Levels : path[1] = Levels[n] /\ (phase' = "prepare" => n < at')
    <3>1. PICK n \in DOMAIN Levels : path[1] = Levels[n] /\ n <= at
      BY <2>1
    <3>2. phase' = "prepare" => n < at'
      BY <1>1, <3>1, LoadTypes DEF IsNext
    <3> QED
      BY <3>1, <3>2
  <2> QED
    BY <1>1, <2>1, <2>2, <2>3, <2>4 DEF RecordsInv
<1>4. ASSUME NEW n \in DOMAIN Levels, Levels[n] \in loaded, n <= at
      PROVE  InStep(Levels[n], {})'
  <2>1. InStep(Levels[n], {})
    <3>1. CASE n = at
      BY <1>1, <3>1 DEF LoadIInv, PrepareInv, Level
    <3>2. CASE n < at
      BY <1>1, <1>4, <3>2 DEF LoadIInv, PrepareInv
    <3> QED
      BY <1>4, <3>1, <3>2, LoadTypes
  <2> QED
    BY <1>1, <2>1, InStepStays
<1>5. PrepareInv'
  <2>1. ASSUME phase' = "prepare", NEW n \in DOMAIN Levels, Levels[n] \in loaded, n < at'
        PROVE  InStep(Levels[n], {})'
    <3>1. n <= at
      <4>1. IsNext(at') /\ at' \in DOMAIN Levels
        BY <1>1, <2>1
      <4>2. n \in Nat /\ at \in Nat /\ at' \in Nat
        BY <4>1, LoadTypes
      <4>3. n \notin (at + 1)..(at' - 1)
        BY <2>1, <4>1 DEF IsNext
      <4> QED
        BY <2>1, <4>2, <4>3
    <3> QED
      BY <1>4, <2>1, <3>1
  <2>2. ASSUME phase' = "restore", NEW l \in loaded
        PROVE  InStep(l, {})'
    <3>1. PICK n \in DOMAIN Levels : l = Levels[n]
      BY KnownLevels, LoadTypes
    <3>2. n <= at
      BY <1>1, <2>2, <3>1, LoadTypes DEF IsLast
    <3> QED
      BY <1>4, <3>1, <3>2
  <2> QED
    BY <1>1, <2>1, <2>2 DEF PrepareInv
<1>6. RestoreInv'
  <2>1. \A n \in DOMAIN Levels : ~(n < 1)
    BY LoadTypes
  <2> QED
    BY <1>1, <2>1 DEF RestoreInv
<1>7. RestInv' /\ LoadRestores'
  BY <1>1 DEF RestInv, LoadRestores
<1> QED
  BY <1>2, <1>3, <1>5, <1>6, <1>7 DEF LoadIInv
-----------------------------------------------------------------------------
(* In a level that is in step there are as many actors as records. *)
LEMMA AsManyActors ==
    ASSUME SharesIInv, LoadIInv, phase = "restore", NEW l \in loaded
    PROVE  Cardinality({i \in Actors(l) : IsAllowed(world[l][i])}) = Len(file[l])
<1> DEFINE S == {i \in Actors(l) : IsAllowed(world[l][i])}
           n == Len(file[l])
<1>0. /\ l \in LevelSet /\ file[l] \in Seq(Actor) /\ InStep(l, {})
      /\ records[l] = [k \in DOMAIN file[l] |-> RecordNow(l, file[l][k])]
      /\ \A k \in DOMAIN file[l] : file[l][k] \in Actor /\ file[l][k].class \in Allowed
  BY LoadTypes DEF LoadIInv, RecordsInv, PrepareInv, NamesInv
<1>1. n \in Nat /\ DOMAIN file[l] = 1..n /\ DOMAIN records[l] = 1..n
  BY <1>0
<1>2. \A k \in 1..n : records[l][k].class \in Allowed
  <2> SUFFICES ASSUME NEW k \in 1..n
               PROVE  records[l][k].class \in Allowed
    OBVIOUS
  <2>1. file[l][k] \in Actor /\ file[l][k].class \in Allowed /\ records[l][k] = RecordNow(l, file[l][k])
    BY <1>0, <1>1
  <2>2. records[l][k].class = file[l][k].class
    BY <2>1 DEF RecordNow, Actor
  <2> QED
    BY <2>1, <2>2
<1>3. /\ \A k \in 1..n : \E i \in Actors(l) : Matches(l, k, i)
      /\ \A i \in S : \E k \in 1..n : Matches(l, k, i)
      /\ \A j, k \in 1..n : records[l][j].name = records[l][k].name => j = k
  BY <1>0, <1>1 DEF InStep
<1>4. \A k \in 1..n : \A i \in Actors(l) : Matches(l, k, i) => i \in S
  BY <1>2 DEF Matches, IsAllowed, Actors
<1>5. \A i, j \in Actors(l) : world[l][i].name = world[l][j].name => i = j
  BY <1>0 DEF LoadIInv, NamesInv
<1> HIDE DEF S, n
<1> DEFINE f == [k \in 1..n |-> CHOOSE i \in Actors(l) : Matches(l, k, i)]
<1>6. \A k \in 1..n : f[k] \in S /\ f[k] \in Actors(l) /\ Matches(l, k, f[k])
  BY <1>3, <1>4
<1>7. f \in [1..n -> S]
  BY <1>6
<1> HIDE DEF f
<1>8. \A j, k \in 1..n : f[j] = f[k] => j = k
  BY <1>3, <1>6 DEF Matches
<1>9. \A i \in S : \E k \in 1..n : f[k] = i
  <2> SUFFICES ASSUME NEW i \in S
               PROVE  \E k \in 1..n : f[k] = i
    OBVIOUS
  <2>1. PICK k \in 1..n : Matches(l, k, i)
    BY <1>3
  <2>2. f[k] = i
    BY <1>5, <1>6, <2>1 DEF Matches, S
  <2> QED
    BY <2>2
<1>10. f \in Bijection(1..n, S)
  BY <1>7, <1>8, <1>9, Fun_IsBij
<1>11. Cardinality(S) = n
  BY <1>1, <1>10, FS_CountingElements DEF ExistsBijection
<1> QED
  BY <1>11 DEF S, n

(* What RestoreLevel does to the actors of its level. *)
LEMMA RestoreLevelIs ==
    ASSUME SharesIInv, LoadIInv, RestoreLevel
    PROVE  /\ phase = "restore" /\ Level \in loaded /\ Level \in LevelSet
           /\ world' = [l \in LevelSet |-> world'[l]]
           /\ \A l \in LevelSet : /\ l # Level => world'[l] = world[l]
                                  /\ world'[l] = [i \in DOMAIN world[l] |-> world'[l][i]]
                                  /\ Actors(l)' = Actors(l)
           /\ \A l \in LevelSet : \A i \in DOMAIN world[l] : world[l][i] = NoActor => world'[l][i] = NoActor
           /\ \A l \in LevelSet : \A i \in Actors(l) :
                /\ world'[l][i] \in Actor
                /\ world'[l][i].name = world[l][i].name /\ world'[l][i].class = world[l][i].class
                /\ ~IsAllowed(world[l][i]) => world'[l][i] = world[l][i]
                /\ l = Level => \A k \in DOMAIN records[l] : Matches(l, k, i) =>
                        /\ world'[l][i].value = records[l][k].value
                        /\ world'[l][i].ref = Resolved(records[l][k].ref)
<1> DEFINE w == world[Level]
           v == [i \in DOMAIN w |-> Restored(Level, w[i])]
<1>1. phase = "restore" /\ world' = [world EXCEPT ![Level] = v]
  BY DEF RestoreLevel
<1>2. Level \in loaded /\ Level \in LevelSet /\ DOMAIN world = LevelSet /\ InStep(Level, {})
  BY <1>1, LoadTypes DEF LoadIInv, RecordsInv, PrepareInv
<1>3. /\ world' = [l \in LevelSet |-> world'[l]] /\ world'[Level] = v
      /\ \A l \in LevelSet : l # Level => world'[l] = world[l]
  <2> HIDE DEF v
  <2> QED
    BY <1>1, <1>2
<1>4. ASSUME NEW i \in Actors(Level)
      PROVE  /\ Restored(Level, w[i]) \in Actor
             /\ Restored(Level, w[i]).name = w[i].name /\ Restored(Level, w[i]).class = w[i].class
             /\ ~IsAllowed(w[i]) => Restored(Level, w[i]) = w[i]
             /\ \A k \in DOMAIN records[Level] : Matches(Level, k, i) =>
                        /\ Restored(Level, w[i]).value = records[Level][k].value
                        /\ Restored(Level, w[i]).ref = Resolved(records[Level][k].ref)
  <2> DEFINE a == w[i]
             found == RecordOf(Level, a)
             b == Restored(Level, a)
  <2>0. a \in Actor /\ a # NoActor
    BY <1>2, LoadTypes DEF Actors
  <2>1. CASE ~(IsAllowed(a) /\ found # {})
    <3>1. b = a
      BY <2>1 DEF Restored
    <3>2. ASSUME NEW k \in DOMAIN records[Level], Matches(Level, k, i)
          PROVE  FALSE
      <4>1. k \in found
        BY <2>0, <3>2 DEF RecordOf, Matches
      <4>2. a.class = records[Level][k].class
        BY <3>2 DEF Matches
      <4>3. k \in DOMAIN file[Level] /\ records[Level][k] = RecordNow(Level, file[Level][k])
        BY <1>1, <1>2, <3>2 DEF LoadIInv, RecordsInv
      <4>4. file[Level][k] \in Actor /\ file[Level][k].class \in Allowed
        BY <1>2, <4>3, LoadTypes DEF LoadIInv, NamesInv
      <4>5. records[Level][k].class = file[Level][k].class
        BY <4>3, <4>4 DEF RecordNow, Actor
      <4> QED
        BY <2>0, <2>1, <4>1, <4>2, <4>4, <4>5 DEF IsAllowed
    <3> HIDE DEF a, b
    <3>3. /\ b \in Actor /\ b.name = a.name /\ b.class = a.class
          /\ ~IsAllowed(a) => b = a
      BY <2>0, <3>1
    <3> QED
      BY <3>2, <3>3 DEF a, b
  <2>2. CASE IsAllowed(a) /\ found # {}
    <3> DEFINE m == CHOOSE k \in found : TRUE
               record == records[Level][m]
    <3>1. m \in found
      BY <2>2
    <3>2. m \in DOMAIN records[Level] /\ record.name = a.name
      BY <3>1 DEF RecordOf
    <3>3. b = [a EXCEPT !.value = record.value, !.ref = Resolved(record.ref)]
      BY <2>2 DEF Restored
    <3> HIDE DEF m
    <3>4. record \in Actor
      BY <1>2, <3>2, LoadTypes
    <3>5. record.value \in Value /\ Resolved(record.ref) \in Path \cup {None}
      BY <3>4, ActorFields DEF Resolved
    <3> HIDE DEF record, a, b
    <3>6. /\ b \in Actor /\ b.name = a.name /\ b.class = a.class
          /\ b.value = record.value /\ b.ref = Resolved(record.ref)
      BY <2>0, <3>3, <3>5 DEF Actor
    <3>7. ASSUME NEW k \in DOMAIN records[Level], Matches(Level, k, i)
          PROVE  k = m
      <4>1. records[Level][k].name = records[Level][m].name
        BY <3>2, <3>7 DEF Matches, record, a
      <4> QED
        BY <1>2, <3>2, <4>1 DEF InStep
    <3> QED
      BY <2>2, <3>6, <3>7 DEF a, b, record
  <2> QED
    BY <2>1, <2>2
<1>5. \A i \in DOMAIN w : w[i] = NoActor => Restored(Level, w[i]) = NoActor
  BY DEF Restored, IsAllowed
<1> HIDE DEF w
<1>6. /\ DOMAIN world'[Level] = DOMAIN w
      /\ \A i \in DOMAIN w : world'[Level][i] = Restored(Level, w[i])
  BY <1>3
<1> HIDE DEF v
<1>7. \A l \in LevelSet : \A i \in DOMAIN world[l] : world[l][i] = NoActor => world'[l][i] = NoActor
  BY <1>3, <1>5, <1>6 DEF w
<1>8. ASSUME NEW l \in LevelSet
      PROVE  world'[l] = [i \in DOMAIN world[l] |-> world'[l][i]] /\ Actors(l)' = Actors(l)
  <2>1. CASE l = Level
    <3>1. \A i \in DOMAIN w : world'[Level][i] # NoActor <=> w[i] # NoActor
      <4>1. \A i \in Actors(Level) : world'[Level][i] \in Actor
        BY <1>4, <1>6 DEF w, Actors
      <4> QED
        BY <1>5, <1>6, <4>1, ActorFields DEF w, Actors
    <3> QED
      BY <1>3, <1>6, <2>1, <3>1 DEF w, Actors, v
  <2>2. CASE l # Level
    BY <1>3, <2>2, LoadTypes DEF Actors
  <2> QED
    BY <2>1, <2>2
<1>9. ASSUME NEW l \in LevelSet, NEW i \in Actors(l)
      PROVE  /\ world'[l][i] \in Actor
             /\ world'[l][i].name = world[l][i].name /\ world'[l][i].class = world[l][i].class
             /\ ~IsAllowed(world[l][i]) => world'[l][i] = world[l][i]
             /\ l = Level => \A k \in DOMAIN records[l] : Matches(l, k, i) =>
                     /\ world'[l][i].value = records[l][k].value
                     /\ world'[l][i].ref = Resolved(records[l][k].ref)
  <2>1. CASE l = Level
    <3>1. i \in DOMAIN w /\ i \in Actors(Level)
      BY <2>1 DEF w, Actors
    <3> QED
      BY <1>4, <1>6, <2>1, <3>1 DEF w
  <2>2. CASE l # Level
    BY <1>3, <2>2, LoadTypes
  <2> QED
    BY <2>1, <2>2
<1> QED
  BY <1>1, <1>2, <1>3, <1>7, <1>8, <1>9
-----------------------------------------------------------------------------
LEMMA RestoreKeepsPaths ==
    ASSUME SharesIInv, LoadIInv, RestoreLevel
    PROVE  LivePaths' = LivePaths /\ OtherActors' = OtherActors
<1>1. \A l \in LevelSet : Actors(l)' = Actors(l)
  BY RestoreLevelIs
<1>2. \A l \in LevelSet : \A i \in Actors(l) : world'[l][i].name = world[l][i].name
  BY RestoreLevelIs
<1>3. \A l \in LevelSet : \A i \in Actors(l) :
        /\ IsAllowed(world'[l][i]) <=> IsAllowed(world[l][i])
        /\ ~IsAllowed(world[l][i]) => world'[l][i] = world[l][i]
  <2> SUFFICES ASSUME NEW l \in LevelSet, NEW i \in Actors(l)
               PROVE  /\ IsAllowed(world'[l][i]) <=> IsAllowed(world[l][i])
                      /\ ~IsAllowed(world[l][i]) => world'[l][i] = world[l][i]
    OBVIOUS
  <2>1. /\ world'[l][i] \in Actor /\ world'[l][i].class = world[l][i].class
        /\ ~IsAllowed(world[l][i]) => world'[l][i] = world[l][i]
    BY RestoreLevelIs
  <2>2. world'[l][i] # NoActor /\ world[l][i] # NoActor
    BY <2>1, ActorFields DEF Actors
  <2> QED
    BY <2>1, <2>2 DEF IsAllowed
<1>4. LivePaths' = LivePaths
  <2>1. \A l \in LevelSet : {<<l, world'[l][i].name>> : i \in Actors(l)'}
                                = {<<l, world[l][i].name>> : i \in Actors(l)}
    BY <1>1, <1>2
  <2> QED
    BY <2>1 DEF LivePaths
<1>5. OtherActors' = OtherActors
  <2>1. ASSUME NEW l \in LevelSet
        PROVE  {<<l, world'[l][i]>> : i \in {j \in Actors(l)' : ~IsAllowed(world'[l][j])}}
                = {<<l, world[l][i]>> : i \in {j \in Actors(l) : ~IsAllowed(world[l][j])}}
    <3>1. {j \in Actors(l)' : ~IsAllowed(world'[l][j])} = {j \in Actors(l) : ~IsAllowed(world[l][j])}
      BY <1>1, <1>3
    <3> QED
      BY <1>3, <3>1
  <2> QED
    BY <2>1 DEF OtherActors, IsAllowed
<1> QED
  BY <1>4, <1>5

LEMMA RestoreKeepsInStep ==
    ASSUME SharesIInv, LoadIInv, RestoreLevel, NEW l \in loaded, records'[l] = records[l]
    PROVE  InStep(l, {})'
<1>1. l \in LevelSet /\ InStep(l, {}) /\ Actors(l)' = Actors(l)
  BY RestoreLevelIs, LoadTypes DEF LoadIInv, PrepareInv
<1>2. \A i \in Actors(l) : /\ world'[l][i] \in Actor /\ world'[l][i].name = world[l][i].name
                           /\ world'[l][i].class = world[l][i].class
  BY <1>1, RestoreLevelIs
<1>3. \A k : \A i \in Actors(l) : Matches(l, k, i)' <=> Matches(l, k, i)
  BY <1>2 DEF Matches
<1>4. \A i \in Actors(l) : IsAllowed(world'[l][i]) => IsAllowed(world[l][i])
  BY <1>2 DEF IsAllowed, Actors
<1> QED
  BY <1>1, <1>3, <1>4 DEF InStep, IsAllowed

(* The levels up to this one have their values. *)
LEMMA RestoredSoFar ==
    ASSUME SharesIInv, LoadIInv, RestoreLevel,
           NEW n \in DOMAIN Levels, Levels[n] \in loaded, n <= at,
           NEW k \in DOMAIN records[Levels[n]], NEW i \in Actors(Levels[n]),
           Matches(Levels[n], k, i)
    PROVE  /\ world'[Levels[n]][i].value = records[Levels[n]][k].value
           /\ world'[Levels[n]][i].ref = Resolved(records[Levels[n]][k].ref)
<1>1. Levels[n] \in LevelSet /\ phase = "restore"
  BY LoadTypes, RestoreLevelIs
<1>2. CASE n = at
  BY <1>1, <1>2, RestoreLevelIs DEF Level
<1>3. CASE n < at
  <2>1. Levels[n] # Level
    BY <1>3, LoadTypes DEF Level
  <2>2. world'[Levels[n]] = world[Levels[n]]
    BY <1>1, <2>1, RestoreLevelIs
  <2> QED
    BY <1>1, <1>3, <2>2 DEF LoadIInv, RestoreInv
<1> QED
  BY <1>2, <1>3, LoadTypes

(* A reference to a recorded actor is whole, unless that actor could not   *)
(* have its name back.                                                     *)
LEMMA ReferencesAreBack ==
    ASSUME SharesIInv, LoadIInv, phase = "restore", NEW ref \in Path \cup {None}
    PROVE  IsBack(Resolved(ref), ref)
<1>1. CASE ref \in LivePaths \/ ref = None
  BY <1>1 DEF Resolved, IsBack
<1>2. CASE ref \notin LivePaths /\ ref # None
  <2>1. ref \in Path
    BY <1>2
  <2>2. ref[1] \in LevelSet /\ ref = <<ref[1], ref[2]>>
    BY <2>1 DEF Path
  <2>3. ASSUME NEW k \in DOMAIN saved[ref[1]], saved[ref[1]][k].name = ref[2], ~Renamed(ref)
        PROVE  FALSE
    <3> DEFINE l == ref[1]
    <3>1. file = saved /\ l \in LevelSet
      BY <2>2 DEF LoadIInv, FileInv
    <3>2. k \in DOMAIN file[l] /\ file[l][k].name = ref[2] /\ file[l][k] \in Actor
      BY <2>3, <3>1, LoadTypes
    <3>3. l \in loaded
      <4>1. l \notin loaded => file[l] = <<>>
        BY <3>1, LoadTypes
      <4>2. DOMAIN <<>> = {}
        OBVIOUS
      <4> QED
        BY <3>2, <4>1, <4>2
    <3>4. k \in DOMAIN records[l] /\ records[l][k] = RecordNow(l, file[l][k])
      BY <3>1, <3>2 DEF LoadIInv, RecordsInv
    <3>5. NameNow(<<l, file[l][k].name>>) = ref[2]
      BY <2>2, <2>3, <3>2 DEF NameNow, Renamed
    <3>6. records[l][k].name = ref[2]
      BY <3>2, <3>4, <3>5 DEF RecordNow, Actor
    <3>7. PICK i \in Actors(l) : Matches(l, k, i)
      BY <3>3, <3>4 DEF LoadIInv, PrepareInv, InStep
    <3>8. <<l, world[l][i].name>> \in LivePaths
      BY <3>1 DEF LivePaths
    <3>9. ref = <<l, world[l][i].name>>
      BY <2>2, <3>6, <3>7 DEF Matches
    <3> QED
      BY <1>2, <3>8, <3>9
  <2> QED
    BY <1>2, <2>3 DEF IsBack
<1> QED
  BY <1>1, <1>2

LEMMA RestoreLevelKeeps ==
    ASSUME SharesIInv, LoadIInv, RestoreLevel
    PROVE  LoadIInv'
<1>1. /\ phase = "restore" /\ phase' \in {"restore", "loaded"}
      /\ UNCHANGED <<loaded, file, saved, others, given>>
      /\ phase' = "restore" => records' = records /\ at' \in DOMAIN Levels /\ IsNext(at')
      /\ phase' = "loaded" => IsLast /\ records' = [records EXCEPT ![Levels[1]] = <<>>]
  BY DEF RestoreLevel, NextLevels
<1>2. FileInv' /\ NamesInv'
  <2>1. \A l \in LevelSet : \A i \in DOMAIN world[l] :
            /\ world'[l][i] \in Place
            /\ world'[l][i] # NoActor => world[l][i] # NoActor /\ world'[l][i].name = world[l][i].name
    <3> SUFFICES ASSUME NEW l \in LevelSet, NEW i \in DOMAIN world[l]
                 PROVE  /\ world'[l][i] \in Place
                        /\ world'[l][i] # NoActor =>
                                world[l][i] # NoActor /\ world'[l][i].name = world[l][i].name
      OBVIOUS
    <3>1. CASE world[l][i] = NoActor
      BY <3>1, RestoreLevelIs DEF Place
    <3>2. CASE i \in Actors(l)
      BY <3>2, RestoreLevelIs DEF Place, Actors
    <3> QED
      BY <3>1, <3>2 DEF Actors
  <2>2. GoodWorld(world')
    BY <2>1, RestoreLevelIs, WorldIsGood, WorldMapped
  <2>3. records' \in [LevelSet -> Seq(Actor)] /\ \A l \in LevelSet \ loaded : records'[l] = <<>>
    <3>1. records \in [LevelSet -> Seq(Actor)] /\ \A l \in LevelSet \ loaded : records[l] = <<>>
      BY LoadTypes
    <3>2. CASE phase' = "restore"
      BY <1>1, <3>1, <3>2
    <3>3. CASE phase' = "loaded"
      <4>1. Levels[1] \in LevelSet /\ records' = [records EXCEPT ![Levels[1]] = <<>>]
        BY <1>1, <3>3, LoadTypes
      <4> QED
        BY <3>1, <4>1, EmptiedRecords
    <3> QED
      BY <1>1, <3>2, <3>3
  <2> QED
    BY <1>1, <2>2, <2>3, LoadingFile DEF GoodWorld
<1>3. others = OtherActors /\ OtherActors' = OtherActors /\ LivePaths' = LivePaths
  BY <1>1, RestoreKeepsPaths DEF LoadIInv, RecordsInv
<1>4. RecordsInv'
  <2> SUFFICES ASSUME phase' = "restore"
               PROVE  RecordsInv'
    BY <1>1 DEF RecordsInv
  <2>1. \A l, r : RecordNow(l, r)' = RecordNow(l, r)
    BY <1>1 DEF RecordNow, NameNow
  <2>2. Level' \in loaded
    BY <1>1 DEF IsNext, Level
  <2>3. /\ records = [l \in LevelSet |-> [k \in DOMAIN file[l] |-> RecordNow(l, file[l][k])]]
        /\ \A path \in DOMAIN given : \E n \in DOMAIN Levels : path[1] = Levels[n]
    BY <1>1 DEF LoadIInv, RecordsInv
  <2> QED
    BY <1>1, <1>3, <2>1, <2>2, <2>3 DEF RecordsInv
<1>5. PrepareInv'
  BY <1>1, RestoreKeepsInStep DEF PrepareInv
<1>6. RestoreInv'
  <2> SUFFICES ASSUME phase' = "restore", NEW n \in DOMAIN Levels, Levels[n] \in loaded, n < at',
                      NEW k \in DOMAIN records[Levels[n]], NEW i \in Actors(Levels[n])',
                      Matches(Levels[n], k, i)'
               PROVE  /\ world'[Levels[n]][i].value = records[Levels[n]][k].value
                      /\ world'[Levels[n]][i].ref = Resolved(records[Levels[n]][k].ref)'
    BY <1>1 DEF RestoreInv
  <2>1. n <= at
    <3>1. IsNext(at') /\ at' \in DOMAIN Levels
      BY <1>1
    <3>2. n \in Nat /\ at \in Nat /\ at' \in Nat
      BY <3>1, LoadTypes
    <3>3. n \notin (at + 1)..(at' - 1)
      BY <3>1 DEF IsNext
    <3> QED
      BY <3>2, <3>3
  <2>2. i \in Actors(Levels[n]) /\ Levels[n] \in LevelSet
    BY LoadTypes, RestoreLevelIs
  <2>3. Matches(Levels[n], k, i)
    BY <1>1, <2>2, RestoreLevelIs DEF Matches
  <2> QED
    BY <1>1, <1>3, <2>1, <2>2, <2>3, RestoredSoFar DEF Resolved
<1>7. LoadRestores'
  <2> SUFFICES ASSUME phase' = "loaded"
               PROVE  LoadRestores'
    BY DEF LoadRestores
  <2>1. ASSUME NEW l \in loaded
        PROVE  Cardinality({i \in Actors(l)' : IsAllowed(world'[l][i])}) = Len(saved[l])
    <3>1. l \in LevelSet /\ file = saved
      BY LoadTypes DEF LoadIInv, FileInv
    <3>2. Actors(l)' = Actors(l)
      BY <3>1, RestoreLevelIs
    <3>3. \A i \in Actors(l) : IsAllowed(world'[l][i]) <=> IsAllowed(world[l][i])
      <4> SUFFICES ASSUME NEW i \in Actors(l)
                   PROVE  IsAllowed(world'[l][i]) <=> IsAllowed(world[l][i])
        OBVIOUS
      <4>1. world'[l][i] \in Actor /\ world'[l][i].class = world[l][i].class
        BY <3>1, RestoreLevelIs
      <4>2. world'[l][i] # NoActor /\ world[l][i] # NoActor
        BY <4>1, ActorFields DEF Actors
      <4> QED
        BY <4>1, <4>2 DEF IsAllowed
    <3>4. {i \in Actors(l)' : IsAllowed(world'[l][i])} = {i \in Actors(l) : IsAllowed(world[l][i])}
      BY <3>2, <3>3
    <3> QED
      BY <1>1, <3>1, <3>4, AsManyActors
  <2>2. ASSUME NEW l \in loaded, NEW k \in DOMAIN saved[l]
        PROVE  \E i \in Actors(l)' :
                 /\ world'[l][i].name = NameNow(<<l, saved[l][k].name>>)
                 /\ world'[l][i].class = saved[l][k].class
                 /\ world'[l][i].value = saved[l][k].value
                 /\ IsBack(world'[l][i].ref, saved[l][k].ref)
    <3>1. l \in LevelSet /\ file = saved
      BY LoadTypes DEF LoadIInv, FileInv
    <3> DEFINE then == saved[l][k]
               record == records[l][k]
    <3>2. then \in Actor /\ k \in DOMAIN records[l] /\ record = RecordNow(l, then)
      BY <1>1, <2>2, <3>1, LoadTypes DEF LoadIInv, RecordsInv
    <3> HIDE DEF then, record
    <3>3. /\ record.name = NameNow(<<l, then.name>>) /\ record.class = then.class
          /\ record.value = then.value /\ record.ref = then.ref
      BY <3>2 DEF RecordNow, Actor
    <3>4. PICK i \in Actors(l) : Matches(l, k, i)
      BY <1>1, <3>2 DEF LoadIInv, PrepareInv, InStep
    <3>5. PICK n \in DOMAIN Levels : l = Levels[n]
      BY <3>1, KnownLevels
    <3>6. n <= at
      BY <1>1, <2>2, <3>5, LoadTypes DEF IsLast
    <3>7. world'[l][i].value = record.value /\ world'[l][i].ref = Resolved(record.ref)
      BY <2>2, <3>2, <3>4, <3>5, <3>6, RestoredSoFar DEF record
    <3>8. i \in Actors(l)' /\ world'[l][i].name = record.name /\ world'[l][i].class = record.class
      BY <3>1, <3>4, RestoreLevelIs DEF Matches, record
    <3>9. IsBack(Resolved(then.ref), then.ref)
      BY <1>1, <3>2, ActorFields, ReferencesAreBack
    <3> QED
      BY <3>3, <3>7, <3>8, <3>9 DEF then
  <2>3. /\ \A path : NameNow(path)' = NameNow(path)
        /\ \A ref, before : IsBack(ref, before)' <=> IsBack(ref, before)
    BY <1>1 DEF NameNow, IsBack, Renamed
  <2> QED
    BY <1>1, <1>3, <2>1, <2>2, <2>3 DEF LoadRestores, IsAllowed
<1>8. RestInv'
  <2> SUFFICES ASSUME phase' = "loaded", NEW l \in LevelSet, records'[l] # <<>>
               PROVE  /\ \A j, k \in DOMAIN records'[l] :
                            records'[l][j].name = records'[l][k].name => j = k
                      /\ \A k \in DOMAIN records'[l] :
                            records'[l][k] # NoActor /\ records'[l][k].class \in Allowed
    BY <1>1 DEF RestInv
  <2>1. records'[l] = records[l] /\ l \in loaded
    BY <1>1, LoadTypes
  <2>2. \A j, k \in DOMAIN records[l] : records[l][j].name = records[l][k].name => j = k
    BY <1>1, <2>1 DEF LoadIInv, PrepareInv, InStep
  <2>3. ASSUME NEW k \in DOMAIN records[l]
        PROVE  records[l][k] # NoActor /\ records[l][k].class \in Allowed
    <3>1. k \in DOMAIN file[l] /\ records[l][k] = RecordNow(l, file[l][k])
      BY <1>1, <2>3, LoadTypes DEF LoadIInv, RecordsInv
    <3>2. file[l][k] \in Actor /\ file[l][k].class \in Allowed
      BY <3>1, LoadTypes DEF LoadIInv, NamesInv
    <3>3. records[l][k].class = file[l][k].class
      BY <3>1, <3>2 DEF RecordNow, Actor
    <3>4. records[l][k] \in Actor
      BY LoadTypes
    <3> QED
      BY <3>2, <3>3, <3>4, ActorFields
  <2> QED
    BY <2>1, <2>2, <2>3
<1> QED
  BY <1>2, <1>4, <1>5, <1>6, <1>7, <1>8 DEF LoadIInv
-----------------------------------------------------------------------------
LEMMA InitLoadIInv == Init => LoadIInv
<1> SUFFICES ASSUME Init
             PROVE  LoadIInv
  OBVIOUS
<1>1. GoodWorld(world)
  BY WorldOpened DEF Init
<1>2. records = NoRecords /\ file = NoRecords /\ saved = NoRecords /\ phase = "play"
  BY DEF Init
<1>3. NoRecords \in [LevelSet -> Seq(Actor)] /\ \A l \in LevelSet : NoRecords[l] = <<>>
  BY EmptyRecords
<1>4. FileInv
  BY <1>1, <1>2, <1>3 DEF FileInv, GoodWorld, Place
<1>5. NamesInv /\ RestInv
  BY <1>1, <1>2, <1>3 DEF NamesInv, RestInv, GoodWorld, Unique, Actors
<1>6. RecordsInv /\ PrepareInv /\ RestoreInv /\ LoadRestores
  BY <1>2 DEF RecordsInv, PrepareInv, RestoreInv, LoadRestores
<1> QED
  BY <1>4, <1>5, <1>6 DEF LoadIInv

LEMMA NextKeepsLoadIInv == SharesIInv /\ LoadIInv /\ [Next]_vars => LoadIInv'
<1> SUFFICES ASSUME SharesIInv, LoadIInv, [Next]_vars
             PROVE  LoadIInv'
  OBVIOUS
<1>1. CASE Game
  BY <1>1, GameKeeps
<1>2. CASE Save
  BY <1>2, SaveKeeps
<1>3. CASE Load
  BY <1>3, StartLoadKeeps, PrepareLevelKeeps, PrepareNextLevelKeeps, RestoreLevelKeeps,
     RespawnFailsKeeps, RespawnActorKeeps DEF Load
<1>4. CASE Restart
  BY <1>4, RestartKeeps
<1>5. CASE UNCHANGED vars
  <2>1. FileInv' /\ NamesInv' /\ RestInv'
    BY <1>5 DEF vars, LoadIInv, FileInv, NamesInv, RestInv, InOrder, Actors
  <2>2. RecordsInv'
    BY <1>5 DEF vars, LoadIInv, RecordsInv, Level, OtherActors, Actors,
                IsAllowed, RecordNow, NameNow
  <2>3. PrepareInv'
    BY <1>5 DEF vars, LoadIInv, PrepareInv, Level, InStep, Matches, Actors,
                IsAllowed
  <2>4. RestoreInv'
    BY <1>5 DEF vars, LoadIInv, RestoreInv, Matches, Actors, Resolved,
                LivePaths
  <2>5. LoadRestores'
    <3>1. /\ UNCHANGED <<phase, loaded, world, saved, others, given>>
          /\ OtherActors' = OtherActors /\ \A l : Actors(l)' = Actors(l)
          /\ \A path : NameNow(path)' = NameNow(path)
          /\ \A ref, then : IsBack(ref, then)' <=> IsBack(ref, then)
      BY <1>5 DEF vars, OtherActors, Actors, IsAllowed, NameNow, IsBack, Renamed
    <3>2. LoadRestores
      BY DEF LoadIInv
    <3> QED
      BY <3>1, <3>2 DEF LoadRestores, IsAllowed
  <2> QED
    BY <2>1, <2>2, <2>3, <2>4, <2>5 DEF LoadIInv
<1> QED
  BY <1>1, <1>2, <1>3, <1>4, <1>5 DEF Next
LEMMA NextKeepsFlags == FlagsInv /\ [Next]_vars => FlagsInv'
<1> SUFFICES ASSUME FlagsInv, [Next]_vars
             PROVE  FlagsInv'
  OBVIOUS
<1> USE DEF FlagsInv
<1>1. CASE Game
  <2>1. authority' \in BOOLEAN /\ (Play \/ CollectGarbage)
    <3>1. CollectGarbage => UNCHANGED authority
      BY DEF CollectGarbage
    <3>2. \A l, n, c : Spawn(l, n, c) => UNCHANGED authority /\ Play
      BY DEF Spawn
    <3>3. \A l, i : DestroyActor(l, i) => UNCHANGED authority /\ Play
      BY DEF DestroyActor
    <3>4. \A l, i, v, ref : Change(l, i, v, ref) => UNCHANGED authority /\ Play
      BY ZenonT(30) DEF Change
    <3>5. \A gone : Reopen(gone) => authority' \in BOOLEAN /\ Play
      BY DEF Reopen
    <3> QED
      BY <1>1, <3>1, <3>2, <3>3, <3>4, <3>5 DEF Game
  <2>2. UNCHANGED <<bStoreGameInstance, isSaved>>
    BY <2>1 DEF Play, CollectGarbage
  <2> QED
    BY <2>1, <2>2
<1>2. CASE Save
  BY <1>2 DEF Save, StartSave, ClientSaves, AddTask, SplitNextLevel, StartTasks,
              StoreGameInstance, SerializeActors, FinishSave
<1>3. CASE Load \/ Restart
  BY <1>3 DEF Load, StartLoad, PrepareLevel, PrepareNextLevel, RestoreLevel, RespawnFails,
              RespawnActor, Restart
<1> QED
  BY <1>1, <1>2, <1>3 DEF Next, vars
-----------------------------------------------------------------------------
(* The way of the actors into the file and back into the world: levels     *)
(* that are prepared have one actor for every record, and those that are   *)
(* restored have their values.                                             *)
THEOREM WorldIsKept == Spec => []WorldIInv
<1>1. Init => WorldIInv
  BY InitSharesIInv, InitLoadIInv DEF WorldIInv, FlagsInv, Init
<1>2. WorldIInv /\ [Next]_vars => WorldIInv'
  BY NextKeepsSharesIInv, NextKeepsLoadIInv, NextKeepsFlags DEF WorldIInv
<1> QED
  BY <1>1, <1>2, PTL DEF Spec

(* What a save writes is the allowed actors of every level, in their order *)
(* and each once: the records the tasks leave, dumped in the order of the  *)
(* tasks, are those one loop over all the actors would leave.              *)
THEOREM FilesAreRight == Spec => []FileIsTheWorld
<1>1. WorldIInv => FileIsTheWorld
  BY DEF WorldIInv, LoadIInv, FileInv, FileIsTheWorld
<1> QED
  BY <1>1, WorldIsKept, PTL

(* What a load leaves is what was saved: PrepareLevel, RespawnActor and    *)
(* RestoreLevel bring every recorded actor back once, with its value, and  *)
(* references to it, unless its name was taken.                            *)
THEOREM LoadsAreRight == Spec => []LoadRestores
<1>1. WorldIInv => LoadRestores
  BY DEF WorldIInv, LoadIInv
<1> QED
  BY <1>1, WorldIsKept, PTL
=============================================================================
