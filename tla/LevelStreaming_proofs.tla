----------------------- MODULE LevelStreaming_proofs ------------------------
(***************************************************************************)
(* Proofs about LevelStreaming, for any number of requests, any set of      *)
(* sublevels and any set of states.                                        *)
(***************************************************************************)
EXTENDS LevelStreaming, TLAPS

(* The task in service is the oldest that is not done. *)
LEMMA InService ==
    ASSUME StreamingIInv, NEW t \in Task, serving = {t}
    PROVE  /\ t = done + 1 /\ done < Len(log) /\ t \in 1 .. Len(log)
           /\ t \in Nat /\ current \in Nat /\ data[t] \in Nat
           /\ data[t] < t /\ current < t /\ data[t] <= t /\ current <= t
           /\ ~Idle
<1>1. done \in Nat /\ Len(log) \in Nat /\ current \in Nat /\ data[t] \in Nat
  BY StreamingAssumption DEF Task, Data, FirstData, StreamingIInv, StreamingTypeOK, OrderInv, Queue!TypeOK
<1>2. done < Len(log) /\ t = done + 1
  BY <1>1 DEF StreamingIInv, OrderInv
<1>3. QED
  BY <1>1, <1>2 DEF StreamingIInv, OrderInv, Idle

-----------------------------------------------------------------------------
(* Requests.                                                               *)

(* What a request leaves of the queue and of the stage. *)
LEMMA Requested ==
    ASSUME StreamingIInv, Quiet, NEW k, NEW l \in Level \cup {Nothing},
           k \in {"save", "load", "levelSave", "levelLoad"},
           k \in {"levelSave", "levelLoad"} => l \in Level,
           k = "load" => file # Nothing,
           Create(k, l), UNCHANGED <<current, records, file>>
    PROVE  /\ Queue!TypeOK' /\ OrderInv' /\ StageInv'
           /\ kind' \in [Task -> {"none", "save", "load", "levelSave", "levelLoad"}]
           /\ level' \in [Task -> Level \cup {Nothing}]
           /\ data' \in [Task -> Data]
           /\ stage' \in {"rest", "start", "writing", "reading"}
           /\ done' = done
           /\ \A i \in 1 .. done : kind'[i] = kind[i]
           /\ stage' = "writing" <=> stage = "writing"
           /\ Idle => /\ stage' = "start" /\ serving' = {Len(log) + 1}
                      /\ kind'[Len(log) + 1] = k /\ level'[Len(log) + 1] = l
                      /\ data'[Len(log) + 1] = current
<1> DEFINE t == Len(log) + 1
<1>1. /\ log \in Seq(Task) /\ Len(log) \in Nat /\ done \in Nat
      /\ done <= Len(log) /\ current \in Data /\ current \in Nat /\ current <= done
      /\ current' = current
  BY StreamingAssumption DEF Task, Data, FirstData, StreamingIInv, StreamingTypeOK, OrderInv, Queue!TypeOK
<1>2. /\ t \in Task
      /\ log' = Append(log, t) /\ UNCHANGED done
      /\ serving' = IF serving = {} THEN {t} ELSE serving
      /\ kind' = [kind EXCEPT ![t] = k]
      /\ level' = [level EXCEPT ![t] = l]
      /\ data' = [data EXCEPT ![t] = current]
      /\ stage' = IF Idle THEN "start" ELSE stage
      /\ Idle => serving' = {t}
      /\ ~Idle => serving' = serving
  BY DEF Create, Queue!Submit, Idle
<1>3. /\ log' \in Seq(Task) /\ Len(log') = t
      /\ \A i \in 1 .. Len(log) : log'[i] = log[i]
      /\ log'[t] = t
  BY <1>1, <1>2
<1>4. Queue!TypeOK'
  BY <1>1, <1>2, <1>3 DEF StreamingIInv, StreamingTypeOK, Queue!TypeOK
<1>5. /\ kind' \in [Task -> {"none", "save", "load", "levelSave", "levelLoad"}]
      /\ level' \in [Task -> Level \cup {Nothing}]
      /\ data' \in [Task -> Data]
      /\ stage' \in {"rest", "start", "writing", "reading"}
  BY <1>1, <1>2 DEF StreamingIInv, StreamingTypeOK
<1>6. /\ kind'[t] = k /\ level'[t] = l /\ data'[t] = current
      /\ \A i \in Task : i # t => /\ kind'[i] = kind[i] /\ level'[i] = level[i]
                                  /\ data'[i] = data[i]
  BY <1>2 DEF StreamingIInv, StreamingTypeOK
<1>7. OrderInv'
  <2>1. \A i \in 1 .. Len(log') : log'[i] = i /\ data'[i] < i
    <3>1. \A i \in 1 .. Len(log) : i \in Task /\ i # t /\ i <= Len(log)
      BY <1>1, <1>2, StreamingAssumption DEF Task
    <3>2. \A i \in 1 .. Len(log) : log'[i] = i /\ data'[i] < i
      BY <1>3, <1>6, <3>1 DEF StreamingIInv, OrderInv
    <3>3. log'[t] = t /\ data'[t] < t
      BY <1>1, <1>3, <1>6
    <3>4. \A i \in 1 .. Len(log') : i \in 1 .. Len(log) \/ i = t
      BY <1>1, <1>3
    <3>5. QED
      BY <3>2, <3>3, <3>4
  <2>2. done' < Len(log') /\ serving' = {done' + 1}
    <3>1. CASE done < Len(log)
      <4>1. serving = {done + 1} /\ ~Idle
        BY <3>1 DEF StreamingIInv, OrderInv, Idle
      <4>2. QED
        BY <1>1, <1>2, <1>3, <3>1, <4>1
    <3>2. CASE done = Len(log)
      <4>1. Idle
        BY <3>2 DEF StreamingIInv, OrderInv, Idle
      <4>2. QED
        BY <1>1, <1>2, <1>3, <3>2, <4>1
    <3>3. QED
      BY <1>1, <3>1, <3>2
  <2>3. done' \in Nat /\ Len(log') \in Nat /\ current' <= done'
    BY <1>1, <1>2, <1>3
  <2>4. done' <= Len(log')
    BY <2>2, <2>3
  <2>5. done' = Len(log') => serving' = {}
    BY <2>2, <2>3
  <2>6. QED
    BY <2>1, <2>2, <2>3, <2>4, <2>5 DEF OrderInv
<1>8. StageInv'
  <2>1. (stage' = "rest") <=> Idle'
    BY <1>2 DEF StreamingIInv, StageInv, Idle
  <2>2. stage' # "start" => /\ stage' = stage /\ serving' = serving
                            /\ \A u \in serving : kind'[u] = kind[u]
    <3>1. ~Idle => \A u \in serving : u \in Task /\ u # t
      BY <1>1, <1>2 DEF StreamingIInv, StreamingTypeOK, OrderInv, Queue!TypeOK
    <3>2. Idle => stage' = "start"
      BY <1>2
    <3>3. ~Idle => stage' = stage /\ serving' = serving
      BY <1>2 DEF Idle
    <3>4. QED
      BY <1>6, <3>1, <3>2, <3>3
  <2>3. stage' = "writing" => \A u \in serving' : kind'[u] = "save"
    BY <2>2 DEF StreamingIInv, StageInv
  <2>4. stage' = "reading" => \A u \in serving' : kind'[u] = "load" /\ records'[u] = file'
    BY <2>2 DEF StreamingIInv, StageInv
  <2>5. QED
    BY <1>6, <2>1, <2>3, <2>4 DEF StreamingIInv, StageInv
<1>9. /\ \A i \in 1 .. done : kind'[i] = kind[i]
      /\ stage' = "writing" <=> stage = "writing"
      /\ Idle => stage' = "start" /\ serving' = {t}
  <2>1. \A i \in 1 .. done : i \in Task /\ i # t
    BY <1>1, <1>2, StreamingAssumption DEF Task
  <2>2. QED
    BY <1>2, <1>6, <2>1 DEF StreamingIInv, StageInv, Idle
<1>10. QED
  BY <1>2, <1>4, <1>5, <1>6, <1>7, <1>8, <1>9

-----------------------------------------------------------------------------
(* The end of a task.                                                      *)

LEMMA Finished ==
    ASSUME StreamingIInv, NEW t \in Task, serving = {t}, Finish,
           current' \in Data, current' <= t,
           file # Nothing => file' # Nothing
    PROVE  /\ Queue!TypeOK' /\ OrderInv' /\ StageInv'
           /\ stage' \in {"rest", "start"}
           /\ UNCHANGED <<kind, level, data>>
           /\ done' = t
<1>1. /\ log \in Seq(Task) /\ Len(log) \in Nat /\ done \in Nat /\ current' \in Nat
      /\ t = done + 1 /\ done < Len(log)
  BY InService, StreamingAssumption DEF Task, Data, FirstData, StreamingIInv, StreamingTypeOK, Queue!TypeOK
<1>2. /\ done' = t /\ UNCHANGED <<log, kind, level, data>>
      /\ serving' = IF done' < Len(log) THEN {log[done' + 1]} ELSE {}
      /\ stage' = IF serving' = {} THEN "rest" ELSE "start"
  BY <1>1 DEF Finish, Queue!Complete, request
<1>3. /\ done' < Len(log) => serving' = {done' + 1}
      /\ done' = Len(log) => serving' = {}
  BY <1>1, <1>2 DEF StreamingIInv, OrderInv
<1>4. Queue!TypeOK'
  <2>1. serving' \subseteq Task
    <3>1. \A i \in 1 .. Len(log) : {log[i]} \subseteq Task
      BY <1>1
    <3>2. done' < Len(log) => done' + 1 \in 1 .. Len(log)
      BY <1>1, <1>2
    <3>3. QED
      BY <1>2, <3>1, <3>2
  <2>2. QED
    BY <1>1, <1>2, <2>1 DEF Queue!TypeOK
<1>5. OrderInv'
  <2>1. \A i \in 1 .. Len(log') : log'[i] = i /\ data'[i] < i
    BY <1>2 DEF StreamingIInv, OrderInv
  <2>2. QED
    BY <1>1, <1>2, <1>3, <2>1 DEF OrderInv
<1>6. StageInv'
  BY <1>2 DEF StreamingIInv, StageInv, Idle
<1>7. QED
  BY <1>2, <1>4, <1>5, <1>6

(* A task that is done leaves what else the invariant says to these facts. *)
LEMMA TaskDone ==
    ASSUME StreamingIInv, NEW t \in Task, serving = {t}, Finish,
           current' \in Data, current' <= t,
           (kind[t] # "load" /\ (mixed' \/ current' = current)) \/ current' = t,
           mixed => mixed', mixed' \in BOOLEAN,
           records' \in [Data -> Kept], live' \in [Level -> State],
           memory' \in Kept, unkept' \in SUBSET Level,
           UNCHANGED <<stream, saved>>,
           file' \in Kept \cup {Nothing}, file # Nothing => file' # Nothing,
           KeptInv', FileIsOneMoment'
    PROVE  StreamingIInv'
<1>1. stream' \in [Level -> {"unloaded", "hidden", "shown"}] /\ saved' \in Kept
  BY DEF StreamingIInv, StreamingTypeOK
<1>2. StreamingTypeOK'
  BY <1>1, Finished DEF StreamingIInv, StreamingTypeOK
<1>3. WritingInv'
  BY Finished DEF WritingInv
<1>4. LastLoadIsCurrent'
  <2>1. ASSUME ~mixed', NEW u \in 1 .. done', kind'[u] = "load"
        PROVE  u <= current'
    <3>1. /\ done' = t /\ kind' = kind /\ t = done + 1
          /\ done \in Nat /\ current \in Nat /\ current <= done
      <4>1. done' = t /\ kind' = kind
        BY Finished
      <4>2. t = done + 1
        BY InService
      <4>3. done \in Nat /\ current \in Nat /\ current <= done
        BY StreamingAssumption
           DEF StreamingIInv, StreamingTypeOK, OrderInv, Task, Data, FirstData
      <4>4. QED
        BY <4>1, <4>2, <4>3
    <3>2. CASE current' = t
      BY <2>1, <3>1, <3>2
    <3>3. CASE kind[t] # "load" /\ current' = current
      <4>1. u \in 1 .. done /\ kind[u] = "load"
        BY <2>1, <3>1, <3>3
      <4>2. QED
        BY <2>1, <3>3, <4>1 DEF StreamingIInv, LastLoadIsCurrent
    <3>4. QED
      BY <2>1, <3>2, <3>3
  <2>2. QED
    BY <2>1 DEF LastLoadIsCurrent
<1>5. QED
  BY <1>2, <1>3, <1>4, Finished DEF StreamingIInv

-----------------------------------------------------------------------------
(* What is kept, through the steps of the game and the engine that make    *)
(* no request or no matter what they request.                              *)

(* Between two tasks no level is waiting to be kept. *)
LEMMA QuietKept ==
    ASSUME StreamingIInv, Quiet, ~mixed, NEW l \in Level \ unkept, memory[l] # Nothing
    PROVE  records[current][l] # Nothing /\ records[current][l] = memory[l]
BY DEF StreamingIInv, KeptInv, KeptNext, Quiet

(* Only what is kept and what is remembered matters to the invariants. *)
LEMMA KeptStays ==
    ASSUME StreamingIInv, Quiet,
           UNCHANGED <<current, records, file, saved, mixed>>,
           stage' = "writing" <=> stage = "writing",
           \A l \in Level \ unkept' :
               l \in unkept \/ memory'[l] # memory[l] =>
                   memory'[l] = Nothing \/ (records[current][l] # Nothing /\ KeptNext(l)'),
           done' = done, \A i \in 1 .. done : kind'[i] = kind[i]
    PROVE  KeptInv' /\ WritingInv' /\ FileIsOneMoment' /\ LastLoadIsCurrent'
<1>1. KeptInv'
  <2>1. ASSUME ~mixed', NEW l \in Level \ unkept', memory'[l] # Nothing
        PROVE  /\ records'[current'][l] # Nothing
               /\ records'[current'][l] = memory'[l] \/ KeptNext(l)'
    <3>1. CASE l \in unkept \/ memory'[l] # memory[l]
      BY <2>1, <3>1
    <3>2. CASE l \notin unkept /\ memory'[l] = memory[l]
      BY <2>1, <3>2, QuietKept
    <3>3. QED
      BY <3>1, <3>2
  <2>2. QED
    BY <2>1 DEF KeptInv
<1>2. WritingInv' /\ FileIsOneMoment'
  BY DEF StreamingIInv, WritingInv, FileIsOneMoment
<1>3. LastLoadIsCurrent'
  BY DEF StreamingIInv, LastLoadIsCurrent
<1>4. QED
  BY <1>1, <1>2, <1>3

(* A request of the game, or for a level that is shown. *)
LEMMA RequestKeeps ==
    ASSUME StreamingIInv, Quiet, NEW k, NEW l \in Level \cup {Nothing},
           k \in {"save", "load", "levelLoad"},
           k = "levelLoad" => l \in Level,
           k = "load" => file # Nothing,
           Create(k, l),
           UNCHANGED <<current, records, file, live, history>>,
           stream' \in [Level -> {"unloaded", "hidden", "shown"}]
    PROVE  StreamingIInv'
<1>1. k \in {"save", "load", "levelSave", "levelLoad"}
  OBVIOUS
<1>2. UNCHANGED <<memory, unkept, saved, mixed>>
  BY DEF history
<1>3. StreamingTypeOK'
  BY <1>1, <1>2, Requested DEF StreamingIInv, StreamingTypeOK
<1>4. KeptInv' /\ WritingInv' /\ FileIsOneMoment' /\ LastLoadIsCurrent'
  BY <1>1, <1>2, Requested, KeptStays
<1>5. QED
  BY <1>1, <1>3, <1>4, Requested DEF StreamingIInv

(* The game goes on, or the engine loads or unloads a level. *)
LEMMA WorldMoves ==
    ASSUME StreamingIInv, Quiet,
           UNCHANGED <<queue, request, stage, current, records, file, history>>,
           stream' \in [Level -> {"unloaded", "hidden", "shown"}],
           live' \in [Level -> State]
    PROVE  StreamingIInv'
<1>1. /\ UNCHANGED <<log, done, serving, kind, level, data, stage>>
      /\ UNCHANGED <<current, records, file, memory, unkept, saved, mixed>>
  BY DEF queue, request, history
<1>2. StreamingTypeOK'
  BY <1>1 DEF StreamingIInv, StreamingTypeOK, Queue!TypeOK
<1>3. OrderInv' /\ StageInv'
  BY <1>1 DEF StreamingIInv, OrderInv, StageInv, Idle
<1>4. KeptInv' /\ WritingInv' /\ FileIsOneMoment' /\ LastLoadIsCurrent'
  BY <1>1, KeptStays
<1>5. QED
  BY <1>2, <1>3, <1>4 DEF StreamingIInv

LEMMA HideLevelKeeps ==
    ASSUME StreamingIInv, NEW l \in Level, HideLevel(l)
    PROVE  StreamingIInv'
<1>1. /\ Quiet /\ stream[l] = "shown"
      /\ stream' = [stream EXCEPT ![l] = "hidden"]
      /\ UNCHANGED <<current, records, file, live, saved, mixed>>
  BY DEF HideLevel
<1>2. stream' \in [Level -> {"unloaded", "hidden", "shown"}] /\ stream'[l] = "hidden"
  BY <1>1 DEF StreamingIInv, StreamingTypeOK
<1>3. ASSUME NEW s \in State \cup {Nothing}, Remembered(l, s)
      PROVE  /\ memory' \in Kept /\ unkept' \in SUBSET Level
             /\ memory'[l] = s
             /\ l \notin unkept' => s = Nothing \/ IsKeptNow(l)
  BY <1>3 DEF Remembered, StreamingIInv, StreamingTypeOK, Kept
<1>4. CASE Create("levelSave", l) /\ Remembered(l, live[l])
  <2>1. live[l] \in State
    BY DEF StreamingIInv, StreamingTypeOK
  <2>2. StreamingTypeOK'
    BY <1>1, <1>2, <1>3, <1>4, <2>1, Requested DEF StreamingIInv, StreamingTypeOK
  <2>3. ASSUME IsKeptNow(l)
        PROVE  records[current][l] # Nothing /\ KeptNext(l)'
    <3>1. Idle /\ records[current][l] # Nothing
      BY <2>3 DEF IsKeptNow
    <3>2. Loaded(l)' /\ live'[l] = memory'[l]
      BY <1>1, <1>2, <1>3, <1>4, <2>1 DEF Loaded
    <3>3. QED
      BY <1>1, <1>4, <3>1, <3>2, Requested DEF KeptNext
  <2>4. KeptInv' /\ WritingInv' /\ FileIsOneMoment' /\ LastLoadIsCurrent'
    <3>1. \A m \in Level \ unkept' :
             m \in unkept \/ memory'[m] # memory[m] =>
                 memory'[m] = Nothing \/ (records[current][m] # Nothing /\ KeptNext(m)')
      <4>1. \A m \in Level : m # l => /\ memory'[m] = memory[m]
                                      /\ m \in unkept' <=> m \in unkept
        BY <1>4 DEF Remembered, StreamingIInv, StreamingTypeOK, Kept
      <4>2. l \notin unkept' => IsKeptNow(l)
        BY <1>3, <1>4, <2>1, StreamingAssumption
      <4>3. QED
        BY <2>3, <4>1, <4>2
    <3>2. /\ done' = done /\ (stage' = "writing" <=> stage = "writing")
          /\ \A i \in 1 .. done : kind'[i] = kind[i]
      BY <1>1, <1>4, Requested
    <3>3. QED
      BY <1>1, <3>1, <3>2, KeptStays
  <2>5. QED
    BY <1>1, <1>4, <2>2, <2>4, Requested DEF StreamingIInv
<1>5. CASE UNCHANGED <<queue, request, stage>> /\ Remembered(l, Nothing)
  <2>1. UNCHANGED <<log, done, serving, kind, level, data, stage>>
    BY <1>5 DEF queue, request
  <2>2. StreamingTypeOK'
    BY <1>1, <1>2, <1>3, <1>5, <2>1 DEF StreamingIInv, StreamingTypeOK, Queue!TypeOK
  <2>3. OrderInv' /\ StageInv'
    BY <1>1, <2>1 DEF StreamingIInv, OrderInv, StageInv, Idle
  <2>4. KeptInv' /\ WritingInv' /\ FileIsOneMoment' /\ LastLoadIsCurrent'
    <3>1. \A m \in Level \ unkept' :
             m \in unkept \/ memory'[m] # memory[m] => memory'[m] = Nothing
      <4>1. memory'[l] = Nothing
        BY <1>3, <1>5
      <4>2. \A m \in Level : m # l => /\ memory'[m] = memory[m]
                                      /\ m \in unkept' <=> m \in unkept
        BY <1>5 DEF Remembered, StreamingIInv, StreamingTypeOK, Kept
      <4>3. QED
        BY <4>1, <4>2
    <3>2. QED
      BY <1>1, <2>1, <3>1, KeptStays
  <2>5. QED
    BY <2>2, <2>3, <2>4 DEF StreamingIInv
<1>6. QED
  BY <1>4, <1>5 DEF HideLevel, SerializeStreamingLevel

-----------------------------------------------------------------------------
(* The tasks.                                                              *)

(* While the task in service starts, only a LevelSaver has a level to keep. *)
LEMMA StartKept ==
    ASSUME StreamingIInv, ~mixed, NEW t \in Task, serving = {t},
           NEW l \in Level \ unkept, memory[l] # Nothing,
           kind[t] # "levelSave" \/ level[t] # l \/ ~CanRun(t)
    PROVE  records[current][l] # Nothing /\ records[current][l] = memory[l]
BY DEF StreamingIInv, KeptInv, KeptNext, CanRun

LEMMA LevelSaveKeeps ==
    ASSUME StreamingIInv, NEW t \in Task, LevelSave(t)
    PROVE  StreamingIInv'
<1>1. /\ serving = {t} /\ kind[t] = "levelSave" /\ stage = "start" /\ Finish
      /\ mixed' = (mixed \/ Stale(t)) /\ level[t] \in Level
      /\ UNCHANGED <<current, file, stream, live, saved>>
  BY DEF LevelSave, Running, world, StreamingIInv, StageInv
<1>2. FileIsOneMoment' /\ (mixed => mixed') /\ (mixed' \/ ~Stale(t))
  BY <1>1 DEF StreamingIInv, FileIsOneMoment
<1>3. mixed' \in BOOLEAN /\ file' \in Kept \cup {Nothing}
  BY <1>1 DEF StreamingIInv, StreamingTypeOK, Stale
<1>4. current <= t /\ data[t] <= t
  BY InService, <1>1
<1>5. /\ records \in [Data -> Kept] /\ current \in Data /\ data[t] \in Data
      /\ live \in [Level -> State] /\ memory \in Kept /\ unkept \in SUBSET Level
  BY DEF StreamingIInv, StreamingTypeOK
<1>6. CASE CanRun(t)
  <2> DEFINE l == level[t]
  <2>1. /\ records' = [records EXCEPT ![data[t]][l] = live[l]]
        /\ memory' = [memory EXCEPT ![l] = live[l]]
        /\ unkept' = unkept \ {l}
    BY <1>6 DEF LevelSave
  <2>2. records' \in [Data -> Kept] /\ memory' \in Kept /\ unkept' \in SUBSET Level
    BY <1>1, <1>5, <2>1 DEF Kept
  <2>3. KeptInv'
    <3>1. ASSUME ~mixed', NEW m \in Level \ unkept', memory'[m] # Nothing
          PROVE  records'[current'][m] # Nothing /\ records'[current'][m] = memory'[m]
      <4>1. ~mixed /\ data[t] = current
        BY <1>1, <3>1 DEF Stale
      <4>2. CASE m = l
        BY <1>1, <1>5, <2>1, <3>1, <4>1, <4>2 DEF Kept
      <4>3. CASE m # l
        <5>1. records[current][m] # Nothing /\ records[current][m] = memory[m]
          BY <1>1, <1>5, <2>1, <3>1, <4>1, <4>3, StartKept DEF Kept
        <5>2. QED
          BY <1>1, <1>5, <2>1, <4>1, <4>3, <5>1 DEF Kept
      <4>4. QED
        BY <4>2, <4>3
    <3>2. QED
      BY <3>1 DEF KeptInv
  <2>4. QED
    BY <1>1, <1>2, <1>3, <1>4, <1>5, <2>2, <2>3, TaskDone
<1>7. CASE ~CanRun(t)
  <2>1. UNCHANGED <<records, memory, unkept>>
    BY <1>7 DEF LevelSave
  <2>2. KeptInv'
    BY <1>1, <1>7, <2>1, StartKept DEF KeptInv
  <2>3. QED
    BY <1>1, <1>2, <1>3, <1>4, <1>5, <2>1, <2>2, TaskDone
<1>8. QED
  BY <1>6, <1>7

LEMMA LevelLoadKeeps ==
    ASSUME StreamingIInv, NEW t \in Task, LevelLoad(t)
    PROVE  StreamingIInv'
<1>1. /\ serving = {t} /\ kind[t] = "levelLoad" /\ stage = "start" /\ Finish
      /\ mixed' = (mixed \/ Stale(t)) /\ level[t] \in Level
      /\ UNCHANGED <<records, file, stream, memory, unkept, saved>>
  BY DEF LevelLoad, Running, StreamingIInv, StageInv
<1>2. FileIsOneMoment' /\ (mixed => mixed') /\ (mixed' \/ ~Stale(t))
  BY <1>1 DEF StreamingIInv, FileIsOneMoment
<1>3. mixed' \in BOOLEAN /\ file' \in Kept \cup {Nothing}
  BY <1>1 DEF StreamingIInv, StreamingTypeOK, Stale
<1>4. current <= t /\ data[t] <= t
  BY InService, <1>1
<1>5. /\ records \in [Data -> Kept] /\ current \in Data /\ data[t] \in Data
      /\ live \in [Level -> State] /\ memory \in Kept /\ unkept \in SUBSET Level
  BY DEF StreamingIInv, StreamingTypeOK
<1>6. /\ current' \in Data /\ current' <= t /\ live' \in [Level -> State]
      /\ ~Stale(t) => current' = current
  BY <1>1, <1>4, <1>5 DEF LevelLoad, CanRun, SetCurrentData, Stale, Kept
<1>7. KeptInv'
  BY <1>1, <1>6, StartKept DEF KeptInv
<1>8. QED
  BY <1>1, <1>2, <1>3, <1>4, <1>5, <1>6, <1>7, TaskDone

LEMMA SaveBeginsKeeps ==
    ASSUME StreamingIInv, NEW t \in Task, SaveBegins(t)
    PROVE  StreamingIInv'
<1>1. /\ serving = {t} /\ kind[t] = "save" /\ stage = "start" /\ stage' = "writing"
      /\ records' = [records EXCEPT ![current] = SnapshotOf(records[current])]
      /\ memory' = [l \in Level |-> IF Loaded(l) THEN live[l] ELSE memory[l]]
      /\ unkept' = {l \in unkept : ~Loaded(l)}
      /\ saved' = [l \in Level |-> IF l \in unkept' THEN Nothing ELSE memory'[l]]
      /\ UNCHANGED <<log, done, serving, kind, level, data>>
      /\ UNCHANGED <<current, file, stream, live, mixed>>
  BY DEF SaveBegins, Running, queue, request, world
<1>2. /\ records \in [Data -> Kept] /\ current \in Data
      /\ live \in [Level -> State] /\ memory \in Kept /\ unkept \in SUBSET Level
  BY DEF StreamingIInv, StreamingTypeOK
<1>3. /\ SnapshotOf(records[current]) \in Kept
      /\ memory' \in Kept /\ unkept' \in SUBSET Level
  BY <1>1, <1>2 DEF SnapshotOf, Kept
<1>4. records' \in [Data -> Kept] /\ saved' \in Kept
  BY <1>1, <1>2, <1>3 DEF Kept
<1>5. StreamingTypeOK'
  BY <1>1, <1>3, <1>4 DEF StreamingIInv, StreamingTypeOK, Queue!TypeOK
<1>6. OrderInv' /\ StageInv'
  BY <1>1 DEF StreamingIInv, OrderInv, StageInv, Idle
<1>7. ASSUME ~mixed, NEW l \in Level \ unkept', memory'[l] # Nothing
      PROVE  records'[current][l] = memory'[l]
  <2>1. records'[current][l] = IF Loaded(l) THEN live[l] ELSE records[current][l]
    BY <1>1, <1>2 DEF SnapshotOf
  <2>2. CASE Loaded(l)
    BY <1>1, <2>1, <2>2
  <2>3. CASE ~Loaded(l)
    <3>1. l \notin unkept /\ memory'[l] = memory[l]
      BY <1>1, <1>7, <2>3
    <3>2. records[current][l] = memory[l]
      BY <1>1, <1>7, <3>1, StartKept
    <3>3. QED
      BY <2>1, <2>3, <3>1, <3>2
  <2>4. QED
    BY <2>2, <2>3
<1>8. KeptInv'
  BY <1>1, <1>7 DEF KeptInv
<1>9. WritingInv'
  <2>1. ASSUME ~mixed, NEW l \in Level, saved'[l] # Nothing
        PROVE  records'[current][l] = saved'[l]
    <3>1. l \notin unkept' /\ saved'[l] = memory'[l]
      BY <1>1, <2>1
    <3>2. QED
      BY <1>7, <2>1, <3>1
  <2>2. QED
    BY <1>1, <2>1 DEF WritingInv
<1>10. FileIsOneMoment' /\ LastLoadIsCurrent'
  BY <1>1 DEF StreamingIInv, FileIsOneMoment, LastLoadIsCurrent
<1>11. QED
  BY <1>5, <1>6, <1>8, <1>9, <1>10 DEF StreamingIInv

LEMMA SaveEndsKeeps ==
    ASSUME StreamingIInv, NEW t \in Task, SaveEnds(t)
    PROVE  StreamingIInv'
<1>1. /\ serving = {t} /\ kind[t] = "save" /\ stage = "writing" /\ Finish
      /\ file' = records[current]
      /\ UNCHANGED <<current, records, stream, live, memory, unkept, saved, mixed>>
  BY DEF SaveEnds, Running, world, history
<1>2. /\ records \in [Data -> Kept] /\ current \in Data /\ mixed \in BOOLEAN
      /\ live \in [Level -> State] /\ memory \in Kept /\ unkept \in SUBSET Level
  BY DEF StreamingIInv, StreamingTypeOK
<1>3. file' \in Kept /\ file' # Nothing
  BY <1>1, <1>2, StreamingAssumption
<1>4. KeptInv'
  <2>1. Quiet
    BY <1>1 DEF Quiet
  <2>2. QED
    BY <1>1, <2>1, QuietKept DEF KeptInv
<1>5. FileIsOneMoment'
  BY <1>1, <1>3 DEF StreamingIInv, WritingInv, FileIsOneMoment
<1>6. current <= t
  BY <1>1, InService
<1>7. QED
  BY <1>1, <1>2, <1>3, <1>4, <1>5, <1>6, TaskDone

LEMMA LoadBeginsKeeps ==
    ASSUME StreamingIInv, NEW t \in Task, LoadBegins(t)
    PROVE  StreamingIInv'
<1>1. /\ serving = {t} /\ kind[t] = "load" /\ stage = "start" /\ stage' = "reading"
      /\ records' = [records EXCEPT ![t] = file]
      /\ UNCHANGED <<log, done, serving, kind, level, data>>
      /\ UNCHANGED <<current, file, stream, live, memory, unkept, saved, mixed>>
  BY DEF LoadBegins, Running, queue, request, world, history
<1>2. t # current /\ t \in Data
  BY <1>1, InService DEF Data
<1>3. file \in Kept /\ records \in [Data -> Kept]
  BY <1>1 DEF StreamingIInv, StreamingTypeOK, StageInv
<1>4. records' \in [Data -> Kept] /\ records'[t] = file /\ records'[current] = records[current]
  BY <1>1, <1>2, <1>3 DEF StreamingIInv, StreamingTypeOK
<1>5. StreamingTypeOK'
  BY <1>1, <1>4 DEF StreamingIInv, StreamingTypeOK, Queue!TypeOK
<1>6. OrderInv' /\ StageInv'
  BY <1>1, <1>4 DEF StreamingIInv, OrderInv, StageInv, Idle
<1>7. KeptInv'
  BY <1>1, <1>4, StartKept DEF KeptInv
<1>8. WritingInv' /\ FileIsOneMoment' /\ LastLoadIsCurrent'
  BY <1>1 DEF StreamingIInv, WritingInv, FileIsOneMoment, LastLoadIsCurrent
<1>9. QED
  BY <1>5, <1>6, <1>7, <1>8 DEF StreamingIInv

LEMMA LoadEndsKeeps ==
    ASSUME StreamingIInv, NEW t \in Task, LoadEnds(t)
    PROVE  StreamingIInv'
<1>1. /\ serving = {t} /\ kind[t] = "load" /\ stage = "reading" /\ Finish
      /\ live' = [l \in Level |->
            IF Loaded(l) /\ records[t][l] # Nothing THEN records[t][l] ELSE live[l]]
      /\ current' = t /\ memory' = saved /\ unkept' = {}
      /\ UNCHANGED <<records, file, stream, saved, mixed>>
  BY DEF LoadEnds, Running, SetCurrentData
<1>2. /\ records \in [Data -> Kept] /\ t \in Data /\ mixed \in BOOLEAN
      /\ live \in [Level -> State] /\ saved \in Kept /\ records[t] = file
      /\ file \in Kept \cup {Nothing}
  BY <1>1 DEF StreamingIInv, StreamingTypeOK, StageInv, Data
<1>3. live' \in [Level -> State]
  BY <1>1, <1>2 DEF Kept
<1>4. KeptInv'
  BY <1>1, <1>2 DEF StreamingIInv, FileIsOneMoment, KeptInv
<1>5. FileIsOneMoment'
  BY <1>1 DEF StreamingIInv, FileIsOneMoment
<1>6. t <= t
  BY <1>1, InService
<1>7. QED
  BY <1>1, <1>2, <1>3, <1>4, <1>5, <1>6, TaskDone

-----------------------------------------------------------------------------
(* The invariant holds of every behaviour.                                 *)

LEMMA StreamingStarts == StreamingInit => StreamingIInv
<1> SUFFICES ASSUME StreamingInit
             PROVE  StreamingIInv
  OBVIOUS
<1> USE StreamingAssumption
<1>1. /\ log = <<>> /\ done = 0 /\ serving = {}
      /\ kind = [t \in Task |-> "none"] /\ stage = "rest" /\ current = 0
      /\ memory = [l \in Level |-> Nothing] /\ saved = [l \in Level |-> Nothing]
  BY DEF StreamingInit, Queue!Init, NoRecords, FirstData
<1>2. [l \in Level |-> Nothing] \in Kept
  BY DEF Kept
<1>3. StreamingTypeOK
  <2>1. Queue!TypeOK
    BY <1>1 DEF Queue!TypeOK
  <2>2. mixed \in BOOLEAN
    BY DEF StreamingInit
  <2>3. QED
    BY <1>1, <1>2, <2>1, <2>2 DEF StreamingInit, StreamingTypeOK, NoRecords, Data, FirstData
<1>4. OrderInv
  BY <1>1 DEF OrderInv
<1>5. StageInv
  BY <1>1 DEF StageInv, Idle
<1>6. KeptInv /\ WritingInv /\ FileIsOneMoment
  BY <1>1 DEF KeptInv, WritingInv, FileIsOneMoment
<1>7. LastLoadIsCurrent
  BY <1>1 DEF LastLoadIsCurrent
<1>8. QED
  BY <1>3, <1>4, <1>5, <1>6, <1>7 DEF StreamingIInv

LEMMA StreamingSteps == StreamingIInv /\ [StreamingNext]_vars => StreamingIInv'
<1> SUFFICES ASSUME StreamingIInv, [StreamingNext]_vars
             PROVE  StreamingIInv'
  OBVIOUS
<1>1. CASE SaveSlot \/ LoadSlot
  <2>1. /\ Quiet /\ (Create("save", Nothing) \/ (file # Nothing /\ Create("load", Nothing)))
        /\ UNCHANGED <<current, records, file, stream, live, history>>
    BY <1>1 DEF SaveSlot, LoadSlot, world
  <2>2. stream' \in [Level -> {"unloaded", "hidden", "shown"}]
    BY <2>1 DEF StreamingIInv, StreamingTypeOK
  <2>3. QED
    BY <2>1, <2>2, RequestKeeps
<1>2. CASE TaskRuns
  BY <1>2, LevelSaveKeeps, LevelLoadKeeps, SaveBeginsKeeps, SaveEndsKeeps,
     LoadBeginsKeeps, LoadEndsKeeps DEF TaskRuns
<1>3. CASE EngineRuns
  <2> SUFFICES ASSUME NEW l \in Level,
                      HideLevel(l) \/ ShowLevel(l) \/ Play(l) \/ LoadLevel(l) \/ UnloadLevel(l)
               PROVE  StreamingIInv'
    BY <1>3 DEF EngineRuns
  <2>1. CASE HideLevel(l)
    BY <2>1, HideLevelKeeps
  <2>2. CASE ShowLevel(l)
    <3>1. /\ Quiet /\ Create("levelLoad", l)
          /\ UNCHANGED <<current, records, file, live, history>>
      BY <2>2 DEF ShowLevel
    <3>2. stream' \in [Level -> {"unloaded", "hidden", "shown"}]
      BY <2>2 DEF ShowLevel, StreamingIInv, StreamingTypeOK
    <3>3. QED
      BY <3>1, <3>2, RequestKeeps
  <2>3. CASE Play(l) \/ LoadLevel(l) \/ UnloadLevel(l)
    <3>1. /\ Quiet
          /\ UNCHANGED <<queue, request, stage, current, records, file, history>>
      BY <2>3 DEF Play, LoadLevel, UnloadLevel
    <3>2. stream' \in [Level -> {"unloaded", "hidden", "shown"}] /\ live' \in [Level -> State]
      BY <2>3, StreamingAssumption
         DEF Play, LoadLevel, UnloadLevel, StreamingIInv, StreamingTypeOK
    <3>3. QED
      BY <3>1, <3>2, WorldMoves
  <2>4. QED
    BY <2>1, <2>2, <2>3
<1>4. CASE UNCHANGED vars
  <2>1. UNCHANGED <<log, done, serving, kind, level, data, stage, current, records, file,
                    stream, live, memory, unkept, saved, mixed>>
    BY <1>4 DEF vars, queue, request, world, history
  <2>2. StreamingTypeOK' /\ OrderInv' /\ StageInv'
    BY <2>1 DEF StreamingIInv, StreamingTypeOK, Queue!TypeOK, OrderInv, StageInv, Idle
  <2>3. KeptInv' /\ WritingInv' /\ FileIsOneMoment' /\ LastLoadIsCurrent'
    BY <2>1 DEF StreamingIInv, KeptInv, KeptNext, Loaded, WritingInv, FileIsOneMoment,
                LastLoadIsCurrent
  <2>4. QED
    BY <2>2, <2>3 DEF StreamingIInv
<1>5. QED
  BY <1>1, <1>2, <1>3, <1>4 DEF StreamingNext

(* The inductive invariant, and with it that the slot file is one moment   *)
(* of the world and that a Loader's data stays current, whatever levels    *)
(* are streamed meanwhile.                                                 *)
THEOREM StreamingInvariant == StreamingSpec => []StreamingIInv
BY StreamingStarts, StreamingSteps, PTL DEF StreamingSpec

(* A level hidden with no task in the way is kept: however many saves,     *)
(* loads and level tasks follow.                                           *)
THEOREM LevelsKept == StreamingSpec => []LevelsAreCached
<1>1. StreamingIInv => LevelsAreCached
  BY QuietKept DEF LevelsAreCached
<1>2. QED
  BY <1>1, StreamingInvariant, PTL

(* What a Saver wrote is what it found when it started. *)
THEOREM FileKept == StreamingSpec => []FileIsOneMoment
<1>1. StreamingIInv => FileIsOneMoment
  BY DEF StreamingIInv
<1>2. QED
  BY <1>1, StreamingInvariant, PTL

(* A Loader's data is current until another one's is. *)
THEOREM LastLoadKept == StreamingSpec => []LastLoadIsCurrent
<1>1. StreamingIInv => LastLoadIsCurrent
  BY DEF StreamingIInv
<1>2. QED
  BY <1>1, StreamingInvariant, PTL

(* A LevelLoader gives its level back the state that was kept. *)
THEOREM LevelRestored == StreamingSpec => LevelComesBack
<1> DEFINE Restores ==
      \A t \in Task :
          LevelLoad(t) /\ Loaded(level[t]) /\ ~mixed' =>
              LET l == level[t] IN
              l \notin unkept /\ memory[l] # Nothing => live'[l] = memory[l]
<1>1. StreamingIInv /\ [StreamingNext]_vars => [Restores]_vars
  <2> SUFFICES ASSUME StreamingIInv, NEW t \in Task,
                      LevelLoad(t), Loaded(level[t]), ~mixed',
                      level[t] \notin unkept, memory[level[t]] # Nothing
               PROVE  live'[level[t]] = memory[level[t]]
    BY DEF Restores
  <2> DEFINE l == level[t]
  <2>1. /\ serving = {t} /\ kind[t] = "levelLoad" /\ l \in Level /\ live \in [Level -> State]
        /\ mixed' = (mixed \/ Stale(t))
    BY DEF LevelLoad, Running, StreamingIInv, StageInv, StreamingTypeOK
  <2>2. ~mixed /\ data[t] = current
    BY <2>1 DEF Stale
  <2>3. records[current][l] # Nothing /\ records[current][l] = memory[l]
    BY <2>1, <2>2, StartKept
  <2>4. live' = [live EXCEPT ![l] = records[current][l]]
    BY <2>2, <2>3 DEF LevelLoad, CanRun
  <2>5. QED
    BY <2>1, <2>3, <2>4
<1>2. QED
  BY <1>1, StreamingInvariant, PTL DEF StreamingSpec, LevelComesBack

=============================================================================
