------------------------ MODULE BackgroundTasks_proofs ------------------------
(***************************************************************************)
(* That every caller of a background task is told once, whatever callbacks *)
(* add to the list while it is gone through, and that lists and deletions  *)
(* miss no slot, for any number of tasks and slots.                        *)
(***************************************************************************)
EXTENDS BackgroundTasks, SequenceTheorems, TLAPS

(* TArray::RemoveAtSwap: the last element takes the place of the removed. *)
LEMMA RemoveAtSwapElements ==
    ASSUME NEW S, NEW q \in Seq(S), NEW i \in DOMAIN q
    PROVE  /\ RemoveAtSwap(q, i) \in Seq(S)
           /\ Len(RemoveAtSwap(q, i)) = Len(q) - 1
           /\ \A k \in 1..(Len(q) - 1) :
                RemoveAtSwap(q, i)[k] = IF k = i THEN q[Len(q)] ELSE q[k]
<1> DEFINE n == Len(q)
           p == [q EXCEPT ![i] = q[n]]
<1>1. n \in Nat /\ n >= 1 /\ DOMAIN q = 1..n /\ i \in 1..n /\ q[n] \in S
  OBVIOUS
<1>2. p \in Seq(S) /\ Len(p) = n /\ \A k \in 1..n : p[k] = IF k = i THEN q[n] ELSE q[k]
  BY <1>1
<1>3. RemoveAtSwap(q, i) = SubSeq(p, 1, n - 1)
  BY DEF RemoveAtSwap
<1> HIDE DEF p, n
<1>4. n - 1 \in Nat /\ n - 1 <= Len(p)
  BY <1>1, <1>2
<1>5. /\ SubSeq(p, 1, n - 1) \in Seq(S)
      /\ Len(SubSeq(p, 1, n - 1)) = n - 1
      /\ \A k \in 1..(n - 1) : SubSeq(p, 1, n - 1)[k] = p[k]
  BY <1>1, <1>2, <1>4
<1>6. \A k \in 1..(n - 1) : p[k] = IF k = i THEN q[n] ELSE q[k]
  BY <1>1, <1>2
<1> QED
  BY <1>3, <1>5, <1>6 DEF n

(* Every task changed in place. *)
LEMMA TasksMapped ==
    ASSUME NEW q \in Seq(Task), NEW r, r = [t \in DOMAIN q |-> r[t]],
           \A t \in DOMAIN q : r[t] \in Task
    PROVE  r \in Seq(Task) /\ Len(r) = Len(q) /\ DOMAIN r = DOMAIN q
<1>1. Len(q) \in Nat /\ DOMAIN q = 1..Len(q)
  OBVIOUS
<1>2. r \in [1..Len(q) -> Task]
  BY <1>1
<1> QED
  BY <1>1, <1>2

(* A step that keeps the list, changes its tasks in place and tells nobody. *)
SameTasks ==
    /\ task' \in Seq(Task) /\ Len(task') = Len(task) /\ DOMAIN task' = DOMAIN task
    /\ \A t \in DOMAIN task : task'[t].told = task[t].told

(* ... or tells the caller of one task. *)
TellsOne(u) ==
    /\ task' \in Seq(Task) /\ Len(task') = Len(task) /\ DOMAIN task' = DOMAIN task
    /\ \A t \in DOMAIN task : task'[t].told = IF t = u THEN task[t].told + 1 ELSE task[t].told

LEMMA InitBackgroundIInv == Init => BackgroundIInv
<1> SUFFICES ASSUME Init
             PROVE  BackgroundIInv
  OBVIOUS
<1>1. TypeOK
  BY DEF Init, TypeOK
<1>2. ListInv
  BY DEF Init, ListInv
<1> QED
  BY <1>1, <1>2 DEF BackgroundIInv

LEMMA NewTaskType ==
    ASSUME TypeOK, NEW kind \in Kind, NEW listener \in Listener, NEW slots \in SUBSET Slot
    PROVE  NewTask(kind, listener, slots) \in Task /\ NewTask(kind, listener, slots).told = 0
<1> DEFINE owed == CASE kind = "list" -> {s \in Slot : file[s] = "saved"}
                     [] kind = "deleteAll" -> {s \in Slot : file[s] \in {"saved", "torn"}}
                     [] OTHER -> slots
<1>1. owed \in SUBSET Slot
  <2>1. CASE kind = "list"
    BY <2>1
  <2>2. CASE kind = "deleteAll"
    BY <2>2
  <2>3. CASE kind \notin {"list", "deleteAll"}
    BY <2>3
  <2> QED
    BY <2>1, <2>2, <2>3
<1> HIDE DEF owed
<1>2. NewTask(kind, listener, slots) =
        [kind |-> kind, listener |-> listener, listed |-> slots # {}, todo |-> slots,
         nulls |-> {}, told |-> 0, owed |-> owed]
  BY DEF NewTask, owed
<1>3. CASE slots = {}
  <2>1. NewTask(kind, listener, slots) =
        [kind |-> kind, listener |-> listener, listed |-> FALSE, todo |-> slots,
         nulls |-> {}, told |-> 0, owed |-> owed]
    BY <1>2, <1>3
  <2> QED
    BY <1>1, <2>1 DEF Task
<1>4. CASE slots # {}
  <2>1. NewTask(kind, listener, slots) =
        [kind |-> kind, listener |-> listener, listed |-> TRUE, todo |-> slots,
         nulls |-> {}, told |-> 0, owed |-> owed]
    BY <1>2, <1>4
  <2> QED
    BY <1>1, <2>1 DEF Task
<1> QED
  BY <1>3, <1>4

(* What is said of an info task that nobody listens to. *)
LEMMA NobodysTask ==
    ASSUME TypeOK
    PROVE  NewTask("info", Nobody, {}) \in Task /\ NewTask("info", Nobody, {}).told = 0
BY NewTaskType DEF Kind, Listener

(* A step that goes nowhere in the list, or along it while nobody is told. *)
LEMMA QuietKeeps ==
    ASSUME BackgroundIInv, phase \in {"play", "exit"}, phase' = phase,
           holders' = holders, SameTasks,
           file' \in [Slot -> {"none", "open", "torn", "saved"}],
           saving' \in Slot \cup {Nobody},
           action' \in [Node -> {"none", "waiting", "finished"}],
           \/ UNCHANGED <<game, at>>
           \/ /\ phase = "play" /\ game # "callback"
              /\ game' \in {"idle", "wait", "tick"} /\ at' \in Nat \ {0}
    PROVE  BackgroundIInv'
<1>1. TypeOK'
  BY DEF BackgroundIInv, TypeOK, SameTasks
<1>2. Pending' = Pending
  BY DEF Pending
<1>3. ListInv'
  BY <1>2 DEF BackgroundIInv, ListInv, SameTasks
<1> QED
  BY <1>1, <1>3 DEF BackgroundIInv

(* A task is added to the list. *)
LEMMA CreateKeeps ==
    ASSUME BackgroundIInv, phase = "play", phase' = "play", at' = at,
           NEW new \in Task, new.told = 0, Create(new), UNCHANGED <<file, saving>>,
           action' \in [Node -> {"none", "waiting", "finished"}],
           game' = game \/ (game # "callback" /\ game' = "wait")
    PROVE  BackgroundIInv'
<1> DEFINE n == Len(task)
           h == Len(holders)
<1>1. /\ at \in Nat \ {0} /\ n \in Nat /\ task \in Seq(Task) /\ DOMAIN task = 1..n
      /\ game = "callback" => at \in DOMAIN holders
      /\ holders \in Seq(1..n) /\ h \in Nat /\ DOMAIN holders = 1..h
      /\ \A i, j \in DOMAIN holders : holders[i] = holders[j] => i = j
  BY DEF BackgroundIInv, TypeOK, ListInv
<1>2. task' = Append(task, new) /\ holders' = Append(holders, n + 1)
  BY DEF Create
<1>3. /\ Len(task') = n + 1 /\ DOMAIN task' = 1..(n + 1) /\ task'[n + 1] = new
      /\ task' \in Seq(Task) /\ \A t \in 1..n : task'[t] = task[t]
  BY <1>1, <1>2, AppendProperties
<1> HIDE DEF n
<1>4. /\ holders' \in Seq(1..(n + 1)) /\ Len(holders') = h + 1 /\ DOMAIN holders' = 1..(h + 1)
      /\ holders'[h + 1] = n + 1 /\ \A i \in 1..h : holders'[i] = holders[i] /\ holders[i] \in 1..n
  <2>1. holders \in Seq(1..(n + 1)) /\ n + 1 \in 1..(n + 1)
    BY <1>1
  <2>2. \A i \in 1..h : holders[i] \in 1..n
    BY <1>1
  <2>3. /\ Append(holders, n + 1) \in Seq(1..(n + 1))
        /\ Len(Append(holders, n + 1)) = Len(holders) + 1
        /\ \A i \in 1..Len(holders) : Append(holders, n + 1)[i] = holders[i]
        /\ Append(holders, n + 1)[Len(holders) + 1] = n + 1
    BY <2>1, AppendProperties
  <2>4. holders' \in Seq(1..(n + 1)) /\ Len(holders') = h + 1 /\ DOMAIN holders' = 1..(h + 1)
    BY <1>1, <1>2, <2>3
  <2>5. holders'[h + 1] = n + 1 /\ \A i \in 1..h : holders'[i] = holders[i]
    BY <1>2, <2>3
  <2> QED
    BY <2>2, <2>4, <2>5
<1> HIDE DEF h
<1>5. /\ \A i, j \in DOMAIN holders' : holders'[i] = holders'[j] => i = j
      /\ game' = "callback" => at' \in DOMAIN holders'
  <2>1. ASSUME NEW i \in 1..(h + 1), NEW j \in 1..(h + 1), holders'[i] = holders'[j]
        PROVE  i = j
    <3>1. h \in Nat /\ n \in Nat
      BY <1>1
    <3>2. (i \in 1..h \/ i = h + 1) /\ (j \in 1..h \/ j = h + 1) /\ n + 1 \notin 1..n
      BY <3>1
    <3>3. CASE i \in 1..h /\ j \in 1..h
      BY <1>1, <1>4, <2>1, <3>3
    <3> QED
      BY <1>4, <2>1, <3>2, <3>3
  <2>2. game' = "callback" => at' \in DOMAIN holders'
    BY <1>1, <1>4
  <2> QED
    BY <1>4, <2>1, <2>2
<1>6. ASSUME NEW t \in 1..n
      PROVE  t \in Pending' <=> t \in Pending
  <2>1. game' = "callback" <=> game = "callback"
    OBVIOUS
  <2>2. n + 1 # t
    BY <1>1
  <2>3. \A i \in DOMAIN holders' : holders'[i] = t => i \in 1..h
    BY <1>1, <1>4, <2>2
  <2>4. t \in Pending <=> \E i \in 1..h : holders[i] = t /\ (game = "callback" => i # at)
    BY <1>1 DEF Pending
  <2>5. t \in Pending' <=> \E i \in 1..(h + 1) : holders'[i] = t /\ (game' = "callback" => i # at)
    BY <1>4 DEF Pending
  <2>6. \A i \in 1..h : i \in 1..(h + 1)
    BY <1>1
  <2> QED
    BY <1>4, <2>1, <2>3, <2>4, <2>5, <2>6
<1>7. n + 1 \in Pending'
  <2>1. game' = "callback" => h + 1 # at
    BY <1>1
  <2>2. h + 1 \in DOMAIN holders'
    BY <1>1, <1>4
  <2> QED
    BY <1>4, <2>1, <2>2 DEF Pending
<1>8. \A t \in DOMAIN task' : task'[t].told = IF t \in Pending' THEN 0 ELSE 1
  <2>0. \A t \in 1..n : task[t].told = IF t \in Pending THEN 0 ELSE 1
    BY <1>1 DEF BackgroundIInv, ListInv
  <2>1. \A t \in 1..n : task'[t].told = IF t \in Pending' THEN 0 ELSE 1
    BY <1>3, <1>6, <2>0
  <2>2. task'[n + 1].told = IF n + 1 \in Pending' THEN 0 ELSE 1
    BY <1>3, <1>7
  <2>3. \A t \in 1..(n + 1) : t \in 1..n \/ t = n + 1
    BY <1>1
  <2> QED
    BY <1>3, <2>1, <2>2, <2>3
<1>9. TypeOK'
  <2>1. holders' \in Seq(1..Len(task'))
    BY <1>3, <1>4
  <2> QED
    BY <1>1, <1>3, <2>1 DEF BackgroundIInv, TypeOK
<1> QED
  BY <1>5, <1>8, <1>9 DEF BackgroundIInv, ListInv

(* What Pending comes to in a tick or a callback. *)
LEMMA PendingTasks ==
    ASSUME BackgroundIInv, phase \in {"play", "exit"}
    PROVE  /\ \A i \in DOMAIN holders : holders[i] \in DOMAIN task
           /\ \A i \in DOMAIN holders :
                holders[i] \in Pending <=>
                    (phase = "exit" => i >= at) /\ (game = "callback" => i # at)
           /\ \A t \in Pending : \E i \in DOMAIN holders : holders[i] = t
BY DEF BackgroundIInv, TypeOK, ListInv, Pending

(* The task at the place the list is at was told: the list goes on. *)
LEMMA OverKeeps ==
    ASSUME BackgroundIInv, phase \in {"play", "exit"}, phase' = phase,
           game \in {"tick", "callback"}, game' = "tick", at \in DOMAIN holders, TaskIsOver,
           IF game = "tick" THEN TellsOne(holders[at]) ELSE SameTasks,
           UNCHANGED <<file, saving>>,
           action' \in [Node -> {"none", "waiting", "finished"}]
    PROVE  BackgroundIInv'
<1> DEFINE u == holders[at]
           h == Len(holders)
<1>1. /\ at \in Nat \ {0} /\ h \in Nat /\ DOMAIN holders = 1..h /\ at \in 1..h
      /\ holders \in Seq(1..Len(task)) /\ task' \in Seq(Task) /\ Len(task') = Len(task)
      /\ DOMAIN task' = DOMAIN task /\ u \in DOMAIN task
      /\ \A i, j \in 1..h : holders[i] = holders[j] => i = j
  BY PendingTasks DEF BackgroundIInv, TypeOK, ListInv, TellsOne, SameTasks
<1>2. \A t \in DOMAIN task : task[t].told = IF t \in Pending THEN 0 ELSE 1
  BY DEF BackgroundIInv, ListInv
<1>3. task'[u].told = 1
  <2>1. CASE game = "tick"
    <3>1. u \in Pending
      BY <1>1, <2>1, PendingTasks
    <3> QED
      BY <1>1, <1>2, <2>1, <3>1 DEF TellsOne
  <2>2. CASE game = "callback"
    <3>1. u \notin Pending
      BY <1>1, <2>2, PendingTasks
    <3> QED
      BY <1>1, <1>2, <2>2, <3>1 DEF SameTasks
  <2> QED
    BY <2>1, <2>2
<1>4. \A t \in DOMAIN task : t # u => task'[t].told = task[t].told
  BY <1>1 DEF TellsOne, SameTasks
<1>5. CASE phase = "exit"
  <2>1. at' = at + 1 /\ holders' = holders
    BY <1>5 DEF TaskIsOver
  <2>2. TypeOK'
    BY <1>1, <2>1 DEF BackgroundIInv, TypeOK
  <2>3. \A i \in 1..h : holders[i] \in Pending' <=> i >= at + 1
    BY <1>1, <1>5, <2>1 DEF Pending
  <2>4. \A i \in 1..h : i # at => (holders[i] \in Pending <=> i >= at)
    BY <1>1, <1>5, PendingTasks
  <2>5. \A i \in 1..h : i # at => (i >= at <=> i >= at + 1)
    BY <1>1
  <2>6. u \notin Pending'
    BY <1>1, <2>3
  <2>7. ASSUME NEW t \in DOMAIN task, t # u
        PROVE  t \in Pending' <=> t \in Pending
    <3>1. CASE \E i \in 1..h : holders[i] = t
      BY <1>1, <2>3, <2>4, <2>5, <2>7, <3>1
    <3>2. CASE ~\E i \in 1..h : holders[i] = t
      BY <1>1, <2>1, <3>2 DEF Pending
    <3> QED
      BY <3>1, <3>2
  <2>8. \A t \in DOMAIN task' : task'[t].told = IF t \in Pending' THEN 0 ELSE 1
    BY <1>1, <1>2, <1>3, <1>4, <2>6, <2>7
  <2>9. ListInv'
    BY <1>1, <1>5, <2>1, <2>8 DEF ListInv
  <2> QED
    BY <2>2, <2>9 DEF BackgroundIInv
<1>6. CASE phase = "play"
  <2> DEFINE q == RemoveAtSwap(holders, at)
  <2>1. at' = at /\ holders' = q
    BY <1>6 DEF TaskIsOver
  <2>2. /\ q \in Seq(1..Len(task)) /\ Len(q) = h - 1 /\ DOMAIN q = 1..(h - 1)
        /\ \A k \in 1..(h - 1) : q[k] = IF k = at THEN holders[h] ELSE holders[k]
    <3>1. holders \in Seq(1..Len(task)) /\ at \in DOMAIN holders
      BY <1>1
    <3>2. /\ q \in Seq(1..Len(task)) /\ Len(q) = Len(holders) - 1
          /\ \A k \in 1..(Len(holders) - 1) : q[k] = IF k = at THEN holders[Len(holders)] ELSE holders[k]
      BY <3>1, RemoveAtSwapElements
    <3> HIDE DEF q
    <3>3. DOMAIN q = 1..Len(q)
      BY <3>2
    <3> QED
      BY <3>2, <3>3
  <2> HIDE DEF q, h
  <2>0. \A k \in 1..(h - 1) : k \in 1..h /\ k # h /\ h \in 1..h
    BY <1>1
  <2>3. TypeOK'
    BY <1>1, <2>1, <2>2 DEF BackgroundIInv, TypeOK
  <2>4. ASSUME NEW i \in 1..(h - 1), NEW j \in 1..(h - 1), q[i] = q[j]
        PROVE  i = j
    <3>1. q[i] = (IF i = at THEN holders[h] ELSE holders[i]) /\ q[j] = (IF j = at THEN holders[h] ELSE holders[j])
      BY <2>2
    <3>2. i \in 1..h /\ i # h /\ j \in 1..h /\ j # h /\ h \in 1..h
      BY <2>0
    <3> QED
      BY <1>1, <2>4, <3>1, <3>2
  <2>5. ASSUME NEW k \in 1..(h - 1)
        PROVE  q[k] # u
    <3>1. q[k] = (IF k = at THEN holders[h] ELSE holders[k]) /\ k \in 1..h /\ k # h /\ h \in 1..h
      BY <2>0, <2>2
    <3> QED
      BY <1>1, <3>1
  <2>6. ASSUME NEW i \in 1..h, i # at
        PROVE  \E k \in 1..(h - 1) : q[k] = holders[i]
    <3>1. CASE i = h
      <4>1. at \in 1..(h - 1)
        BY <1>1, <2>6, <3>1
      <4> QED
        BY <2>2, <3>1, <4>1
    <3>2. CASE i # h
      <4>1. i \in 1..(h - 1)
        BY <1>1, <3>2
      <4> QED
        BY <2>2, <2>6, <4>1
    <3> QED
      BY <3>1, <3>2
  <2>7. Pending' = {q[k] : k \in 1..(h - 1)}
    BY <1>6, <2>1, <2>2 DEF Pending
  <2>8. u \notin Pending'
    BY <2>5, <2>7
  <2>9. ASSUME NEW t \in DOMAIN task, t # u
        PROVE  t \in Pending' <=> t \in Pending
    <3>1. t \in Pending => \E i \in 1..h : holders[i] = t /\ i # at
      BY <1>1, <2>9, PendingTasks
    <3>2. t \in Pending => t \in Pending'
      BY <2>6, <2>7, <3>1
    <3>3. t \in Pending' => \E i \in 1..h : holders[i] = t /\ i # at
      <4>1. h \in 1..h /\ \A k \in 1..(h - 1) : k \in 1..h
        BY <1>1
      <4>2. t \in Pending' => \E k \in 1..(h - 1) : q[k] = t
        BY <2>7
      <4>3. t \in Pending' => \E i \in 1..h : holders[i] = t
        BY <2>2, <4>1, <4>2
      <4> QED
        BY <2>9, <4>3
    <3>4. t \in Pending' => t \in Pending
      BY <1>1, <1>6, <3>3, PendingTasks
    <3> QED
      BY <3>2, <3>4
  <2>10. \A t \in DOMAIN task' : task'[t].told = IF t \in Pending' THEN 0 ELSE 1
    BY <1>1, <1>2, <1>3, <1>4, <2>8, <2>9
  <2>11. ListInv'
    BY <1>6, <2>1, <2>2, <2>4, <2>10 DEF ListInv
  <2> QED
    BY <2>3, <2>11 DEF BackgroundIInv
<1> QED
  BY <1>5, <1>6

(* The delegate of a task of the game is executed: the list waits. *)
LEMMA CallbackKeeps ==
    ASSUME BackgroundIInv, phase \in {"play", "exit"}, phase' = phase,
           game = "tick", game' = "callback", at \in DOMAIN holders, UNCHANGED <<holders, at>>,
           TellsOne(holders[at]), UNCHANGED <<file, saving, action>>
    PROVE  BackgroundIInv'
<1>1. TypeOK'
  BY DEF BackgroundIInv, TypeOK, TellsOne
<1>2. \A t \in DOMAIN task : task[t].told = IF t \in Pending THEN 0 ELSE 1
  BY DEF BackgroundIInv, ListInv
<1>3. \A i, j \in DOMAIN holders : holders[i] = holders[j] => i = j
  BY DEF BackgroundIInv, ListInv
<1>4. holders[at] \in Pending /\ holders[at] \in DOMAIN task
  BY PendingTasks DEF BackgroundIInv, TypeOK
<1>5. Pending' = Pending \ {holders[at]}
  BY <1>3 DEF Pending
<1>6. \A t \in DOMAIN task' : task'[t].told = IF t \in Pending' THEN 0 ELSE 1
  BY <1>2, <1>4, <1>5 DEF TellsOne
<1> QED
  BY <1>1, <1>3, <1>6 DEF BackgroundIInv, ListInv

(* The process dies: nothing more happens. *)
LEMMA DeadKeeps ==
    ASSUME BackgroundIInv, phase' = "dead", UNCHANGED <<file, saving, holders, game, at, action>>,
           task' \in Seq(Task), Len(task') = Len(task)
    PROVE  BackgroundIInv'
BY DEF BackgroundIInv, TypeOK

(* One task is changed. *)
LEMMA TaskReplaced ==
    ASSUME TypeOK, NEW t \in DOMAIN task, NEW new \in Task, NEW r, r = [task EXCEPT ![t] = new]
    PROVE  /\ r \in Seq(Task) /\ Len(r) = Len(task) /\ DOMAIN r = DOMAIN task
           /\ \A u \in DOMAIN task : r[u].told = IF u = t THEN new.told ELSE task[u].told
<1>1. \A u \in DOMAIN task : r[u] = IF u = t THEN new ELSE task[u]
  OBVIOUS
<1>2. ASSUME NEW u \in DOMAIN task
      PROVE  r[u] \in Task
  BY <1>1 DEF TypeOK
<1>3. r = [u \in DOMAIN task |-> r[u]]
  OBVIOUS
<1>4. r \in Seq(Task) /\ Len(r) = Len(task) /\ DOMAIN r = DOMAIN task
  BY <1>2, <1>3, TasksMapped DEF TypeOK
<1>5. \A u \in DOMAIN task : r[u].told = IF u = t THEN new.told ELSE task[u].told
  BY <1>1
<1> QED
  BY <1>4, <1>5

(* ... but for the count of the calls. *)
LEMMA TaskChanged ==
    ASSUME TypeOK, NEW t \in DOMAIN task, NEW new \in Task, new.told = task[t].told,
           NEW r, r = [task EXCEPT ![t] = new]
    PROVE  /\ r \in Seq(Task) /\ Len(r) = Len(task) /\ DOMAIN r = DOMAIN task
           /\ \A u \in DOMAIN task : r[u].told = task[u].told
<1>1. \A u \in DOMAIN task : r[u].told = IF u = t THEN new.told ELSE task[u].told
  BY TaskReplaced
<1>2. r \in Seq(Task) /\ Len(r) = Len(task) /\ DOMAIN r = DOMAIN task
  BY TaskReplaced
<1> QED
  BY <1>1, <1>2

(* Told tells the caller of the task it is given. *)
LEMMA ToldTellsOne ==
    ASSUME TypeOK, NEW t \in DOMAIN task, task' = Told(t)
    PROVE  TellsOne(t)
<1> DEFINE none == NewTask("info", Nobody, {})
           m == task[t].told + 1
           new == [none EXCEPT !.listed = TRUE, !.told = m]
<1>1. none \in Task /\ task \in Seq(Task) /\ task[t] \in Task
  BY NobodysTask DEF TypeOK
<1>2. task' = [task EXCEPT ![t] = new]
  BY DEF Told
<1>0. m \in Nat
  BY <1>1 DEF Task
<1> HIDE DEF none, m
<1>3. new \in Task /\ new.told = m
  BY <1>0, <1>1 DEF Task
<1> HIDE DEF new
<1>4. /\ task' \in Seq(Task) /\ Len(task') = Len(task) /\ DOMAIN task' = DOMAIN task
      /\ \A u \in DOMAIN task : task'[u].told = IF u = t THEN new.told ELSE task[u].told
  BY <1>2, <1>3, TaskReplaced
<1>5. \A u \in DOMAIN task : task'[u].told = IF u = t THEN task[u].told + 1 ELSE task[u].told
  BY <1>3, <1>4 DEF m
<1> QED
  BY <1>4, <1>5 DEF TellsOne

LEMMA SameTasksUnchanged ==
    ASSUME TypeOK, task' = task
    PROVE  SameTasks
BY DEF TypeOK, SameTasks

LEMMA CreateTaskKeeps ==
    ASSUME BackgroundIInv, phase = "play", phase' = "play", at' = at,
           NEW kind \in Kind, NEW listener \in Listener, NEW slots \in SUBSET Slot,
           CreateTask(kind, listener, slots), UNCHANGED <<file, saving>>,
           action' \in [Node -> {"none", "waiting", "finished"}],
           game' = game \/ (game # "callback" /\ game' = "wait")
    PROVE  BackgroundIInv'
BY NewTaskType, CreateKeeps DEF CreateTask, BackgroundIInv

LEMMA RequestsKeep == BackgroundIInv /\ Requests => BackgroundIInv'
<1> SUFFICES ASSUME BackgroundIInv, Requests
             PROVE  BackgroundIInv'
  OBVIOUS
<1>0. /\ TypeOK /\ action \in [Node -> {"none", "waiting", "finished"}]
      /\ {"list", "deleteAll", "deleteOne"} \subseteq Kind
      /\ Game \in Listener /\ Nobody \in Listener /\ Node \subseteq Listener
  BY DEF BackgroundIInv, TypeOK, Kind, Listener
<1>1. CASE LoadAllSlotInfos
  BY <1>0, <1>1, CreateTaskKeeps DEF LoadAllSlotInfos, GameRuns
<1>2. CASE DeleteAllSlots
  BY <1>0, <1>2, CreateTaskKeeps DEF DeleteAllSlots, GameRuns
<1>3. CASE LoadAllSlotInfosSync
  BY <1>0, <1>3, CreateTaskKeeps DEF LoadAllSlotInfosSync
<1>4. ASSUME NEW s \in Slot, LoadInfo(s)
      PROVE  BackgroundIInv'
  <2>1. PICK null \in ReadsNull(s) :
          Create([NewTask("info", Nobody, {}) EXCEPT !.listed = TRUE, !.nulls = IF null THEN {s} ELSE {}])
    BY <1>4 DEF LoadInfo
  <2> DEFINE none == NewTask("info", Nobody, {})
             nulls == IF null THEN {s} ELSE {}
             new == [none EXCEPT !.listed = TRUE, !.nulls = nulls]
  <2>2. none \in Task /\ none.told = 0
    BY <1>0, NobodysTask
  <2>3. nulls \in SUBSET Slot
    BY <1>4
  <2> HIDE DEF none, nulls
  <2>4. new \in Task /\ new.told = 0
    BY <2>2, <2>3 DEF Task
  <2>5. Create(new)
    BY <2>1 DEF none, nulls
  <2> HIDE DEF new
  <2> QED
    BY <1>0, <1>4, <2>4, <2>5, CreateKeeps DEF LoadInfo, GameRuns
<1>5. ASSUME NEW s \in Slot, DeleteSlot(s)
      PROVE  BackgroundIInv'
  BY <1>0, <1>5, CreateTaskKeeps DEF DeleteSlot
<1>6. ASSUME NEW n \in Node, BPLoadAllSlotInfos(n) \/ BPDeleteAllSlots(n)
      PROVE  BackgroundIInv'
  <2>1. PICK kind \in {"list", "deleteAll"} : StartAction(n, kind)
    BY <1>6 DEF BPLoadAllSlotInfos, BPDeleteAllSlots
  <2>2. action' \in [Node -> {"none", "waiting", "finished"}]
    BY <1>0, <2>1 DEF StartAction
  <2> QED
    BY <1>0, <1>6, <2>1, <2>2, CreateTaskKeeps DEF StartAction
<1> QED
  BY <1>1, <1>2, <1>3, <1>4, <1>5, <1>6 DEF Requests

LEMMA WorkKeeps ==
    ASSUME BackgroundIInv, NEW t \in DOMAIN task, DoWork(t)
    PROVE  BackgroundIInv'
<1>0. /\ TypeOK /\ task \in Seq(Task) /\ task[t] \in Task
      /\ file \in [Slot -> {"none", "open", "torn", "saved"}] /\ saving \in Slot \cup {Nobody}
      /\ action \in [Node -> {"none", "waiting", "finished"}]
  BY DEF BackgroundIInv, TypeOK
<1>1. ASSUME phase \in {"play", "exit"}, UNCHANGED <<places, saving>>, SameTasks,
             file' \in [Slot -> {"none", "open", "torn", "saved"}]
      PROVE  BackgroundIInv'
  BY <1>0, <1>1, QuietKeeps DEF places
<1>2. CASE FindSlotFileNames(t)
  <2> DEFINE new == [task[t] EXCEPT !.listed = TRUE, !.todo = {s \in Slot : file[s] # "none"}]
  <2>1. new \in Task /\ new.told = task[t].told
    BY <1>0 DEF Task
  <2>2. task' = [task EXCEPT ![t] = new]
    BY <1>2 DEF FindSlotFileNames
  <2> HIDE DEF new
  <2>3. SameTasks
    BY <1>0, <2>1, <2>2, TaskChanged DEF SameTasks
  <2> QED
    BY <1>0, <1>1, <1>2, <2>3 DEF FindSlotFileNames, Alive
<1>3. ASSUME NEW s \in Slot, ReadInfo(t, s)
      PROVE  BackgroundIInv'
  <2>1. PICK null \in ReadsNull(s) :
          task' = [task EXCEPT ![t].todo = @ \ {s},
                               ![t].owed = IF file[s] = "saved" THEN @ \ {s} ELSE @,
                               ![t].nulls = IF null THEN @ \cup {s} ELSE @]
    BY <1>3 DEF ReadInfo
  <2> DEFINE owed == IF file[s] = "saved" THEN task[t].owed \ {s} ELSE task[t].owed
             nulls == IF null THEN task[t].nulls \cup {s} ELSE task[t].nulls
             new == [task[t] EXCEPT !.todo = @ \ {s}, !.owed = owed, !.nulls = nulls]
  <2>2. owed \in SUBSET Slot /\ nulls \in SUBSET Slot
    BY <1>0, <1>3 DEF Task
  <2>3. task' = [task EXCEPT ![t] = new]
    BY <2>1
  <2> HIDE DEF owed, nulls
  <2>4. new \in Task /\ new.told = task[t].told
    BY <1>0, <2>2 DEF Task
  <2> HIDE DEF new
  <2>5. SameTasks
    BY <1>0, <2>3, <2>4, TaskChanged DEF SameTasks
  <2> QED
    BY <1>0, <1>1, <1>3, <2>5 DEF ReadInfo, Alive
<1>4. ASSUME NEW s \in Slot, DeleteFile(t, s)
      PROVE  BackgroundIInv'
  <2>1. CASE file' = [file EXCEPT ![s] = "none"] /\ task' = Without([task EXCEPT ![t].todo = @ \ {s}], s)
    <3> DEFINE new == [task[t] EXCEPT !.todo = @ \ {s}]
               r == [task EXCEPT ![t] = new]
    <3>1. new \in Task /\ new.told = task[t].told
      BY <1>0 DEF Task
    <3>2. task' = Without(r, s)
      BY <2>1
    <3> HIDE DEF new
    <3>3. /\ r \in Seq(Task) /\ Len(r) = Len(task) /\ DOMAIN r = DOMAIN task
          /\ \A u \in DOMAIN task : r[u].told = task[u].told
      BY <1>0, <3>1, TaskChanged
    <3> HIDE DEF r
    <3>4. SameTasks
      <4>1. DOMAIN task' = DOMAIN r /\ task' = [u \in DOMAIN r |-> task'[u]]
        BY <3>2 DEF Without
      <4>2. ASSUME NEW u \in DOMAIN r
            PROVE  task'[u] \in Task /\ task'[u].told = r[u].told
        <5>1. r[u] \in Task
          BY <3>3
        <5>2. task'[u] = r[u] \/ task'[u] = [r[u] EXCEPT !.owed = @ \ {s}]
          BY <3>2 DEF Without
        <5> QED
          BY <5>1, <5>2 DEF Task
      <4>3. task' \in Seq(Task) /\ Len(task') = Len(r)
        BY <3>3, <4>1, <4>2, TasksMapped
      <4> QED
        BY <3>3, <4>1, <4>2, <4>3 DEF SameTasks
    <3>5. file' \in [Slot -> {"none", "open", "torn", "saved"}]
      BY <1>0, <2>1
    <3> QED
      BY <1>1, <1>4, <3>4, <3>5 DEF DeleteFile, Alive
  <2>2. CASE task' = [task EXCEPT ![t].todo = @ \ {s}, ![t].owed = @ \ {s}] /\ UNCHANGED file
    <3> DEFINE new == [task[t] EXCEPT !.todo = @ \ {s}, !.owed = @ \ {s}]
    <3>1. new \in Task /\ new.told = task[t].told
      BY <1>0 DEF Task
    <3>2. task' = [task EXCEPT ![t] = new]
      BY <2>2
    <3> HIDE DEF new
    <3>3. SameTasks
      BY <1>0, <3>1, <3>2, TaskChanged DEF SameTasks
    <3> QED
      BY <1>0, <1>1, <1>4, <2>2, <3>3 DEF DeleteFile, Alive
  <2> QED
    BY <1>4, <2>1, <2>2 DEF DeleteFile
<1> QED
  BY <1>2, <1>3, <1>4 DEF DoWork

LEMMA SavesKeep ==
    ASSUME BackgroundIInv, SaveEnds \/ \E s \in Slot : SaveOpens(s)
    PROVE  BackgroundIInv'
<1>0. /\ TypeOK /\ task \in Seq(Task) /\ file \in [Slot -> {"none", "open", "torn", "saved"}]
      /\ saving \in Slot \cup {Nobody} /\ action \in [Node -> {"none", "waiting", "finished"}]
  BY DEF BackgroundIInv, TypeOK
<1>1. CASE SaveEnds
  <2>1. file' \in [Slot -> {"none", "open", "torn", "saved"}]
    BY <1>0, <1>1 DEF SaveEnds
  <2>2. SameTasks
    BY <1>0, <1>1, SameTasksUnchanged DEF SaveEnds
  <2> QED
    BY <1>0, <1>1, <2>1, <2>2, QuietKeeps DEF SaveEnds, Alive, places
<1>2. ASSUME NEW s \in Slot, SaveOpens(s)
      PROVE  BackgroundIInv'
  <2>1. file' \in [Slot -> {"none", "open", "torn", "saved"}]
    BY <1>0, <1>2 DEF SaveOpens
  <2>2. task' = [t \in DOMAIN task |-> [task[t] EXCEPT !.owed = @ \ {s}]]
    BY <1>2 DEF SaveOpens
  <2>3. ASSUME NEW t \in DOMAIN task
        PROVE  task'[t] \in Task /\ task'[t].told = task[t].told
    <3>1. task[t] \in Task
      BY <1>0
    <3>2. task'[t] = [task[t] EXCEPT !.owed = @ \ {s}]
      BY <2>2
    <3> QED
      BY <3>1, <3>2 DEF Task
  <2>4. task' = [t \in DOMAIN task |-> task'[t]]
    BY <2>2
  <2>5. SameTasks
    BY <1>0, <2>3, <2>4, TasksMapped DEF SameTasks
  <2> QED
    BY <1>0, <1>2, <2>1, <2>5, QuietKeeps DEF SaveOpens, places
<1> QED
  BY <1>1, <1>2

LEMMA TickTaskKeeps == BackgroundIInv /\ TickTask => BackgroundIInv'
<1> SUFFICES ASSUME BackgroundIInv, TickTask
             PROVE  BackgroundIInv'
  OBVIOUS
<1> DEFINE t == holders[at]
<1>0. /\ TypeOK /\ phase \in {"play", "exit"} /\ game = "tick" /\ at \in DOMAIN holders
      /\ t \in DOMAIN task /\ task \in Seq(Task)
      /\ file \in [Slot -> {"none", "open", "torn", "saved"}] /\ saving \in Slot \cup {Nobody}
      /\ action \in [Node -> {"none", "waiting", "finished"}] /\ at \in Nat \ {0}
  BY PendingTasks DEF TickTask, Alive, BackgroundIInv, TypeOK
<1>1. CASE Passes(t)
  <2>1. at' \in Nat \ {0} /\ SameTasks
    BY <1>0, <1>1, SameTasksUnchanged DEF Passes
  <2> QED
    BY <1>0, <1>1, <2>1, QuietKeeps DEF Passes
<1>2. CASE TellsOfNull(t)
  BY <1>0, <1>2, DeadKeeps DEF TellsOfNull
<1>3. CASE TellsNobody(t)
  <2>1. TellsOne(t)
    BY <1>0, <1>3, ToldTellsOne DEF TellsNobody
  <2> QED
    BY <1>0, <1>3, <2>1, OverKeeps DEF TellsNobody
<1>4. CASE TellsGame(t)
  <2>1. TellsOne(t)
    BY <1>0, <1>4, ToldTellsOne DEF TellsGame
  <2> QED
    BY <1>0, <1>4, <2>1, CallbackKeeps DEF TellsGame
<1>5. CASE TellsAction(t)
  <2>1. TellsOne(t)
    BY <1>0, <1>5, ToldTellsOne DEF TellsAction
  <2>2. action' \in [Node -> {"none", "waiting", "finished"}]
    BY <1>0, <1>5 DEF TellsAction
  <2> QED
    BY <1>0, <1>5, <2>1, <2>2, OverKeeps DEF TellsAction
<1>6. CASE TellsFreed(t)
  <2>1. TellsOne(t)
    BY <1>0, <1>6, ToldTellsOne DEF TellsFreed
  <2>2. CASE phase' = "dead" /\ UNCHANGED <<holders, at>>
    BY <1>0, <1>6, <2>1, <2>2, DeadKeeps DEF TellsFreed, TellsOne
  <2>3. CASE TaskIsOver /\ UNCHANGED phase
    BY <1>0, <1>6, <2>1, <2>3, OverKeeps DEF TellsFreed
  <2> QED
    BY <1>6, <2>2, <2>3 DEF TellsFreed
<1> QED
  BY <1>1, <1>2, <1>3, <1>4, <1>5, <1>6 DEF TickTask

LEMMA GameThreadKeeps == BackgroundIInv /\ GameThread => BackgroundIInv'
<1> SUFFICES ASSUME BackgroundIInv, GameThread
             PROVE  BackgroundIInv'
  OBVIOUS
<1>0. /\ TypeOK /\ file \in [Slot -> {"none", "open", "torn", "saved"}]
      /\ saving \in Slot \cup {Nobody} /\ action \in [Node -> {"none", "waiting", "finished"}]
      /\ at \in Nat \ {0} /\ 1 \in Nat \ {0}
  BY DEF BackgroundIInv, TypeOK
<1>1. task' = task => SameTasks
  BY <1>0, SameTasksUnchanged
<1>2. CASE SyncCallTicks
  BY <1>0, <1>1, <1>2, QuietKeeps DEF SyncCallTicks
<1>3. CASE Tick
  BY <1>0, <1>1, <1>3, QuietKeeps DEF Tick
<1>4. CASE TickEnds
  BY <1>0, <1>1, <1>4, QuietKeeps DEF TickEnds
<1>5. CASE CallbackReturns
  <2>1. at \in DOMAIN holders
    BY <1>5 DEF CallbackReturns, Alive, BackgroundIInv, ListInv
  <2> QED
    BY <1>0, <1>1, <1>5, <2>1, OverKeeps DEF CallbackReturns, Alive
<1>6. CASE AllAreCancelled
  <2>1. holders' = <<>> /\ phase' = "ended" /\ game' = "idle"
    BY <1>6 DEF AllAreCancelled
  <2>2. TypeOK'
    BY <1>0, <1>6, <2>1 DEF AllAreCancelled, TypeOK
  <2>3. Pending = {} /\ Pending' = {}
    <3>1. Len(holders) \in Nat /\ DOMAIN holders = 1..Len(holders) /\ at \in Nat
      BY <1>0 DEF TypeOK
    <3>2. Pending = {}
      BY <1>6, <3>1 DEF AllAreCancelled, Pending
    <3>3. Pending' = {}
      BY <2>1 DEF Pending
    <3> QED
      BY <3>2, <3>3
  <2>4. \A t \in DOMAIN task : task[t].told = IF t \in Pending THEN 0 ELSE 1
    BY <1>6 DEF AllAreCancelled, BackgroundIInv, ListInv
  <2>5. ListInv'
    BY <1>6, <2>1, <2>3, <2>4 DEF AllAreCancelled, ListInv
  <2> QED
    BY <2>2, <2>5 DEF BackgroundIInv
<1> QED
  BY <1>2, <1>3, <1>4, <1>5, <1>6, TickTaskKeeps DEF GameThread

LEMMA WorldKeeps ==
    ASSUME BackgroundIInv, WorldIsDestroyed \/ \E n \in Node : UpdateOperation(n)
    PROVE  BackgroundIInv'
<1>0. /\ TypeOK /\ task \in Seq(Task) /\ file \in [Slot -> {"none", "open", "torn", "saved"}]
      /\ saving \in Slot \cup {Nobody} /\ action \in [Node -> {"none", "waiting", "finished"}]
  BY DEF BackgroundIInv, TypeOK
<1>1. ASSUME NEW n \in Node, UpdateOperation(n)
      PROVE  BackgroundIInv'
  <2>1. SameTasks /\ action' \in [Node -> {"none", "waiting", "finished"}]
    BY <1>0, <1>1, SameTasksUnchanged DEF UpdateOperation
  <2> QED
    BY <1>0, <1>1, <2>1, QuietKeeps DEF UpdateOperation
<1>2. CASE WorldIsDestroyed
  <2>1. action' \in [Node -> {"none", "waiting", "finished"}]
    BY <1>2 DEF WorldIsDestroyed
  <2>2. DOMAIN task' = DOMAIN task /\ task' = [t \in DOMAIN task |-> task'[t]]
    BY <1>2 DEF WorldIsDestroyed
  <2>3. ASSUME NEW t \in DOMAIN task
        PROVE  task'[t] \in Task /\ task'[t].told = task[t].told
    <3>1. task[t] \in Task
      BY <1>0
    <3>2. task'[t] = task[t] \/ task'[t] = [task[t] EXCEPT !.listener = Freed]
      BY <1>2 DEF WorldIsDestroyed
    <3> QED
      BY <3>1, <3>2 DEF Task, Listener
  <2>4. SameTasks
    BY <1>0, <2>2, <2>3, TasksMapped DEF SameTasks
  <2> QED
    BY <1>0, <1>2, <2>1, <2>4, QuietKeeps DEF WorldIsDestroyed
<1> QED
  BY <1>1, <1>2

(* The end of the game, and the calls that its callbacks may not make. *)
LEMMA EndKeeps ==
    ASSUME BackgroundIInv, Deinitialize \/ SyncCallInCallback \/ RequestWhileCancelling
    PROVE  BackgroundIInv'
<1>0. TypeOK /\ task \in Seq(Task)
  BY DEF BackgroundIInv, TypeOK
<1>1. CASE Deinitialize
  <2>1. TypeOK'
    BY <1>0, <1>1 DEF Deinitialize, TypeOK
  <2>2. \A i \in DOMAIN holders : i >= 1
    BY <1>0 DEF TypeOK
  <2>3. Pending' = Pending
    BY <1>1, <2>2 DEF Deinitialize, Pending
  <2>4. ListInv'
    BY <1>1, <2>3 DEF Deinitialize, BackgroundIInv, ListInv
  <2> QED
    BY <2>1, <2>4 DEF BackgroundIInv
<1>2. CASE SyncCallInCallback
  <2> DEFINE t == holders[at]
             m == task[t].told + 1
             new == [task[t] EXCEPT !.told = m]
  <2>1. at \in DOMAIN holders /\ t \in DOMAIN task
    BY <1>2, PendingTasks DEF SyncCallInCallback, BackgroundIInv, ListInv
  <2>2. task[t] \in Task
    BY <1>0, <2>1
  <2>3. m \in Nat
    BY <2>2 DEF Task
  <2>4. task' = [task EXCEPT ![t] = new]
    BY <1>2 DEF SyncCallInCallback
  <2> HIDE DEF m, t
  <2>5. new \in Task
    BY <2>2, <2>3 DEF Task
  <2> HIDE DEF new
  <2>6. task' \in Seq(Task) /\ Len(task') = Len(task)
    BY <1>0, <2>1, <2>4, <2>5, TaskReplaced
  <2> QED
    BY <1>2, <2>6, DeadKeeps DEF SyncCallInCallback
<1>3. CASE RequestWhileCancelling
  BY <1>0, <1>3, DeadKeeps DEF RequestWhileCancelling
<1> QED
  BY <1>1, <1>2, <1>3

LEMMA NextKeeps == BackgroundIInv /\ [Next]_vars => BackgroundIInv'
<1>1. BackgroundIInv /\ UNCHANGED vars => BackgroundIInv'
  BY DEF vars, BackgroundIInv, TypeOK, ListInv, Pending
<1> QED
  BY <1>1, RequestsKeep, GameThreadKeeps, WorkKeeps, SavesKeep, WorldKeeps, EndKeeps DEF Next

(* A task is in the list, before its turn, exactly as long as its caller   *)
(* was not told, and the types of the state: for any number of slots,      *)
(* nodes and tasks.                                                        *)
THEOREM ListIsExact == Spec => []BackgroundIInv
BY InitBackgroundIInv, NextKeeps, PTL DEF Spec

LEMMA ExactIsToldOnce == BackgroundIInv => ToldOnce
<1> SUFFICES ASSUME BackgroundIInv, phase # "dead"
             PROVE  ToldOnce
  BY DEF ToldOnce
<1>1. \A t \in DOMAIN task : task[t].told = IF t \in Pending THEN 0 ELSE 1
  BY DEF BackgroundIInv, ListInv
<1>2. phase = "ended" => Pending = {}
  BY DEF BackgroundIInv, ListInv, Pending
<1> QED
  BY <1>1, <1>2 DEF ToldOnce

(* FScopedTaskList tells every caller once: at most once while the process *)
(* lives, whatever its callbacks request, and exactly once when CancelAll  *)
(* has come to its end.                                                    *)
THEOREM CallersAreToldOnce == Spec => []ToldOnce
BY ListIsExact, ExactIsToldOnce, PTL
-----------------------------------------------------------------------------
(* What lists and deletions owe.                                           *)

(* The list of tasks is the same but for what does not matter to the work, *)
(* or for a task that became an info task that was told.                   *)
LEMMA SameWorkOwes ==
    ASSUME OwedInv, file' = file, DOMAIN task' = DOMAIN task,
           \A t \in DOMAIN task :
                \/ task'[t].kind = "info"
                \/ /\ task'[t].kind = task[t].kind /\ task'[t].listed = task[t].listed
                   /\ task'[t].todo = task[t].todo /\ task'[t].owed = task[t].owed
    PROVE  OwedInv'
BY DEF OwedInv, Owes

LEMMA SameTasksOwe == OwedInv /\ UNCHANGED <<task, file>> => OwedInv'
BY DEF OwedInv, Owes

(* A new task is in order. *)
LEMMA NewTaskOwes ==
    ASSUME NEW kind \in Kind, NEW listener, NEW slots \in SUBSET Slot,
           kind \in {"list", "deleteAll"} => slots = {}
    PROVE  Owes(NewTask(kind, listener, slots), file) /\ NewTask(kind, listener, slots).kind = kind
<1> DEFINE k == NewTask(kind, listener, slots)
<1>1. k.kind = kind /\ k.todo = slots /\ k.listed = (slots # {})
  BY DEF NewTask
<1>2. CASE kind = "list"
  <2>1. k.owed = {s \in Slot : file[s] = "saved"}
    BY <1>2 DEF NewTask
  <2> QED
    BY <1>1, <1>2, <2>1 DEF Owes
<1>3. CASE kind = "deleteAll"
  BY <1>1, <1>3 DEF Owes
<1>4. CASE kind = "deleteOne"
  <2>1. k.owed = slots
    BY <1>4 DEF NewTask
  <2> QED
    BY <1>1, <1>4, <2>1 DEF Owes
<1>5. CASE kind = "info"
  BY <1>1, <1>5 DEF Owes
<1> QED
  BY <1>1, <1>2, <1>3, <1>4, <1>5 DEF Kind

LEMMA CreateOwes ==
    ASSUME TypeOK, OwedInv, NEW new, Owes(new, file), Create(new), file' = file
    PROVE  OwedInv'
<1>1. task \in Seq(Task) /\ task' = Append(task, new)
  BY DEF TypeOK, Create
<1>2. /\ DOMAIN task' = 1..(Len(task) + 1) /\ DOMAIN task = 1..Len(task) /\ Len(task) \in Nat
      /\ \A t \in DOMAIN task' : task'[t] = IF t = Len(task) + 1 THEN new ELSE task[t]
  BY <1>1
<1>3. ASSUME NEW t \in DOMAIN task'
      PROVE  Owes(task'[t], file)
  BY <1>2 DEF OwedInv
<1> QED
  BY <1>3 DEF OwedInv, Owes

LEMMA RequestsOwe == TypeOK /\ OwedInv /\ Requests => OwedInv'
<1> SUFFICES ASSUME TypeOK, OwedInv, Requests
             PROVE  OwedInv'
  OBVIOUS
<1>1. ASSUME NEW kind \in Kind, NEW listener, NEW slots \in SUBSET Slot,
             kind \in {"list", "deleteAll"} => slots = {},
             CreateTask(kind, listener, slots), file' = file
      PROVE  OwedInv'
  BY <1>1, NewTaskOwes, CreateOwes DEF CreateTask
<1>2. {"list", "deleteAll", "deleteOne", "info"} = Kind
  BY DEF Kind
<1>3. CASE LoadAllSlotInfos \/ DeleteAllSlots \/ LoadAllSlotInfosSync
  BY <1>1, <1>2, <1>3 DEF LoadAllSlotInfos, DeleteAllSlots, LoadAllSlotInfosSync
<1>4. ASSUME NEW s \in Slot, LoadInfo(s)
      PROVE  OwedInv'
  <2>1. PICK null \in ReadsNull(s) :
          Create([NewTask("info", Nobody, {}) EXCEPT !.listed = TRUE, !.nulls = IF null THEN {s} ELSE {}])
    BY <1>4 DEF LoadInfo
  <2> DEFINE new == [NewTask("info", Nobody, {}) EXCEPT !.listed = TRUE, !.nulls = IF null THEN {s} ELSE {}]
  <2>2. new.kind = "info"
    BY DEF NewTask
  <2>3. Owes(new, file)
    BY <2>2 DEF Owes
  <2> HIDE DEF new
  <2>4. Create(new)
    BY <2>1 DEF new
  <2> QED
    BY <1>4, <2>3, <2>4, CreateOwes DEF LoadInfo
<1>5. ASSUME NEW s \in Slot, DeleteSlot(s)
      PROVE  OwedInv'
  BY <1>1, <1>2, <1>5 DEF DeleteSlot
<1>6. ASSUME NEW n \in Node, BPLoadAllSlotInfos(n) \/ BPDeleteAllSlots(n)
      PROVE  OwedInv'
  BY <1>1, <1>2, <1>6 DEF BPLoadAllSlotInfos, BPDeleteAllSlots, StartAction
<1> QED
  BY <1>3, <1>4, <1>5, <1>6 DEF Requests

(* One step of the work of a task. *)
LEMMA WorkOwes ==
    ASSUME TypeOK, OwedInv, NEW t \in DOMAIN task, DoWork(t)
    PROVE  OwedInv'
<1>0. /\ task \in Seq(Task) /\ task[t] \in Task /\ Owes(task[t], file)
      /\ file \in [Slot -> {"none", "open", "torn", "saved"}]
      /\ task[t].owed \subseteq Slot
  <2>1. /\ task \in Seq(Task) /\ Owes(task[t], file)
        /\ file \in [Slot -> {"none", "open", "torn", "saved"}]
    BY DEF TypeOK, OwedInv
  <2>2. task[t] \in Task
    BY <2>1
  <2> QED
    BY <2>1, <2>2 DEF Task
<1>1. ASSUME NEW new, task' = [task EXCEPT ![t] = new], file' = file, Owes(new, file)
      PROVE  OwedInv'
  BY <1>1 DEF OwedInv, Owes
<1>2. CASE FindSlotFileNames(t)
  <2> DEFINE new == [task[t] EXCEPT !.listed = TRUE, !.todo = {s \in Slot : file[s] # "none"}]
  <2>1. task' = [task EXCEPT ![t] = new] /\ file' = file
    BY <1>2 DEF FindSlotFileNames
  <2>2. /\ new.kind = task[t].kind /\ new.owed = task[t].owed
        /\ new.todo = {s \in Slot : file[s] # "none"}
    BY <1>0 DEF Task
  <2>3. Owes(new, file)
    BY <1>0, <2>2 DEF Owes
  <2> HIDE DEF new
  <2> QED
    BY <1>1, <2>1, <2>3
<1>3. ASSUME NEW s \in Slot, ReadInfo(t, s)
      PROVE  OwedInv'
  <2>1. PICK null \in ReadsNull(s) :
          task' = [task EXCEPT ![t].todo = @ \ {s},
                               ![t].owed = IF file[s] = "saved" THEN @ \ {s} ELSE @,
                               ![t].nulls = IF null THEN @ \cup {s} ELSE @]
    BY <1>3 DEF ReadInfo
  <2> DEFINE owed == IF file[s] = "saved" THEN task[t].owed \ {s} ELSE task[t].owed
             nulls == IF null THEN task[t].nulls \cup {s} ELSE task[t].nulls
             new == [task[t] EXCEPT !.todo = @ \ {s}, !.owed = owed, !.nulls = nulls]
  <2>2. task' = [task EXCEPT ![t] = new] /\ file' = file
    BY <1>3, <2>1 DEF ReadInfo
  <2> HIDE DEF nulls
  <2>3. /\ new.kind = "list" /\ new.listed = task[t].listed
        /\ new.owed = owed /\ new.todo = task[t].todo \ {s}
    BY <1>0, <1>3 DEF Task, ReadInfo
  <2>4. \A r \in owed : file[r] = "saved" /\ r # s /\ r \in task[t].owed
    BY <1>0, <1>3 DEF Owes, ReadInfo
  <2>5. Owes(new, file)
    BY <1>0, <1>3, <2>3, <2>4 DEF Owes, ReadInfo
  <2> HIDE DEF new
  <2> QED
    BY <1>1, <2>2, <2>5
<1>4. ASSUME NEW s \in Slot, DeleteFile(t, s)
      PROVE  OwedInv'
  <2>0. task[t].kind \in {"deleteAll", "deleteOne"} /\ s \in task[t].todo
    BY <1>4 DEF DeleteFile
  <2>1. CASE file' = [file EXCEPT ![s] = "none"] /\ task' = Without([task EXCEPT ![t].todo = @ \ {s}], s)
    <3> DEFINE new == [task[t] EXCEPT !.todo = @ \ {s}]
               r == [task EXCEPT ![t] = new]
    <3>1. /\ new.kind = task[t].kind /\ new.listed = task[t].listed
          /\ new.owed = task[t].owed /\ new.todo = task[t].todo \ {s}
      BY <1>0 DEF Task
    <3>2. task' = Without(r, s)
      BY <2>1
    <3> HIDE DEF new
    <3>3. DOMAIN task' = DOMAIN task /\ DOMAIN r = DOMAIN task
      BY <3>2 DEF Without
    <3>4. ASSUME NEW u \in DOMAIN task
          PROVE  Owes(task'[u], file')
      <4>0. task[u] \in Task /\ Owes(task[u], file)
        BY <1>0 DEF OwedInv
      <4>1. task[u] \in Task /\ Owes(task[u], file) /\ task[u].owed \subseteq Slot
        BY <4>0 DEF Task
      <4>2. CASE u = t
        <5>1. task'[u] = new
          BY <2>0, <3>1, <3>2, <4>2 DEF Without
        <5> QED
          BY <1>0, <2>0, <2>1, <3>1, <4>2, <5>1 DEF Owes
      <4>3. CASE u # t /\ task[u].kind = "list"
        <5>1. task'[u] = [task[u] EXCEPT !.owed = @ \ {s}]
          BY <3>2, <4>3 DEF Without
        <5>2. /\ task'[u].kind = "list" /\ task'[u].owed = task[u].owed \ {s}
              /\ task'[u].listed = task[u].listed /\ task'[u].todo = task[u].todo
          BY <4>1, <4>3, <5>1 DEF Task
        <5>3. \A q \in task[u].owed \ {s} : file'[q] = file[q]
          BY <1>0, <2>1, <4>1
        <5>4. \A q \in task[u].owed : file[q] = "saved" /\ (task[u].listed => q \in task[u].todo)
          BY <4>1, <4>3 DEF Owes
        <5> QED
          BY <5>2, <5>3, <5>4 DEF Owes
      <4>4. CASE u # t /\ task[u].kind # "list"
        <5>1. task'[u] = task[u]
          BY <3>2, <4>4 DEF Without
        <5> QED
          BY <1>0, <2>1, <4>1, <4>4, <5>1 DEF Owes
      <4> QED
        BY <4>2, <4>3, <4>4
    <3> QED
      BY <3>3, <3>4 DEF OwedInv, Owes
  <2>2. CASE task' = [task EXCEPT ![t].todo = @ \ {s}, ![t].owed = @ \ {s}] /\ UNCHANGED file
    <3> DEFINE new == [task[t] EXCEPT !.todo = @ \ {s}, !.owed = @ \ {s}]
    <3>1. task' = [task EXCEPT ![t] = new] /\ file' = file
      BY <2>2
    <3>2. /\ new.kind = task[t].kind /\ new.listed = task[t].listed
          /\ new.owed = task[t].owed \ {s} /\ new.todo = task[t].todo \ {s}
      BY <1>0 DEF Task
    <3>3. Owes(new, file)
      BY <1>0, <2>0, <3>2 DEF Owes
    <3> HIDE DEF new
    <3> QED
      BY <1>1, <3>1, <3>3
  <2> QED
    BY <1>4, <2>1, <2>2 DEF DeleteFile
<1> QED
  BY <1>2, <1>3, <1>4 DEF DoWork

(* A save under way: nobody owes anything of its slot. *)
LEMMA SavesOwe ==
    ASSUME TypeOK, OwedInv, SaveEnds \/ \E s \in Slot : SaveOpens(s)
    PROVE  OwedInv'
<1>0. task \in Seq(Task) /\ file \in [Slot -> {"none", "open", "torn", "saved"}]
  BY DEF TypeOK
<1>1. CASE SaveEnds
  <2>1. /\ task' = task
        /\ \A s \in Slot : file[s] # "open" => file'[s] = file[s]
    BY <1>0, <1>1 DEF SaveEnds
  <2>2. ASSUME NEW t \in DOMAIN task
        PROVE  Owes(task'[t], file')
    <3>0. task[t] \in Task /\ Owes(task[t], file)
      BY <1>0 DEF OwedInv
    <3>1. Owes(task[t], file) /\ task[t].owed \subseteq Slot
      BY <3>0 DEF Task
    <3> QED
      BY <2>1, <3>1 DEF Owes
  <2> QED
    BY <2>1, <2>2 DEF OwedInv, Owes
<1>2. ASSUME NEW s \in Slot, SaveOpens(s)
      PROVE  OwedInv'
  <2>1. /\ DOMAIN task' = DOMAIN task
        /\ \A t \in DOMAIN task : task'[t] = [task[t] EXCEPT !.owed = @ \ {s}]
        /\ file' = [file EXCEPT ![s] = "open"]
    BY <1>2 DEF SaveOpens
  <2>2. ASSUME NEW t \in DOMAIN task
        PROVE  Owes(task'[t], file')
    <3>0. task[t] \in Task /\ Owes(task[t], file)
      BY <1>0 DEF OwedInv
    <3>1. task[t] \in Task /\ Owes(task[t], file) /\ task[t].owed \subseteq Slot
      BY <3>0 DEF Task
    <3>2. /\ task'[t].kind = task[t].kind /\ task'[t].owed = task[t].owed \ {s}
          /\ task'[t].listed = task[t].listed /\ task'[t].todo = task[t].todo
      BY <2>1, <3>1 DEF Task
    <3> QED
      BY <1>0, <2>1, <3>1, <3>2 DEF Owes
  <2> QED
    BY <2>1, <2>2 DEF OwedInv, Owes
<1> QED
  BY <1>1, <1>2

(* Whoever was told is owed nothing more. *)
LEMMA ToldOwes ==
    ASSUME TypeOK, OwedInv, NEW t \in DOMAIN task, task' = Told(t), file' = file
    PROVE  OwedInv'
<1>1. DOMAIN task' = DOMAIN task /\ task'[t].kind = "info"
      /\ \A u \in DOMAIN task : u # t => task'[u] = task[u]
  BY DEF Told, NewTask
<1> QED
  BY <1>1, SameWorkOwes

LEMMA TellsOwe == BackgroundIInv /\ OwedInv /\ TickTask => OwedInv'
<1> SUFFICES ASSUME BackgroundIInv, OwedInv, TickTask
             PROVE  OwedInv'
  OBVIOUS
<1> DEFINE t == holders[at]
<1>1. TypeOK /\ t \in DOMAIN task
  BY PendingTasks DEF TickTask, Alive, BackgroundIInv, TypeOK
<1>2. CASE Passes(t) \/ TellsOfNull(t)
  BY <1>2, SameTasksOwe DEF Passes, TellsOfNull
<1>3. CASE TellsNobody(t) \/ TellsGame(t) \/ TellsAction(t) \/ TellsFreed(t)
  <2>1. task' = Told(t) /\ file' = file
    BY <1>3 DEF TellsNobody, TellsGame, TellsAction, TellsFreed
  <2> HIDE DEF t
  <2> QED
    BY <1>1, <2>1, ToldOwes
<1> QED
  BY <1>2, <1>3 DEF TickTask

LEMMA OthersOwe ==
    ASSUME BackgroundIInv, OwedInv, WorldIsDestroyed \/ SyncCallInCallback
    PROVE  OwedInv'
<1>0. task \in Seq(Task)
  BY DEF BackgroundIInv, TypeOK
<1>1. CASE WorldIsDestroyed
  <2>1. DOMAIN task' = DOMAIN task /\ file' = file
    BY <1>1 DEF WorldIsDestroyed
  <2>2. ASSUME NEW t \in DOMAIN task
        PROVE  /\ task'[t].kind = task[t].kind /\ task'[t].listed = task[t].listed
               /\ task'[t].todo = task[t].todo /\ task'[t].owed = task[t].owed
    <3>1. task[t] \in Task
      BY <1>0
    <3>2. task'[t] = task[t] \/ task'[t] = [task[t] EXCEPT !.listener = Freed]
      BY <1>1 DEF WorldIsDestroyed
    <3> QED
      BY <3>1, <3>2 DEF Task
  <2> QED
    BY <2>1, <2>2, SameWorkOwes
<1>2. CASE SyncCallInCallback
  <2> DEFINE u == holders[at]
             m == task[u].told + 1
  <2>1. task' = [task EXCEPT ![u] = [task[u] EXCEPT !.told = m]] /\ file' = file
    BY <1>2 DEF SyncCallInCallback
  <2> HIDE DEF u, m
  <2>2. ASSUME NEW t \in DOMAIN task
        PROVE  /\ task'[t].kind = task[t].kind /\ task'[t].listed = task[t].listed
               /\ task'[t].todo = task[t].todo /\ task'[t].owed = task[t].owed
    <3>1. task[t] \in Task
      BY <1>0
    <3>2. task'[t] = task[t] \/ task'[t] = [task[t] EXCEPT !.told = m]
      BY <2>1
    <3> QED
      BY <3>1, <3>2 DEF Task
  <2>3. DOMAIN task' = DOMAIN task
    BY <2>1
  <2> QED
    BY <2>1, <2>2, <2>3, SameWorkOwes
<1> QED
  BY <1>1, <1>2

LEMMA NextOwes == BackgroundIInv /\ OwedInv /\ [Next]_vars => OwedInv'
<1> SUFFICES ASSUME BackgroundIInv, OwedInv, [Next]_vars
             PROVE  OwedInv'
  OBVIOUS
<1>0. TypeOK
  BY DEF BackgroundIInv
<1>1. CASE Requests
  BY <1>0, <1>1, RequestsOwe
<1>2. CASE GameThread
  <2>1. CASE TickTask
    BY <2>1, TellsOwe
  <2>2. CASE SyncCallTicks \/ Tick \/ TickEnds \/ CallbackReturns \/ AllAreCancelled
    BY <2>2, SameTasksOwe DEF SyncCallTicks, Tick, TickEnds, CallbackReturns, AllAreCancelled
  <2> QED
    BY <1>2, <2>1, <2>2 DEF GameThread
<1>3. ASSUME NEW t \in DOMAIN task, DoWork(t)
      PROVE  OwedInv'
  BY <1>0, <1>3, WorkOwes
<1>4. CASE SaveEnds \/ \E s \in Slot : SaveOpens(s)
  BY <1>0, <1>4, SavesOwe
<1>5. CASE WorldIsDestroyed \/ SyncCallInCallback
  BY <1>5, OthersOwe
<1>6. CASE UNCHANGED vars \/ Deinitialize \/ RequestWhileCancelling \/ \E n \in Node : UpdateOperation(n)
  BY <1>6, SameTasksOwe DEF vars, Deinitialize, RequestWhileCancelling, UpdateOperation
<1> QED
  BY <1>1, <1>2, <1>3, <1>4, <1>5, <1>6 DEF Next

(* What lists and deletions owe is in order in every state, for any number *)
(* of slots, nodes and tasks.                                              *)
THEOREM OwedIsKept == Spec => []OwedInv
<1>1. Init => OwedInv
  BY DEF Init, OwedInv
<1> QED
  BY <1>1, ListIsExact, NextOwes, PTL DEF Spec

(* LoadAllSlotInfos finds every slot that was saved all the time from the  *)
(* request to its end, whatever Savers and deletions do beside it.         *)
THEOREM ListsAreComplete == Spec => []ListsMissNoSlot
<1>1. OwedInv => ListsMissNoSlot
  BY DEF OwedInv, Owes, ListsMissNoSlot, IsDone
<1> QED
  BY <1>1, OwedIsKept, PTL

(* Once DeleteAllSlots or DeleteSlot is done the slots it had to delete    *)
(* are gone, but for those saved since or open in a list.                  *)
THEOREM DeletionsDelete == Spec => []DeletedIsGone
<1>1. OwedInv => DeletedIsGone
  BY DEF OwedInv, Owes, DeletedIsGone, IsDone
<1> QED
  BY <1>1, OwedIsKept, PTL
=============================================================================
