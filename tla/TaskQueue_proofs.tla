-------------------------- MODULE TaskQueue_proofs --------------------------
(***************************************************************************)
(* Proofs about TaskQueue, for any set of requests and of presets: the     *)
(* invariant IInv is inductive, the safety invariants follow from it, and  *)
(* every step of the queue is a step of SerialRequests or a stutter.       *)
(***************************************************************************)
EXTENDS TaskQueue, SequenceTheorems, TLAPS

-----------------------------------------------------------------------------
(* Facts about sequences. *)

(* Taking the first element out of a sequence without repetitions leaves  *)
(* its tail: what Tasks.Remove does when the first task finishes.          *)
LEMMA WithoutFirst ==
    ASSUME NEW S, NEW q \in Seq(S), q # <<>>, NoRepeats(q)
    PROVE  Without(q, q[1]) = Tail(q)
<1>1. Len(q) \in Nat /\ Len(q) >= 1
  OBVIOUS
<1>2. (CHOOSE i \in 1..Len(q) : q[i] = q[1]) = 1
  BY <1>1 DEF NoRepeats
<1>3. Contains(q, q[1])
  BY <1>1 DEF Contains
<1>4. Without(q, q[1]) = SubSeq(q, 1, 0) \o SubSeq(q, 2, Len(q))
  <2>1. Without(q, q[1]) = RemoveAt(q, 1)
    BY <1>2, <1>3, Zenon DEF Without
  <2>2. 1 - 1 = 0 /\ 1 + 1 = 2
    OBVIOUS
  <2>3. QED
    BY <2>1, <2>2, Zenon DEF RemoveAt
<1>5. SubSeq(q, 1, 0) = <<>>
  BY <1>1, SubSeqEmpty
<1>6. SubSeq(q, 2, Len(q)) = Tail(q)
  BY <1>1, TailIsSubSeq
<1>7. Tail(q) \in Seq(S)
  BY <1>1
<1>8. QED
  BY <1>4, <1>5, <1>6, <1>7, ConcatEmptySeq

(* What the tail of a sequence without repetitions holds. *)
LEMMA TailElements ==
    ASSUME NEW S, NEW q \in Seq(S), q # <<>>, NoRepeats(q)
    PROVE  /\ Tail(q) \in Seq(S)
           /\ Len(Tail(q)) = Len(q) - 1
           /\ \A i \in 1..Len(Tail(q)) : Tail(q)[i] = q[i + 1]
           /\ NoRepeats(Tail(q))
           /\ ~Contains(Tail(q), q[1])
           /\ \A t : Contains(q, t) <=> t = q[1] \/ Contains(Tail(q), t)
<1>1. /\ Tail(q) \in Seq(S)
      /\ Len(q) \in Nat /\ Len(q) >= 1
      /\ Len(Tail(q)) = Len(q) - 1
      /\ \A i \in 1..Len(Tail(q)) : Tail(q)[i] = q[i + 1]
  OBVIOUS
<1>2. NoRepeats(Tail(q))
  BY <1>1 DEF NoRepeats
<1>3. ~Contains(Tail(q), q[1])
  BY <1>1 DEF NoRepeats, Contains
<1>4. ASSUME NEW t
      PROVE  Contains(q, t) <=> t = q[1] \/ Contains(Tail(q), t)
  <2>1. CASE t = q[1]
    BY <2>1, <1>1 DEF Contains
  <2>2. CASE t # q[1]
    <3>1. ASSUME Contains(q, t) PROVE Contains(Tail(q), t)
      <4>1. PICK i \in 1..Len(q) : q[i] = t
        BY <3>1 DEF Contains
      <4>2. i - 1 \in 1..Len(Tail(q)) /\ Tail(q)[i - 1] = t
        BY <4>1, <2>2, <1>1
      <4>3. QED
        BY <4>2 DEF Contains
    <3>2. ASSUME Contains(Tail(q), t) PROVE Contains(q, t)
      BY <3>2, <1>1 DEF Contains
    <3>3. QED
      BY <3>1, <3>2, <2>2
  <2>3. QED
    BY <2>1, <2>2
<1>5. QED
  BY <1>1, <1>2, <1>3, <1>4

(* What a sequence holds after one element more. *)
LEMMA AppendElements ==
    ASSUME NEW S, NEW q \in Seq(S), NEW e \in S
    PROVE  /\ Append(q, e) \in Seq(S)
           /\ Append(q, e) # <<>>
           /\ Len(Append(q, e)) = Len(q) + 1
           /\ \A i \in 1..Len(q) : Append(q, e)[i] = q[i]
           /\ Append(q, e)[Len(q) + 1] = e
           /\ \A t : Contains(Append(q, e), t) <=> t = e \/ Contains(q, t)
<1>1. /\ Append(q, e) \in Seq(S)
      /\ Append(q, e) # <<>>
      /\ Len(Append(q, e)) = Len(q) + 1
      /\ \A i \in 1..Len(q) : Append(q, e)[i] = q[i]
      /\ Append(q, e)[Len(q) + 1] = e
  OBVIOUS
<1>2. ASSUME NEW t
      PROVE  Contains(Append(q, e), t) <=> t = e \/ Contains(q, t)
  BY <1>1 DEF Contains
<1>3. QED
  BY <1>1, <1>2

(* What a sequence holds without its last element. *)
LEMMA FrontElements ==
    ASSUME NEW S, NEW q \in Seq(S), q # <<>>
    PROVE  /\ Front(q) \in Seq(S)
           /\ Len(Front(q)) = Len(q) - 1
           /\ \A i \in 1..Len(Front(q)) : Front(q)[i] = q[i]
           /\ Last(q) \in S
           /\ Last(q) = q[Len(q)]
<1>1. Len(q) \in Nat /\ Len(q) >= 1
  OBVIOUS
<1>2. \A i \in 1..Len(q) : q[i] \in S
  OBVIOUS
<1> DEFINE n == Len(q) - 1
<1>4. /\ SubSeq(q, 1, n) \in Seq(S)
      /\ Len(SubSeq(q, 1, n)) = IF 1 <= n THEN n - 1 + 1 ELSE 0
      /\ \A i \in 1..(n - 1 + 1) : SubSeq(q, 1, n)[i] = q[1 + i - 1]
  <2>1. n \in Int /\ \A i \in 1..n : q[i] \in S
    BY <1>1, <1>2
  <2>2. QED
    BY <2>1, SubSeqProperties
<1>5. Front(q) = SubSeq(q, 1, n) /\ Last(q) = q[Len(q)]
  BY Zenon DEF Front, Last
<1>6. Len(SubSeq(q, 1, n)) = n /\ \A i \in 1..n : SubSeq(q, 1, n)[i] = q[i]
  <2>1. n \in Nat
    BY <1>1
  <2>2. \A i \in 1..n : 1 + i - 1 = i
    BY <2>1
  <2> HIDE DEF n
  <2>3. QED
    BY <1>4, <2>1, <2>2
<1>7. Last(q) \in S
  BY <1>1, <1>2, <1>5
<1>8. QED
  BY <1>4, <1>5, <1>6, <1>7

-----------------------------------------------------------------------------
(* The inductive invariant. *)

(* The values of "active"; NoCall is none of the calls. *)
LEMMA CallValues ==
    /\ \A t \in Task : [fn |-> "OnStart", task |-> t, ok |-> FALSE] \in Call
    /\ \A t \in Task : [fn |-> "Tick", task |-> t, ok |-> FALSE] \in Call
    /\ \A c \in Call, ok \in BOOLEAN : [c EXCEPT !.fn = "OnFinish", !.ok = ok] \in Call
    /\ \A c \in Call : c.task \in Task /\ c.ok \in BOOLEAN /\ c.fn \in Function
    /\ NoCall.fn \notin Function
    /\ NoCall \notin Call
BY DEF Call, NoCall, Function

USE DEF Idle, GameCodeRuns, Scheduled, MayStart

LEMMA InitIInv == Init => IInv
<1> SUFFICES ASSUME Init PROVE IInv
  OBVIOUS
<1> USE NoTaskAssumption, PresetAssumption DEF Init, NoCall
<1>1. TypeOK
  BY DEF TypeOK
<1>2. OnlyHeadRuns /\ CallbacksOfHead /\ FinishedOnce
  BY DEF OnlyHeadRuns, CallbacksOfHead, FinishedOnce, Contains
<1>3. RefusedHasFailed /\ QueueUsesActivePreset
  BY DEF RefusedHasFailed, QueueUsesActivePreset
<1>4. QueueInv /\ StackInv /\ AnswerInv
  BY DEF QueueInv, StackInv, AnswerInv, NoRepeats, Unwinds, Contains
<1>5. QED
  BY <1>1, <1>2, <1>3, <1>4 DEF IInv

(* A new request starts when the queue is empty and is last otherwise. *)
LEMMA CreateTaskIInv ==
    ASSUME NEW t \in Task, IInv, CreateTask(t)
    PROVE  IInv'
<1> USE NoTaskAssumption DEF CreateTask, Begin
<1>1. /\ ~Contains(tasks, t) /\ ~Contains(served, t) /\ ~running[t]
      /\ ~finished[t] /\ ~Unwinds(t) /\ asking # t
  BY DEF IInv, QueueInv, StackInv, AnswerInv
<1>2. /\ tasks' = Append(tasks, t)
      /\ tasks' \in Seq(Task)
      /\ tasks' # <<>>
      /\ Len(tasks') = Len(tasks) + 1
      /\ \A i \in 1..Len(tasks) : tasks'[i] = tasks[i]
      /\ tasks'[Len(tasks) + 1] = t
      /\ \A u : Contains(tasks', u) <=> u = t \/ Contains(tasks, u)
      /\ Len(tasks) \in Nat
  <2>1. tasks \in Seq(Task)
    BY DEF IInv, TypeOK
  <2>2. QED
    BY <2>1, AppendElements
<1>3. /\ tasks = <<>> => tasks'[1] = t
      /\ tasks # <<>> => Len(tasks) >= 1 /\ tasks'[1] = tasks[1] /\ tasks[1] # t
  BY <1>1, <1>2 DEF IInv, TypeOK, Contains
<1>4. MayStart(t, Append(tasks, t)) <=> tasks = <<>>
  BY <1>1, <1>2, <1>3
<1>5. tasks = <<>> => active = NoCall /\ asking = NoTask /\ unwinding = <<>>
  BY Zenon DEF IInv, CallbacksOfHead
<1>6. TypeOK'
  <2> USE DEF IInv, TypeOK
  <2>1. (running \in [Task -> BOOLEAN] /\ answer \in [Task -> {"unasked", "pending", "accepted", "refused"}])'
    OBVIOUS
  <2>2. (asking \in Task \cup {NoTask})'
    OBVIOUS
  <2>3. (active \in Call \cup {NoCall})'
    <3>1. active' = [fn |-> "OnStart", task |-> t, ok |-> FALSE] \/ active' = active
      OBVIOUS
    <3>2. active \in Call \cup {NoCall}
      BY Zenon
    <3> HIDE DEF CreateTask, Begin, IInv, TypeOK
    <3>3. active' \in Call \cup {NoCall}
      BY <3>1, <3>2, CallValues
    <3>4. QED
      BY <3>3 DEF Call, NoCall, Function
  <2>4. (preset \in [Task -> Preset \cup {NoPreset}])'
    OBVIOUS
  <2>5. QED
    BY <1>2, <2>1, <2>2, <2>3, <2>4
<1>7. OnlyHeadRuns'
  <2> SUFFICES ASSUME NEW i \in 1..Len(tasks') PROVE (running[tasks[i]] <=> i = 1)'
    BY DEF OnlyHeadRuns
  <2>1. CASE tasks = <<>>
    BY <2>1, <1>2, <1>3, <1>4 DEF IInv, TypeOK
  <2>2. CASE tasks # <<>> /\ i \in 1..Len(tasks)
    BY <2>2, <1>2, <1>4 DEF IInv, OnlyHeadRuns
  <2>3. CASE tasks # <<>> /\ i = Len(tasks) + 1
    BY <2>3, <1>1, <1>2, <1>3, <1>4
  <2>4. QED
    BY <2>1, <2>2, <2>3, <1>2
<1>8. CallbacksOfHead'
  <2>1. CASE tasks = <<>>
    <3>1. active'.task = t /\ tasks' # <<>> /\ Head(tasks') = t
      BY <2>1, <1>2, <1>3, <1>4
    <3>2. QED
      BY <3>1 DEF CallbacksOfHead
  <2>2. CASE tasks # <<>>
    <3>1. active' = active /\ tasks' # <<>> /\ Head(tasks') = Head(tasks)
      BY <2>2, <1>2, <1>3, <1>4
    <3>2. QED
      BY <3>1, <2>2 DEF IInv, CallbacksOfHead
  <2>3. QED
    BY <2>1, <2>2
<1>9. FinishedOnce'
  <2>1. \A i \in 1..Len(served) : served[i] # t
    BY <1>1 DEF Contains
  <2>2. QED
    BY <2>1, <1>2 DEF IInv, FinishedOnce
<1>10. RefusedHasFailed'
  BY DEF IInv, TypeOK, RefusedHasFailed
<1>11. QueueUsesActivePreset'
  <2> SUFFICES ASSUME NEW i \in 1..Len(tasks') PROVE (preset[tasks[i]] = activePreset)'
    BY DEF QueueUsesActivePreset
  <2>1. CASE i = Len(tasks) + 1
    BY <2>1, <1>2 DEF IInv, TypeOK
  <2>2. CASE i \in 1..Len(tasks)
    <3>1. tasks[i] \in Task /\ tasks[i] # t /\ preset[tasks[i]] = activePreset
      BY <2>2, <1>1 DEF IInv, TypeOK, QueueUsesActivePreset, Contains
    <3>2. QED
      BY <3>1, <2>2, <1>2 DEF IInv, TypeOK
  <2>3. QED
    BY <2>1, <2>2, <1>2
<1>12. QueueInv'
  <2>1. NoRepeats(tasks)'
    BY <1>1, <1>2 DEF IInv, QueueInv, NoRepeats, Contains
  <2>2. \A u \in Task : (running[u] => Scheduled(u) \/ Contains(served, u))'
    BY <1>2 DEF IInv, TypeOK, QueueInv
  <2>3. \A u \in Task : (Scheduled(u) \/ Contains(served, u) => answer[u] # "unasked")'
    BY <1>2 DEF IInv, TypeOK, QueueInv
  <2>4. QED
    BY <2>1, <2>2, <2>3 DEF QueueInv
<1>13. StackInv'
  BY DEF IInv, StackInv, Unwinds
<1>14. AnswerInv'
  BY <1>1, <1>2, <1>4, <1>5 DEF IInv, TypeOK, AnswerInv
<1>15. QED
  BY <1>6, <1>7, <1>8, <1>9, <1>10, <1>11, <1>12, <1>13, <1>14 DEF IInv

(* The steps that change neither the queue nor a flag. *)
LEMMA TickIInv ==
    ASSUME IInv, Tick
    PROVE  IInv'
<1> USE DEF Tick, flags
<1>1. Head(tasks) \in Task
  BY DEF IInv, TypeOK
<1>2. TypeOK'
  <2>1. active' \in Call
    BY <1>1, CallValues
  <2>2. QED
    BY <2>1 DEF IInv, TypeOK, Call, Function
<1>3. CallbacksOfHead'
  <2>1. active'.task = Head(tasks') /\ tasks' # <<>>
    OBVIOUS
  <2>2. QED
    BY <2>1 DEF CallbacksOfHead
<1>4. (OnlyHeadRuns /\ FinishedOnce /\ RefusedHasFailed /\ QueueUsesActivePreset)'
  BY DEF IInv, OnlyHeadRuns, FinishedOnce, RefusedHasFailed, QueueUsesActivePreset
<1>5. (QueueInv /\ StackInv /\ AnswerInv)'
  BY DEF IInv, QueueInv, StackInv, AnswerInv, Unwinds
<1>6. QED
  BY <1>2, <1>3, <1>4, <1>5 DEF IInv

LEMMA ReturnIInv ==
    ASSUME IInv, Return
    PROVE  IInv'
<1> USE DEF Return, flags
<1>1. TypeOK'
  BY DEF IInv, TypeOK, NoCall, Call, Function
<1>2. CallbacksOfHead'
  BY DEF CallbacksOfHead, NoCall
<1>3. (OnlyHeadRuns /\ FinishedOnce /\ RefusedHasFailed /\ QueueUsesActivePreset)'
  BY DEF IInv, OnlyHeadRuns, FinishedOnce, RefusedHasFailed, QueueUsesActivePreset
<1>4. (QueueInv /\ StackInv /\ AnswerInv)'
  BY DEF IInv, QueueInv, StackInv, AnswerInv, Unwinds
<1>5. QED
  BY <1>1, <1>2, <1>3, <1>4 DEF IInv

LEMMA FinishIInv ==
    ASSUME NEW ok \in BOOLEAN, IInv, Finish(ok)
    PROVE  IInv'
<1> USE DEF Finish, flags
<1>1. active \in Call
  BY CallValues DEF IInv, TypeOK, Function
<1>2. active' \in Call /\ active'.task = active.task
  BY <1>1, CallValues DEF Call
<1>3. TypeOK'
  BY <1>2 DEF IInv, TypeOK, Call, Function
<1>4. CallbacksOfHead'
  BY <1>1, <1>2, CallValues DEF IInv, CallbacksOfHead
<1>5. (OnlyHeadRuns /\ FinishedOnce /\ RefusedHasFailed /\ QueueUsesActivePreset)'
  BY DEF IInv, OnlyHeadRuns, FinishedOnce, RefusedHasFailed, QueueUsesActivePreset
<1>6. (QueueInv /\ StackInv /\ AnswerInv)'
  BY DEF IInv, QueueInv, StackInv, AnswerInv, Unwinds
<1>7. QED
  BY <1>3, <1>4, <1>5, <1>6 DEF IInv

LEMMA SetActivePresetIInv ==
    ASSUME NEW p \in Preset, IInv, SetActivePreset(p)
    PROVE  IInv'
<1> USE DEF SetActivePreset, flags, stack
<1>1. TypeOK'
  BY DEF IInv, TypeOK, NoCall, Call, Function
<1>2. CallbacksOfHead'
  BY DEF IInv, CallbacksOfHead, NoCall
<1>3. QueueUsesActivePreset'
  BY DEF QueueUsesActivePreset
<1>4. (OnlyHeadRuns /\ FinishedOnce /\ RefusedHasFailed)'
  BY DEF IInv, OnlyHeadRuns, FinishedOnce, RefusedHasFailed
<1>5. (QueueInv /\ StackInv /\ AnswerInv)'
  BY DEF IInv, QueueInv, StackInv, AnswerInv, Unwinds
<1>6. QED
  BY <1>1, <1>2, <1>3, <1>4, <1>5 DEF IInv

(* The answer reads the flags once no Finish call is left on the stack. *)
LEMMA AnswerIInv ==
    ASSUME IInv, Answer
    PROVE  IInv'
<1> USE NoTaskAssumption DEF Answer, flags
<1>1. asking \in Task /\ ~Unwinds(asking)
  BY DEF IInv, TypeOK, Unwinds
<1>2. ~Accepts(asking) => finished[asking] /\ ~succeeded[asking]
  BY <1>1 DEF Accepts, IInv, TypeOK, AnswerInv, StackInv
<1>3. TypeOK'
  BY <1>1 DEF IInv, TypeOK, NoCall, Call, Function
<1>4. CallbacksOfHead'
  BY DEF CallbacksOfHead, NoCall
<1>5. (OnlyHeadRuns /\ FinishedOnce /\ QueueUsesActivePreset)'
  BY DEF IInv, OnlyHeadRuns, FinishedOnce, QueueUsesActivePreset
<1>6. RefusedHasFailed'
  BY <1>1, <1>2 DEF IInv, TypeOK, RefusedHasFailed
<1>7. (QueueInv /\ StackInv /\ AnswerInv)'
  BY <1>1 DEF IInv, TypeOK, QueueInv, StackInv, AnswerInv, Unwinds
<1>8. QED
  BY <1>3, <1>4, <1>5, <1>6, <1>7 DEF IInv

(* A task finishes: it is the first, its successor starts in the same step. *)
LEMMA FinishTaskFacts ==
    ASSUME IInv, FinishTask
    PROVE  /\ active \in Call
           /\ tasks # <<>>
           /\ tasks[1] = active.task
           /\ tasks[1] \in Task
           /\ running[tasks[1]]
           /\ tasks' = Tail(tasks)
           /\ IF tasks' # <<>>
              THEN ~running[tasks'[1]] /\ Begin(tasks'[1])
              ELSE active' = NoCall /\ running' = running
<1> USE DEF FinishTask, LeaveBehind, StartFirst
<1>1. active \in Call
  BY CallValues DEF IInv, TypeOK, Function
<1>2. /\ tasks # <<>> /\ tasks[1] = active.task
      /\ tasks \in Seq(Task) /\ NoRepeats(tasks)
  <2>1. active # NoCall
    BY <1>1, CallValues, Zenon
  <2>2. tasks \in Seq(Task) /\ NoRepeats(tasks)
    BY DEF IInv, TypeOK, QueueInv
  <2>3. tasks # <<>> /\ active.task = Head(tasks)
    BY <2>1, Zenon DEF IInv, CallbacksOfHead
  <2> HIDE DEF FinishTask, LeaveBehind, StartFirst
  <2>4. QED
    BY <2>2, <2>3
<1>3. tasks' = Tail(tasks)
  BY <1>2, WithoutFirst
<1>4. Len(tasks) \in Nat /\ Len(tasks) >= 1
  BY <1>2
<1>5. tasks[1] \in Task /\ running[tasks[1]]
  BY <1>2, <1>4 DEF IInv, OnlyHeadRuns
<1>6. ASSUME tasks' # <<>> PROVE ~running[tasks'[1]]
  <2>1. Len(tasks) >= 2 /\ tasks'[1] = tasks[2]
    BY <1>2, <1>3, <1>4, <1>6
  <2>2. QED
    BY <2>1, <1>4 DEF IInv, OnlyHeadRuns
<1>7. tasks' = Without(tasks, active.task)
  OBVIOUS
<1>8. IF tasks' # <<>>
      THEN ~running[tasks'[1]] /\ Begin(tasks'[1])
      ELSE active' = NoCall /\ running' = running
  BY <1>6, <1>7
<1>9. QED
  BY <1>1, <1>2, <1>3, <1>5, <1>8

LEMMA FinishTaskIInv ==
    ASSUME IInv, FinishTask
    PROVE  IInv'
<1> DEFINE h == tasks[1]
           frame == [task |-> active.task, ok |-> active.ok]
<1>1. /\ active \in Call /\ tasks # <<>> /\ h = active.task /\ h \in Task
      /\ running[h] /\ tasks' = Tail(tasks)
  BY FinishTaskFacts
<1>2. /\ tasks' # <<>> => ~running[tasks'[1]] /\ Begin(tasks'[1])
      /\ tasks' = <<>> => active' = NoCall /\ running' = running
  BY FinishTaskFacts
<1>3. /\ unwinding' = Append(unwinding, frame)
      /\ served' = Append(served, h)
      /\ UNCHANGED <<activePreset, preset, finished, succeeded, asking, answer>>
  BY <1>1 DEF FinishTask, LeaveBehind
<1>4. frame \in Frame /\ frame.task = h
  BY <1>1, CallValues DEF Frame
<1>5. /\ tasks' \in Seq(Task)
      /\ Len(tasks') = Len(tasks) - 1
      /\ \A i \in 1..Len(tasks') : tasks'[i] = tasks[i + 1]
      /\ NoRepeats(tasks)'
      /\ ~Contains(tasks', h)
      /\ \A t : Contains(tasks, t) <=> t = h \/ Contains(tasks', t)
  <2>1. tasks \in Seq(Task) /\ NoRepeats(tasks)
    BY DEF IInv, TypeOK, QueueInv
  <2>2. NoRepeats(Tail(tasks))
    BY <2>1, <1>1, TailElements
  <2>3. NoRepeats(tasks)'
    BY <2>2, <1>1 DEF NoRepeats
  <2>4. QED
    BY <2>1, <2>3, <1>1, TailElements
<1>6. /\ served' \in Seq(Task)
      /\ Len(served') = Len(served) + 1
      /\ \A i \in 1..Len(served) : served'[i] = served[i]
      /\ served'[Len(served) + 1] = h
      /\ \A t : Contains(served', t) <=> t = h \/ Contains(served, t)
      /\ Len(served) \in Nat /\ Len(tasks) \in Nat
  <2>1. served \in Seq(Task) /\ tasks \in Seq(Task)
    BY DEF IInv, TypeOK
  <2>2. QED
    BY <2>1, <1>1, <1>3, AppendElements
<1>7. /\ unwinding' \in Seq(Frame)
      /\ Len(unwinding') = Len(unwinding) + 1
      /\ \A i \in 1..Len(unwinding) : unwinding'[i] = unwinding[i]
      /\ unwinding'[Len(unwinding) + 1].task = h
      /\ Len(unwinding) \in Nat
  <2>1. unwinding \in Seq(Frame)
    BY DEF IInv, TypeOK
  <2> HIDE DEF frame
  <2>2. QED
    BY <2>1, <1>3, <1>4, AppendElements
<1>8. ~finished[h] /\ ~Unwinds(h) /\ ~Contains(served, h) /\ Contains(tasks, h)
  <2>1. Contains(tasks, h)
    BY <1>5
  <2>2. ~Contains(served, h)
    BY <2>1 DEF IInv, FinishedOnce, Contains
  <2>3. QED
    BY <2>1, <2>2, <1>1 DEF IInv, StackInv
<1>9. tasks' # <<>> => Len(tasks') >= 1 /\ tasks'[1] \in Task
  BY <1>5
<1> HIDE DEF h, frame
<1>10. TypeOK'
  <2>1. running' \in [Task -> BOOLEAN]
    BY <1>2, <1>9 DEF Begin, IInv, TypeOK
  <2>2. (active \in Call \cup {NoCall})'
    <3>1. active' \in Call \cup {NoCall}
      BY <1>2, <1>9, CallValues DEF Begin
    <3>2. QED
      BY <3>1 DEF Call, NoCall, Function
  <2>3. QED
    BY <2>1, <2>2, <1>3, <1>5, <1>6, <1>7 DEF IInv, TypeOK, Frame
<1>11. OnlyHeadRuns'
  <2> SUFFICES ASSUME NEW i \in 1..Len(tasks') PROVE running'[tasks'[i]] <=> i = 1
    BY DEF OnlyHeadRuns
  <2>1. tasks'[i] \in Task /\ tasks'[i] = tasks[i + 1] /\ i + 1 \in 1..Len(tasks) /\ i + 1 # 1
    BY <1>5, <1>6
  <2>2. ~running[tasks'[i]]
    BY <2>1 DEF IInv, OnlyHeadRuns
  <2>3. tasks' # <<>> /\ Begin(tasks'[1])
    BY <1>2, <1>5
  <2>4. i = 1 <=> tasks'[i] = tasks'[1]
    BY <1>5, <1>9, <2>3 DEF NoRepeats
  <2>5. QED
    BY <2>1, <2>2, <2>3, <2>4, <1>9 DEF Begin, IInv, TypeOK
<1>12. CallbacksOfHead'
  <2>1. CASE tasks' = <<>>
    BY <2>1, <1>2 DEF CallbacksOfHead, NoCall
  <2>2. CASE tasks' # <<>>
    <3>1. active'.task = Head(tasks')
      BY <2>2, <1>2, <1>5 DEF Begin
    <3>2. QED
      BY <3>1, <2>2 DEF CallbacksOfHead
  <2>3. QED
    BY <2>1, <2>2
<1>13. FinishedOnce'
  <2>1. \A i \in 1..Len(served) : served[i] # h
    BY <1>8 DEF Contains
  <2>2. \A i, j \in 1..Len(served') : served'[i] = served'[j] => i = j
    BY <2>1, <1>6 DEF IInv, FinishedOnce
  <2>3. \A i \in 1..Len(served') : ~Contains(tasks', served'[i])
    BY <2>1, <1>5, <1>6 DEF IInv, FinishedOnce
  <2>4. QED
    BY <2>2, <2>3 DEF FinishedOnce
<1>14. RefusedHasFailed'
  BY <1>3 DEF IInv, RefusedHasFailed
<1>15. QueueUsesActivePreset'
  <2> SUFFICES ASSUME NEW i \in 1..Len(tasks') PROVE preset'[tasks'[i]] = activePreset'
    BY DEF QueueUsesActivePreset
  <2>1. tasks'[i] = tasks[i + 1] /\ i + 1 \in 1..Len(tasks)
    BY <1>5, <1>6
  <2>2. QED
    BY <2>1, <1>3 DEF IInv, QueueUsesActivePreset
<1>16. QueueInv'
  <2>1. \A t \in Task : running'[t] => Contains(tasks', t) \/ Contains(served', t)
    <3> SUFFICES ASSUME NEW t \in Task, running'[t]
                 PROVE  Contains(tasks', t) \/ Contains(served', t)
      OBVIOUS
    <3>1. CASE running[t]
      BY <3>1, <1>5, <1>6 DEF IInv, QueueInv
    <3>2. CASE ~running[t]
      <4>1. tasks' # <<>> /\ t = tasks'[1]
        BY <3>2, <1>2, <1>9 DEF Begin, IInv, TypeOK
      <4>2. QED
        BY <4>1, <1>5, <1>9 DEF Contains
    <3>3. QED
      BY <3>1, <3>2
  <2>2. \A t \in Task : Contains(tasks', t) \/ Contains(served', t) => answer'[t] # "unasked"
    BY <1>3, <1>5, <1>6 DEF IInv, QueueInv
  <2>3. QED
    BY <2>1, <2>2, <1>5 DEF QueueInv
<1>17. StackInv'
  <2>1. \A i \in 1..Len(unwinding) : unwinding[i].task # h
    BY <1>8 DEF Unwinds
  <2>2. \A t \in Task : Unwinds(t)' <=> t = h \/ Unwinds(t)
    BY <1>7 DEF Unwinds
  <2>3. \A i, j \in 1..Len(unwinding') : unwinding'[i].task = unwinding'[j].task => i = j
    BY <2>1, <1>7 DEF IInv, StackInv
  <2>4. QED
    BY <2>2, <2>3, <1>3, <1>6, <1>8 DEF IInv, StackInv
<1>18. AnswerInv'
  BY <1>3, <1>5, <1>6 DEF IInv, AnswerInv
<1>19. QED
  BY <1>10, <1>11, <1>12, <1>13, <1>14, <1>15, <1>16, <1>17, <1>18 DEF IInv

(* The innermost Finish call returns: its task is finished from then on. *)
LEMMA FinishReturnsIInv ==
    ASSUME IInv, FinishReturns
    PROVE  IInv'
<1> DEFINE n == Len(unwinding)
           frame == unwinding[n]
<1>1. /\ active = NoCall /\ unwinding # <<>>
      /\ finished' = [finished EXCEPT ![frame.task] = TRUE]
      /\ succeeded' = [succeeded EXCEPT ![frame.task] = frame.ok]
      /\ unwinding' = Front(unwinding)
      /\ UNCHANGED <<tasks, activePreset, preset, running, active, asking, answer, served>>
  BY DEF FinishReturns, Last
<1>2. /\ unwinding' \in Seq(Frame)
      /\ Len(unwinding') = n - 1
      /\ \A i \in 1..Len(unwinding') : unwinding'[i] = unwinding[i]
      /\ frame \in Frame
      /\ n \in Nat /\ n >= 1
  <2>1. unwinding \in Seq(Frame)
    BY DEF IInv, TypeOK
  <2>2. n \in Nat /\ n >= 1
    BY <1>1, <2>1
  <2>3. Last(unwinding) = unwinding[n]
    BY DEF Last
  <2>4. QED
    BY <2>1, <2>2, <2>3, <1>1, FrontElements
<1>3. frame.task \in Task /\ frame.ok \in BOOLEAN
  BY <1>2 DEF Frame
<1>4. /\ Unwinds(frame.task)
      /\ \A t \in Task : Unwinds(t)' <=> Unwinds(t) /\ t # frame.task
  <2>1. Unwinds(frame.task)
    BY <1>2 DEF Unwinds
  <2>2. ASSUME NEW t \in Task, Unwinds(t)' PROVE Unwinds(t) /\ t # frame.task
    <3>1. PICK i \in 1..Len(unwinding') : unwinding'[i].task = t
      BY <2>2 DEF Unwinds
    <3>2. i \in 1..n /\ i # n /\ unwinding[i].task = t
      BY <3>1, <1>2
    <3>3. QED
      BY <3>2, <1>2 DEF Unwinds, IInv, StackInv
  <2>3. ASSUME NEW t \in Task, Unwinds(t), t # frame.task PROVE Unwinds(t)'
    <3>1. PICK i \in 1..n : unwinding[i].task = t
      BY <2>3 DEF Unwinds
    <3>2. i \in 1..Len(unwinding') /\ unwinding'[i].task = t
      BY <3>1, <2>3, <1>2
    <3>3. QED
      BY <3>2 DEF Unwinds
  <2>4. QED
    BY <2>1, <2>2, <2>3
<1> HIDE DEF n, frame
<1>5. TypeOK'
  BY <1>1, <1>2, <1>3 DEF IInv, TypeOK, Frame, Call, NoCall, Function
<1>6. (OnlyHeadRuns /\ FinishedOnce /\ QueueUsesActivePreset)'
  BY <1>1 DEF IInv, OnlyHeadRuns, FinishedOnce, QueueUsesActivePreset
<1>7. CallbacksOfHead'
  BY <1>1 DEF CallbacksOfHead, NoCall
<1>8. RefusedHasFailed'
  <2>1. ~finished[frame.task]
    BY <1>3, <1>4 DEF IInv, StackInv
  <2>2. QED
    BY <2>1, <1>1, <1>3 DEF IInv, TypeOK, RefusedHasFailed
<1>9. QueueInv'
  BY <1>1 DEF IInv, QueueInv
<1>10. StackInv'
  <2>1. \A i, j \in 1..Len(unwinding') : unwinding'[i].task = unwinding'[j].task => i = j
    BY <1>2 DEF IInv, StackInv, n
  <2>2. \A t \in Task : finished'[t] <=> finished[t] \/ t = frame.task
    BY <1>1, <1>3 DEF IInv, TypeOK
  <2>3. QED
    BY <2>1, <2>2, <1>1, <1>3, <1>4 DEF IInv, StackInv
<1>11. AnswerInv'
  BY <1>1 DEF IInv, AnswerInv
<1>12. QED
  BY <1>5, <1>6, <1>7, <1>8, <1>9, <1>10, <1>11 DEF IInv

-----------------------------------------------------------------------------
(* The results. *)

LEMMA NextIInv == IInv /\ [Next]_vars => IInv'
<1> SUFFICES ASSUME IInv, [Next]_vars PROVE IInv'
  OBVIOUS
<1>1. ASSUME NEW t \in Task, CreateTask(t) PROVE IInv'
  BY <1>1, CreateTaskIInv
<1>2. ASSUME Tick PROVE IInv'
  BY <1>2, TickIInv
<1>3. ASSUME Return PROVE IInv'
  BY <1>3, ReturnIInv
<1>4. ASSUME NEW ok \in BOOLEAN, Finish(ok) PROVE IInv'
  BY <1>4, FinishIInv
<1>5. ASSUME FinishTask PROVE IInv'
  BY <1>5, FinishTaskIInv
<1>6. ASSUME FinishReturns PROVE IInv'
  BY <1>6, FinishReturnsIInv
<1>7. ASSUME Answer PROVE IInv'
  BY <1>7, AnswerIInv
<1>8. ASSUME NEW p \in Preset, SetActivePreset(p) PROVE IInv'
  BY <1>8, SetActivePresetIInv
<1>9. CASE UNCHANGED vars
  <2> USE <1>9 DEF vars
  <2>1. TypeOK'
    BY DEF IInv, TypeOK, Call, NoCall, Frame, Function
  <2>2. (OnlyHeadRuns /\ FinishedOnce /\ RefusedHasFailed /\ QueueUsesActivePreset)'
    BY DEF IInv, OnlyHeadRuns, FinishedOnce, RefusedHasFailed, QueueUsesActivePreset
  <2>3. CallbacksOfHead'
    BY DEF IInv, CallbacksOfHead, NoCall
  <2>4. (QueueInv /\ StackInv /\ AnswerInv)'
    BY DEF IInv, QueueInv, StackInv, AnswerInv, Unwinds
  <2>5. QED
    BY <2>1, <2>2, <2>3, <2>4 DEF IInv
<1>10. QED
  BY <1>1, <1>2, <1>3, <1>4, <1>5, <1>6, <1>7, <1>8, <1>9 DEF Next

(* The inductive invariant holds of every reachable state of the queue. *)
THEOREM InductiveInvariant == Safety => []IInv
BY InitIInv, NextIInv, PTL DEF Safety

(* Type correctness of the queue's state (tasks, flags, stack, answers). *)
THEOREM TypeCorrect == Safety => []TypeOK
<1>1. IInv => TypeOK
  BY DEF IInv
<1>2. QED
  BY <1>1, InductiveInvariant, PTL

(* Whatever user callbacks request, and whenever, the first task of the    *)
(* queue runs and no other does.                                           *)
THEOREM HeadAlwaysRuns == Safety => []OnlyHeadRuns
<1>1. IInv => OnlyHeadRuns
  BY DEF IInv
<1>2. QED
  BY <1>1, InductiveInvariant, PTL

(* OnFinish, and with it the delegates of a task, runs once per request.   *)
THEOREM EachTaskFinishesOnce == Safety => []FinishedOnce
<1>1. IInv => FinishedOnce
  BY DEF IInv
<1>2. QED
  BY <1>1, InductiveInvariant, PTL

(* SaveSlot and LoadSlot return false only for a task that has failed.     *)
THEOREM RefusalIsFailure == Safety => []RefusedHasFailed
<1>1. IInv => RefusedHasFailed
  BY DEF IInv
<1>2. QED
  BY <1>1, InductiveInvariant, PTL

(* The preset never changes under a queued task.                           *)
THEOREM PresetIsStable == Safety => []QueueUsesActivePreset
<1>1. IInv => QueueUsesActivePreset
  BY DEF IInv
<1>2. QED
  BY <1>1, InductiveInvariant, PTL

-----------------------------------------------------------------------------
(* Refinement: what the requests of SerialRequests are in this module. *)

LogOf == served \o tasks
ServingOf == {t \in Task : running[t] /\ Scheduled(t)}

LEMMA ServingIsFirst ==
    IInv => ServingOf = IF tasks = <<>> THEN {} ELSE {tasks[1]}
<1> SUFFICES ASSUME IInv
             PROVE  ServingOf = IF tasks = <<>> THEN {} ELSE {tasks[1]}
  OBVIOUS
<1>1. tasks \in Seq(Task) /\ Len(tasks) \in Nat
  BY DEF IInv, TypeOK
<1>2. CASE tasks = <<>>
  BY <1>2 DEF ServingOf, Contains
<1>3. CASE tasks # <<>>
  <2>1. 1 \in 1..Len(tasks) /\ tasks[1] \in Task
    BY <1>1, <1>3
  <2>2. tasks[1] \in ServingOf
    BY <2>1 DEF ServingOf, Contains, IInv, OnlyHeadRuns
  <2>3. ASSUME NEW t \in ServingOf PROVE t = tasks[1]
    <3>1. PICK i \in 1..Len(tasks) : tasks[i] = t
      BY DEF ServingOf, Contains
    <3>2. i = 1
      BY <3>1 DEF ServingOf, IInv, OnlyHeadRuns
    <3>3. QED
      BY <3>1, <3>2
  <2>4. QED
    BY <1>3, <2>2, <2>3
<1>4. QED
  BY <1>2, <1>3

LEMMA ServingIsFirstNext ==
    IInv' => (ServingOf = IF tasks = <<>> THEN {} ELSE {tasks[1]})'
BY ServingIsFirst, PTL

(* Moving the first element of a sequence to the end of the one before it. *)
LEMMA MoveFirst ==
    ASSUME NEW S, NEW p \in Seq(S), NEW q \in Seq(S), q # <<>>
    PROVE  Append(p, q[1]) \o Tail(q) = p \o q
<1>1. q[1] \in S /\ Tail(q) \in Seq(S) /\ <<q[1]>> \in Seq(S)
  OBVIOUS
<1>2. <<q[1]>> \o Tail(q) = q
  OBVIOUS
<1>3. Append(p, q[1]) = p \o <<q[1]>>
  BY <1>1, AppendIsConcat
<1>4. (p \o <<q[1]>>) \o Tail(q) = p \o (<<q[1]>> \o Tail(q))
  BY <1>1, ConcatAssociative
<1>5. QED
  BY <1>2, <1>3, <1>4

(* A new request is a Submit. *)
LEMMA CreateTaskRefines ==
    ASSUME NEW t \in Task, IInv, IInv', CreateTask(t)
    PROVE  Requests!Submit(t)
<1>1. served \in Seq(Task) /\ tasks \in Seq(Task)
  BY DEF IInv, TypeOK
<1>2. tasks' = Append(tasks, t) /\ served' = served
  BY DEF CreateTask
<1>3. LogOf' = Append(LogOf, t)
  <2>1. <<t>> \in Seq(Task) /\ LogOf \in Seq(Task)
    BY <1>1, ConcatProperties DEF LogOf
  <2>2. Append(tasks, t) = tasks \o <<t>> /\ Append(LogOf, t) = LogOf \o <<t>>
    BY <1>1, <2>1, AppendIsConcat
  <2>3. QED
    BY <1>1, <1>2, <2>1, <2>2, ConcatAssociative DEF LogOf
<1>4. ASSUME NEW i \in 1..Len(LogOf) PROVE LogOf[i] # t
  <2>1. ~Contains(tasks, t) /\ ~Contains(served, t)
    BY DEF CreateTask, IInv, QueueInv
  <2>2. /\ Len(LogOf) = Len(served) + Len(tasks)
        /\ LogOf[i] = IF i <= Len(served) THEN served[i] ELSE tasks[i - Len(served)]
    BY <1>1, ConcatProperties DEF LogOf
  <2>3. CASE i <= Len(served)
    BY <2>1, <2>2, <2>3, <1>1 DEF Contains
  <2>4. CASE i > Len(served)
    <3>1. i - Len(served) \in 1..Len(tasks)
      BY <2>2, <2>4, <1>1
    <3>2. QED
      BY <2>1, <2>2, <2>4, <3>1, <1>1 DEF Contains
  <2>5. QED
    BY <2>3, <2>4, <1>1
<1>5. ServingOf' = IF ServingOf = {} THEN {t} ELSE ServingOf
  <2>1. ServingOf = IF tasks = <<>> THEN {} ELSE {tasks[1]}
    BY ServingIsFirst
  <2>2. ServingOf' = IF tasks' = <<>> THEN {} ELSE {tasks'[1]}
    BY ServingIsFirstNext
  <2>3. tasks' # <<>> /\ tasks'[1] = IF tasks = <<>> THEN t ELSE tasks[1]
    BY <1>1, <1>2
  <2>4. QED
    BY <2>1, <2>2, <2>3
<1>6. QED
  BY <1>2, <1>3, <1>4, <1>5 DEF Requests!Submit, LogOf, ServingOf

(* A task that leaves the queue is a Complete. *)
LEMMA FinishTaskRefines ==
    ASSUME IInv, IInv', FinishTask
    PROVE  Requests!Complete
<1>1. served \in Seq(Task) /\ tasks \in Seq(Task) /\ tasks # <<>>
  BY FinishTaskFacts DEF IInv, TypeOK
<1>2. tasks' = Tail(tasks) /\ served' = Append(served, tasks[1])
  BY FinishTaskFacts DEF FinishTask, LeaveBehind
<1>3. LogOf' = LogOf
  BY <1>1, <1>2, MoveFirst DEF LogOf
<1>4. Len(served') = Len(served) + 1
  BY <1>1, <1>2
<1>5. ServingOf # {}
  BY <1>1, ServingIsFirst
<1>6. ServingOf' = IF Len(served) + 1 < Len(LogOf) THEN {LogOf[Len(served) + 2]} ELSE {}
  <2>1. ServingOf' = IF tasks' = <<>> THEN {} ELSE {tasks'[1]}
    BY ServingIsFirstNext
  <2>2. /\ Len(LogOf) = Len(served) + Len(tasks)
        /\ \A i \in 1..(Len(served) + Len(tasks)) :
              LogOf[i] = IF i <= Len(served) THEN served[i] ELSE tasks[i - Len(served)]
    BY <1>1, ConcatProperties DEF LogOf
  <2>3. Len(tasks) \in Nat /\ Len(tasks) >= 1 /\ Len(served) \in Nat
    BY <1>1
  <2>4. tasks' # <<>> <=> Len(tasks) > 1
    BY <1>1, <1>2, <2>3
  <2>5. CASE Len(tasks) > 1
    <3>1. tasks'[1] = tasks[2]
      BY <1>1, <1>2, <2>5
    <3>2. LogOf[Len(served) + 2] = tasks[2]
      BY <2>2, <2>3, <2>5
    <3>3. QED
      BY <2>1, <2>2, <2>3, <2>4, <2>5, <3>1, <3>2
  <2>6. CASE ~(Len(tasks) > 1)
    BY <2>1, <2>2, <2>3, <2>4, <2>6
  <2>7. QED
    BY <2>5, <2>6
<1>7. QED
  BY <1>3, <1>4, <1>5, <1>6 DEF Requests!Complete, LogOf, ServingOf

(* Every other step changes nothing that SerialRequests sees. *)
LEMMA OtherStepsStutter ==
    ASSUME UNCHANGED <<tasks, served, running>>
    PROVE  UNCHANGED Requests!vars
BY DEF Requests!vars

LEMMA StepRefines ==
    ASSUME IInv, IInv', [Next]_vars
    PROVE  [Requests!Next]_(Requests!vars)
<1>1. ASSUME NEW t \in Task, CreateTask(t) PROVE Requests!Next
  BY <1>1, CreateTaskRefines DEF Requests!Next
<1>2. ASSUME FinishTask PROVE Requests!Next
  BY <1>2, FinishTaskRefines DEF Requests!Next
<1>3. CASE Tick \/ Return \/ FinishReturns \/ Answer \/ UNCHANGED vars
  BY <1>3, OtherStepsStutter DEF Tick, Return, FinishReturns, Answer, vars, flags
<1>4. ASSUME NEW ok \in BOOLEAN, Finish(ok) PROVE UNCHANGED Requests!vars
  BY <1>4, OtherStepsStutter DEF Finish, flags
<1>5. ASSUME NEW p \in Preset, SetActivePreset(p) PROVE UNCHANGED Requests!vars
  BY <1>5, OtherStepsStutter DEF SetActivePreset, flags
<1>6. QED
  BY <1>1, <1>2, <1>3, <1>4, <1>5 DEF Next

(* The queue of USaveManager implements the serial service: requests are   *)
(* served one at a time and in order, whatever the callbacks do.           *)
THEOREM Refinement == Safety => ImplementsSerialRequests
<1>1. Init => Requests!Init
  BY DEF Init, Requests!Init, Contains
<1>2. IInv /\ IInv' /\ [Next]_vars => [Requests!Next]_(Requests!vars)
  BY StepRefines
<1>3. QED
  BY <1>1, <1>2, InductiveInvariant, PTL DEF Safety, ImplementsSerialRequests, Requests!Spec

=============================================================================
