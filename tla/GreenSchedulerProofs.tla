------------------------ MODULE GreenSchedulerProofs -------------------------
(* Theorems about GreenScheduler, for any tasks, workers and threads.        *)
EXTENDS GreenScheduler, FiniteSetTheorems, TLAPS

(* What is in the queue is there once, in no other place, and QUEUED.        *)
QueueOK ==
    \A i \in 1 .. Len(queue) :
        /\ \A k \in 1 .. Len(queue) : queue[i] = queue[k] => i = k
        /\ \A a \in Agents : hand[a] # queue[i]
        /\ \A w \in Workers : task[w] # queue[i]
        /\ state[queue[i]] = "QUEUED"

(* What is about to be pushed is in one hand, with no worker, and QUEUED.    *)
HandsOK ==
    \A a \in Agents : hand[a] # NoTask =>
        /\ \A b \in Agents : hand[a] = hand[b] => a = b
        /\ \A w \in Workers : task[w] # hand[a]
        /\ state[hand[a]] = "QUEUED"

(* A worker has a task from taking it to leaving it, and alone has it.       *)
WorkersOK ==
    \A w \in Workers :
        /\ task[w] # NoTask <=> pc[w] \in {"took", "run"}
        /\ pc[w] = "took" => state[task[w]] = "QUEUED"
        /\ pc[w] = "run" => state[task[w]] \in {"RUNNING", "NOTIFIED"}
        /\ \A v \in Workers : task[v] # NoTask /\ task[v] = task[w] => v = w

(* A runnable task is somewhere, a running one is run.                       *)
InQueue(t) == \E i \in 1 .. Len(queue) : queue[i] = t
InHand(t)  == \E a \in Agents : hand[a] = t
Taken(t)   == \E w \in Workers : task[w] = t /\ pc[w] = "took"
Covered ==
    \A t \in Tasks :
        /\ state[t] = "QUEUED" => InQueue(t) \/ InHand(t) \/ Taken(t)
        /\ state[t] \in {"RUNNING", "NOTIFIED"} => \E w \in Workers : Runs(w, t)

(* A wake is remembered until the task resumes: it is QUEUED or NOTIFIED.    *)
WakesKept == \A t \in Tasks : woken[t] => state[t] \notin {"PARKED", "RUNNING"}

(* A parked task is in park, one in park is parked or queued, and a task is  *)
(* NOTIFIED by a wake only.                                                  *)
ParkingOK ==
    \A t \in Tasks :
        /\ state[t] = "PARKED" => t \in parking
        /\ t \in parking => state[t] \in {"PARKED", "QUEUED"}
        /\ state[t] = "NOTIFIED" => woken[t]

(* `live' counts the unfinished tasks, and workers stop at zero.             *)
Unfinished == {t \in Tasks : state[t] \notin {"unborn", "DONE"}}
Counted ==
    /\ live = Cardinality(Unfinished)
    /\ \A w \in Workers : pc[w] = "stopped" => live = 0

(* The inductive invariant: where a task is, the wakes it had, whether it is *)
(* in park, and the count.                                                   *)
IInv ==
    /\ TypeOK
    /\ QueueOK
    /\ HandsOK
    /\ WorkersOK
    /\ Covered
    /\ WakesKept
    /\ ParkingOK
    /\ Counted

------------------------------------------------------------------------------
(* A first-in first-out queue: what Append and Tail leave where.             *)
LEMMA Appended ==
  ASSUME NEW s \in Seq(Tasks), NEW t \in Tasks
  PROVE  /\ Append(s, t) \in Seq(Tasks)
         /\ Len(Append(s, t)) = Len(s) + 1
         /\ \A i \in 1 .. Len(s) : Append(s, t)[i] = s[i]
         /\ Append(s, t)[Len(s) + 1] = t
OBVIOUS

(* Taking from the front: every other task moves up by one.                   *)
LEMMA Shifted ==
  ASSUME NEW s \in Seq(Tasks), s # <<>>
  PROVE  /\ Tail(s) \in Seq(Tasks)
         /\ Len(s) \in Nat /\ Len(s) > 0
         /\ Len(Tail(s)) = Len(s) - 1
         /\ \A i \in 1 .. Len(Tail(s)) : Tail(s)[i] = s[i + 1]
         /\ Head(s) = s[1]
         /\ s[1] \in Tasks
OBVIOUS

(* What Task::wake does to the task's state, case by case.                   *)
LEMMA Woken ==
  ASSUME TypeOK, NEW a \in Agents, NEW t \in Tasks, Wake(a, t)
  PROVE  /\ \A u \in Tasks : u # t => state'[u] = state[u]
         /\ state[t] \in {"QUEUED", "RUNNING", "PARKED", "NOTIFIED", "DONE"}
         /\ state[t] = "PARKED" =>
                state'[t] = "QUEUED" /\ hand' = [hand EXCEPT ![a] = t]
         /\ state[t] = "RUNNING" => state'[t] = "NOTIFIED" /\ hand' = hand
         /\ state[t] \in {"QUEUED", "NOTIFIED", "DONE"} =>
                state'[t] = state[t] /\ hand' = hand
         /\ hand[a] = NoTask
         /\ woken' = [woken EXCEPT ![t] = TRUE]
         /\ UNCHANGED <<queue, live, pc, task, parking>>
  BY DEF Wake, Acts, Free, AfterWake, TypeOK, States

(* There are finitely many unfinished tasks, so `live' can count them.       *)
LEMMA UnfinishedFinite ==
  ASSUME TypeOK
  PROVE  /\ IsFiniteSet(Unfinished)
         /\ Cardinality(Unfinished) \in Nat
<1>1. IsFiniteSet(Unfinished)
  BY FS_Subset, GreenAssumption DEF Unfinished
<1>. QED
  BY <1>1, FS_CardinalityType

(* While a worker runs a task, `live' is above zero, and finish may           *)
(* subtract.                                                                  *)
LEMMA RunningIsLive ==
  ASSUME TypeOK, WorkersOK, Counted,
         NEW w \in Workers, pc[w] = "run"
  PROVE  /\ task[w] \in Unfinished
         /\ live \in Nat \ {0}
         /\ \A v \in Workers : pc[v] # "stopped"
<1>1. task[w] \in Tasks /\ state[task[w]] \in {"RUNNING", "NOTIFIED"}
  BY DEF TypeOK, WorkersOK
<1>2. task[w] \in Unfinished
  BY <1>1 DEF Unfinished
<1>3. Cardinality(Unfinished) # 0
  BY <1>2, UnfinishedFinite, FS_EmptySet
<1>. QED
  BY <1>2, <1>3, UnfinishedFinite DEF Counted

(* Every step of the scheduler keeps the types.                             *)
LEMMA TypeStep ==
  ASSUME TypeOK, WorkersOK, Counted, [Next]_vars
  PROVE  TypeOK'
<1>1. ASSUME NEW a \in Agents, Push(a)
      PROVE  TypeOK'
  BY <1>1, Appended DEF Push, TypeOK, Steps
<1>2. ASSUME NEW a \in Agents, Notify(a)
      PROVE  TypeOK'
  BY <1>2 DEF Notify, TypeOK, Steps
<1>3. ASSUME NEW w \in Workers, Take(w)
      PROVE  TypeOK'
  BY <1>3, Shifted DEF Take, TypeOK, Steps
<1>4. ASSUME NEW w \in Workers, FindEmpty(w)
      PROVE  TypeOK'
  BY <1>4 DEF FindEmpty, TypeOK, Steps
<1>5. ASSUME NEW w \in Workers, Check(w)
      PROVE  TypeOK'
  BY <1>5 DEF Check, TypeOK, Steps
<1>6. ASSUME NEW w \in Workers, Sleep(w)
      PROVE  TypeOK'
  BY <1>6 DEF Sleep, TypeOK, Steps
<1>7. ASSUME NEW w \in Workers, Resume(w)
      PROVE  TypeOK'
  BY <1>7 DEF Resume, TypeOK, States, Steps
<1>8. ASSUME NEW w \in Workers, NotifyAll(w)
      PROVE  TypeOK'
  BY <1>8 DEF NotifyAll, TypeOK, Steps
<1>9. ASSUME NEW w \in Workers, Yield(w)
      PROVE  TypeOK'
  BY <1>9 DEF Yield, Leave, TypeOK, States, Steps
<1>10. ASSUME NEW w \in Workers, Park(w)
       PROVE  TypeOK'
  <2>1. task[w] \in Tasks
    BY <1>10 DEF Park, TypeOK, WorkersOK
  <2>2. /\ state' \in [Tasks -> States]
        /\ hand' \in [Agents -> Tasks \cup {NoTask}]
        /\ parking' \subseteq Tasks
    BY <1>10, <2>1 DEF Park, TypeOK, States
  <2>. QED
    BY <1>10, <2>2 DEF Park, Leave, TypeOK, Steps
<1>11. ASSUME NEW w \in Workers, Return(w)
       PROVE  TypeOK'
  BY <1>11, RunningIsLive DEF Return, Leave, TypeOK, States, Steps, WorkersOK
<1>12. ASSUME NEW w \in Workers, WakeForNothing(w)
       PROVE  TypeOK'
  BY <1>12 DEF WakeForNothing, TypeOK, Steps
<1>13. ASSUME NEW w \in Workers, NEW t \in Tasks, Spawn(w, t)
       PROVE  TypeOK'
  BY <1>13 DEF Spawn, TypeOK, States, Agents
<1>14. ASSUME NEW a \in Agents, NEW t \in Tasks, Wake(a, t)
       PROVE  TypeOK'
  BY <1>14 DEF Wake, AfterWake, TypeOK, States
<1>15. CASE UNCHANGED vars
  BY <1>15 DEF vars, TypeOK, Steps
<1>. QED
  BY <1>1, <1>2, <1>3, <1>4, <1>5, <1>6, <1>7, <1>8, <1>9, <1>10, <1>11,
     <1>12, <1>13, <1>14, <1>15
  DEF Next, Works, Suspends

(* No step puts a task in the queue twice, or leaves one there that it moved. *)
LEMMA QueueStep ==
  ASSUME TypeOK, QueueOK, HandsOK, WorkersOK, Covered, [Next]_vars
  PROVE  QueueOK'
<1>1. ASSUME NEW a \in Agents, Push(a)
      PROVE  QueueOK'
  BY <1>1, GreenAssumption, Appended
  DEF Push, TypeOK, QueueOK, HandsOK, WorkersOK
<1>2. ASSUME NEW a \in Agents, Notify(a)
      PROVE  QueueOK'
  BY <1>2, GreenAssumption DEF Notify, TypeOK, QueueOK
<1>3. ASSUME NEW w \in Workers, Take(w)
      PROVE  QueueOK'
  BY <1>3, GreenAssumption, Shifted DEF Take, TypeOK, QueueOK
<1>4. ASSUME NEW w \in Workers, FindEmpty(w)
      PROVE  QueueOK'
  BY <1>4, GreenAssumption DEF FindEmpty, TypeOK, QueueOK
<1>5. ASSUME NEW w \in Workers, Check(w)
      PROVE  QueueOK'
  BY <1>5, GreenAssumption DEF Check, TypeOK, QueueOK
<1>6. ASSUME NEW w \in Workers, Sleep(w)
      PROVE  QueueOK'
  BY <1>6, GreenAssumption DEF Sleep, TypeOK, QueueOK
<1>7. ASSUME NEW w \in Workers, Resume(w)
      PROVE  QueueOK'
  BY <1>7, GreenAssumption DEF Resume, TypeOK, QueueOK
<1>8. ASSUME NEW w \in Workers, NotifyAll(w)
      PROVE  QueueOK'
  BY <1>8, GreenAssumption DEF NotifyAll, TypeOK, QueueOK
<1>9. ASSUME NEW w \in Workers, Yield(w)
      PROVE  QueueOK'
  BY <1>9, GreenAssumption DEF Yield, Leave, TypeOK, QueueOK
<1>10. ASSUME NEW w \in Workers, Park(w)
       PROVE  QueueOK'
  BY <1>10, GreenAssumption DEF Park, Leave, TypeOK, QueueOK
<1>11. ASSUME NEW w \in Workers, Return(w)
       PROVE  QueueOK'
  BY <1>11, GreenAssumption DEF Return, Leave, TypeOK, QueueOK
<1>12. ASSUME NEW w \in Workers, WakeForNothing(w)
       PROVE  QueueOK'
  BY <1>12, GreenAssumption DEF WakeForNothing, TypeOK, QueueOK
<1>13. ASSUME NEW w \in Workers, NEW t \in Tasks, Spawn(w, t)
       PROVE  QueueOK'
  BY <1>13, GreenAssumption DEF Spawn, TypeOK, QueueOK
<1>14. ASSUME NEW a \in Agents, NEW t \in Tasks, Wake(a, t)
       PROVE  QueueOK'
  BY <1>14, GreenAssumption DEF Wake, AfterWake, TypeOK, QueueOK
<1>15. CASE UNCHANGED vars
  BY <1>15 DEF vars, TypeOK, QueueOK
<1>. QED
  BY <1>1, <1>2, <1>3, <1>4, <1>5, <1>6, <1>7, <1>8, <1>9, <1>10, <1>11,
     <1>12, <1>13, <1>14, <1>15
  DEF Next, Works, Suspends

(* No step gives one task to two agents to push.                            *)
LEMMA HandsStep ==
  ASSUME TypeOK, QueueOK, HandsOK, WorkersOK, Covered, [Next]_vars
  PROVE  HandsOK'
<1>1. ASSUME NEW a \in Agents, Push(a)
      PROVE  HandsOK'
  BY <1>1, GreenAssumption, Appended DEF Push, TypeOK, HandsOK
<1>2. ASSUME NEW a \in Agents, Notify(a)
      PROVE  HandsOK'
  BY <1>2, GreenAssumption DEF Notify, TypeOK, HandsOK
<1>3. ASSUME NEW w \in Workers, Take(w)
      PROVE  HandsOK'
  <2>1. \A a \in Agents : hand[a] # NoTask => hand[a] # Head(queue)
    <3>1. queue # <<>> /\ queue \in Seq(Tasks)
      BY <1>3 DEF Take, TypeOK
    <3>2. Head(queue) = queue[1] /\ 1 \in 1 .. Len(queue)
      BY <3>1, Shifted
    <3>. QED
      BY <3>2 DEF QueueOK
  <2>2. task' = [task EXCEPT ![w] = Head(queue)] /\ UNCHANGED <<hand, state>>
    BY <1>3 DEF Take
  <2>. QED
    BY <2>1, <2>2 DEF TypeOK, HandsOK
<1>4. ASSUME NEW w \in Workers, FindEmpty(w)
      PROVE  HandsOK'
  BY <1>4, GreenAssumption DEF FindEmpty, TypeOK, HandsOK
<1>5. ASSUME NEW w \in Workers, Check(w)
      PROVE  HandsOK'
  BY <1>5, GreenAssumption DEF Check, TypeOK, HandsOK
<1>6. ASSUME NEW w \in Workers, Sleep(w)
      PROVE  HandsOK'
  BY <1>6, GreenAssumption DEF Sleep, TypeOK, HandsOK
<1>7. ASSUME NEW w \in Workers, Resume(w)
      PROVE  HandsOK'
  BY <1>7, GreenAssumption DEF Resume, TypeOK, HandsOK
<1>8. ASSUME NEW w \in Workers, NotifyAll(w)
      PROVE  HandsOK'
  BY <1>8, GreenAssumption DEF NotifyAll, TypeOK, HandsOK
<1>9. ASSUME NEW w \in Workers, Yield(w)
      PROVE  HandsOK'
  BY <1>9, GreenAssumption DEF Yield, Leave, TypeOK, HandsOK, WorkersOK
<1>10. ASSUME NEW w \in Workers, Park(w)
       PROVE  HandsOK'
  BY <1>10, GreenAssumption DEF Park, Leave, TypeOK, HandsOK, WorkersOK
<1>11. ASSUME NEW w \in Workers, Return(w)
       PROVE  HandsOK'
  BY <1>11, GreenAssumption DEF Return, Leave, TypeOK, HandsOK
<1>12. ASSUME NEW w \in Workers, WakeForNothing(w)
       PROVE  HandsOK'
  BY <1>12, GreenAssumption DEF WakeForNothing, TypeOK, HandsOK
<1>13. ASSUME NEW w \in Workers, NEW t \in Tasks, Spawn(w, t)
       PROVE  HandsOK'
  BY <1>13, GreenAssumption DEF Spawn, Acts, TypeOK, HandsOK, WorkersOK
<1>14. ASSUME NEW a \in Agents, NEW t \in Tasks, Wake(a, t)
       PROVE  HandsOK'
<2>. UNCHANGED <<queue, pc, task>> /\ hand[a] = NoTask
  BY <1>14, Woken
<2>1. CASE state[t] = "PARKED"
  BY <1>14, <2>1, Woken, GreenAssumption DEF TypeOK, HandsOK, WorkersOK
<2>2. CASE state[t] # "PARKED"
  BY <1>14, <2>2, Woken, GreenAssumption DEF TypeOK, HandsOK
<2>. QED
  BY <2>1, <2>2
<1>15. CASE UNCHANGED vars
  BY <1>15 DEF vars, TypeOK, HandsOK
<1>. QED
  BY <1>1, <1>2, <1>3, <1>4, <1>5, <1>6, <1>7, <1>8, <1>9, <1>10, <1>11,
     <1>12, <1>13, <1>14, <1>15
  DEF Next, Works, Suspends

(* No step gives one task to two workers.                                   *)
LEMMA WorkersStep ==
  ASSUME TypeOK, QueueOK, HandsOK, WorkersOK, Covered, [Next]_vars
  PROVE  WorkersOK'
<1>1. ASSUME NEW a \in Agents, Push(a)
      PROVE  WorkersOK'
  BY <1>1, GreenAssumption DEF Push, TypeOK, WorkersOK
<1>2. ASSUME NEW a \in Agents, Notify(a)
      PROVE  WorkersOK'
  BY <1>2, GreenAssumption DEF Notify, Asleep, TypeOK, WorkersOK
<1>3. ASSUME NEW w \in Workers, Take(w)
      PROVE  WorkersOK'
  BY <1>3, GreenAssumption, Shifted DEF Take, TypeOK, QueueOK, WorkersOK
<1>4. ASSUME NEW w \in Workers, FindEmpty(w)
      PROVE  WorkersOK'
  BY <1>4, GreenAssumption DEF FindEmpty, TypeOK, WorkersOK
<1>5. ASSUME NEW w \in Workers, Check(w)
      PROVE  WorkersOK'
  BY <1>5, GreenAssumption DEF Check, TypeOK, WorkersOK
<1>6. ASSUME NEW w \in Workers, Sleep(w)
      PROVE  WorkersOK'
  BY <1>6, GreenAssumption DEF Sleep, TypeOK, WorkersOK
<1>7. ASSUME NEW w \in Workers, Resume(w)
      PROVE  WorkersOK'
  BY <1>7, GreenAssumption DEF Resume, TypeOK, WorkersOK
<1>8. ASSUME NEW w \in Workers, NotifyAll(w)
      PROVE  WorkersOK'
  BY <1>8, GreenAssumption DEF NotifyAll, Asleep, TypeOK, WorkersOK
<1>9. ASSUME NEW w \in Workers, Yield(w)
      PROVE  WorkersOK'
  BY <1>9, GreenAssumption DEF Yield, Leave, TypeOK, WorkersOK
<1>10. ASSUME NEW w \in Workers, Park(w)
       PROVE  WorkersOK'
  BY <1>10, GreenAssumption DEF Park, Leave, TypeOK, WorkersOK
<1>11. ASSUME NEW w \in Workers, Return(w)
       PROVE  WorkersOK'
  BY <1>11, GreenAssumption DEF Return, Leave, TypeOK, WorkersOK
<1>12. ASSUME NEW w \in Workers, WakeForNothing(w)
       PROVE  WorkersOK'
  BY <1>12, GreenAssumption DEF WakeForNothing, TypeOK, WorkersOK
<1>13. ASSUME NEW w \in Workers, NEW t \in Tasks, Spawn(w, t)
       PROVE  WorkersOK'
  BY <1>13, GreenAssumption DEF Spawn, TypeOK, WorkersOK
<1>14. ASSUME NEW a \in Agents, NEW t \in Tasks, Wake(a, t)
       PROVE  WorkersOK'
  BY <1>14, GreenAssumption DEF Wake, AfterWake, TypeOK, WorkersOK
<1>15. CASE UNCHANGED vars
  BY <1>15 DEF vars, TypeOK, WorkersOK
<1>. QED
  BY <1>1, <1>2, <1>3, <1>4, <1>5, <1>6, <1>7, <1>8, <1>9, <1>10, <1>11,
     <1>12, <1>13, <1>14, <1>15
  DEF Next, Works, Suspends

(* A task its worker makes QUEUED again is in that worker's hand.            *)
LEMMA Requeued ==
  ASSUME TypeOK, Covered, WorkersOK,
         NEW w \in Workers, w \in Agents, hand[w] = NoTask,
         pc[w] = "run", task[w] \in Tasks,
         state' = [state EXCEPT ![task[w]] = "QUEUED"],
         hand' = [hand EXCEPT ![w] = task[w]],
         pc' = [pc EXCEPT ![w] = "look"],
         task' = [task EXCEPT ![w] = NoTask],
         queue' = queue
  PROVE  Covered'
<1>1. ASSUME NEW u \in Tasks, InHand(u)
      PROVE  InHand(u)'
  BY <1>1, GreenAssumption DEF TypeOK, InHand
<1>2. hand'[w] = task[w]
  BY DEF TypeOK
<1>3. ASSUME NEW u \in Tasks, state'[u] = "QUEUED"
      PROVE  (InQueue(u) \/ InHand(u) \/ Taken(u))'
  <2>1. CASE u = task[w]
    BY <1>2, <2>1 DEF InHand
  <2>2. CASE u # task[w]
    <3>1. state[u] = "QUEUED"
      BY <1>3, <2>2 DEF TypeOK
    <3>2. Taken(u) => Taken(u)'
      BY <2>2 DEF TypeOK, Taken
    <3>. QED
      BY <1>1, <3>1, <3>2 DEF Covered, InQueue
  <2>. QED
    BY <2>1, <2>2
<1>4. ASSUME NEW u \in Tasks, state'[u] \in {"RUNNING", "NOTIFIED"}
      PROVE  \E v \in Workers : Runs(v, u)'
  <2>1. u # task[w] /\ state[u] \in {"RUNNING", "NOTIFIED"}
    BY <1>4 DEF TypeOK
  <2>2. PICK v \in Workers : Runs(v, u)
    BY <2>1 DEF Covered
  <2>. QED
    BY <2>1, <2>2 DEF TypeOK, Runs
<1>. QED
  BY <1>3, <1>4 DEF Covered

(* No step loses a runnable task.                                          *)
LEMMA CoverStep ==
  ASSUME TypeOK, QueueOK, HandsOK, WorkersOK, Covered, [Next]_vars
  PROVE  Covered'
<1>1. ASSUME NEW a \in Agents, Push(a)
      PROVE  Covered'
  BY <1>1, GreenAssumption, Appended
  DEF Push, TypeOK, Covered, InQueue, InHand, Taken, Runs
<1>2. ASSUME NEW a \in Agents, Notify(a)
      PROVE  Covered'
  BY <1>2, GreenAssumption
  DEF Notify, Asleep, TypeOK, Covered, InQueue, InHand, Taken, Runs
<1>3. ASSUME NEW w \in Workers, Take(w)
      PROVE  Covered'
<2>1. /\ queue # <<>> /\ queue' = Tail(queue)
      /\ task' = [task EXCEPT ![w] = queue[1]]
      /\ pc' = [pc EXCEPT ![w] = "took"]
      /\ pc[w] = "look"
      /\ UNCHANGED <<state, hand>>
  BY <1>3, Shifted DEF Take, TypeOK
<2>2. ASSUME NEW u \in Tasks, InQueue(u)
      PROVE  InQueue(u)' \/ Taken(u)'
  <3>1. PICK i \in 1 .. Len(queue) : queue[i] = u
    BY <2>2 DEF InQueue
  <3>2. CASE i = 1
    BY <2>1, <3>1, <3>2 DEF TypeOK, Taken
  <3>3. CASE i # 1
    <4>1. i - 1 \in 1 .. Len(Tail(queue)) /\ Tail(queue)[i - 1] = u
      BY <2>1, <3>1, <3>3, Shifted DEF TypeOK
    <4>. QED
      BY <2>1, <4>1 DEF InQueue
  <3>. QED
    BY <3>2, <3>3
<2>3. ASSUME NEW u \in Tasks, Taken(u)
      PROVE  Taken(u)'
  BY <2>1, <2>3 DEF TypeOK, Taken
<2>4. ASSUME NEW u \in Tasks, NEW v \in Workers, Runs(v, u)
      PROVE  Runs(v, u)'
  BY <2>1, <2>4 DEF TypeOK, Runs
<2>. QED
  BY <2>1, <2>2, <2>3, <2>4 DEF Covered, InHand
<1>4. ASSUME NEW w \in Workers, FindEmpty(w)
      PROVE  Covered'
  BY <1>4, GreenAssumption
  DEF FindEmpty, TypeOK, Covered, InQueue, InHand, Taken, Runs
<1>5. ASSUME NEW w \in Workers, Check(w)
      PROVE  Covered'
  BY <1>5, GreenAssumption
  DEF Check, TypeOK, Covered, InQueue, InHand, Taken, Runs
<1>6. ASSUME NEW w \in Workers, Sleep(w)
      PROVE  Covered'
  BY <1>6, GreenAssumption
  DEF Sleep, TypeOK, Covered, InQueue, InHand, Taken, Runs
<1>7. ASSUME NEW w \in Workers, Resume(w)
      PROVE  Covered'
  BY <1>7, GreenAssumption
  DEF Resume, TypeOK, Covered, InQueue, InHand, Taken, Runs
<1>8. ASSUME NEW w \in Workers, NotifyAll(w)
      PROVE  Covered'
  BY <1>8, GreenAssumption
  DEF NotifyAll, Asleep, TypeOK, Covered, InQueue, InHand, Taken, Runs
<1>9. ASSUME NEW w \in Workers, Yield(w)
      PROVE  Covered'
<2>1. /\ pc[w] = "run" /\ hand[w] = NoTask /\ w \in Agents
      /\ task[w] \in Tasks
      /\ state' = [state EXCEPT ![task[w]] = "QUEUED"]
      /\ hand' = [hand EXCEPT ![w] = task[w]]
      /\ pc' = [pc EXCEPT ![w] = "look"]
      /\ task' = [task EXCEPT ![w] = NoTask]
      /\ UNCHANGED queue
  BY <1>9 DEF Yield, Leave, Free, TypeOK, WorkersOK, Agents
<2>. QED
  BY <1>9, <2>1, Requeued
<1>10. ASSUME NEW w \in Workers, Park(w)
       PROVE  Covered'
<2>1. /\ pc[w] = "run" /\ hand[w] = NoTask /\ w \in Agents
      /\ task[w] \in Tasks
      /\ pc' = [pc EXCEPT ![w] = "look"]
      /\ task' = [task EXCEPT ![w] = NoTask]
      /\ UNCHANGED queue
  BY <1>10 DEF Park, Leave, Free, TypeOK, WorkersOK, Agents
<2>2. CASE state[task[w]] = "RUNNING"
  <3>1. state' = [state EXCEPT ![task[w]] = "PARKED"] /\ hand' = hand
    BY <1>10, <2>2 DEF Park
  <3>2. ASSUME NEW u \in Tasks, state'[u] = "QUEUED"
        PROVE  (InQueue(u) \/ InHand(u) \/ Taken(u))'
    BY <2>1, <3>1, <3>2 DEF TypeOK, Covered, InQueue, InHand, Taken
  <3>3. ASSUME NEW u \in Tasks, state'[u] \in {"RUNNING", "NOTIFIED"}
        PROVE  \E v \in Workers : Runs(v, u)'
    <4>1. u # task[w] /\ state[u] \in {"RUNNING", "NOTIFIED"}
      BY <2>1, <3>1, <3>3 DEF TypeOK
    <4>2. PICK v \in Workers : Runs(v, u)
      BY <4>1 DEF Covered
    <4>. QED
      BY <2>1, <4>1, <4>2 DEF TypeOK, Runs
  <3>. QED
    BY <3>2, <3>3 DEF Covered
<2>3. CASE state[task[w]] # "RUNNING"
  <3>1. /\ state' = [state EXCEPT ![task[w]] = "QUEUED"]
        /\ hand' = [hand EXCEPT ![w] = task[w]]
    BY <1>10, <2>3 DEF Park
  <3>. QED
    BY <2>1, <3>1, Requeued
<2>. QED
  BY <2>2, <2>3
<1>11. ASSUME NEW w \in Workers, Return(w)
       PROVE  Covered'
  BY <1>11, GreenAssumption
  DEF Return, Leave, TypeOK, Covered, InQueue, InHand, Taken, Runs
<1>12. ASSUME NEW w \in Workers, WakeForNothing(w)
       PROVE  Covered'
  BY <1>12, GreenAssumption
  DEF WakeForNothing, TypeOK, Covered, InQueue, InHand, Taken, Runs
<1>13. ASSUME NEW w \in Workers, NEW t \in Tasks, Spawn(w, t)
       PROVE  Covered'
<2>1. /\ state[t] = "unborn" /\ hand[w] = NoTask /\ w \in Agents
      /\ state' = [state EXCEPT ![t] = "QUEUED"]
      /\ hand' = [hand EXCEPT ![w] = t]
      /\ UNCHANGED <<queue, pc, task>>
  BY <1>13 DEF Spawn, Acts, Free, Agents
<2>2. ASSUME NEW u \in Tasks, InHand(u)
      PROVE  InHand(u)'
  BY <2>1, <2>2, GreenAssumption DEF TypeOK, InHand
<2>3. InHand(t)'
  BY <2>1 DEF TypeOK, InHand
<2>4. ASSUME NEW u \in Tasks, state'[u] = "QUEUED"
      PROVE  (InQueue(u) \/ InHand(u) \/ Taken(u))'
  BY <2>1, <2>2, <2>3, <2>4 DEF TypeOK, Covered, InQueue, Taken
<2>5. ASSUME NEW u \in Tasks, state'[u] \in {"RUNNING", "NOTIFIED"}
      PROVE  \E v \in Workers : Runs(v, u)'
  BY <2>1, <2>5 DEF TypeOK, Covered, Runs
<2>. QED
  BY <2>4, <2>5 DEF Covered
<1>14. ASSUME NEW a \in Agents, NEW t \in Tasks, Wake(a, t)
       PROVE  Covered'
<2>. UNCHANGED <<queue, pc, task>> /\ hand[a] = NoTask
  BY <1>14, Woken
<2>1. ASSUME NEW u \in Tasks, InHand(u)
      PROVE  InHand(u)'
  BY <1>14, <2>1, Woken, GreenAssumption DEF TypeOK, InHand
<2>2. state[t] = "PARKED" => InHand(t)'
  BY <1>14, Woken DEF TypeOK, InHand
<2>3. ASSUME NEW u \in Tasks, state'[u] = "QUEUED"
      PROVE  (InQueue(u) \/ InHand(u) \/ Taken(u))'
  BY <1>14, <2>1, <2>2, <2>3, Woken DEF Covered, InQueue, Taken
<2>4. ASSUME NEW u \in Tasks, state'[u] \in {"RUNNING", "NOTIFIED"}
      PROVE  \E w \in Workers : Runs(w, u)'
  BY <1>14, <2>4, Woken DEF Covered, Runs
<2>. QED
  BY <2>3, <2>4 DEF Covered
<1>15. CASE UNCHANGED vars
  BY <1>15 DEF vars, TypeOK, Covered, InQueue, InHand, Taken, Runs
<1>. QED
  BY <1>1, <1>2, <1>3, <1>4, <1>5, <1>6, <1>7, <1>8, <1>9, <1>10, <1>11,
     <1>12, <1>13, <1>14, <1>15
  DEF Next, Works, Suspends

(* No step forgets a wake: Park does not store PARKED over NOTIFIED.        *)
LEMMA WakeStep ==
  ASSUME TypeOK, WorkersOK, WakesKept, [Next]_vars
  PROVE  WakesKept'
<1>1. ASSUME NEW a \in Agents, Push(a)
      PROVE  WakesKept'
  BY <1>1 DEF Push, TypeOK, WakesKept
<1>2. ASSUME NEW a \in Agents, Notify(a)
      PROVE  WakesKept'
  BY <1>2 DEF Notify, TypeOK, WakesKept
<1>3. ASSUME NEW w \in Workers, Take(w)
      PROVE  WakesKept'
  BY <1>3 DEF Take, TypeOK, WakesKept
<1>4. ASSUME NEW w \in Workers, FindEmpty(w)
      PROVE  WakesKept'
  BY <1>4 DEF FindEmpty, TypeOK, WakesKept
<1>5. ASSUME NEW w \in Workers, Check(w)
      PROVE  WakesKept'
  BY <1>5 DEF Check, TypeOK, WakesKept
<1>6. ASSUME NEW w \in Workers, Sleep(w)
      PROVE  WakesKept'
  BY <1>6 DEF Sleep, TypeOK, WakesKept
<1>7. ASSUME NEW w \in Workers, Resume(w)
      PROVE  WakesKept'
  BY <1>7 DEF Resume, TypeOK, WakesKept
<1>8. ASSUME NEW w \in Workers, NotifyAll(w)
      PROVE  WakesKept'
  BY <1>8 DEF NotifyAll, TypeOK, WakesKept
<1>9. ASSUME NEW w \in Workers, Yield(w)
      PROVE  WakesKept'
  BY <1>9 DEF Yield, TypeOK, WakesKept
<1>10. ASSUME NEW w \in Workers, Park(w)
       PROVE  WakesKept'
  BY <1>10 DEF Park, TypeOK, WakesKept
<1>11. ASSUME NEW w \in Workers, Return(w)
       PROVE  WakesKept'
  BY <1>11 DEF Return, TypeOK, WakesKept
<1>12. ASSUME NEW w \in Workers, WakeForNothing(w)
       PROVE  WakesKept'
  BY <1>12 DEF WakeForNothing, TypeOK, WakesKept
<1>13. ASSUME NEW w \in Workers, NEW t \in Tasks, Spawn(w, t)
       PROVE  WakesKept'
  BY <1>13 DEF Spawn, TypeOK, WakesKept
<1>14. ASSUME NEW a \in Agents, NEW t \in Tasks, Wake(a, t)
       PROVE  WakesKept'
<2>1. woken' = [woken EXCEPT ![t] = TRUE]
  BY <1>14 DEF Wake
<2>. QED
  BY <1>14, <2>1, Woken DEF TypeOK, WakesKept
<1>15. CASE UNCHANGED vars
  BY <1>15 DEF vars, TypeOK, WakesKept
<1>. QED
  BY <1>1, <1>2, <1>3, <1>4, <1>5, <1>6, <1>7, <1>8, <1>9, <1>10, <1>11,
     <1>12, <1>13, <1>14, <1>15
  DEF Next, Works, Suspends

(* No step takes a task out of park but its worker resuming it.              *)
LEMMA ParkingStep ==
  ASSUME TypeOK, WorkersOK, ParkingOK, [Next]_vars
  PROVE  ParkingOK'
<1>1. ASSUME NEW a \in Agents, Push(a)
      PROVE  ParkingOK'
  BY <1>1 DEF Push, TypeOK, ParkingOK
<1>2. ASSUME NEW a \in Agents, Notify(a)
      PROVE  ParkingOK'
  BY <1>2 DEF Notify, TypeOK, ParkingOK
<1>3. ASSUME NEW w \in Workers, Take(w)
      PROVE  ParkingOK'
  BY <1>3 DEF Take, TypeOK, ParkingOK
<1>4. ASSUME NEW w \in Workers, FindEmpty(w)
      PROVE  ParkingOK'
  BY <1>4 DEF FindEmpty, TypeOK, ParkingOK
<1>5. ASSUME NEW w \in Workers, Check(w)
      PROVE  ParkingOK'
  BY <1>5 DEF Check, TypeOK, ParkingOK
<1>6. ASSUME NEW w \in Workers, Sleep(w)
      PROVE  ParkingOK'
  BY <1>6 DEF Sleep, TypeOK, ParkingOK
<1>7. ASSUME NEW w \in Workers, Resume(w)
      PROVE  ParkingOK'
  BY <1>7 DEF Resume, TypeOK, WorkersOK, ParkingOK
<1>8. ASSUME NEW w \in Workers, NotifyAll(w)
      PROVE  ParkingOK'
  BY <1>8 DEF NotifyAll, TypeOK, ParkingOK
<1>9. ASSUME NEW w \in Workers, Yield(w)
      PROVE  ParkingOK'
  BY <1>9 DEF Yield, Leave, TypeOK, WorkersOK, ParkingOK
<1>10. ASSUME NEW w \in Workers, Park(w)
       PROVE  ParkingOK'
  BY <1>10 DEF Park, Leave, TypeOK, WorkersOK, ParkingOK
<1>11. ASSUME NEW w \in Workers, Return(w)
       PROVE  ParkingOK'
  BY <1>11 DEF Return, Leave, TypeOK, WorkersOK, ParkingOK
<1>12. ASSUME NEW w \in Workers, WakeForNothing(w)
       PROVE  ParkingOK'
  BY <1>12 DEF WakeForNothing, TypeOK, ParkingOK
<1>13. ASSUME NEW w \in Workers, NEW t \in Tasks, Spawn(w, t)
       PROVE  ParkingOK'
  BY <1>13 DEF Spawn, TypeOK, ParkingOK
<1>14. ASSUME NEW a \in Agents, NEW t \in Tasks, Wake(a, t)
       PROVE  ParkingOK'
  BY <1>14, Woken DEF TypeOK, ParkingOK
<1>15. CASE UNCHANGED vars
  BY <1>15 DEF vars, TypeOK, ParkingOK
<1>. QED
  BY <1>1, <1>2, <1>3, <1>4, <1>5, <1>6, <1>7, <1>8, <1>9, <1>10, <1>11,
     <1>12, <1>13, <1>14, <1>15
  DEF Next, Works, Suspends

(* `live' follows the tasks spawned and finished.                          *)
LEMMA CountStep ==
  ASSUME TypeOK, WorkersOK, Counted, [Next]_vars
  PROVE  Counted'
<1>1. ASSUME NEW a \in Agents, Push(a)
      PROVE  Counted'
  BY <1>1 DEF Push, TypeOK, Counted, Unfinished
<1>2. ASSUME NEW a \in Agents, Notify(a)
      PROVE  Counted'
  BY <1>2 DEF Notify, TypeOK, Counted, Unfinished
<1>3. ASSUME NEW w \in Workers, Take(w)
      PROVE  Counted'
  BY <1>3 DEF Take, TypeOK, Counted, Unfinished
<1>4. ASSUME NEW w \in Workers, FindEmpty(w)
      PROVE  Counted'
  BY <1>4 DEF FindEmpty, TypeOK, Counted, Unfinished
<1>5. ASSUME NEW w \in Workers, Check(w)
      PROVE  Counted'
  BY <1>5 DEF Check, TypeOK, Counted, Unfinished
<1>6. ASSUME NEW w \in Workers, Sleep(w)
      PROVE  Counted'
  BY <1>6 DEF Sleep, TypeOK, Counted, Unfinished
<1>7. ASSUME NEW w \in Workers, Resume(w)
      PROVE  Counted'
  BY <1>7 DEF Resume, TypeOK, WorkersOK, Counted, Unfinished
<1>8. ASSUME NEW w \in Workers, NotifyAll(w)
      PROVE  Counted'
  BY <1>8 DEF NotifyAll, TypeOK, Counted, Unfinished
<1>9. ASSUME NEW w \in Workers, Yield(w)
      PROVE  Counted'
  BY <1>9 DEF Yield, Leave, TypeOK, WorkersOK, Counted, Unfinished
<1>10. ASSUME NEW w \in Workers, Park(w)
       PROVE  Counted'
  BY <1>10 DEF Park, Leave, TypeOK, WorkersOK, Counted, Unfinished
<1>11. ASSUME NEW w \in Workers, Return(w)
       PROVE  Counted'
<2>1. pc[w] = "run" /\ task[w] \in Tasks
  BY <1>11 DEF Return, TypeOK, WorkersOK
<2>2. Unfinished' = Unfinished \ {task[w]}
  BY <1>11, <2>1 DEF Return, TypeOK, Unfinished
<2>3. Cardinality(Unfinished') = Cardinality(Unfinished) - 1
  BY <2>1, <2>2, RunningIsLive, UnfinishedFinite, FS_RemoveElement
<2>4. \A v \in Workers : pc'[v] # "stopped"
  BY <1>11, <2>1, RunningIsLive DEF Return, Leave, TypeOK
<2>. QED
  BY <1>11, <2>3, <2>4 DEF Return, Counted
<1>12. ASSUME NEW w \in Workers, WakeForNothing(w)
       PROVE  Counted'
  BY <1>12 DEF WakeForNothing, TypeOK, Counted, Unfinished
<1>13. ASSUME NEW w \in Workers, NEW t \in Tasks, Spawn(w, t)
       PROVE  Counted'
<2>1. Unfinished' = Unfinished \cup {t} /\ t \notin Unfinished
  BY <1>13 DEF Spawn, TypeOK, Unfinished
<2>2. Cardinality(Unfinished') = Cardinality(Unfinished) + 1
  BY <2>1, UnfinishedFinite, FS_AddElement
<2>3. pc[w] = "run"
  BY <1>13 DEF Spawn, Acts
<2>. QED
  BY <1>13, <2>2, <2>3, RunningIsLive DEF Spawn, Counted
<1>14. ASSUME NEW a \in Agents, NEW t \in Tasks, Wake(a, t)
       PROVE  Counted'
<2>1. Unfinished' = Unfinished
  BY <1>14, Woken DEF Unfinished
<2>. QED
  BY <1>14, <2>1, Woken DEF Counted
<1>15. CASE UNCHANGED vars
  BY <1>15 DEF vars, TypeOK, Counted, Unfinished
<1>. QED
  BY <1>1, <1>2, <1>3, <1>4, <1>5, <1>6, <1>7, <1>8, <1>9, <1>10, <1>11,
     <1>12, <1>13, <1>14, <1>15
  DEF Next, Works, Suspends

(* The first task is queued, and counted.                                    *)
LEMMA InitInv == Init => IInv
<1>. SUFFICES ASSUME Init PROVE IInv
  OBVIOUS
<1>1. TypeOK
  BY GreenAssumption DEF Init, TypeOK, States, Steps
<1>2. QueueOK /\ HandsOK /\ WorkersOK /\ WakesKept /\ ParkingOK
  BY GreenAssumption DEF Init, QueueOK, HandsOK, WorkersOK, WakesKept, ParkingOK
<1>3. Covered
  BY GreenAssumption DEF Init, Covered, InQueue
<1>4. Unfinished = {First}
  BY GreenAssumption DEF Init, Unfinished
<1>5. Counted
  BY <1>4, FS_Singleton DEF Init, Counted
<1>. QED
  BY <1>1, <1>2, <1>3, <1>5 DEF IInv

(* The places a task is in, its wakes, park and the count, kept together.    *)
LEMMA Inductive == IInv /\ [Next]_vars => IInv'
  BY TypeStep, QueueStep, HandsStep, WorkersStep, CoverStep, WakeStep,
     ParkingStep, CountStep
  DEF IInv

(* The inductive invariant holds in every reachable state of the scheduler.   *)
LEMMA Invariant == Spec => []IInv
  BY InitInv, Inductive, PTL DEF Spec

------------------------------------------------------------------------------
(* The types of the scheduler's state hold in every run.                     *)
THEOREM TypeCorrect == Spec => []TypeOK
<1>1. IInv => TypeOK
  BY DEF IInv
<1>. QED
  BY <1>1, Invariant, PTL

(* A task woken since it last resumed is never parked: whatever the order of *)
(* the wake and of the worker's compare-exchange (Task::wake, work).         *)
THEOREM NoLostWakeHolds == Spec => []NoLostWake
<1>1. IInv => NoLostWake
  BY DEF IInv, WakesKept, NoLostWake
<1>. QED
  BY <1>1, Invariant, PTL

(* A worker stops only when every task spawned is done (live).               *)
THEOREM NoneLeftBehindHolds == Spec => []NoneLeftBehind
<1>1. IInv => NoneLeftBehind
  <2>. SUFFICES ASSUME IInv, NEW w \in Workers, pc[w] = "stopped",
                       NEW t \in Tasks
                PROVE  state[t] \in {"unborn", "DONE"}
    BY DEF NoneLeftBehind
  <2>1. Cardinality(Unfinished) = 0
    BY DEF IInv, Counted
  <2>2. Unfinished = {}
    BY <2>1, UnfinishedFinite, FS_EmptySet DEF IInv
  <2>. QED
    BY <2>2 DEF Unfinished
<1>. QED
  BY <1>1, Invariant, PTL

(* A task is in one place, and one worker at most runs it: what makes the    *)
(* `unsafe' access to its coroutine sound (task.rs:39, scheduler.rs:212).    *)
THEOREM OnePlaceHolds == Spec => []OnePlace
<1>1. ASSUME IInv, NEW t \in Tasks, state[t] = "QUEUED"
      PROVE  /\ \E p \in Places(t) : Places(t) = {p}
             /\ \A w \in Workers : ~Runs(w, t)
  <2>1. \A w \in Workers : ~Runs(w, t)
    BY <1>1 DEF IInv, WorkersOK, Runs
  <2>2. \E p \in Places(t) : Places(t) = {p}
    <3>. DOMAIN queue = 1 .. Len(queue)
      BY <1>1 DEF IInv, TypeOK
    <3>1. CASE InQueue(t)
      <4>1. PICK i \in 1 .. Len(queue) : queue[i] = t
        BY <3>1 DEF InQueue
      <4>2. \A k \in 1 .. Len(queue) : queue[k] = t => k = i
        BY <1>1, <4>1 DEF IInv, QueueOK
      <4>3. /\ \A a \in Agents : hand[a] # t
            /\ \A w \in Workers : task[w] # t
        BY <1>1, <4>1 DEF IInv, QueueOK
      <4>4. Places(t) = {<<"queue", i>>}
        BY <4>1, <4>2, <4>3 DEF Places
      <4>. QED
        BY <4>4
    <3>2. CASE InHand(t)
      <4>1. PICK a \in Agents : hand[a] = t
        BY <3>2 DEF InHand
      <4>2. \A b \in Agents : hand[b] = t => b = a
        BY <1>1, <4>1, GreenAssumption DEF IInv, HandsOK
      <4>3. /\ \A i \in 1 .. Len(queue) : queue[i] # t
            /\ \A w \in Workers : task[w] # t
        BY <1>1, <4>1, GreenAssumption DEF IInv, QueueOK, HandsOK
      <4>4. Places(t) = {<<"hand", a>>}
        BY <4>1, <4>2, <4>3 DEF Places
      <4>. QED
        BY <4>4
    <3>3. CASE Taken(t)
      <4>1. PICK w \in Workers : task[w] = t
        BY <3>3 DEF Taken
      <4>2. \A v \in Workers : task[v] = t => v = w
        BY <1>1, <4>1, GreenAssumption DEF IInv, WorkersOK
      <4>3. /\ \A i \in 1 .. Len(queue) : queue[i] # t
            /\ \A a \in Agents : hand[a] # t
        BY <1>1, <4>1, GreenAssumption DEF IInv, QueueOK, HandsOK
      <4>4. Places(t) = {<<"worker", w>>}
        BY <4>1, <4>2, <4>3 DEF Places
      <4>. QED
        BY <4>4
    <3>. QED
      BY <1>1, <3>1, <3>2, <3>3 DEF IInv, Covered
  <2>. QED
    BY <2>1, <2>2
<1>2. ASSUME IInv, NEW t \in Tasks, state[t] \in {"RUNNING", "NOTIFIED"}
      PROVE  \E w \in Workers : Runs(w, t) /\ Places(t) = {<<"worker", w>>}
  <2>. DOMAIN queue = 1 .. Len(queue)
    BY <1>2 DEF IInv, TypeOK
  <2>1. PICK w \in Workers : Runs(w, t)
    BY <1>2 DEF IInv, Covered
  <2>2. \A v \in Workers : task[v] = t => v = w
    BY <1>2, <2>1, GreenAssumption DEF IInv, WorkersOK, Runs
  <2>3. /\ \A i \in 1 .. Len(queue) : queue[i] # t
        /\ \A a \in Agents : hand[a] # t
    BY <1>2, GreenAssumption DEF IInv, QueueOK, HandsOK
  <2>4. Places(t) = {<<"worker", w>>}
    BY <2>1, <2>2, <2>3 DEF Places, Runs
  <2>. QED
    BY <2>1, <2>4
<1>3. ASSUME IInv, NEW t \in Tasks, state[t] \in {"unborn", "PARKED", "DONE"}
      PROVE  Places(t) = {}
  <2>. DOMAIN queue = 1 .. Len(queue)
    BY <1>3 DEF IInv, TypeOK
  <2>1. /\ \A i \in 1 .. Len(queue) : queue[i] # t
        /\ \A a \in Agents : hand[a] # t
        /\ \A w \in Workers : task[w] # t
    BY <1>3, GreenAssumption DEF IInv, TypeOK, QueueOK, HandsOK, WorkersOK
  <2>. QED
    BY <2>1 DEF Places
<1>4. IInv => OnePlace
  BY <1>1, <1>2, <1>3 DEF OnePlace, IInv, TypeOK, States
<1>. QED
  BY <1>4, Invariant, PTL
------------------------------------------------------------------------------
(* What the promise makes of a task's state.                                 *)
LEMMA PlaceOf ==
  ASSUME TypeOK, NEW t \in Tasks
  PROVE  /\ parkedOrNot \in [Tasks -> Promise!Places]
         /\ t \in parking /\ state[t] = "PARKED" => parkedOrNot[t] = "parked"
         /\ t \in parking /\ state[t] # "PARKED" => parkedOrNot[t] = "ready"
         /\ t \notin parking /\ woken[t] => parkedOrNot[t] = "noted"
         /\ t \notin parking /\ ~woken[t] => parkedOrNot[t] = "going"
  BY DEF parkedOrNot, Promise!Places

(* A step that changes one task's state, park and wake, and moves it.        *)
LEMMA OneMoves ==
  ASSUME TypeOK, TypeOK', NEW t \in Tasks,
         \A u \in Tasks \ {t} :
             /\ state'[u] = state[u] /\ woken'[u] = woken[u]
             /\ u \in parking' <=> u \in parking,
         parkedOrNot'[t] = parkedOrNot[t] \/ Promise!Moves(t)
  PROVE  [Promise!Next]_parkedOrNot
<1>1. parkedOrNot' \in [Tasks -> Promise!Places]
  BY DEF parkedOrNot, Promise!Places
<1>2. \A u \in Tasks \ {t} : parkedOrNot'[u] = parkedOrNot[u]
  BY DEF parkedOrNot
<1>. QED
  BY <1>1, <1>2 DEF Promise!Next

(* A step of the scheduler is, to each task, a step of park and wake or none.*)
LEMMA ParkAndWakeStep ==
  ASSUME IInv, IInv', [Next]_vars
  PROVE  [Promise!Next]_parkedOrNot
<1>. TypeOK /\ TypeOK' /\ WorkersOK /\ WakesKept /\ ParkingOK /\ ParkingOK'
  BY DEF IInv
<1>0. ASSUME UNCHANGED <<state, parking, woken>>
      PROVE  [Promise!Next]_parkedOrNot
  BY <1>0 DEF parkedOrNot
<1>1. ASSUME NEW a \in Agents, Push(a)
      PROVE  [Promise!Next]_parkedOrNot
  BY <1>0, <1>1 DEF Push
<1>2. ASSUME NEW a \in Agents, Notify(a)
      PROVE  [Promise!Next]_parkedOrNot
  BY <1>0, <1>2 DEF Notify
<1>3. ASSUME NEW w \in Workers, Take(w)
      PROVE  [Promise!Next]_parkedOrNot
  BY <1>0, <1>3 DEF Take
<1>4. ASSUME NEW w \in Workers, FindEmpty(w)
      PROVE  [Promise!Next]_parkedOrNot
  BY <1>0, <1>4 DEF FindEmpty
<1>5. ASSUME NEW w \in Workers, Check(w)
      PROVE  [Promise!Next]_parkedOrNot
  BY <1>0, <1>5 DEF Check
<1>6. ASSUME NEW w \in Workers, Sleep(w)
      PROVE  [Promise!Next]_parkedOrNot
  BY <1>0, <1>6 DEF Sleep
<1>7. ASSUME NEW w \in Workers, Resume(w)
      PROVE  [Promise!Next]_parkedOrNot
  <2>1. task[w] \in Tasks /\ state[task[w]] = "QUEUED"
    BY <1>7 DEF Resume, TypeOK, WorkersOK
  <2>2. /\ state' = [state EXCEPT ![task[w]] = "RUNNING"]
        /\ woken' = [woken EXCEPT ![task[w]] = FALSE]
        /\ parking' = parking \ {task[w]}
    BY <1>7 DEF Resume
  <2>3. parkedOrNot'[task[w]] = "going"
    BY <2>1, <2>2 DEF TypeOK, parkedOrNot
  <2>4. parkedOrNot[task[w]] \in {"ready", "noted", "going"}
    BY <2>1, PlaceOf
  <2>5. parkedOrNot'[task[w]] = parkedOrNot[task[w]] \/ Promise!Moves(task[w])
    BY <2>3, <2>4 DEF Promise!Moves, Promise!Returns, Promise!Yields
  <2>. QED
    BY <2>1, <2>2, <2>5, OneMoves DEF TypeOK
<1>8. ASSUME NEW w \in Workers, NotifyAll(w)
      PROVE  [Promise!Next]_parkedOrNot
  BY <1>0, <1>8 DEF NotifyAll
<1>9. ASSUME NEW w \in Workers, Yield(w)
      PROVE  [Promise!Next]_parkedOrNot
  <2>1. task[w] \in Tasks /\ state[task[w]] \in {"RUNNING", "NOTIFIED"}
    BY <1>9 DEF Yield, TypeOK, WorkersOK
  <2>2. /\ state' = [state EXCEPT ![task[w]] = "QUEUED"]
        /\ UNCHANGED <<woken, parking>>
    BY <1>9 DEF Yield
  <2>3. task[w] \notin parking
    BY <2>1 DEF ParkingOK
  <2>4. parkedOrNot'[task[w]] = parkedOrNot[task[w]]
    BY <2>1, <2>2, <2>3 DEF parkedOrNot
  <2>. QED
    BY <2>1, <2>2, <2>4, OneMoves DEF TypeOK
<1>10. ASSUME NEW w \in Workers, Park(w)
       PROVE  [Promise!Next]_parkedOrNot
  <2>1. task[w] \in Tasks /\ state[task[w]] \in {"RUNNING", "NOTIFIED"}
    BY <1>10 DEF Park, TypeOK, WorkersOK
  <2>2. woken' = woken /\ parking' = parking \cup {task[w]}
    BY <1>10 DEF Park
  <2>3. task[w] \notin parking
    BY <2>1 DEF ParkingOK
  <2>4. CASE state[task[w]] = "RUNNING"
    <3>1. state' = [state EXCEPT ![task[w]] = "PARKED"]
      BY <1>10, <2>4 DEF Park
    <3>2. parkedOrNot[task[w]] = "going"
      BY <2>1, <2>3, <2>4, PlaceOf DEF WakesKept
    <3>3. parkedOrNot'[task[w]] = "parked"
      BY <2>1, <2>2, <3>1 DEF parkedOrNot, TypeOK
    <3>4. Promise!Moves(task[w])
      BY <3>2, <3>3 DEF Promise!Moves, Promise!Parks
    <3>. QED
      BY <2>1, <2>2, <3>1, <3>4, OneMoves DEF TypeOK
  <2>5. CASE state[task[w]] = "NOTIFIED"
    <3>1. state' = [state EXCEPT ![task[w]] = "QUEUED"]
      BY <1>10, <2>5 DEF Park
    <3>2. parkedOrNot[task[w]] = "noted"
      BY <2>1, <2>3, <2>5, PlaceOf DEF ParkingOK
    <3>3. parkedOrNot'[task[w]] = "ready"
      BY <2>1, <2>2, <3>1 DEF parkedOrNot, TypeOK
    <3>4. Promise!Moves(task[w])
      BY <3>2, <3>3 DEF Promise!Moves, Promise!Parks
    <3>. QED
      BY <2>1, <2>2, <3>1, <3>4, OneMoves DEF TypeOK
  <2>. QED
    BY <2>1, <2>4, <2>5
<1>11. ASSUME NEW w \in Workers, Return(w)
       PROVE  [Promise!Next]_parkedOrNot
  <2>1. task[w] \in Tasks /\ state[task[w]] \in {"RUNNING", "NOTIFIED"}
    BY <1>11 DEF Return, TypeOK, WorkersOK
  <2>2. /\ state' = [state EXCEPT ![task[w]] = "DONE"]
        /\ UNCHANGED <<woken, parking>>
    BY <1>11 DEF Return
  <2>3. task[w] \notin parking
    BY <2>1 DEF ParkingOK
  <2>4. parkedOrNot'[task[w]] = parkedOrNot[task[w]]
    BY <2>1, <2>2, <2>3 DEF parkedOrNot
  <2>. QED
    BY <2>1, <2>2, <2>4, OneMoves DEF TypeOK
<1>12. ASSUME NEW w \in Workers, WakeForNothing(w)
       PROVE  [Promise!Next]_parkedOrNot
  BY <1>0, <1>12 DEF WakeForNothing
<1>13. ASSUME NEW w \in Workers, NEW t \in Tasks, Spawn(w, t)
       PROVE  [Promise!Next]_parkedOrNot
  <2>1. /\ state[t] = "unborn"
        /\ state' = [state EXCEPT ![t] = "QUEUED"]
        /\ UNCHANGED <<woken, parking>>
    BY <1>13 DEF Spawn
  <2>2. parkedOrNot'[t] = parkedOrNot[t]
    BY <2>1 DEF parkedOrNot, ParkingOK
  <2>. QED
    BY <2>1, <2>2, OneMoves DEF TypeOK
<1>14. ASSUME NEW a \in Agents, NEW t \in Tasks, Wake(a, t)
       PROVE  [Promise!Next]_parkedOrNot
  <2>1. /\ \A u \in Tasks : u # t => state'[u] = state[u]
        /\ woken' = [woken EXCEPT ![t] = TRUE]
        /\ parking' = parking
    BY <1>14, Woken
  <2>2. CASE t \in parking
    <3>1. parkedOrNot[t] \in {"parked", "ready"}
      BY <2>2, PlaceOf
    <3>2. state'[t] # "PARKED"
      BY <1>14, <2>2, Woken DEF ParkingOK
    <3>3. parkedOrNot'[t] = "ready"
      BY <2>1, <2>2, <3>2 DEF parkedOrNot
    <3>. QED
      BY <2>1, <3>1, <3>3, OneMoves DEF Promise!Moves, Promise!Wakes, TypeOK
  <2>3. CASE t \notin parking
    <3>1. parkedOrNot[t] \in {"going", "noted"}
      BY <2>3, PlaceOf
    <3>2. parkedOrNot'[t] = "noted"
      BY <2>1, <2>3 DEF parkedOrNot, TypeOK
    <3>. QED
      BY <2>1, <3>1, <3>2, OneMoves DEF Promise!Moves, Promise!Wakes, TypeOK
  <2>. QED
    BY <2>2, <2>3
<1>15. CASE UNCHANGED vars
  BY <1>0, <1>15 DEF vars
<1>. QED
  BY <1>1, <1>2, <1>3, <1>4, <1>5, <1>6, <1>7, <1>8, <1>9, <1>10, <1>11,
     <1>12, <1>13, <1>14, <1>15
  DEF Next, Works, Suspends

(* The scheduler keeps the promise of park and wake, whatever the order of   *)
(* a wake and of the worker's compare-exchange (Task::wake, park, work).     *)
THEOREM ParkAndWakeHolds == Spec => ParkAndWake
<1>1. Init => Promise!Init
  BY DEF Init, Promise!Init, parkedOrNot
<1>2. IInv /\ IInv' /\ [Next]_vars => [Promise!Next]_parkedOrNot
  BY ParkAndWakeStep
<1>. QED
  BY <1>1, <1>2, Invariant, PTL DEF Spec, ParkAndWake, Promise!Spec
==============================================================================
