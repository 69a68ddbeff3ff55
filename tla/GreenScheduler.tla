--------------------------- MODULE GreenScheduler ----------------------------
(* The scheduler of green tasks (grenat_green task.rs, scheduler.rs): the    *)
(* state of a task, the run queue, the workers, and how a task is woken.     *)
(*                                                                           *)
(* One action is one atomic operation on a task's state or on `live', or one *)
(* critical section of the queue's lock.  What a task does between these is  *)
(* its own: here it may spawn, wake, yield, park and return as it likes; so  *)
(* may the threads outside (the timer, blocking calls) wake any task.        *)
EXTENDS Naturals, Sequences, FiniteSets

CONSTANTS
    Tasks,
    First,       \* the first task, which `run' spawns
    NoTask,
    Workers,     \* OS threads running tasks
    Threads      \* OS threads that only wake tasks

ASSUME GreenAssumption ==
    /\ First \in Tasks
    /\ NoTask \notin Tasks
    /\ Workers \cap Threads = {}
    /\ IsFiniteSet(Tasks)

VARIABLES
    state,       \* a task's state; "unborn": not spawned yet
    queue,       \* the run queue
    live,        \* tasks spawned and not finished
    pc,          \* where a worker is in `work'
    task,        \* the task a worker took from the queue
    hand,        \* the task that a worker or a thread is about to push
    owes,        \* whether it has pushed, and has yet to notify
    parking,     \* the tasks suspended in `park': where their coroutine is
    woken        \* of the model: wake was called on it since it last resumed

Agents == Workers \cup Threads
States == {"unborn", "QUEUED", "RUNNING", "PARKED", "NOTIFIED", "DONE"}
Steps  == {"look", "check", "wait", "asleep", "took", "run", "last", "stopped"}

vars == <<state, queue, live, pc, task, hand, owes, parking, woken>>

(* `run' has spawned the first task, and starts its workers.                 *)
Init ==
    /\ state = [t \in Tasks |-> IF t = First THEN "QUEUED" ELSE "unborn"]
    /\ queue = <<First>>
    /\ live = 1
    /\ pc = [w \in Workers |-> "look"]
    /\ task = [w \in Workers |-> NoTask]
    /\ hand = [a \in Agents |-> NoTask]
    /\ owes = [a \in Agents |-> FALSE]
    /\ parking = {}
    /\ woken = [t \in Tasks |-> FALSE]

------------------------------------------------------------------------------
(* Shared::push, by whoever made the task QUEUED.                            *)

(* A worker holds the queue's lock from finding it empty to waiting.         *)
QueueFree == \A w \in Workers : pc[w] \notin {"check", "wait"}
Free(a)   == hand[a] = NoTask /\ ~owes[a]

Push(a) ==
    /\ hand[a] # NoTask
    /\ QueueFree
    /\ queue' = Append(queue, hand[a])
    /\ hand' = [hand EXCEPT ![a] = NoTask]
    /\ owes' = [owes EXCEPT ![a] = TRUE]
    /\ UNCHANGED <<state, live, pc, task, parking, woken>>

Asleep == {w \in Workers : pc[w] = "asleep"}

(* ready.notify_one: one sleeping worker, if there is one.                   *)
Notify(a) ==
    /\ owes[a]
    /\ owes' = [owes EXCEPT ![a] = FALSE]
    /\ \/ \E w \in Asleep : pc' = [pc EXCEPT ![w] = "look"]
       \/ Asleep = {} /\ UNCHANGED pc
    /\ UNCHANGED <<state, queue, live, task, hand, parking, woken>>

------------------------------------------------------------------------------
(* A worker: `work'.                                                         *)

(* (A bug: a stack for a queue.)                                             *)
TakeLast(w) ==
    /\ pc[w] = "look" /\ Free(w)
    /\ QueueFree
    /\ queue # <<>>
    /\ task' = [task EXCEPT ![w] = queue[Len(queue)]]
    /\ queue' = SubSeq(queue, 1, Len(queue) - 1)
    /\ pc' = [pc EXCEPT ![w] = "took"]
    /\ UNCHANGED <<state, live, hand, owes, parking, woken>>

Take(w) ==
    /\ pc[w] = "look" /\ Free(w)
    /\ QueueFree
    /\ queue # <<>>
    /\ task' = [task EXCEPT ![w] = Head(queue)]
    /\ queue' = Tail(queue)
    /\ pc' = [pc EXCEPT ![w] = "took"]
    /\ UNCHANGED <<state, live, hand, owes, parking, woken>>

FindEmpty(w) ==
    /\ pc[w] = "look" /\ Free(w)
    /\ QueueFree
    /\ queue = <<>>
    /\ pc' = [pc EXCEPT ![w] = "check"]
    /\ UNCHANGED <<state, queue, live, task, hand, owes, parking, woken>>

Check(w) ==
    /\ pc[w] = "check"
    /\ pc' = [pc EXCEPT ![w] = IF live = 0 THEN "stopped" ELSE "wait"]
    /\ UNCHANGED <<state, queue, live, task, hand, owes, parking, woken>>

Sleep(w) ==
    /\ pc[w] = "wait"
    /\ pc' = [pc EXCEPT ![w] = "asleep"]
    /\ UNCHANGED <<state, queue, live, task, hand, owes, parking, woken>>

(* std's condition variables may wake for nothing.                           *)
WakeForNothing(w) ==
    /\ pc[w] = "asleep"
    /\ pc' = [pc EXCEPT ![w] = "look"]
    /\ UNCHANGED <<state, queue, live, task, hand, owes, parking, woken>>

Resume(w) ==
    /\ pc[w] = "took"
    /\ state' = [state EXCEPT ![task[w]] = "RUNNING"]
    /\ woken' = [woken EXCEPT ![task[w]] = FALSE]
    /\ pc' = [pc EXCEPT ![w] = "run"]
    /\ parking' = parking \ {task[w]}
    /\ UNCHANGED <<queue, live, task, hand, owes>>

(* The worker leaves the task it ran.                                        *)
Leave(w, next) ==
    /\ pc' = [pc EXCEPT ![w] = next]
    /\ task' = [task EXCEPT ![w] = NoTask]

(* The task yields: to the back of the queue.                                *)
Yield(w) ==
    /\ pc[w] = "run" /\ Free(w)
    /\ state' = [state EXCEPT ![task[w]] = "QUEUED"]
    /\ hand' = [hand EXCEPT ![w] = task[w]]
    /\ Leave(w, "look")
    /\ UNCHANGED <<queue, live, owes, parking, woken>>

(* (A bug: a plain store, that forgets a wake.)                              *)
ParkAnyway(w) ==
    /\ pc[w] = "run" /\ Free(w)
    /\ state' = [state EXCEPT ![task[w]] = "PARKED"]
    /\ parking' = parking \cup {task[w]}
    /\ Leave(w, "look")
    /\ UNCHANGED <<queue, live, hand, owes, woken>>

(* The task parks, unless it was woken meanwhile.                            *)
Park(w) ==
    /\ pc[w] = "run" /\ Free(w)
    /\ IF state[task[w]] = "RUNNING"
       THEN state' = [state EXCEPT ![task[w]] = "PARKED"] /\ UNCHANGED hand
       ELSE /\ state' = [state EXCEPT ![task[w]] = "QUEUED"]
            /\ hand' = [hand EXCEPT ![w] = task[w]]
    /\ parking' = parking \cup {task[w]}
    /\ Leave(w, "look")
    /\ UNCHANGED <<queue, live, owes, woken>>

(* The task returns or panics: finish.                                       *)
Return(w) ==
    /\ pc[w] = "run" /\ Free(w)
    /\ state' = [state EXCEPT ![task[w]] = "DONE"]
    /\ live' = live - 1
    /\ Leave(w, IF live = 1 THEN "last" ELSE "look")
    /\ UNCHANGED <<queue, hand, owes, parking, woken>>

(* (A bug: the last one notifies without the lock.)                          *)
NotifyAtOnce(w) ==
    /\ pc[w] = "last"
    /\ pc' = [v \in Workers |-> IF v = w \/ v \in Asleep THEN "look" ELSE pc[v]]
    /\ UNCHANGED <<state, queue, live, task, hand, owes, parking, woken>>

(* It was the last one: ready.notify_all, under the queue's lock.            *)
NotifyAll(w) ==
    /\ pc[w] = "last"
    /\ QueueFree
    /\ pc' = [v \in Workers |-> IF v = w \/ v \in Asleep THEN "look" ELSE pc[v]]
    /\ UNCHANGED <<state, queue, live, task, hand, owes, parking, woken>>

------------------------------------------------------------------------------
(* What a running task, or a thread, does to other tasks.                    *)

(* Agent a runs code that may spawn and wake.                                *)
Acts(a) == Free(a) /\ (a \in Workers => pc[a] = "run")

Spawn(w, t) ==
    /\ Acts(w)
    /\ state[t] = "unborn"
    /\ state' = [state EXCEPT ![t] = "QUEUED"]
    /\ live' = live + 1
    /\ hand' = [hand EXCEPT ![w] = t]
    /\ UNCHANGED <<queue, pc, task, owes, parking, woken>>

(* Task::wake.                                                               *)
AfterWake == [unborn |-> "unborn", QUEUED |-> "QUEUED", RUNNING |-> "NOTIFIED",
              PARKED |-> "QUEUED", NOTIFIED |-> "NOTIFIED", DONE |-> "DONE"]

(* (A bug: a task already queued is pushed again.)                           *)
WakeTwice(a, t) ==
    /\ Acts(a)
    /\ state[t] # "unborn"
    /\ state' = [state EXCEPT ![t] = AfterWake[@]]
    /\ hand' = IF state[t] \in {"PARKED", "QUEUED"} THEN [hand EXCEPT ![a] = t] ELSE hand
    /\ woken' = [woken EXCEPT ![t] = TRUE]
    /\ UNCHANGED <<queue, live, pc, task, owes, parking>>

Wake(a, t) ==
    /\ Acts(a)
    /\ state[t] # "unborn"
    /\ state' = [state EXCEPT ![t] = AfterWake[@]]
    /\ hand' = IF state[t] = "PARKED" THEN [hand EXCEPT ![a] = t] ELSE hand
    /\ woken' = [woken EXCEPT ![t] = TRUE]
    /\ UNCHANGED <<queue, live, pc, task, owes, parking>>

------------------------------------------------------------------------------
Suspends(w) == Yield(w) \/ Park(w) \/ Return(w)
Works(w)    ==
    Take(w) \/ FindEmpty(w) \/ Check(w) \/ Sleep(w) \/ Resume(w) \/ NotifyAll(w)

Next ==
    \/ \E a \in Agents : Push(a) \/ Notify(a)
    \/ \E w \in Workers : Works(w) \/ Suspends(w) \/ WakeForNothing(w)
    \/ \E w \in Workers, t \in Tasks : Spawn(w, t)
    \/ \E a \in Agents, t \in Tasks : Wake(a, t)

(* Threads go on; whoever asks for the queue's lock gets it; and a running   *)
(* task gives its worker back at some time.                                  *)
Fairness ==
    /\ \A a \in Agents : SF_vars(Push(a) \/ Notify(a))
    /\ \A w \in Workers : SF_vars(Works(w)) /\ WF_vars(Suspends(w))

Spec == Init /\ [][Next]_vars
FairSpec == Spec /\ Fairness

------------------------------------------------------------------------------
(* Types of the tasks, of the queue and of the workers.                      *)
TypeOK ==
    /\ state \in [Tasks -> States]
    /\ queue \in Seq(Tasks)
    /\ live \in Nat
    /\ pc \in [Workers -> Steps]
    /\ task \in [Workers -> Tasks \cup {NoTask}]
    /\ hand \in [Agents -> Tasks \cup {NoTask}]
    /\ owes \in [Agents -> BOOLEAN]
    /\ parking \subseteq Tasks
    /\ woken \in [Tasks -> BOOLEAN]

(* Where a task is: in the queue, about to be pushed, or with a worker.      *)
Places(t) ==
    {<<"queue", i>> : i \in {i \in DOMAIN queue : queue[i] = t}}
        \cup {<<"hand", a>> : a \in {a \in Agents : hand[a] = t}}
        \cup {<<"worker", w>> : w \in {w \in Workers : task[w] = t}}

Runs(w, t) == pc[w] = "run" /\ task[w] = t

(* "This worker alone runs the task" (scheduler.rs:212, task.rs:39): a task  *)
(* that is runnable is in one place, a task that runs is with one worker,    *)
(* any other is nowhere - so no two workers ever touch one coroutine.        *)
OnePlace ==
    \A t \in Tasks :
        CASE state[t] = "QUEUED" ->
                 /\ \E p \in Places(t) : Places(t) = {p}
                 /\ \A w \in Workers : ~Runs(w, t)
          [] state[t] \in {"RUNNING", "NOTIFIED"} ->
                 \E w \in Workers : Runs(w, t) /\ Places(t) = {<<"worker", w>>}
          [] OTHER -> Places(t) = {}

(* "Woken while still running (before it could park): it must not park"      *)
(* (task.rs:27): a task woken since it last ran is not left parked.          *)
NoLostWake == \A t \in Tasks : woken[t] => state[t] # "PARKED"

(* A task in park returns from it once woken and not before, a wake that     *)
(* comes before it parks makes it return at once, and each wake is spent     *)
(* once (park, Task::wake): GreenScheduler implements Parking.               *)
parkedOrNot ==
    [t \in Tasks |-> IF t \in parking THEN IF state[t] = "PARKED" THEN "parked" ELSE "ready"
                     ELSE IF woken[t] THEN "noted" ELSE "going"]
Promise == INSTANCE Parking WITH place <- parkedOrNot
ParkAndWake == Promise!Spec

(* Workers stop when every task is done, never before (live, work).          *)
NoneLeftBehind ==
    (\E w \in Workers : pc[w] = "stopped") =>
        \A t \in Tasks : state[t] \in {"unborn", "DONE"}

(* `run' returns: once the tasks are done, every worker stops.               *)
AllStop ==
    (\A t \in Tasks : state[t] \in {"unborn", "DONE"})
        ~> (\A w \in Workers : pc[w] = "stopped")

(* A task queued runs, whatever the other tasks do.                          *)
QueuedRuns == \A t \in Tasks : state[t] = "QUEUED" ~> state[t] = "RUNNING"
==============================================================================
