------------------------------ MODULE GreenSync ------------------------------
(* What green tasks wait with (grenat_green sync.rs, channel.rs, timer.rs,   *)
(* blocking.rs): a lock, a condition variable, a channel, sleep and blocking *)
(* calls, on top of `park' and `wake'.                                       *)
(*                                                                           *)
(* Park and wake are those of Parking, which GreenScheduler implements: a    *)
(* wake is kept until the task parks next, or yields (`token').  One that    *)
(* comes late, for a wait that is over, ends the next wait too early: every  *)
(* wait must stand that.  One action is one critical section of a state's    *)
(* lock, or one wake.                                                        *)
EXTENDS Naturals, Sequences, FiniteSets

CONSTANTS
    Tasks,
    Receiver,    \* the task that made the channel, and receives
    Sleepers,    \* bound: the tasks that sleep or call blocking code
    MaxItems     \* bound: values in the channel

ASSUME SyncAssumption ==
    /\ Receiver \in Tasks
    /\ Sleepers \subseteq Tasks
    /\ MaxItems \in Nat \ {0}

VARIABLES
    pc,          \* where a task is in a wait; "free" outside
    token,       \* it was woken, and has not parked since
    \* the Mutex
    locked,
    waiters,     \* the tasks whose attempt has a ticket, oldest first
    guards,      \* the tasks that hold a guard
    \* the Condvar
    idlers,      \* its waiters
    toWake,      \* the waiters a notify_all took, and has yet to wake
    \* the channel
    items,       \* values sent and not received
    senders,     \* the tasks that hold a Sender
    listening,   \* whether the receiver's waiter is registered
    open,
    \* sleep and blocking
    outside,     \* "pending": not due; "due": over, and its wake yet to come
    \* of the model
    notified     \* tasks in a wait that a notify_all came after

mutex   == <<locked, waiters, guards>>
condvar == <<idlers, toWake, notified>>
channel == <<items, senders, listening, open>>
vars    == <<pc, token, mutex, condvar, channel, outside>>

(* Where a task is parked, or about to park, and where it goes on.           *)
AfterPark == [queued |-> "woke", idle |-> "noted", listening |-> "receiving", away |-> "awaiting"]
Parked    == DOMAIN AfterPark
Steps     == Parked \cup {"free", "locking", "woke", "waiting", "noted", "notifying",
                          "receiving", "awaiting"}

(* The channel is just made: both its ends are the receiver's.               *)
Init ==
    /\ pc = [t \in Tasks |-> "free"]
    /\ token = [t \in Tasks |-> FALSE]
    /\ locked = FALSE
    /\ waiters = <<>>
    /\ guards = {}
    /\ idlers = {}
    /\ toWake = [t \in Tasks |-> {}]
    /\ items = 0
    /\ senders = {Receiver}
    /\ listening = FALSE
    /\ open = TRUE
    /\ outside = [t \in Tasks |-> "none"]
    /\ notified = {}

Goto(t, step) == pc' = [pc EXCEPT ![t] = step]
Wake(t)       == token' = [token EXCEPT ![t] = TRUE]

(* park returns: the task was woken, by whomever.                            *)
Unpark(t) ==
    /\ pc[t] \in Parked
    /\ token[t]
    /\ token' = [token EXCEPT ![t] = FALSE]
    /\ Goto(t, AfterPark[pc[t]])
    /\ notified' = notified \ {t}
    /\ UNCHANGED <<mutex, idlers, toWake, channel, outside>>

(* The task runs other code, which yields now and then (check_cancel): a     *)
(* wake for no wait of its own is spent.                                     *)
YieldNow(t) ==
    /\ pc[t] = "free"
    /\ token[t]
    /\ token' = [token EXCEPT ![t] = FALSE]
    /\ UNCHANGED <<pc, mutex, condvar, channel, outside>>

------------------------------------------------------------------------------
(* Mutex::lock and unlock.                                                   *)

Lock(t) ==
    /\ pc[t] = "free" /\ t \notin guards
    /\ Goto(t, "locking")
    /\ UNCHANGED <<token, mutex, condvar, channel, outside>>

Acquire(t) ==
    /\ pc[t] = "locking"
    /\ ~locked
    /\ locked' = TRUE
    /\ guards' = guards \cup {t}
    /\ Goto(t, "free")
    /\ UNCHANGED <<token, waiters, condvar, channel, outside>>

Enqueue(t) ==
    /\ pc[t] = "locking"
    /\ locked
    /\ waiters' = Append(waiters, t)
    /\ Goto(t, "queued")
    /\ UNCHANGED <<token, locked, guards, condvar, channel, outside>>

(* (A bug: the ticket of an attempt that is over stays.)                     *)
RetryTicketed(t) ==
    /\ pc[t] = "woke"
    /\ Goto(t, "locking")
    /\ UNCHANGED <<token, mutex, condvar, channel, outside>>

(* Woken, for whatever reason: this attempt waits no more, and its ticket    *)
(* goes, unless unlock took it.                                              *)
WithoutTicket(i) == SubSeq(waiters, 1, i - 1) \o SubSeq(waiters, i + 1, Len(waiters))
Retry(t) ==
    /\ pc[t] = "woke"
    /\ \/ \E i \in DOMAIN waiters : waiters[i] = t /\ waiters' = WithoutTicket(i)
       \/ (\A i \in DOMAIN waiters : waiters[i] # t) /\ UNCHANGED waiters
    /\ Goto(t, "locking")
    /\ UNCHANGED <<token, locked, guards, condvar, channel, outside>>

(* The guard is dropped: the oldest attempt is woken.                        *)
Unlock(t) ==
    /\ t \in guards
    /\ guards' = guards \ {t}
    /\ locked' = FALSE
    /\ IF waiters = <<>>
       THEN UNCHANGED <<waiters, token>>
       ELSE waiters' = Tail(waiters) /\ Wake(Head(waiters))

DropGuard(t) ==
    /\ pc[t] = "free"
    /\ Unlock(t)
    /\ UNCHANGED <<pc, condvar, channel, outside>>

------------------------------------------------------------------------------
(* Condvar::wait and notify_all.                                             *)

(* Registered before the lock is released.                                   *)
Wait(t) ==
    /\ pc[t] = "free" /\ t \in guards
    /\ idlers' = idlers \cup {t}
    /\ Goto(t, "waiting")
    /\ UNCHANGED <<token, mutex, toWake, notified, channel, outside>>

Release(t) ==
    /\ pc[t] = "waiting"
    /\ Unlock(t)
    /\ Goto(t, "idle")
    /\ UNCHANGED <<condvar, channel, outside>>

(* Woken, for whatever reason: it waits no more, and takes the lock again.   *)
Reenter(t) ==
    /\ pc[t] = "noted"
    /\ idlers' = idlers \ {t}
    /\ Goto(t, "locking")
    /\ UNCHANGED <<token, mutex, toWake, notified, channel, outside>>

InWait == {u \in Tasks : pc[u] \in {"waiting", "idle"}}

(* (A bug: notify_one where every waiter was meant.)                         *)
NotifySome(t) ==
    /\ pc[t] = "free" /\ idlers # {}
    /\ \E u \in idlers :
           /\ toWake' = [toWake EXCEPT ![t] = {u}]
           /\ idlers' = idlers \ {u}
    /\ notified' = notified \cup InWait
    /\ Goto(t, "notifying")
    /\ UNCHANGED <<token, mutex, channel, outside>>

(* notify_all takes the waiters, then wakes each.                            *)
NotifyAll(t) ==
    /\ pc[t] = "free" /\ idlers # {}
    /\ toWake' = [toWake EXCEPT ![t] = idlers]
    /\ idlers' = {}
    /\ notified' = notified \cup InWait
    /\ Goto(t, "notifying")
    /\ UNCHANGED <<token, mutex, channel, outside>>

WakeNext(t) ==
    /\ pc[t] = "notifying"
    /\ \E u \in toWake[t] :
           /\ toWake' = [toWake EXCEPT ![t] = @ \ {u}]
           /\ Wake(u)
           /\ Goto(t, IF toWake[t] = {u} THEN "free" ELSE "notifying")
    /\ UNCHANGED <<mutex, idlers, notified, channel, outside>>

------------------------------------------------------------------------------
(* The channel.                                                              *)

WakeReceiver ==
    /\ listening' = FALSE
    /\ IF listening THEN Wake(Receiver) ELSE UNCHANGED token

Send(t) ==
    /\ pc[t] = "free" /\ t \in senders
    /\ open
    /\ items < MaxItems
    /\ items' = items + 1
    /\ WakeReceiver
    /\ UNCHANGED <<pc, mutex, condvar, senders, open, outside>>

(* Sender::clone, for a task to be forked.                                   *)
CloneSender(t, u) ==
    /\ pc[t] = "free" /\ t \in senders
    /\ senders' = senders \cup {u}
    /\ UNCHANGED <<pc, token, mutex, condvar, items, listening, open, outside>>

(* (A bug: nobody is told that the last sender is gone.)                     *)
DropSenderQuietly(t) ==
    /\ pc[t] = "free" /\ t \in senders
    /\ senders' = senders \ {t}
    /\ UNCHANGED <<pc, token, mutex, condvar, items, listening, open, outside>>

(* A Sender is dropped, the last one with a wake.                            *)
DropSender(t) ==
    /\ pc[t] = "free" /\ t \in senders
    /\ senders' = senders \ {t}
    /\ IF senders = {t} THEN WakeReceiver ELSE UNCHANGED <<listening, token>>
    /\ UNCHANGED <<pc, mutex, condvar, items, open, outside>>

Recv ==
    /\ pc[Receiver] = "free" /\ open
    /\ Goto(Receiver, "receiving")
    /\ UNCHANGED <<token, mutex, condvar, channel, outside>>

(* A value, or none and no sender.                                           *)
Receive ==
    /\ pc[Receiver] = "receiving"
    /\ \/ items > 0 /\ items' = items - 1
       \/ items = 0 /\ senders = {} /\ UNCHANGED items
    /\ Goto(Receiver, "free")
    /\ UNCHANGED <<token, mutex, condvar, senders, listening, open, outside>>

Listen ==
    /\ pc[Receiver] = "receiving"
    /\ items = 0
    /\ senders # {}
    /\ listening' = TRUE
    /\ Goto(Receiver, "listening")
    /\ UNCHANGED <<token, mutex, condvar, items, senders, open, outside>>

(* The Receiver is dropped, and what was not received with it.               *)
DropReceiver ==
    /\ pc[Receiver] = "free" /\ open
    /\ open' = FALSE
    /\ items' = 0
    /\ UNCHANGED <<pc, token, mutex, condvar, senders, listening, outside>>

------------------------------------------------------------------------------
(* sleep and blocking: a thread outside ends the wait, then wakes.  (One     *)
(* such wait of a task at a time: the wake of the one before has come.)      *)

Await(t) ==
    /\ pc[t] = "free" /\ t \in Sleepers
    /\ outside[t] = "none"
    /\ outside' = [outside EXCEPT ![t] = "pending"]
    /\ Goto(t, "awaiting")
    /\ UNCHANGED <<token, mutex, condvar, channel>>

(* The deadline has passed, or the result is stored; if not, park.           *)
CheckDue(t) ==
    /\ pc[t] = "awaiting"
    /\ Goto(t, IF outside[t] = "pending" THEN "away" ELSE "free")
    /\ UNCHANGED <<token, mutex, condvar, channel, outside>>

(* (A bug: nobody is woken.)                                                 *)
DueUnwoken(t) ==
    /\ outside[t] = "pending"
    /\ outside' = [outside EXCEPT ![t] = "none"]
    /\ UNCHANGED <<pc, token, mutex, condvar, channel>>

(* Time passes; the blocking call returns, or panics, and its result stored. *)
Due(t) ==
    /\ outside[t] = "pending"
    /\ outside' = [outside EXCEPT ![t] = "due"]
    /\ UNCHANGED <<pc, token, mutex, condvar, channel>>

(* The timer's, or the blocking thread's, wake.                              *)
OutsideWakes(t) ==
    /\ outside[t] = "due"
    /\ outside' = [outside EXCEPT ![t] = "none"]
    /\ Wake(t)
    /\ UNCHANGED <<pc, mutex, condvar, channel>>

------------------------------------------------------------------------------
(* A task goes on with the call it is in.                                    *)
GoesOn(t) ==
    \/ Unpark(t) \/ Acquire(t) \/ Enqueue(t) \/ Retry(t) \/ Release(t) \/ Reenter(t)
    \/ WakeNext(t) \/ CheckDue(t)
    \/ t = Receiver /\ (Receive \/ Listen)

Next ==
    \/ \E t \in Tasks : GoesOn(t) \/ Due(t) \/ OutsideWakes(t)
    \/ \E t \in Tasks : Lock(t) \/ DropGuard(t) \/ Wait(t) \/ NotifyAll(t) \/ Await(t)
    \/ \E t \in Tasks : YieldNow(t)
    \/ \E t \in Tasks : Send(t) \/ DropSender(t)
    \/ \E t, u \in Tasks : CloneSender(t, u)
    \/ Recv \/ DropReceiver

(* A task queued runs (GreenScheduler!QueuedRuns), time passes, and threads  *)
(* go on.  No task has to do anything more than to end the call it is in.    *)
Fairness == \A t \in Tasks : WF_vars(GoesOn(t)) /\ WF_vars(Due(t)) /\ WF_vars(OutsideWakes(t))

Spec == Init /\ [][Next]_vars
FairSpec == Spec /\ Fairness

------------------------------------------------------------------------------
(* Types; and a channel without a receiver holds nothing (Receiver::drop).   *)
TypeOK ==
    /\ pc \in [Tasks -> Steps]
    /\ token \in [Tasks -> BOOLEAN]
    /\ locked \in BOOLEAN
    /\ waiters \in Seq(Tasks)
    /\ guards \subseteq Tasks
    /\ idlers \subseteq Tasks
    /\ toWake \in [Tasks -> SUBSET Tasks]
    /\ items \in 0 .. IF open THEN MaxItems ELSE 0
    /\ senders \subseteq Tasks
    /\ listening \in BOOLEAN
    /\ open \in BOOLEAN
    /\ outside \in [Tasks -> {"none", "pending", "due"}]
    /\ notified \subseteq Tasks

(* "Unlock never spends its wake-up on a task that no longer waits"          *)
(* (sync.rs:20): while tasks are queued for a lock that is free, one is on   *)
(* its way to it - though wakes come late, or twice, and others barge in.    *)
NoStrandedWaiter ==
    ~locked /\ waiters # <<>> =>
        \E t \in Tasks : pc[t] \in {"locking", "woke"} \/ (pc[t] = "queued" /\ token[t])

(* "Registered before the lock is released: a notification cannot be missed" *)
(* (sync.rs:109): once notify_all came, a task that had released the lock    *)
(* to wait is woken, or about to be.                                         *)
NotificationsArrive ==
    \A u \in notified : pc[u] = "idle" => token[u] \/ \E t \in Tasks : u \in toWake[t]

(* The receiver does not sleep over a value, nor after the last sender: the  *)
(* waiter taken by one send is registered again before the next park (recv). *)
ReceiverWakes ==
    pc[Receiver] = "listening" /\ (items > 0 \/ senders = {}) => token[Receiver]

(* The lock is a lock, though it is not handed over, and a task woken may    *)
(* find it taken (Mutex::lock): GreenSync implements Exclusion.              *)
holders == [m \in {"mutex"} |-> guards]
Guard == INSTANCE Exclusion WITH Resources <- {"mutex"}, Owners <- Tasks
MutexIsALock == Guard!Spec

(* Of park and wake, no more is asked than Parking promises.                 *)
parkedOrNot ==
    [t \in Tasks |-> IF pc[t] \in Parked THEN IF token[t] THEN "ready" ELSE "parked"
                     ELSE IF token[t] THEN "noted" ELSE "going"]
Promise == INSTANCE Parking WITH place <- parkedOrNot
AsksNoMore == Promise!Spec

(* A sleep and a blocking call end (timer, blocking), and a free lock that   *)
(* tasks are queued for is taken.                                            *)
WaitsEnd ==
    /\ \A t \in Tasks : pc[t] \in {"awaiting", "away"} ~> pc[t] = "free"
    /\ ~locked /\ waiters # <<>> ~> locked \/ waiters = <<>>
==============================================================================
