--------------------------- MODULE GreenSyncProofs ---------------------------
(* Theorems about GreenSync, for any tasks, sleepers and channel size.       *)
EXTENDS GreenSync, SequenceTheorems, TLAPS

(* `locked' says whether there is a guard, and there is one at most.         *)
LockOK ==
    /\ locked <=> guards # {}
    /\ \A t, u \in guards : t = u

(* A ticket is of a task in its attempt, which has one ticket.               *)
TicketsOK ==
    \A i \in 1 .. Len(waiters) :
        /\ pc[waiters[i]] \in {"queued", "woke"}
        /\ \A k \in 1 .. Len(waiters) : waiters[i] = waiters[k] => i = k

(* A task that waits is registered, or its wake is given or on its way; and  *)
(* only the latter once notify_all came.                                     *)
InHand(u) == \E t \in Tasks : u \in toWake[t]
NotifyOK ==
    /\ \A t \in Tasks : pc[t] # "notifying" => toWake[t] = {}
    /\ \A u \in Tasks : pc[u] \in {"waiting", "idle"} =>
           u \in idlers \/ token[u] \/ InHand(u)
    /\ \A u \in notified :
           pc[u] \in {"waiting", "idle"} /\ (token[u] \/ InHand(u))

(* A receiver that sleeps is registered, and has nothing to wake for.        *)
ListenOK ==
    pc[Receiver] = "listening" /\ ~token[Receiver] =>
        listening /\ items = 0 /\ senders # {}

(* The inductive invariant: each primitive's waiters and their wakes.        *)
IInv ==
    /\ TypeOK
    /\ LockOK
    /\ TicketsOK
    /\ NoStrandedWaiter
    /\ NotifyOK
    /\ ListenOK

------------------------------------------------------------------------------
(* Unlock takes the first ticket from the queue.                             *)
LEMMA FirstTaken ==
  ASSUME NEW s \in Seq(Tasks), s # <<>>
  PROVE  /\ Tail(s) \in Seq(Tasks)
         /\ Len(Tail(s)) = Len(s) - 1
         /\ \A i \in 1 .. Len(Tail(s)) : i + 1 \in 1 .. Len(s) /\ Tail(s)[i] = s[i + 1]
         /\ 1 \in 1 .. Len(s)
         /\ Head(s) = s[1]
         /\ Head(s) \in Tasks
OBVIOUS

(* A ticket removed: the others keep their order.                            *)
LEMMA TicketRemoved ==
  ASSUME waiters \in Seq(Tasks), NEW i \in 1 .. Len(waiters)
  PROVE  /\ WithoutTicket(i) \in Seq(Tasks)
         /\ Len(WithoutTicket(i)) = Len(waiters) - 1
         /\ \A k \in 1 .. Len(WithoutTicket(i)) :
                WithoutTicket(i)[k] = IF k < i THEN waiters[k] ELSE waiters[k + 1]
<1>. DEFINE n == Len(waiters)
            l == SubSeq(waiters, 1, i - 1)
            r == SubSeq(waiters, i + 1, n)
<1>1. n \in Nat /\ i \in 1 .. n
  OBVIOUS
<1>2. /\ l \in Seq(Tasks)
      /\ Len(l) = i - 1
      /\ \A k \in 1 .. i - 1 : l[k] = waiters[k]
  BY <1>1
<1>3. /\ r \in Seq(Tasks)
      /\ Len(r) = n - i
      /\ \A k \in 1 .. n - i : r[k] = waiters[k + i]
  BY <1>1, SMTT(30)
<1>4. WithoutTicket(i) = l \o r
  BY DEF WithoutTicket
<1>. HIDE DEF n, l, r
<1>5. /\ l \o r \in Seq(Tasks)
      /\ Len(l \o r) = n - 1
      /\ \A k \in 1 .. n - 1 :
             (l \o r)[k] = IF k < i THEN l[k] ELSE r[k - (i - 1)]
  <2>1. /\ l \o r \in Seq(Tasks)
        /\ Len(l \o r) = Len(l) + Len(r)
        /\ \A k \in 1 .. Len(l) + Len(r) :
               (l \o r)[k] = IF k <= Len(l) THEN l[k] ELSE r[k - Len(l)]
    BY <1>2, <1>3, ConcatProperties
  <2>2. Len(l) + Len(r) = n - 1
    BY <1>1, <1>2, <1>3
  <2>. QED
    BY <1>1, <1>2, <2>1, <2>2
<1>6. \A k \in 1 .. n - 1 :
          (l \o r)[k] = IF k < i THEN waiters[k] ELSE waiters[k + 1]
  BY <1>1, <1>2, <1>3, <1>5
<1>. QED
  BY <1>4, <1>5, <1>6 DEF n

(* Every critical section and every wake keep the types.                     *)
LEMMA TypeStep ==
  ASSUME TypeOK, [Next]_vars
  PROVE  TypeOK'
<1>1. ASSUME NEW t \in Tasks, Unpark(t)
      PROVE  TypeOK'
  BY <1>1 DEF Unpark, AfterPark, Parked, Goto, mutex, channel, TypeOK, Steps
<1>2. ASSUME NEW t \in Tasks, Acquire(t)
      PROVE  TypeOK'
  BY <1>2 DEF Acquire, Goto, condvar, channel, TypeOK, Steps
<1>3. ASSUME NEW t \in Tasks, Enqueue(t)
      PROVE  TypeOK'
  BY <1>3
  DEF Enqueue, Goto, condvar, channel, TypeOK, Steps, Parked, AfterPark
<1>4. ASSUME NEW t \in Tasks, Retry(t)
      PROVE  TypeOK'
  BY <1>4, TicketRemoved DEF Retry, Goto, condvar, channel, TypeOK, Steps
<1>5. ASSUME NEW t \in Tasks, Release(t)
      PROVE  TypeOK'
  <2>1. waiters' \in Seq(Tasks) /\ token' \in [Tasks -> BOOLEAN]
    BY <1>5, FirstTaken DEF Release, Unlock, Wake, TypeOK
  <2>2. pc' \in [Tasks -> Steps]
    BY <1>5 DEF Release, Goto, TypeOK, Steps, Parked, AfterPark
  <2>. QED
    BY <1>5, <2>1, <2>2 DEF Release, Unlock, condvar, channel, TypeOK
<1>6. ASSUME NEW t \in Tasks, Reenter(t)
      PROVE  TypeOK'
  BY <1>6 DEF Reenter, Goto, mutex, channel, TypeOK, Steps
<1>7. ASSUME NEW t \in Tasks, WakeNext(t)
      PROVE  TypeOK'
  BY <1>7 DEF WakeNext, Wake, Goto, mutex, channel, TypeOK, Steps
<1>8. ASSUME NEW t \in Tasks, CheckDue(t)
      PROVE  TypeOK'
  BY <1>8
  DEF CheckDue, Goto, mutex, condvar, channel, TypeOK, Steps, Parked,
      AfterPark
<1>9. ASSUME Receive
      PROVE  TypeOK'
  BY <1>9, SyncAssumption DEF Receive, Goto, mutex, condvar, TypeOK, Steps
<1>10. ASSUME Listen
       PROVE  TypeOK'
  <2>1. pc' \in [Tasks -> Steps]
    BY <1>10 DEF Listen, Goto, TypeOK, Steps, Parked, AfterPark
  <2>. QED
    BY <1>10, <2>1 DEF Listen, mutex, condvar, TypeOK
<1>11. ASSUME NEW t \in Tasks, Due(t)
       PROVE  TypeOK'
  BY <1>11 DEF Due, mutex, condvar, channel, TypeOK
<1>12. ASSUME NEW t \in Tasks, OutsideWakes(t)
       PROVE  TypeOK'
  BY <1>12 DEF OutsideWakes, Wake, mutex, condvar, channel, TypeOK
<1>13. ASSUME NEW t \in Tasks, Lock(t)
       PROVE  TypeOK'
  BY <1>13 DEF Lock, Goto, mutex, condvar, channel, TypeOK, Steps
<1>14. ASSUME NEW t \in Tasks, DropGuard(t)
       PROVE  TypeOK'
  BY <1>14, FirstTaken DEF DropGuard, Unlock, Wake, condvar, channel, TypeOK
<1>15. ASSUME NEW t \in Tasks, Wait(t)
       PROVE  TypeOK'
  BY <1>15 DEF Wait, Goto, mutex, channel, TypeOK, Steps
<1>16. ASSUME NEW t \in Tasks, NotifyAll(t)
       PROVE  TypeOK'
  BY <1>16 DEF NotifyAll, Goto, InWait, mutex, channel, TypeOK, Steps
<1>17. ASSUME NEW t \in Tasks, Await(t)
       PROVE  TypeOK'
  BY <1>17 DEF Await, Goto, mutex, condvar, channel, TypeOK, Steps
<1>18. ASSUME NEW t \in Tasks, Send(t)
       PROVE  TypeOK'
  <2>1. items' \in 0 .. IF open' THEN MaxItems ELSE 0
    BY <1>18, SyncAssumption DEF Send, TypeOK
  <2>2. token' \in [Tasks -> BOOLEAN] /\ listening' \in BOOLEAN
    BY <1>18 DEF Send, WakeReceiver, Wake, TypeOK
  <2>. QED
    BY <1>18, <2>1, <2>2 DEF Send, mutex, condvar, TypeOK
<1>19. ASSUME NEW t \in Tasks, DropSender(t)
       PROVE  TypeOK'
  BY <1>19, SyncAssumption
  DEF DropSender, WakeReceiver, Wake, mutex, condvar, TypeOK
<1>20. ASSUME NEW t \in Tasks, NEW u \in Tasks, CloneSender(t, u)
       PROVE  TypeOK'
  BY <1>20 DEF CloneSender, mutex, condvar, TypeOK
<1>21. ASSUME Recv
       PROVE  TypeOK'
  BY <1>21, SyncAssumption
  DEF Recv, Goto, mutex, condvar, channel, TypeOK, Steps
<1>22. ASSUME DropReceiver
       PROVE  TypeOK'
  <2>1. items' \in 0 .. IF open' THEN MaxItems ELSE 0
    BY <1>22, SyncAssumption DEF DropReceiver
  <2>. QED
    BY <1>22, <2>1 DEF DropReceiver, mutex, condvar, TypeOK
<1>23. CASE UNCHANGED vars
  BY <1>23 DEF vars, mutex, condvar, channel, TypeOK
<1>24. ASSUME NEW t \in Tasks, YieldNow(t)
       PROVE  TypeOK'
  BY <1>24 DEF YieldNow, mutex, condvar, channel, TypeOK
<1>. QED
  BY <1>1, <1>2, <1>3, <1>4, <1>5, <1>6, <1>7, <1>8, <1>9, <1>10, <1>11,
     <1>12, <1>13, <1>14, <1>15, <1>16, <1>17, <1>18, <1>19, <1>20, <1>21,
     <1>22, <1>23, <1>24
  DEF Next, GoesOn

(* A guard is made while there is none, and no lock is kept without one.     *)
LEMMA LockStep ==
  ASSUME TypeOK, LockOK, [Next]_vars
  PROVE  LockOK'
<1>1. ASSUME NEW t \in Tasks, Unpark(t)
      PROVE  LockOK'
  BY <1>1 DEF Unpark, mutex, TypeOK, LockOK
<1>2. ASSUME NEW t \in Tasks, Acquire(t)
      PROVE  LockOK'
  BY <1>2 DEF Acquire, TypeOK, LockOK
<1>3. ASSUME NEW t \in Tasks, Enqueue(t)
      PROVE  LockOK'
  BY <1>3 DEF Enqueue, TypeOK, LockOK
<1>4. ASSUME NEW t \in Tasks, Retry(t)
      PROVE  LockOK'
  BY <1>4 DEF Retry, TypeOK, LockOK
<1>5. ASSUME NEW t \in Tasks, Release(t)
      PROVE  LockOK'
  BY <1>5 DEF Release, Unlock, TypeOK, LockOK
<1>6. ASSUME NEW t \in Tasks, Reenter(t)
      PROVE  LockOK'
  BY <1>6 DEF Reenter, mutex, TypeOK, LockOK
<1>7. ASSUME NEW t \in Tasks, WakeNext(t)
      PROVE  LockOK'
  BY <1>7 DEF WakeNext, mutex, TypeOK, LockOK
<1>8. ASSUME NEW t \in Tasks, CheckDue(t)
      PROVE  LockOK'
  BY <1>8 DEF CheckDue, mutex, TypeOK, LockOK
<1>9. ASSUME Receive
      PROVE  LockOK'
  BY <1>9 DEF Receive, mutex, TypeOK, LockOK
<1>10. ASSUME Listen
       PROVE  LockOK'
  BY <1>10 DEF Listen, mutex, TypeOK, LockOK
<1>11. ASSUME NEW t \in Tasks, Due(t)
       PROVE  LockOK'
  BY <1>11 DEF Due, mutex, TypeOK, LockOK
<1>12. ASSUME NEW t \in Tasks, OutsideWakes(t)
       PROVE  LockOK'
  BY <1>12 DEF OutsideWakes, mutex, TypeOK, LockOK
<1>13. ASSUME NEW t \in Tasks, Lock(t)
       PROVE  LockOK'
  BY <1>13 DEF Lock, mutex, TypeOK, LockOK
<1>14. ASSUME NEW t \in Tasks, DropGuard(t)
       PROVE  LockOK'
  BY <1>14 DEF DropGuard, Unlock, TypeOK, LockOK
<1>15. ASSUME NEW t \in Tasks, Wait(t)
       PROVE  LockOK'
  BY <1>15 DEF Wait, mutex, TypeOK, LockOK
<1>16. ASSUME NEW t \in Tasks, NotifyAll(t)
       PROVE  LockOK'
  BY <1>16 DEF NotifyAll, mutex, TypeOK, LockOK
<1>17. ASSUME NEW t \in Tasks, Await(t)
       PROVE  LockOK'
  BY <1>17 DEF Await, mutex, TypeOK, LockOK
<1>18. ASSUME NEW t \in Tasks, Send(t)
       PROVE  LockOK'
  BY <1>18 DEF Send, mutex, TypeOK, LockOK
<1>19. ASSUME NEW t \in Tasks, DropSender(t)
       PROVE  LockOK'
  BY <1>19 DEF DropSender, mutex, TypeOK, LockOK
<1>20. ASSUME NEW t \in Tasks, NEW u \in Tasks, CloneSender(t, u)
       PROVE  LockOK'
  BY <1>20 DEF CloneSender, mutex, TypeOK, LockOK
<1>21. ASSUME Recv
       PROVE  LockOK'
  BY <1>21 DEF Recv, mutex, TypeOK, LockOK
<1>22. ASSUME DropReceiver
       PROVE  LockOK'
  BY <1>22 DEF DropReceiver, mutex, TypeOK, LockOK
<1>23. CASE UNCHANGED vars
  BY <1>23 DEF vars, mutex, TypeOK, LockOK
<1>24. ASSUME NEW t \in Tasks, YieldNow(t)
       PROVE  LockOK'
  BY <1>24 DEF YieldNow, mutex, TypeOK, LockOK
<1>. QED
  BY <1>1, <1>2, <1>3, <1>4, <1>5, <1>6, <1>7, <1>8, <1>9, <1>10, <1>11,
     <1>12, <1>13, <1>14, <1>15, <1>16, <1>17, <1>18, <1>19, <1>20, <1>21,
     <1>22, <1>23, <1>24
  DEF Next, GoesOn

(* Tickets that stay, or move up by one, are still of tasks in an attempt.   *)
LEMMA TicketsAfter ==
  ASSUME TypeOK, TicketsOK,
         waiters' = waiters \/ (waiters # <<>> /\ waiters' = Tail(waiters)),
         \A i \in 1 .. Len(waiters) : pc'[waiters[i]] = pc[waiters[i]]
  PROVE  TicketsOK'
<1>2. CASE waiters' = waiters
  BY <1>2 DEF TicketsOK
<1>3. CASE waiters # <<>> /\ waiters' = Tail(waiters)
  <2>1. /\ Len(waiters) \in Nat
        /\ Len(waiters') = Len(waiters) - 1
        /\ \A i \in 1 .. Len(waiters') :
               i + 1 \in 1 .. Len(waiters) /\ waiters'[i] = waiters[i + 1]
    BY <1>3, FirstTaken DEF TypeOK
  <2>2. \A i \in 1 .. Len(waiters') : pc'[waiters'[i]] \in {"queued", "woke"}
    BY <2>1 DEF TicketsOK
  <2>3. \A i, k \in 1 .. Len(waiters') : waiters'[i] = waiters'[k] => i = k
    <3>. SUFFICES ASSUME NEW i \in 1 .. Len(waiters'), NEW k \in 1 .. Len(waiters'),
                         waiters'[i] = waiters'[k]
                  PROVE  i = k
      OBVIOUS
    <3>1. i + 1 = k + 1
      BY <2>1 DEF TicketsOK
    <3>. QED
      BY <2>1, <3>1
  <2>. QED
    BY <2>2, <2>3 DEF TicketsOK
<1>. QED
  BY <1>2, <1>3

(* No step leaves a ticket to a task that is not in its attempt.             *)
LEMMA TicketStep ==
  ASSUME TypeOK, TicketsOK, [Next]_vars
  PROVE  TicketsOK'
<1>1. ASSUME NEW t \in Tasks, Unpark(t)
      PROVE  TicketsOK'
  BY <1>1 DEF Unpark, AfterPark, Parked, Goto, mutex, TypeOK, TicketsOK
<1>2. ASSUME NEW t \in Tasks, Acquire(t)
      PROVE  TicketsOK'
  BY <1>2 DEF Acquire, Goto, TypeOK, TicketsOK
<1>3. ASSUME NEW t \in Tasks, Enqueue(t)
      PROVE  TicketsOK'
  BY <1>3 DEF Enqueue, Goto, TypeOK, TicketsOK
<1>4. ASSUME NEW t \in Tasks, Retry(t)
      PROVE  TicketsOK'
  <2>1. pc' = [pc EXCEPT ![t] = "locking"]
    BY <1>4 DEF Retry, Goto
  <2>2. CASE \E i \in DOMAIN waiters :
               waiters[i] = t /\ waiters' = WithoutTicket(i)
    <3>1. PICK i \in 1 .. Len(waiters) :
              waiters[i] = t /\ waiters' = WithoutTicket(i)
      BY <2>2 DEF TypeOK
    <3>. DEFINE old(k) == IF k < i THEN k ELSE k + 1
    <3>2. \A k \in 1 .. Len(waiters') :
              /\ old(k) \in 1 .. Len(waiters) /\ old(k) # i
              /\ waiters'[k] = waiters[old(k)]
      <4>1. /\ Len(waiters) \in Nat /\ i \in Nat /\ i <= Len(waiters)
            /\ Len(waiters') = Len(waiters) - 1
        BY <3>1, TicketRemoved DEF TypeOK
      <4>2. \A k \in 1 .. Len(waiters') :
                waiters'[k] = IF k < i THEN waiters[k] ELSE waiters[k + 1]
        BY <3>1, TicketRemoved DEF TypeOK
      <4>. QED
        BY <4>1, <4>2
    <3>3. \A k \in 1 .. Len(waiters') :
              waiters'[k] # t /\ waiters'[k] \in Tasks
      BY <3>1, <3>2 DEF TicketsOK, TypeOK
    <3>4. \A k \in 1 .. Len(waiters') : pc'[waiters'[k]] \in {"queued", "woke"}
      BY <2>1, <3>2, <3>3 DEF TicketsOK, TypeOK
    <3>5. \A k, m \in 1 .. Len(waiters') : old(k) = old(m) => k = m
      <4>1. Len(waiters') \in Nat /\ i \in Nat
        BY <3>1, TicketRemoved DEF TypeOK
      <4>. QED
        BY <4>1
    <3>6. \A k, m \in 1 .. Len(waiters') : waiters'[k] = waiters'[m] => k = m
      <4>. HIDE DEF old
      <4>. QED
        BY <3>2, <3>5 DEF TicketsOK
    <3>. QED
      BY <3>4, <3>6 DEF TicketsOK
  <2>3. CASE (\A i \in DOMAIN waiters : waiters[i] # t) /\ UNCHANGED waiters
    <3>1. \A i \in 1 .. Len(waiters) : waiters[i] # t
      BY <2>3 DEF TypeOK
    <3>2. \A i \in 1 .. Len(waiters) : pc'[waiters[i]] = pc[waiters[i]]
      BY <2>1, <3>1 DEF TypeOK
    <3>. QED
      BY <2>3, <3>2, TicketsAfter
  <2>. QED
    BY <1>4, <2>2, <2>3 DEF Retry
<1>5. ASSUME NEW t \in Tasks, Release(t)
      PROVE  TicketsOK'
  <2>1. \A i \in 1 .. Len(waiters) : waiters[i] # t
    BY <1>5 DEF Release, TicketsOK
  <2>2. \A i \in 1 .. Len(waiters) : pc'[waiters[i]] = pc[waiters[i]]
    BY <1>5, <2>1 DEF Release, Goto, TypeOK
  <2>3. waiters' = waiters \/ (waiters # <<>> /\ waiters' = Tail(waiters))
    BY <1>5 DEF Release, Unlock
  <2>. QED
    BY <2>2, <2>3, TicketsAfter
<1>6. ASSUME NEW t \in Tasks, Reenter(t)
      PROVE  TicketsOK'
  BY <1>6 DEF Reenter, Goto, mutex, TypeOK, TicketsOK
<1>7. ASSUME NEW t \in Tasks, WakeNext(t)
      PROVE  TicketsOK'
  BY <1>7 DEF WakeNext, Goto, mutex, TypeOK, TicketsOK
<1>8. ASSUME NEW t \in Tasks, CheckDue(t)
      PROVE  TicketsOK'
  BY <1>8 DEF CheckDue, Goto, mutex, TypeOK, TicketsOK
<1>9. ASSUME Receive
      PROVE  TicketsOK'
  BY <1>9 DEF Receive, Goto, mutex, TypeOK, TicketsOK
<1>10. ASSUME Listen
       PROVE  TicketsOK'
  BY <1>10 DEF Listen, Goto, mutex, TypeOK, TicketsOK
<1>11. ASSUME NEW t \in Tasks, Due(t)
       PROVE  TicketsOK'
  BY <1>11 DEF Due, mutex, TypeOK, TicketsOK
<1>12. ASSUME NEW t \in Tasks, OutsideWakes(t)
       PROVE  TicketsOK'
  BY <1>12 DEF OutsideWakes, mutex, TypeOK, TicketsOK
<1>13. ASSUME NEW t \in Tasks, Lock(t)
       PROVE  TicketsOK'
  BY <1>13 DEF Lock, Goto, mutex, TypeOK, TicketsOK
<1>14. ASSUME NEW t \in Tasks, DropGuard(t)
       PROVE  TicketsOK'
  <2>1. waiters' = waiters \/ (waiters # <<>> /\ waiters' = Tail(waiters))
    BY <1>14 DEF DropGuard, Unlock
  <2>. QED
    BY <1>14, <2>1, TicketsAfter DEF DropGuard
<1>15. ASSUME NEW t \in Tasks, Wait(t)
       PROVE  TicketsOK'
  BY <1>15 DEF Wait, Goto, mutex, TypeOK, TicketsOK
<1>16. ASSUME NEW t \in Tasks, NotifyAll(t)
       PROVE  TicketsOK'
  BY <1>16 DEF NotifyAll, Goto, mutex, TypeOK, TicketsOK
<1>17. ASSUME NEW t \in Tasks, Await(t)
       PROVE  TicketsOK'
  BY <1>17 DEF Await, Goto, mutex, TypeOK, TicketsOK
<1>18. ASSUME NEW t \in Tasks, Send(t)
       PROVE  TicketsOK'
  BY <1>18 DEF Send, mutex, TypeOK, TicketsOK
<1>19. ASSUME NEW t \in Tasks, DropSender(t)
       PROVE  TicketsOK'
  BY <1>19 DEF DropSender, mutex, TypeOK, TicketsOK
<1>20. ASSUME NEW t \in Tasks, NEW u \in Tasks, CloneSender(t, u)
       PROVE  TicketsOK'
  BY <1>20 DEF CloneSender, mutex, TypeOK, TicketsOK
<1>21. ASSUME Recv
       PROVE  TicketsOK'
  BY <1>21 DEF Recv, Goto, mutex, TypeOK, TicketsOK
<1>22. ASSUME DropReceiver
       PROVE  TicketsOK'
  BY <1>22 DEF DropReceiver, mutex, TypeOK, TicketsOK
<1>23. CASE UNCHANGED vars
  BY <1>23 DEF vars, mutex, TypeOK, TicketsOK
<1>24. ASSUME NEW t \in Tasks, YieldNow(t)
       PROVE  TicketsOK'
  BY <1>24 DEF YieldNow, mutex, TypeOK, TicketsOK
<1>. QED
  BY <1>1, <1>2, <1>3, <1>4, <1>5, <1>6, <1>7, <1>8, <1>9, <1>10, <1>11,
     <1>12, <1>13, <1>14, <1>15, <1>16, <1>17, <1>18, <1>19, <1>20, <1>21,
     <1>22, <1>23, <1>24
  DEF Next, GoesOn

(* The wake-up unlock spends goes to a task that will try the lock.          *)
LEMMA StrandedStep ==
  ASSUME TypeOK, TicketsOK, NoStrandedWaiter, LockOK, [Next]_vars
  PROVE  NoStrandedWaiter'
<1>1. ASSUME NEW t \in Tasks, Unpark(t)
      PROVE  NoStrandedWaiter'
  BY <1>1 DEF Unpark, AfterPark, Parked, Goto, mutex, TypeOK, NoStrandedWaiter
<1>2. ASSUME NEW t \in Tasks, Acquire(t)
      PROVE  NoStrandedWaiter'
  BY <1>2 DEF Acquire, TypeOK, NoStrandedWaiter
<1>3. ASSUME NEW t \in Tasks, Enqueue(t)
      PROVE  NoStrandedWaiter'
  BY <1>3 DEF Enqueue, TypeOK, NoStrandedWaiter
<1>4. ASSUME NEW t \in Tasks, Retry(t)
      PROVE  NoStrandedWaiter'
  BY <1>4 DEF Retry, Goto, TypeOK, NoStrandedWaiter
<1>5. ASSUME NEW t \in Tasks, Release(t)
      PROVE  NoStrandedWaiter'
  BY <1>5, FirstTaken
  DEF Release, Unlock, Wake, Goto, TypeOK, TicketsOK, NoStrandedWaiter,
      LockOK
<1>6. ASSUME NEW t \in Tasks, Reenter(t)
      PROVE  NoStrandedWaiter'
  BY <1>6 DEF Reenter, Goto, TypeOK, NoStrandedWaiter
<1>7. ASSUME NEW t \in Tasks, WakeNext(t)
      PROVE  NoStrandedWaiter'
  BY <1>7 DEF WakeNext, Wake, Goto, mutex, TypeOK, NoStrandedWaiter
<1>8. ASSUME NEW t \in Tasks, CheckDue(t)
      PROVE  NoStrandedWaiter'
  BY <1>8 DEF CheckDue, Goto, mutex, TypeOK, NoStrandedWaiter
<1>9. ASSUME Receive
      PROVE  NoStrandedWaiter'
  BY <1>9 DEF Receive, Goto, mutex, TypeOK, NoStrandedWaiter
<1>10. ASSUME Listen
       PROVE  NoStrandedWaiter'
  BY <1>10 DEF Listen, Goto, mutex, TypeOK, NoStrandedWaiter
<1>11. ASSUME NEW t \in Tasks, Due(t)
       PROVE  NoStrandedWaiter'
  BY <1>11 DEF Due, mutex, TypeOK, NoStrandedWaiter
<1>12. ASSUME NEW t \in Tasks, OutsideWakes(t)
       PROVE  NoStrandedWaiter'
  BY <1>12 DEF OutsideWakes, Wake, mutex, TypeOK, NoStrandedWaiter
<1>13. ASSUME NEW t \in Tasks, Lock(t)
       PROVE  NoStrandedWaiter'
  BY <1>13 DEF Lock, Goto, TypeOK, NoStrandedWaiter
<1>14. ASSUME NEW t \in Tasks, DropGuard(t)
       PROVE  NoStrandedWaiter'
  BY <1>14, FirstTaken
  DEF DropGuard, Unlock, Wake, TypeOK, TicketsOK, NoStrandedWaiter
<1>15. ASSUME NEW t \in Tasks, Wait(t)
       PROVE  NoStrandedWaiter'
  BY <1>15 DEF Wait, mutex, TypeOK, NoStrandedWaiter, LockOK
<1>16. ASSUME NEW t \in Tasks, NotifyAll(t)
       PROVE  NoStrandedWaiter'
  BY <1>16 DEF NotifyAll, Goto, mutex, TypeOK, NoStrandedWaiter
<1>17. ASSUME NEW t \in Tasks, Await(t)
       PROVE  NoStrandedWaiter'
  BY <1>17 DEF Await, Goto, mutex, TypeOK, NoStrandedWaiter
<1>18. ASSUME NEW t \in Tasks, Send(t)
       PROVE  NoStrandedWaiter'
  BY <1>18 DEF Send, WakeReceiver, Wake, mutex, TypeOK, NoStrandedWaiter
<1>19. ASSUME NEW t \in Tasks, DropSender(t)
       PROVE  NoStrandedWaiter'
  BY <1>19 DEF DropSender, WakeReceiver, Wake, mutex, TypeOK, NoStrandedWaiter
<1>20. ASSUME NEW t \in Tasks, NEW u \in Tasks, CloneSender(t, u)
       PROVE  NoStrandedWaiter'
  BY <1>20 DEF CloneSender, mutex, TypeOK, NoStrandedWaiter
<1>21. ASSUME Recv
       PROVE  NoStrandedWaiter'
  BY <1>21 DEF Recv, Goto, mutex, TypeOK, NoStrandedWaiter
<1>22. ASSUME DropReceiver
       PROVE  NoStrandedWaiter'
  BY <1>22 DEF DropReceiver, mutex, TypeOK, NoStrandedWaiter
<1>23. CASE UNCHANGED vars
  BY <1>23 DEF vars, mutex, TypeOK, NoStrandedWaiter
<1>24. ASSUME NEW t \in Tasks, YieldNow(t)
       PROVE  NoStrandedWaiter'
  BY <1>24 DEF YieldNow, mutex, TypeOK, NoStrandedWaiter
<1>. QED
  BY <1>1, <1>2, <1>3, <1>4, <1>5, <1>6, <1>7, <1>8, <1>9, <1>10, <1>11,
     <1>12, <1>13, <1>14, <1>15, <1>16, <1>17, <1>18, <1>19, <1>20, <1>21,
     <1>22, <1>23, <1>24
  DEF Next, GoesOn

(* No step takes a waiter out of the condition variable without its wake.    *)
LEMMA NotifyStep ==
  ASSUME TypeOK, NotifyOK, [Next]_vars
  PROVE  NotifyOK'
<1>1. ASSUME NEW t \in Tasks, Unpark(t)
      PROVE  NotifyOK'
  BY <1>1 DEF Unpark, AfterPark, Parked, Goto, TypeOK, NotifyOK, InHand
<1>2. ASSUME NEW t \in Tasks, Acquire(t)
      PROVE  NotifyOK'
  BY <1>2 DEF Acquire, Goto, condvar, TypeOK, NotifyOK, InHand
<1>3. ASSUME NEW t \in Tasks, Enqueue(t)
      PROVE  NotifyOK'
  BY <1>3 DEF Enqueue, Goto, condvar, TypeOK, NotifyOK, InHand
<1>4. ASSUME NEW t \in Tasks, Retry(t)
      PROVE  NotifyOK'
  BY <1>4 DEF Retry, Goto, condvar, TypeOK, NotifyOK, InHand
<1>5. ASSUME NEW t \in Tasks, Release(t)
      PROVE  NotifyOK'
  <2>1. \A u \in Tasks : token[u] => token'[u]
    BY <1>5 DEF Release, Unlock, Wake, TypeOK
  <2>. QED
    BY <1>5, <2>1 DEF Release, Goto, condvar, TypeOK, NotifyOK, InHand
<1>6. ASSUME NEW t \in Tasks, Reenter(t)
      PROVE  NotifyOK'
  BY <1>6 DEF Reenter, Goto, TypeOK, NotifyOK, InHand
<1>7. ASSUME NEW t \in Tasks, WakeNext(t)
      PROVE  NotifyOK'
  BY <1>7 DEF WakeNext, Wake, Goto, TypeOK, NotifyOK, InHand
<1>8. ASSUME NEW t \in Tasks, CheckDue(t)
      PROVE  NotifyOK'
  BY <1>8 DEF CheckDue, Goto, condvar, TypeOK, NotifyOK, InHand
<1>9. ASSUME Receive
      PROVE  NotifyOK'
  BY <1>9 DEF Receive, Goto, condvar, TypeOK, NotifyOK, InHand
<1>10. ASSUME Listen
       PROVE  NotifyOK'
  BY <1>10 DEF Listen, Goto, condvar, TypeOK, NotifyOK, InHand
<1>11. ASSUME NEW t \in Tasks, Due(t)
       PROVE  NotifyOK'
  BY <1>11 DEF Due, condvar, TypeOK, NotifyOK, InHand
<1>12. ASSUME NEW t \in Tasks, OutsideWakes(t)
       PROVE  NotifyOK'
  BY <1>12 DEF OutsideWakes, Wake, condvar, TypeOK, NotifyOK, InHand
<1>13. ASSUME NEW t \in Tasks, Lock(t)
       PROVE  NotifyOK'
  BY <1>13 DEF Lock, Goto, condvar, TypeOK, NotifyOK, InHand
<1>14. ASSUME NEW t \in Tasks, DropGuard(t)
       PROVE  NotifyOK'
  <2>1. \A u \in Tasks : token[u] => token'[u]
    BY <1>14 DEF DropGuard, Unlock, Wake, TypeOK
  <2>. QED
    BY <1>14, <2>1 DEF DropGuard, condvar, TypeOK, NotifyOK, InHand
<1>15. ASSUME NEW t \in Tasks, Wait(t)
       PROVE  NotifyOK'
  BY <1>15 DEF Wait, Goto, TypeOK, NotifyOK, InHand
<1>16. ASSUME NEW t \in Tasks, NotifyAll(t)
       PROVE  NotifyOK'
  BY <1>16 DEF NotifyAll, Goto, InWait, TypeOK, NotifyOK, InHand
<1>17. ASSUME NEW t \in Tasks, Await(t)
       PROVE  NotifyOK'
  BY <1>17 DEF Await, Goto, condvar, TypeOK, NotifyOK, InHand
<1>18. ASSUME NEW t \in Tasks, Send(t)
       PROVE  NotifyOK'
  BY <1>18 DEF Send, WakeReceiver, Wake, condvar, TypeOK, NotifyOK, InHand
<1>19. ASSUME NEW t \in Tasks, DropSender(t)
       PROVE  NotifyOK'
  BY <1>19
  DEF DropSender, WakeReceiver, Wake, condvar, TypeOK, NotifyOK, InHand
<1>20. ASSUME NEW t \in Tasks, NEW u \in Tasks, CloneSender(t, u)
       PROVE  NotifyOK'
  BY <1>20 DEF CloneSender, condvar, TypeOK, NotifyOK, InHand
<1>21. ASSUME Recv
       PROVE  NotifyOK'
  BY <1>21 DEF Recv, Goto, condvar, TypeOK, NotifyOK, InHand
<1>22. ASSUME DropReceiver
       PROVE  NotifyOK'
  BY <1>22 DEF DropReceiver, condvar, TypeOK, NotifyOK, InHand
<1>23. CASE UNCHANGED vars
  BY <1>23 DEF vars, condvar, TypeOK, NotifyOK, InHand
<1>24. ASSUME NEW t \in Tasks, YieldNow(t)
       PROVE  NotifyOK'
  BY <1>24 DEF YieldNow, condvar, TypeOK, NotifyOK, InHand
<1>. QED
  BY <1>1, <1>2, <1>3, <1>4, <1>5, <1>6, <1>7, <1>8, <1>9, <1>10, <1>11,
     <1>12, <1>13, <1>14, <1>15, <1>16, <1>17, <1>18, <1>19, <1>20, <1>21,
     <1>22, <1>23, <1>24
  DEF Next, GoesOn

(* What the receiver waits for comes with a wake.                            *)
LEMMA ListenStep ==
  ASSUME TypeOK, ListenOK, [Next]_vars
  PROVE  ListenOK'
<1>1. ASSUME NEW t \in Tasks, Unpark(t)
      PROVE  ListenOK'
  BY <1>1, SyncAssumption
  DEF Unpark, AfterPark, Parked, Goto, channel, TypeOK, ListenOK
<1>2. ASSUME NEW t \in Tasks, Acquire(t)
      PROVE  ListenOK'
  BY <1>2, SyncAssumption DEF Acquire, Goto, channel, TypeOK, ListenOK
<1>3. ASSUME NEW t \in Tasks, Enqueue(t)
      PROVE  ListenOK'
  BY <1>3, SyncAssumption DEF Enqueue, Goto, channel, TypeOK, ListenOK
<1>4. ASSUME NEW t \in Tasks, Retry(t)
      PROVE  ListenOK'
  BY <1>4, SyncAssumption DEF Retry, Goto, channel, TypeOK, ListenOK
<1>5. ASSUME NEW t \in Tasks, Release(t)
      PROVE  ListenOK'
  BY <1>5, SyncAssumption
  DEF Release, Unlock, Wake, Goto, channel, TypeOK, ListenOK
<1>6. ASSUME NEW t \in Tasks, Reenter(t)
      PROVE  ListenOK'
  BY <1>6, SyncAssumption DEF Reenter, Goto, channel, TypeOK, ListenOK
<1>7. ASSUME NEW t \in Tasks, WakeNext(t)
      PROVE  ListenOK'
  BY <1>7, SyncAssumption DEF WakeNext, Wake, Goto, channel, TypeOK, ListenOK
<1>8. ASSUME NEW t \in Tasks, CheckDue(t)
      PROVE  ListenOK'
  BY <1>8, SyncAssumption DEF CheckDue, Goto, channel, TypeOK, ListenOK
<1>9. ASSUME Receive
      PROVE  ListenOK'
  BY <1>9, SyncAssumption DEF Receive, Goto, TypeOK, ListenOK
<1>10. ASSUME Listen
       PROVE  ListenOK'
  BY <1>10, SyncAssumption DEF Listen, TypeOK, ListenOK
<1>11. ASSUME NEW t \in Tasks, Due(t)
       PROVE  ListenOK'
  BY <1>11, SyncAssumption DEF Due, channel, TypeOK, ListenOK
<1>12. ASSUME NEW t \in Tasks, OutsideWakes(t)
       PROVE  ListenOK'
  BY <1>12, SyncAssumption DEF OutsideWakes, Wake, channel, TypeOK, ListenOK
<1>13. ASSUME NEW t \in Tasks, Lock(t)
       PROVE  ListenOK'
  BY <1>13, SyncAssumption DEF Lock, Goto, channel, TypeOK, ListenOK
<1>14. ASSUME NEW t \in Tasks, DropGuard(t)
       PROVE  ListenOK'
  BY <1>14, SyncAssumption
  DEF DropGuard, Unlock, Wake, channel, TypeOK, ListenOK
<1>15. ASSUME NEW t \in Tasks, Wait(t)
       PROVE  ListenOK'
  BY <1>15, SyncAssumption DEF Wait, Goto, channel, TypeOK, ListenOK
<1>16. ASSUME NEW t \in Tasks, NotifyAll(t)
       PROVE  ListenOK'
  BY <1>16, SyncAssumption DEF NotifyAll, Goto, channel, TypeOK, ListenOK
<1>17. ASSUME NEW t \in Tasks, Await(t)
       PROVE  ListenOK'
  BY <1>17, SyncAssumption DEF Await, Goto, channel, TypeOK, ListenOK
<1>18. ASSUME NEW t \in Tasks, Send(t)
       PROVE  ListenOK'
  BY <1>18, SyncAssumption DEF Send, WakeReceiver, Wake, TypeOK, ListenOK
<1>19. ASSUME NEW t \in Tasks, DropSender(t)
       PROVE  ListenOK'
  BY <1>19, SyncAssumption
  DEF DropSender, WakeReceiver, Wake, TypeOK, ListenOK
<1>20. ASSUME NEW t \in Tasks, NEW u \in Tasks, CloneSender(t, u)
       PROVE  ListenOK'
  BY <1>20, SyncAssumption DEF CloneSender, TypeOK, ListenOK
<1>21. ASSUME Recv
       PROVE  ListenOK'
  BY <1>21, SyncAssumption DEF Recv, Goto, TypeOK, ListenOK
<1>22. ASSUME DropReceiver
       PROVE  ListenOK'
  BY <1>22, SyncAssumption DEF DropReceiver, TypeOK, ListenOK
<1>23. CASE UNCHANGED vars
  BY <1>23 DEF vars, channel, TypeOK, ListenOK
<1>24. ASSUME NEW t \in Tasks, YieldNow(t)
       PROVE  ListenOK'
  BY <1>24, SyncAssumption DEF YieldNow, channel, TypeOK, ListenOK
<1>. QED
  BY <1>1, <1>2, <1>3, <1>4, <1>5, <1>6, <1>7, <1>8, <1>9, <1>10, <1>11,
     <1>12, <1>13, <1>14, <1>15, <1>16, <1>17, <1>18, <1>19, <1>20, <1>21,
     <1>22, <1>23, <1>24
  DEF Next, GoesOn

(* All tasks free, the lock free, the channel empty.                         *)
LEMMA InitInv == Init => IInv
<1>. SUFFICES ASSUME Init PROVE IInv
  OBVIOUS
<1>1. items \in 0 .. IF open THEN MaxItems ELSE 0
  BY SyncAssumption DEF Init
<1>2. TypeOK
  <2>1. pc \in [Tasks -> Steps] /\ waiters \in Seq(Tasks)
    BY DEF Init, Steps
  <2>. QED
    BY <1>1, <2>1, SyncAssumption DEF Init, TypeOK
<1>3. LockOK /\ TicketsOK /\ NoStrandedWaiter
  BY DEF Init, LockOK, TicketsOK, NoStrandedWaiter
<1>4. NotifyOK /\ ListenOK
  BY SyncAssumption DEF Init, NotifyOK, ListenOK
<1>. QED
  BY <1>2, <1>3, <1>4 DEF IInv

(* Lock, condition variable and channel are kept well together.              *)
LEMMA Inductive == IInv /\ [Next]_vars => IInv'
  BY TypeStep, LockStep, TicketStep, StrandedStep, NotifyStep, ListenStep
  DEF IInv

(* The inductive invariant holds in every reachable state.                   *)
LEMMA Invariant == Spec => []IInv
  BY InitInv, Inductive, PTL DEF Spec

------------------------------------------------------------------------------
(* The types of the lock, the condition variable and the channel hold in     *)
(* every run; a channel without a receiver is empty (Receiver::drop).        *)
THEOREM TypeCorrect == Spec => []TypeOK
<1>1. IInv => TypeOK
  BY DEF IInv
<1>. QED
  BY <1>1, Invariant, PTL

(* Mutex::unlock never strands a waiter, however late other wakes come.      *)
THEOREM NoStrandedWaiterHolds == Spec => []NoStrandedWaiter
<1>1. IInv => NoStrandedWaiter
  BY DEF IInv
<1>. QED
  BY <1>1, Invariant, PTL

(* No notification is missed (Condvar::wait, notify_all).                    *)
THEOREM NotificationsArriveHolds == Spec => []NotificationsArrive
<1>1. IInv => NotificationsArrive
  BY DEF IInv, TypeOK, NotifyOK, InHand, NotificationsArrive
<1>. QED
  BY <1>1, Invariant, PTL

(* The receiver does not sleep over a value or after the last sender.        *)
THEOREM ReceiverWakesHolds == Spec => []ReceiverWakes
<1>1. IInv => ReceiverWakes
  BY SyncAssumption DEF IInv, TypeOK, ListenOK, ReceiverWakes
<1>. QED
  BY <1>1, Invariant, PTL

(* A guard dropped gives the lock back.                                      *)
LEMMA UnlockGivesBack ==
  ASSUME LockOK, NEW t \in Tasks, Unlock(t)
  PROVE  Guard!Next
<1>1. guards = {t} /\ guards' = {}
  BY DEF Unlock, LockOK
<1>. QED
  BY <1>1 DEF Guard!Next, Guard!GiveBack, holders

(* A step takes the lock while it is free, gives it back, or leaves it.      *)
LEMMA GuardStep ==
  ASSUME LockOK, [Next]_vars
  PROVE  [Guard!Next]_holders
<1>1. ASSUME NEW t \in Tasks, Unpark(t)
      PROVE  [Guard!Next]_holders
  BY <1>1 DEF Unpark, mutex, holders
<1>2. ASSUME NEW t \in Tasks, Acquire(t)
      PROVE  [Guard!Next]_holders
  <2>1. guards = {} /\ guards' = {t}
    BY <1>2 DEF Acquire, LockOK
  <2>2. Guard!Take("mutex", t)
    BY <2>1 DEF Guard!Take, holders
  <2>. QED
    BY <2>2 DEF Guard!Next
<1>3. ASSUME NEW t \in Tasks, Enqueue(t)
      PROVE  [Guard!Next]_holders
  BY <1>3 DEF Enqueue, Goto, holders
<1>4. ASSUME NEW t \in Tasks, Retry(t)
      PROVE  [Guard!Next]_holders
  BY <1>4 DEF Retry, Goto, holders
<1>5. ASSUME NEW t \in Tasks, Release(t)
      PROVE  [Guard!Next]_holders
  BY <1>5, UnlockGivesBack DEF Release
<1>6. ASSUME NEW t \in Tasks, Reenter(t)
      PROVE  [Guard!Next]_holders
  BY <1>6 DEF Reenter, mutex, holders
<1>7. ASSUME NEW t \in Tasks, WakeNext(t)
      PROVE  [Guard!Next]_holders
  BY <1>7 DEF WakeNext, mutex, holders
<1>8. ASSUME NEW t \in Tasks, CheckDue(t)
      PROVE  [Guard!Next]_holders
  BY <1>8 DEF CheckDue, mutex, holders
<1>9. ASSUME Receive
      PROVE  [Guard!Next]_holders
  BY <1>9 DEF Receive, mutex, holders
<1>10. ASSUME Listen
       PROVE  [Guard!Next]_holders
  BY <1>10 DEF Listen, mutex, holders
<1>11. ASSUME NEW t \in Tasks, Due(t)
       PROVE  [Guard!Next]_holders
  BY <1>11 DEF Due, mutex, holders
<1>12. ASSUME NEW t \in Tasks, OutsideWakes(t)
       PROVE  [Guard!Next]_holders
  BY <1>12 DEF OutsideWakes, mutex, holders
<1>13. ASSUME NEW t \in Tasks, Lock(t)
       PROVE  [Guard!Next]_holders
  BY <1>13 DEF Lock, mutex, holders
<1>14. ASSUME NEW t \in Tasks, DropGuard(t)
       PROVE  [Guard!Next]_holders
  BY <1>14, UnlockGivesBack DEF DropGuard
<1>15. ASSUME NEW t \in Tasks, Wait(t)
       PROVE  [Guard!Next]_holders
  BY <1>15 DEF Wait, mutex, holders
<1>16. ASSUME NEW t \in Tasks, NotifyAll(t)
       PROVE  [Guard!Next]_holders
  BY <1>16 DEF NotifyAll, mutex, holders
<1>17. ASSUME NEW t \in Tasks, Await(t)
       PROVE  [Guard!Next]_holders
  BY <1>17 DEF Await, mutex, holders
<1>18. ASSUME NEW t \in Tasks, Send(t)
       PROVE  [Guard!Next]_holders
  BY <1>18 DEF Send, mutex, holders
<1>19. ASSUME NEW t \in Tasks, DropSender(t)
       PROVE  [Guard!Next]_holders
  BY <1>19 DEF DropSender, mutex, holders
<1>20. ASSUME NEW t \in Tasks, NEW u \in Tasks, CloneSender(t, u)
       PROVE  [Guard!Next]_holders
  BY <1>20 DEF CloneSender, mutex, holders
<1>21. ASSUME Recv
       PROVE  [Guard!Next]_holders
  BY <1>21 DEF Recv, mutex, holders
<1>22. ASSUME DropReceiver
       PROVE  [Guard!Next]_holders
  BY <1>22 DEF DropReceiver, mutex, holders
<1>23. CASE UNCHANGED vars
  BY <1>23 DEF vars, mutex, holders
<1>24. ASSUME NEW t \in Tasks, YieldNow(t)
       PROVE  [Guard!Next]_holders
  BY <1>24 DEF YieldNow, mutex, holders
<1>. QED
  BY <1>1, <1>2, <1>3, <1>4, <1>5, <1>6, <1>7, <1>8, <1>9, <1>10, <1>11,
     <1>12, <1>13, <1>14, <1>15, <1>16, <1>17, <1>18, <1>19, <1>20, <1>21,
     <1>22, <1>23, <1>24
  DEF Next, GoesOn

(* The green mutex implements the abstract lock, with barging and late wakes *)
(* (Mutex::lock, unlock).                                                    *)
THEOREM MutexIsALockHolds == Spec => MutexIsALock
<1>1. Init => Guard!Init
  BY DEF Init, Guard!Init, holders
<1>2. IInv /\ [Next]_vars => [Guard!Next]_holders
  BY GuardStep DEF IInv
<1>. QED
  BY <1>1, <1>2, Invariant, PTL DEF Spec, MutexIsALock, Guard!Spec
------------------------------------------------------------------------------
(* A task is moved by what a step does to its place in the code and to its   *)
(* token: a wake, a park, a return from it, or a yield.                      *)
LEMMA Moved ==
  ASSUME TypeOK, NEW t \in Tasks,
         \/ pc'[t] = pc[t] /\ token'[t] = token[t]
         \/ pc'[t] = pc[t] /\ token'[t]
         \/ pc[t] \notin Parked /\ token'[t] = token[t]
         \/ pc'[t] \notin Parked /\ pc[t] \notin Parked /\ token'[t]
         \/ pc[t] \notin Parked /\ pc'[t] \notin Parked /\ ~token'[t]
         \/ pc[t] \in Parked /\ token[t] /\ pc'[t] \notin Parked /\ ~token'[t]
  PROVE  parkedOrNot'[t] = parkedOrNot[t] \/ Promise!Moves(t)
<1>1. parkedOrNot[t] =
         IF pc[t] \in Parked THEN IF token[t] THEN "ready" ELSE "parked"
         ELSE IF token[t] THEN "noted" ELSE "going"
  BY DEF parkedOrNot
<1>2. parkedOrNot'[t] =
         IF pc'[t] \in Parked THEN IF token'[t] THEN "ready" ELSE "parked"
         ELSE IF token'[t] THEN "noted" ELSE "going"
  BY DEF parkedOrNot, Parked, AfterPark
<1>3. token[t] \in BOOLEAN
  BY DEF TypeOK
<1>. QED
  BY <1>1, <1>2, <1>3
  DEF Promise!Moves, Promise!Wakes, Promise!Parks, Promise!Returns, Promise!Yields

(* A step moves each task.                                                   *)
LEMMA AllMoved ==
  ASSUME TypeOK, \A t \in Tasks : parkedOrNot'[t] = parkedOrNot[t] \/ Promise!Moves(t)
  PROVE  [Promise!Next]_parkedOrNot
<1>1. parkedOrNot' \in [Tasks -> Promise!Places]
  BY DEF parkedOrNot, Promise!Places
<1>. QED
  BY <1>1 DEF Promise!Next

(* A step that wakes some tasks, and one task of which parks, or moves to a  *)
(* place out of park.                                                        *)
LEMMA StepsAndWakes ==
  ASSUME TypeOK, NEW t \in Tasks, pc[t] \notin Parked,
         \A u \in Tasks \ {t} : pc'[u] = pc[u],
         \A u \in Tasks : token'[u] = token[u] \/ token'[u],
         pc'[t] = pc[t] \/ pc'[t] \notin Parked \/ token'[t] = token[t]
  PROVE  [Promise!Next]_parkedOrNot
<1>. SUFFICES ASSUME NEW u \in Tasks
              PROVE  parkedOrNot'[u] = parkedOrNot[u] \/ Promise!Moves(u)
  BY AllMoved
<1>1. token[u] \in BOOLEAN
  BY DEF TypeOK
<1>. QED
  BY <1>1, Moved

(* A step spends a wake at a park or a yield, and gives one to a task in any *)
(* place: Mutex, Condvar, the channel and the timer use park and wake alone. *)
LEMMA AsksNoMoreStep ==
  ASSUME TypeOK, TicketsOK, [Next]_vars
  PROVE  [Promise!Next]_parkedOrNot
<1>1. ASSUME NEW t \in Tasks, Unpark(t)
      PROVE  [Promise!Next]_parkedOrNot
  <2>1. ASSUME NEW u \in Tasks
        PROVE  parkedOrNot'[u] = parkedOrNot[u] \/ Promise!Moves(u)
    <3>1. CASE u # t
      BY <1>1, <3>1, Moved DEF Unpark, Goto, TypeOK
    <3>2. CASE u = t
      <4>1. pc[t] \in Parked /\ token[t] /\ ~token'[t]
        BY <1>1 DEF Unpark, TypeOK
      <4>2. pc'[t] \notin Parked
        BY <1>1, <4>1 DEF Unpark, Goto, TypeOK, AfterPark, Parked
      <4>. QED
        BY <3>2, <4>1, <4>2, Moved
    <3>. QED
      BY <3>1, <3>2
  <2>. QED
    BY <2>1, AllMoved
<1>2. ASSUME NEW t \in Tasks, Acquire(t)
      PROVE  [Promise!Next]_parkedOrNot
  BY <1>2, StepsAndWakes DEF Acquire, Goto, TypeOK, Parked, AfterPark
<1>3. ASSUME NEW t \in Tasks, Enqueue(t)
      PROVE  [Promise!Next]_parkedOrNot
  BY <1>3, StepsAndWakes DEF Enqueue, Goto, TypeOK, Parked, AfterPark
<1>4. ASSUME NEW t \in Tasks, Retry(t)
      PROVE  [Promise!Next]_parkedOrNot
  BY <1>4, StepsAndWakes DEF Retry, Goto, TypeOK, Parked, AfterPark
<1>5. ASSUME NEW t \in Tasks, Release(t)
      PROVE  [Promise!Next]_parkedOrNot
  <2>1. pc[t] = "waiting" /\ pc' = [pc EXCEPT ![t] = "idle"]
    BY <1>5 DEF Release, Goto
  <2>2. waiters # <<>> => Head(waiters) \in Tasks /\ Head(waiters) # t
    BY <2>1, FirstTaken DEF TypeOK, TicketsOK
  <2>3. /\ \A u \in Tasks : token'[u] = token[u] \/ token'[u]
        /\ token'[t] = token[t]
    BY <1>5, <2>2 DEF Release, Unlock, Wake, TypeOK
  <2>. QED
    BY <2>1, <2>3, StepsAndWakes DEF TypeOK, Parked, AfterPark
<1>6. ASSUME NEW t \in Tasks, Reenter(t)
      PROVE  [Promise!Next]_parkedOrNot
  BY <1>6, StepsAndWakes DEF Reenter, Goto, TypeOK, Parked, AfterPark
<1>7. ASSUME NEW t \in Tasks, WakeNext(t)
      PROVE  [Promise!Next]_parkedOrNot
  BY <1>7, StepsAndWakes DEF WakeNext, Wake, Goto, TypeOK, Parked, AfterPark
<1>8. ASSUME NEW t \in Tasks, CheckDue(t)
      PROVE  [Promise!Next]_parkedOrNot
  BY <1>8, StepsAndWakes DEF CheckDue, Goto, TypeOK, Parked, AfterPark
<1>9. ASSUME Receive
      PROVE  [Promise!Next]_parkedOrNot
  BY <1>9, SyncAssumption, StepsAndWakes DEF Receive, Goto, TypeOK, Parked, AfterPark
<1>10. ASSUME Listen
       PROVE  [Promise!Next]_parkedOrNot
  BY <1>10, SyncAssumption, StepsAndWakes DEF Listen, Goto, TypeOK, Parked, AfterPark
<1>11. ASSUME NEW t \in Tasks, Due(t)
       PROVE  [Promise!Next]_parkedOrNot
  BY <1>11 DEF Due, parkedOrNot
<1>12. ASSUME NEW t \in Tasks, OutsideWakes(t)
       PROVE  [Promise!Next]_parkedOrNot
  <2>1. ASSUME NEW u \in Tasks
        PROVE  parkedOrNot'[u] = parkedOrNot[u] \/ Promise!Moves(u)
    BY <1>12, Moved DEF OutsideWakes, Wake, TypeOK
  <2>. QED
    BY <2>1, AllMoved
<1>13. ASSUME NEW t \in Tasks, Lock(t)
       PROVE  [Promise!Next]_parkedOrNot
  BY <1>13, StepsAndWakes DEF Lock, Goto, TypeOK, Parked, AfterPark
<1>14. ASSUME NEW t \in Tasks, DropGuard(t)
       PROVE  [Promise!Next]_parkedOrNot
  <2>1. \A u \in Tasks : token'[u] = token[u] \/ token'[u]
    BY <1>14 DEF DropGuard, Unlock, Wake, TypeOK
  <2>. QED
    BY <1>14, <2>1, StepsAndWakes DEF DropGuard, Parked, AfterPark
<1>15. ASSUME NEW t \in Tasks, Wait(t)
       PROVE  [Promise!Next]_parkedOrNot
  BY <1>15, StepsAndWakes DEF Wait, Goto, TypeOK, Parked, AfterPark
<1>16. ASSUME NEW t \in Tasks, NotifyAll(t)
       PROVE  [Promise!Next]_parkedOrNot
  BY <1>16, StepsAndWakes DEF NotifyAll, Goto, TypeOK, Parked, AfterPark
<1>17. ASSUME NEW t \in Tasks, Await(t)
       PROVE  [Promise!Next]_parkedOrNot
  BY <1>17, StepsAndWakes DEF Await, Goto, TypeOK, Parked, AfterPark
<1>18. ASSUME NEW t \in Tasks, Send(t)
       PROVE  [Promise!Next]_parkedOrNot
  BY <1>18, StepsAndWakes DEF Send, WakeReceiver, Wake, TypeOK, Parked, AfterPark
<1>19. ASSUME NEW t \in Tasks, DropSender(t)
       PROVE  [Promise!Next]_parkedOrNot
  BY <1>19, StepsAndWakes DEF DropSender, WakeReceiver, Wake, TypeOK, Parked, AfterPark
<1>20. ASSUME NEW t \in Tasks, NEW u \in Tasks, CloneSender(t, u)
       PROVE  [Promise!Next]_parkedOrNot
  BY <1>20 DEF CloneSender, parkedOrNot
<1>21. ASSUME Recv
       PROVE  [Promise!Next]_parkedOrNot
  BY <1>21, SyncAssumption, StepsAndWakes DEF Recv, Goto, TypeOK, Parked, AfterPark
<1>22. ASSUME DropReceiver
       PROVE  [Promise!Next]_parkedOrNot
  BY <1>22 DEF DropReceiver, parkedOrNot
<1>23. CASE UNCHANGED vars
  BY <1>23 DEF vars, parkedOrNot
<1>24. ASSUME NEW t \in Tasks, YieldNow(t)
       PROVE  [Promise!Next]_parkedOrNot
  <2>1. ASSUME NEW u \in Tasks
        PROVE  parkedOrNot'[u] = parkedOrNot[u] \/ Promise!Moves(u)
    BY <1>24, Moved DEF YieldNow, TypeOK, AfterPark, Parked
  <2>. QED
    BY <2>1, AllMoved
<1>. QED
  BY <1>1, <1>2, <1>3, <1>4, <1>5, <1>6, <1>7, <1>8, <1>9, <1>10, <1>11,
     <1>12, <1>13, <1>14, <1>15, <1>16, <1>17, <1>18, <1>19, <1>20, <1>21,
     <1>22, <1>23, <1>24
  DEF Next, GoesOn

(* What the lock, the condition variable, the channel and sleep ask of park  *)
(* and wake is what Parking promises (task.rs `park', Task::wake): with      *)
(* GreenScheduler's theorem ParkAndWakeHolds, that is all the scheduler does.*)
THEOREM AsksNoMoreHolds == Spec => AsksNoMore
<1>1. Init => Promise!Init
  BY DEF Init, Promise!Init, parkedOrNot, Parked, AfterPark
<1>2. IInv /\ [Next]_vars => [Promise!Next]_parkedOrNot
  BY AsksNoMoreStep DEF IInv
<1>. QED
  BY <1>1, <1>2, Invariant, PTL DEF Spec, AsksNoMore, Promise!Spec
==============================================================================
