-------------------------- MODULE ModelCallsProofs ---------------------------
(* Theorems about what a program calls outside: the limits of a host         *)
(* (Limits), the rounds of batch_map (Batch) and the calls of a foreign      *)
(* bridge (Bridge).                                                          *)
EXTENDS Limits, Batch, Bridge, FiniteSetTheorems, FunctionTheorems, SequenceTheorems,
        WellFoundedInduction, TLAPS

------------------------------------------------------------------------------
(* Limits: the turns, the slots and the tickets of a host, for any calls, rate and answers. *)

(* What a turn looks like: it ends after it begins, an interval after unless *)
(* it has begun, and a call that waits for none has none.                    *)
Shape(t) == (t.before < t.after \/ t.after = 0)
            /\ (t.before > 0 => t.after = t.before + Interval)

(* The bucket's end is that of the last turn.                                *)
NextIsLast ==
    /\ \A c \in Holding : Shape(turn[c]) /\ turn[c].after <= next
    /\ \A end \in spent : end <= next

TurnInv == TypeOK /\ NextIsLast /\ TurnsApart

------------------------------------------------------------------------------
LEMMA Arithmetic ==
  /\ Interval \in Nat \ {0} /\ Burst \in Nat
  /\ \A a, b \in Nat : Later(a, b) \in Nat /\ Later(a, b) >= a /\ Later(a, b) >= b
  /\ \A a, b \in Nat : Sooner(a, b) \in Nat
  /\ \A a \in Nat : Nearer(a) \in Nat
BY LimitsAssumption, SMT DEF Burst, Later, Sooner, Nearer

(* A queue without its i-th ticket (Slots::leave).                           *)
LEMMA TicketRemoved ==
  ASSUME queue \in Seq(Calls), NEW i \in 1 .. Len(queue)
  PROVE  /\ Without(i) \in Seq(Calls)
         /\ Len(Without(i)) = Len(queue) - 1
         /\ \A k \in 1 .. Len(Without(i)) :
                Without(i)[k] = IF k < i THEN queue[k] ELSE queue[k + 1]
<1>. DEFINE n == Len(queue)
            l == SubSeq(queue, 1, i - 1)
            r == SubSeq(queue, i + 1, n)
<1>1. n \in Nat /\ i \in 1 .. n
  OBVIOUS
<1>2. /\ l \in Seq(Calls)
      /\ Len(l) = i - 1
      /\ \A k \in 1 .. i - 1 : l[k] = queue[k]
  BY <1>1
<1>3. /\ r \in Seq(Calls)
      /\ Len(r) = n - i
      /\ \A k \in 1 .. n - i : r[k] = queue[k + i]
  BY <1>1, SMTT(30)
<1>4. Without(i) = l \o r
  BY DEF Without
<1>. HIDE DEF n, l, r
<1>5. /\ l \o r \in Seq(Calls)
      /\ Len(l \o r) = n - 1
      /\ \A k \in 1 .. n - 1 :
             (l \o r)[k] = IF k < i THEN l[k] ELSE r[k - (i - 1)]
  <2>1. /\ l \o r \in Seq(Calls)
        /\ Len(l \o r) = Len(l) + Len(r)
        /\ \A k \in 1 .. Len(l) + Len(r) :
               (l \o r)[k] = IF k <= Len(l) THEN l[k] ELSE r[k - Len(l)]
    BY <1>2, <1>3, ConcatProperties
  <2>. QED
    BY <1>1, <1>2, <1>3, <2>1
<1>6. \A k \in 1 .. n - 1 :
          (IF k < i THEN l[k] ELSE r[k - (i - 1)])
        = (IF k < i THEN queue[k] ELSE queue[k + 1])
  <2>. SUFFICES ASSUME NEW k \in 1 .. n - 1
                PROVE  (IF k < i THEN l[k] ELSE r[k - (i - 1)])
                     = (IF k < i THEN queue[k] ELSE queue[k + 1])
    OBVIOUS
  <2>1. CASE k < i
    BY <1>1, <1>2, <2>1
  <2>2. CASE ~(k < i)
    <3>1. k - (i - 1) \in 1 .. n - i /\ (k - (i - 1)) + i = k + 1
      BY <1>1, <2>2
    <3>. QED
      BY <1>3, <2>2, <3>1
  <2>. QED
    BY <2>1, <2>2
<1>. QED
  BY <1>1, <1>4, <1>5, <1>6 DEF n

(* The limiter's state and the calls' keep their types in every step.        *)
LEMMA LimitsTypeStep == TypeOK /\ [Next]_vars => TypeOK'
<1>. SUFFICES ASSUME TypeOK, [Next]_vars PROVE TypeOK'
  OBVIOUS
<1>1. ASSUME NEW c \in Calls, Ask(c) PROVE TypeOK'
  BY <1>1 DEF Ask, Enqueue, TypeOK, Steps
<1>2. ASSUME NEW c \in Calls, TryEnter(c) PROVE TypeOK'
  BY <1>2 DEF TryEnter, TypeOK, Steps
<1>3. ASSUME NEW c \in Calls, Leave(c) PROVE TypeOK'
  <2>1. queue' \in Seq(Calls)
    BY <1>3, TicketRemoved DEF Leave, TypeOK
  <2>. QED
    BY <1>3, <2>1 DEF Leave, Over, TypeOK, Steps, Turns, NoTurn
<1>4. ASSUME NEW c \in Calls, Reserve(c) PROVE TypeOK'
  <2>. DEFINE before == Later(next, paused)
              early  == IF before >= Burst THEN before - Burst ELSE 0
  <2>1. before \in Nat /\ early \in Nat
    <3>1. before \in Nat /\ Burst \in Nat
      BY Arithmetic DEF TypeOK
    <3>. HIDE DEF before
    <3>. QED
      BY <3>1
  <2>2. Later(early, paused) \in Nat /\ before + Interval \in Nat
    <3>. HIDE DEF before, early
    <3>1. paused \in Nat /\ Interval \in Nat
      BY Arithmetic DEF TypeOK
    <3>. QED
      BY <2>1, <3>1, Arithmetic
  <2>3. /\ turn' = [turn EXCEPT ![c] = [at |-> Later(early, paused),
                                        before |-> before,
                                        after |-> before + Interval]]
        /\ next' = before + Interval
    BY <1>4 DEF Reserve
  <2>4. turn' \in [Calls -> Turns]
    <3>. HIDE DEF before, early
    <3>. QED
      BY <2>1, <2>2, <2>3 DEF TypeOK, Turns
  <2>. QED
    BY <1>4, <2>2, <2>3, <2>4 DEF Reserve, TypeOK, Steps
<1>5. ASSUME NEW c \in Calls, Pass(c) PROVE TypeOK'
  <2>1. turn[c].after \in Nat
    BY DEF TypeOK, Turns
  <2>2. spent' \subseteq Nat \ {0}
    BY <1>5, <2>1 DEF Pass, TypeOK
  <2>. QED
    BY <1>5, <2>2 DEF Pass, limiter, TypeOK, Steps, Turns, NoTurn
<1>6. ASSUME NEW c \in Calls, Cancel(c) PROVE TypeOK'
  BY <1>6 DEF Cancel, Refund, TypeOK, Steps, Turns, NoTurn
<1>7. ASSUME NEW c \in Calls, DropPermit(c) PROVE TypeOK'
  BY <1>7, Arithmetic DEF DropPermit, Release, Over, TypeOK, Steps, Turns, NoTurn
<1>8. ASSUME NEW c \in Calls, Answer(c) PROVE TypeOK'
  BY <1>8, Arithmetic DEF Answer, Release, Over, TypeOK, Steps, Turns, NoTurn
<1>9. ASSUME NEW c \in Calls, AnswerLater(c) PROVE TypeOK'
  BY <1>9, Arithmetic, LimitsAssumption DEF AnswerLater, Release, TypeOK, Steps
<1>10. ASSUME NEW c \in Calls, Told(c) PROVE TypeOK'
  <2>1. Later(paused, Sooner(rest[c], MAX_PAUSE)) \in Nat
    BY Arithmetic, LimitsAssumption DEF TypeOK
  <2>2. paused' \in Nat
    BY <1>10, <2>1 DEF Told, PauseUntil, TypeOK
  <2>3. CASE MayRetry(c)
    BY <1>10, <2>2, <2>3 DEF Told, TypeOK, Steps
  <2>4. CASE ~MayRetry(c)
    <3>1. Over(c) /\ UNCHANGED <<next, queue, inFlight, spent>>
      BY <1>10, <2>4 DEF Told
    <3>. QED
      BY <2>2, <3>1 DEF Over, TypeOK, Steps, Turns, NoTurn
  <2>. QED
    BY <2>3, <2>4
<1>11. ASSUME NEW c \in Calls, Again(c) PROVE TypeOK'
  BY <1>11 DEF Again, Enqueue, TypeOK, Steps
<1>12. ASSUME NEW c \in Calls, GiveUp(c) PROVE TypeOK'
  BY <1>12 DEF GiveUp, Over, limiter, TypeOK, Steps, Turns, NoTurn
<1>13. ASSUME Tick PROVE TypeOK'
  BY <1>13, Arithmetic DEF Tick, TypeOK, Turns
<1>14. ASSUME UNCHANGED vars PROVE TypeOK'
  BY <1>14 DEF vars, limiter, call, TypeOK
<1>. QED
  BY <1>1, <1>2, <1>3, <1>4, <1>5, <1>6, <1>7, <1>8, <1>9, <1>10, <1>11,
     <1>12, <1>13, <1>14 DEF Next, Step

(* The limiter, the turns and the calls keep their types.                    *)
THEOREM LimitsTypeCorrect == Spec => []TypeOK
<1>1. Init => TypeOK
  BY LimitsAssumption DEF Init, TypeOK, Steps, Turns, NoTurn
<1>. QED
  BY <1>1, LimitsTypeStep, PTL DEF Spec

------------------------------------------------------------------------------
(* A turn is a pair of instants, and an interval takes some time.            *)
LEMMA Instants ==
  /\ Interval \in Nat \ {0}
  /\ \A t \in Turns : t.at \in Nat /\ t.before \in Nat /\ t.after \in Nat
BY LimitsAssumption DEF Turns

(* The turn booked by reserve begins after every turn booked before, used or *)
(* not, and after the pause.                                                 *)
LEMMA Booked ==
  ASSUME TypeOK, NEW c \in Calls, Reserve(c)
  PROVE  /\ turn' = [turn EXCEPT ![c] = turn'[c]]
         /\ turn'[c] \in Turns
         /\ turn'[c].before >= next
         /\ turn'[c].after = turn'[c].before + Interval
         /\ next' = turn'[c].after
<1>. DEFINE before == Later(next, paused)
            early  == IF before >= Burst THEN before - Burst ELSE 0
            at == Later(early, paused)
<1>1. turn' = [turn EXCEPT ![c] = [at |-> at, before |-> before,
                                   after |-> before + Interval]]
      /\ next' = before + Interval
  BY DEF Reserve
<1>2. before \in Nat /\ before >= next
  BY Arithmetic DEF TypeOK
<1>3. TypeOK'
  BY LimitsTypeStep DEF Next, Step
<1>. HIDE DEF before, at
<1>4. turn'[c] = [at |-> at, before |-> before, after |-> before + Interval]
  BY <1>1 DEF TypeOK
<1>. QED
  BY <1>1, <1>2, <1>3, <1>4 DEF TypeOK

(* Every step keeps turns apart, and the bucket's end behind all of them.    *)
LEMMA TurnStep == TurnInv /\ [Next]_vars => TurnInv'
<1>. SUFFICES ASSUME TurnInv, [Next]_vars PROVE TurnInv'
  OBVIOUS
<1>0. TypeOK /\ TypeOK'
  BY LimitsTypeStep DEF TurnInv
<1>q. ASSUME Holding' \subseteq Holding,
             \A c \in Holding' : turn'[c] = turn[c],
             next' = next, spent' = spent
      PROVE  TurnInv'
  BY <1>0, <1>q DEF TurnInv, NextIsLast, TurnsApart, Shape, Apart
<1>1. ASSUME NEW c \in Calls, Ask(c) PROVE TurnInv'
  BY <1>0, <1>1, <1>q DEF Ask, Enqueue, Holding, TypeOK
<1>2. ASSUME NEW c \in Calls, TryEnter(c) PROVE TurnInv'
  BY <1>0, <1>2, <1>q DEF TryEnter, Holding, TypeOK
<1>3. ASSUME NEW c \in Calls, Leave(c) PROVE TurnInv'
  BY <1>0, <1>3, <1>q DEF Leave, Over, Holding, TypeOK
<1>4. ASSUME NEW c \in Calls, Reserve(c) PROVE TurnInv'
  <2>1. /\ Holding' = Holding \cup {c} /\ c \notin Holding
        /\ \A d \in Calls \ {c} : turn'[d] = turn[d]
        /\ spent' = spent
    BY <1>0, <1>4 DEF Reserve, Holding, TypeOK
  <2>2. /\ turn'[c] \in Turns
        /\ turn'[c].before >= next
        /\ turn'[c].after = turn'[c].before + Interval
        /\ next' = turn'[c].after
    BY <1>0, <1>4, Booked
  <2>3. /\ \A d \in Holding : turn[d] \in Turns /\ Shape(turn[d]) /\ turn[d].after <= next
        /\ \A end \in spent : end \in Nat /\ end <= next
        /\ next \in Nat
    BY <1>0 DEF TurnInv, NextIsLast, TypeOK, Holding
  <2>n. /\ turn'[c].before \in Nat /\ turn'[c].after \in Nat
        /\ \A d \in Holding : turn[d].before \in Nat /\ turn[d].after \in Nat
        /\ \A d \in Holding : d \in Calls /\ turn'[d] = turn[d]
    BY <2>1, <2>2, <2>3, Instants DEF Holding
  <2>4. NextIsLast'
    <3>1. Shape(turn'[c]) /\ turn'[c].after <= next' /\ next <= next'
      BY <2>2, <2>3, <2>n, Instants DEF Shape
    <3>2. \A d \in Holding : Shape(turn'[d]) /\ turn'[d].after <= next'
      <4>. SUFFICES ASSUME NEW d \in Holding PROVE Shape(turn'[d]) /\ turn'[d].after <= next'
        OBVIOUS
      <4>1. turn'[d] = turn[d] /\ Shape(turn[d]) /\ turn[d].after <= next
        BY <2>3, <2>n
      <4>. QED
        BY <2>2, <2>3, <2>n, <3>1, <4>1
    <3>3. \A end \in spent : end <= next'
      BY <2>2, <2>3, <2>n, <3>1
    <3>. QED
      BY <2>1, <3>1, <3>2, <3>3 DEF NextIsLast
  <2>5. TurnsApart'
    <3>1. \A d \in Holding : Apart(turn'[c], turn'[d]) /\ Apart(turn'[d], turn'[c])
      <4>. SUFFICES ASSUME NEW d \in Holding
                    PROVE  Apart(turn'[c], turn'[d]) /\ Apart(turn'[d], turn'[c])
        OBVIOUS
      <4>1. turn'[d] = turn[d] /\ turn[d].after <= next
        BY <2>3, <2>n
      <4>2. turn'[d].after <= turn'[c].before
        BY <2>2, <2>3, <2>n, <4>1
      <4>. QED
        BY <4>2 DEF Apart
    <3>2. \A d \in Holding : \A e \in Holding \ {d} : Apart(turn'[d], turn'[e])
      BY <2>n DEF TurnsApart, TurnInv
    <3>3. \A end \in spent : end <= turn'[c].before
      BY <2>2, <2>3, <2>n
    <3>4. \A d \in Holding : \A end \in spent :
             end <= turn'[d].before \/ turn'[d].after + Interval <= end \/ turn'[d].after = 0
      BY <2>n DEF TurnsApart, TurnInv
    <3>. QED
      BY <2>1, <3>1, <3>2, <3>3, <3>4 DEF TurnsApart
  <2>. QED
    BY <1>0, <2>4, <2>5 DEF TurnInv
<1>5. ASSUME NEW c \in Calls, Pass(c) PROVE TurnInv'
  <2>1. /\ Holding' = Holding \ {c} /\ c \in Holding
        /\ \A d \in Calls \ {c} : turn'[d] = turn[d]
        /\ spent' = spent \cup ({turn[c].after} \ {0})
        /\ next' = next
    BY <1>0, <1>5 DEF Pass, Holding, TypeOK, limiter
  <2>2. /\ \A d \in Holding : turn[d] \in Turns /\ Shape(turn[d]) /\ turn[d].after <= next
        /\ \A end \in spent : end \in Nat /\ end <= next
        /\ next \in Nat
    BY <1>0 DEF TurnInv, NextIsLast, TypeOK, Holding
  <2>3. NextIsLast'
    BY <2>1, <2>2 DEF NextIsLast, Holding
  <2>4. \A d \in Holding' :
           \/ turn[c].after = 0
           \/ turn[c].after <= turn[d].before
           \/ turn[d].after + Interval <= turn[c].after
           \/ turn[d].after = 0
    <3>. SUFFICES ASSUME NEW d \in Holding, d # c
                  PROVE  \/ turn[c].after = 0
                         \/ turn[c].after <= turn[d].before
                         \/ turn[d].after + Interval <= turn[c].after
                         \/ turn[d].after = 0
      BY <2>1
    <3>1. Apart(turn[c], turn[d]) /\ Shape(turn[c]) /\ turn[c] \in Turns /\ turn[d] \in Turns
      BY <2>1, <2>2 DEF TurnInv, TurnsApart
    <3>. QED
      BY <3>1, Instants DEF Apart, Shape, Turns
  <2>5. TurnsApart'
    BY <2>1, <2>4 DEF TurnsApart, TurnInv, Apart, Holding
  <2>. QED
    BY <1>0, <2>3, <2>5 DEF TurnInv
<1>6. ASSUME NEW c \in Calls, Cancel(c) PROVE TurnInv'
  <2>1. /\ Holding' = Holding \ {c} /\ c \in Holding
        /\ \A d \in Calls \ {c} : turn'[d] = turn[d]
        /\ spent' = spent
        /\ next' = IF next = turn[c].after THEN turn[c].before ELSE next
    BY <1>0, <1>6 DEF Cancel, Refund, Holding, TypeOK
  <2>2. /\ \A d \in Holding : turn[d] \in Turns /\ Shape(turn[d]) /\ turn[d].after <= next
        /\ \A end \in spent : end \in Nat \ {0} /\ end <= next
        /\ next \in Nat /\ next' \in Nat
    BY <1>0 DEF TurnInv, NextIsLast, TypeOK, Holding
  <2>3. \A d \in Holding' : turn[d].after <= next'
    <3>. SUFFICES ASSUME NEW d \in Holding, d # c PROVE turn[d].after <= next'
      BY <2>1
    <3>1. Apart(turn[c], turn[d]) /\ Shape(turn[d]) /\ turn[c] \in Turns /\ turn[d] \in Turns
          /\ turn[d].after <= next
      BY <2>1, <2>2 DEF TurnInv, TurnsApart
    <3>2. /\ turn[c].before \in Nat /\ turn[c].after \in Nat
          /\ turn[d].before \in Nat /\ turn[d].after \in Nat
          /\ next \in Nat
      BY <2>2, <3>1, Instants
    <3>3. CASE next = turn[c].after
      BY <2>1, <3>1, <3>2, <3>3 DEF Apart, Shape
    <3>4. CASE next # turn[c].after
      BY <2>1, <3>1, <3>4
    <3>. QED
      BY <3>3, <3>4
  <2>4. \A end \in spent : end <= next'
    <3>. SUFFICES ASSUME NEW end \in spent PROVE end <= next'
      OBVIOUS
    <3>1. \/ end <= turn[c].before
          \/ turn[c].after + Interval <= end
          \/ turn[c].after = 0
      BY <2>1 DEF TurnInv, TurnsApart
    <3>2. turn[c] \in Turns /\ end \in Nat \ {0} /\ end <= next
      BY <2>1, <2>2
    <3>3. turn[c].before \in Nat /\ turn[c].after \in Nat /\ next \in Nat
      BY <2>2, <3>2, Instants
    <3>4. CASE next = turn[c].after
      BY <2>1, <3>1, <3>2, <3>3, <3>4, Instants
    <3>5. CASE next # turn[c].after
      BY <2>1, <3>2, <3>5
    <3>. QED
      BY <3>4, <3>5
  <2>5. NextIsLast'
    BY <2>1, <2>2, <2>3, <2>4 DEF NextIsLast, Holding
  <2>6. TurnsApart'
    BY <2>1 DEF TurnsApart, TurnInv, Holding
  <2>. QED
    BY <1>0, <2>5, <2>6 DEF TurnInv
<1>7. ASSUME NEW c \in Calls, DropPermit(c) PROVE TurnInv'
  BY <1>0, <1>7, <1>q DEF DropPermit, Over, Holding, TypeOK
<1>8. ASSUME NEW c \in Calls, Answer(c) PROVE TurnInv'
  BY <1>0, <1>8, <1>q DEF Answer, Over, Holding, TypeOK
<1>9. ASSUME NEW c \in Calls, AnswerLater(c) PROVE TurnInv'
  BY <1>0, <1>9, <1>q DEF AnswerLater, Holding, TypeOK
<1>10. ASSUME NEW c \in Calls, Told(c) PROVE TurnInv'
  BY <1>0, <1>10, <1>q DEF Told, Over, Holding, TypeOK
<1>11. ASSUME NEW c \in Calls, Again(c) PROVE TurnInv'
  BY <1>0, <1>11, <1>q DEF Again, Enqueue, Holding, TypeOK
<1>12. ASSUME NEW c \in Calls, GiveUp(c) PROVE TurnInv'
  BY <1>0, <1>12, <1>q DEF GiveUp, Over, limiter, Holding, TypeOK
<1>13. ASSUME Tick PROVE TurnInv'
  <2>1. /\ Holding' = Holding
        /\ \A d \in Calls : turn'[d].before = Nearer(turn[d].before)
                            /\ turn'[d].after = Nearer(turn[d].after)
        /\ spent' = {Nearer(t) : t \in spent} \ {0}
        /\ next' = Nearer(next)
    BY <1>13 DEF Tick, Holding
  <2>2. /\ \A d \in Holding : d \in Calls /\ turn[d].before \in Nat /\ turn[d].after \in Nat
                              /\ Shape(turn[d]) /\ turn[d].after <= next
        /\ \A end \in spent : end \in Nat \ {0} /\ end <= next
        /\ next \in Nat
    BY <1>0 DEF TurnInv, NextIsLast, TypeOK, Holding, Turns
  <2>3. NextIsLast'
    <3>1. \A d \in Holding : Shape(turn'[d])
      <4>. SUFFICES ASSUME NEW d \in Holding PROVE Shape(turn'[d])
        OBVIOUS
      <4>1. /\ turn[d].before \in Nat /\ turn[d].after \in Nat /\ Shape(turn[d])
            /\ turn'[d].before = Nearer(turn[d].before)
            /\ turn'[d].after = Nearer(turn[d].after)
        BY <2>1, <2>2
      <4>. QED
        BY <4>1, Instants DEF Shape, Nearer
    <3>2. \A d \in Holding : turn'[d].after <= next'
      BY <2>1, <2>2 DEF Nearer
    <3>3. \A end \in spent' : end <= next'
      BY <2>1, <2>2 DEF Nearer
    <3>. QED
      BY <2>1, <3>1, <3>2, <3>3 DEF NextIsLast
  <2>4. TurnsApart'
    <3>1. ASSUME NEW c \in Holding, NEW d \in Holding \ {c} PROVE Apart(turn'[c], turn'[d])
      <4>1. Apart(turn[c], turn[d])
        BY DEF TurnInv, TurnsApart
      <4>. QED
        BY <2>1, <2>2, <4>1 DEF Apart, Nearer
    <3>2. ASSUME NEW c \in Holding, NEW end \in spent'
          PROVE  \/ end <= turn'[c].before
                 \/ turn'[c].after + Interval <= end
                 \/ turn'[c].after = 0
      <4>1. PICK old \in spent : end = Nearer(old)
        BY <2>1
      <4>2. old <= turn[c].before \/ turn[c].after + Interval <= old \/ turn[c].after = 0
        BY DEF TurnInv, TurnsApart
      <4>. QED
        <5>1. /\ turn[c].before \in Nat /\ turn[c].after \in Nat /\ old \in Nat \ {0}
              /\ turn'[c].before = Nearer(turn[c].before)
              /\ turn'[c].after = Nearer(turn[c].after)
          BY <2>1, <2>2
        <5>. QED
          BY <4>1, <4>2, <5>1, Instants DEF Nearer
    <3>. QED
      BY <2>1, <3>1, <3>2 DEF TurnsApart
  <2>. QED
    BY <1>0, <2>3, <2>4 DEF TurnInv
<1>14. ASSUME UNCHANGED vars PROVE TurnInv'
  BY <1>0, <1>14, <1>q DEF vars, limiter, call, Holding, TypeOK
<1>. QED
  BY <1>1, <1>2, <1>3, <1>4, <1>5, <1>6, <1>7, <1>8, <1>9, <1>10, <1>11,
     <1>12, <1>13, <1>14 DEF Next, Step

(* A turn is never handed to two calls, whatever is refunded in whatever     *)
(* order (bucket.rs).                                                        *)
THEOREM TurnsApartHolds == Spec => []TurnsApart
<1>1. Init => TurnInv
  BY LimitsTypeCorrect, LimitsAssumption
  DEF Init, TurnInv, TypeOK, NextIsLast, TurnsApart, Holding, Steps, Turns, NoTurn
<1>2. TurnInv => TurnsApart
  BY DEF TurnInv
<1>. QED
  BY <1>1, <1>2, TurnStep, PTL DEF Spec

------------------------------------------------------------------------------
(* The permits are finitely many.                                            *)
LEMMA PermitsFinite == IsFiniteSet(Permits) /\ Cardinality(Permits) \in Nat
<1>1. IsFiniteSet(Permits)
  BY LimitsAssumption, FS_Subset DEF Permits
<1>. QED
  BY <1>1, FS_CardinalityType

(* A call that drops its permit gives one slot back.                         *)
LEMMA SlotGivenBack ==
  ASSUME SlotsCounted, TypeOK, NEW c \in Permits, Permits' = Permits \ {c}, Release
  PROVE  SlotsCounted'
<1>1. Cardinality(Permits') = Cardinality(Permits) - 1
  BY PermitsFinite, FS_RemoveElement
<1>2. Cardinality(Permits) # 0
  BY PermitsFinite, FS_EmptySet
<1>3. inFlight' = inFlight - 1 /\ inFlight' \in Nat
  BY <1>2, PermitsFinite DEF Release, Nearer, SlotsCounted, TypeOK
<1>. QED
  BY <1>1, <1>3, LimitsAssumption DEF SlotsCounted, TypeOK

(* Every step takes and gives back slots with the permits.                   *)
LEMMA SlotStep == TypeOK /\ SlotsCounted /\ [Next]_vars => SlotsCounted'
<1>. SUFFICES ASSUME TypeOK, SlotsCounted, [Next]_vars PROVE SlotsCounted'
  OBVIOUS
<1>q. ASSUME Permits' = Permits, inFlight' = inFlight PROVE SlotsCounted'
  BY <1>q DEF SlotsCounted
<1>1. ASSUME NEW c \in Calls, Ask(c) PROVE SlotsCounted'
  BY <1>1, <1>q DEF Ask, Enqueue, Permits, TypeOK
<1>2. ASSUME NEW c \in Calls, TryEnter(c) PROVE SlotsCounted'
  <2>1. Permits' = Permits \cup {c} /\ c \notin Permits
    BY <1>2 DEF TryEnter, Permits, TypeOK
  <2>2. Cardinality(Permits') = Cardinality(Permits) + 1
    BY <2>1, PermitsFinite, FS_AddElement
  <2>. QED
    BY <1>2, <2>2, LimitsAssumption DEF TryEnter, SlotsCounted, TypeOK
<1>3. ASSUME NEW c \in Calls, Leave(c) PROVE SlotsCounted'
  BY <1>3, <1>q DEF Leave, Over, Permits, TypeOK
<1>4. ASSUME NEW c \in Calls, Reserve(c) PROVE SlotsCounted'
  BY <1>4, <1>q DEF Reserve, Permits, TypeOK
<1>5. ASSUME NEW c \in Calls, Pass(c) PROVE SlotsCounted'
  BY <1>5, <1>q DEF Pass, Permits, TypeOK, limiter
<1>6. ASSUME NEW c \in Calls, Cancel(c) PROVE SlotsCounted'
  BY <1>6, <1>q DEF Cancel, Permits, TypeOK
<1>7. ASSUME NEW c \in Calls, DropPermit(c) PROVE SlotsCounted'
  <2>1. c \in Permits /\ Permits' = Permits \ {c} /\ Release
    BY <1>7 DEF DropPermit, Over, Permits, TypeOK
  <2>. QED
    BY <2>1, SlotGivenBack
<1>8. ASSUME NEW c \in Calls, Answer(c) PROVE SlotsCounted'
  <2>1. c \in Permits /\ Permits' = Permits \ {c} /\ Release
    BY <1>8 DEF Answer, Over, Permits, TypeOK
  <2>. QED
    BY <2>1, SlotGivenBack
<1>9. ASSUME NEW c \in Calls, AnswerLater(c) PROVE SlotsCounted'
  <2>1. c \in Permits /\ Permits' = Permits \ {c} /\ Release
    BY <1>9 DEF AnswerLater, Permits, TypeOK
  <2>. QED
    BY <2>1, SlotGivenBack
<1>10. ASSUME NEW c \in Calls, Told(c) PROVE SlotsCounted'
  BY <1>10, <1>q DEF Told, Over, Permits, TypeOK
<1>11. ASSUME NEW c \in Calls, Again(c) PROVE SlotsCounted'
  BY <1>11, <1>q DEF Again, Enqueue, Permits, TypeOK
<1>12. ASSUME NEW c \in Calls, GiveUp(c) PROVE SlotsCounted'
  BY <1>12, <1>q DEF GiveUp, Over, limiter, Permits, TypeOK
<1>13. ASSUME Tick PROVE SlotsCounted'
  BY <1>13, <1>q DEF Tick, Permits
<1>14. ASSUME UNCHANGED vars PROVE SlotsCounted'
  BY <1>14, <1>q DEF vars, limiter, call, Permits
<1>. QED
  BY <1>1, <1>2, <1>3, <1>4, <1>5, <1>6, <1>7, <1>8, <1>9, <1>10, <1>11,
     <1>12, <1>13, <1>14 DEF Next, Step

(* Whatever is cancelled, told to wait or sent again, the slots taken are    *)
(* those of the calls in flight or about to be, and never too many           *)
(* (limiter.rs).                                                             *)
THEOREM SlotsCountedHolds == Spec => []SlotsCounted
<1>1. Init => SlotsCounted
  <2>. SUFFICES ASSUME Init PROVE SlotsCounted
    OBVIOUS
  <2>1. Permits = {}
    BY DEF Init, Permits
  <2>. QED
    BY <2>1, FS_EmptySet, LimitsAssumption DEF Init, SlotsCounted
<1>. QED
  BY <1>1, LimitsTypeCorrect, SlotStep, PTL DEF Spec

------------------------------------------------------------------------------
(* A call joins the queue once, at its end (Slots::enqueue).                 *)
LEMMA Joined ==
  ASSUME TypeOK, TicketsWait, NEW c \in Calls, pc[c] # "queued", Enqueue(c)
  PROVE  TicketsWait'
<1>1. /\ queue' \in Seq(Calls) /\ Len(queue') = Len(queue) + 1 /\ Len(queue) \in Nat
      /\ \A i \in 1 .. Len(queue) : queue'[i] = queue[i] /\ queue[i] \in Calls
      /\ queue'[Len(queue) + 1] = c
  BY DEF Enqueue, TypeOK
<1>2. pc'[c] = "queued" /\ \A d \in Calls \ {c} : pc'[d] = pc[d]
  BY DEF Enqueue, TypeOK
<1>3. \A i \in 1 .. Len(queue) : queue[i] # c
  BY DEF TicketsWait
<1>4. \A i \in 1 .. Len(queue') : i \in 1 .. Len(queue) \/ i = Len(queue) + 1
  BY <1>1
<1>5. \A i \in 1 .. Len(queue') : pc'[queue'[i]] = "queued"
  BY <1>1, <1>2, <1>4 DEF TicketsWait
<1>6. \A i, j \in 1 .. Len(queue') : queue'[i] = queue'[j] => i = j
  BY <1>1, <1>3, <1>4 DEF TicketsWait
<1>7. \A d \in Calls : pc'[d] = "queued" => \E i \in 1 .. Len(queue') : queue'[i] = d
  <2>. SUFFICES ASSUME NEW d \in Calls, pc'[d] = "queued"
                PROVE  \E i \in 1 .. Len(queue') : queue'[i] = d
    OBVIOUS
  <2>1. CASE d = c
    BY <1>1, <2>1
  <2>2. CASE d # c
    <3>1. PICK i \in 1 .. Len(queue) : queue[i] = d
      BY <1>2, <2>2 DEF TicketsWait
    <3>. QED
      BY <1>1, <3>1
  <2>. QED
    BY <2>1, <2>2
<1>. QED
  BY <1>5, <1>6, <1>7 DEF TicketsWait

(* A call that leaves the queue, first or not, takes its ticket with it.     *)
LEMMA Left ==
  ASSUME TypeOK, TicketsWait, NEW k \in 1 .. Len(queue),
         queue' \in Seq(Calls), Len(queue') = Len(queue) - 1,
         \A i \in 1 .. Len(queue') :
             queue'[i] = IF i < k THEN queue[i] ELSE queue[i + 1],
         pc'[queue[k]] # "queued",
         \A d \in Calls \ {queue[k]} : pc'[d] = pc[d]
  PROVE  TicketsWait'
<1>. DEFINE old(i) == IF i < k THEN i ELSE i + 1
<1>1. /\ Len(queue) \in Nat /\ k \in Nat /\ k <= Len(queue) /\ 1 <= k
      /\ Len(queue') = Len(queue) - 1
  BY DEF TypeOK
<1>2. \A i \in 1 .. Len(queue') : old(i) \in 1 .. Len(queue) /\ old(i) # k
  BY <1>1
<1>3. \A i \in 1 .. Len(queue') : queue'[i] = queue[old(i)]
  OBVIOUS
<1>4. \A i, j \in 1 .. Len(queue') : old(i) = old(j) => i = j
  BY <1>1
<1>5. \A i \in 1 .. Len(queue) : i # k =>
         \E j \in 1 .. Len(queue') : old(j) = i
  <2>. SUFFICES ASSUME NEW i \in 1 .. Len(queue), i # k
                PROVE  \E j \in 1 .. Len(queue') : old(j) = i
    OBVIOUS
  <2>1. CASE i < k
    BY <1>1, <2>1
  <2>2. CASE i > k
    <3>1. i - 1 \in 1 .. Len(queue') /\ old(i - 1) = i
      BY <1>1, <2>2
    <3>. QED
      BY <3>1
  <2>. QED
    BY <1>1, <2>1, <2>2
<1>. HIDE DEF old
<1>6. \A i \in 1 .. Len(queue) : queue[i] \in Calls
  BY DEF TypeOK
<1>7. \A i \in 1 .. Len(queue') : pc'[queue'[i]] = "queued"
  BY <1>2, <1>3, <1>6 DEF TicketsWait
<1>8. \A i, j \in 1 .. Len(queue') : queue'[i] = queue'[j] => i = j
  BY <1>2, <1>3, <1>4 DEF TicketsWait
<1>9. \A d \in Calls : pc'[d] = "queued" => \E i \in 1 .. Len(queue') : queue'[i] = d
  <2>. SUFFICES ASSUME NEW d \in Calls, pc'[d] = "queued"
                PROVE  \E i \in 1 .. Len(queue') : queue'[i] = d
    OBVIOUS
  <2>1. d # queue[k] /\ pc[d] = "queued"
    BY <1>6
  <2>2. PICK i \in 1 .. Len(queue) : queue[i] = d
    BY <2>1 DEF TicketsWait
  <2>3. PICK j \in 1 .. Len(queue') : old(j) = i
    BY <1>5, <2>1, <2>2
  <2>. QED
    BY <1>3, <2>2, <2>3
<1>. QED
  BY <1>7, <1>8, <1>9 DEF TicketsWait

(* Every step keeps the queue that of the calls that wait for a slot.        *)
LEMMA TicketStep == TypeOK /\ TicketsWait /\ [Next]_vars => TicketsWait'
<1>. SUFFICES ASSUME TypeOK, TicketsWait, [Next]_vars PROVE TicketsWait'
  OBVIOUS
<1>q. ASSUME queue' = queue, \A d \in Calls : pc'[d] = "queued" <=> pc[d] = "queued"
      PROVE  TicketsWait'
  <2>1. \A i \in 1 .. Len(queue) : queue[i] \in Calls
    BY DEF TypeOK
  <2>. QED
    BY <1>q, <2>1 DEF TicketsWait
<1>1. ASSUME NEW c \in Calls, Ask(c) PROVE TicketsWait'
  BY <1>1, Joined DEF Ask
<1>2. ASSUME NEW c \in Calls, TryEnter(c) PROVE TicketsWait'
  <2>1. /\ queue # <<>> /\ queue' = Tail(queue) /\ queue[1] = c
        /\ pc' = [pc EXCEPT ![c] = "entered"]
    BY <1>2 DEF TryEnter
  <2>2. /\ Len(queue) \in Nat /\ 1 \in 1 .. Len(queue)
        /\ queue' \in Seq(Calls) /\ Len(queue') = Len(queue) - 1
        /\ \A i \in 1 .. Len(queue') : queue'[i] = queue[i + 1]
    BY <2>1 DEF TypeOK
  <2>3. \A i \in 1 .. Len(queue') : queue'[i] = IF i < 1 THEN queue[i] ELSE queue[i + 1]
    BY <2>2
  <2>4. pc'[queue[1]] # "queued" /\ \A d \in Calls \ {queue[1]} : pc'[d] = pc[d]
    BY <2>1 DEF TypeOK
  <2>. QED
    BY <2>2, <2>3, <2>4, Left
<1>3. ASSUME NEW c \in Calls, Leave(c) PROVE TicketsWait'
  <2>1. PICK i \in 1 .. Len(queue) : queue[i] = c /\ queue' = Without(i)
    BY <1>3 DEF Leave
  <2>2. /\ queue' \in Seq(Calls) /\ Len(queue') = Len(queue) - 1
        /\ \A k \in 1 .. Len(queue') :
               queue'[k] = IF k < i THEN queue[k] ELSE queue[k + 1]
    BY <2>1, TicketRemoved DEF TypeOK
  <2>3. pc'[queue[i]] # "queued" /\ \A d \in Calls \ {queue[i]} : pc'[d] = pc[d]
    BY <1>3, <2>1 DEF Leave, Over, TypeOK
  <2>. QED
    BY <2>2, <2>3, Left
<1>4. ASSUME NEW c \in Calls, Reserve(c) PROVE TicketsWait'
  BY <1>4, <1>q DEF Reserve, TypeOK
<1>5. ASSUME NEW c \in Calls, Pass(c) PROVE TicketsWait'
  BY <1>5, <1>q DEF Pass, limiter, TypeOK
<1>6. ASSUME NEW c \in Calls, Cancel(c) PROVE TicketsWait'
  BY <1>6, <1>q DEF Cancel, TypeOK
<1>7. ASSUME NEW c \in Calls, DropPermit(c) PROVE TicketsWait'
  BY <1>7, <1>q DEF DropPermit, Over, TypeOK
<1>8. ASSUME NEW c \in Calls, Answer(c) PROVE TicketsWait'
  BY <1>8, <1>q DEF Answer, Over, TypeOK
<1>9. ASSUME NEW c \in Calls, AnswerLater(c) PROVE TicketsWait'
  BY <1>9, <1>q DEF AnswerLater, TypeOK
<1>10. ASSUME NEW c \in Calls, Told(c) PROVE TicketsWait'
  BY <1>10, <1>q DEF Told, Over, TypeOK
<1>11. ASSUME NEW c \in Calls, Again(c) PROVE TicketsWait'
  BY <1>11, Joined DEF Again
<1>12. ASSUME NEW c \in Calls, GiveUp(c) PROVE TicketsWait'
  BY <1>12, <1>q DEF GiveUp, Over, limiter, TypeOK
<1>13. ASSUME Tick PROVE TicketsWait'
  BY <1>13, <1>q DEF Tick
<1>14. ASSUME UNCHANGED vars PROVE TicketsWait'
  BY <1>14, <1>q DEF vars, limiter, call
<1>. QED
  BY <1>1, <1>2, <1>3, <1>4, <1>5, <1>6, <1>7, <1>8, <1>9, <1>10, <1>11,
     <1>12, <1>13, <1>14 DEF Next, Step

(* The queue for slots is that of the calls that wait, however many were     *)
(* cancelled in it: its first ticket can always be taken (slots.rs).         *)
THEOREM TicketsWaitHolds == Spec => []TicketsWait
<1>1. Init => TicketsWait
  BY DEF Init, TicketsWait
<1>. QED
  BY <1>1, LimitsTypeCorrect, TicketStep, PTL DEF Spec

(* Slots are counted and queued for as slots.rs promises.                    *)
THEOREM SlotsKeptHolds == Spec => []SlotsKept
<1>1. SlotsCounted /\ TicketsWait => SlotsKept
  BY DEF SlotsKept
<1>. QED
  BY <1>1, SlotsCountedHolds, TicketsWaitHolds, PTL

------------------------------------------------------------------------------
(* Batch: the requests of a round, for any elements, providers and blocks.   *)

(* Places in the round of the requests taken and not answered.               *)
Due == left \cup group

(* No task has two requests, nor a request and an answer.                    *)
OneEach ==
    /\ \A i, j \in DOMAIN requests : requests[i].by = requests[j].by => i = j
    /\ \A i, j \in Due : round[i].by = round[j].by => i = j
    /\ \A i \in DOMAIN requests, j \in Due : requests[i].by # round[j].by
    /\ \A i \in DOMAIN requests : answer[requests[i].by] = 0
    /\ \A j \in Due : answer[round[j].by] = 0
    /\ left \cap group = {}

(* The tasks that wait are those with a request or an answer, of their last  *)
(* call.                                                                     *)
Pending(e) ==
    \/ \E i \in DOMAIN requests : requests[i].by = e
    \/ \E j \in Due : round[j].by = e
    \/ answer[e] # 0

AskedWait ==
    /\ \A e \in Elements : task[e] = "asked" <=> Pending(e)
    /\ \A e \in Elements : answer[e] \in {0, calls[e]}
    /\ \A i \in DOMAIN requests :
          requests[i].number = calls[requests[i].by] /\ requests[i].number # 0
    /\ \A j \in Due : round[j].number = calls[round[j].by] /\ round[j].number # 0

(* Where a round's requests are, while it is taken, grouped and sent.        *)
Rounds ==
    /\ collector # "sending" => group = {}
    /\ collector \notin {"grouping", "sending"} => left = {}
    /\ collector = "grouping" =>
          /\ left = DOMAIN round
          /\ \A e \in Elements : task[e] = "done" \/ \E j \in DOMAIN round : round[j].by = e

(* The count is of the tasks neither done nor with a queued request.         *)
Active == {e \in Elements : task[e] # "done" /\ ~\E i \in DOMAIN requests : requests[i].by = e}
Counts == running = Cardinality(Active)

Collected == BatchTypeOK /\ OneEach /\ AskedWait /\ Rounds /\ Counts

------------------------------------------------------------------------------
(* A queue with one request more.                                            *)
LEMMA Queued1 ==
  ASSUME NEW s \in Seq(Requests), NEW q \in Requests
  PROVE  /\ Append(s, q) \in Seq(Requests)
         /\ Len(s) \in Nat /\ DOMAIN s = 1 .. Len(s)
         /\ DOMAIN Append(s, q) = 1 .. Len(s) + 1
         /\ \A i \in 1 .. Len(s) : Append(s, q)[i] = s[i]
         /\ Append(s, q)[Len(s) + 1] = q
OBVIOUS

(* Places of a round are numbers, and some have a first.                     *)
LEMMA FirstIs ==
  ASSUME NEW places \in SUBSET Nat, places # {}
  PROVE  First(places) \in places
<1>1. PICK x \in places : \A y \in places : ~(<<y, x>> \in OpToRel(<, Nat))
  BY NatLessThanWellFounded, WFMin, Zenon
<1>2. \A y \in places : ~(y < x)
  BY <1>1, Zenon DEF OpToRel
<1>. HIDE <1>1
<1>3. \A y \in places : x <= y
  BY <1>2
<1>. QED
  BY <1>3, Zenon DEF First

LEMMA ActiveFinite == IsFiniteSet(Active) /\ Cardinality(Active) \in Nat
<1>1. IsFiniteSet(Elements) /\ Active \subseteq Elements
  BY BatchAssumption DEF Active
<1>. QED
  BY <1>1, FS_Subset, FS_CardinalityType

(* An element less, one less is counted.                                     *)
LEMMA OneLess ==
  ASSUME Counts, NEW e \in Active, Active' = Active \ {e}, running' = running - 1
  PROVE  Counts' /\ running' \in Nat
<1>1. IsFiniteSet(Active) /\ Cardinality(Active) \in Nat
  BY ActiveFinite
<1>2. Cardinality(Active \ {e}) = Cardinality(Active) - 1
  BY <1>1, FS_RemoveElement
<1>3. IsFiniteSet(Active \ {e}) /\ Cardinality(Active \ {e}) \in Nat
  BY <1>1, FS_Subset, FS_CardinalityType
<1>. QED
  BY <1>1, <1>2, <1>3 DEF Counts

------------------------------------------------------------------------------
(* An element's task.                                                        *)

LEMMA TaskOf ==
  ASSUME BatchTypeOK, NEW e \in Elements, NEW step, Moves(e, step)
  PROVE  task'[e] = step /\ \A f \in Elements : f # e => task'[f] = task[f]
BY DEF BatchTypeOK, Moves

(* A request is queued: its task had none (BatchRun::call).                  *)
LEMMA CallStep1 ==
  ASSUME Collected, NEW e \in Elements, CallModel(e)
  PROVE  Collected'
<1>0. BatchTypeOK /\ OneEach /\ AskedWait /\ Rounds /\ Counts
  BY DEF Collected
<1>u. /\ UNCHANGED <<answer, asks, agentTurn, collector, round, left, group>>
      /\ task[e] = "running" /\ running' = running - 1
      /\ task' = [task EXCEPT ![e] = "asked"]
      /\ calls' = [calls EXCEPT ![e] = @ + 1]
  BY DEF CallModel, turns, sending, Moves
<1>1. PICK p \in Providers :
        requests' = Append(requests, [by |-> e, number |-> calls[e] + 1, provider |-> p])
  BY DEF CallModel
<1>2. PICK q \in Requests : q = [by |-> e, number |-> calls[e] + 1, provider |-> p]
  <2>1. PICK k \in Nat : k = calls[e] + 1
    <3>1. calls[e] \in Nat
      BY <1>0 DEF BatchTypeOK
    <3>. QED
      BY <3>1
  <2>2. [by |-> e, number |-> k, provider |-> p] \in Requests
    BY DEF Requests
  <2>. QED
    BY <2>1, <2>2, Zenon
<1>3. q.by = e /\ q.number = calls[e] + 1 /\ requests' = Append(requests, q)
  BY <1>1, <1>2
<1>4. PICK n \in Nat :
        /\ requests' \in Seq(Requests)
        /\ DOMAIN requests = 1 .. n /\ DOMAIN requests' = 1 .. n + 1
        /\ \A i \in 1 .. n : requests'[i] = requests[i]
        /\ requests'[n + 1] = q
  BY <1>0, <1>3, Queued1 DEF BatchTypeOK
<1>5. ~Pending(e)
  BY <1>0, <1>u DEF AskedWait
<1>6. /\ \A f \in Elements : f # e => task'[f] = task[f] /\ calls'[f] = calls[f]
      /\ task'[e] = "asked" /\ calls'[e] = calls[e] + 1 /\ calls[e] \in Nat
  BY <1>0, <1>u DEF BatchTypeOK
<1>7. /\ \A i \in 1 .. n : requests[i].by # e
      /\ \A j \in Due : round[j].by # e
      /\ answer[e] = 0
  BY <1>4, <1>5 DEF Pending
<1>8. /\ \A i \in 1 .. n + 1 : i \in 1 .. n \/ i = n + 1
      /\ n + 1 \in 1 .. n + 1 /\ \A i \in 1 .. n : i \in 1 .. n + 1
      /\ Due' = Due
  BY <1>u DEF Due
<1>t. /\ \A i \in 1 .. n : requests[i].by \in Elements
      /\ \A j \in Due : round[j].by \in Elements
  <2>1. \A i \in DOMAIN requests : requests[i] \in Requests
    BY <1>0 DEF BatchTypeOK
  <2>2. \A j \in DOMAIN round : round[j] \in Requests
    BY <1>0 DEF BatchTypeOK
  <2>3. Due \subseteq DOMAIN round
    BY <1>0 DEF BatchTypeOK, Due
  <2>. QED
    BY <1>4, <2>1, <2>2, <2>3 DEF Requests
<1>9. OneEach'
  <2>1. /\ \A i, j \in 1 .. n : requests[i].by = requests[j].by => i = j
        /\ \A i \in 1 .. n, j \in Due : requests[i].by # round[j].by
        /\ \A i \in 1 .. n : answer[requests[i].by] = 0
    BY <1>0, <1>4 DEF OneEach
  <2>2. \A i, j \in 1 .. n + 1 : requests'[i].by = requests'[j].by => i = j
    BY <1>3, <1>4, <1>7, <1>8, <2>1
  <2>3. \A i \in 1 .. n + 1, j \in Due : requests'[i].by # round[j].by
    BY <1>3, <1>4, <1>7, <1>8, <2>1
  <2>4. \A i \in 1 .. n + 1 : answer[requests'[i].by] = 0
    BY <1>3, <1>4, <1>7, <1>8, <2>1
  <2>. QED
    BY <1>0, <1>u, <1>4, <1>8, <2>2, <2>3, <2>4 DEF OneEach
<1>10. AskedWait'
  <2>1. \A f \in Elements : task'[f] = "asked" <=> Pending(f)'
    <3>. SUFFICES ASSUME NEW f \in Elements PROVE task'[f] = "asked" <=> Pending(f)'
      OBVIOUS
    <3>1. CASE f = e
      BY <1>3, <1>4, <1>6, <1>8, <3>1 DEF Pending
    <3>2. CASE f # e
      <4>1. (\E i \in 1 .. n + 1 : requests'[i].by = f) <=> (\E i \in 1 .. n : requests[i].by = f)
        BY <1>3, <1>4, <1>8, <3>2
      <4>2. Pending(f)' <=> Pending(f)
        BY <1>u, <1>4, <1>8, <4>1 DEF Pending
      <4>. QED
        BY <1>0, <1>6, <3>2, <4>2 DEF AskedWait
    <3>. QED
      BY <3>1, <3>2
  <2>2. \A f \in Elements : answer'[f] \in {0, calls'[f]}
    BY <1>0, <1>u, <1>6, <1>7 DEF AskedWait
  <2>3. \A i \in 1 .. n + 1 :
          requests'[i].number = calls'[requests'[i].by] /\ requests'[i].number # 0
    <3>. SUFFICES ASSUME NEW i \in 1 .. n + 1
                  PROVE  requests'[i].number = calls'[requests'[i].by] /\ requests'[i].number # 0
      OBVIOUS
    <3>1. CASE i = n + 1
      BY <1>3, <1>4, <1>6, <3>1
    <3>2. CASE i \in 1 .. n
      <4>1. requests[i].number = calls[requests[i].by] /\ requests[i].number # 0
        BY <1>0, <1>4, <3>2 DEF AskedWait
      <4>2. calls'[requests[i].by] = calls[requests[i].by]
        BY <1>6, <1>7, <1>t, <3>2
      <4>. QED
        BY <1>4, <3>2, <4>1, <4>2
    <3>. QED
      BY <1>8, <3>1, <3>2
  <2>4. \A j \in Due : round[j].number = calls'[round[j].by] /\ round[j].number # 0
    BY <1>0, <1>6, <1>7, <1>t DEF AskedWait
  <2>. QED
    BY <1>4, <1>8, <1>u, <2>1, <2>2, <2>3, <2>4 DEF AskedWait
<1>11. Rounds'
  <2>1. collector # "grouping"
    BY <1>0, <1>u, <1>7, <1>8 DEF Rounds, Due
  <2>. QED
    BY <1>0, <1>u, <2>1 DEF Rounds
<1>12. Counts' /\ running' \in Nat
  <2>1. e \in Active
    BY <1>u, <1>4, <1>7 DEF Active
  <2>2. \A f \in Elements : f # e => ((\E i \in 1 .. n + 1 : requests'[i].by = f)
                                       <=> (\E i \in 1 .. n : requests[i].by = f))
    BY <1>3, <1>4, <1>8
  <2>3. \E i \in 1 .. n + 1 : requests'[i].by = e
    BY <1>3, <1>4, <1>8
  <2>4. Active' = Active \ {e}
    BY <1>4, <1>6, <2>2, <2>3 DEF Active
  <2>. QED
    BY <1>0, <1>u, <2>1, <2>4, OneLess
<1>13. BatchTypeOK'
  BY <1>0, <1>u, <1>4, <1>12 DEF BatchTypeOK
<1>. QED
  BY <1>9, <1>10, <1>11, <1>12, <1>13 DEF Collected

(* Steps of a task that neither waits nor ends with them.                    *)
LEMMA BlockMoves ==
  ASSUME Collected, NEW e \in Elements, task[e] \in {"running", "turn"},
         NEW step \in {"running", "turn", "sent"},
         task' = [task EXCEPT ![e] = step],
         UNCHANGED <<running, requests, calls, answer, collector, round, left, group>>,
         asks' \in [Elements -> Nat], agentTurn' \in Elements \cup {NoElement}
  PROVE  Collected'
<1>0. BatchTypeOK /\ OneEach /\ AskedWait /\ Rounds /\ Counts
  BY DEF Collected
<1>1. /\ \A f \in Elements : f # e => task'[f] = task[f]
      /\ task'[e] = step
  BY <1>0 DEF BatchTypeOK
<1>2. BatchTypeOK'
  BY <1>0 DEF BatchTypeOK
<1>3. Due' = Due /\ OneEach'
  BY <1>0 DEF Due, OneEach
<1>4. AskedWait'
  <2>1. \A f \in Elements : Pending(f)' = Pending(f)
    BY <1>3 DEF Pending
  <2>2. \A f \in Elements : task'[f] = "asked" <=> task[f] = "asked"
    BY <1>1
  <2>. QED
    BY <1>0, <1>3, <2>1, <2>2 DEF AskedWait
<1>5. Rounds'
  BY <1>0, <1>1 DEF Rounds
<1>6. Active' = Active
  BY <1>1 DEF Active
<1>7. Counts'
  BY <1>0, <1>6 DEF Counts
<1>. QED
  BY <1>2, <1>3, <1>4, <1>5, <1>7 DEF Collected

(* An answer is read: the task has no other, nor a request.                  *)
LEMMA AnsweredStep ==
  ASSUME Collected, NEW e \in Elements, Answered(e)
  PROVE  Collected'
<1>0. BatchTypeOK /\ OneEach /\ AskedWait /\ Rounds /\ Counts
  BY DEF Collected
<1>u. /\ UNCHANGED <<running, requests, calls, asks, agentTurn, collector, round, left, group>>
      /\ task[e] = "asked" /\ answer[e] # 0
      /\ task' = [task EXCEPT ![e] = "running"]
      /\ answer' = [answer EXCEPT ![e] = 0]
  BY DEF Answered, turns, sending, Moves
<1>1. /\ \A f \in Elements : f # e => task'[f] = task[f] /\ answer'[f] = answer[f]
      /\ task'[e] = "running" /\ answer'[e] = 0
  BY <1>0, <1>u DEF BatchTypeOK
<1>2. /\ \A i \in DOMAIN requests : requests[i].by # e
      /\ \A j \in Due : round[j].by # e
  BY <1>0, <1>u DEF OneEach
<1>3. BatchTypeOK'
  BY <1>0, <1>u DEF BatchTypeOK
<1>t. /\ \A i \in DOMAIN requests : requests[i].by \in Elements
      /\ \A j \in Due : round[j].by \in Elements
  <2>1. \A i \in DOMAIN requests : requests[i] \in Requests
    BY <1>0 DEF BatchTypeOK
  <2>2. \A j \in DOMAIN round : round[j] \in Requests
    BY <1>0 DEF BatchTypeOK
  <2>3. Due \subseteq DOMAIN round
    BY <1>0 DEF BatchTypeOK, Due
  <2>. QED
    BY <2>1, <2>2, <2>3 DEF Requests
<1>4. Due' = Due
  BY <1>u DEF Due
<1>5. OneEach'
  BY <1>0, <1>u, <1>1, <1>2, <1>4, <1>t DEF OneEach
<1>6. AskedWait'
  <2>1. \A f \in Elements : task'[f] = "asked" <=> Pending(f)'
    <3>. SUFFICES ASSUME NEW f \in Elements PROVE task'[f] = "asked" <=> Pending(f)'
      OBVIOUS
    <3>1. CASE f = e
      BY <1>u, <1>1, <1>2, <1>4, <3>1 DEF Pending
    <3>2. CASE f # e
      BY <1>0, <1>u, <1>1, <1>4, <3>2 DEF Pending, AskedWait
    <3>. QED
      BY <3>1, <3>2
  <2>2. \A f \in Elements : answer'[f] \in {0, calls'[f]}
    BY <1>0, <1>u, <1>1 DEF AskedWait
  <2>. QED
    BY <1>0, <1>u, <1>4, <2>1, <2>2 DEF AskedWait
<1>7. Rounds'
  <2>1. collector # "grouping"
    BY <1>0, <1>u, <1>2 DEF Rounds, Due
  <2>. QED
    BY <1>0, <1>u, <2>1 DEF Rounds
<1>8. Active' = Active
  BY <1>u, <1>1 DEF Active
<1>9. Counts'
  BY <1>0, <1>u, <1>8 DEF Counts
<1>. QED
  BY <1>3, <1>5, <1>6, <1>7, <1>9 DEF Collected

(* A task that ends is counted no more (BatchRun::finished).                 *)
LEMMA FinishedStep ==
  ASSUME Collected, NEW e \in Elements, Finished(e)
  PROVE  Collected'
<1>0. BatchTypeOK /\ OneEach /\ AskedWait /\ Rounds /\ Counts
  BY DEF Collected
<1>u. /\ UNCHANGED <<requests, calls, answer, asks, agentTurn, collector, round, left, group>>
      /\ task[e] = "sent" /\ running' = running - 1
      /\ task' = [task EXCEPT ![e] = "done"]
  BY DEF Finished, turns, sending, Moves
<1>1. /\ \A f \in Elements : f # e => task'[f] = task[f]
      /\ task'[e] = "done"
  BY <1>0, <1>u DEF BatchTypeOK
<1>2. Due' = Due /\ OneEach'
  BY <1>0, <1>u DEF Due, OneEach
<1>3. AskedWait'
  <2>1. \A f \in Elements : Pending(f)' = Pending(f)
    BY <1>u, <1>2 DEF Pending
  <2>2. \A f \in Elements : task'[f] = "asked" <=> task[f] = "asked"
    BY <1>u, <1>1
  <2>. QED
    BY <1>0, <1>u, <1>2, <2>1, <2>2 DEF AskedWait
<1>4. Rounds'
  BY <1>0, <1>u, <1>1 DEF Rounds
<1>5. ~Pending(e)
  BY <1>0, <1>u DEF AskedWait
<1>6. e \in Active /\ Active' = Active \ {e}
  BY <1>u, <1>1, <1>5 DEF Active, Pending
<1>7. Counts' /\ running' \in Nat
  BY <1>0, <1>u, <1>6, OneLess
<1>8. BatchTypeOK'
  BY <1>0, <1>u, <1>7 DEF BatchTypeOK
<1>. QED
  BY <1>2, <1>3, <1>4, <1>7, <1>8 DEF Collected

------------------------------------------------------------------------------
(* The task of batch_map.                                                    *)

(* As many tasks as requests, when no task has two.                          *)
LEMMA OneTaskEach ==
  ASSUME NEW n \in Nat, NEW by, NEW T,
         \A i \in 1 .. n : by[i] \in T,
         \A i, j \in 1 .. n : by[i] = by[j] => i = j,
         \A t \in T : \E i \in 1 .. n : by[i] = t
  PROVE  Cardinality(T) = n
<1>. DEFINE f == [i \in 1 .. n |-> by[i]]
<1>1. f \in Injection(1 .. n, T)
  BY Fun_IsInj, Zenon
<1>2. f \in Bijection(1 .. n, T)
  BY Fun_IsBij, Zenon
<1>3. ExistsBijection(1 .. n, T)
  BY <1>2, Fun_ExistsBij, Zenon
<1>. QED
  BY <1>3, FS_CountingElements, Zenon

(* No task is counted: the requests queued become the round, and those who   *)
(* asked are counted again.                                                  *)
LEMMA RoundStep ==
  ASSUME Collected, Round
  PROVE  Collected'
<1>0. BatchTypeOK /\ OneEach /\ AskedWait /\ Rounds /\ Counts
  BY DEF Collected
<1>u. /\ UNCHANGED <<task, calls, answer, asks, agentTurn, group>>
      /\ collector = "waiting" /\ running = 0
      /\ round' = requests /\ left' = DOMAIN requests /\ requests' = <<>>
      /\ running' = running + Len(requests)
      /\ collector' = IF requests = <<>> THEN "collecting" ELSE "grouping"
  BY DEF Round, turns
<1>1. PICK n \in Nat : Len(requests) = n /\ DOMAIN requests = 1 .. n
  BY <1>0 DEF BatchTypeOK
<1>2. left = {} /\ group = {} /\ Due = {} /\ Due' = DOMAIN requests
  BY <1>0, <1>u DEF Rounds, Due
<1>3. DOMAIN requests' = {}
  BY <1>u
<1>4. Active = {}
  BY <1>0, <1>u, ActiveFinite, FS_EmptySet DEF Counts
<1>5. \A e \in Elements : task[e] = "done" \/ \E i \in DOMAIN requests : requests[i].by = e
  BY <1>4 DEF Active
<1>6. OneEach'
  BY <1>0, <1>u, <1>2, <1>3 DEF OneEach
<1>7. AskedWait'
  <2>1. \A e \in Elements : Pending(e)' <=> Pending(e)
    BY <1>u, <1>2, <1>3 DEF Pending
  <2>. QED
    BY <1>0, <1>u, <1>2, <1>3, <2>1 DEF AskedWait
<1>8. Rounds'
  <2>1. requests = <<>> => left' = {}
    BY <1>u
  <2>. QED
    BY <1>u, <1>2, <1>5, <2>1 DEF Rounds
<1>9. Cardinality(Active') = n
  <2>1. \A i \in 1 .. n : requests[i].by \in Elements /\ task[requests[i].by] = "asked"
    <3>. SUFFICES ASSUME NEW i \in 1 .. n
                  PROVE  requests[i].by \in Elements /\ task[requests[i].by] = "asked"
      OBVIOUS
    <3>1. requests[i] \in Requests
      BY <1>0, <1>1 DEF BatchTypeOK
    <3>2. requests[i].by \in Elements
      BY <3>1 DEF Requests
    <3>. QED
      BY <1>0, <1>1, <3>2 DEF AskedWait, Pending
  <2>2. Active' = {e \in Elements : task[e] # "done"}
    BY <1>u, <1>3 DEF Active
  <2>. DEFINE by == [i \in 1 .. n |-> requests[i].by]
  <2>3. \A i \in 1 .. n : by[i] = requests[i].by
    OBVIOUS
  <2>4. \A i \in 1 .. n : by[i] \in Active'
    BY <2>1, <2>2, <2>3
  <2>5. \A i, j \in 1 .. n : by[i] = by[j] => i = j
    BY <1>0, <1>1, <2>3 DEF OneEach
  <2>6. \A t \in Active' : \E i \in 1 .. n : by[i] = t
    BY <1>1, <1>5, <2>2, <2>3
  <2>. HIDE DEF by
  <2>. QED
    BY <2>4, <2>5, <2>6, OneTaskEach, Zenon
<1>10. running' = n /\ Counts'
  BY <1>u, <1>1, <1>9 DEF Counts
<1>11. BatchTypeOK'
  <2>1. <<>> \in Seq(Requests)
    OBVIOUS
  <2>. QED
    BY <1>0, <1>u, <1>2, <1>10, <2>1 DEF BatchTypeOK
<1>. QED
  BY <1>6, <1>7, <1>8, <1>10, <1>11 DEF Collected

(* Who asked is an element, whether queued or in the round.                  *)
LEMMA OfElements ==
  ASSUME BatchTypeOK
  PROVE  /\ \A i \in DOMAIN requests : requests[i].by \in Elements
         /\ \A j \in DOMAIN round : round[j].by \in Elements
         /\ Due \subseteq DOMAIN round /\ DOMAIN round \subseteq Nat
<1>1. /\ \A i \in DOMAIN requests : requests[i] \in Requests
      /\ \A j \in DOMAIN round : round[j] \in Requests
      /\ DOMAIN round \subseteq Nat
  BY DEF BatchTypeOK
<1>2. Due \subseteq DOMAIN round
  BY DEF BatchTypeOK, Due
<1>. QED
  BY <1>1, <1>2 DEF Requests

(* A round is dropped: every task of it has an answer, the end of its        *)
(* channel; or it is sent.                                                   *)
LEMMA GroupStep ==
  ASSUME Collected, Group
  PROVE  Collected'
<1>0. BatchTypeOK /\ OneEach /\ AskedWait /\ Rounds /\ Counts
  BY DEF Collected
<1>u. /\ UNCHANGED <<running, requests, task, calls, asks, agentTurn, group>>
      /\ collector = "grouping"
  BY DEF Group, turns
<1>g. group = {} /\ left = DOMAIN round /\ Due = DOMAIN round
  BY <1>0, <1>u DEF Rounds, Due
<1>c. Active' = Active /\ Counts'
  BY <1>0, <1>u DEF Active, Counts
<1>1. CASE collector' = "sending" /\ UNCHANGED <<answer, round, left>>
  <2>1. Due' = Due /\ OneEach'
    BY <1>0, <1>u, <1>1 DEF Due, OneEach
  <2>2. \A e \in Elements : Pending(e)' <=> Pending(e)
    BY <1>u, <1>1, <2>1 DEF Pending
  <2>3. AskedWait'
    BY <1>0, <1>u, <1>1, <2>1, <2>2 DEF AskedWait
  <2>4. Rounds'
    BY <1>1 DEF Rounds
  <2>5. BatchTypeOK'
    BY <1>0, <1>u, <1>1 DEF BatchTypeOK
  <2>. QED
    BY <1>c, <2>1, <2>3, <2>4, <2>5 DEF Collected
<1>2. CASE /\ collector' = "raised" /\ round' = <<>> /\ left' = {}
           /\ answer' = [e \in Elements |-> IF Has(round, e) THEN calls[e] ELSE answer[e]]
  <2>1. Due' = {}
    BY <1>u, <1>g, <1>2 DEF Due
  <2>2. \A e \in Elements : answer'[e] = IF \E j \in Due : round[j].by = e THEN calls[e]
                                         ELSE answer[e]
    BY <1>g, <1>2 DEF Has
  <2>3. OneEach'
    <3>1. \A i \in DOMAIN requests : answer'[requests[i].by] = 0
      BY <1>0, <2>2, OfElements DEF OneEach
    <3>. QED
      BY <1>0, <1>u, <1>2, <2>1, <3>1 DEF OneEach
  <2>4. AskedWait'
    <3>1. \A e \in Elements : Pending(e)' <=> Pending(e)
      <4>. SUFFICES ASSUME NEW e \in Elements PROVE Pending(e)' <=> Pending(e)
        OBVIOUS
      <4>1. CASE \E j \in Due : round[j].by = e
        <5>1. calls[e] # 0
          BY <1>0, <4>1 DEF AskedWait
        <5>. QED
          BY <2>2, <4>1, <5>1 DEF Pending
      <4>2. CASE ~\E j \in Due : round[j].by = e
        BY <1>u, <2>1, <2>2, <4>2 DEF Pending
      <4>. QED
        BY <4>1, <4>2
    <3>2. \A e \in Elements : answer'[e] \in {0, calls[e]}
      BY <1>0, <2>2 DEF AskedWait
    <3>. QED
      BY <1>0, <1>u, <2>1, <3>1, <3>2 DEF AskedWait
  <2>5. Rounds'
    BY <1>u, <1>g, <1>2 DEF Rounds
  <2>6. BatchTypeOK'
    <3>1. answer' \in [Elements -> Nat]
      BY <1>0, <1>2 DEF BatchTypeOK
    <3>2. <<>> \in Seq(Requests)
      OBVIOUS
    <3>. QED
      BY <1>0, <1>u, <1>g, <1>2, <3>1, <3>2 DEF BatchTypeOK
  <2>. QED
    BY <1>c, <2>3, <2>4, <2>5, <2>6 DEF Collected
<1>. QED
  BY <1>1, <1>2 DEF Group

(* A group leaves those not sent: its requests stay due.                     *)
LEMMA SendGroupStep ==
  ASSUME Collected, SendGroup
  PROVE  Collected'
<1>0. BatchTypeOK /\ OneEach /\ AskedWait /\ Rounds /\ Counts
  BY DEF Collected
<1>u. /\ UNCHANGED <<running, requests, task, calls, answer, asks, agentTurn, collector, round>>
      /\ collector = "sending" /\ group = {}
      /\ group' \subseteq left /\ left' = left \ group'
  BY DEF SendGroup, turns
<1>1. Due' = Due /\ left' \cap group' = {}
  BY <1>u DEF Due
<1>2. OneEach'
  BY <1>0, <1>u, <1>1 DEF OneEach
<1>3. \A e \in Elements : Pending(e)' <=> Pending(e)
  BY <1>u, <1>1 DEF Pending
<1>4. AskedWait'
  BY <1>0, <1>u, <1>1, <1>3 DEF AskedWait
<1>5. Rounds'
  BY <1>u DEF Rounds
<1>6. Counts'
  BY <1>0, <1>u DEF Counts, Active
<1>7. BatchTypeOK'
  BY <1>0, <1>u DEF BatchTypeOK
<1>. QED
  BY <1>2, <1>4, <1>5, <1>6, <1>7 DEF Collected

(* An answer takes the place of its request.                                 *)
LEMMA SendAnswerStep ==
  ASSUME Collected, SendAnswer
  PROVE  Collected'
<1>0. BatchTypeOK /\ OneEach /\ AskedWait /\ Rounds /\ Counts
  BY DEF Collected
<1>u. /\ UNCHANGED <<running, requests, task, calls, asks, agentTurn, collector, round, left>>
      /\ collector = "sending" /\ group # {}
  BY DEF SendAnswer, turns
<1>1. First(group) \in group
  <2>1. group \in SUBSET Nat
    BY <1>0, OfElements DEF Due
  <2>. QED
    BY <1>u, <2>1, FirstIs
<1>2. PICK k \in group :
        /\ answer' = [answer EXCEPT ![round[k].by] = round[k].number]
        /\ group' = group \ {k}
  BY <1>1 DEF SendAnswer
<1>3. PICK e \in Elements : e = round[k].by
  BY <1>0, <1>2, OfElements DEF Due
<1>4. k \in Due /\ round[k].number = calls[e] /\ calls[e] # 0 /\ calls[e] \in Nat
  BY <1>0, <1>3 DEF AskedWait, Due, BatchTypeOK
<1>5. /\ answer'[e] = calls[e]
      /\ \A f \in Elements : f # e => answer'[f] = answer[f]
  BY <1>0, <1>2, <1>3, <1>4 DEF BatchTypeOK
<1>6. Due' = Due \ {k}
  BY <1>0, <1>u, <1>2 DEF Due, OneEach
<1>7. /\ \A j \in Due' : round[j].by # e
      /\ \A i \in DOMAIN requests : requests[i].by # e
  BY <1>0, <1>3, <1>4, <1>6 DEF OneEach
<1>8. OneEach'
  <2>1. \A i \in DOMAIN requests : answer'[requests[i].by] = 0
    BY <1>0, <1>5, <1>7, OfElements DEF OneEach
  <2>2. \A j \in Due' : answer'[round[j].by] = 0
    BY <1>0, <1>5, <1>6, <1>7, OfElements DEF OneEach
  <2>3. left' \cap group' = {}
    BY <1>0, <1>u, <1>2 DEF OneEach
  <2>. QED
    BY <1>0, <1>u, <1>6, <2>1, <2>2, <2>3 DEF OneEach
<1>9. AskedWait'
  <2>1. \A f \in Elements : Pending(f)' <=> Pending(f)
    <3>. SUFFICES ASSUME NEW f \in Elements PROVE Pending(f)' <=> Pending(f)
      OBVIOUS
    <3>1. CASE f = e
      BY <1>3, <1>4, <1>5, <3>1 DEF Pending
    <3>2. CASE f # e
      <4>1. (\E j \in Due' : round[j].by = f) <=> \E j \in Due : round[j].by = f
        BY <1>3, <1>6, <3>2
      <4>. QED
        BY <1>u, <1>5, <3>2, <4>1 DEF Pending
    <3>. QED
      BY <3>1, <3>2
  <2>2. \A f \in Elements : answer'[f] \in {0, calls[f]}
    BY <1>0, <1>5 DEF AskedWait
  <2>. QED
    BY <1>0, <1>u, <1>6, <2>1, <2>2 DEF AskedWait
<1>10. Rounds'
  BY <1>0, <1>u DEF Rounds
<1>11. Counts'
  BY <1>0, <1>u DEF Counts, Active
<1>12. BatchTypeOK'
  <2>1. answer' \in [Elements -> Nat]
    BY <1>0, <1>2, <1>3, <1>4 DEF BatchTypeOK
  <2>. QED
    BY <1>0, <1>u, <1>2, <2>1 DEF BatchTypeOK
<1>. QED
  BY <1>8, <1>9, <1>10, <1>11, <1>12 DEF Collected

(* The round is over, or batch_map: nothing is due.                          *)
LEMMA CollectorStays ==
  ASSUME Collected, left = {}, group = {},
         collector' \in {"waiting", "over"}, round' \in {<<>>, round},
         UNCHANGED <<running, requests, task, calls, answer, asks, agentTurn, left, group>>
  PROVE  Collected'
<1>0. BatchTypeOK /\ OneEach /\ AskedWait /\ Rounds /\ Counts
  BY DEF Collected
<1>1. Due = {} /\ Due' = {}
  BY DEF Due
<1>2. OneEach'
  BY <1>0, <1>1 DEF OneEach
<1>3. \A e \in Elements : Pending(e)' <=> Pending(e)
  BY <1>1 DEF Pending
<1>4. AskedWait'
  BY <1>0, <1>1, <1>3 DEF AskedWait
<1>5. Rounds'
  BY DEF Rounds
<1>6. Counts'
  BY <1>0 DEF Counts, Active
<1>7. BatchTypeOK'
  <2>1. <<>> \in Seq(Requests)
    OBVIOUS
  <2>. QED
    BY <1>0, <2>1 DEF BatchTypeOK
<1>. QED
  BY <1>2, <1>4, <1>5, <1>6, <1>7 DEF Collected

------------------------------------------------------------------------------
(* The steps together.                                                       *)

LEMMA CollectedInitially == BatchInit => Collected
<1>. SUFFICES ASSUME BatchInit PROVE Collected
  OBVIOUS
<1>u. /\ running = Cardinality(Elements) /\ requests = <<>>
      /\ task = [e \in Elements |-> "running"]
      /\ calls = [e \in Elements |-> 0] /\ asks = [e \in Elements |-> 0]
      /\ answer = [e \in Elements |-> 0]
      /\ agentTurn = NoElement
      /\ collector = "waiting" /\ round = <<>> /\ left = {} /\ group = {}
  BY DEF BatchInit
<1>1. DOMAIN requests = {} /\ Due = {} /\ <<>> \in Seq(Requests)
  BY <1>u DEF Due
<1>2. Active = Elements
  BY <1>u, <1>1 DEF Active
<1>3. running \in Nat
  BY <1>u, BatchAssumption, FS_CardinalityType
<1>4. BatchTypeOK
  BY <1>u, <1>1, <1>3 DEF BatchTypeOK
<1>5. OneEach
  BY <1>u, <1>1 DEF OneEach
<1>6. AskedWait
  BY <1>u, <1>1 DEF AskedWait, Pending
<1>7. Rounds /\ Counts
  BY <1>u, <1>2 DEF Rounds, Counts
<1>. QED
  BY <1>4, <1>5, <1>6, <1>7 DEF Collected

LEMMA CollectedStep == Collected /\ [BatchNext]_batchVars => Collected'
<1>. SUFFICES ASSUME Collected, [BatchNext]_batchVars PROVE Collected'
  OBVIOUS
<1>0. BatchTypeOK /\ Rounds
  BY DEF Collected
<1>1. ASSUME NEW e \in Elements, CallModel(e) PROVE Collected'
  BY <1>1, CallStep1
<1>2. ASSUME NEW e \in Elements, Answered(e) PROVE Collected'
  BY <1>2, AnsweredStep
<1>3. ASSUME NEW e \in Elements, SendResult(e) PROVE Collected'
  <2>1. /\ task[e] \in {"running", "turn"} /\ task' = [task EXCEPT ![e] = "sent"]
        /\ UNCHANGED <<running, requests, calls, answer, collector, round, left, group>>
        /\ asks' \in [Elements -> Nat] /\ agentTurn' \in Elements \cup {NoElement}
    BY <1>0, <1>3 DEF SendResult, Moves, turns, sending, BatchTypeOK
  <2>. QED
    BY <2>1, BlockMoves
<1>4. ASSUME NEW e \in Elements, Finished(e) PROVE Collected'
  BY <1>4, FinishedStep
<1>5. ASSUME NEW e \in Elements, WantTurn(e) PROVE Collected'
  <2>1. /\ task[e] \in {"running", "turn"} /\ task' = [task EXCEPT ![e] = "turn"]
        /\ UNCHANGED <<running, requests, calls, answer, collector, round, left, group>>
        /\ asks' \in [Elements -> Nat] /\ agentTurn' \in Elements \cup {NoElement}
    BY <1>0, <1>5 DEF WantTurn, Moves, turns, sending, BatchTypeOK
  <2>. QED
    BY <2>1, BlockMoves
<1>6. ASSUME NEW e \in Elements, TakeAgent(e) PROVE Collected'
  <2>1. /\ task[e] \in {"running", "turn"} /\ task' = [task EXCEPT ![e] = "running"]
        /\ UNCHANGED <<running, requests, calls, answer, collector, round, left, group>>
        /\ asks' \in [Elements -> Nat] /\ agentTurn' \in Elements \cup {NoElement}
    BY <1>0, <1>6 DEF TakeAgent, Moves, turns, sending, BatchTypeOK
  <2>. QED
    BY <2>1, BlockMoves
<1>7. ASSUME NEW e \in Elements, LeaveAgent(e) PROVE Collected'
  <2>1. /\ task[e] \in {"running", "turn"} /\ task' = [task EXCEPT ![e] = "running"]
        /\ UNCHANGED <<running, requests, calls, answer, collector, round, left, group>>
        /\ asks' \in [Elements -> Nat] /\ agentTurn' \in Elements \cup {NoElement}
    BY <1>0, <1>7 DEF LeaveAgent, turns, sending, BatchTypeOK
  <2>. QED
    BY <2>1, BlockMoves
<1>8. CASE Round
  BY <1>8, RoundStep
<1>9. CASE Group
  BY <1>9, GroupStep
<1>10. CASE SendGroup
  BY <1>10, SendGroupStep
<1>11. CASE SendAnswer
  BY <1>11, SendAnswerStep
<1>12. CASE RoundOver
  BY <1>12, CollectorStays DEF RoundOver, turns
<1>13. CASE Collect
  <2>1. left = {} /\ group = {}
    BY <1>0, <1>13 DEF Collect, Rounds
  <2>. QED
    BY <1>13, <2>1, CollectorStays DEF Collect, turns
<1>14. CASE UNCHANGED batchVars
  <2>1. UNCHANGED <<running, requests, task, calls, asks, answer, agentTurn, collector,
                    round, left, group>>
    BY <1>14 DEF batchVars
  <2>2. Due' = Due /\ Active' = Active
    BY <2>1 DEF Due, Active
  <2>3. \A e \in Elements : Pending(e)' <=> Pending(e)
    BY <2>1, <2>2 DEF Pending
  <2>4. BatchTypeOK' /\ OneEach'
    BY <2>1, <2>2 DEF Collected, BatchTypeOK, OneEach
  <2>5. AskedWait' /\ Rounds' /\ Counts'
    BY <2>1, <2>2, <2>3 DEF Collected, AskedWait, Rounds, Counts
  <2>. QED
    BY <2>4, <2>5 DEF Collected
<1>. QED
  BY <1>1, <1>2, <1>3, <1>4, <1>5, <1>6, <1>7, <1>8, <1>9, <1>10, <1>11, <1>12, <1>13, <1>14
  DEF BatchNext, CollectorStep

LEMMA CollectedAlways == BatchSpec => []Collected
BY CollectedInitially, CollectedStep, PTL DEF BatchSpec

(* Who asked has its request in one place.                                   *)
LEMMA OneRequestEach == ASSUME Collected PROVE OneRequest
<1>0. BatchTypeOK /\ OneEach /\ AskedWait
  BY DEF Collected
<1>. SUFFICES ASSUME NEW e \in Elements
              PROVE  IF task[e] = "asked" THEN \E place \in Places(e) : Places(e) = {place}
                     ELSE Places(e) = {}
  BY DEF OneRequest
<1>1. \A place : place \in Places(e) <=>
        \/ \E i \in DOMAIN requests : requests[i].by = e /\ place = <<"queued", i>>
        \/ \E i \in left : round[i].by = e /\ place = <<"round", i>>
        \/ \E i \in group : round[i].by = e /\ place = <<"group", i>>
        \/ answer[e] = calls[e] /\ answer[e] # 0 /\ place = <<"answer", 0>>
  BY DEF Places
<1>2. CASE task[e] # "asked"
  <2>1. ~Pending(e)
    BY <1>0, <1>2 DEF AskedWait
  <2>2. \A place : place \notin Places(e)
    BY <1>1, <2>1 DEF Pending, Due
  <2>. QED
    BY <1>2, <2>2
<1>3. CASE task[e] = "asked"
  <2>1. Pending(e)
    BY <1>0, <1>3 DEF AskedWait
  <2>2. CASE \E i \in DOMAIN requests : requests[i].by = e
    <3>1. PICK i \in DOMAIN requests : requests[i].by = e
      BY <2>2
    <3>2. /\ \A k \in DOMAIN requests : requests[k].by = e => k = i
          /\ \A k \in left \cup group : round[k].by # e
          /\ answer[e] = 0
      BY <1>0, <3>1 DEF OneEach, Due
    <3>3. <<"queued", i>> \in Places(e)
      BY <1>1, <3>1, <3>2
    <3>4. ASSUME NEW place \in Places(e) PROVE place = <<"queued", i>>
      BY <1>1, <3>1, <3>2
    <3>. QED
      BY <1>3, <3>3, <3>4
  <2>3. CASE \E i \in left : round[i].by = e
    <3>1. PICK i \in left : round[i].by = e
      BY <2>3
    <3>2. /\ \A k \in DOMAIN requests : requests[k].by # e
          /\ \A k \in left : round[k].by = e => k = i
          /\ \A k \in group : round[k].by # e
          /\ answer[e] = 0
      BY <1>0, <3>1 DEF OneEach, Due
    <3>3. <<"round", i>> \in Places(e)
      BY <1>1, <3>1, <3>2
    <3>4. ASSUME NEW place \in Places(e) PROVE place = <<"round", i>>
      BY <1>1, <3>1, <3>2
    <3>. QED
      BY <1>3, <3>3, <3>4
  <2>4. CASE \E i \in group : round[i].by = e
    <3>1. PICK i \in group : round[i].by = e
      BY <2>4
    <3>2. /\ \A k \in DOMAIN requests : requests[k].by # e
          /\ \A k \in group : round[k].by = e => k = i
          /\ \A k \in left : round[k].by # e
          /\ answer[e] = 0
      BY <1>0, <3>1 DEF OneEach, Due
    <3>3. <<"group", i>> \in Places(e)
      BY <1>1, <3>1, <3>2
    <3>4. ASSUME NEW place \in Places(e) PROVE place = <<"group", i>>
      BY <1>1, <3>1, <3>2
    <3>. QED
      BY <1>3, <3>3, <3>4
  <2>5. CASE answer[e] # 0
    <3>1. answer[e] = calls[e]
      BY <1>0, <2>5 DEF AskedWait
    <3>2. /\ \A k \in DOMAIN requests : requests[k].by # e
          /\ \A k \in left \cup group : round[k].by # e
      BY <1>0, <2>5 DEF OneEach, Due
    <3>3. <<"answer", 0>> \in Places(e)
      BY <1>1, <2>5, <3>1, <3>2
    <3>4. ASSUME NEW place \in Places(e) PROVE place = <<"answer", 0>>
      BY <1>1, <2>5, <3>1, <3>2
    <3>. QED
      BY <1>3, <3>3, <3>4
  <2>. QED
    BY <2>1, <2>2, <2>3, <2>4, <2>5 DEF Pending, Due
<1>. QED
  BY <1>2, <1>3

(* A task that waits has its request in one place, or the one answer to it;  *)
(* while requests are taken and grouped every task waits with one of them or *)
(* is done (batch.rs).                                                       *)
THEOREM RoundsWholeHolds == BatchSpec => []RoundsWhole
<1>1. Collected => RoundsWhole
  <2>. SUFFICES ASSUME Collected PROVE RoundsWhole
    OBVIOUS
  <2>0. BatchTypeOK /\ AskedWait /\ Rounds
    BY DEF Collected
  <2>1. OneRequest
    BY OneRequestEach
  <2>2. ASSUME collector = "grouping", NEW e \in Elements
        PROVE  task[e] = "done" \/ (task[e] = "asked" /\ Has(round, e))
    <3>1. DOMAIN round = left
      BY <2>0, <2>2 DEF Rounds
    <3>2. (\E j \in DOMAIN round : round[j].by = e) => Pending(e)
      BY <3>1 DEF Pending, Due
    <3>. QED
      BY <2>0, <2>2, <3>2 DEF Rounds, AskedWait, Has
  <2>. QED
    BY <2>1, <2>2 DEF RoundsWhole
<1>. QED
  BY <1>1, CollectedAlways, PTL

(* The variables of batch_map keep their types: the count of the tasks that  *)
(* run never goes below none (BatchRun).                                     *)
THEOREM BatchTypeCorrect == BatchSpec => []BatchTypeOK
<1>1. Collected => BatchTypeOK
  BY DEF Collected
<1>. QED
  BY <1>1, CollectedAlways, PTL

------------------------------------------------------------------------------
(* Bridge: a call of a foreign bridge is run once, and not when it is over.  *)

(* Of the types, those that the argument needs.                              *)
BridgeTyping ==
    /\ request \in [BridgeCalls -> {"idle", "locking", "looking", "writing", "answering",
                                 "failed", "returned", "raised"}]
    /\ holder \in BridgeCalls \cup {NoCall}
    /\ failure \in {"none", "not delivered", "exited", "timed out"}
    /\ reported \in {"none", "yes", "no"}
    /\ reply \in BridgeCalls \cup {NoCall}
    /\ line \in BridgeCalls \cup {NoCall} /\ handling \in BridgeCalls \cup {NoCall}
    /\ ran \in [BridgeCalls -> Nat]

BridgeSteps == {"looking", "writing", "answering", "failed"}

(* The bridge works for one call, the holder of its lock.                    *)
Held == \A c \in BridgeCalls : request[c] \in BridgeSteps <=> holder = c

(* The line, the function running and the response are of that call, and of  *)
(* this sending of it: none before the line is written, one at most then.    *)
Unwritten ==
    holder # NoCall =>
        \/ request[holder] = "looking"
        \/ request[holder] = "writing" /\ reported # "yes"
        \/ request[holder] = "failed" /\ failure = "not delivered"

OfHolder ==
    /\ line # NoCall => holder = line /\ handling = NoCall /\ reply = NoCall
    /\ handling # NoCall => holder = handling /\ reply = NoCall
    /\ reply # NoCall => holder = reply
    /\ Unwritten \/ holder = NoCall => line = NoCall /\ handling = NoCall /\ reply = NoCall

(* What is reported is reported of the line being written.                   *)
Reports ==
    /\ reported = "yes" => holder # NoCall /\ request[holder] = "writing"
    /\ reported = "no" =>
          /\ holder # NoCall
          /\ \/ request[holder] = "writing"
             \/ request[holder] = "failed" /\ failure = "not delivered"
    /\ holder # NoCall /\ request[holder] = "failed" => failure # "none"

(* How often a call was run before this sending of it.                       *)
Before(c) == IF c \in Pure /\ restarted THEN 1 ELSE 0
Most(c)   == IF c \in Pure THEN 2 ELSE 1

Counted(c) ==
    /\ request[c] \in {"idle", "locking"} => ran[c] = 0
    /\ holder = c => ran[c] <= Before(c) + 1
    /\ holder = c /\ (Unwritten \/ line = c) => ran[c] <= Before(c)
    /\ handling = c \/ reply = c \/ request[c] = "returned" => ran[c] >= 1
    /\ ran[c] <= Most(c)

BridgeInv == /\ BridgeTyping /\ Held /\ OfHolder /\ Reports
        /\ \A c \in BridgeCalls : Counted(c)

(* The initial states.                                                       *)
LEMMA BridgeInvInitially == BridgeInit => BridgeInv
<1>. SUFFICES ASSUME BridgeInit PROVE BridgeInv
  OBVIOUS
<1>1. BridgeTyping
  BY DEF BridgeInit, BridgeTyping
<1>2. Held
  BY BridgeAssumption DEF BridgeInit, Held, BridgeSteps
<1>3. OfHolder /\ Reports
  BY DEF BridgeInit, OfHolder, Reports
<1>4. ASSUME NEW c \in BridgeCalls PROVE Counted(c)
  BY BridgeAssumption DEF BridgeInit, Counted, Before, Most
<1>. QED
  BY <1>1, <1>2, <1>3, <1>4 DEF BridgeInv

(* The writing thread, but for the server's ends of the pipes.               *)
LEMMA WriteDoes ==
  Write =>
     /\ holder # NoCall /\ request[holder] = "writing" /\ reported = "none"
     /\ \/ reported' = "yes" /\ line' \in {holder, NoCall}
        \/ reported' = "no" /\ line' = line
     /\ UNCHANGED <<request, holder, restarted, failure, reply, handling, ran>>
  BY DEF Write

(* The server, but for its ends of the pipes.                                *)
LEMMA HandleDoes ==
  Handle =>
     /\ line # NoCall /\ handling = NoCall
     /\ handling' = line /\ line' = NoCall
     /\ ran' = [ran EXCEPT ![line] = ran[line] + 1]
     /\ UNCHANGED <<request, holder, restarted, failure, reported, reply>>
  BY DEF Handle, channels

(* The steps keep the types.                                                 *)
LEMMA BridgeTypeStep == BridgeTyping /\ [BridgeNext]_bridgeVars => BridgeTyping'
<1>. SUFFICES ASSUME BridgeTyping, [BridgeNext]_bridgeVars PROVE BridgeTyping'
  OBVIOUS
<1>1. ASSUME NEW c \in BridgeCalls, AskBridge(c) \/ CallStep(c) PROVE BridgeTyping'
  BY <1>1
  DEF CallStep, AskBridge, LockBridge, Reuse, Clear, StartServer, CannotStart, Written,
      NotDelivered, Received, Exited, TimedOut, Retreat, GiveUpOrRetry, Fails, Ends, Goes,
      KillGroup, BridgeTyping, channels, ends, working
<1>2. CASE Write
  <2>1. line' \in BridgeCalls \cup {NoCall} /\ reported' \in {"none", "yes", "no"}
    BY <1>2, WriteDoes DEF BridgeTyping
  <2>2. UNCHANGED <<request, holder, failure, reply, handling, ran>>
    BY <1>2, WriteDoes
  <2>. QED
    BY <2>1, <2>2 DEF BridgeTyping
<1>3. CASE Handle
  <2>0. /\ line # NoCall /\ handling' = line /\ line' = NoCall
        /\ ran' = [ran EXCEPT ![line] = ran[line] + 1]
    BY <1>3, HandleDoes
  <2>1. line \in BridgeCalls /\ ran \in [BridgeCalls -> Nat]
    BY <2>0 DEF BridgeTyping
  <2>2. ran' \in [BridgeCalls -> Nat]
    BY <2>0, <2>1
  <2>3. UNCHANGED <<request, holder, failure, reported, reply>>
    BY <1>3, HandleDoes
  <2>. QED
    BY <2>0, <2>1, <2>2, <2>3 DEF BridgeTyping
<1>4. CASE Respond
  BY <1>4 DEF Respond, BridgeTyping, ends
<1>5. CASE Falter
  BY <1>5 DEF Falter, BridgeTyping, channels
<1>6. CASE UNCHANGED bridgeVars
  BY <1>6 DEF BridgeTyping, bridgeVars, channels, ends, working
<1>. QED
  BY <1>1, <1>2, <1>3, <1>4, <1>5, <1>6 DEF BridgeNext

------------------------------------------------------------------------------
(* The steps of the threads and the server.                                  *)
LEMMA ServerStep ==
  ASSUME BridgeInv, Write \/ Handle \/ Respond \/ Falter
  PROVE  Held' /\ OfHolder' /\ Reports' /\ \A c \in BridgeCalls : Counted(c)'
<1>1. CASE Write
  <2>. USE <1>1, WriteDoes DEF BridgeInv
  <2>1. Held'
    BY DEF Held
  <2>2. OfHolder'
    BY DEF OfHolder, Unwritten
  <2>3. Reports'
    BY DEF Reports
  <2>4. ASSUME NEW c \in BridgeCalls PROVE Counted(c)'
    <3>1. Before(c)' = Before(c) /\ Most(c)' = Most(c) /\ Counted(c)
      BY DEF Before, Most
    <3>2. ran[c] \in Nat /\ Before(c) \in Nat
      BY DEF BridgeTyping, Before
    <3>. QED
      BY <3>1, <3>2 DEF Counted, Unwritten, OfHolder
  <2>. QED
    BY <2>1, <2>2, <2>3, <2>4
<1>2. CASE Handle
  <2>0. /\ line # NoCall /\ handling = NoCall
        /\ handling' = line /\ line' = NoCall
        /\ ran' = [ran EXCEPT ![line] = ran[line] + 1]
        /\ UNCHANGED <<request, holder, restarted, failure, reported, reply>>
    BY <1>2, HandleDoes
  <2>. USE <2>0 DEF BridgeInv
  <2>1. Held'
    BY DEF Held
  <2>2. OfHolder'
    BY DEF OfHolder, Unwritten
  <2>3. Reports'
    BY DEF Reports
  <2>4. ASSUME NEW c \in BridgeCalls PROVE Counted(c)'
    <3>1. Before(c)' = Before(c) /\ Most(c)' = Most(c) /\ Counted(c)
      BY DEF Before, Most
    <3>2. ran[c] \in Nat /\ Before(c) \in Nat
      BY DEF BridgeTyping, Before
    <3>3. line \in BridgeCalls /\ ran[line] \in Nat /\ holder = line
      BY DEF BridgeTyping, OfHolder
    <3>4. request[line] \in BridgeSteps /\ ~Unwritten
      BY <3>3 DEF Held, OfHolder
    <3>5. ran'[c] = IF c = line THEN ran[c] + 1 ELSE ran[c]
      BY <3>3 DEF BridgeTyping
    <3>6. Unwritten' = Unwritten
      BY DEF Unwritten
    <3>. QED
      <4>1. CASE c = line
        <5>1. ran[c] <= Before(c)
          BY <3>1, <4>1, <3>3 DEF Counted
        <5>2. ran'[c] = ran[c] + 1 /\ ran'[c] <= Before(c) + 1 /\ ran'[c] >= 1
          BY <5>1, <4>1, <3>2, <3>5
        <5>3. Before(c) + 1 <= Most(c)
          BY DEF Before, Most
        <5>4. ran'[c] <= Most(c)
          BY <5>1, <5>2, <5>3, <3>2 DEF Most
        <5>5. request[c] \notin {"idle", "locking"}
          BY <3>4, <4>1 DEF BridgeSteps
        <5>. QED
          BY <3>1, <3>4, <3>6, <4>1, <5>2, <5>4, <5>5, BridgeAssumption DEF Counted
      <4>2. CASE c # line
        BY <3>1, <3>3, <3>5, <4>2, BridgeAssumption DEF Counted, OfHolder
      <4>. QED
        BY <4>1, <4>2
  <2>. QED
    BY <2>1, <2>2, <2>3, <2>4
<1>3. CASE Respond
  <2>0. /\ handling # NoCall /\ reply' \in {handling, NoCall} /\ handling' = NoCall
        /\ UNCHANGED <<request, holder, restarted, failure, reported, line, ran>>
    BY <1>3 DEF Respond
  <2>. USE <2>0 DEF BridgeInv
  <2>1. Held'
    BY DEF Held
  <2>2. OfHolder'
    BY DEF OfHolder, Unwritten
  <2>3. Reports'
    BY DEF Reports
  <2>4. ASSUME NEW c \in BridgeCalls PROVE Counted(c)'
    <3>1. Before(c)' = Before(c) /\ Most(c)' = Most(c) /\ Counted(c)
      BY DEF Before, Most
    <3>2. ran[c] \in Nat /\ Before(c) \in Nat
      BY DEF BridgeTyping, Before
    <3>. QED
      BY <3>1, <3>2 DEF Counted, Unwritten, OfHolder
  <2>. QED
    BY <2>1, <2>2, <2>3, <2>4
<1>4. CASE Falter
  <2>0. /\ line' \in {line, NoCall} /\ handling' \in {handling, NoCall}
        /\ UNCHANGED <<request, holder, restarted, failure, reported, reply, ran>>
    BY <1>4 DEF Falter, channels
  <2>. USE <2>0 DEF BridgeInv
  <2>1. Held'
    BY DEF Held
  <2>2. OfHolder'
    BY DEF OfHolder, Unwritten
  <2>3. Reports'
    BY DEF Reports
  <2>4. ASSUME NEW c \in BridgeCalls PROVE Counted(c)'
    <3>1. Before(c)' = Before(c) /\ Most(c)' = Most(c) /\ Counted(c)
      BY DEF Before, Most
    <3>2. ran[c] \in Nat /\ Before(c) \in Nat
      BY DEF BridgeTyping, Before
    <3>. QED
      BY <3>1, <3>2, BridgeAssumption DEF Counted, Unwritten
  <2>. QED
    BY <2>1, <2>2, <2>3, <2>4
<1>. QED
  BY <1>1, <1>2, <1>3, <1>4

------------------------------------------------------------------------------
(* The steps of a call.                                                      *)
LEMMA Went ==
  ASSUME BridgeTyping, NEW c \in BridgeCalls, NEW step, Goes(c, step)
  PROVE  \A d \in BridgeCalls : request'[d] = IF d = c THEN step ELSE request[d]
  BY DEF BridgeTyping, Goes

(* Whose step it is.                                                         *)
LEMMA Holds ==
  ASSUME BridgeInv, NEW c \in BridgeCalls
  PROVE  /\ request[c] \in BridgeSteps => holder = c
         /\ request[c] = "looking" => line = NoCall /\ handling = NoCall /\ reply = NoCall
         /\ \A d \in BridgeCalls : ran[d] \in Nat /\ Before(d) \in {0, 1}
  BY BridgeAssumption DEF BridgeInv, Held, OfHolder, Unwritten, Before, BridgeTyping, BridgeSteps

(* A call is asked.                                                          *)
LEMMA AskStep ==
  ASSUME BridgeInv, NEW c \in BridgeCalls, AskBridge(c)
  PROVE  Held' /\ OfHolder' /\ Reports' /\ \A d \in BridgeCalls : Counted(d)'
<1>1. /\ request[c] = "idle"
      /\ \A d \in BridgeCalls : request'[d] = IF d = c THEN "locking" ELSE request[d]
      /\ UNCHANGED <<holder, restarted, failure, reported, reply, line, handling, ran>>
  BY Went DEF AskBridge, channels, working, BridgeInv
<1>2. holder # c /\ (holder # NoCall => request'[holder] = request[holder])
  BY <1>1 DEF BridgeInv, Held, BridgeSteps, BridgeTyping
<1>3. Held'
  BY <1>1, <1>2, Holds, BridgeAssumption DEF BridgeInv, Held, BridgeSteps
<1>4. OfHolder'
  BY <1>1, <1>2, Holds, BridgeAssumption DEF BridgeInv, OfHolder, Unwritten, BridgeSteps
<1>5. Reports'
  BY <1>1, <1>2, Holds, BridgeAssumption DEF BridgeInv, Reports, BridgeSteps
<1>6. ASSUME NEW d \in BridgeCalls PROVE Counted(d)'
  BY <1>1, <1>2, Holds, BridgeAssumption DEF BridgeInv, Counted, Unwritten, Before, Most, BridgeSteps, OfHolder
<1>. QED
  BY <1>3, <1>4, <1>5, <1>6

(* The lock is taken.                                                        *)
LEMMA LockStep ==
  ASSUME BridgeInv, NEW c \in BridgeCalls, LockBridge(c)
  PROVE  Held' /\ OfHolder' /\ Reports' /\ \A d \in BridgeCalls : Counted(d)'
<1>1. /\ request[c] = "locking" /\ holder = NoCall
      /\ holder' = c /\ restarted' = FALSE
      /\ \A d \in BridgeCalls : request'[d] = IF d = c THEN "looking" ELSE request[d]
      /\ UNCHANGED <<reported, reply, line, handling, ran>>
  BY Went DEF LockBridge, channels, working, BridgeInv
<1>2. Held'
  BY <1>1, Holds, BridgeAssumption DEF BridgeInv, Held, BridgeSteps
<1>3. OfHolder'
  BY <1>1, Holds, BridgeAssumption DEF BridgeInv, OfHolder, Unwritten, BridgeSteps
<1>4. Reports'
  BY <1>1, Holds, BridgeAssumption DEF BridgeInv, Reports, BridgeSteps
<1>5. ASSUME NEW d \in BridgeCalls PROVE Counted(d)'
  <2>1. Counted(d) /\ (d = c => ran[d] = 0)
    BY <1>1 DEF BridgeInv, Counted
  <2>2. ran'[d] = ran[d] /\ ran[d] \in Nat
    BY <1>1 DEF BridgeInv, BridgeTyping
  <2>3. Before(c)' = 0
    BY <1>1 DEF Before
  <2>4. line' # d /\ handling' # d /\ reply' # d
    BY <1>1, BridgeAssumption DEF BridgeInv, OfHolder
  <2>. QED
    BY <1>1, <2>1, <2>2, <2>3, <2>4 DEF Counted, Most
<1>. QED
  BY <1>2, <1>3, <1>4, <1>5

(* There is a server to write to.                                            *)
LEMMA WritingStep ==
  ASSUME BridgeInv, NEW c \in BridgeCalls, Reuse(c) \/ StartServer(c)
  PROVE  Held' /\ OfHolder' /\ Reports' /\ \A d \in BridgeCalls : Counted(d)'
<1>1. /\ request[c] = "looking"
      /\ \A d \in BridgeCalls : request'[d] = IF d = c THEN "writing" ELSE request[d]
      /\ UNCHANGED <<holder, restarted, failure, reported, reply, line, handling, ran>>
  BY Went DEF Reuse, StartServer, channels, working, BridgeInv
<1>2. Held'
  BY <1>1, Holds, BridgeAssumption DEF BridgeInv, Held, BridgeSteps
<1>3. OfHolder'
  BY <1>1, Holds, BridgeAssumption DEF BridgeInv, OfHolder, Unwritten, BridgeSteps
<1>4. Reports'
  BY <1>1, Holds, BridgeAssumption DEF BridgeInv, Reports, BridgeSteps
<1>5. ASSUME NEW d \in BridgeCalls PROVE Counted(d)'
  BY <1>1, Holds, BridgeAssumption DEF BridgeInv, Counted, Unwritten, Before, Most, BridgeSteps, OfHolder
<1>. QED
  BY <1>2, <1>3, <1>4, <1>5

(* The server that died is cleared.                                          *)
LEMMA ClearStep ==
  ASSUME BridgeInv, NEW c \in BridgeCalls, Clear(c)
  PROVE  Held' /\ OfHolder' /\ Reports' /\ \A d \in BridgeCalls : Counted(d)'
<1>1. /\ request[c] = "looking"
      /\ reported' = "none" /\ reply' = NoCall /\ line' = NoCall /\ handling' = NoCall
      /\ UNCHANGED <<request, holder, restarted, failure, ran>>
  BY DEF Clear, KillGroup
<1>2. Held'
  BY <1>1, Holds, BridgeAssumption DEF BridgeInv, Held, BridgeSteps
<1>3. OfHolder'
  BY <1>1, Holds, BridgeAssumption DEF BridgeInv, OfHolder, Unwritten, BridgeSteps
<1>4. Reports'
  BY <1>1, Holds, BridgeAssumption DEF BridgeInv, Reports, BridgeSteps
<1>5. ASSUME NEW d \in BridgeCalls PROVE Counted(d)'
  BY <1>1, Holds, BridgeAssumption DEF BridgeInv, Counted, Unwritten, Before, Most, BridgeSteps, OfHolder
<1>. QED
  BY <1>2, <1>3, <1>4, <1>5

(* No server starts.                                                         *)
LEMMA CannotStartStep ==
  ASSUME BridgeInv, NEW c \in BridgeCalls, CannotStart(c)
  PROVE  Held' /\ OfHolder' /\ Reports' /\ \A d \in BridgeCalls : Counted(d)'
<1>1. /\ request[c] = "looking" /\ holder' = NoCall
      /\ \A d \in BridgeCalls : request'[d] = IF d = c THEN "raised" ELSE request[d]
      /\ UNCHANGED <<restarted, failure, reported, reply, line, handling, ran>>
  BY Went DEF CannotStart, Ends, channels, working, BridgeInv
<1>2. Held'
  BY <1>1, Holds, BridgeAssumption DEF BridgeInv, Held, BridgeSteps
<1>3. OfHolder'
  BY <1>1, Holds, BridgeAssumption DEF BridgeInv, OfHolder, Unwritten, BridgeSteps
<1>4. Reports'
  BY <1>1, Holds, BridgeAssumption DEF BridgeInv, Reports, BridgeSteps
<1>5. ASSUME NEW d \in BridgeCalls PROVE Counted(d)'
  BY <1>1, Holds, BridgeAssumption DEF BridgeInv, Counted, Unwritten, Before, Most, BridgeSteps, OfHolder
<1>. QED
  BY <1>2, <1>3, <1>4, <1>5

(* The line was written.                                                     *)
LEMMA WrittenStep ==
  ASSUME BridgeInv, NEW c \in BridgeCalls, Written(c)
  PROVE  Held' /\ OfHolder' /\ Reports' /\ \A d \in BridgeCalls : Counted(d)'
<1>1. /\ request[c] = "writing" /\ reported = "yes" /\ reported' = "none"
      /\ \A d \in BridgeCalls : request'[d] = IF d = c THEN "answering" ELSE request[d]
      /\ UNCHANGED <<holder, restarted, failure, reply, line, handling, ran>>
  BY Went DEF Written, working, BridgeInv
<1>2. Held'
  BY <1>1, Holds, BridgeAssumption DEF BridgeInv, Held, BridgeSteps
<1>3. OfHolder'
  BY <1>1, Holds, BridgeAssumption DEF BridgeInv, OfHolder, Unwritten, BridgeSteps
<1>4. Reports'
  BY <1>1, Holds, BridgeAssumption DEF BridgeInv, Reports, BridgeSteps
<1>5. ASSUME NEW d \in BridgeCalls PROVE Counted(d)'
  BY <1>1, Holds, BridgeAssumption DEF BridgeInv, Counted, Unwritten, Before, Most, BridgeSteps, OfHolder
<1>. QED
  BY <1>2, <1>3, <1>4, <1>5

(* The request fails.                                                        *)
LEMMA FailStep ==
  ASSUME BridgeInv, NEW c \in BridgeCalls, NotDelivered(c) \/ Exited(c) \/ TimedOut(c)
  PROVE  Held' /\ OfHolder' /\ Reports' /\ \A d \in BridgeCalls : Counted(d)'
<1>1. /\ request[c] \in {"writing", "answering"}
      /\ \/ request[c] = "writing" /\ reported = "no" /\ failure' = "not delivered"
         \/ request[c] = "answering" /\ failure' = "exited"
         \/ (request[c] = "answering" \/ reported = "none") /\ failure' = "timed out"
      /\ \A d \in BridgeCalls : request'[d] = IF d = c THEN "failed" ELSE request[d]
      /\ UNCHANGED <<holder, restarted, reported, reply, line, handling, ran>>
  <2>1. /\ request[c] \in {"writing", "answering"}
        /\ \/ request[c] = "writing" /\ reported = "no" /\ failure' = "not delivered"
           \/ request[c] = "answering" /\ failure' = "exited"
           \/ (request[c] = "answering" \/ reported = "none") /\ failure' = "timed out"
    BY DEF NotDelivered, Exited, TimedOut, Fails
  <2>2. /\ Goes(c, "failed")
        /\ UNCHANGED <<holder, restarted, reported, reply, line, handling, ran>>
    BY DEF NotDelivered, Exited, TimedOut, Fails, channels, working
  <2>. QED
    BY <2>1, <2>2, Went DEF BridgeInv
<1>2. Held'
  BY <1>1, Holds, BridgeAssumption DEF BridgeInv, Held, BridgeSteps
<1>3. OfHolder'
  BY <1>1, Holds, BridgeAssumption DEF BridgeInv, OfHolder, Unwritten, BridgeSteps
<1>4. Reports'
  BY <1>1, Holds, BridgeAssumption DEF BridgeInv, Reports, BridgeSteps
<1>5. ASSUME NEW d \in BridgeCalls PROVE Counted(d)'
  BY <1>1, Holds, BridgeAssumption DEF BridgeInv, Counted, Unwritten, Before, Most, BridgeSteps, OfHolder
<1>. QED
  BY <1>2, <1>3, <1>4, <1>5

(* The response is received.                                                 *)
LEMMA ReceivedStep ==
  ASSUME BridgeInv, NEW c \in BridgeCalls, Received(c)
  PROVE  Held' /\ OfHolder' /\ Reports' /\ \A d \in BridgeCalls : Counted(d)'
<1>1. /\ request[c] = "answering" /\ reply = c /\ reply' = NoCall /\ holder' = NoCall
      /\ \A d \in BridgeCalls : request'[d] = IF d = c THEN "returned" ELSE request[d]
      /\ UNCHANGED <<restarted, failure, reported, line, handling, ran>>
  BY Went DEF Received, Ends, working, BridgeInv
<1>2. Held'
  BY <1>1, Holds, BridgeAssumption DEF BridgeInv, Held, BridgeSteps
<1>3. OfHolder'
  BY <1>1, Holds, BridgeAssumption DEF BridgeInv, OfHolder, Unwritten, BridgeSteps
<1>4. Reports'
  BY <1>1, Holds, BridgeAssumption DEF BridgeInv, Reports, BridgeSteps
<1>5. ASSUME NEW d \in BridgeCalls PROVE Counted(d)'
  BY <1>1, Holds, BridgeAssumption DEF BridgeInv, Counted, Unwritten, Before, Most, BridgeSteps, OfHolder
<1>. QED
  BY <1>2, <1>3, <1>4, <1>5

(* The call gives up.                                                        *)
LEMMA RaisedStep ==
  ASSUME BridgeInv, NEW c \in BridgeCalls, Retreat(c), Ends(c, "raised")
  PROVE  Held' /\ OfHolder' /\ Reports' /\ \A d \in BridgeCalls : Counted(d)'
<1>1. /\ request[c] = "failed" /\ holder' = NoCall
      /\ reported' = "none" /\ reply' = NoCall /\ line' = NoCall /\ handling' = NoCall
      /\ \A d \in BridgeCalls : request'[d] = IF d = c THEN "raised" ELSE request[d]
      /\ UNCHANGED ran
  BY Went DEF Retreat, KillGroup, Ends, BridgeInv
<1>2. Held'
  BY <1>1, Holds, BridgeAssumption DEF BridgeInv, Held, BridgeSteps
<1>3. OfHolder'
  BY <1>1, Holds, BridgeAssumption DEF BridgeInv, OfHolder, Unwritten, BridgeSteps
<1>4. Reports'
  BY <1>1, Holds, BridgeAssumption DEF BridgeInv, Reports, BridgeSteps
<1>5. ASSUME NEW d \in BridgeCalls PROVE Counted(d)'
  BY <1>1, Holds, BridgeAssumption DEF BridgeInv, Counted, Unwritten, Before, Most, BridgeSteps, OfHolder
<1>. QED
  BY <1>2, <1>3, <1>4, <1>5

(* The call is sent again.                                                   *)
LEMMA AgainStep ==
  ASSUME BridgeInv, NEW c \in BridgeCalls, Retreat(c), SendAgain(c), ~restarted,
         restarted' = TRUE, Goes(c, "looking"), UNCHANGED holder
  PROVE  Held' /\ OfHolder' /\ Reports' /\ \A d \in BridgeCalls : Counted(d)'
<1>1. /\ request[c] = "failed" /\ UNCHANGED holder
      /\ reported' = "none" /\ reply' = NoCall /\ line' = NoCall /\ handling' = NoCall
      /\ \A d \in BridgeCalls : request'[d] = IF d = c THEN "looking" ELSE request[d]
      /\ UNCHANGED ran
  BY Went DEF Retreat, KillGroup, BridgeInv
<1>2. Held'
  BY <1>1, Holds, BridgeAssumption DEF BridgeInv, Held, BridgeSteps
<1>3. OfHolder'
  BY <1>1, Holds, BridgeAssumption DEF BridgeInv, OfHolder, Unwritten, BridgeSteps
<1>4. Reports'
  BY <1>1, Holds, BridgeAssumption DEF BridgeInv, Reports, BridgeSteps
<1>5. ASSUME NEW d \in BridgeCalls PROVE Counted(d)'
  <2>1. d = c => ran[d] <= IF d \in Pure THEN 1 ELSE 0
    <3>0. Before(c) = 0
      BY DEF Before
    <3>1. Before(c) = 0 /\ holder = c /\ Counted(c) /\ ran[c] \in Nat
      BY <3>0, <1>1, Holds DEF BridgeInv, BridgeSteps
    <3>2. CASE failure = "not delivered"
      <4>1. Unwritten
        BY <1>1, <3>1, <3>2 DEF Unwritten
      <4>2. ran[c] <= 0
        BY <4>1, <3>1 DEF Counted
      <4>. QED
        BY <4>2, <3>1
    <3>3. CASE c \in Pure
      BY <3>1, <3>3 DEF Counted
    <3>. QED
      BY <3>2, <3>3 DEF SendAgain
  <2>2. Counted(d) /\ ran'[d] = ran[d] /\ ran[d] \in Nat
    BY <1>1 DEF BridgeInv, BridgeTyping
  <2>3. d = c => Before(d)' = IF d \in Pure THEN 1 ELSE 0
    BY DEF Before
  <2>4. d # c => holder' # d
    BY <1>1, Holds DEF BridgeSteps
  <2>. QED
    BY <1>1, <2>1, <2>2, <2>3, <2>4, BridgeAssumption DEF Counted, Most
<1>. QED
  BY <1>2, <1>3, <1>4, <1>5

------------------------------------------------------------------------------
LEMMA BridgeInvStep == BridgeInv /\ [BridgeNext]_bridgeVars => BridgeInv'
<1>. SUFFICES ASSUME BridgeInv, [BridgeNext]_bridgeVars
              PROVE  Held' /\ OfHolder' /\ Reports' /\ \A d \in BridgeCalls : Counted(d)'
  BY BridgeTypeStep DEF BridgeInv
<1>1. ASSUME NEW c \in BridgeCalls, AskBridge(c) \/ CallStep(c)
      PROVE  Held' /\ OfHolder' /\ Reports' /\ \A d \in BridgeCalls : Counted(d)'
  <2>1. CASE Retreat(c)
    <3>1. \/ Ends(c, "raised")
          \/ SendAgain(c) /\ ~restarted /\ restarted' = TRUE /\ Goes(c, "looking") /\ UNCHANGED holder
      BY <2>1 DEF Retreat, GiveUpOrRetry
    <3>. QED
      BY <2>1, <3>1, RaisedStep, AgainStep
  <2>. QED
    BY <1>1, <2>1, AskStep, LockStep, WritingStep, ClearStep, CannotStartStep, WrittenStep,
       FailStep, ReceivedStep
    DEF CallStep
<1>2. CASE UNCHANGED bridgeVars
  BY <1>2
  DEF BridgeInv, Held, OfHolder, Reports, Counted, Unwritten, Before, Most, bridgeVars, channels,
      working
<1>. QED
  BY <1>1, <1>2, ServerStep DEF BridgeNext

LEMMA BridgeInductive == BridgeSpec => []BridgeInv
  BY BridgeInvInitially, BridgeInvStep, PTL DEF BridgeSpec

(* A function with effects is run once at most for each call, one declared   *)
(* pure twice at most; a call that returned was run, and nothing runs for a  *)
(* call that is over: for any number of calls and of servers that die        *)
(* (Bridge::request, Process::request, Drop for Process).                    *)
THEOREM RunOnceHolds == BridgeSpec => []RunOnce
<1>1. BridgeInv => RunOnce
  <2>. SUFFICES ASSUME BridgeInv, NEW c \in BridgeCalls
                PROVE  /\ ran[c] <= IF c \in Pure THEN 2 ELSE 1
                       /\ request[c] = "returned" => ran[c] >= 1
                       /\ request[c] \in {"returned", "raised"} => c \notin {line, handling}
    BY DEF RunOnce
  <2>1. Counted(c) /\ (holder = c => request[c] \in BridgeSteps)
    BY DEF BridgeInv, Held
  <2>2. (line = c \/ handling = c) => holder = c
    BY BridgeAssumption DEF BridgeInv, OfHolder
  <2>. QED
    BY <2>1, <2>2 DEF Counted, Most, BridgeSteps
<1>. QED
  BY <1>1, BridgeInductive, PTL

(* The types of the bridge, of its calls and of its server.                  *)
THEOREM BridgeTypeCorrect == BridgeSpec => []BridgeTypeOK
<1>. DEFINE Flags == /\ restarted \in BOOLEAN /\ up \in BOOLEAN
                     /\ leader \in BOOLEAN /\ serves \in BOOLEAN
                     /\ reads \in BOOLEAN /\ writes \in BOOLEAN
<1>1. BridgeInit => Flags
  BY DEF BridgeInit
<1>2. Flags /\ [BridgeNext]_bridgeVars => Flags'
  <2>. SUFFICES ASSUME Flags, [BridgeNext]_bridgeVars PROVE Flags'
    OBVIOUS
  <2>1. ASSUME NEW c \in BridgeCalls, AskBridge(c) \/ CallStep(c)
        PROVE  Flags'
    BY <2>1
    DEF AskBridge, CallStep, LockBridge, Reuse, Clear, StartServer, CannotStart, Written,
        NotDelivered, Received, Exited, TimedOut, Retreat, GiveUpOrRetry, Fails, KillGroup,
        Ends, ends
  <2>2. CASE Write \/ Handle \/ Respond \/ UNCHANGED bridgeVars
    BY <2>2 DEF Write, Handle, Respond, bridgeVars, ends
  <2>3. CASE Falter
    BY <2>3 DEF Falter
  <2>. QED
    BY <2>1, <2>2, <2>3 DEF BridgeNext
<1>3. BridgeInv /\ Flags => BridgeTypeOK
  BY DEF BridgeInv, BridgeTyping, BridgeTypeOK
<1>. QED
  BY <1>1, <1>2, <1>3, BridgeInductive, PTL DEF BridgeSpec
==============================================================================
