------------------------------- MODULE Limits --------------------------------
(* The limiter of one host (grenat_limits: bucket.rs, slots.rs, limiter.rs)  *)
(* and the calls it holds: `Http' requests, sent again after a 429 that asks *)
(* for it (grenat_interp eval/limits.rs, builtins/http.rs, http_retry.rs).   *)
(*                                                                           *)
(* One action is one critical section of the limiter's mutex, or a step of   *)
(* the call between two of them.  Instants are kept as distances ahead of    *)
(* now, 0 for now and for the past, and Tick brings them nearer: what the    *)
(* limiter does with an instant that has passed does not depend on which.    *)
(* Both limits are declared, a rate and `concurrent:'.                       *)
EXTENDS Naturals, Sequences, FiniteSets

CONSTANTS
    Calls,        \* tasks that call the host
    Retried,      \* those whose request may be sent twice
    Count,        \* rate.count: calls that go at once with a full bucket
    Interval,     \* period / count
    Concurrent,   \* `concurrent:'
    Waits,        \* what a server's Retry-After may ask
    MAX_RETRIES,
    MAX_WAIT,     \* the longest Retry-After waited out
    MAX_PAUSE,    \* the longest Retry-After that pauses the host
    Horizon       \* bound: no call is asked while next is further than this

ASSUME LimitsAssumption ==
    /\ Retried \subseteq Calls
    /\ IsFiniteSet(Calls)
    /\ Count \in Nat \ {0}
    /\ Interval \in Nat \ {0}
    /\ Concurrent \in Nat \ {0}
    /\ Waits \subseteq Nat
    /\ MAX_RETRIES \in Nat /\ MAX_WAIT \in Nat /\ MAX_PAUSE \in Nat
    /\ Horizon \in Nat

VARIABLES
    next,         \* Bucket::next: the end of the last turn booked
    paused,       \* State::paused
    queue,        \* Slots::queue: the calls' tickets
    inFlight,     \* Slots::in_flight
    pc,           \* where each call is
    turn,         \* the turn it holds, if any
    rest,         \* the wait asked by the 429 it was answered
    retried,      \* how often its request was sent again
    spent         \* the ends of the turns that were used, while ahead of now

limiter == <<next, paused, queue, inFlight>>
call    == <<pc, turn, rest, retried>>
vars    == <<limiter, call, spent>>

Steps == {"idle", "queued", "entered", "turn", "calling", "told", "resting", "refunded"}
Turns == [at : Nat, before : Nat, after : Nat]
NoTurn == [at |-> 0, before |-> 0, after |-> 0]
Burst == Interval * (Count - 1)

Later(a, b)   == IF a >= b THEN a ELSE b
Sooner(a, b)  == IF a <= b THEN a ELSE b
Nearer(t)     == IF t = 0 THEN 0 ELSE t - 1

Init ==
    /\ next = 0 /\ paused = 0 /\ queue = <<>> /\ inFlight = 0
    /\ pc = [c \in Calls |-> "idle"]
    /\ turn = [c \in Calls |-> NoTurn]
    /\ rest = [c \in Calls |-> 0]
    /\ retried = [c \in Calls |-> 0]
    /\ spent = {}

------------------------------------------------------------------------------
(* Slots.                                                                    *)

(* A program's call, or one sent again: Slots::enqueue.                      *)
Enqueue(c) ==
    /\ queue' = Append(queue, c)
    /\ pc' = [pc EXCEPT ![c] = "queued"]
    /\ UNCHANGED <<next, paused, inFlight, turn, spent>>

Ask(c) ==
    /\ pc[c] = "idle"
    /\ next <= Horizon
    /\ Enqueue(c)
    /\ UNCHANGED <<rest, retried>>

(* Slots::try_enter, which a call in the queue tries every SLOT_POLL.        *)
TryEnter(c) ==
    /\ pc[c] = "queued"
    /\ queue # <<>> /\ Head(queue) = c
    /\ inFlight < Concurrent
    /\ queue' = Tail(queue)
    /\ inFlight' = inFlight + 1
    /\ pc' = [pc EXCEPT ![c] = "entered"]
    /\ UNCHANGED <<next, paused, turn, rest, retried, spent>>

(* The call is over for the program: what it returned is not kept.           *)
Over(c) ==
    /\ pc' = [pc EXCEPT ![c] = "idle"]
    /\ turn' = [turn EXCEPT ![c] = NoTurn]
    /\ rest' = [rest EXCEPT ![c] = 0]
    /\ retried' = [retried EXCEPT ![c] = 0]

(* (A bug: a call that stops waiting leaves its ticket in the queue.)        *)
LeaveTicket(c) ==
    /\ pc[c] = "queued"
    /\ Over(c)
    /\ UNCHANGED <<limiter, spent>>

(* Cancelled, or out of its budget, in the queue: Slots::leave.              *)
Without(i) == SubSeq(queue, 1, i - 1) \o SubSeq(queue, i + 1, Len(queue))

Leave(c) ==
    /\ pc[c] = "queued"
    /\ \E i \in 1 .. Len(queue) : queue[i] = c /\ queue' = Without(i)
    /\ Over(c)
    /\ UNCHANGED <<next, paused, inFlight, spent>>

Release == inFlight' = Nearer(inFlight)

------------------------------------------------------------------------------
(* Turns.                                                                    *)

(* Bucket::reserve, from now or from the end of a pause.                     *)
Reserve(c) ==
    /\ pc[c] = "entered"
    /\ LET before == Later(next, paused)
           early  == IF before >= Burst THEN before - Burst ELSE 0
       IN  /\ turn' = [turn EXCEPT ![c] = [at |-> Later(early, paused),
                                           before |-> before,
                                           after |-> before + Interval]]
           /\ next' = before + Interval
    /\ pc' = [pc EXCEPT ![c] = "turn"]
    /\ UNCHANGED <<paused, queue, inFlight, rest, retried, spent>>

(* Its turn has come and no pause is on: the request is sent.                *)
Pass(c) ==
    /\ pc[c] = "turn"
    /\ turn[c].at = 0
    /\ paused = 0
    /\ pc' = [pc EXCEPT ![c] = "calling"]
    /\ spent' = spent \cup ({turn[c].after} \ {0})
    /\ turn' = [turn EXCEPT ![c] = NoTurn]
    /\ UNCHANGED <<limiter, rest, retried>>

(* (A bug: the bucket goes back to where it was before the turn.)            *)
RefundAlways(c) == next' = turn[c].before

(* Bucket::refund: only the last turn booked is given back.                  *)
Refund(c) == next' = IF next = turn[c].after THEN turn[c].before ELSE next

(* Cancelled while it waits for its turn or the end of a pause: give_back.   *)
Cancel(c) ==
    /\ pc[c] = "turn"
    /\ Refund(c)
    /\ pc' = [pc EXCEPT ![c] = "refunded"]
    /\ turn' = [turn EXCEPT ![c] = NoTurn]
    /\ UNCHANGED <<paused, queue, inFlight, rest, retried, spent>>

(* ... and its permit is dropped.                                            *)
DropPermit(c) ==
    /\ pc[c] = "refunded"
    /\ Release
    /\ Over(c)
    /\ UNCHANGED <<next, paused, queue, spent>>

------------------------------------------------------------------------------
(* The call: send_retrying.                                                  *)

(* Answered, or failed, for good: the permit is dropped.                     *)
Answer(c) ==
    /\ pc[c] = "calling"
    /\ Release
    /\ Over(c)
    /\ UNCHANGED <<next, paused, queue, spent>>

(* Answered 429 with a Retry-After: the permit is dropped first.             *)
AnswerLater(c) ==
    /\ pc[c] = "calling"
    /\ Release
    /\ \E wait \in Waits : rest' = [rest EXCEPT ![c] = wait]
    /\ pc' = [pc EXCEPT ![c] = "told"]
    /\ UNCHANGED <<next, paused, queue, turn, retried, spent>>

(* pause_host, unless a redirect's target answered, which has another        *)
(* limiter; then the answer is the program's, or waited out.                 *)
MayRetry(c) == c \in Retried /\ retried[c] # MAX_RETRIES /\ rest[c] <= MAX_WAIT

PauseUntil(wait) == paused' = Later(paused, wait)

Told(c) ==
    /\ pc[c] = "told"
    /\ \/ PauseUntil(Sooner(rest[c], MAX_PAUSE))
       \/ UNCHANGED paused
    /\ IF MayRetry(c)
       THEN pc' = [pc EXCEPT ![c] = "resting"] /\ UNCHANGED <<turn, rest, retried>>
       ELSE Over(c)
    /\ UNCHANGED <<next, queue, inFlight, spent>>

(* wait_out is over: the request asks for a turn again.                      *)
Again(c) ==
    /\ pc[c] = "resting"
    /\ rest[c] = 0
    /\ retried' = [retried EXCEPT ![c] = @ + 1]
    /\ Enqueue(c)
    /\ UNCHANGED rest

(* Cancelled in wait_out.                                                    *)
GiveUp(c) ==
    /\ pc[c] = "resting"
    /\ Over(c)
    /\ UNCHANGED <<limiter, spent>>

------------------------------------------------------------------------------
Tick ==
    /\ next' = Nearer(next)
    /\ paused' = Nearer(paused)
    /\ turn' = [c \in Calls |-> [at |-> Nearer(turn[c].at),
                                 before |-> Nearer(turn[c].before),
                                 after |-> Nearer(turn[c].after)]]
    /\ rest' = [c \in Calls |-> IF pc[c] = "resting" THEN Nearer(rest[c]) ELSE rest[c]]
    /\ spent' = {Nearer(t) : t \in spent} \ {0}
    /\ UNCHANGED <<queue, inFlight, pc, retried>>

Step(c) ==
    \/ Ask(c) \/ TryEnter(c) \/ Leave(c) \/ Reserve(c) \/ Pass(c)
    \/ Cancel(c) \/ DropPermit(c) \/ Answer(c) \/ AnswerLater(c)
    \/ Told(c) \/ Again(c) \/ GiveUp(c)

Next == Tick \/ \E c \in Calls : Step(c)

Spec == Init /\ [][Next]_vars

(* Time passes, tasks run, servers answer.  A call waiting for the end of a  *)
(* pause sleeps until it ends, so that it looks while no pause is on even    *)
(* when each is soon followed by another: strong fairness of Pass.           *)
GoOn(c) == \/ TryEnter(c) \/ Reserve(c) \/ DropPermit(c)
           \/ Answer(c) \/ AnswerLater(c) \/ Told(c) \/ Again(c)

Fairness ==
    /\ WF_vars(Tick)
    /\ \A c \in Calls :
          WF_vars(GoOn(c)) /\ SF_vars(Pass(c))

FairSpec == Spec /\ Fairness

------------------------------------------------------------------------------
(* Properties.                                                               *)

(* The variables have their types.                                           *)
TypeOK ==
    /\ next \in Nat /\ paused \in Nat /\ inFlight \in Nat
    /\ queue \in Seq(Calls)
    /\ pc \in [Calls -> Steps]
    /\ turn \in [Calls -> Turns]
    /\ rest \in [Calls -> Nat]
    /\ retried \in [Calls -> Nat]
    /\ spent \subseteq Nat \ {0}

Holding == {c \in Calls : pc[c] = "turn"}
Permits == {c \in Calls : pc[c] \in {"entered", "turn", "calling", "refunded"}}

(* The time [before, after) taken by one turn and that taken by another do   *)
(* not meet, as far as it lies ahead.                                        *)
Apart(t, u) == t.after <= u.before \/ u.after <= t.before \/ t.after = 0 \/ u.after = 0

(* A turn is never handed to two calls (refund, bucket.rs): neither two that *)
(* wait, nor one that waits and one that has gone, whatever was cancelled in *)
(* between.                                                                  *)
TurnsApart ==
    \A c \in Holding :
       /\ \A d \in Holding \ {c} : Apart(turn[c], turn[d])
       /\ \A end \in spent : end <= turn[c].before \/ turn[c].after + Interval <= end
                             \/ turn[c].after = 0

(* The slots taken are those of calls between their entry and the drop of    *)
(* their permit, never more than `concurrent:' (limiter.rs: acquire,         *)
(* Permit::drop).                                                            *)
SlotsCounted == inFlight = Cardinality(Permits) /\ inFlight <= Concurrent

(* The tickets in the queue are those of the calls that wait for a slot, one *)
(* for each, so that the first one is never of a call that went away         *)
(* (Slots::leave).                                                           *)
TicketsWait ==
    /\ \A i \in 1 .. Len(queue) : pc[queue[i]] = "queued"
    /\ \A i, j \in 1 .. Len(queue) : queue[i] = queue[j] => i = j
    /\ \A c \in Calls : pc[c] = "queued" => \E i \in 1 .. Len(queue) : queue[i] = c

(* The slots are those of calls in flight, and are given in turn.            *)
SlotsKept == SlotsCounted /\ TicketsWait

(* A call that waits for a slot is sent, or was cancelled, whatever the      *)
(* others do and however often the host is paused.                           *)
EveryCallGoes == \A c \in Calls : pc[c] = "queued" ~> pc[c] \in {"calling", "idle"}

==============================================================================
