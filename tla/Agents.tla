------------------------------- MODULE Agents --------------------------------
(* Actor agents (grenat_interp eval/agents.rs): messages handled one at a    *)
(* time in the caller's task, deadlocks detected, supervision with restarts; *)
(* and the tasks a handler may start (`tell', `parallel_map').               *)
(*                                                                           *)
(* A handler's code is its own: it asks, tells, forks, returns and raises as *)
(* it likes.  The locks on waits, owner, restarts, down and state are each   *)
(* taken for one action, but for waits, held while its chain is followed.    *)
EXTENDS Naturals, Sequences, FiniteSets

CONSTANTS
    Agents,
    Order,       \* the supervisor's children, as declared
    Strategy,
    MaxRestarts,
    Tasks,
    Roots,       \* the tasks that run from the start
    NoTask, NoAgent,
    MaxChain,    \* links of a chain that wait_for looks at: 1000
    MaxDepth,    \* bound: handlers a task is in at once
    MaxFaults    \* bound: restarts that fail, and tells that leave a message counted

Strategies == {"one_for_one", "one_for_all", "rest_for_one"}
Children   == {Order[i] : i \in DOMAIN Order}

ASSUME AgentsAssumption ==
    /\ Order \in Seq(Agents)
    /\ \A i, j \in DOMAIN Order : Order[i] = Order[j] => i = j
    /\ Strategy \in Strategies
    /\ MaxRestarts \in Nat
    /\ MaxChain \in Nat \ {0}
    /\ IsFiniteSet(Tasks) /\ Roots \subseteq Tasks
    /\ NoTask \notin Tasks
    /\ NoAgent \notin Agents
    /\ MaxDepth \in Nat
    /\ MaxFaults \in Nat

VARIABLES
    \* a task
    pc,          \* where it is in ask_turn, or in the code around it
    stack,       \* the agents whose handler it runs, innermost last
    target,      \* the agent it asks
    cursor,      \* how far wait_for has followed the chain
    hops,        \* in how many links
    todo,        \* the children on_crash has yet to restart
    joins,       \* the tasks it waits for, in parallel_map or race
    told,        \* whether `tell' made it, for one message
    \* an agent
    turn,        \* the task that holds the turn
    owner,       \* the task said to handle a message
    queued,      \* pending messages
    restarts,    \* restarts within the window
    down,        \* stopped for good
    \* shared
    waits,       \* the agent a task waits for
    \* of the model
    condition,   \* of the agent's state: "crashed" from a raise to a restart
    faults,      \* restarts that failed
    lost         \* messages counted that no task sends

taskVars  == <<pc, stack, target, cursor, hops, todo, joins, told>>
agentVars == <<turn, owner, queued, restarts, down>>
vars      == <<taskVars, agentVars, waits, condition, faults, lost>>

Init ==
    /\ pc = [t \in Tasks |-> IF t \in Roots THEN "running" ELSE "unborn"]
    /\ stack = [t \in Tasks |-> <<>>]
    /\ target = [t \in Tasks |-> NoAgent]
    /\ cursor = [t \in Tasks |-> NoAgent]
    /\ hops = [t \in Tasks |-> 0]
    /\ todo = [t \in Tasks |-> <<>>]
    /\ joins = [t \in Tasks |-> {}]
    /\ told = [t \in Tasks |-> FALSE]
    /\ turn = [a \in Agents |-> NoTask]
    /\ owner = [a \in Agents |-> NoTask]
    /\ queued = [a \in Agents |-> 0]
    /\ restarts = [a \in Agents |-> 0]
    /\ down = [a \in Agents |-> FALSE]
    /\ waits = [t \in Tasks |-> NoAgent]
    /\ condition = [a \in Agents |-> "fresh"]
    /\ faults = 0
    /\ lost = 0

------------------------------------------------------------------------------
(* A message: send, ask_turn until the handler starts.                       *)

Goto(t, step) == pc' = [pc EXCEPT ![t] = step]

(* What a task does when an ask is over; a task made by `tell' ends.         *)
Back(t) == Goto(t, IF told[t] /\ stack[t] = <<>> THEN "ended" ELSE "running")

(* `ask': the message is counted, for the load of a pool.                    *)
Send(t, a) ==
    /\ pc[t] = "running" /\ Len(stack[t]) < MaxDepth
    /\ queued' = [queued EXCEPT ![a] = @ + 1]
    /\ target' = [target EXCEPT ![t] = a]
    /\ Goto(t, "sent")
    /\ UNCHANGED <<stack, cursor, hops, todo, joins, told, turn, owner, restarts, down,
                   waits, condition, faults, lost>>

(* `tell': a task of its own asks.                                           *)
Tell(t, c, a) ==
    /\ pc[t] = "running"
    /\ pc[c] = "unborn"
    /\ queued' = [queued EXCEPT ![a] = @ + 1]
    /\ target' = [target EXCEPT ![c] = a]
    /\ told' = [told EXCEPT ![c] = TRUE]
    /\ Goto(c, "sent")
    /\ UNCHANGED <<stack, cursor, hops, todo, joins, turn, owner, restarts,
                   down, waits, condition, faults, lost>>

(* `tell' with a block raises once the message is counted, and nothing takes *)
(* it off again.                                                             *)
TellWithBlock(t, a) ==
    /\ faults + lost < MaxFaults
    /\ pc[t] = "running"
    /\ queued' = [queued EXCEPT ![a] = @ + 1]
    /\ lost' = lost + 1
    /\ UNCHANGED <<taskVars, turn, owner, restarts, down, waits, condition, faults>>

(* The ask fails: the reservation and the target are dropped.                *)
Drop(t) ==
    /\ queued' = [queued EXCEPT ![target[t]] = @ - 1]
    /\ target' = [target EXCEPT ![t] = NoAgent]
    /\ cursor' = [cursor EXCEPT ![t] = NoAgent]
    /\ hops' = [hops EXCEPT ![t] = 0]
    /\ Back(t)

(* No message, or none the agent handles; or AgentDown.                      *)
Refuse(t) ==
    /\ pc[t] = "sent"
    /\ Drop(t)
    /\ UNCHANGED <<stack, todo, joins, told, turn, owner, restarts, down,
                   waits, condition, faults, lost>>

(* The agent is not down, and wait_for locks waits.                          *)
WaitsFree == \A t \in Tasks : pc[t] # "walking"

StartWaiting(t) ==
    /\ pc[t] = "sent"
    /\ ~down[target[t]]
    /\ Goto(t, "checked")
    /\ UNCHANGED <<stack, target, cursor, hops, todo, joins, told, agentVars,
                   waits, condition, faults, lost>>

LockWaits(t) ==
    /\ pc[t] = "checked"
    /\ WaitsFree
    /\ cursor' = [cursor EXCEPT ![t] = target[t]]
    /\ Goto(t, "walking")
    /\ UNCHANGED <<stack, target, hops, todo, joins, told, agentVars, waits,
                   condition, faults, lost>>

(* One link of the chain: who handles a message of that agent, and for whom  *)
(* it waits.                                                                 *)
Follow(t) ==
    LET o == owner[cursor[t]] IN
    /\ pc[t] = "walking" /\ hops[t] < MaxChain
    /\ o \notin {t, NoTask}
    /\ waits[o] # NoAgent
    /\ cursor' = [cursor EXCEPT ![t] = waits[o]]
    /\ hops' = [hops EXCEPT ![t] = @ + 1]
    /\ UNCHANGED <<pc, stack, target, todo, joins, told, agentVars, waits,
                   condition, faults, lost>>

(* The chain comes back to this task.                                        *)
Deadlock(t) ==
    /\ pc[t] = "walking" /\ hops[t] < MaxChain
    /\ owner[cursor[t]] = t
    /\ Drop(t)
    /\ UNCHANGED <<stack, todo, joins, told, turn, owner, restarts, down,
                   waits, condition, faults, lost>>

(* It ends at an agent that handles no message, at a task that does not      *)
(* wait - or because it is too long.                                         *)
ChainEnds(t) ==
    \/ owner[cursor[t]] \in {NoTask} \cup {o \in Tasks \ {t} : waits[o] = NoAgent}
    \/ hops[t] = MaxChain

(* (A bug: a wait that the next chain will not find.)                        *)
BlockUnseen(t) ==
    /\ pc[t] = "walking"
    /\ ChainEnds(t)
    /\ cursor' = [cursor EXCEPT ![t] = NoAgent]
    /\ hops' = [hops EXCEPT ![t] = 0]
    /\ Goto(t, "blocked")
    /\ UNCHANGED <<stack, target, todo, joins, told, agentVars, waits,
                   condition, faults, lost>>

(* The chain ends: this task waits for the turn.                             *)
Block(t) ==
    /\ pc[t] = "walking"
    /\ ChainEnds(t)
    /\ waits' = [waits EXCEPT ![t] = target[t]]
    /\ cursor' = [cursor EXCEPT ![t] = NoAgent]
    /\ hops' = [hops EXCEPT ![t] = 0]
    /\ Goto(t, "blocked")
    /\ UNCHANGED <<stack, target, todo, joins, told, agentVars, condition,
                   faults, lost>>

(* turn.lock() returns.                                                      *)
TakeTurn(t) ==
    /\ pc[t] = "blocked"
    /\ turn[target[t]] = NoTask
    /\ turn' = [turn EXCEPT ![target[t]] = t]
    /\ Goto(t, "won")
    /\ UNCHANGED <<stack, target, cursor, hops, todo, joins, told, owner,
                   queued, restarts, down,
                   waits, condition, faults, lost>>

(* (Bugs: it still is said to wait; its turn is a value dropped at once.)    *)
UnwaitNever(t) ==
    /\ pc[t] = "won"
    /\ WaitsFree
    /\ queued' = [queued EXCEPT ![target[t]] = @ - 1]
    /\ Goto(t, "named")
    /\ UNCHANGED <<stack, target, cursor, hops, todo, joins, told, turn, owner,
                   restarts, down,
                   waits, condition, faults, lost>>
UnwaitUnlocked(t) ==
    /\ pc[t] = "won"
    /\ WaitsFree
    /\ waits' = [waits EXCEPT ![t] = NoAgent]
    /\ queued' = [queued EXCEPT ![target[t]] = @ - 1]
    /\ turn' = [turn EXCEPT ![target[t]] = NoTask]
    /\ Goto(t, "named")
    /\ UNCHANGED <<stack, target, cursor, hops, todo, joins, told, owner,
                   restarts, down,
                   condition, faults, lost>>

(* It waits no more; its reservation goes.                                   *)
Unwait(t) ==
    /\ pc[t] = "won"
    /\ WaitsFree
    /\ waits' = [waits EXCEPT ![t] = NoAgent]
    /\ queued' = [queued EXCEPT ![target[t]] = @ - 1]
    /\ Goto(t, "named")
    /\ UNCHANGED <<stack, target, cursor, hops, todo, joins, told, turn, owner,
                   restarts, down,
                   condition, faults, lost>>

(* It is the owner, and its handler starts.                                  *)
Own(t) ==
    /\ pc[t] = "named"
    /\ owner' = [owner EXCEPT ![target[t]] = t]
    /\ stack' = [stack EXCEPT ![t] = Append(@, target[t])]
    /\ target' = [target EXCEPT ![t] = NoAgent]
    /\ Goto(t, "running")
    /\ UNCHANGED <<cursor, hops, todo, joins, told, turn, queued, restarts,
                   down, waits, condition, faults, lost>>

------------------------------------------------------------------------------
(* The end of a handler.                                                     *)

Mine(t) == stack[t][Len(stack[t])]

(* It returns, or is cancelled, or raises in an agent nobody supervises.     *)
Return(t) ==
    /\ pc[t] = "running" /\ stack[t] # <<>>
    /\ Goto(t, "returned")
    /\ UNCHANGED <<stack, target, cursor, hops, todo, joins, told, agentVars,
                   waits, condition, faults, lost>>

Position(a) == CHOOSE i \in DOMAIN Order : Order[i] = a

(* (A bug: those declared after the agent, without it.)                      *)
RestartedAfter(a) == SubSeq(Order, Position(a) + 1, Len(Order))

(* The children that restart with agent a, in order.                         *)
Restarted(a) ==
    CASE Strategy = "one_for_one"  -> <<a>>
      [] Strategy = "one_for_all"  -> Order
      [] Strategy = "rest_for_one" -> SubSeq(Order, Position(a), Len(Order))

Crash(t) ==
    LET a == Mine(t) IN
    /\ pc[t] = "running" /\ stack[t] # <<>>
    /\ a \in Children
    /\ IF restarts[a] >= MaxRestarts
       THEN /\ down' = [down EXCEPT ![a] = TRUE]
            /\ condition' = [condition EXCEPT ![a] = "kept"]
            /\ Goto(t, "returned")
            /\ UNCHANGED <<restarts, todo>>
       ELSE /\ restarts' = [restarts EXCEPT ![a] = @ + 1]
            /\ condition' = [condition EXCEPT ![a] = "crashed"]
            /\ todo' = [todo EXCEPT ![t] = Restarted(a)]
            /\ Goto(t, "restarting")
            /\ UNCHANGED down
    /\ UNCHANGED <<stack, target, cursor, hops, joins, told, turn, owner,
                   queued, waits, faults, lost>>

(* A fresh state for the next of them.                                       *)
Restart(t) ==
    /\ pc[t] = "restarting"
    /\ todo[t] # <<>>
    /\ condition' = [condition EXCEPT ![Head(todo[t])] = "fresh"]
    /\ todo' = [todo EXCEPT ![t] = Tail(@)]
    /\ UNCHANGED <<pc, stack, target, cursor, hops, joins, told, agentVars,
                   waits, faults, lost>>

EndRestart(t) ==
    /\ pc[t] = "restarting"
    /\ todo[t] = <<>>
    /\ Goto(t, "returned")
    /\ UNCHANGED <<stack, target, cursor, hops, todo, joins, told, agentVars,
                   waits, condition, faults, lost>>

(* The handler's frame goes, and the turn with it.                           *)
Leave(t) ==
    /\ turn' = [turn EXCEPT ![Mine(t)] = NoTask]
    /\ stack' = [stack EXCEPT ![t] = SubSeq(@, 1, Len(@) - 1)]
    /\ Goto(t, IF told[t] /\ Len(stack[t]) = 1 THEN "ended" ELSE "running")

(* A fresh state cannot be made: the error leaves ask_turn at once, which    *)
(* drops the turn only.                                                      *)
FailRestart(t) ==
    /\ faults + lost < MaxFaults
    /\ pc[t] = "restarting"
    /\ todo[t] # <<>>
    /\ faults' = faults + 1
    /\ condition' = [condition EXCEPT ![Mine(t)] = "kept"]
    /\ todo' = [todo EXCEPT ![t] = <<>>]
    /\ Leave(t)
    /\ UNCHANGED <<target, cursor, hops, joins, told, owner, queued, restarts,
                   down, waits, lost>>

Disown(t) ==
    /\ pc[t] = "returned"
    /\ owner' = [owner EXCEPT ![Mine(t)] = NoTask]
    /\ Goto(t, "disowned")
    /\ UNCHANGED <<stack, target, cursor, hops, todo, joins, told, turn,
                   queued, restarts, down,
                   waits, condition, faults, lost>>

GiveTurn(t) ==
    /\ pc[t] = "disowned"
    /\ Leave(t)
    /\ UNCHANGED <<target, cursor, hops, todo, joins, told, owner, queued,
                   restarts, down,
                   waits, condition, faults, lost>>

(* A restart older than the supervisor's window counts no more.              *)
Forget(a) ==
    /\ restarts[a] > 0
    /\ restarts' = [restarts EXCEPT ![a] = @ - 1]
    /\ UNCHANGED <<taskVars, turn, owner, queued, down, waits, condition, faults, lost>>

------------------------------------------------------------------------------
(* parallel_map and race, of two items at least: the task waits for those it *)
(* forks - for all, or, in a race or after a break, until the first ends.    *)

Fork(t, cs) ==
    /\ pc[t] = "running"
    /\ \A c \in cs : pc[c] = "unborn"
    /\ pc' = [c \in Tasks |-> IF c = t THEN "joining" ELSE IF c \in cs THEN "running" ELSE pc[c]]
    /\ joins' = [joins EXCEPT ![t] = cs]
    /\ UNCHANGED <<stack, target, cursor, hops, todo, told, agentVars, waits,
                   condition, faults, lost>>

End(t) ==
    /\ pc[t] = "running" /\ stack[t] = <<>>
    /\ Goto(t, "ended")
    /\ UNCHANGED <<stack, target, cursor, hops, todo, joins, told, agentVars,
                   waits, condition, faults, lost>>

Join(t) ==
    /\ pc[t] = "joining"
    /\ \E c \in joins[t] : pc[c] = "ended"
    /\ joins' = [joins EXCEPT ![t] = {}]
    /\ Goto(t, "running")
    /\ UNCHANGED <<stack, target, cursor, hops, todo, told, agentVars, waits,
                   condition, faults, lost>>

Forks == {cs \in SUBSET (Tasks \ Roots) : Cardinality(cs) >= 2}

------------------------------------------------------------------------------
Asks(t) ==
    \/ Refuse(t) \/ StartWaiting(t) \/ LockWaits(t) \/ Follow(t) \/ Deadlock(t)
    \/ Block(t) \/ TakeTurn(t) \/ Unwait(t) \/ Own(t)

Leaves(t) ==
    \/ Return(t) \/ Crash(t) \/ Restart(t) \/ EndRestart(t) \/ FailRestart(t)
    \/ Disown(t) \/ GiveTurn(t)

Next ==
    \/ \E t \in Tasks : Asks(t) \/ Leaves(t) \/ End(t) \/ Join(t)
    \/ \E t \in Tasks, a \in Agents : Send(t, a) \/ TellWithBlock(t, a)
    \/ \E t, c \in Tasks, a \in Agents : Tell(t, c, a)
    \/ \E t \in Tasks, cs \in Forks : Fork(t, cs)
    \/ \E a \in Agents : Forget(a)

Spec == Init /\ [][Next]_vars
------------------------------------------------------------------------------
(* Types of the tasks and of the agents.                                     *)
TypeOK ==
    /\ pc \in [Tasks -> {"unborn", "running", "sent", "checked", "walking", "blocked", "won",
                         "named", "returned", "restarting", "disowned", "joining", "ended"}]
    /\ stack \in [Tasks -> Seq(Agents)]
    /\ target \in [Tasks -> Agents \cup {NoAgent}]
    /\ cursor \in [Tasks -> Agents \cup {NoAgent}]
    /\ hops \in [Tasks -> 0 .. MaxChain]
    /\ todo \in [Tasks -> Seq(Agents)]
    /\ joins \in [Tasks -> SUBSET Tasks]
    /\ told \in [Tasks -> BOOLEAN]
    /\ turn \in [Agents -> Tasks \cup {NoTask}]
    /\ owner \in [Agents -> Tasks \cup {NoTask}]
    /\ queued \in [Agents -> Nat]
    /\ restarts \in [Agents -> 0 .. MaxRestarts]
    /\ down \in [Agents -> BOOLEAN]
    /\ waits \in [Tasks -> Agents \cup {NoAgent}]
    /\ condition \in [Agents -> {"fresh", "crashed", "kept"}]
    /\ faults \in 0 .. MaxFaults
    /\ lost \in 0 .. MaxFaults

(* Tasks that wait for each other's turns, none of which can go on.          *)
Cycle(ts) == ts # {} /\ \A t \in ts : pc[t] = "blocked" /\ turn[target[t]] \in ts

(* "Raises DeadlockError instead of hanging" (SPEC.md:1845): asks never wait *)
(* in a cycle - although the chain is followed while owners change, and is   *)
(* followed before the task waits (wait_for) - of as many tasks as wait_for  *)
(* follows links.                                                            *)
NoSilentDeadlock ==
    \A ts \in SUBSET Tasks : Cardinality(ts) <= MaxChain => ~Cycle(ts)

(* DeadlockError is raised only when the ask would close a cycle: no chain   *)
(* read while owners change shows one that is not there.  (A restart that    *)
(* failed leaves its task as the agent's owner: then it may, and is left     *)
(* out.)                                                                     *)
AlarmsAreTrue ==
    \A t \in Tasks :
        pc[t] = "walking" /\ owner[cursor[t]] = t /\ faults = 0 =>
            \E ts \in SUBSET Tasks :
                /\ t \in ts
                /\ \A u \in ts : (u = t \/ pc[u] = "blocked") /\ turn[target[u]] \in ts

(* After a supervised handler raised, no other message finds the state it    *)
(* left: the state is fresh when the turn is given back - unless the agent   *)
(* was stopped or its restart failed (on_crash runs before the turn goes).   *)
FreshAfterCrash == \A a \in Agents : condition[a] = "crashed" => turn[a] # NoTask

(* "One message at a time" (SPEC.md:1844): the handlers of an agent are      *)
(* under a lock - Agents implements Exclusion.                               *)
handlers == [a \in Agents |-> {t \in Tasks : \E i \in DOMAIN stack[t] : stack[t][i] = a}]
Turns == INSTANCE Exclusion WITH Resources <- Agents, Owners <- Tasks, holders <- handlers
OneMessageAtATime == Turns!Spec

------------------------------------------------------------------------------
(* What the repository says, and the code does not do.                       *)

(* "A waiting cycle between agents (even across several tasks) raises        *)
(* DeadlockError instead of hanging" (SPEC.md:1845): no tasks wait for each  *)
(* other for good, those that wait for the tasks they forked included.       *)
NoHang ==
    \A ts \in SUBSET Tasks \ {{}} : \E t \in ts :
        CASE pc[t] = "blocked" -> turn[target[t]] \notin ts
          [] pc[t] = "joining" -> ~ joins[t] \subseteq ts
          [] OTHER             -> TRUE
==============================================================================
