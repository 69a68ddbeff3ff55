----------------------------- MODULE AgentsProofs -----------------------------
(* Theorems about Agents, for any tasks, agents, strategy and bounds.        *)
EXTENDS Agents, SequenceTheorems, FiniteSetTheorems, TLAPS

Pending == {"sent", "checked", "walking", "blocked", "won"}
Asking  == Pending \cup {"named"}
Ending  == {"returned", "restarting", "disowned"}
Phases  == {"unborn", "running", "joining", "ended"} \cup Asking \cup Ending

(* Of the types, those that the argument needs.                              *)
Typing ==
    /\ pc \in [Tasks -> Phases]
    /\ stack \in [Tasks -> Seq(Agents)]
    /\ target \in [Tasks -> Agents \cup {NoAgent}]
    /\ cursor \in [Tasks -> Agents \cup {NoAgent}]
    /\ hops \in [Tasks -> 0 .. MaxChain]
    /\ todo \in [Tasks -> Seq(Agents)]
    /\ joins \in [Tasks -> SUBSET Tasks]
    /\ told \in [Tasks -> BOOLEAN]
    /\ turn \in [Agents -> Tasks \cup {NoTask}]
    /\ owner \in [Agents -> Tasks \cup {NoTask}]
    /\ queued \in [Agents -> Int]
    /\ restarts \in [Agents -> 0 .. MaxRestarts]
    /\ down \in [Agents -> BOOLEAN]
    /\ waits \in [Tasks -> Agents \cup {NoAgent}]
    /\ condition \in [Agents -> {"fresh", "crashed", "kept"}]
    /\ faults \in 0 .. MaxFaults
    /\ lost \in 0 .. MaxFaults

(* What a task keeps goes with the step it is at.                            *)
Placed(t) ==
    /\ target[t] # NoAgent <=> pc[t] \in Asking
    /\ pc[t] \in Ending => stack[t] # <<>>
    /\ cursor[t] # NoAgent <=> pc[t] = "walking"
    /\ pc[t] # "walking" => hops[t] = 0
    /\ waits[t] = IF pc[t] \in {"blocked", "won"} THEN target[t] ELSE NoAgent

(* A task runs a handler of this agent.                                      *)
On(t, a) == \E i \in 1 .. Len(stack[t]) : stack[t][i] = a

Taking(t) == pc[t] \in {"won", "named"}

(* It runs one at most, and holds the turn of each, and of the agent whose   *)
(* handler it is about to run.                                               *)
Once(t) == \A i, j \in 1 .. Len(stack[t]) : stack[t][i] = stack[t][j] => i = j

TurnsKept ==
    \A t \in Tasks :
        /\ Once(t)
        /\ Taking(t) => ~On(t, target[t])
        /\ \A a \in Agents : turn[a] = t <=> On(t, a) \/ (Taking(t) /\ target[t] = a)

(* The agent's owner is the task that runs its handler, from its start to    *)
(* its end; and nobody else, as long as no restart failed.                   *)
OwnerNamed(t, a) ==
    /\ On(t, a) /\ ~(pc[t] = "disowned" /\ Mine(t) = a) => owner[a] = t
    /\ faults = 0 /\ owner[a] = t => On(t, a)
    /\ pc[t] = "disowned" /\ Mine(t) = a => owner[a] = NoTask
OwnersNamed == \A t \in Tasks, a \in Agents : OwnerNamed(t, a)

(* One task at a time holds the lock on waits.                               *)
OneWalker == \A t, u \in Tasks : pc[t] = "walking" /\ pc[u] = "walking" => t = u

(* What a handler that raised left is still to be replaced, by the task that *)
(* ran it.                                                                   *)
Raised(t, a) ==
    /\ pc[t] = "restarting" /\ Mine(t) = a
    /\ \E i \in 1 .. Len(todo[t]) : todo[t][i] = a
CrashesSeen ==
    \A a \in Agents : condition[a] = "crashed" => \E t \in Tasks : Raised(t, a)

(* These tasks would wait for each other, if t blocked.                      *)
Closes(t, ts) ==
    t \in ts /\ \A u \in ts : (u = t \/ pc[u] = "blocked") /\ turn[target[u]] \in ts

(* The cycle t would close is not lost while it follows the chain: the links *)
(* it has passed are other tasks of it, and the next is of it.               *)
Finds(t, ts) ==
    /\ turn[cursor[t]] \in ts
    /\ \E vs \in SUBSET (ts \ {t}) :
          /\ Cardinality(vs) = hops[t]
          /\ \A u \in vs : target[u] = cursor[t] \/ turn[target[u]] \in vs
WalkFinds(t) ==
    pc[t] = "walking" =>
        \A ts \in SUBSET Tasks : Closes(t, ts) /\ Cardinality(ts) <= MaxChain => Finds(t, ts)

(* The links t has passed are still there, and lead to where it is - unless  *)
(* the last of them has its turn by now, and so handles no message yet.      *)
Leads(t, ps) ==
    /\ t \in ps
    /\ \A u \in ps : (u = t \/ pc[u] = "blocked")
                    /\ (target[u] = cursor[t] \/ turn[target[u]] \in ps)
WalkTrue(t) ==
    pc[t] = "walking" /\ faults = 0 =>
        \/ \E ps \in SUBSET Tasks : Leads(t, ps)
        \/ \E u \in Tasks \ {t} : pc[u] = "won" /\ target[u] = cursor[t]

(* The inductive invariant.                                                  *)
IInv ==
    /\ Typing
    /\ \A t \in Tasks : Placed(t)
    /\ TurnsKept /\ OwnersNamed /\ OneWalker /\ CrashesSeen
    /\ NoSilentDeadlock
    /\ \A t \in Tasks : WalkFinds(t) /\ WalkTrue(t)

------------------------------------------------------------------------------
(* The stack of a task.                                                      *)

(* A handler starts: it is the innermost.                                    *)
LEMMA Pushed ==
  ASSUME NEW s \in Seq(Agents), NEW a \in Agents
  PROVE  /\ Append(s, a) \in Seq(Agents)
         /\ Len(Append(s, a)) = Len(s) + 1 /\ Len(s) \in Nat
         /\ \A i \in 1 .. Len(s) : Append(s, a)[i] = s[i]
         /\ Append(s, a)[Len(s) + 1] = a
OBVIOUS

(* It is over: those around it are left.                                     *)
LEMMA Popped ==
  ASSUME NEW s \in Seq(Agents), s # <<>>
  PROVE  /\ SubSeq(s, 1, Len(s) - 1) \in Seq(Agents)
         /\ Len(SubSeq(s, 1, Len(s) - 1)) = Len(s) - 1
         /\ Len(s) \in Nat \ {0} /\ s[Len(s)] \in Agents
         /\ \A i \in 1 .. Len(s) - 1 : SubSeq(s, 1, Len(s) - 1)[i] = s[i]
<1>. DEFINE n == Len(s)
<1>1. n \in Nat /\ n > 0 /\ \A i \in 1 .. n : s[i] \in Agents
  OBVIOUS
<1>. HIDE DEF n
<1>2. n - 1 \in Int /\ 1 \in Int /\ \A i \in 1 .. n - 1 : s[i] \in Agents
  BY <1>1
<1>3. /\ SubSeq(s, 1, n - 1) \in Seq(Agents)
      /\ Len(SubSeq(s, 1, n - 1)) = IF 1 <= n - 1 THEN n - 1 - 1 + 1 ELSE 0
      /\ \A i \in 1 .. n - 1 - 1 + 1 : SubSeq(s, 1, n - 1)[i] = s[1 + i - 1]
  BY <1>2, SubSeqProperties
<1>4. Len(SubSeq(s, 1, n - 1)) = n - 1
  <2>1. CASE n = 1
    BY <1>3, <2>1
  <2>2. CASE n > 1
    BY <1>1, <1>3, <2>2
  <2>. QED
    BY <1>1, <2>1, <2>2
<1>5. \A i \in 1 .. n - 1 : SubSeq(s, 1, n - 1)[i] = s[i]
  BY <1>1, <1>3
<1>. QED
  BY <1>1, <1>3, <1>4, <1>5 DEF n

LEMMA MineIsOn ==
  ASSUME Typing, NEW t \in Tasks, stack[t] # <<>>
  PROVE  Mine(t) \in Agents /\ On(t, Mine(t))
<1>1. stack[t] \in Seq(Agents)
  BY DEF Typing
<1>2. Len(stack[t]) \in Nat \ {0} /\ stack[t][Len(stack[t])] \in Agents
  BY <1>1, Popped
<1>. QED
  BY <1>2 DEF Mine, On

(* Whoever restarts with an agent, the agent does.                           *)
LEMMA RestartedIncludes ==
  ASSUME NEW a \in Children
  PROVE  /\ Restarted(a) \in Seq(Agents)
         /\ \E i \in 1 .. Len(Restarted(a)) : Restarted(a)[i] = a
<1>. USE AgentsAssumption
<1>. DEFINE p == Position(a)
<1>0. Order \in Seq(Agents) /\ Len(Order) \in Nat /\ DOMAIN Order = 1 .. Len(Order)
  OBVIOUS
<1>1. p \in 1 .. Len(Order) /\ Order[p] = a
  <2>1. \E i \in DOMAIN Order : Order[i] = a
    BY DEF Children
  <2>. QED
    BY <1>0, <2>1 DEF Position
<1>2. a \in Agents
  BY <1>0, <1>1
<1>3. CASE Strategy = "one_for_one"
  <2>1. Restarted(a) = <<a>>
    BY <1>3 DEF Restarted
  <2>. QED
    BY <1>2, <2>1
<1>4. CASE Strategy = "one_for_all"
  <2>1. Restarted(a) = Order
    BY <1>4 DEF Restarted
  <2>. QED
    BY <1>0, <1>1, <2>1
<1>5. CASE Strategy = "rest_for_one"
  <2>1. Restarted(a) = SubSeq(Order, p, Len(Order))
    BY <1>5 DEF Restarted
  <2>. HIDE DEF p
  <2>2. \A i \in p .. Len(Order) : Order[i] \in Agents
    BY <1>0, <1>1
  <2>3. /\ SubSeq(Order, p, Len(Order)) \in Seq(Agents)
        /\ Len(SubSeq(Order, p, Len(Order))) = Len(Order) - p + 1
        /\ SubSeq(Order, p, Len(Order))[1] = Order[p]
    BY <1>0, <1>1, <2>2, SubSeqProperties
  <2>4. 1 \in 1 .. Len(Restarted(a))
    BY <1>0, <1>1, <2>1, <2>3
  <2>5. Restarted(a)[1] = a
    BY <1>1, <2>1, <2>3
  <2>. QED
    BY <2>1, <2>3, <2>4, <2>5, Zenon
<1>. QED
  BY <1>3, <1>4, <1>5 DEF Strategies

(* The steps keep the types.                                                 *)
LEMMA TypeStep ==
  ASSUME Typing, \A t \in Tasks : Placed(t), [Next]_vars
  PROVE  Typing'
<1>. USE AgentsAssumption
<1>1. ASSUME NEW t \in Tasks, NEW a \in Agents, Send(t, a)
      PROVE  Typing'
  <2>1. queued[a] + 1 \in Int
    BY DEF Typing
  <2>. QED
    BY <1>1, <2>1 DEF Send, Goto, Typing, Phases, Asking, Pending, Ending
<1>2. ASSUME NEW t \in Tasks, NEW c \in Tasks, NEW a \in Agents, Tell(t, c, a)
      PROVE  Typing'
  BY <1>2 DEF Tell, Goto, Typing, Phases, Asking, Pending, Ending
<1>3. ASSUME NEW t \in Tasks, Refuse(t)
      PROVE  Typing'
  <2>1. target[t] \in Agents
    BY <1>3 DEF Refuse, Placed, Typing, Asking, Pending
  <2>2. queued[target[t]] - 1 \in Int
    BY <2>1 DEF Typing
  <2>. QED
    BY <1>3, <2>1, <2>2 DEF Refuse, Drop, Back, Goto, Typing, Phases, Asking, Pending, Ending
<1>4. ASSUME NEW t \in Tasks, StartWaiting(t)
      PROVE  Typing'
  BY <1>4 DEF StartWaiting, Goto, agentVars, Typing, Phases, Asking, Pending, Ending
<1>5. ASSUME NEW t \in Tasks, LockWaits(t)
      PROVE  Typing'
  BY <1>5 DEF LockWaits, Goto, agentVars, Typing, Phases, Asking, Pending, Ending
<1>6. ASSUME NEW t \in Tasks, Follow(t)
      PROVE  Typing'
  <2>1. cursor[t] \in Agents /\ owner[cursor[t]] \in Tasks
    BY <1>6 DEF Follow, Placed, Typing
  <2>2. waits[owner[cursor[t]]] \in Agents /\ hops[t] + 1 \in 0 .. MaxChain
    BY <1>6, <2>1 DEF Follow, Typing
  <2>. QED
    BY <1>6, <2>1, <2>2 DEF Follow, agentVars, Typing, Phases, Asking, Pending, Ending
<1>7. ASSUME NEW t \in Tasks, Deadlock(t)
      PROVE  Typing'
  <2>1. target[t] \in Agents
    BY <1>7 DEF Deadlock, Placed, Typing, Asking, Pending
  <2>2. queued[target[t]] - 1 \in Int
    BY <2>1 DEF Typing
  <2>. QED
    BY <1>7, <2>1, <2>2 DEF Deadlock, Drop, Back, Goto, Typing, Phases, Asking, Pending, Ending
<1>8. ASSUME NEW t \in Tasks, Block(t)
      PROVE  Typing'
  BY <1>8 DEF Block, Goto, agentVars, Typing, Phases, Asking, Pending, Ending
<1>9. ASSUME NEW t \in Tasks, TakeTurn(t)
      PROVE  Typing'
  BY <1>9 DEF TakeTurn, Goto, Typing, Phases, Asking, Pending, Ending
<1>10. ASSUME NEW t \in Tasks, Unwait(t)
      PROVE  Typing'
  <2>1. target[t] \in Agents
    BY <1>10 DEF Unwait, Placed, Typing, Asking, Pending
  <2>2. queued[target[t]] - 1 \in Int
    BY <2>1 DEF Typing
  <2>. QED
    BY <1>10, <2>1, <2>2 DEF Unwait, Goto, Typing, Phases, Asking, Pending, Ending
<1>11. ASSUME NEW t \in Tasks, Own(t)
      PROVE  Typing'
  <2>1. target[t] \in Agents /\ stack[t] \in Seq(Agents)
    BY <1>11 DEF Own, Placed, Typing, Asking
  <2>2. Append(stack[t], target[t]) \in Seq(Agents)
    BY <2>1, Pushed
  <2>. QED
    BY <1>11, <2>1, <2>2 DEF Own, Goto, Typing, Phases, Asking, Pending, Ending
<1>12. ASSUME NEW t \in Tasks, Return(t)
      PROVE  Typing'
  BY <1>12 DEF Return, Goto, agentVars, Typing, Phases, Asking, Pending, Ending
<1>13. ASSUME NEW t \in Tasks, Crash(t)
      PROVE  Typing'
  <2>1. Mine(t) \in Agents
    BY <1>13, MineIsOn DEF Crash
  <2>2. CASE restarts[Mine(t)] >= MaxRestarts
    BY <1>13, <2>1, <2>2 DEF Crash, Goto, Typing, Phases, Asking, Pending, Ending
  <2>3. CASE ~(restarts[Mine(t)] >= MaxRestarts)
    <3>1. restarts[Mine(t)] + 1 \in 0 .. MaxRestarts
      BY <2>1, <2>3 DEF Typing
    <3>2. Restarted(Mine(t)) \in Seq(Agents)
      BY <1>13, RestartedIncludes DEF Crash
    <3>. QED
      <4>1. /\ restarts' = [restarts EXCEPT ![Mine(t)] = @ + 1]
            /\ condition' = [condition EXCEPT ![Mine(t)] = "crashed"]
            /\ todo' = [todo EXCEPT ![t] = Restarted(Mine(t))]
            /\ pc' = [pc EXCEPT ![t] = "restarting"]
            /\ UNCHANGED <<down, stack, target, cursor, hops, joins, told, turn, owner,
                           queued, waits, faults, lost>>
        BY <1>13, <2>3 DEF Crash, Goto
      <4>. QED
        BY <2>1, <3>1, <3>2, <4>1 DEF Typing, Phases, Asking, Pending, Ending
  <2>. QED
    BY <2>2, <2>3
<1>14. ASSUME NEW t \in Tasks, Restart(t)
      PROVE  Typing'
  BY <1>14 DEF Restart, agentVars, Typing, Phases, Asking, Pending, Ending
<1>15. ASSUME NEW t \in Tasks, EndRestart(t)
      PROVE  Typing'
  BY <1>15 DEF EndRestart, Goto, agentVars, Typing, Phases, Asking, Pending, Ending
<1>16. ASSUME NEW t \in Tasks, FailRestart(t)
      PROVE  Typing'
  <2>1. stack[t] \in Seq(Agents) /\ stack[t] # <<>>
    BY <1>16 DEF FailRestart, Placed, Typing, Ending
  <2>2. SubSeq(stack[t], 1, Len(stack[t]) - 1) \in Seq(Agents)
    BY <2>1, Popped
  <2>3. Mine(t) \in Agents
    BY <2>1, MineIsOn
  <2>4. faults + 1 \in 0 .. MaxFaults
    BY <1>16 DEF FailRestart, Typing
  <2>. QED
    BY <1>16, <2>2, <2>3, <2>4 DEF FailRestart, Leave, Goto, Typing, Phases, Asking, Pending, Ending
<1>17. ASSUME NEW t \in Tasks, Disown(t)
      PROVE  Typing'
  BY <1>17 DEF Disown, Mine, Goto, Typing, Phases, Asking, Pending, Ending
<1>18. ASSUME NEW t \in Tasks, GiveTurn(t)
      PROVE  Typing'
  <2>1. stack[t] \in Seq(Agents) /\ stack[t] # <<>>
    BY <1>18 DEF GiveTurn, Placed, Typing, Ending
  <2>2. SubSeq(stack[t], 1, Len(stack[t]) - 1) \in Seq(Agents)
    BY <2>1, Popped
  <2>. QED
    BY <1>18, <2>1, <2>2, MineIsOn DEF GiveTurn, Leave, Goto, Typing, Phases, Asking, Pending, Ending
<1>19. ASSUME NEW t \in Tasks, NEW cs \in Forks, Fork(t, cs)
      PROVE  Typing'
  BY <1>19 DEF Fork, agentVars, Typing, Phases, Asking, Pending, Ending, Forks
<1>20. ASSUME NEW t \in Tasks, End(t)
      PROVE  Typing'
  BY <1>20 DEF End, Goto, agentVars, Typing, Phases, Asking, Pending, Ending
<1>21. ASSUME NEW t \in Tasks, Join(t)
      PROVE  Typing'
  BY <1>21 DEF Join, Goto, agentVars, Typing, Phases, Asking, Pending, Ending
<1>22. ASSUME NEW a \in Agents, Forget(a)
      PROVE  Typing'
  BY <1>22 DEF Forget, taskVars, Typing, Phases, Asking, Pending, Ending
<1>24. ASSUME NEW t \in Tasks, NEW a \in Agents, TellWithBlock(t, a)
      PROVE  Typing'
  <2>1. queued[a] + 1 \in Int /\ lost + 1 \in 0 .. MaxFaults
    BY <1>24 DEF TellWithBlock, Typing
  <2>. QED
    BY <1>24, <2>1 DEF TellWithBlock, taskVars, Typing, Phases, Asking, Pending, Ending
<1>23. CASE UNCHANGED vars
  BY <1>23 DEF vars, taskVars, agentVars, Typing, Phases, Asking, Pending, Ending
<1>. QED
  BY <1>1, <1>2, <1>3, <1>4, <1>5, <1>6, <1>7, <1>8, <1>9, <1>10, <1>11, <1>12, <1>13, <1>14, <1>15, <1>16, <1>17, <1>18, <1>19, <1>20, <1>21, <1>22, <1>23, <1>24
  DEF Next, Asks, Leaves

(* The steps keep what goes with the place of a task.                        *)
LEMMA PlacedStep ==
  ASSUME Typing, \A t \in Tasks : Placed(t), [Next]_vars
  PROVE  \A t \in Tasks : Placed(t)'
<1>. USE AgentsAssumption
<1>. SUFFICES ASSUME NEW u \in Tasks PROVE Placed(u)'
  OBVIOUS
<1>. Placed(u)
  OBVIOUS
<1>1. ASSUME NEW t \in Tasks, NEW a \in Agents, Send(t, a)
      PROVE  Placed(u)'
  BY <1>1 DEF Send, Goto, Placed, Typing, Asking, Pending, Ending
<1>2. ASSUME NEW t \in Tasks, NEW c \in Tasks, NEW a \in Agents, Tell(t, c, a)
      PROVE  Placed(u)'
  BY <1>2 DEF Tell, Goto, Placed, Typing, Asking, Pending, Ending
<1>3. ASSUME NEW t \in Tasks, Refuse(t)
      PROVE  Placed(u)'
  BY <1>3 DEF Refuse, Drop, Back, Goto, Placed, Typing, Asking, Pending, Ending
<1>4. ASSUME NEW t \in Tasks, StartWaiting(t)
      PROVE  Placed(u)'
  BY <1>4 DEF StartWaiting, Goto, agentVars, Placed, Typing, Asking, Pending, Ending
<1>5. ASSUME NEW t \in Tasks, LockWaits(t)
      PROVE  Placed(u)'
  BY <1>5 DEF LockWaits, Goto, agentVars, Placed, Typing, Asking, Pending, Ending
<1>6. ASSUME NEW t \in Tasks, Follow(t)
      PROVE  Placed(u)'
  BY <1>6 DEF Follow, agentVars, Placed, Typing, Asking, Pending, Ending
<1>7. ASSUME NEW t \in Tasks, Deadlock(t)
      PROVE  Placed(u)'
  BY <1>7 DEF Deadlock, Drop, Back, Goto, Placed, Typing, Asking, Pending, Ending
<1>8. ASSUME NEW t \in Tasks, Block(t)
      PROVE  Placed(u)'
  BY <1>8 DEF Block, Goto, agentVars, Placed, Typing, Asking, Pending, Ending
<1>9. ASSUME NEW t \in Tasks, TakeTurn(t)
      PROVE  Placed(u)'
  BY <1>9 DEF TakeTurn, Goto, Placed, Typing, Asking, Pending, Ending
<1>10. ASSUME NEW t \in Tasks, Unwait(t)
      PROVE  Placed(u)'
  BY <1>10 DEF Unwait, Goto, Placed, Typing, Asking, Pending, Ending
<1>11. ASSUME NEW t \in Tasks, Own(t)
      PROVE  Placed(u)'
  BY <1>11 DEF Own, Goto, Placed, Typing, Asking, Pending, Ending
<1>12. ASSUME NEW t \in Tasks, Return(t)
      PROVE  Placed(u)'
  BY <1>12 DEF Return, Goto, agentVars, Placed, Typing, Asking, Pending, Ending
<1>13. ASSUME NEW t \in Tasks, Crash(t)
      PROVE  Placed(u)'
  BY <1>13 DEF Crash, Mine, Goto, Placed, Typing, Asking, Pending, Ending
<1>14. ASSUME NEW t \in Tasks, Restart(t)
      PROVE  Placed(u)'
  BY <1>14 DEF Restart, agentVars, Placed, Typing, Asking, Pending, Ending
<1>15. ASSUME NEW t \in Tasks, EndRestart(t)
      PROVE  Placed(u)'
  BY <1>15 DEF EndRestart, Goto, agentVars, Placed, Typing, Asking, Pending, Ending
<1>16. ASSUME NEW t \in Tasks, FailRestart(t)
      PROVE  Placed(u)'
  BY <1>16 DEF FailRestart, Leave, Goto, Placed, Typing, Asking, Pending, Ending
<1>17. ASSUME NEW t \in Tasks, Disown(t)
      PROVE  Placed(u)'
  BY <1>17 DEF Disown, Goto, Placed, Typing, Asking, Pending, Ending
<1>18. ASSUME NEW t \in Tasks, GiveTurn(t)
      PROVE  Placed(u)'
  BY <1>18 DEF GiveTurn, Leave, Goto, Placed, Typing, Asking, Pending, Ending
<1>19. ASSUME NEW t \in Tasks, NEW cs \in Forks, Fork(t, cs)
      PROVE  Placed(u)'
  BY <1>19 DEF Fork, agentVars, Placed, Typing, Asking, Pending, Ending
<1>20. ASSUME NEW t \in Tasks, End(t)
      PROVE  Placed(u)'
  BY <1>20 DEF End, Goto, agentVars, Placed, Typing, Asking, Pending, Ending
<1>21. ASSUME NEW t \in Tasks, Join(t)
      PROVE  Placed(u)'
  BY <1>21 DEF Join, Goto, agentVars, Placed, Typing, Asking, Pending, Ending
<1>22. ASSUME NEW a \in Agents, Forget(a)
      PROVE  Placed(u)'
  BY <1>22 DEF Forget, taskVars, Placed, Typing, Asking, Pending, Ending
<1>24. ASSUME NEW t \in Tasks, NEW a \in Agents, TellWithBlock(t, a)
      PROVE  Placed(u)'
  BY <1>24 DEF TellWithBlock, taskVars, Placed, Typing, Asking, Pending, Ending
<1>23. CASE UNCHANGED vars
  BY <1>23 DEF vars, taskVars, agentVars, Placed, Typing, Asking, Pending, Ending
<1>. QED
  BY <1>1, <1>2, <1>3, <1>4, <1>5, <1>6, <1>7, <1>8, <1>9, <1>10, <1>11, <1>12, <1>13, <1>14, <1>15, <1>16, <1>17, <1>18, <1>19, <1>20, <1>21, <1>22, <1>23, <1>24
  DEF Next, Asks, Leaves

(* A handler starts, or ends: what a task then runs.                         *)
LEMMA OwnStacks ==
  ASSUME Typing, NEW t \in Tasks, target[t] \in Agents, Own(t)
  PROVE  /\ \A u \in Tasks, a \in Agents :
               On(u, a)' <=> On(u, a) \/ (u = t /\ a = target[t])
         /\ ~On(t, target[t]) /\ (\A u \in Tasks : Once(u)) => \A u \in Tasks : Once(u)'
<1>1. /\ stack'[t] = Append(stack[t], target[t])
      /\ \A u \in Tasks : u # t => stack'[u] = stack[u]
      /\ stack[t] \in Seq(Agents)
  BY DEF Own, Typing
<1>2. /\ Len(stack'[t]) = Len(stack[t]) + 1 /\ Len(stack[t]) \in Nat
      /\ \A i \in 1 .. Len(stack[t]) : stack'[t][i] = stack[t][i]
      /\ stack'[t][Len(stack[t]) + 1] = target[t]
  BY <1>1, Pushed
<1>3. ASSUME NEW a \in Agents PROVE On(t, a)' <=> On(t, a) \/ a = target[t]
  BY <1>2 DEF On
<1>4. ASSUME NEW u \in Tasks, u # t
      PROVE  (Once(u) <=> Once(u)') /\ \A a \in Agents : On(u, a)' <=> On(u, a)
  BY <1>1, <1>4 DEF On, Once
<1>5. ASSUME ~On(t, target[t]), Once(t) PROVE Once(t)'
  BY <1>2, <1>5 DEF On, Once
<1>. QED
  BY <1>3, <1>4, <1>5

LEMMA LeaveStacks ==
  ASSUME Typing, NEW t \in Tasks, stack[t] # <<>>, Once(t), Leave(t)
  PROVE  /\ \A u \in Tasks, a \in Agents :
               On(u, a)' <=> On(u, a) /\ ~(u = t /\ a = Mine(t))
         /\ Once(t)' /\ \A u \in Tasks : Once(u) => Once(u)'
<1>1. /\ stack'[t] = SubSeq(stack[t], 1, Len(stack[t]) - 1)
      /\ \A u \in Tasks : u # t => stack'[u] = stack[u]
      /\ stack[t] \in Seq(Agents)
  BY DEF Leave, Typing
<1>2. /\ Len(stack'[t]) = Len(stack[t]) - 1 /\ Len(stack[t]) \in Nat \ {0}
      /\ \A i \in 1 .. Len(stack[t]) - 1 : stack'[t][i] = stack[t][i]
  BY <1>1, Popped
<1>3. ASSUME NEW a \in Agents PROVE On(t, a)' <=> On(t, a) /\ a # Mine(t)
  BY <1>2 DEF On, Once, Mine
<1>4. ASSUME NEW u \in Tasks, u # t
      PROVE  (Once(u) <=> Once(u)') /\ \A a \in Agents : On(u, a)' <=> On(u, a)
  BY <1>1, <1>4 DEF On, Once
<1>5. Once(t)'
  BY <1>2 DEF Once
<1>. QED
  BY <1>3, <1>4, <1>5

------------------------------------------------------------------------------
(* Turns.                                                                    *)

(* A step that neither takes a turn nor gives one.                           *)
LEMMA TurnsSame ==
  ASSUME TurnsKept, UNCHANGED <<stack, turn>>,
         \A u \in Tasks : (Taking(u)' <=> Taking(u)) /\ (Taking(u) => target'[u] = target[u])
  PROVE  TurnsKept'
<1>1. \A u \in Tasks : Once(u)' <=> Once(u)
  BY DEF Once
<1>2. \A u \in Tasks : \A a : On(u, a)' <=> On(u, a)
  BY DEF On
<1>. QED
  BY <1>1, <1>2 DEF TurnsKept

LEMMA TurnsStep ==
  ASSUME Typing, \A t \in Tasks : Placed(t), TurnsKept, [Next]_vars
  PROVE  TurnsKept'
<1>1. ASSUME NEW t \in Tasks, NEW a \in Agents, Send(t, a)
      PROVE  TurnsKept'
  <2>1. /\ UNCHANGED <<stack, turn>>
        /\ \A u \in Tasks : (Taking(u)' <=> Taking(u)) /\ (Taking(u) => target'[u] = target[u])
    BY <1>1 DEF Send, Goto, Taking, Placed, Typing, Asking, Pending, Ending
  <2>. QED
    BY <2>1, TurnsSame
<1>2. ASSUME NEW t \in Tasks, NEW c \in Tasks, NEW a \in Agents, Tell(t, c, a)
      PROVE  TurnsKept'
  <2>1. /\ UNCHANGED <<stack, turn>>
        /\ \A u \in Tasks : (Taking(u)' <=> Taking(u)) /\ (Taking(u) => target'[u] = target[u])
    BY <1>2 DEF Tell, Goto, Taking, Placed, Typing, Asking, Pending, Ending
  <2>. QED
    BY <2>1, TurnsSame
<1>3. ASSUME NEW t \in Tasks, Refuse(t)
      PROVE  TurnsKept'
  <2>1. /\ UNCHANGED <<stack, turn>>
        /\ \A u \in Tasks : (Taking(u)' <=> Taking(u)) /\ (Taking(u) => target'[u] = target[u])
    BY <1>3 DEF Refuse, Drop, Back, Goto, Taking, Placed, Typing, Asking, Pending, Ending
  <2>. QED
    BY <2>1, TurnsSame
<1>4. ASSUME NEW t \in Tasks, StartWaiting(t)
      PROVE  TurnsKept'
  <2>1. /\ UNCHANGED <<stack, turn>>
        /\ \A u \in Tasks : (Taking(u)' <=> Taking(u)) /\ (Taking(u) => target'[u] = target[u])
    BY <1>4 DEF StartWaiting, Goto, agentVars, Taking, Placed, Typing, Asking, Pending, Ending
  <2>. QED
    BY <2>1, TurnsSame
<1>5. ASSUME NEW t \in Tasks, LockWaits(t)
      PROVE  TurnsKept'
  <2>1. /\ UNCHANGED <<stack, turn>>
        /\ \A u \in Tasks : (Taking(u)' <=> Taking(u)) /\ (Taking(u) => target'[u] = target[u])
    BY <1>5 DEF LockWaits, Goto, agentVars, Taking, Placed, Typing, Asking, Pending, Ending
  <2>. QED
    BY <2>1, TurnsSame
<1>6. ASSUME NEW t \in Tasks, Follow(t)
      PROVE  TurnsKept'
  <2>1. /\ UNCHANGED <<stack, turn>>
        /\ \A u \in Tasks : (Taking(u)' <=> Taking(u)) /\ (Taking(u) => target'[u] = target[u])
    BY <1>6 DEF Follow, agentVars, Taking, Placed, Typing, Asking, Pending, Ending
  <2>. QED
    BY <2>1, TurnsSame
<1>7. ASSUME NEW t \in Tasks, Deadlock(t)
      PROVE  TurnsKept'
  <2>1. /\ UNCHANGED <<stack, turn>>
        /\ \A u \in Tasks : (Taking(u)' <=> Taking(u)) /\ (Taking(u) => target'[u] = target[u])
    BY <1>7 DEF Deadlock, Drop, Back, Goto, Taking, Placed, Typing, Asking, Pending, Ending
  <2>. QED
    BY <2>1, TurnsSame
<1>8. ASSUME NEW t \in Tasks, Block(t)
      PROVE  TurnsKept'
  <2>1. /\ UNCHANGED <<stack, turn>>
        /\ \A u \in Tasks : (Taking(u)' <=> Taking(u)) /\ (Taking(u) => target'[u] = target[u])
    BY <1>8 DEF Block, Goto, agentVars, Taking, Placed, Typing, Asking, Pending, Ending
  <2>. QED
    BY <2>1, TurnsSame
<1>9. ASSUME NEW t \in Tasks, TakeTurn(t)
      PROVE  TurnsKept'
  <2>1. /\ target[t] \in Agents /\ turn[target[t]] = NoTask
        /\ turn' = [turn EXCEPT ![target[t]] = t]
        /\ ~Taking(t) /\ Taking(t)' /\ stack' = stack /\ target' = target
        /\ \A u \in Tasks : u # t => (Taking(u)' <=> Taking(u))
    BY <1>9 DEF TakeTurn, Goto, Taking, Placed, Typing, Asking, Pending
  <2>2. \A u \in Tasks : ~On(u, target[t]) /\ ~(Taking(u) /\ target[u] = target[t])
    BY <2>1, AgentsAssumption DEF TurnsKept
  <2>3. \A u \in Tasks : (Once(u)' <=> Once(u)) /\ \A a \in Agents : On(u, a)' <=> On(u, a)
    BY <2>1 DEF Once, On
  <2>4. ASSUME NEW u \in Tasks, Taking(u)' PROVE ~On(u, target[u])' /\ target[u] \in Agents
    <3>1. u = t \/ Taking(u)
      BY <2>1, <2>4
    <3>2. target[u] \in Agents /\ ~On(u, target[u])
      BY <2>1, <2>2, <3>1 DEF TurnsKept, Taking, Placed, Typing, Asking, Pending
    <3>. QED
      BY <2>1, <2>3, <3>2 DEF On
  <2>5. ASSUME NEW u \in Tasks, NEW a \in Agents
        PROVE  turn'[a] = u <=> On(u, a)' \/ (Taking(u)' /\ target'[u] = a)
    <3>1. CASE a = target[t]
      BY <2>1, <2>2, <2>3, <3>1 DEF Typing
    <3>2. CASE a # target[t]
      BY <2>1, <2>3, <3>2 DEF TurnsKept, Typing
    <3>. QED
      BY <3>1, <3>2
  <2>. QED
    BY <2>3, <2>4, <2>5 DEF TurnsKept
<1>10. ASSUME NEW t \in Tasks, Unwait(t)
      PROVE  TurnsKept'
  <2>1. /\ UNCHANGED <<stack, turn>>
        /\ \A u \in Tasks : (Taking(u)' <=> Taking(u)) /\ (Taking(u) => target'[u] = target[u])
    BY <1>10 DEF Unwait, Goto, Taking, Placed, Typing, Asking, Pending, Ending
  <2>. QED
    BY <2>1, TurnsSame
<1>11. ASSUME NEW t \in Tasks, Own(t)
      PROVE  TurnsKept'
  <2>1. /\ target[t] \in Agents /\ turn' = turn
        /\ Taking(t) /\ ~Taking(t)'
        /\ \A u \in Tasks : u # t => (Taking(u)' <=> Taking(u)) /\ target'[u] = target[u]
    BY <1>11 DEF Own, Goto, Taking, Placed, Typing, Asking
  <2>2. /\ \A u \in Tasks, a \in Agents :
              On(u, a)' <=> On(u, a) \/ (u = t /\ a = target[t])
        /\ \A u \in Tasks : Once(u)'
    BY <1>11, <2>1, OwnStacks DEF TurnsKept
  <2>3. ASSUME NEW u \in Tasks, Taking(u)' PROVE target[u] \in Agents /\ u # t /\ Taking(u)
    BY <2>1, <2>3 DEF Taking, Placed, Typing, Asking, Pending
  <2>. QED
    BY <2>1, <2>2, <2>3 DEF TurnsKept
<1>12. ASSUME NEW t \in Tasks, Return(t)
      PROVE  TurnsKept'
  <2>1. /\ UNCHANGED <<stack, turn>>
        /\ \A u \in Tasks : (Taking(u)' <=> Taking(u)) /\ (Taking(u) => target'[u] = target[u])
    BY <1>12 DEF Return, Goto, agentVars, Taking, Placed, Typing, Asking, Pending, Ending
  <2>. QED
    BY <2>1, TurnsSame
<1>13. ASSUME NEW t \in Tasks, Crash(t)
      PROVE  TurnsKept'
  <2>1. /\ UNCHANGED <<stack, turn>>
        /\ \A u \in Tasks : (Taking(u)' <=> Taking(u)) /\ (Taking(u) => target'[u] = target[u])
    BY <1>13 DEF Crash, Goto, Taking, Placed, Typing, Asking, Pending, Ending
  <2>. QED
    BY <2>1, TurnsSame
<1>14. ASSUME NEW t \in Tasks, Restart(t)
      PROVE  TurnsKept'
  <2>1. /\ UNCHANGED <<stack, turn>>
        /\ \A u \in Tasks : (Taking(u)' <=> Taking(u)) /\ (Taking(u) => target'[u] = target[u])
    BY <1>14 DEF Restart, agentVars, Taking, Placed, Typing, Asking, Pending, Ending
  <2>. QED
    BY <2>1, TurnsSame
<1>15. ASSUME NEW t \in Tasks, EndRestart(t)
      PROVE  TurnsKept'
  <2>1. /\ UNCHANGED <<stack, turn>>
        /\ \A u \in Tasks : (Taking(u)' <=> Taking(u)) /\ (Taking(u) => target'[u] = target[u])
    BY <1>15 DEF EndRestart, Goto, agentVars, Taking, Placed, Typing, Asking, Pending, Ending
  <2>. QED
    BY <2>1, TurnsSame
<1>16. ASSUME NEW t \in Tasks, FailRestart(t)
      PROVE  TurnsKept'
  <2>1. /\ stack[t] # <<>> /\ Leave(t) /\ target' = target /\ Mine(t) \in Agents
        /\ turn' = [turn EXCEPT ![Mine(t)] = NoTask]
        /\ ~Taking(t) /\ \A u \in Tasks : Taking(u)' <=> Taking(u)
    BY <1>16, MineIsOn DEF FailRestart, Leave, Goto, Taking, Placed, Typing, Ending
  <2>2. /\ \A u \in Tasks, a \in Agents :
              On(u, a)' <=> On(u, a) /\ ~(u = t /\ a = Mine(t))
        /\ \A u \in Tasks : Once(u)'
    BY <2>1, LeaveStacks DEF TurnsKept
  <2>3. On(t, Mine(t)) /\ turn[Mine(t)] = t
    BY <2>1, MineIsOn DEF TurnsKept
  <2>4. \A u \in Tasks : Taking(u)' => Taking(u) /\ target[u] \in Agents
    BY <2>1 DEF Taking, Placed, Typing, Asking, Pending
  <2>5. ASSUME NEW u \in Tasks, Taking(u)' PROVE ~On(u, target[u])'
    BY <2>1, <2>2, <2>4, <2>5 DEF TurnsKept
  <2>6. ASSUME NEW u \in Tasks, NEW a \in Agents
        PROVE  turn'[a] = u <=> On(u, a)' \/ (Taking(u)' /\ target'[u] = a)
    <3>1. CASE a = Mine(t)
      BY <2>1, <2>2, <2>3, <3>1, AgentsAssumption DEF TurnsKept, Typing
    <3>2. CASE a # Mine(t)
      BY <2>1, <2>2, <3>2 DEF TurnsKept, Typing
    <3>. QED
      BY <3>1, <3>2
  <2>. QED
    BY <2>2, <2>5, <2>6 DEF TurnsKept
<1>17. ASSUME NEW t \in Tasks, Disown(t)
      PROVE  TurnsKept'
  <2>1. /\ UNCHANGED <<stack, turn>>
        /\ \A u \in Tasks : (Taking(u)' <=> Taking(u)) /\ (Taking(u) => target'[u] = target[u])
    BY <1>17 DEF Disown, Goto, Taking, Placed, Typing, Asking, Pending, Ending
  <2>. QED
    BY <2>1, TurnsSame
<1>18. ASSUME NEW t \in Tasks, GiveTurn(t)
      PROVE  TurnsKept'
  <2>1. /\ stack[t] # <<>> /\ Leave(t) /\ target' = target /\ Mine(t) \in Agents
        /\ turn' = [turn EXCEPT ![Mine(t)] = NoTask]
        /\ ~Taking(t) /\ \A u \in Tasks : Taking(u)' <=> Taking(u)
    BY <1>18, MineIsOn DEF GiveTurn, Leave, Goto, Taking, Placed, Typing, Ending
  <2>2. /\ \A u \in Tasks, a \in Agents :
              On(u, a)' <=> On(u, a) /\ ~(u = t /\ a = Mine(t))
        /\ \A u \in Tasks : Once(u)'
    BY <2>1, LeaveStacks DEF TurnsKept
  <2>3. On(t, Mine(t)) /\ turn[Mine(t)] = t
    BY <2>1, MineIsOn DEF TurnsKept
  <2>4. \A u \in Tasks : Taking(u)' => Taking(u) /\ target[u] \in Agents
    BY <2>1 DEF Taking, Placed, Typing, Asking, Pending
  <2>5. ASSUME NEW u \in Tasks, Taking(u)' PROVE ~On(u, target[u])'
    BY <2>1, <2>2, <2>4, <2>5 DEF TurnsKept
  <2>6. ASSUME NEW u \in Tasks, NEW a \in Agents
        PROVE  turn'[a] = u <=> On(u, a)' \/ (Taking(u)' /\ target'[u] = a)
    <3>1. CASE a = Mine(t)
      BY <2>1, <2>2, <2>3, <3>1, AgentsAssumption DEF TurnsKept, Typing
    <3>2. CASE a # Mine(t)
      BY <2>1, <2>2, <3>2 DEF TurnsKept, Typing
    <3>. QED
      BY <3>1, <3>2
  <2>. QED
    BY <2>2, <2>5, <2>6 DEF TurnsKept
<1>19. ASSUME NEW t \in Tasks, NEW cs \in Forks, Fork(t, cs)
      PROVE  TurnsKept'
  <2>1. /\ UNCHANGED <<stack, turn>>
        /\ \A u \in Tasks : (Taking(u)' <=> Taking(u)) /\ (Taking(u) => target'[u] = target[u])
    BY <1>19 DEF Fork, agentVars, Taking, Placed, Typing, Asking, Pending, Ending, Forks
  <2>. QED
    BY <2>1, TurnsSame
<1>20. ASSUME NEW t \in Tasks, End(t)
      PROVE  TurnsKept'
  <2>1. /\ UNCHANGED <<stack, turn>>
        /\ \A u \in Tasks : (Taking(u)' <=> Taking(u)) /\ (Taking(u) => target'[u] = target[u])
    BY <1>20 DEF End, Goto, agentVars, Taking, Placed, Typing, Asking, Pending, Ending
  <2>. QED
    BY <2>1, TurnsSame
<1>21. ASSUME NEW t \in Tasks, Join(t)
      PROVE  TurnsKept'
  <2>1. /\ UNCHANGED <<stack, turn>>
        /\ \A u \in Tasks : (Taking(u)' <=> Taking(u)) /\ (Taking(u) => target'[u] = target[u])
    BY <1>21 DEF Join, Goto, agentVars, Taking, Placed, Typing, Asking, Pending, Ending
  <2>. QED
    BY <2>1, TurnsSame
<1>22. ASSUME NEW a \in Agents, Forget(a)
      PROVE  TurnsKept'
  <2>1. /\ UNCHANGED <<stack, turn>>
        /\ \A u \in Tasks : (Taking(u)' <=> Taking(u)) /\ (Taking(u) => target'[u] = target[u])
    BY <1>22 DEF Forget, taskVars, Taking, Placed, Typing, Asking, Pending, Ending
  <2>. QED
    BY <2>1, TurnsSame
<1>24. ASSUME NEW t \in Tasks, NEW a \in Agents, TellWithBlock(t, a)
      PROVE  TurnsKept'
  <2>1. /\ UNCHANGED <<stack, turn>>
        /\ \A u \in Tasks : (Taking(u)' <=> Taking(u)) /\ (Taking(u) => target'[u] = target[u])
    BY <1>24 DEF TellWithBlock, taskVars, Taking, Placed, Typing, Asking, Pending, Ending
  <2>. QED
    BY <2>1, TurnsSame
<1>23. CASE UNCHANGED vars
  <2>1. /\ UNCHANGED <<stack, turn>>
        /\ \A u \in Tasks : (Taking(u)' <=> Taking(u)) /\ (Taking(u) => target'[u] = target[u])
    BY <1>23 DEF vars, taskVars, agentVars, Taking, Placed, Typing, Asking, Pending, Ending
  <2>. QED
    BY <2>1, TurnsSame
<1>. QED
  BY <1>1, <1>2, <1>3, <1>4, <1>5, <1>6, <1>7, <1>8, <1>9, <1>10, <1>11, <1>12, <1>13, <1>14, <1>15, <1>16, <1>17, <1>18, <1>19, <1>20, <1>21, <1>22, <1>23, <1>24
  DEF Next, Asks, Leaves

------------------------------------------------------------------------------
(* Owners.                                                                   *)

(* A step that neither names an owner nor ends a handler.                    *)
LEMMA OwnersSame ==
  ASSUME OwnersNamed, UNCHANGED <<stack, owner, faults>>,
         \A u \in Tasks : pc'[u] = "disowned" <=> pc[u] = "disowned"
  PROVE  OwnersNamed'
<1>1. \A u \in Tasks : Mine(u)' = Mine(u) /\ \A a : On(u, a)' <=> On(u, a)
  BY DEF Mine, On
<1>. QED
  BY <1>1 DEF OwnersNamed, OwnerNamed

LEMMA OwnersStep ==
  ASSUME Typing, \A t \in Tasks : Placed(t), TurnsKept, OwnersNamed, [Next]_vars
  PROVE  OwnersNamed'
<1>1. ASSUME NEW t \in Tasks, NEW a \in Agents, Send(t, a)
      PROVE  OwnersNamed'
  <2>1. /\ UNCHANGED <<stack, owner, faults>>
        /\ \A u \in Tasks : pc'[u] = "disowned" <=> pc[u] = "disowned"
    BY <1>1 DEF Send, Goto, Placed, Typing, Asking, Pending, Ending
  <2>. QED
    BY <2>1, OwnersSame
<1>2. ASSUME NEW t \in Tasks, NEW c \in Tasks, NEW a \in Agents, Tell(t, c, a)
      PROVE  OwnersNamed'
  <2>1. /\ UNCHANGED <<stack, owner, faults>>
        /\ \A u \in Tasks : pc'[u] = "disowned" <=> pc[u] = "disowned"
    BY <1>2 DEF Tell, Goto, Placed, Typing, Asking, Pending, Ending
  <2>. QED
    BY <2>1, OwnersSame
<1>3. ASSUME NEW t \in Tasks, Refuse(t)
      PROVE  OwnersNamed'
  <2>1. /\ UNCHANGED <<stack, owner, faults>>
        /\ \A u \in Tasks : pc'[u] = "disowned" <=> pc[u] = "disowned"
    BY <1>3 DEF Refuse, Drop, Back, Goto, Placed, Typing, Asking, Pending, Ending
  <2>. QED
    BY <2>1, OwnersSame
<1>4. ASSUME NEW t \in Tasks, StartWaiting(t)
      PROVE  OwnersNamed'
  <2>1. /\ UNCHANGED <<stack, owner, faults>>
        /\ \A u \in Tasks : pc'[u] = "disowned" <=> pc[u] = "disowned"
    BY <1>4 DEF StartWaiting, Goto, agentVars, Placed, Typing, Asking, Pending, Ending
  <2>. QED
    BY <2>1, OwnersSame
<1>5. ASSUME NEW t \in Tasks, LockWaits(t)
      PROVE  OwnersNamed'
  <2>1. /\ UNCHANGED <<stack, owner, faults>>
        /\ \A u \in Tasks : pc'[u] = "disowned" <=> pc[u] = "disowned"
    BY <1>5 DEF LockWaits, Goto, agentVars, Placed, Typing, Asking, Pending, Ending
  <2>. QED
    BY <2>1, OwnersSame
<1>6. ASSUME NEW t \in Tasks, Follow(t)
      PROVE  OwnersNamed'
  <2>1. /\ UNCHANGED <<stack, owner, faults>>
        /\ \A u \in Tasks : pc'[u] = "disowned" <=> pc[u] = "disowned"
    BY <1>6 DEF Follow, agentVars, Placed, Typing, Asking, Pending, Ending
  <2>. QED
    BY <2>1, OwnersSame
<1>7. ASSUME NEW t \in Tasks, Deadlock(t)
      PROVE  OwnersNamed'
  <2>1. /\ UNCHANGED <<stack, owner, faults>>
        /\ \A u \in Tasks : pc'[u] = "disowned" <=> pc[u] = "disowned"
    BY <1>7 DEF Deadlock, Drop, Back, Goto, Placed, Typing, Asking, Pending, Ending
  <2>. QED
    BY <2>1, OwnersSame
<1>8. ASSUME NEW t \in Tasks, Block(t)
      PROVE  OwnersNamed'
  <2>1. /\ UNCHANGED <<stack, owner, faults>>
        /\ \A u \in Tasks : pc'[u] = "disowned" <=> pc[u] = "disowned"
    BY <1>8 DEF Block, Goto, agentVars, Placed, Typing, Asking, Pending, Ending
  <2>. QED
    BY <2>1, OwnersSame
<1>9. ASSUME NEW t \in Tasks, TakeTurn(t)
      PROVE  OwnersNamed'
  <2>1. /\ UNCHANGED <<stack, owner, faults>>
        /\ \A u \in Tasks : pc'[u] = "disowned" <=> pc[u] = "disowned"
    BY <1>9 DEF TakeTurn, Goto, Placed, Typing, Asking, Pending, Ending
  <2>. QED
    BY <2>1, OwnersSame
<1>10. ASSUME NEW t \in Tasks, Unwait(t)
      PROVE  OwnersNamed'
  <2>1. /\ UNCHANGED <<stack, owner, faults>>
        /\ \A u \in Tasks : pc'[u] = "disowned" <=> pc[u] = "disowned"
    BY <1>10 DEF Unwait, Goto, Placed, Typing, Asking, Pending, Ending
  <2>. QED
    BY <2>1, OwnersSame
<1>11. ASSUME NEW t \in Tasks, Own(t)
      PROVE  OwnersNamed'
  <2>1. /\ target[t] \in Agents /\ owner' = [owner EXCEPT ![target[t]] = t]
        /\ Taking(t) /\ faults' = faults /\ pc'[t] = "running"
        /\ \A u \in Tasks : u # t => pc'[u] = pc[u] /\ stack'[u] = stack[u]
    BY <1>11 DEF Own, Goto, Taking, Placed, Typing, Asking
  <2>2. \A u \in Tasks, a \in Agents :
            On(u, a)' <=> On(u, a) \/ (u = t /\ a = target[t])
    BY <1>11, <2>1, OwnStacks DEF TurnsKept
  <2>3. \A u \in Tasks : On(u, target[t]) => u = t
    BY <2>1 DEF TurnsKept
  <2>4. \A u \in Tasks : u # t => Mine(u)' = Mine(u)
    BY <2>1 DEF Mine
  <2>5. \A u \in Tasks : pc[u] = "disowned" => On(u, Mine(u)) /\ pc[t] # "disowned"
    BY <2>1, MineIsOn DEF Placed, Ending, Taking
  <2>6. ASSUME NEW u \in Tasks, NEW a \in Agents PROVE OwnerNamed(u, a)'
    <3>1. CASE u = t
      BY <2>1, <2>2, <3>1 DEF OwnersNamed, OwnerNamed, Typing, Taking
    <3>2. CASE u # t /\ a = target[t]
      BY <2>1, <2>2, <2>3, <2>4, <2>5, <3>2 DEF OwnersNamed, OwnerNamed, Typing
    <3>3. CASE u # t /\ a # target[t]
      BY <2>1, <2>2, <2>4, <3>3 DEF OwnersNamed, OwnerNamed, Typing
    <3>. QED
      BY <3>1, <3>2, <3>3
  <2>. QED
    BY <2>6 DEF OwnersNamed
<1>12. ASSUME NEW t \in Tasks, Return(t)
      PROVE  OwnersNamed'
  <2>1. /\ UNCHANGED <<stack, owner, faults>>
        /\ \A u \in Tasks : pc'[u] = "disowned" <=> pc[u] = "disowned"
    BY <1>12 DEF Return, Goto, agentVars, Placed, Typing, Asking, Pending, Ending
  <2>. QED
    BY <2>1, OwnersSame
<1>13. ASSUME NEW t \in Tasks, Crash(t)
      PROVE  OwnersNamed'
  <2>1. /\ UNCHANGED <<stack, owner, faults>>
        /\ \A u \in Tasks : pc'[u] = "disowned" <=> pc[u] = "disowned"
    BY <1>13 DEF Crash, Goto, Placed, Typing, Asking, Pending, Ending
  <2>. QED
    BY <2>1, OwnersSame
<1>14. ASSUME NEW t \in Tasks, Restart(t)
      PROVE  OwnersNamed'
  <2>1. /\ UNCHANGED <<stack, owner, faults>>
        /\ \A u \in Tasks : pc'[u] = "disowned" <=> pc[u] = "disowned"
    BY <1>14 DEF Restart, agentVars, Placed, Typing, Asking, Pending, Ending
  <2>. QED
    BY <2>1, OwnersSame
<1>15. ASSUME NEW t \in Tasks, EndRestart(t)
      PROVE  OwnersNamed'
  <2>1. /\ UNCHANGED <<stack, owner, faults>>
        /\ \A u \in Tasks : pc'[u] = "disowned" <=> pc[u] = "disowned"
    BY <1>15 DEF EndRestart, Goto, agentVars, Placed, Typing, Asking, Pending, Ending
  <2>. QED
    BY <2>1, OwnersSame
<1>16. ASSUME NEW t \in Tasks, FailRestart(t)
      PROVE  OwnersNamed'
  <2>1. /\ stack[t] # <<>> /\ Leave(t) /\ owner' = owner /\ Mine(t) \in Agents
        /\ pc[t] = "restarting" /\ pc'[t] # "disowned" /\ faults' = faults + 1 /\ faults \in Nat
        /\ \A u \in Tasks : u # t => pc'[u] = pc[u] /\ stack'[u] = stack[u]
    <3>1. /\ stack[t] # <<>> /\ stack[t] \in Seq(Agents) /\ pc[t] = "restarting"
          /\ faults \in Nat
      BY <1>16 DEF FailRestart, Placed, Typing, Ending
    <3>2. Leave(t) /\ owner' = owner /\ faults' = faults + 1
      BY <1>16 DEF FailRestart
    <3>3. Mine(t) \in Agents
      BY <3>1, MineIsOn
    <3>4. /\ pc'[t] # "disowned"
          /\ \A u \in Tasks : u # t => pc'[u] = pc[u] /\ stack'[u] = stack[u]
      BY <3>2 DEF Leave, Goto, Typing
    <3>. QED
      BY <3>1, <3>2, <3>3, <3>4
  <2>2. /\ \A u \in Tasks, a \in Agents :
              On(u, a)' <=> On(u, a) /\ ~(u = t /\ a = Mine(t))
    BY <2>1, LeaveStacks DEF TurnsKept
  <2>3. \A u \in Tasks : u # t => Mine(u)' = Mine(u)
    BY <2>1 DEF Mine
  <2>6. ASSUME NEW u \in Tasks, NEW a \in Agents PROVE OwnerNamed(u, a)'
    <3>1. CASE u = t
      <4>1. faults' # 0 /\ pc'[t] # "disowned" /\ pc[t] # "disowned"
        BY <2>1
      <4>2. On(t, a)' => On(t, a)
        BY <2>2
      <4>3. On(t, a) => owner[a] = t
        BY <4>1 DEF OwnersNamed, OwnerNamed
      <4>. QED
        BY <2>1, <3>1, <4>1, <4>2, <4>3 DEF OwnerNamed
    <3>2. CASE u # t
      <4>1. pc'[u] = pc[u] /\ owner'[a] = owner[a] /\ (faults' = 0 => faults = 0)
        BY <2>1, <3>2
      <4>2. (On(u, a)' <=> On(u, a)) /\ Mine(u)' = Mine(u)
        BY <2>2, <2>3, <3>2
      <4>3. OwnerNamed(u, a)
        BY DEF OwnersNamed
      <4>. QED
        BY <4>1, <4>2, <4>3 DEF OwnerNamed
    <3>. QED
      BY <3>1, <3>2
  <2>. QED
    BY <2>6 DEF OwnersNamed
<1>17. ASSUME NEW t \in Tasks, Disown(t)
      PROVE  OwnersNamed'
  <2>1. /\ Mine(t) \in Agents /\ On(t, Mine(t)) /\ turn[Mine(t)] = t
        /\ owner' = [owner EXCEPT ![Mine(t)] = NoTask] /\ stack' = stack
        /\ faults' = faults /\ pc'[t] = "disowned" /\ pc[t] # "disowned"
        /\ \A u \in Tasks : u # t => pc'[u] = pc[u]
    BY <1>17, MineIsOn DEF Disown, Goto, Placed, Typing, Ending, TurnsKept
  <2>2. \A u \in Tasks : Mine(u)' = Mine(u) /\ \A a \in Agents : On(u, a)' <=> On(u, a)
    BY <2>1 DEF Mine, On
  <2>3. \A u \in Tasks : On(u, Mine(t)) => u = t
    BY <2>1 DEF TurnsKept
  <2>6. ASSUME NEW u \in Tasks, NEW a \in Agents PROVE OwnerNamed(u, a)'
    <3>1. CASE a = Mine(t)
      BY <2>1, <2>2, <2>3, <3>1, AgentsAssumption DEF OwnersNamed, OwnerNamed, Typing
    <3>2. CASE a # Mine(t)
      BY <2>1, <2>2, <3>2 DEF OwnersNamed, OwnerNamed, Typing
    <3>. QED
      BY <3>1, <3>2
  <2>. QED
    BY <2>6 DEF OwnersNamed
<1>18. ASSUME NEW t \in Tasks, GiveTurn(t)
      PROVE  OwnersNamed'
  <2>1. /\ stack[t] # <<>> /\ Leave(t) /\ owner' = owner /\ Mine(t) \in Agents
        /\ pc[t] = "disowned" /\ pc'[t] # "disowned" /\ faults' = faults /\ faults \in Nat
        /\ \A u \in Tasks : u # t => pc'[u] = pc[u] /\ stack'[u] = stack[u]
    BY <1>18, MineIsOn DEF GiveTurn, Leave, Goto, Placed, Typing, Ending
  <2>2. /\ \A u \in Tasks, a \in Agents :
              On(u, a)' <=> On(u, a) /\ ~(u = t /\ a = Mine(t))
    BY <2>1, LeaveStacks DEF TurnsKept
  <2>3. \A u \in Tasks : u # t => Mine(u)' = Mine(u)
    BY <2>1 DEF Mine
  <2>6. ASSUME NEW u \in Tasks, NEW a \in Agents PROVE OwnerNamed(u, a)'
    <3>1. CASE u = t
      BY <2>1, <2>2, <3>1, AgentsAssumption DEF OwnersNamed, OwnerNamed, Typing
    <3>2. CASE u # t
      <4>1. pc'[u] = pc[u] /\ owner'[a] = owner[a] /\ (faults' = 0 => faults = 0)
        BY <2>1, <3>2
      <4>2. (On(u, a)' <=> On(u, a)) /\ Mine(u)' = Mine(u)
        BY <2>2, <2>3, <3>2
      <4>3. OwnerNamed(u, a)
        BY DEF OwnersNamed
      <4>. QED
        BY <4>1, <4>2, <4>3 DEF OwnerNamed
    <3>. QED
      BY <3>1, <3>2
  <2>. QED
    BY <2>6 DEF OwnersNamed
<1>19. ASSUME NEW t \in Tasks, NEW cs \in Forks, Fork(t, cs)
      PROVE  OwnersNamed'
  <2>1. /\ UNCHANGED <<stack, owner, faults>>
        /\ \A u \in Tasks : pc'[u] = "disowned" <=> pc[u] = "disowned"
    BY <1>19 DEF Fork, agentVars, Placed, Typing, Asking, Pending, Ending, Forks
  <2>. QED
    BY <2>1, OwnersSame
<1>20. ASSUME NEW t \in Tasks, End(t)
      PROVE  OwnersNamed'
  <2>1. /\ UNCHANGED <<stack, owner, faults>>
        /\ \A u \in Tasks : pc'[u] = "disowned" <=> pc[u] = "disowned"
    BY <1>20 DEF End, Goto, agentVars, Placed, Typing, Asking, Pending, Ending
  <2>. QED
    BY <2>1, OwnersSame
<1>21. ASSUME NEW t \in Tasks, Join(t)
      PROVE  OwnersNamed'
  <2>1. /\ UNCHANGED <<stack, owner, faults>>
        /\ \A u \in Tasks : pc'[u] = "disowned" <=> pc[u] = "disowned"
    BY <1>21 DEF Join, Goto, agentVars, Placed, Typing, Asking, Pending, Ending
  <2>. QED
    BY <2>1, OwnersSame
<1>22. ASSUME NEW a \in Agents, Forget(a)
      PROVE  OwnersNamed'
  <2>1. /\ UNCHANGED <<stack, owner, faults>>
        /\ \A u \in Tasks : pc'[u] = "disowned" <=> pc[u] = "disowned"
    BY <1>22 DEF Forget, taskVars, Placed, Typing, Asking, Pending, Ending
  <2>. QED
    BY <2>1, OwnersSame
<1>24. ASSUME NEW t \in Tasks, NEW a \in Agents, TellWithBlock(t, a)
      PROVE  OwnersNamed'
  <2>1. /\ UNCHANGED <<stack, owner, faults>>
        /\ \A u \in Tasks : pc'[u] = "disowned" <=> pc[u] = "disowned"
    BY <1>24 DEF TellWithBlock, taskVars, Placed, Typing, Asking, Pending, Ending
  <2>. QED
    BY <2>1, OwnersSame
<1>23. CASE UNCHANGED vars
  <2>1. /\ UNCHANGED <<stack, owner, faults>>
        /\ \A u \in Tasks : pc'[u] = "disowned" <=> pc[u] = "disowned"
    BY <1>23 DEF vars, taskVars, agentVars, Placed, Typing, Asking, Pending, Ending
  <2>. QED
    BY <2>1, OwnersSame
<1>. QED
  BY <1>1, <1>2, <1>3, <1>4, <1>5, <1>6, <1>7, <1>8, <1>9, <1>10, <1>11, <1>12, <1>13, <1>14, <1>15, <1>16, <1>17, <1>18, <1>19, <1>20, <1>21, <1>22, <1>23, <1>24
  DEF Next, Asks, Leaves

------------------------------------------------------------------------------
(* The lock on waits is held while a chain is followed.                      *)
LEMMA WalkerStep ==
  ASSUME Typing, OneWalker, [Next]_vars
  PROVE  OneWalker'
<1>1. ASSUME NEW t \in Tasks, NEW a \in Agents, Send(t, a)
      PROVE  OneWalker'
  BY <1>1 DEF Send, Goto, Placed, Typing, Asking, Pending, Ending, OneWalker, WaitsFree
<1>2. ASSUME NEW t \in Tasks, NEW c \in Tasks, NEW a \in Agents, Tell(t, c, a)
      PROVE  OneWalker'
  BY <1>2 DEF Tell, Goto, Placed, Typing, Asking, Pending, Ending, OneWalker, WaitsFree
<1>3. ASSUME NEW t \in Tasks, Refuse(t)
      PROVE  OneWalker'
  BY <1>3 DEF Refuse, Drop, Back, Goto, Placed, Typing, Asking, Pending, Ending, OneWalker, WaitsFree
<1>4. ASSUME NEW t \in Tasks, StartWaiting(t)
      PROVE  OneWalker'
  BY <1>4 DEF StartWaiting, Goto, agentVars, Placed, Typing, Asking, Pending, Ending, OneWalker, WaitsFree
<1>5. ASSUME NEW t \in Tasks, LockWaits(t)
      PROVE  OneWalker'
  BY <1>5 DEF LockWaits, Goto, agentVars, Placed, Typing, Asking, Pending, Ending, OneWalker, WaitsFree
<1>6. ASSUME NEW t \in Tasks, Follow(t)
      PROVE  OneWalker'
  BY <1>6 DEF Follow, agentVars, Placed, Typing, Asking, Pending, Ending, OneWalker, WaitsFree
<1>7. ASSUME NEW t \in Tasks, Deadlock(t)
      PROVE  OneWalker'
  BY <1>7 DEF Deadlock, Drop, Back, Goto, Placed, Typing, Asking, Pending, Ending, OneWalker, WaitsFree
<1>8. ASSUME NEW t \in Tasks, Block(t)
      PROVE  OneWalker'
  BY <1>8 DEF Block, Goto, agentVars, Placed, Typing, Asking, Pending, Ending, OneWalker, WaitsFree
<1>9. ASSUME NEW t \in Tasks, TakeTurn(t)
      PROVE  OneWalker'
  BY <1>9 DEF TakeTurn, Goto, Placed, Typing, Asking, Pending, Ending, OneWalker, WaitsFree
<1>10. ASSUME NEW t \in Tasks, Unwait(t)
      PROVE  OneWalker'
  BY <1>10 DEF Unwait, Goto, Placed, Typing, Asking, Pending, Ending, OneWalker, WaitsFree
<1>11. ASSUME NEW t \in Tasks, Own(t)
      PROVE  OneWalker'
  BY <1>11 DEF Own, Goto, Placed, Typing, Asking, Pending, Ending, OneWalker, WaitsFree
<1>12. ASSUME NEW t \in Tasks, Return(t)
      PROVE  OneWalker'
  BY <1>12 DEF Return, Goto, agentVars, Placed, Typing, Asking, Pending, Ending, OneWalker, WaitsFree
<1>13. ASSUME NEW t \in Tasks, Crash(t)
      PROVE  OneWalker'
  <2>1. \A u \in Tasks : pc'[u] = "walking" => pc[u] = "walking"
    BY <1>13 DEF Crash, Goto, Typing
  <2>. QED
    BY <2>1 DEF OneWalker
<1>14. ASSUME NEW t \in Tasks, Restart(t)
      PROVE  OneWalker'
  BY <1>14 DEF Restart, agentVars, Placed, Typing, Asking, Pending, Ending, OneWalker, WaitsFree
<1>15. ASSUME NEW t \in Tasks, EndRestart(t)
      PROVE  OneWalker'
  BY <1>15 DEF EndRestart, Goto, agentVars, Placed, Typing, Asking, Pending, Ending, OneWalker, WaitsFree
<1>16. ASSUME NEW t \in Tasks, FailRestart(t)
      PROVE  OneWalker'
  BY <1>16 DEF FailRestart, Leave, Goto, Placed, Typing, Asking, Pending, Ending, OneWalker, WaitsFree
<1>17. ASSUME NEW t \in Tasks, Disown(t)
      PROVE  OneWalker'
  BY <1>17 DEF Disown, Goto, Placed, Typing, Asking, Pending, Ending, OneWalker, WaitsFree
<1>18. ASSUME NEW t \in Tasks, GiveTurn(t)
      PROVE  OneWalker'
  BY <1>18 DEF GiveTurn, Leave, Goto, Placed, Typing, Asking, Pending, Ending, OneWalker, WaitsFree
<1>19. ASSUME NEW t \in Tasks, NEW cs \in Forks, Fork(t, cs)
      PROVE  OneWalker'
  BY <1>19 DEF Fork, agentVars, Placed, Typing, Asking, Pending, Ending, OneWalker, WaitsFree, Forks
<1>20. ASSUME NEW t \in Tasks, End(t)
      PROVE  OneWalker'
  BY <1>20 DEF End, Goto, agentVars, Placed, Typing, Asking, Pending, Ending, OneWalker, WaitsFree
<1>21. ASSUME NEW t \in Tasks, Join(t)
      PROVE  OneWalker'
  BY <1>21 DEF Join, Goto, agentVars, Placed, Typing, Asking, Pending, Ending, OneWalker, WaitsFree
<1>22. ASSUME NEW a \in Agents, Forget(a)
      PROVE  OneWalker'
  BY <1>22 DEF Forget, taskVars, Placed, Typing, Asking, Pending, Ending, OneWalker, WaitsFree
<1>24. ASSUME NEW t \in Tasks, NEW a \in Agents, TellWithBlock(t, a)
      PROVE  OneWalker'
  BY <1>24 DEF TellWithBlock, taskVars, Placed, Typing, Asking, Pending, Ending, OneWalker, WaitsFree
<1>23. CASE UNCHANGED vars
  BY <1>23 DEF vars, taskVars, agentVars, Placed, Typing, Asking, Pending, Ending, OneWalker, WaitsFree
<1>. QED
  BY <1>1, <1>2, <1>3, <1>4, <1>5, <1>6, <1>7, <1>8, <1>9, <1>10, <1>11, <1>12, <1>13, <1>14, <1>15, <1>16, <1>17, <1>18, <1>19, <1>20, <1>21, <1>22, <1>23, <1>24
  DEF Next, Asks, Leaves

------------------------------------------------------------------------------
(* Crashes.                                                                  *)

(* A step of no handler that raised.                                         *)
LEMMA CrashesSame ==
  ASSUME CrashesSeen, UNCHANGED condition,
         \A u \in Tasks : pc[u] = "restarting" =>
             pc'[u] = pc[u] /\ stack'[u] = stack[u] /\ todo'[u] = todo[u]
  PROVE  CrashesSeen'
<1>1. \A u \in Tasks, a \in Agents : Raised(u, a) => Raised(u, a)'
  BY DEF Raised, Mine
<1>. QED
  BY <1>1 DEF CrashesSeen

LEMMA CrashesStep ==
  ASSUME Typing, CrashesSeen, [Next]_vars
  PROVE  CrashesSeen'
<1>1. ASSUME NEW t \in Tasks, NEW a \in Agents, Send(t, a)
      PROVE  CrashesSeen'
  <2>1. /\ UNCHANGED condition
        /\ \A u \in Tasks : pc[u] = "restarting" =>
               pc'[u] = pc[u] /\ stack'[u] = stack[u] /\ todo'[u] = todo[u]
    BY <1>1 DEF Send, Goto, Placed, Typing, Asking, Pending, Ending
  <2>. QED
    BY <2>1, CrashesSame
<1>2. ASSUME NEW t \in Tasks, NEW c \in Tasks, NEW a \in Agents, Tell(t, c, a)
      PROVE  CrashesSeen'
  <2>1. /\ UNCHANGED condition
        /\ \A u \in Tasks : pc[u] = "restarting" =>
               pc'[u] = pc[u] /\ stack'[u] = stack[u] /\ todo'[u] = todo[u]
    BY <1>2 DEF Tell, Goto, Placed, Typing, Asking, Pending, Ending
  <2>. QED
    BY <2>1, CrashesSame
<1>3. ASSUME NEW t \in Tasks, Refuse(t)
      PROVE  CrashesSeen'
  <2>1. /\ UNCHANGED condition
        /\ \A u \in Tasks : pc[u] = "restarting" =>
               pc'[u] = pc[u] /\ stack'[u] = stack[u] /\ todo'[u] = todo[u]
    BY <1>3 DEF Refuse, Drop, Back, Goto, Placed, Typing, Asking, Pending, Ending
  <2>. QED
    BY <2>1, CrashesSame
<1>4. ASSUME NEW t \in Tasks, StartWaiting(t)
      PROVE  CrashesSeen'
  <2>1. /\ UNCHANGED condition
        /\ \A u \in Tasks : pc[u] = "restarting" =>
               pc'[u] = pc[u] /\ stack'[u] = stack[u] /\ todo'[u] = todo[u]
    BY <1>4 DEF StartWaiting, Goto, agentVars, Placed, Typing, Asking, Pending, Ending
  <2>. QED
    BY <2>1, CrashesSame
<1>5. ASSUME NEW t \in Tasks, LockWaits(t)
      PROVE  CrashesSeen'
  <2>1. /\ UNCHANGED condition
        /\ \A u \in Tasks : pc[u] = "restarting" =>
               pc'[u] = pc[u] /\ stack'[u] = stack[u] /\ todo'[u] = todo[u]
    BY <1>5 DEF LockWaits, Goto, agentVars, Placed, Typing, Asking, Pending, Ending
  <2>. QED
    BY <2>1, CrashesSame
<1>6. ASSUME NEW t \in Tasks, Follow(t)
      PROVE  CrashesSeen'
  <2>1. /\ UNCHANGED condition
        /\ \A u \in Tasks : pc[u] = "restarting" =>
               pc'[u] = pc[u] /\ stack'[u] = stack[u] /\ todo'[u] = todo[u]
    BY <1>6 DEF Follow, agentVars, Placed, Typing, Asking, Pending, Ending
  <2>. QED
    BY <2>1, CrashesSame
<1>7. ASSUME NEW t \in Tasks, Deadlock(t)
      PROVE  CrashesSeen'
  <2>1. /\ UNCHANGED condition
        /\ \A u \in Tasks : pc[u] = "restarting" =>
               pc'[u] = pc[u] /\ stack'[u] = stack[u] /\ todo'[u] = todo[u]
    BY <1>7 DEF Deadlock, Drop, Back, Goto, Placed, Typing, Asking, Pending, Ending
  <2>. QED
    BY <2>1, CrashesSame
<1>8. ASSUME NEW t \in Tasks, Block(t)
      PROVE  CrashesSeen'
  <2>1. /\ UNCHANGED condition
        /\ \A u \in Tasks : pc[u] = "restarting" =>
               pc'[u] = pc[u] /\ stack'[u] = stack[u] /\ todo'[u] = todo[u]
    BY <1>8 DEF Block, Goto, agentVars, Placed, Typing, Asking, Pending, Ending
  <2>. QED
    BY <2>1, CrashesSame
<1>9. ASSUME NEW t \in Tasks, TakeTurn(t)
      PROVE  CrashesSeen'
  <2>1. /\ UNCHANGED condition
        /\ \A u \in Tasks : pc[u] = "restarting" =>
               pc'[u] = pc[u] /\ stack'[u] = stack[u] /\ todo'[u] = todo[u]
    BY <1>9 DEF TakeTurn, Goto, Placed, Typing, Asking, Pending, Ending
  <2>. QED
    BY <2>1, CrashesSame
<1>10. ASSUME NEW t \in Tasks, Unwait(t)
      PROVE  CrashesSeen'
  <2>1. /\ UNCHANGED condition
        /\ \A u \in Tasks : pc[u] = "restarting" =>
               pc'[u] = pc[u] /\ stack'[u] = stack[u] /\ todo'[u] = todo[u]
    BY <1>10 DEF Unwait, Goto, Placed, Typing, Asking, Pending, Ending
  <2>. QED
    BY <2>1, CrashesSame
<1>11. ASSUME NEW t \in Tasks, Own(t)
      PROVE  CrashesSeen'
  <2>1. /\ UNCHANGED condition
        /\ \A u \in Tasks : pc[u] = "restarting" =>
               pc'[u] = pc[u] /\ stack'[u] = stack[u] /\ todo'[u] = todo[u]
    BY <1>11 DEF Own, Goto, Placed, Typing, Asking, Pending, Ending
  <2>. QED
    BY <2>1, CrashesSame
<1>12. ASSUME NEW t \in Tasks, Return(t)
      PROVE  CrashesSeen'
  <2>1. /\ UNCHANGED condition
        /\ \A u \in Tasks : pc[u] = "restarting" =>
               pc'[u] = pc[u] /\ stack'[u] = stack[u] /\ todo'[u] = todo[u]
    BY <1>12 DEF Return, Goto, agentVars, Placed, Typing, Asking, Pending, Ending
  <2>. QED
    BY <2>1, CrashesSame
<1>13. ASSUME NEW t \in Tasks, Crash(t)
      PROVE  CrashesSeen'
  <2>1. Mine(t) \in Agents /\ stack' = stack
    BY <1>13, MineIsOn DEF Crash
  <2>2. CASE restarts[Mine(t)] >= MaxRestarts
    <3>1. /\ condition' = [condition EXCEPT ![Mine(t)] = "kept"] /\ todo' = todo
          /\ \A u \in Tasks : pc[u] = "restarting" => pc'[u] = pc[u]
      BY <1>13, <2>2 DEF Crash, Goto, Typing
    <3>. QED
      <4>1. \A u \in Tasks, a \in Agents : Raised(u, a) => Raised(u, a)'
        BY <2>1, <3>1 DEF Raised, Mine
      <4>2. \A a \in Agents : condition'[a] = "crashed" => condition[a] = "crashed"
        BY <2>1, <3>1 DEF Typing
      <4>. QED
        BY <4>1, <4>2 DEF CrashesSeen
  <2>3. CASE ~(restarts[Mine(t)] >= MaxRestarts)
    <3>1. /\ condition' = [condition EXCEPT ![Mine(t)] = "crashed"]
          /\ todo' = [todo EXCEPT ![t] = Restarted(Mine(t))]
          /\ pc'[t] = "restarting" /\ pc[t] # "restarting"
          /\ \A u \in Tasks : u # t => pc'[u] = pc[u]
      BY <1>13, <2>3 DEF Crash, Goto, Typing
    <3>2. Raised(t, Mine(t))'
      <4>1. \E i \in 1 .. Len(Restarted(Mine(t))) : Restarted(Mine(t))[i] = Mine(t)
        BY <1>13, RestartedIncludes DEF Crash
      <4>2. todo'[t] = Restarted(Mine(t)) /\ Mine(t)' = Mine(t)
        BY <2>1, <3>1 DEF Typing, Mine
      <4>. QED
        BY <3>1, <4>1, <4>2 DEF Raised
    <3>3. \A u \in Tasks, a \in Agents : Raised(u, a) => Raised(u, a)'
      BY <2>1, <3>1 DEF Raised, Mine, Typing
    <3>. QED
      <4>1. Mine(t)' = Mine(t)
        BY <2>1 DEF Mine
      <4>2. \A a \in Agents : condition'[a] = "crashed" => a = Mine(t) \/ condition[a] = "crashed"
        BY <2>1, <3>1 DEF Typing
      <4>. QED
        BY <3>2, <3>3, <4>1, <4>2 DEF CrashesSeen, Raised
  <2>. QED
    BY <2>2, <2>3
<1>14. ASSUME NEW t \in Tasks, Restart(t)
      PROVE  CrashesSeen'
  <2>1. /\ todo[t] \in Seq(Agents) /\ todo[t] # <<>> /\ stack' = stack /\ pc' = pc
        /\ todo' = [todo EXCEPT ![t] = Tail(todo[t])]
        /\ condition' = [condition EXCEPT ![Head(todo[t])] = "fresh"]
    BY <1>14 DEF Restart, Typing
  <2>2. ASSUME NEW a \in Agents, condition'[a] = "crashed" PROVE \E u \in Tasks : Raised(u, a)'
    <3>1. condition[a] = "crashed" /\ a # Head(todo[t])
      BY <2>1, <2>2 DEF Typing
    <3>2. PICK u \in Tasks : Raised(u, a)
      BY <3>1 DEF CrashesSeen
    <3>3. CASE u # t
      BY <2>1, <3>2, <3>3 DEF Raised, Mine, Typing
    <3>4. CASE u = t
      <4>1. PICK i \in 1 .. Len(todo[t]) : todo[t][i] = a
        BY <3>2, <3>4 DEF Raised
      <4>2. i # 1 /\ i - 1 \in 1 .. Len(Tail(todo[t])) /\ Tail(todo[t])[i - 1] = a
        BY <2>1, <3>1, <4>1
      <4>. QED
        BY <2>1, <3>2, <3>4, <4>2 DEF Raised, Mine, Typing
    <3>. QED
      BY <3>3, <3>4
  <2>. QED
    BY <2>2 DEF CrashesSeen
<1>15. ASSUME NEW t \in Tasks, EndRestart(t)
      PROVE  CrashesSeen'
  <2>1. /\ \A i \in 1 .. Len(todo[t]) : FALSE
        /\ UNCHANGED <<stack, todo>> /\ \A u \in Tasks : u # t => pc'[u] = pc[u]
    BY <1>15 DEF EndRestart, Goto, Typing
  <2>2. \A u \in Tasks, a \in Agents : Raised(u, a) => Raised(u, a)'
    BY <2>1 DEF Raised, Mine
  <2>. QED
    BY <1>15, <2>2 DEF EndRestart, CrashesSeen
<1>16. ASSUME NEW t \in Tasks, FailRestart(t)
      PROVE  CrashesSeen'
  <2>1. /\ condition' = [condition EXCEPT ![Mine(t)] = "kept"]
        /\ \A u \in Tasks : u # t => /\ pc'[u] = pc[u] /\ stack'[u] = stack[u]
                                     /\ todo'[u] = todo[u]
    BY <1>16 DEF FailRestart, Leave, Goto, Typing
  <2>2. \A u \in Tasks, a \in Agents : Raised(u, a) /\ u # t => Raised(u, a)'
    BY <2>1 DEF Raised, Mine
  <2>3. \A a \in Agents : Raised(t, a) => condition'[a] = "kept"
    BY <2>1 DEF Raised, Typing
  <2>4. \A a \in Agents : condition'[a] = "crashed" => condition[a] = "crashed"
    BY <2>1 DEF Typing
  <2>. QED
    BY <2>2, <2>3, <2>4 DEF CrashesSeen
<1>17. ASSUME NEW t \in Tasks, Disown(t)
      PROVE  CrashesSeen'
  <2>1. /\ UNCHANGED condition
        /\ \A u \in Tasks : pc[u] = "restarting" =>
               pc'[u] = pc[u] /\ stack'[u] = stack[u] /\ todo'[u] = todo[u]
    BY <1>17 DEF Disown, Goto, Placed, Typing, Asking, Pending, Ending
  <2>. QED
    BY <2>1, CrashesSame
<1>18. ASSUME NEW t \in Tasks, GiveTurn(t)
      PROVE  CrashesSeen'
  <2>1. /\ UNCHANGED condition
        /\ \A u \in Tasks : pc[u] = "restarting" =>
               pc'[u] = pc[u] /\ stack'[u] = stack[u] /\ todo'[u] = todo[u]
    BY <1>18 DEF GiveTurn, Leave, Goto, Placed, Typing, Asking, Pending, Ending
  <2>. QED
    BY <2>1, CrashesSame
<1>19. ASSUME NEW t \in Tasks, NEW cs \in Forks, Fork(t, cs)
      PROVE  CrashesSeen'
  <2>1. /\ UNCHANGED condition
        /\ \A u \in Tasks : pc[u] = "restarting" =>
               pc'[u] = pc[u] /\ stack'[u] = stack[u] /\ todo'[u] = todo[u]
    BY <1>19 DEF Fork, agentVars, Placed, Typing, Asking, Pending, Ending, Forks
  <2>. QED
    BY <2>1, CrashesSame
<1>20. ASSUME NEW t \in Tasks, End(t)
      PROVE  CrashesSeen'
  <2>1. /\ UNCHANGED condition
        /\ \A u \in Tasks : pc[u] = "restarting" =>
               pc'[u] = pc[u] /\ stack'[u] = stack[u] /\ todo'[u] = todo[u]
    BY <1>20 DEF End, Goto, agentVars, Placed, Typing, Asking, Pending, Ending
  <2>. QED
    BY <2>1, CrashesSame
<1>21. ASSUME NEW t \in Tasks, Join(t)
      PROVE  CrashesSeen'
  <2>1. /\ UNCHANGED condition
        /\ \A u \in Tasks : pc[u] = "restarting" =>
               pc'[u] = pc[u] /\ stack'[u] = stack[u] /\ todo'[u] = todo[u]
    BY <1>21 DEF Join, Goto, agentVars, Placed, Typing, Asking, Pending, Ending
  <2>. QED
    BY <2>1, CrashesSame
<1>22. ASSUME NEW a \in Agents, Forget(a)
      PROVE  CrashesSeen'
  <2>1. /\ UNCHANGED condition
        /\ \A u \in Tasks : pc[u] = "restarting" =>
               pc'[u] = pc[u] /\ stack'[u] = stack[u] /\ todo'[u] = todo[u]
    BY <1>22 DEF Forget, taskVars, Placed, Typing, Asking, Pending, Ending
  <2>. QED
    BY <2>1, CrashesSame
<1>24. ASSUME NEW t \in Tasks, NEW a \in Agents, TellWithBlock(t, a)
      PROVE  CrashesSeen'
  <2>1. /\ UNCHANGED condition
        /\ \A u \in Tasks : pc[u] = "restarting" =>
               pc'[u] = pc[u] /\ stack'[u] = stack[u] /\ todo'[u] = todo[u]
    BY <1>24 DEF TellWithBlock, taskVars, Placed, Typing, Asking, Pending, Ending
  <2>. QED
    BY <2>1, CrashesSame
<1>23. CASE UNCHANGED vars
  <2>1. /\ UNCHANGED condition
        /\ \A u \in Tasks : pc[u] = "restarting" =>
               pc'[u] = pc[u] /\ stack'[u] = stack[u] /\ todo'[u] = todo[u]
    BY <1>23 DEF vars, taskVars, agentVars, Placed, Typing, Asking, Pending, Ending
  <2>. QED
    BY <2>1, CrashesSame
<1>. QED
  BY <1>1, <1>2, <1>3, <1>4, <1>5, <1>6, <1>7, <1>8, <1>9, <1>10, <1>11, <1>12, <1>13, <1>14, <1>15, <1>16, <1>17, <1>18, <1>19, <1>20, <1>21, <1>22, <1>23, <1>24
  DEF Next, Asks, Leaves

------------------------------------------------------------------------------
(* Tasks that wait.                                                          *)

(* Who waits after a step waited before, or has followed its chain to the    *)
(* end; and a turn is taken by a task that then waits no more.               *)
WaitedBefore ==
    /\ \A u \in Tasks : pc'[u] = "blocked" =>
           target'[u] = target[u] /\ (pc[u] = "blocked" \/ (pc[u] = "walking" /\ Block(u)))
    /\ \A a \in Agents, v \in Tasks : turn'[a] = v /\ turn[a] # v => pc'[v] = "won"

LEMMA WaitedBeforeStep ==
  ASSUME Typing, \A t \in Tasks : Placed(t), [Next]_vars
  PROVE  WaitedBefore
<1>. USE AgentsAssumption DEF WaitedBefore
<1>1. ASSUME NEW t \in Tasks, NEW a \in Agents, Send(t, a)
      PROVE  WaitedBefore
  BY <1>1 DEF Send, Goto, Placed, Typing, Asking, Pending, Ending
<1>2. ASSUME NEW t \in Tasks, NEW c \in Tasks, NEW a \in Agents, Tell(t, c, a)
      PROVE  WaitedBefore
  BY <1>2 DEF Tell, Goto, Placed, Typing, Asking, Pending, Ending
<1>3. ASSUME NEW t \in Tasks, Refuse(t)
      PROVE  WaitedBefore
  BY <1>3 DEF Refuse, Drop, Back, Goto, Placed, Typing, Asking, Pending, Ending
<1>4. ASSUME NEW t \in Tasks, StartWaiting(t)
      PROVE  WaitedBefore
  BY <1>4 DEF StartWaiting, Goto, agentVars, Placed, Typing, Asking, Pending, Ending
<1>5. ASSUME NEW t \in Tasks, LockWaits(t)
      PROVE  WaitedBefore
  BY <1>5 DEF LockWaits, Goto, agentVars, Placed, Typing, Asking, Pending, Ending
<1>6. ASSUME NEW t \in Tasks, Follow(t)
      PROVE  WaitedBefore
  BY <1>6 DEF Follow, agentVars, Placed, Typing, Asking, Pending, Ending
<1>7. ASSUME NEW t \in Tasks, Deadlock(t)
      PROVE  WaitedBefore
  BY <1>7 DEF Deadlock, Drop, Back, Goto, Placed, Typing, Asking, Pending, Ending
<1>8. ASSUME NEW t \in Tasks, Block(t)
      PROVE  WaitedBefore
  BY <1>8 DEF Block, Goto, agentVars, Placed, Typing, Asking, Pending, Ending
<1>9. ASSUME NEW t \in Tasks, TakeTurn(t)
      PROVE  WaitedBefore
  BY <1>9 DEF TakeTurn, Goto, Placed, Typing, Asking, Pending, Ending
<1>10. ASSUME NEW t \in Tasks, Unwait(t)
      PROVE  WaitedBefore
  BY <1>10 DEF Unwait, Goto, Placed, Typing, Asking, Pending, Ending
<1>11. ASSUME NEW t \in Tasks, Own(t)
      PROVE  WaitedBefore
  BY <1>11 DEF Own, Goto, Placed, Typing, Asking, Pending, Ending
<1>12. ASSUME NEW t \in Tasks, Return(t)
      PROVE  WaitedBefore
  BY <1>12 DEF Return, Goto, agentVars, Placed, Typing, Asking, Pending, Ending
<1>13. ASSUME NEW t \in Tasks, Crash(t)
      PROVE  WaitedBefore
  BY <1>13 DEF Crash, Goto, Placed, Typing, Asking, Pending, Ending
<1>14. ASSUME NEW t \in Tasks, Restart(t)
      PROVE  WaitedBefore
  BY <1>14 DEF Restart, agentVars, Placed, Typing, Asking, Pending, Ending
<1>15. ASSUME NEW t \in Tasks, EndRestart(t)
      PROVE  WaitedBefore
  BY <1>15 DEF EndRestart, Goto, agentVars, Placed, Typing, Asking, Pending, Ending
<1>16. ASSUME NEW t \in Tasks, FailRestart(t)
      PROVE  WaitedBefore
  BY <1>16 DEF FailRestart, Leave, Goto, Placed, Typing, Asking, Pending, Ending
<1>17. ASSUME NEW t \in Tasks, Disown(t)
      PROVE  WaitedBefore
  BY <1>17 DEF Disown, Goto, Placed, Typing, Asking, Pending, Ending
<1>18. ASSUME NEW t \in Tasks, GiveTurn(t)
      PROVE  WaitedBefore
  BY <1>18 DEF GiveTurn, Leave, Goto, Placed, Typing, Asking, Pending, Ending
<1>19. ASSUME NEW t \in Tasks, NEW cs \in Forks, Fork(t, cs)
      PROVE  WaitedBefore
  BY <1>19 DEF Fork, agentVars, Placed, Typing, Asking, Pending, Ending, Forks
<1>20. ASSUME NEW t \in Tasks, End(t)
      PROVE  WaitedBefore
  BY <1>20 DEF End, Goto, agentVars, Placed, Typing, Asking, Pending, Ending
<1>21. ASSUME NEW t \in Tasks, Join(t)
      PROVE  WaitedBefore
  BY <1>21 DEF Join, Goto, agentVars, Placed, Typing, Asking, Pending, Ending
<1>22. ASSUME NEW a \in Agents, Forget(a)
      PROVE  WaitedBefore
  BY <1>22 DEF Forget, taskVars, Placed, Typing, Asking, Pending, Ending
<1>24. ASSUME NEW t \in Tasks, NEW a \in Agents, TellWithBlock(t, a)
      PROVE  WaitedBefore
  BY <1>24 DEF TellWithBlock, taskVars, Placed, Typing, Asking, Pending, Ending
<1>23. CASE UNCHANGED vars
  BY <1>23 DEF vars, taskVars, agentVars, Placed, Typing, Asking, Pending, Ending
<1>. QED
  BY <1>1, <1>2, <1>3, <1>4, <1>5, <1>6, <1>7, <1>8, <1>9, <1>10, <1>11, <1>12, <1>13, <1>14, <1>15, <1>16, <1>17, <1>18, <1>19, <1>20, <1>21, <1>22, <1>23, <1>24
  DEF Next, Asks, Leaves

(* Who waits goes on waiting, or its turn has come; it keeps the turns it    *)
(* has; and no task that has its turn goes on while a chain is followed.     *)
WaitsOn ==
    /\ \A u \in Tasks : pc[u] = "blocked" =>
          /\ target'[u] = target[u]
          /\ pc'[u] = "blocked" \/ (pc'[u] = "won" /\ turn[target[u]] = NoTask)
    /\ \A a \in Agents, v \in Tasks :
          turn[a] = v /\ pc[v] \in {"blocked", "walking"} => turn'[a] = v
    /\ (\E t \in Tasks : pc[t] = "walking") =>
          \A u \in Tasks : pc[u] = "won" => pc'[u] = "won" /\ target'[u] = target[u]
    /\ faults' = 0 => faults = 0

LEMMA WaitsOnStep ==
  ASSUME Typing, \A t \in Tasks : Placed(t), TurnsKept, [Next]_vars
  PROVE  WaitsOn
<1>. USE AgentsAssumption
<1>1. ASSUME NEW t \in Tasks, NEW a \in Agents, Send(t, a)
      PROVE  WaitsOn
  BY <1>1 DEF Send, Goto, Placed, Typing, Asking, Pending, Ending, WaitsOn, WaitsFree
<1>2. ASSUME NEW t \in Tasks, NEW c \in Tasks, NEW a \in Agents, Tell(t, c, a)
      PROVE  WaitsOn
  BY <1>2 DEF Tell, Goto, Placed, Typing, Asking, Pending, Ending, WaitsOn, WaitsFree
<1>3. ASSUME NEW t \in Tasks, Refuse(t)
      PROVE  WaitsOn
  BY <1>3 DEF Refuse, Drop, Back, Goto, Placed, Typing, Asking, Pending, Ending, WaitsOn, WaitsFree
<1>4. ASSUME NEW t \in Tasks, StartWaiting(t)
      PROVE  WaitsOn
  BY <1>4 DEF StartWaiting, Goto, agentVars, Placed, Typing, Asking, Pending, Ending, WaitsOn, WaitsFree
<1>5. ASSUME NEW t \in Tasks, LockWaits(t)
      PROVE  WaitsOn
  BY <1>5 DEF LockWaits, Goto, agentVars, Placed, Typing, Asking, Pending, Ending, WaitsOn, WaitsFree
<1>6. ASSUME NEW t \in Tasks, Follow(t)
      PROVE  WaitsOn
  BY <1>6 DEF Follow, agentVars, Placed, Typing, Asking, Pending, Ending, WaitsOn, WaitsFree
<1>7. ASSUME NEW t \in Tasks, Deadlock(t)
      PROVE  WaitsOn
  BY <1>7 DEF Deadlock, Drop, Back, Goto, Placed, Typing, Asking, Pending, Ending, WaitsOn, WaitsFree
<1>8. ASSUME NEW t \in Tasks, Block(t)
      PROVE  WaitsOn
  BY <1>8 DEF Block, Goto, agentVars, Placed, Typing, Asking, Pending, Ending, WaitsOn, WaitsFree
<1>9. ASSUME NEW t \in Tasks, TakeTurn(t)
      PROVE  WaitsOn
  BY <1>9 DEF TakeTurn, Goto, Placed, Typing, Asking, Pending, Ending, WaitsOn, WaitsFree
<1>10. ASSUME NEW t \in Tasks, Unwait(t)
      PROVE  WaitsOn
  BY <1>10 DEF Unwait, Goto, Placed, Typing, Asking, Pending, Ending, WaitsOn, WaitsFree
<1>11. ASSUME NEW t \in Tasks, Own(t)
      PROVE  WaitsOn
  BY <1>11 DEF Own, Goto, Placed, Typing, Asking, Pending, Ending, WaitsOn, WaitsFree
<1>12. ASSUME NEW t \in Tasks, Return(t)
      PROVE  WaitsOn
  BY <1>12 DEF Return, Goto, agentVars, Placed, Typing, Asking, Pending, Ending, WaitsOn, WaitsFree
<1>13. ASSUME NEW t \in Tasks, Crash(t)
      PROVE  WaitsOn
  BY <1>13 DEF Crash, Goto, Placed, Typing, Asking, Pending, Ending, WaitsOn, WaitsFree
<1>14. ASSUME NEW t \in Tasks, Restart(t)
      PROVE  WaitsOn
  BY <1>14 DEF Restart, agentVars, Placed, Typing, Asking, Pending, Ending, WaitsOn, WaitsFree
<1>15. ASSUME NEW t \in Tasks, EndRestart(t)
      PROVE  WaitsOn
  BY <1>15 DEF EndRestart, Goto, agentVars, Placed, Typing, Asking, Pending, Ending, WaitsOn, WaitsFree
<1>16. ASSUME NEW t \in Tasks, FailRestart(t)
      PROVE  WaitsOn
  <2>1. /\ Mine(t) \in Agents /\ turn[Mine(t)] = t
        /\ pc[t] \in Ending /\ turn' = [turn EXCEPT ![Mine(t)] = NoTask]
    BY <1>16, MineIsOn DEF FailRestart, Leave, Placed, Ending, TurnsKept
  <2>2. /\ target' = target /\ \A u \in Tasks : u # t => pc'[u] = pc[u]
        /\ faults' = 0 => faults = 0
    BY <1>16 DEF FailRestart, Leave, Goto, Typing
  <2>. QED
    BY <2>1, <2>2 DEF WaitsOn, Typing, Ending
<1>17. ASSUME NEW t \in Tasks, Disown(t)
      PROVE  WaitsOn
  BY <1>17 DEF Disown, Goto, Placed, Typing, Asking, Pending, Ending, WaitsOn, WaitsFree
<1>18. ASSUME NEW t \in Tasks, GiveTurn(t)
      PROVE  WaitsOn
  <2>1. /\ Mine(t) \in Agents /\ turn[Mine(t)] = t
        /\ pc[t] \in Ending /\ turn' = [turn EXCEPT ![Mine(t)] = NoTask]
    BY <1>18, MineIsOn DEF GiveTurn, Leave, Placed, Ending, TurnsKept
  <2>2. /\ target' = target /\ \A u \in Tasks : u # t => pc'[u] = pc[u]
        /\ faults' = 0 => faults = 0
    BY <1>18 DEF GiveTurn, Leave, Goto, Typing
  <2>. QED
    BY <2>1, <2>2 DEF WaitsOn, Typing, Ending
<1>19. ASSUME NEW t \in Tasks, NEW cs \in Forks, Fork(t, cs)
      PROVE  WaitsOn
  BY <1>19 DEF Fork, agentVars, Placed, Typing, Asking, Pending, Ending, WaitsOn, WaitsFree, Forks
<1>20. ASSUME NEW t \in Tasks, End(t)
      PROVE  WaitsOn
  BY <1>20 DEF End, Goto, agentVars, Placed, Typing, Asking, Pending, Ending, WaitsOn, WaitsFree
<1>21. ASSUME NEW t \in Tasks, Join(t)
      PROVE  WaitsOn
  BY <1>21 DEF Join, Goto, agentVars, Placed, Typing, Asking, Pending, Ending, WaitsOn, WaitsFree
<1>22. ASSUME NEW a \in Agents, Forget(a)
      PROVE  WaitsOn
  BY <1>22 DEF Forget, taskVars, Placed, Typing, Asking, Pending, Ending, WaitsOn, WaitsFree
<1>24. ASSUME NEW t \in Tasks, NEW a \in Agents, TellWithBlock(t, a)
      PROVE  WaitsOn
  BY <1>24 DEF TellWithBlock, taskVars, Placed, Typing, Asking, Pending, Ending, WaitsOn, WaitsFree
<1>23. CASE UNCHANGED vars
  BY <1>23 DEF vars, taskVars, agentVars, Placed, Typing, Asking, Pending, Ending, WaitsOn, WaitsFree
<1>. QED
  BY <1>1, <1>2, <1>3, <1>4, <1>5, <1>6, <1>7, <1>8, <1>9, <1>10, <1>11, <1>12, <1>13, <1>14, <1>15, <1>16, <1>17, <1>18, <1>19, <1>20, <1>21, <1>22, <1>23, <1>24
  DEF Next, Asks, Leaves

(* A task that follows a chain has begun to, or is one link further, or is   *)
(* where it was.                                                             *)
Walks(t) ==
    pc'[t] = "walking" =>
        \/ LockWaits(t)
        \/ Follow(t)
        \/ pc[t] = "walking" /\ cursor'[t] = cursor[t] /\ hops'[t] = hops[t] /\ target'[t] = target[t]

LEMMA WalksStep ==
  ASSUME Typing, [Next]_vars, NEW u \in Tasks
  PROVE  Walks(u)
<1>1. ASSUME NEW t \in Tasks, NEW a \in Agents, Send(t, a)
      PROVE  Walks(u)
  BY <1>1 DEF Send, Goto, Placed, Typing, Asking, Pending, Ending, Walks
<1>2. ASSUME NEW t \in Tasks, NEW c \in Tasks, NEW a \in Agents, Tell(t, c, a)
      PROVE  Walks(u)
  BY <1>2 DEF Tell, Goto, Placed, Typing, Asking, Pending, Ending, Walks
<1>3. ASSUME NEW t \in Tasks, Refuse(t)
      PROVE  Walks(u)
  BY <1>3 DEF Refuse, Drop, Back, Goto, Placed, Typing, Asking, Pending, Ending, Walks
<1>4. ASSUME NEW t \in Tasks, StartWaiting(t)
      PROVE  Walks(u)
  BY <1>4 DEF StartWaiting, Goto, agentVars, Placed, Typing, Asking, Pending, Ending, Walks
<1>5. ASSUME NEW t \in Tasks, LockWaits(t)
      PROVE  Walks(u)
  <2>1. CASE u = t
    BY <1>5, <2>1 DEF Walks
  <2>2. CASE u # t
    BY <1>5, <2>2 DEF LockWaits, Goto, agentVars, Placed, Typing, Asking, Pending, Ending, Walks
  <2>. QED
    BY <2>1, <2>2
<1>6. ASSUME NEW t \in Tasks, Follow(t)
      PROVE  Walks(u)
  <2>1. CASE u = t
    BY <1>6, <2>1 DEF Walks
  <2>2. CASE u # t
    BY <1>6, <2>2 DEF Follow, agentVars, Placed, Typing, Asking, Pending, Ending, Walks
  <2>. QED
    BY <2>1, <2>2
<1>7. ASSUME NEW t \in Tasks, Deadlock(t)
      PROVE  Walks(u)
  BY <1>7 DEF Deadlock, Drop, Back, Goto, Placed, Typing, Asking, Pending, Ending, Walks
<1>8. ASSUME NEW t \in Tasks, Block(t)
      PROVE  Walks(u)
  BY <1>8 DEF Block, Goto, agentVars, Placed, Typing, Asking, Pending, Ending, Walks
<1>9. ASSUME NEW t \in Tasks, TakeTurn(t)
      PROVE  Walks(u)
  BY <1>9 DEF TakeTurn, Goto, Placed, Typing, Asking, Pending, Ending, Walks
<1>10. ASSUME NEW t \in Tasks, Unwait(t)
      PROVE  Walks(u)
  BY <1>10 DEF Unwait, Goto, Placed, Typing, Asking, Pending, Ending, Walks
<1>11. ASSUME NEW t \in Tasks, Own(t)
      PROVE  Walks(u)
  BY <1>11 DEF Own, Goto, Placed, Typing, Asking, Pending, Ending, Walks
<1>12. ASSUME NEW t \in Tasks, Return(t)
      PROVE  Walks(u)
  BY <1>12 DEF Return, Goto, agentVars, Placed, Typing, Asking, Pending, Ending, Walks
<1>13. ASSUME NEW t \in Tasks, Crash(t)
      PROVE  Walks(u)
  BY <1>13 DEF Crash, Goto, Placed, Typing, Asking, Pending, Ending, Walks
<1>14. ASSUME NEW t \in Tasks, Restart(t)
      PROVE  Walks(u)
  BY <1>14 DEF Restart, agentVars, Placed, Typing, Asking, Pending, Ending, Walks
<1>15. ASSUME NEW t \in Tasks, EndRestart(t)
      PROVE  Walks(u)
  BY <1>15 DEF EndRestart, Goto, agentVars, Placed, Typing, Asking, Pending, Ending, Walks
<1>16. ASSUME NEW t \in Tasks, FailRestart(t)
      PROVE  Walks(u)
  BY <1>16 DEF FailRestart, Leave, Goto, Placed, Typing, Asking, Pending, Ending, Walks
<1>17. ASSUME NEW t \in Tasks, Disown(t)
      PROVE  Walks(u)
  BY <1>17 DEF Disown, Goto, Placed, Typing, Asking, Pending, Ending, Walks
<1>18. ASSUME NEW t \in Tasks, GiveTurn(t)
      PROVE  Walks(u)
  BY <1>18 DEF GiveTurn, Leave, Goto, Placed, Typing, Asking, Pending, Ending, Walks
<1>19. ASSUME NEW t \in Tasks, NEW cs \in Forks, Fork(t, cs)
      PROVE  Walks(u)
  BY <1>19 DEF Fork, agentVars, Placed, Typing, Asking, Pending, Ending, Walks, Forks
<1>20. ASSUME NEW t \in Tasks, End(t)
      PROVE  Walks(u)
  BY <1>20 DEF End, Goto, agentVars, Placed, Typing, Asking, Pending, Ending, Walks
<1>21. ASSUME NEW t \in Tasks, Join(t)
      PROVE  Walks(u)
  BY <1>21 DEF Join, Goto, agentVars, Placed, Typing, Asking, Pending, Ending, Walks
<1>22. ASSUME NEW a \in Agents, Forget(a)
      PROVE  Walks(u)
  BY <1>22 DEF Forget, taskVars, Placed, Typing, Asking, Pending, Ending, Walks
<1>24. ASSUME NEW t \in Tasks, NEW a \in Agents, TellWithBlock(t, a)
      PROVE  Walks(u)
  BY <1>24 DEF TellWithBlock, taskVars, Placed, Typing, Asking, Pending, Ending, Walks
<1>23. CASE UNCHANGED vars
  BY <1>23 DEF vars, taskVars, agentVars, Placed, Typing, Asking, Pending, Ending, Walks
<1>. QED
  BY <1>1, <1>2, <1>3, <1>4, <1>5, <1>6, <1>7, <1>8, <1>9, <1>10, <1>11, <1>12, <1>13, <1>14, <1>15, <1>16, <1>17, <1>18, <1>19, <1>20, <1>21, <1>22, <1>23, <1>24
  DEF Next, Asks, Leaves

------------------------------------------------------------------------------
(* No cycle.                                                                 *)

(* Who holds the agent of a link, of tasks that wait, is its owner.          *)
LEMMA HolderOwns ==
  ASSUME Typing, TurnsKept, OwnersNamed,
         NEW v \in Tasks, NEW a \in Agents, turn[a] = v, pc[v] \in {"blocked", "walking"}
  PROVE  On(v, a) /\ owner[a] = v
<1>1. On(v, a)
  BY DEF TurnsKept, Taking
<1>. QED
  BY <1>1 DEF OwnersNamed, OwnerNamed

(* The cycle that t would close has a link beyond those t has passed.        *)
LEMMA LinksLeft ==
  ASSUME NEW t \in Tasks, NEW ts \in SUBSET Tasks, t \in ts, Cardinality(ts) <= MaxChain,
         NEW vs \in SUBSET (ts \ {t})
  PROVE  /\ IsFiniteSet(vs) /\ Cardinality(vs) \in Nat
         /\ Cardinality(vs) < MaxChain /\ Cardinality(vs) < Cardinality(ts)
<1>1. IsFiniteSet(ts)
  BY FS_Subset, AgentsAssumption
<1>2. IsFiniteSet(ts \ {t}) /\ Cardinality(ts \ {t}) = Cardinality(ts) - 1
  BY <1>1, FS_RemoveElement
<1>3. IsFiniteSet(vs) /\ Cardinality(vs) <= Cardinality(ts \ {t})
  BY <1>2, FS_Subset
<1>4. Cardinality(ts) \in Nat /\ Cardinality(vs) \in Nat
  BY <1>1, <1>3, FS_CardinalityType
<1>. QED
  BY <1>2, <1>3, <1>4, AgentsAssumption

(* A task that blocks closes no cycle: it would have found itself.           *)
LEMMA BlockCloses ==
  ASSUME IInv, NEW t \in Tasks, Block(t), NEW ts \in SUBSET Tasks,
         Cardinality(ts) <= MaxChain, Closes(t, ts)
  PROVE  FALSE
<1>1. pc[t] = "walking" /\ cursor[t] \in Agents /\ ChainEnds(t)
  BY DEF Block, IInv, Placed, Typing
<1>2. Finds(t, ts)
  BY <1>1 DEF IInv, WalkFinds
<1>3. PICK v \in ts : turn[cursor[t]] = v
  BY <1>2 DEF Finds
<1>4. v \in Tasks /\ (v = t \/ pc[v] = "blocked") /\ t \in ts
  BY DEF Closes
<1>5. owner[cursor[t]] = v
  BY <1>1, <1>3, <1>4, HolderOwns DEF IInv
<1>6. v = t \/ waits[v] # NoAgent
  BY <1>4 DEF IInv, Placed, Asking, Pending
<1>7. CASE hops[t] = MaxChain
  <2>1. PICK vs \in SUBSET (ts \ {t}) : Cardinality(vs) = hops[t]
    BY <1>2 DEF Finds
  <2>. QED
    BY <1>4, <1>7, <2>1, LinksLeft, AgentsAssumption
<1>8. CASE hops[t] # MaxChain
  BY <1>1, <1>4, <1>5, <1>6, <1>8, AgentsAssumption DEF ChainEnds
<1>. QED
  BY <1>7, <1>8

LEMMA NoCycleStep ==
  ASSUME IInv, [Next]_vars
  PROVE  NoSilentDeadlock'
<1>. SUFFICES ASSUME NEW ts \in SUBSET Tasks, Cardinality(ts) <= MaxChain, Cycle(ts)'
              PROVE  FALSE
  BY DEF NoSilentDeadlock
<1>1. WaitedBefore /\ Typing /\ \A u \in Tasks : Placed(u)
  BY WaitedBeforeStep DEF IInv
<1>2. ts # {} /\ \A u \in ts : pc'[u] = "blocked" /\ turn'[target'[u]] \in ts
  BY DEF Cycle
<1>3. \A u \in ts : target'[u] = target[u] /\ target[u] \in Agents
  BY <1>1, <1>2 DEF WaitedBefore, Placed, Typing, Asking, Pending
<1>4. \A u \in ts : turn[target[u]] \in ts
  BY <1>1, <1>2, <1>3 DEF WaitedBefore
<1>5. CASE \A u \in ts : pc[u] = "blocked"
  BY <1>2, <1>4, <1>5 DEF IInv, NoSilentDeadlock, Cycle
<1>6. ASSUME NEW t \in ts, pc[t] # "blocked" PROVE FALSE
  <2>1. pc[t] = "walking" /\ Block(t)
    BY <1>1, <1>2, <1>6 DEF WaitedBefore
  <2>2. \A u \in ts : u = t \/ pc[u] = "blocked"
    BY <1>1, <1>2, <2>1 DEF WaitedBefore, IInv, OneWalker
  <2>. QED
    BY <1>4, <2>1, <2>2, BlockCloses DEF Closes
<1>. QED
  BY <1>5, <1>6

(* What t would close was so before the step.                                *)
LEMMA ClosedBefore ==
  ASSUME IInv, [Next]_vars, NEW t \in Tasks, pc[t] = "walking" \/ LockWaits(t),
         pc'[t] = "walking", target'[t] = target[t], target[t] \in Agents,
         NEW ts \in SUBSET Tasks, Closes(t, ts)'
  PROVE  /\ \A u \in ts : target'[u] = target[u] /\ target[u] \in Agents
         /\ \A u \in ts : turn[target[u]] \in ts
         /\ pc[t] = "walking" => Closes(t, ts)
         /\ \A u \in ts : u = t \/ pc'[u] = "blocked"
<1>1. WaitedBefore /\ Typing /\ \A u \in Tasks : Placed(u)
  BY WaitedBeforeStep DEF IInv
<1>2. t \in ts /\ \A u \in ts : (u = t \/ pc'[u] = "blocked") /\ turn'[target'[u]] \in ts
  BY DEF Closes
<1>3. \A u \in ts : target'[u] = target[u] /\ target[u] \in Agents
  BY <1>1, <1>2 DEF WaitedBefore, Placed, Typing, Asking, Pending
<1>4. \A u \in ts : turn[target[u]] \in ts
  BY <1>1, <1>2, <1>3 DEF WaitedBefore
<1>5. ASSUME pc[t] = "walking", NEW u \in ts, u # t PROVE pc[u] = "blocked"
  BY <1>1, <1>2, <1>5 DEF WaitedBefore, IInv, OneWalker
<1>. QED
  BY <1>2, <1>3, <1>4, <1>5 DEF Closes

LEMMA WalkFindsStep ==
  ASSUME IInv, [Next]_vars, NEW t \in Tasks
  PROVE  WalkFinds(t)'
<1>. SUFFICES ASSUME pc'[t] = "walking", NEW ts \in SUBSET Tasks, Closes(t, ts)',
                     Cardinality(ts) <= MaxChain
              PROVE  Finds(t, ts)'
  BY DEF WalkFinds
<1>1. Walks(t) /\ WaitsOn /\ Typing /\ \A u \in Tasks : Placed(u)
  BY WalksStep, WaitsOnStep DEF IInv
<1>2. t \in ts /\ t \in Tasks
  BY DEF Closes
<1>3. CASE LockWaits(t)
  <2>1. /\ target[t] \in Agents /\ target' = target /\ turn' = turn
        /\ cursor'[t] = target[t] /\ hops'[t] = 0
    BY <1>1, <1>3 DEF LockWaits, agentVars, Placed, Typing, Asking, Pending
  <2>2. turn[target[t]] \in ts
    BY <1>2, <1>3, <2>1, ClosedBefore
  <2>3. Cardinality({}) = 0 /\ {} \in SUBSET (ts \ {t})
    BY FS_EmptySet
  <2>. QED
    BY <2>1, <2>2, <2>3 DEF Finds
<1>4. CASE Follow(t)
  <2>1. /\ pc[t] = "walking" /\ target' = target /\ turn' = turn /\ cursor[t] \in Agents
        /\ target[t] \in Agents
    BY <1>1, <1>4 DEF Follow, agentVars, Placed, Typing, Asking, Pending
  <2>2. Closes(t, ts)
    BY <1>4, <2>1, ClosedBefore
  <2>3. Finds(t, ts)
    BY <2>1, <2>2 DEF IInv, WalkFinds
  <2>4. PICK v \in ts : turn[cursor[t]] = v
    BY <2>3 DEF Finds
  <2>5. PICK vs \in SUBSET (ts \ {t}) :
           /\ Cardinality(vs) = hops[t]
           /\ \A u \in vs : target[u] = cursor[t] \/ turn[target[u]] \in vs
    BY <2>3 DEF Finds
  <2>6. owner[cursor[t]] = v
    BY <2>1, <2>2, <2>4, HolderOwns DEF IInv, Closes
  <2>7. v # t /\ cursor'[t] = waits[v] /\ hops'[t] = hops[t] + 1
    BY <1>1, <1>4, <2>6 DEF Follow, Typing
  <2>8. pc[v] = "blocked" /\ waits[v] = target[v] /\ turn[target[v]] \in ts
    BY <1>1, <2>2, <2>7 DEF Closes, Placed
  <2>9. v \notin vs
    <3>1. SUFFICES ASSUME v \in vs PROVE FALSE
      OBVIOUS
    <3>2. Cycle(vs)
      BY <2>2, <2>4, <2>5, <3>1 DEF Cycle, Closes
    <3>3. Cardinality(vs) <= MaxChain
      BY <1>2, LinksLeft, AgentsAssumption
    <3>. QED
      BY <3>2, <3>3 DEF IInv, NoSilentDeadlock
  <2>10. vs \cup {v} \in SUBSET (ts \ {t})
    BY <2>7
  <2>11. Cardinality(vs \cup {v}) = hops[t] + 1
    BY <1>2, <2>5, <2>9, LinksLeft, FS_AddElement
  <2>12. \A u \in vs \cup {v} : target[u] = waits[v] \/ turn[target[u]] \in vs \cup {v}
    BY <2>4, <2>5, <2>8
  <2>. QED
    BY <2>1, <2>7, <2>8, <2>10, <2>11, <2>12 DEF Finds
<1>5. CASE /\ pc[t] = "walking" /\ cursor'[t] = cursor[t]
           /\ hops'[t] = hops[t] /\ target'[t] = target[t]
  <2>1. target[t] \in Agents /\ cursor[t] \in Agents
    BY <1>1, <1>5 DEF Placed, Typing, Asking, Pending
  <2>2. Closes(t, ts) /\ \A u \in ts : target'[u] = target[u] /\ target[u] \in Agents
    BY <1>5, <2>1, ClosedBefore
  <2>3. Finds(t, ts)
    BY <1>5, <2>2 DEF IInv, WalkFinds
  <2>4. turn[cursor[t]] \in ts
    BY <2>3 DEF Finds
  <2>5. PICK vs \in SUBSET (ts \ {t}) :
           /\ Cardinality(vs) = hops[t]
           /\ \A u \in vs : target[u] = cursor[t] \/ turn[target[u]] \in vs
    BY <2>3 DEF Finds
  <2>6. \A a \in Agents, v \in ts : turn[a] = v => turn'[a] = v
    BY <1>1, <1>5, <2>2 DEF WaitsOn, Closes
  <2>7. turn'[cursor[t]] \in ts
    BY <2>1, <2>4, <2>6
  <2>8. \A u \in vs : target'[u] = cursor[t] \/ turn'[target'[u]] \in vs
    BY <2>2, <2>5, <2>6
  <2>. QED
    BY <1>5, <2>5, <2>7, <2>8 DEF Finds
<1>. QED
  BY <1>1, <1>3, <1>4, <1>5 DEF Walks

(* The links passed lead to where t is, also after the step.                 *)
LEMMA WalkTrueStep ==
  ASSUME IInv, [Next]_vars, NEW t \in Tasks
  PROVE  WalkTrue(t)'
<1>. SUFFICES ASSUME pc'[t] = "walking", faults' = 0
              PROVE  \/ \E ps \in SUBSET Tasks : Leads(t, ps)'
                     \/ \E u \in Tasks \ {t} : pc'[u] = "won" /\ target'[u] = cursor'[t]
  BY DEF WalkTrue
<1>1. Walks(t) /\ WaitsOn /\ Typing /\ faults = 0 /\ \A u \in Tasks : Placed(u)
  BY WalksStep, WaitsOnStep DEF IInv, WaitsOn
<1>3. CASE LockWaits(t)
  <2>1. target' = target /\ cursor'[t] = target[t]
    BY <1>1, <1>3 DEF LockWaits, Typing
  <2>2. Leads(t, {t})'
    BY <2>1 DEF Leads
  <2>. QED
    BY <2>2
<1>4. CASE Follow(t)
  <2>1. /\ pc[t] = "walking" /\ cursor[t] \in Agents /\ pc' = pc /\ target' = target /\ turn' = turn
    BY <1>1, <1>4 DEF Follow, agentVars, Placed, Typing
  <2>2. PICK o \in Tasks : o = owner[cursor[t]] /\ o # t /\ waits[o] # NoAgent
                          /\ cursor'[t] = waits[o]
    BY <1>1, <1>4, <2>1 DEF Follow, Typing
  <2>3. pc[o] \in {"blocked", "won"} /\ waits[o] = target[o]
    BY <1>1, <2>2 DEF Placed
  <2>4. On(o, cursor[t]) /\ turn[cursor[t]] = o
    BY <1>1, <2>1, <2>2 DEF IInv, OwnersNamed, OwnerNamed, TurnsKept
  <2>5. CASE pc[o] = "won"
    BY <2>1, <2>2, <2>3, <2>5
  <2>6. CASE pc[o] = "blocked"
    <3>1. ~ \E u \in Tasks \ {t} : pc[u] = "won" /\ target[u] = cursor[t]
      <4>1. SUFFICES ASSUME NEW u \in Tasks, pc[u] = "won", target[u] = cursor[t] PROVE FALSE
        OBVIOUS
      <4>2. turn[cursor[t]] = u
        BY <2>1, <4>1 DEF IInv, TurnsKept, Taking
      <4>. QED
        BY <2>4, <2>6, <4>1, <4>2
    <3>2. PICK ps \in SUBSET Tasks : Leads(t, ps)
      BY <1>1, <2>1, <3>1 DEF IInv, WalkTrue
    <3>3. /\ t \in ps /\ \A u \in ps : u = t \/ pc[u] = "blocked"
          /\ \A u \in ps : target[u] = cursor[t] \/ turn[target[u]] \in ps
      BY <3>2 DEF Leads
    <3>4. \A u \in ps \cup {o} : (u = t \/ pc[u] = "blocked")
                               /\ (target[u] = waits[o] \/ turn[target[u]] \in ps \cup {o})
      BY <2>3, <2>4, <2>6, <3>3
    <3>5. Leads(t, ps \cup {o})'
      BY <2>1, <2>2, <3>3, <3>4 DEF Leads
    <3>. QED
      BY <3>5
  <2>. QED
    BY <2>3, <2>5, <2>6
<1>5. CASE /\ pc[t] = "walking" /\ cursor'[t] = cursor[t]
           /\ hops'[t] = hops[t] /\ target'[t] = target[t]
  <2>1. CASE \E u \in Tasks \ {t} : pc[u] = "won" /\ target[u] = cursor[t]
    BY <1>1, <1>5, <2>1 DEF WaitsOn
  <2>2. ASSUME NEW ps \in SUBSET Tasks, Leads(t, ps) PROVE WalkTrue(t)'
    <3>1. /\ t \in ps /\ \A u \in ps : u = t \/ pc[u] = "blocked"
          /\ \A u \in ps : target[u] = cursor[t] \/ turn[target[u]] \in ps
      BY <2>2 DEF Leads
    <3>2. \A u \in ps : target'[u] = target[u] /\ target[u] \in Agents
      BY <1>1, <1>5, <3>1 DEF WaitsOn, Placed, Typing, Asking, Pending
    <3>3. \A a \in Agents, v \in ps : turn[a] = v => turn'[a] = v
      BY <1>1, <1>5, <3>1 DEF WaitsOn
    <3>4. CASE \A u \in ps : u = t \/ pc'[u] = "blocked"
      <4>1. Leads(t, ps)'
        BY <1>5, <3>1, <3>2, <3>3, <3>4 DEF Leads
      <4>. QED
        BY <4>1 DEF WalkTrue
    <3>5. ASSUME NEW u \in ps, u # t, pc'[u] # "blocked" PROVE WalkTrue(t)'
      <4>1. pc'[u] = "won" /\ turn[target[u]] = NoTask
        BY <1>1, <3>1, <3>5 DEF WaitsOn
      <4>2. target[u] = cursor[t]
        BY <3>1, <4>1, AgentsAssumption
      <4>. QED
        BY <1>5, <3>2, <3>5, <4>1, <4>2 DEF WalkTrue
    <3>. QED
      BY <3>4, <3>5
  <2>. QED
    BY <1>1, <1>5, <2>1, <2>2 DEF IInv, WalkTrue
<1>. QED
  BY <1>1, <1>3, <1>4, <1>5 DEF Walks

------------------------------------------------------------------------------
(* The invariant.                                                            *)

LEMMA InitIInv == Init => IInv
<1>. SUFFICES ASSUME Init PROVE IInv
  OBVIOUS
<1>. USE AgentsAssumption
<1>1. Typing
  BY DEF Init, Typing, Phases, Asking, Pending, Ending
<1>2. \A t \in Tasks : Placed(t)
  BY DEF Init, Placed, Asking, Pending, Ending
<1>3. \A t \in Tasks : Once(t) /\ ~Taking(t) /\ \A a \in Agents : ~On(t, a)
  BY DEF Init, Once, Taking, On
<1>4. TurnsKept
  BY <1>3 DEF Init, TurnsKept
<1>5. OwnersNamed
  BY <1>3 DEF Init, OwnersNamed, OwnerNamed
<1>6. OneWalker /\ CrashesSeen /\ \A t \in Tasks : WalkFinds(t) /\ WalkTrue(t)
  BY DEF Init, OneWalker, CrashesSeen, WalkFinds, WalkTrue
<1>7. NoSilentDeadlock
  BY DEF Init, NoSilentDeadlock, Cycle
<1>. QED
  BY <1>1, <1>2, <1>4, <1>5, <1>6, <1>7 DEF IInv

(* The invariant is inductive.                                               *)
THEOREM Invariant == Spec => []IInv
<1>1. ASSUME IInv, [Next]_vars PROVE IInv'
  <2>1. Typing' /\ (\A t \in Tasks : Placed(t)') /\ TurnsKept'
    BY <1>1, TypeStep, PlacedStep, TurnsStep DEF IInv
  <2>2. OwnersNamed' /\ OneWalker' /\ CrashesSeen'
    BY <1>1, OwnersStep, WalkerStep, CrashesStep DEF IInv
  <2>3. NoSilentDeadlock' /\ \A t \in Tasks : WalkFinds(t)' /\ WalkTrue(t)'
    BY <1>1, NoCycleStep, WalkFindsStep, WalkTrueStep
  <2>. QED
    BY <2>1, <2>2, <2>3 DEF IInv
<1>. QED
  BY InitIInv, <1>1, PTL DEF Spec

(* Asks never wait in a cycle of as many tasks as wait_for follows links:    *)
(* the ask that would close it is refused, though owners change while its    *)
(* chain is followed.                                                        *)
THEOREM DeadlocksAreFound == Spec => []NoSilentDeadlock
<1>1. IInv => NoSilentDeadlock
  BY DEF IInv
<1>. QED
  BY <1>1, Invariant, PTL

(* wait_for refuses no ask that would close no cycle (while every restart    *)
(* has succeeded).                                                           *)
THEOREM NoFalseAlarm == Spec => []AlarmsAreTrue
<1>1. ASSUME IInv PROVE AlarmsAreTrue
  <2>. SUFFICES ASSUME NEW t \in Tasks, pc[t] = "walking", owner[cursor[t]] = t, faults = 0
                PROVE  \E ts \in SUBSET Tasks :
                          /\ t \in ts
                          /\ \A u \in ts : (u = t \/ pc[u] = "blocked") /\ turn[target[u]] \in ts
    BY DEF AlarmsAreTrue
  <2>1. cursor[t] \in Agents
    BY <1>1 DEF IInv, Placed, Typing
  <2>2. turn[cursor[t]] = t
    BY <1>1, <2>1 DEF IInv, OwnersNamed, OwnerNamed, TurnsKept
  <2>3. ~ \E u \in Tasks \ {t} : pc[u] = "won" /\ target[u] = cursor[t]
    BY <1>1, <2>1, <2>2 DEF IInv, TurnsKept, Taking
  <2>4. PICK ps \in SUBSET Tasks : Leads(t, ps)
    BY <1>1, <2>3 DEF IInv, WalkTrue
  <2>. QED
    BY <2>2, <2>4 DEF Leads
<1>. QED
  BY <1>1, Invariant, PTL

(* No message finds the state that a raise left: the turn is given back with *)
(* a fresh one, or with a stopped agent's.                                   *)
THEOREM CrashesAreCleared == Spec => []FreshAfterCrash
<1>1. ASSUME IInv PROVE FreshAfterCrash
  <2>. SUFFICES ASSUME NEW a \in Agents, condition[a] = "crashed" PROVE turn[a] # NoTask
    BY DEF FreshAfterCrash
  <2>1. PICK t \in Tasks : Raised(t, a)
    BY <1>1 DEF IInv, CrashesSeen
  <2>2. On(t, a)
    BY <1>1, <2>1, MineIsOn DEF IInv, Raised, Placed, Ending
  <2>. QED
    BY <1>1, <2>2, AgentsAssumption DEF IInv, TurnsKept
<1>. QED
  BY <1>1, Invariant, PTL

------------------------------------------------------------------------------
(* One message at a time.                                                    *)

LEMMA HandlersAre ==
  ASSUME Typing, Typing'
  PROVE  /\ handlers = [a \in Agents |-> {t \in Tasks : On(t, a)}]
         /\ handlers' = [a \in Agents |-> {t \in Tasks : On(t, a)'}]
<1>1. \A t \in Tasks : DOMAIN stack[t] = 1 .. Len(stack[t])
  BY DEF Typing
<1>2. \A t \in Tasks : DOMAIN stack'[t] = 1 .. Len(stack'[t])
  BY DEF Typing
<1>. QED
  BY <1>1, <1>2 DEF handlers, On

(* The steps that leave the stacks alone.                                    *)
LEMMA StacksSame ==
  ASSUME Next, \A t \in Tasks : ~Own(t) /\ ~FailRestart(t) /\ ~GiveTurn(t)
  PROVE  stack' = stack
BY DEF Next, Asks, Leaves, Send, TellWithBlock, Tell, Refuse, StartWaiting, LockWaits, Follow, Deadlock,
       Block, TakeTurn, Unwait, Return, Crash, Restart, EndRestart, Disown, Fork, End, Join,
       Forget, taskVars

LEMMA TurnsMapStep ==
  ASSUME IInv, [Next]_vars, Typing'
  PROVE  [Turns!Next]_handlers
<1>1. /\ handlers = [a \in Agents |-> {t \in Tasks : On(t, a)}]
      /\ handlers' = [a \in Agents |-> {t \in Tasks : On(t, a)'}]
  BY HandlersAre DEF IInv
<1>2. ASSUME NEW t \in Tasks, Own(t) PROVE Turns!Next
  <2>1. target[t] \in Agents /\ Taking(t)
    BY <1>2 DEF Own, IInv, Placed, Typing, Asking, Taking
  <2>2. \A u \in Tasks : ~On(u, target[t])
    BY <2>1 DEF IInv, TurnsKept
  <2>3. \A u \in Tasks, a \in Agents : On(u, a)' <=> On(u, a) \/ (u = t /\ a = target[t])
    BY <1>2, <2>1, OwnStacks DEF IInv
  <2>4. Turns!Take(target[t], t)
    BY <1>1, <2>1, <2>2, <2>3 DEF Turns!Take
  <2>. QED
    BY <2>1, <2>4 DEF Turns!Next
<1>3. ASSUME NEW t \in Tasks, FailRestart(t) \/ GiveTurn(t) PROVE Turns!Next
  <2>1. stack[t] # <<>> /\ Once(t) /\ Leave(t)
    BY <1>3 DEF FailRestart, GiveTurn, IInv, Placed, Ending, TurnsKept
  <2>2. Mine(t) \in Agents /\ On(t, Mine(t))
    BY <2>1, MineIsOn DEF IInv
  <2>3. \A u \in Tasks : On(u, Mine(t)) <=> u = t
    BY <2>2 DEF IInv, TurnsKept
  <2>4. \A u \in Tasks, a \in Agents : On(u, a)' <=> On(u, a) /\ ~(u = t /\ a = Mine(t))
    BY <2>1, LeaveStacks DEF IInv
  <2>5. handlers[Mine(t)] = {t}
    BY <1>1, <2>2, <2>3
  <2>6. handlers' = [handlers EXCEPT ![Mine(t)] = {}]
    BY <1>1, <2>2, <2>3, <2>4
  <2>7. Turns!GiveBack(Mine(t), t)
    BY <2>5, <2>6 DEF Turns!GiveBack
  <2>. QED
    BY <2>2, <2>7 DEF Turns!Next
<1>4. CASE stack' = stack
  BY <1>4 DEF handlers
<1>5. CASE UNCHANGED vars
  BY <1>4, <1>5 DEF vars, taskVars
<1>. QED
  BY <1>2, <1>3, <1>4, <1>5, StacksSame

(* An agent handles one message at a time: its handlers are under a lock.    *)
THEOREM HandlersAreExclusive == Spec => OneMessageAtATime
<1>1. ASSUME Init PROVE Turns!Init
  BY <1>1 DEF Init, Turns!Init, handlers
<1>2. IInv /\ IInv' /\ [Next]_vars => [Turns!Next]_handlers
  <2>1. IInv' => Typing'
    BY DEF IInv
  <2>. QED
    BY <2>1, TurnsMapStep
<1>. QED
  BY <1>1, <1>2, Invariant, PTL DEF Spec, OneMessageAtATime, Turns!Spec

------------------------------------------------------------------------------
(* The load of an agent.                                                     *)

Waiting(a) == {t \in Tasks : pc[t] \in Pending /\ target[t] = a}

LoadCounted ==
    \A a \in Agents :
       /\ Cardinality(Waiting(a)) <= queued[a]
       /\ queued[a] <= Cardinality(Waiting(a)) + lost

LEMMA WaitingFinite == \A a \in Agents : IsFiniteSet(Waiting(a)) /\ Cardinality(Waiting(a)) \in Nat
<1>1. \A a \in Agents : IsFiniteSet(Waiting(a))
  BY AgentsAssumption, FS_Subset DEF Waiting
<1>. QED
  BY <1>1, FS_CardinalityType

LEMMA LoadSame ==
  ASSUME LoadCounted, UNCHANGED <<queued, lost>>,
         \A u \in Tasks : (pc'[u] \in Pending <=> pc[u] \in Pending)
                         /\ (pc[u] \in Pending => target'[u] = target[u])
  PROVE  LoadCounted'
<1>1. \A a \in Agents : Waiting(a)' = Waiting(a)
  BY DEF Waiting
<1>. QED
  BY <1>1 DEF LoadCounted

(* One more message for agent a, of task t.                                  *)
LEMMA LoadUp ==
  ASSUME LoadCounted, Typing, NEW t \in Tasks, NEW a \in Agents,
         queued' = [queued EXCEPT ![a] = @ + 1], lost' = lost, pc[t] \notin Pending,
         pc'[t] \in Pending, target'[t] = a,
         \A u \in Tasks \ {t} : pc'[u] = pc[u] /\ target'[u] = target[u]
  PROVE  LoadCounted'
<1>1. Waiting(a)' = Waiting(a) \cup {t} /\ t \notin Waiting(a)
  BY DEF Waiting
<1>2. IsFiniteSet(Waiting(a))
  BY AgentsAssumption, FS_Subset DEF Waiting
<1>3. Cardinality(Waiting(a)') = Cardinality(Waiting(a)) + 1
  BY <1>1, <1>2, FS_AddElement
<1>4. \A b \in Agents \ {a} : Waiting(b)' = Waiting(b)
  BY DEF Waiting
<1>. QED
  BY <1>3, <1>4, WaitingFinite DEF LoadCounted, Typing

(* One less: task t has its turn, or has given up.                           *)
LEMMA LoadDown ==
  ASSUME LoadCounted, Typing, NEW t \in Tasks, target[t] \in Agents,
         queued' = [queued EXCEPT ![target[t]] = @ - 1], lost' = lost, pc[t] \in Pending,
         pc'[t] \notin Pending,
         \A u \in Tasks \ {t} : pc'[u] = pc[u] /\ target'[u] = target[u]
  PROVE  LoadCounted'
<1>0. PICK a \in Agents : a = target[t]
  OBVIOUS
<1>1. Waiting(a)' = Waiting(a) \ {t} /\ t \in Waiting(a)
  BY <1>0 DEF Waiting
<1>2. IsFiniteSet(Waiting(a))
  BY AgentsAssumption, FS_Subset DEF Waiting
<1>3. Cardinality(Waiting(a)') = Cardinality(Waiting(a)) - 1
  BY <1>1, <1>2, FS_RemoveElement
<1>4. \A b \in Agents \ {a} : Waiting(b)' = Waiting(b)
  BY <1>0 DEF Waiting
<1>. QED
  BY <1>0, <1>3, <1>4, WaitingFinite DEF LoadCounted, Typing

LEMMA LoadStep ==
  ASSUME LoadCounted, Typing, \A t \in Tasks : Placed(t), [Next]_vars
  PROVE  LoadCounted'
<1>1. ASSUME NEW t \in Tasks, NEW a \in Agents, Send(t, a)
      PROVE  LoadCounted'
  <2>1. /\ queued' = [queued EXCEPT ![a] = @ + 1] /\ lost' = lost /\ pc[t] \notin Pending
        /\ pc'[t] \in Pending /\ target'[t] = a
        /\ \A u \in Tasks \ {t} : pc'[u] = pc[u] /\ target'[u] = target[u]
    BY <1>1 DEF Send, Goto, Typing, Pending
  <2>. QED
    BY <2>1, LoadUp
<1>2. ASSUME NEW t \in Tasks, NEW c \in Tasks, NEW a \in Agents, Tell(t, c, a)
      PROVE  LoadCounted'
  <2>1. /\ queued' = [queued EXCEPT ![a] = @ + 1] /\ lost' = lost /\ pc[c] \notin Pending
        /\ pc'[c] \in Pending /\ target'[c] = a
        /\ \A u \in Tasks \ {c} : pc'[u] = pc[u] /\ target'[u] = target[u]
    BY <1>2 DEF Tell, Goto, Typing, Pending
  <2>. QED
    BY <2>1, LoadUp
<1>3. ASSUME NEW t \in Tasks, Refuse(t)
      PROVE  LoadCounted'
  <2>1. /\ queued' = [queued EXCEPT ![target[t]] = @ - 1] /\ lost' = lost /\ pc[t] \in Pending
        /\ pc'[t] \notin Pending /\ target[t] \in Agents
        /\ \A u \in Tasks \ {t} : pc'[u] = pc[u] /\ target'[u] = target[u]
    BY <1>3 DEF Refuse, Drop, Back, Goto, Typing, Placed, Asking, Pending
  <2>. QED
    BY <2>1, LoadDown
<1>4. ASSUME NEW t \in Tasks, StartWaiting(t)
      PROVE  LoadCounted'
  <2>1. /\ UNCHANGED <<queued, lost>>
        /\ \A u \in Tasks : (pc'[u] \in Pending <=> pc[u] \in Pending)
                           /\ (pc[u] \in Pending => target'[u] = target[u])
    BY <1>4 DEF StartWaiting, Goto, agentVars, Typing, Pending
  <2>. QED
    BY <2>1, LoadSame
<1>5. ASSUME NEW t \in Tasks, LockWaits(t)
      PROVE  LoadCounted'
  <2>1. /\ UNCHANGED <<queued, lost>>
        /\ \A u \in Tasks : (pc'[u] \in Pending <=> pc[u] \in Pending)
                           /\ (pc[u] \in Pending => target'[u] = target[u])
    BY <1>5 DEF LockWaits, Goto, agentVars, Typing, Pending
  <2>. QED
    BY <2>1, LoadSame
<1>6. ASSUME NEW t \in Tasks, Follow(t)
      PROVE  LoadCounted'
  <2>1. /\ UNCHANGED <<queued, lost>>
        /\ \A u \in Tasks : (pc'[u] \in Pending <=> pc[u] \in Pending)
                           /\ (pc[u] \in Pending => target'[u] = target[u])
    BY <1>6 DEF Follow, agentVars, Typing, Pending
  <2>. QED
    BY <2>1, LoadSame
<1>7. ASSUME NEW t \in Tasks, Deadlock(t)
      PROVE  LoadCounted'
  <2>1. /\ queued' = [queued EXCEPT ![target[t]] = @ - 1] /\ lost' = lost /\ pc[t] \in Pending
        /\ pc'[t] \notin Pending /\ target[t] \in Agents
        /\ \A u \in Tasks \ {t} : pc'[u] = pc[u] /\ target'[u] = target[u]
    BY <1>7 DEF Deadlock, Drop, Back, Goto, Typing, Placed, Asking, Pending
  <2>. QED
    BY <2>1, LoadDown
<1>8. ASSUME NEW t \in Tasks, Block(t)
      PROVE  LoadCounted'
  <2>1. /\ UNCHANGED <<queued, lost>>
        /\ \A u \in Tasks : (pc'[u] \in Pending <=> pc[u] \in Pending)
                           /\ (pc[u] \in Pending => target'[u] = target[u])
    BY <1>8 DEF Block, Goto, agentVars, Typing, Pending
  <2>. QED
    BY <2>1, LoadSame
<1>9. ASSUME NEW t \in Tasks, TakeTurn(t)
      PROVE  LoadCounted'
  <2>1. /\ UNCHANGED <<queued, lost>>
        /\ \A u \in Tasks : (pc'[u] \in Pending <=> pc[u] \in Pending)
                           /\ (pc[u] \in Pending => target'[u] = target[u])
    BY <1>9 DEF TakeTurn, Goto, agentVars, Typing, Pending
  <2>. QED
    BY <2>1, LoadSame
<1>10. ASSUME NEW t \in Tasks, Unwait(t)
      PROVE  LoadCounted'
  <2>1. /\ queued' = [queued EXCEPT ![target[t]] = @ - 1] /\ lost' = lost /\ pc[t] \in Pending
        /\ pc'[t] \notin Pending /\ target[t] \in Agents
        /\ \A u \in Tasks \ {t} : pc'[u] = pc[u] /\ target'[u] = target[u]
    BY <1>10 DEF Unwait, Goto, Typing, Placed, Asking, Pending
  <2>. QED
    BY <2>1, LoadDown
<1>11. ASSUME NEW t \in Tasks, Own(t)
      PROVE  LoadCounted'
  <2>1. /\ UNCHANGED <<queued, lost>>
        /\ \A u \in Tasks : (pc'[u] \in Pending <=> pc[u] \in Pending)
                           /\ (pc[u] \in Pending => target'[u] = target[u])
    BY <1>11 DEF Own, Goto, agentVars, Typing, Pending
  <2>. QED
    BY <2>1, LoadSame
<1>12. ASSUME NEW t \in Tasks, Return(t)
      PROVE  LoadCounted'
  <2>1. /\ UNCHANGED <<queued, lost>>
        /\ \A u \in Tasks : (pc'[u] \in Pending <=> pc[u] \in Pending)
                           /\ (pc[u] \in Pending => target'[u] = target[u])
    BY <1>12 DEF Return, Goto, agentVars, Typing, Pending
  <2>. QED
    BY <2>1, LoadSame
<1>13. ASSUME NEW t \in Tasks, Crash(t)
      PROVE  LoadCounted'
  <2>1. /\ UNCHANGED <<queued, lost>>
        /\ \A u \in Tasks : (pc'[u] \in Pending <=> pc[u] \in Pending)
                           /\ (pc[u] \in Pending => target'[u] = target[u])
    BY <1>13 DEF Crash, Mine, Goto, agentVars, Typing, Pending
  <2>. QED
    BY <2>1, LoadSame
<1>14. ASSUME NEW t \in Tasks, Restart(t)
      PROVE  LoadCounted'
  <2>1. /\ UNCHANGED <<queued, lost>>
        /\ \A u \in Tasks : (pc'[u] \in Pending <=> pc[u] \in Pending)
                           /\ (pc[u] \in Pending => target'[u] = target[u])
    BY <1>14 DEF Restart, agentVars, Typing, Pending
  <2>. QED
    BY <2>1, LoadSame
<1>15. ASSUME NEW t \in Tasks, EndRestart(t)
      PROVE  LoadCounted'
  <2>1. /\ UNCHANGED <<queued, lost>>
        /\ \A u \in Tasks : (pc'[u] \in Pending <=> pc[u] \in Pending)
                           /\ (pc[u] \in Pending => target'[u] = target[u])
    BY <1>15 DEF EndRestart, Goto, agentVars, Typing, Pending
  <2>. QED
    BY <2>1, LoadSame
<1>16. ASSUME NEW t \in Tasks, FailRestart(t)
      PROVE  LoadCounted'
  <2>1. /\ UNCHANGED <<queued, lost>>
        /\ \A u \in Tasks : (pc'[u] \in Pending <=> pc[u] \in Pending)
                           /\ (pc[u] \in Pending => target'[u] = target[u])
    BY <1>16 DEF FailRestart, Leave, Goto, Mine, agentVars, Typing, Pending
  <2>. QED
    BY <2>1, LoadSame
<1>17. ASSUME NEW t \in Tasks, Disown(t)
      PROVE  LoadCounted'
  <2>1. /\ UNCHANGED <<queued, lost>>
        /\ \A u \in Tasks : (pc'[u] \in Pending <=> pc[u] \in Pending)
                           /\ (pc[u] \in Pending => target'[u] = target[u])
    BY <1>17 DEF Disown, Mine, Goto, agentVars, Typing, Pending
  <2>. QED
    BY <2>1, LoadSame
<1>18. ASSUME NEW t \in Tasks, GiveTurn(t)
      PROVE  LoadCounted'
  <2>1. /\ UNCHANGED <<queued, lost>>
        /\ \A u \in Tasks : (pc'[u] \in Pending <=> pc[u] \in Pending)
                           /\ (pc[u] \in Pending => target'[u] = target[u])
    BY <1>18 DEF GiveTurn, Leave, Goto, Mine, agentVars, Typing, Pending
  <2>. QED
    BY <2>1, LoadSame
<1>19. ASSUME NEW t \in Tasks, NEW cs \in Forks, Fork(t, cs)
      PROVE  LoadCounted'
  <2>1. /\ UNCHANGED <<queued, lost>>
        /\ \A u \in Tasks : (pc'[u] \in Pending <=> pc[u] \in Pending)
                           /\ (pc[u] \in Pending => target'[u] = target[u])
    BY <1>19 DEF Fork, agentVars, Typing, Pending
  <2>. QED
    BY <2>1, LoadSame
<1>20. ASSUME NEW t \in Tasks, End(t)
      PROVE  LoadCounted'
  <2>1. /\ UNCHANGED <<queued, lost>>
        /\ \A u \in Tasks : (pc'[u] \in Pending <=> pc[u] \in Pending)
                           /\ (pc[u] \in Pending => target'[u] = target[u])
    BY <1>20 DEF End, Goto, agentVars, Typing, Pending
  <2>. QED
    BY <2>1, LoadSame
<1>21. ASSUME NEW t \in Tasks, Join(t)
      PROVE  LoadCounted'
  <2>0. /\ pc[t] = "joining" /\ pc' = [pc EXCEPT ![t] = "running"]
        /\ UNCHANGED <<queued, lost, target>>
    BY <1>21 DEF Join, Goto, agentVars
  <2>1. /\ UNCHANGED <<queued, lost>>
        /\ \A u \in Tasks : (pc'[u] \in Pending <=> pc[u] \in Pending)
                           /\ (pc[u] \in Pending => target'[u] = target[u])
    BY <2>0 DEF Typing, Pending
  <2>. QED
    BY <2>1, LoadSame
<1>22. ASSUME NEW a \in Agents, Forget(a)
      PROVE  LoadCounted'
  <2>1. /\ UNCHANGED <<queued, lost>>
        /\ \A u \in Tasks : (pc'[u] \in Pending <=> pc[u] \in Pending)
                           /\ (pc[u] \in Pending => target'[u] = target[u])
    BY <1>22 DEF Forget, taskVars, agentVars, Typing, Pending
  <2>. QED
    BY <2>1, LoadSame
<1>24. ASSUME NEW t \in Tasks, NEW a \in Agents, TellWithBlock(t, a)
      PROVE  LoadCounted'
  <2>1. \A b \in Agents : Waiting(b)' = Waiting(b)
    BY <1>24 DEF TellWithBlock, taskVars, Waiting
  <2>2. /\ \A b \in Agents : queued'[b] = queued[b] \/ queued'[b] = queued[b] + 1
        /\ lost' = lost + 1 /\ lost \in Nat /\ queued \in [Agents -> Int]
    BY <1>24, AgentsAssumption DEF TellWithBlock, Typing
  <2>. QED
    BY <2>1, <2>2, WaitingFinite DEF LoadCounted
<1>23. CASE UNCHANGED vars
  <2>1. /\ UNCHANGED <<queued, lost>>
        /\ \A u \in Tasks : (pc'[u] \in Pending <=> pc[u] \in Pending)
                           /\ (pc[u] \in Pending => target'[u] = target[u])
    BY <1>23 DEF vars, taskVars, agentVars, Typing, Pending
  <2>. QED
    BY <2>1, LoadSame
<1>. QED
  BY <1>1, <1>2, <1>3, <1>4, <1>5, <1>6, <1>7, <1>8, <1>9, <1>10, <1>11, <1>12, <1>13, <1>14, <1>15, <1>16, <1>17, <1>18, <1>19, <1>20, <1>21, <1>22, <1>23, <1>24
  DEF Next, Asks, Leaves

(* The load of an agent, by which a pool picks a replica, counts every       *)
(* message sent to it that has not had its turn, whatever became of its task *)
(* - and, beyond those, no more than one for each `tell' that was given a    *)
(* block, which is never taken off (send).                                   *)
THEOREM LoadIsPending == Spec => []LoadCounted
<1>1. ASSUME Init PROVE LoadCounted
  <2>1. \A a \in Agents : Waiting(a) = {}
    BY <1>1 DEF Init, Waiting, Pending
  <2>2. Cardinality({}) = 0
    BY FS_EmptySet
  <2>3. lost = 0 /\ \A a \in Agents : queued[a] = 0
    BY <1>1 DEF Init
  <2>. QED
    BY <2>1, <2>2, <2>3 DEF LoadCounted
<1>2. LoadCounted /\ IInv /\ [Next]_vars => LoadCounted'
  BY LoadStep DEF IInv
<1>. QED
  BY <1>1, <1>2, Invariant, PTL DEF Spec

(* Types of the tasks and of the agents; no load is ever negative.           *)
THEOREM TypeCorrect == Spec => []TypeOK
<1>1. ASSUME IInv, LoadCounted PROVE TypeOK
  <2>1. queued \in [Agents -> Nat]
    BY <1>1, WaitingFinite DEF LoadCounted, IInv, Typing
  <2>. QED
    BY <1>1, <2>1 DEF IInv, Typing, TypeOK, Phases, Asking, Pending, Ending
<1>. QED
  BY <1>1, Invariant, LoadIsPending, PTL
==============================================================================
