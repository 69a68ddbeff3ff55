-------------------------------- MODULE Batch --------------------------------
(* batch_map: the model calls of its elements' tasks, sent in rounds as      *)
(* batches (grenat_interp eval/batch.rs, grenat_llm batch.rs), and the agent *)
(* that some of those tasks ask (eval/agents.rs).                            *)
(*                                                                           *)
(* One action is one critical section of BatchRun's lock, a message on a     *)
(* channel, or what the program's own task does between two waits.           *)
EXTENDS Naturals, Sequences, FiniteSets

CONSTANTS
    Elements,     \* of the array: each has a task
    NoElement,
    Asking,       \* those whose block asks the agent
    Providers,    \* of the models that are called
    Missing,      \* those that cannot be made: no key
    MaxCalls,     \* bound: model calls of a block
    MaxAsks       \* bound: times it asks the agent

ASSUME BatchAssumption ==
    /\ IsFiniteSet(Elements) /\ NoElement \notin Elements
    /\ Asking \subseteq Elements
    /\ Missing \subseteq Providers
    /\ MaxCalls \in Nat /\ MaxAsks \in Nat

VARIABLES
    \* BatchRun
    running,      \* State::running
    requests,     \* State::queued
    \* the elements' tasks
    task,         \* where each is
    calls,        \* model calls it made
    asks,         \* times it asked the agent
    answer,       \* the call its channel has an answer to, 0 for none
    agentTurn,    \* the task that holds the agent's turn
    \* the task of batch_map
    collector,    \* where it is
    round,        \* the requests it has taken
    left,         \* places in the round of those of groups not sent yet
    group         \* of those of the group sent, not answered yet

batchVars == <<running, requests, task, calls, asks, answer, agentTurn, collector, round,
               left, group>>
turns     == <<asks, agentTurn>>
sending   == <<collector, round, left, group>>

Requests == [by : Elements, number : Nat, provider : Providers]

BatchInit ==
    /\ running = Cardinality(Elements) /\ requests = <<>>
    /\ task = [e \in Elements |-> "running"]
    /\ calls = [e \in Elements |-> 0] /\ asks = [e \in Elements |-> 0]
    /\ answer = [e \in Elements |-> 0]
    /\ agentTurn = NoElement
    /\ collector = "waiting" /\ round = <<>> /\ left = {} /\ group = {}

------------------------------------------------------------------------------
(* An element's task: its block.                                             *)

Moves(e, step) == task' = [task EXCEPT ![e] = step]

(* BatchRun::call: the request is queued, and its task waits.                *)
CallModel(e) ==
    /\ task[e] = "running" /\ calls[e] < MaxCalls
    /\ calls' = [calls EXCEPT ![e] = @ + 1]
    /\ \E p \in Providers :
          requests' = Append(requests, [by |-> e, number |-> calls[e] + 1, provider |-> p])
    /\ running' = running - 1
    /\ Moves(e, "asked")
    /\ UNCHANGED <<answer, turns, sending>>

(* The answer, or the end of a channel whose sender was dropped, an error.   *)
Answered(e) ==
    /\ task[e] = "asked" /\ answer[e] # 0
    /\ answer' = [answer EXCEPT ![e] = 0]
    /\ Moves(e, "running")
    /\ UNCHANGED <<running, requests, calls, turns, sending>>

(* It asks the agent, whose handler runs in this task: ask_turn.             *)
WantTurn(e) ==
    /\ e \in Asking /\ task[e] = "running" /\ agentTurn # e
    /\ asks[e] < MaxAsks
    /\ asks' = [asks EXCEPT ![e] = @ + 1]
    /\ Moves(e, "turn")
    /\ UNCHANGED <<running, requests, calls, answer, agentTurn, sending>>

TakeAgent(e) ==
    /\ task[e] = "turn" /\ agentTurn = NoElement
    /\ agentTurn' = e
    /\ Moves(e, "running")
    /\ UNCHANGED <<running, requests, calls, asks, answer, sending>>

LeaveAgent(e) ==
    /\ task[e] = "running" /\ agentTurn = e
    /\ agentTurn' = NoElement
    /\ UNCHANGED <<running, requests, task, calls, asks, answer, sending>>

(* The block is over, and its result sent.                                   *)
SendResult(e) ==
    /\ task[e] = "running" /\ agentTurn # e
    /\ Moves(e, "sent")
    /\ UNCHANGED <<running, requests, calls, answer, turns, sending>>

(* (A bug: a task that ends is still counted.)                               *)
FinishedCounted(e) ==
    /\ task[e] = "sent"
    /\ Moves(e, "done")
    /\ UNCHANGED <<running, requests, calls, answer, turns, sending>>

Finished(e) ==
    /\ task[e] = "sent"
    /\ running' = running - 1
    /\ Moves(e, "done")
    /\ UNCHANGED <<requests, calls, answer, turns, sending>>

------------------------------------------------------------------------------
(* batch_map and send_batch.                                                 *)

(* (A bug: woken, it takes what is queued without a look at the count.)      *)
RoundEarly ==
    /\ collector = "waiting" /\ (running = 0 \/ requests # <<>>)
    /\ round' = requests /\ left' = DOMAIN requests /\ requests' = <<>>
    /\ running' = running + Len(requests)
    /\ collector' = IF requests = <<>> THEN "collecting" ELSE "grouping"
    /\ UNCHANGED <<task, calls, answer, turns, group>>

(* No task runs: the requests queued are a round, whose tasks count as       *)
(* running from here.                                                        *)
Round ==
    /\ collector = "waiting" /\ running = 0
    /\ round' = requests /\ left' = DOMAIN requests /\ requests' = <<>>
    /\ running' = running + Len(requests)
    /\ collector' = IF requests = <<>> THEN "collecting" ELSE "grouping"
    /\ UNCHANGED <<task, calls, answer, turns, group>>

Has(q, e) == \E i \in DOMAIN q : q[i].by = e

(* The requests are grouped by provider.  One that cannot be made ends       *)
(* batch_map at once with an error: the round is dropped, and its senders.   *)
Group ==
    /\ collector = "grouping"
    /\ IF \E i \in DOMAIN round : round[i].provider \in Missing
       THEN /\ collector' = "raised"
            /\ answer' = [e \in Elements |-> IF Has(round, e) THEN calls[e] ELSE answer[e]]
            /\ round' = <<>> /\ left' = {}
       ELSE collector' = "sending" /\ UNCHANGED <<answer, round, left>>
    /\ UNCHANGED <<running, requests, task, calls, turns, group>>

First(places) == CHOOSE i \in places : \A j \in places : i <= j

(* A group is sent, and the provider's batch has ended: one answer for each  *)
(* request, an error if the batch has none or failed (batch.rs).             *)
SendGroup ==
    /\ collector = "sending" /\ group = {} /\ left # {}
    /\ group' = {i \in left : round[i].provider = round[First(left)].provider}
    /\ left' = left \ group'
    /\ UNCHANGED <<running, requests, task, calls, answer, turns, collector, round>>

SendAnswer ==
    /\ collector = "sending" /\ group # {}
    /\ LET request == round[First(group)]
       IN  answer' = [answer EXCEPT ![request.by] = request.number]
    /\ group' = group \ {First(group)}
    /\ UNCHANGED <<running, requests, task, calls, turns, collector, round, left>>

RoundOver ==
    /\ collector = "sending" /\ group = {} /\ left = {}
    /\ collector' = "waiting"
    /\ round' = <<>>
    /\ UNCHANGED <<running, requests, task, calls, answer, turns, left, group>>

(* The results are read until every task has dropped its sender.             *)
Collect ==
    /\ collector = "collecting"
    /\ \A e \in Elements : task[e] = "done"
    /\ collector' = "over"
    /\ UNCHANGED <<running, requests, task, calls, answer, turns, round, left, group>>

CollectorStep == Round \/ Group \/ SendGroup \/ SendAnswer \/ RoundOver \/ Collect

BatchNext ==
    \/ \E e \in Elements :
          \/ CallModel(e) \/ Answered(e) \/ SendResult(e) \/ Finished(e)
          \/ WantTurn(e) \/ TakeAgent(e) \/ LeaveAgent(e)
    \/ CollectorStep

BatchSpec == BatchInit /\ [][BatchNext]_batchVars

(* What a block does when it calls and asks no more.                         *)
BlockGoesOn(e) ==
    Answered(e) \/ TakeAgent(e) \/ LeaveAgent(e) \/ SendResult(e) \/ Finished(e)

(* Blocks come to their end, handlers to theirs; the task of batch_map goes  *)
(* on, and providers answer.                                                 *)
BatchFairSpec ==
    /\ BatchSpec
    /\ WF_batchVars(CollectorStep)
    /\ \A e \in Elements : WF_batchVars(BlockGoesOn(e))

------------------------------------------------------------------------------
(* Properties.                                                               *)

(* The variables have their types.                                           *)
BatchTypeOK ==
    /\ running \in Nat /\ requests \in Seq(Requests)
    /\ task \in [Elements -> {"running", "turn", "asked", "sent", "done"}]
    /\ calls \in [Elements -> Nat] /\ asks \in [Elements -> Nat] /\ answer \in [Elements -> Nat]
    /\ agentTurn \in Elements \cup {NoElement}
    /\ collector \in {"waiting", "grouping", "sending", "raised", "collecting", "over"}
    /\ round \in Seq(Requests) /\ left \subseteq DOMAIN round /\ group \subseteq DOMAIN round

(* A task that waits has its request in one place, or the answer to it and   *)
(* to no other call.                                                         *)
Places(e) ==
    {<<"queued", i>> : i \in {j \in DOMAIN requests : requests[j].by = e}} \cup
    {<<"round", i>> : i \in {j \in left : round[j].by = e}} \cup
    {<<"group", i>> : i \in {j \in group : round[j].by = e}} \cup
    (IF answer[e] = calls[e] /\ answer[e] # 0 THEN {<<"answer", 0>>} ELSE {})

OneRequest ==
    \A e \in Elements : IF task[e] = "asked" THEN \E place \in Places(e) : Places(e) = {place}
                        ELSE Places(e) = {}

(* A round is whole: while the requests are taken and grouped every task     *)
(* waits for its answer or is done, though those of the round before were    *)
(* answered one by one and some called again, or ended, before the last was  *)
(* (batch.rs: "once every task is waiting or done").                         *)
RoundsWhole ==
    /\ OneRequest
    /\ collector = "grouping" =>
          \A e \in Elements : task[e] = "done" \/ (task[e] = "asked" /\ Has(round, e))

Queued(e) == Has(requests, e)

(* But for two ways to wait for good, batch_map comes to its end once a      *)
(* block has got anywhere, and every call is answered.  They are: a round    *)
(* whose provider could not be made ended batch_map, and a task went on and  *)
(* called again; and a task waits for the agent, whose handler waits for its *)
(* answer.                                                                   *)
AgentStuck ==
    /\ agentTurn # NoElement /\ Has(requests, agentTurn)
    /\ \E e \in Elements : task[e] = "turn"

BatchEnds ==
    (\E e \in Elements : task[e] # "running") ~>
        \/ collector = "over" \/ AgentStuck
        \/ collector = "raised" /\ \A e \in Elements : task[e] = "done" \/ Has(requests, e)

(* SPEC.md: "once every task sleeps or is done, the queued requests go out   *)
(* as one batch, and each answer wakes its task where it stopped".           *)
AllAnswered == \A e \in Elements : task[e] = "asked" ~> task[e] # "asked"

==============================================================================
