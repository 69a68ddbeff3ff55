------------------------------ MODULE JobQueue -------------------------------
(* Jobs and the approvals they wait for: the tables of grenat_ops (jobs.rs,  *)
(* approvals.rs), the workers of `grenat serve` (grenat_interp eval/jobs.rs, *)
(* eval/approvals.rs) and whoever decides a question (a route of the         *)
(* program, a click in Slack, `grenat console`).                             *)
(*                                                                           *)
(* One action is one SQL statement, or statements of one task that no other  *)
(* task can come between with an effect.  Workers may belong to several      *)
(* server processes, and deciders to others.  Times are kept as `due':       *)
(* whether the row's run_at has passed; which of the due jobs next_due       *)
(* returns depends on those times, and is any of them here.                  *)
EXTENDS Naturals, FiniteSets

CONSTANTS
    Jobs,        \* ids of the rows of grenat_jobs
    NoJob,       \* what a worker without a job has in place of one
    Workers,     \* green tasks running Interp::work, over all servers
    Deciders,    \* tasks and processes that decide approvals
    ATTEMPTS,    \* runs of a job before it is marked failed
    Questions,   \* Questions[j], bound: questions a run of job j may ask
    MaxFaults    \* bound: crashes of a process and failures of the store

ASSUME JobQueueAssumption ==
    /\ NoJob \notin Jobs
    /\ ATTEMPTS \in Nat \ {0}
    /\ Questions \in [Jobs -> Nat]
    /\ MaxFaults \in Nat

VARIABLES
    \* grenat_jobs
    status,      \* the status column; "absent": no such row yet
    attempts,    \* the attempts column
    due,         \* whether run_at has passed
    \* grenat_approvals
    decision,    \* decision[j][r]: on question r of job j; "none": no row
    \* a worker
    pc,          \* where it is in perform_one
    job,         \* the row next_due returned to it
    tries,       \* that row's attempts, as it was then
    rank,        \* approval_rank: questions asked so far in this run
    \* of the model
    passed,      \* passed[j]: the questions that let the last run of j through
    \* a decider
    resuming,    \* the job whose question it decided, not queued again yet
    \* bookkeeping of the model
    faults       \* faults so far

table  == <<status, attempts, due>>
worker == <<pc, job, tries, rank>>
vars   == <<table, decision, worker, passed, resuming, faults>>

Statuses  == {"absent", "queued", "running", "waiting", "done", "failed"}
Decisions == {"none", "pending", "approved", "denied"}
Ranks(j)  == 0 .. Questions[j] - 1

(* A worker owns its job from the claim to the update that ends the run.     *)
Owning    == {"running", "suspended", "denied"}
Steps     == Owning \cup {"idle", "found"}
Owns(w, j) == pc[w] \in Owning /\ job[w] = j

Init ==
    /\ status = [j \in Jobs |-> "absent"]
    /\ attempts = [j \in Jobs |-> 0]
    /\ due = [j \in Jobs |-> FALSE]
    /\ decision = [j \in Jobs |-> [r \in Ranks(j) |-> "none"]]
    /\ pc = [w \in Workers |-> "idle"]
    /\ job = [w \in Workers |-> NoJob]
    /\ tries = [w \in Workers |-> 0]
    /\ rank = [w \in Workers |-> 0]
    /\ passed = [j \in Jobs |-> {}]
    /\ resuming = [d \in Deciders |-> NoJob]
    /\ faults = 0

------------------------------------------------------------------------------
(* The rows of grenat_jobs.                                                  *)

(* jobs::enqueue, now or `in:' some time.                                    *)
Enqueue(j) ==
    /\ status[j] = "absent"
    /\ status' = [status EXCEPT ![j] = "queued"]
    /\ \E now \in BOOLEAN : due' = [due EXCEPT ![j] = now]
    /\ UNCHANGED <<attempts, decision, worker, passed, resuming, faults>>

(* Time passes: the row's run_at is reached.                                 *)
ComeDue(j) ==
    /\ status[j] # "absent"
    /\ ~due[j]
    /\ due' = [due EXCEPT ![j] = TRUE]
    /\ UNCHANGED <<status, attempts, decision, worker, passed, resuming, faults>>

(* jobs::retry, from the console: a failed job afresh.                       *)
Retry(j) ==
    /\ status[j] = "failed"
    /\ status' = [status EXCEPT ![j] = "queued"]
    /\ attempts' = [attempts EXCEPT ![j] = 0]
    /\ due' = [due EXCEPT ![j] = TRUE]
    /\ UNCHANGED <<decision, worker, passed, resuming, faults>>

------------------------------------------------------------------------------
(* A worker: perform_one, in a loop.                                         *)

(* (A bug: only jobs never run before.)                                      *)
AvailableOnce(j) == status[j] = "queued" /\ due[j] /\ attempts[j] = 0

Available(j) == status[j] = "queued" /\ due[j]

(* The worker goes back to its loop.                                         *)
Idle(w) ==
    /\ pc' = [pc EXCEPT ![w] = "idle"]
    /\ job' = [job EXCEPT ![w] = NoJob]
    /\ tries' = [tries EXCEPT ![w] = 0]
    /\ rank' = [rank EXCEPT ![w] = 0]

(* jobs::next_due: a due job, and its attempts as they are now.              *)
Look(w, j) ==
    /\ pc[w] = "idle"
    /\ Available(j)
    /\ pc' = [pc EXCEPT ![w] = "found"]
    /\ job' = [job EXCEPT ![w] = j]
    /\ tries' = [tries EXCEPT ![w] = attempts[j]]
    /\ UNCHANGED <<table, decision, rank, passed, resuming, faults>>

(* (A bug: a claim that is an unconditional update.)                         *)
ClaimAnyway(w) ==
    /\ pc[w] = "found"
    /\ status' = [status EXCEPT ![job[w]] = "running"]
    /\ pc' = [pc EXCEPT ![w] = "running"]
    /\ rank' = [rank EXCEPT ![w] = 0]
    /\ passed' = [passed EXCEPT ![job[w]] = {}]
    /\ UNCHANGED <<attempts, due, decision, job, tries, resuming, faults>>

(* jobs::claim, a conditional update: the job, if it is still queued.        *)
Claim(w) ==
    /\ pc[w] = "found"
    /\ status[job[w]] = "queued"
    /\ status' = [status EXCEPT ![job[w]] = "running"]
    /\ pc' = [pc EXCEPT ![w] = "running"]
    /\ rank' = [rank EXCEPT ![w] = 0]
    /\ passed' = [passed EXCEPT ![job[w]] = {}]
    /\ UNCHANGED <<attempts, due, decision, job, tries, resuming, faults>>

(* The claim updated no row: another worker has the job.                     *)
MissClaim(w) ==
    /\ pc[w] = "found"
    /\ status[job[w]] # "queued"
    /\ Idle(w)
    /\ UNCHANGED <<table, decision, passed, resuming, faults>>

(* The next question of the run, in stored_approval, and what follows from   *)
(* the row of its rank: asked and suspended, suspended again, let through,   *)
(* or ApprovalDenied.                                                        *)
AskNew(w) ==
    LET j == job[w] IN
    /\ pc[w] = "running"
    /\ rank[w] < Questions[j]
    /\ decision[j][rank[w]] = "none"
    /\ decision' = [decision EXCEPT ![j][rank[w]] = "pending"]
    /\ pc' = [pc EXCEPT ![w] = "suspended"]
    /\ rank' = [rank EXCEPT ![w] = @ + 1]
    /\ UNCHANGED <<table, job, tries, passed, resuming, faults>>

AfterDecision ==
    [pending |-> "suspended", approved |-> "running", denied |-> "denied"]

AskAgain(w) ==
    LET j == job[w] IN
    /\ pc[w] = "running"
    /\ rank[w] < Questions[j]
    /\ decision[j][rank[w]] # "none"
    /\ pc' = [pc EXCEPT ![w] = AfterDecision[decision[j][rank[w]]]]
    /\ rank' = [rank EXCEPT ![w] = @ + 1]
    /\ passed' = [passed EXCEPT ![j] = IF pc'[w] = "running" THEN @ \cup {rank[w]} ELSE @]
    /\ UNCHANGED <<table, decision, job, tries, resuming, faults>>

(* The program rescues the error that a question raised, and goes on without *)
(* its answer.                                                               *)
Rescue(w) ==
    /\ pc[w] \in {"suspended", "denied"}
    /\ pc' = [pc EXCEPT ![w] = "running"]
    /\ UNCHANGED <<table, decision, job, tries, rank, passed, resuming, faults>>

(* The function returned, whatever it asked: jobs::finish.                   *)
Finish(w) ==
    /\ pc[w] = "running"
    /\ status' = [status EXCEPT ![job[w]] = "done"]
    /\ attempts' = [attempts EXCEPT ![job[w]] = tries[w] + 1]
    /\ Idle(w)
    /\ UNCHANGED <<due, decision, passed, resuming, faults>>

(* The run raised Suspended: jobs::wait.                                     *)
Wait(w) ==
    /\ pc[w] = "suspended"
    /\ status' = [status EXCEPT ![job[w]] = "waiting"]
    /\ Idle(w)
    /\ UNCHANGED <<attempts, due, decision, passed, resuming, faults>>

(* An error, and this was the last run, or a human said no: jobs::fail.      *)
GiveUp(w) ==
    /\ \/ pc[w] = "running" /\ tries[w] + 1 >= ATTEMPTS
       \/ pc[w] = "denied"
    /\ status' = [status EXCEPT ![job[w]] = "failed"]
    /\ attempts' = [attempts EXCEPT ![job[w]] = tries[w] + 1]
    /\ Idle(w)
    /\ UNCHANGED <<due, decision, passed, resuming, faults>>

(* An error, and runs are left: jobs::retry_later, a minute or more from now. *)
RetryLater(w) ==
    /\ pc[w] = "running"
    /\ tries[w] + 1 < ATTEMPTS
    /\ status' = [status EXCEPT ![job[w]] = "queued"]
    /\ attempts' = [attempts EXCEPT ![job[w]] = tries[w] + 1]
    /\ due' = [due EXCEPT ![job[w]] = FALSE]
    /\ Idle(w)
    /\ UNCHANGED <<decision, passed, resuming, faults>>

(* The server dies, or the store refuses the update that ends the run (work  *)
(* reports it and goes on): the row stays as it is.  A server that starts    *)
(* again starts its workers at the top of their loop.                        *)
Abandon(w) ==
    /\ faults < MaxFaults
    /\ pc[w] # "idle"
    /\ faults' = faults + 1
    /\ Idle(w)
    /\ UNCHANGED <<table, decision, passed, resuming>>

(* approvals::ask inserts the row, then fails to read its id back: the       *)
(* question is stored, and the run goes on to an error of the store.         *)
AskFails(w) ==
    LET j == job[w] IN
    /\ faults < MaxFaults
    /\ pc[w] = "running"
    /\ rank[w] < Questions[j]
    /\ decision[j][rank[w]] = "none"
    /\ faults' = faults + 1
    /\ decision' = [decision EXCEPT ![j][rank[w]] = "pending"]
    /\ IF tries[w] + 1 >= ATTEMPTS
       THEN status' = [status EXCEPT ![j] = "failed"] /\ UNCHANGED due
       ELSE /\ status' = [status EXCEPT ![j] = "queued"]
            /\ due' = [due EXCEPT ![j] = FALSE]
    /\ attempts' = [attempts EXCEPT ![j] = tries[w] + 1]
    /\ Idle(w)
    /\ UNCHANGED <<passed, resuming>>

------------------------------------------------------------------------------
(* A decision: approvals::decide_by, whose two updates are not one           *)
(* transaction.                                                              *)

(* (A bug: the row is updated whatever was decided before.)                  *)
DecideOver(d, j, r) ==
    /\ resuming[d] = NoJob
    /\ decision[j][r] # "none"
    /\ \E answer \in {"approved", "denied"} :
           decision' = [decision EXCEPT ![j][r] = answer]
    /\ resuming' = [resuming EXCEPT ![d] = j]
    /\ UNCHANGED <<table, worker, passed, faults>>

Decide(d, j, r) ==
    /\ resuming[d] = NoJob
    /\ decision[j][r] = "pending"
    /\ \E answer \in {"approved", "denied"} :
           decision' = [decision EXCEPT ![j][r] = answer]
    /\ resuming' = [resuming EXCEPT ![d] = j]
    /\ UNCHANGED <<table, worker, passed, faults>>

(* (A bug: a resume that is not conditional on the job's waiting.)           *)
ResumeAnyway(d) ==
    LET j == resuming[d] IN
    /\ j # NoJob
    /\ status' = [status EXCEPT ![j] = "queued"]
    /\ resuming' = [resuming EXCEPT ![d] = NoJob]
    /\ UNCHANGED <<attempts, due, decision, worker, passed, faults>>

(* jobs::resume_waiting.                                                     *)
Resume(d) ==
    LET j == resuming[d] IN
    /\ j # NoJob
    /\ status' = [status EXCEPT ![j] = IF @ = "waiting" THEN "queued" ELSE @]
    /\ resuming' = [resuming EXCEPT ![d] = NoJob]
    /\ UNCHANGED <<attempts, due, decision, worker, passed, faults>>

(* The decider's process dies, or its store fails, between the two.          *)
AbandonDecision(d) ==
    /\ faults < MaxFaults
    /\ resuming[d] # NoJob
    /\ faults' = faults + 1
    /\ resuming' = [resuming EXCEPT ![d] = NoJob]
    /\ UNCHANGED <<table, decision, worker, passed>>

------------------------------------------------------------------------------
RunStep(w) ==
    \/ Claim(w) \/ MissClaim(w) \/ AskNew(w) \/ AskAgain(w) \/ Rescue(w)
    \/ Finish(w) \/ Wait(w) \/ GiveUp(w) \/ RetryLater(w)

Next ==
    \/ \E j \in Jobs : Enqueue(j) \/ ComeDue(j) \/ Retry(j)
    \/ \E w \in Workers : \E j \in Jobs : Look(w, j)
    \/ \E w \in Workers : RunStep(w) \/ Abandon(w) \/ AskFails(w)
    \/ \E d \in Deciders : \E j \in Jobs : \E r \in Ranks(j) : Decide(d, j, r)
    \/ \E d \in Deciders : Resume(d) \/ AbandonDecision(d)

(* Time passes; a worker goes on with its run, a decider with its decision;  *)
(* and next_due returns the job due for longest (ORDER BY run_at), so that   *)
(* no due job is passed over for ever.  Nobody has to enqueue, to retry or   *)
(* to decide.                                                                *)
Fairness ==
    /\ \A j \in Jobs : WF_vars(ComeDue(j))
    /\ \A w \in Workers : WF_vars(RunStep(w))
    /\ \A j \in Jobs : SF_vars(\E w \in Workers : Look(w, j))
    /\ \A d \in Deciders : WF_vars(Resume(d))

Spec == Init /\ [][Next]_vars
FairSpec == Spec /\ Fairness

------------------------------------------------------------------------------
(* Types and bounds of the tables and of the workers.                        *)
TypeOK ==
    /\ status \in [Jobs -> Statuses]
    /\ attempts \in [Jobs -> Nat]
    /\ due \in [Jobs -> BOOLEAN]
    /\ DOMAIN decision = Jobs
    /\ \A j \in Jobs : decision[j] \in [Ranks(j) -> Decisions]
    /\ pc \in [Workers -> Steps]
    /\ job \in [Workers -> Jobs \cup {NoJob}]
    /\ tries \in [Workers -> Nat]
    /\ rank \in [Workers -> Nat]
    /\ passed \in [Jobs -> SUBSET Nat]
    /\ resuming \in [Deciders -> Jobs \cup {NoJob}]
    /\ faults \in 0 .. MaxFaults

(* "Two workers never run the same" (jobs.rs:2): between the conditional     *)
(* claim and the unconditional update that ends the run, a job has one       *)
(* worker, and its row says running - whatever the other workers, the        *)
(* deciders and the console do to the rows meanwhile.                        *)
OneRunner ==
    \A w \in Workers : pc[w] \in Owning =>
        /\ status[job[w]] = "running"
        /\ \A v \in Workers : pc[v] \in Owning /\ job[v] = job[w] => v = w

(* What a run did past a question rests on a human's yes to that question,   *)
(* and goes on to: no crash, error, second worker or later decision leaves a *)
(* run under way, or done, past an answer that is now a no or was never      *)
(* given (stored_approval, decide_by).  A question whose error the program   *)
(* rescues lets nothing through.                                             *)
PassedApproved ==
    \A j \in Jobs : \A r \in passed[j] : r \in Ranks(j) /\ decision[j][r] = "approved"

(* A job queued, running or waiting has a run left: retry_later, wait and    *)
(* resume_waiting never put back a job that used its ATTEMPTS, though the    *)
(* count written is the one the worker read before its claim.                *)
RunsLeft ==
    \A j \in Jobs : status[j] \in {"queued", "running", "waiting"} => attempts[j] < ATTEMPTS

(* A decision is taken once, whoever else decides, asks again or retries     *)
(* (decide_by is conditional on 'pending', jobs::retry leaves the rows).     *)
DecisionsStand ==
    [][\A j \in Jobs : \A r \in Ranks(j) :
           decision[j][r] \in {"approved", "denied"} => decision'[j][r] = decision[j][r]]_vars

(* What is settled stays: a job done stays done, a failed one leaves failed  *)
(* only by jobs::retry, its attempts counted afresh.  A late decision, or a  *)
(* worker that read the row before, does not bring it back.                  *)
SettledStays ==
    [][\A j \in Jobs :
           /\ status[j] = "done" => status'[j] = "done"
           /\ status[j] = "failed" /\ status'[j] # "failed" =>
                  status'[j] = "queued" /\ attempts'[j] = 0]_vars

(* A queued job is taken: retried, resumed or first queued, whatever other   *)
(* jobs there are, and though a server may crash between its look and its    *)
(* claim.                                                                    *)
EveryJobIsTaken == \A j \in Jobs : status[j] = "queued" ~> status[j] # "queued"

(* The claim is a lock on the job: JobQueue implements Exclusion.            *)
runners == [j \in Jobs |-> {w \in Workers : Owns(w, j)}]
Lock == INSTANCE Exclusion WITH Resources <- Jobs, Owners <- Workers, holders <- runners
ClaimIsALock == Lock!Spec

------------------------------------------------------------------------------
(* What the repository says, and the code does not do.                       *)

(* "Queues again the job that waited for it" (ops/approvals.rs:131): a job   *)
(* that waits has a question to be decided, or is about to be queued again.  *)
NoDecisionLost ==
    \A j \in Jobs : status[j] = "waiting" =>
        \/ \E r \in Ranks(j) : decision[j][r] = "pending"
        \/ \E d \in Deciders : resuming[d] = j

(* "Survives crashes, redeployments" (SPEC.md:341): a job that runs comes to *)
(* an end of its run, though its server may crash once.                      *)
EveryRunEnds == \A j \in Jobs : status[j] = "running" ~> status[j] # "running"
==============================================================================
