--------------------------- MODULE JobQueueProofs ----------------------------
(* Theorems about JobQueue, for any jobs, workers, deciders and bounds.      *)
EXTENDS JobQueue, TLAPS

(* A worker past its look has a job; a row not inserted has no attempts.     *)
HasJob == \A w \in Workers : pc[w] # "idle" => job[w] \in Jobs

FreshRows == \A j \in Jobs : status[j] = "absent" => attempts[j] = 0

(* The inductive invariant: the safety properties of JobQueue, and what they  *)
(* rest on.                                                                   *)
IInv ==
    /\ TypeOK
    /\ HasJob
    /\ OneRunner
    /\ FreshRows
    /\ RunsLeft
    /\ PassedApproved

------------------------------------------------------------------------------
(* The types of the rows and of the workers are kept by every statement of   *)
(* grenat_ops and every step of perform_one.                                 *)
LEMMA InitTyped == Init => TypeOK /\ HasJob
  BY JobQueueAssumption DEF Init, TypeOK, HasJob, Statuses, Steps, Decisions

(* The question a run asks has a rank of its job's.                          *)
LEMMA AskedInRange ==
  ASSUME TypeOK, HasJob,
         NEW w \in Workers, pc[w] = "running", rank[w] < Questions[job[w]]
  PROVE  job[w] \in Jobs /\ rank[w] \in Ranks(job[w])
<1>1. job[w] \in Jobs
  BY DEF HasJob
<1>2. Questions[job[w]] \in Nat
  BY <1>1, JobQueueAssumption
<1>3. rank[w] \in Nat
  BY DEF TypeOK
<1>. QED
  BY <1>1, <1>2, <1>3 DEF Ranks

(* Every statement on the tables, step of a worker or decision keeps the      *)
(* types, and a worker past its look (perform_one) keeps its job.             *)
LEMMA TypeStep ==
  ASSUME TypeOK, HasJob, [Next]_vars
  PROVE  TypeOK' /\ HasJob'
<1>1. ASSUME NEW j \in Jobs, Enqueue(j)
      PROVE  TypeOK' /\ HasJob'
  BY <1>1, JobQueueAssumption DEF Enqueue, TypeOK, HasJob, Statuses, worker
<1>2. ASSUME NEW j \in Jobs, ComeDue(j)
      PROVE  TypeOK' /\ HasJob'
  BY <1>2, JobQueueAssumption DEF ComeDue, TypeOK, HasJob, worker
<1>3. ASSUME NEW j \in Jobs, Retry(j)
      PROVE  TypeOK' /\ HasJob'
  BY <1>3, JobQueueAssumption DEF Retry, TypeOK, HasJob, Statuses, worker
<1>4. ASSUME NEW w \in Workers, NEW j \in Jobs, Look(w, j)
      PROVE  TypeOK' /\ HasJob'
  BY <1>4, JobQueueAssumption DEF Look, TypeOK, HasJob, Steps, table
<1>5. ASSUME NEW w \in Workers, Claim(w)
      PROVE  TypeOK' /\ HasJob'
  BY <1>5, JobQueueAssumption
  DEF Claim, TypeOK, HasJob, Statuses, Steps, Owning
<1>6. ASSUME NEW w \in Workers, MissClaim(w)
      PROVE  TypeOK' /\ HasJob'
  BY <1>6, JobQueueAssumption
  DEF MissClaim, Idle, TypeOK, HasJob, Steps, table
<1>7. ASSUME NEW w \in Workers, AskNew(w)
      PROVE  TypeOK' /\ HasJob'
  <2>. DEFINE j == job[w]
  <2>1. j \in Jobs /\ rank[w] \in Ranks(j)
    BY <1>7, AskedInRange DEF AskNew
  <2>2. /\ DOMAIN decision' = Jobs
        /\ \A i \in Jobs : decision'[i] \in [Ranks(i) -> Decisions]
    BY <1>7, <2>1 DEF AskNew, TypeOK, Decisions
  <2>. QED
    BY <1>7, <2>1, <2>2 DEF AskNew, TypeOK, HasJob, Steps, Owning, table
<1>8. ASSUME NEW w \in Workers, AskAgain(w)
      PROVE  TypeOK' /\ HasJob'
  <2>1. job[w] \in Jobs /\ rank[w] \in Ranks(job[w])
    BY <1>8, AskedInRange DEF AskAgain
  <2>2. decision[job[w]][rank[w]] \in {"pending", "approved", "denied"}
    BY <1>8, <2>1 DEF AskAgain, TypeOK, Decisions
  <2>3. pc' \in [Workers -> Steps] /\ rank' \in [Workers -> Nat]
    BY <1>8, <2>2 DEF AskAgain, AfterDecision, TypeOK, Steps, Owning
  <2>4. passed' \in [Jobs -> SUBSET Nat]
    BY <1>8, <2>1 DEF AskAgain, TypeOK
  <2>. QED
    BY <1>8, <2>1, <2>3, <2>4 DEF AskAgain, TypeOK, HasJob, table
<1>9. ASSUME NEW w \in Workers, Finish(w)
      PROVE  TypeOK' /\ HasJob'
  BY <1>9, JobQueueAssumption
  DEF Finish, Idle, TypeOK, HasJob, Statuses, Steps
<1>10. ASSUME NEW w \in Workers, Wait(w)
      PROVE  TypeOK' /\ HasJob'
  BY <1>10, JobQueueAssumption DEF Wait, Idle, TypeOK, HasJob, Statuses, Steps
<1>11. ASSUME NEW w \in Workers, GiveUp(w)
      PROVE  TypeOK' /\ HasJob'
  BY <1>11, JobQueueAssumption
  DEF GiveUp, Idle, TypeOK, HasJob, Statuses, Steps
<1>12. ASSUME NEW w \in Workers, RetryLater(w)
      PROVE  TypeOK' /\ HasJob'
  BY <1>12, JobQueueAssumption
  DEF RetryLater, Idle, TypeOK, HasJob, Statuses, Steps
<1>13. ASSUME NEW w \in Workers, Abandon(w)
      PROVE  TypeOK' /\ HasJob'
  BY <1>13, JobQueueAssumption DEF Abandon, Idle, TypeOK, HasJob, Steps, table
<1>14. ASSUME NEW w \in Workers, AskFails(w)
      PROVE  TypeOK' /\ HasJob'
  <2>. DEFINE j == job[w]
  <2>1. j \in Jobs /\ rank[w] \in Ranks(j)
    BY <1>14, AskedInRange DEF AskFails
  <2>2. /\ DOMAIN decision' = Jobs
        /\ \A i \in Jobs : decision'[i] \in [Ranks(i) -> Decisions]
    BY <1>14, <2>1 DEF AskFails, TypeOK, Decisions
  <2>3. status' \in [Jobs -> Statuses] /\ due' \in [Jobs -> BOOLEAN]
    <3>1. CASE tries[w] + 1 >= ATTEMPTS
      BY <1>14, <2>1, <3>1 DEF AskFails, TypeOK, Statuses
    <3>2. CASE ~(tries[w] + 1 >= ATTEMPTS)
      BY <1>14, <2>1, <3>2 DEF AskFails, TypeOK, Statuses
    <3>. QED
      BY <3>1, <3>2
  <2>. QED
    BY <1>14, <2>1, <2>2, <2>3, JobQueueAssumption
    DEF AskFails, Idle, TypeOK, HasJob, Steps
<1>15. ASSUME NEW d \in Deciders, NEW j \in Jobs, NEW r \in Ranks(j), Decide(d, j, r)
      PROVE  TypeOK' /\ HasJob'
  BY <1>15, JobQueueAssumption
  DEF Decide, TypeOK, HasJob, Decisions, table, worker
<1>16. ASSUME NEW d \in Deciders, Resume(d)
      PROVE  TypeOK' /\ HasJob'
  BY <1>16, JobQueueAssumption DEF Resume, TypeOK, HasJob, Statuses, worker
<1>17. ASSUME NEW d \in Deciders, AbandonDecision(d)
      PROVE  TypeOK' /\ HasJob'
  BY <1>17, JobQueueAssumption
  DEF AbandonDecision, TypeOK, HasJob, table, worker
<1>18. ASSUME NEW w \in Workers, Rescue(w)
      PROVE  TypeOK' /\ HasJob'
  BY <1>18, JobQueueAssumption DEF Rescue, TypeOK, HasJob, Steps, Owning, table
<1>19. CASE UNCHANGED vars
  BY <1>19 DEF vars, table, worker, TypeOK, HasJob
<1>. QED
  BY <1>1, <1>2, <1>3, <1>4, <1>5, <1>6, <1>7, <1>8, <1>9, <1>10, <1>11,
     <1>12, <1>13, <1>14, <1>15, <1>16, <1>17, <1>18, <1>19
  DEF Next, RunStep

(* One worker runs a job, and its row says so: the claim's condition and the *)
(* updates of the owner alone keep it, the others only touch rows that are   *)
(* absent, failed or waiting.                                                *)
LEMMA RunnerStep ==
  ASSUME TypeOK, HasJob, OneRunner, [Next]_vars
  PROVE  OneRunner'
<1>1. ASSUME NEW j \in Jobs, Enqueue(j)
      PROVE  OneRunner'
  BY <1>1 DEF Enqueue, TypeOK, OneRunner, worker
<1>2. ASSUME NEW j \in Jobs, ComeDue(j)
      PROVE  OneRunner'
  BY <1>2 DEF ComeDue, TypeOK, OneRunner, worker
<1>3. ASSUME NEW j \in Jobs, Retry(j)
      PROVE  OneRunner'
  BY <1>3 DEF Retry, TypeOK, OneRunner, worker
<1>4. ASSUME NEW w \in Workers, NEW j \in Jobs, Look(w, j)
      PROVE  OneRunner'
  BY <1>4 DEF Look, TypeOK, OneRunner, Owning, table
<1>5. ASSUME NEW w \in Workers, Claim(w)
      PROVE  OneRunner'
  BY <1>5 DEF Claim, TypeOK, HasJob, OneRunner
<1>6. ASSUME NEW w \in Workers, MissClaim(w)
      PROVE  OneRunner'
  BY <1>6 DEF MissClaim, Idle, TypeOK, OneRunner, Owning, table
<1>7. ASSUME NEW w \in Workers, AskNew(w)
      PROVE  OneRunner'
  BY <1>7 DEF AskNew, TypeOK, OneRunner, Steps, table
<1>8. ASSUME NEW w \in Workers, AskAgain(w)
      PROVE  OneRunner'
  BY <1>8 DEF AskAgain, TypeOK, OneRunner, Steps, table
<1>9. ASSUME NEW w \in Workers, Finish(w)
      PROVE  OneRunner'
  BY <1>9 DEF Finish, Idle, TypeOK, OneRunner, Owning
<1>10. ASSUME NEW w \in Workers, Wait(w)
      PROVE  OneRunner'
  BY <1>10 DEF Wait, Idle, TypeOK, OneRunner, Owning
<1>11. ASSUME NEW w \in Workers, GiveUp(w)
      PROVE  OneRunner'
  BY <1>11 DEF GiveUp, Idle, TypeOK, OneRunner, Owning
<1>12. ASSUME NEW w \in Workers, RetryLater(w)
      PROVE  OneRunner'
  BY <1>12 DEF RetryLater, Idle, TypeOK, OneRunner, Owning
<1>13. ASSUME NEW w \in Workers, Abandon(w)
      PROVE  OneRunner'
  BY <1>13 DEF Abandon, Idle, TypeOK, OneRunner, Owning, table
<1>14. ASSUME NEW w \in Workers, AskFails(w)
      PROVE  OneRunner'
  BY <1>14 DEF AskFails, Idle, TypeOK, HasJob, OneRunner, Owning
<1>15. ASSUME NEW d \in Deciders, NEW j \in Jobs, NEW r \in Ranks(j), Decide(d, j, r)
      PROVE  OneRunner'
  BY <1>15 DEF Decide, TypeOK, OneRunner, table, worker
<1>16. ASSUME NEW d \in Deciders, Resume(d)
      PROVE  OneRunner'
  BY <1>16 DEF Resume, TypeOK, OneRunner, worker
<1>17. ASSUME NEW d \in Deciders, AbandonDecision(d)
      PROVE  OneRunner'
  BY <1>17 DEF AbandonDecision, TypeOK, OneRunner, table, worker
<1>18. ASSUME NEW w \in Workers, Rescue(w)
      PROVE  OneRunner'
  BY <1>18 DEF Rescue, TypeOK, OneRunner, Owning, table
<1>19. CASE UNCHANGED vars
  BY <1>19 DEF vars, table, worker, TypeOK, OneRunner
<1>. QED
  BY <1>1, <1>2, <1>3, <1>4, <1>5, <1>6, <1>7, <1>8, <1>9, <1>10, <1>11,
     <1>12, <1>13, <1>14, <1>15, <1>16, <1>17, <1>18, <1>19
  DEF Next, RunStep

(* A row not inserted has no attempts, and a job that may run again has a    *)
(* run left.                                                                 *)
LEMMA BudgetStep ==
  ASSUME TypeOK, HasJob, OneRunner, FreshRows, RunsLeft, [Next]_vars
  PROVE  FreshRows' /\ RunsLeft'
<1>1. ASSUME NEW j \in Jobs, Enqueue(j)
      PROVE  FreshRows' /\ RunsLeft'
  BY <1>1, JobQueueAssumption DEF Enqueue, TypeOK, FreshRows, RunsLeft
<1>2. ASSUME NEW j \in Jobs, ComeDue(j)
      PROVE  FreshRows' /\ RunsLeft'
  BY <1>2, JobQueueAssumption DEF ComeDue, TypeOK, FreshRows, RunsLeft
<1>3. ASSUME NEW j \in Jobs, Retry(j)
      PROVE  FreshRows' /\ RunsLeft'
  BY <1>3, JobQueueAssumption DEF Retry, TypeOK, FreshRows, RunsLeft
<1>4. ASSUME NEW w \in Workers, NEW j \in Jobs, Look(w, j)
      PROVE  FreshRows' /\ RunsLeft'
  BY <1>4, JobQueueAssumption DEF Look, TypeOK, FreshRows, RunsLeft, table
<1>5. ASSUME NEW w \in Workers, Claim(w)
      PROVE  FreshRows' /\ RunsLeft'
  BY <1>5, JobQueueAssumption DEF Claim, TypeOK, FreshRows, RunsLeft
<1>6. ASSUME NEW w \in Workers, MissClaim(w)
      PROVE  FreshRows' /\ RunsLeft'
  BY <1>6, JobQueueAssumption
  DEF MissClaim, TypeOK, FreshRows, RunsLeft, table
<1>7. ASSUME NEW w \in Workers, AskNew(w)
      PROVE  FreshRows' /\ RunsLeft'
  BY <1>7, JobQueueAssumption DEF AskNew, TypeOK, FreshRows, RunsLeft, table
<1>8. ASSUME NEW w \in Workers, AskAgain(w)
      PROVE  FreshRows' /\ RunsLeft'
  BY <1>8, JobQueueAssumption DEF AskAgain, TypeOK, FreshRows, RunsLeft, table
<1>9. ASSUME NEW w \in Workers, Finish(w)
      PROVE  FreshRows' /\ RunsLeft'
  BY <1>9, JobQueueAssumption DEF Finish, TypeOK, FreshRows, RunsLeft
<1>10. ASSUME NEW w \in Workers, Wait(w)
      PROVE  FreshRows' /\ RunsLeft'
  BY <1>10, JobQueueAssumption
  DEF Wait, TypeOK, OneRunner, FreshRows, RunsLeft, Steps
<1>11. ASSUME NEW w \in Workers, GiveUp(w)
      PROVE  FreshRows' /\ RunsLeft'
  BY <1>11, JobQueueAssumption DEF GiveUp, TypeOK, FreshRows, RunsLeft
<1>12. ASSUME NEW w \in Workers, RetryLater(w)
      PROVE  FreshRows' /\ RunsLeft'
  BY <1>12, JobQueueAssumption DEF RetryLater, TypeOK, FreshRows, RunsLeft
<1>13. ASSUME NEW w \in Workers, Abandon(w)
      PROVE  FreshRows' /\ RunsLeft'
  BY <1>13, JobQueueAssumption DEF Abandon, TypeOK, FreshRows, RunsLeft, table
<1>14. ASSUME NEW w \in Workers, AskFails(w)
      PROVE  FreshRows' /\ RunsLeft'
  BY <1>14, JobQueueAssumption DEF AskFails, TypeOK, FreshRows, RunsLeft
<1>15. ASSUME NEW d \in Deciders, NEW j \in Jobs, NEW r \in Ranks(j), Decide(d, j, r)
      PROVE  FreshRows' /\ RunsLeft'
  BY <1>15, JobQueueAssumption DEF Decide, TypeOK, FreshRows, RunsLeft, table
<1>16. ASSUME NEW d \in Deciders, Resume(d)
      PROVE  FreshRows' /\ RunsLeft'
  BY <1>16, JobQueueAssumption DEF Resume, TypeOK, FreshRows, RunsLeft
<1>17. ASSUME NEW d \in Deciders, AbandonDecision(d)
      PROVE  FreshRows' /\ RunsLeft'
  BY <1>17, JobQueueAssumption
  DEF AbandonDecision, TypeOK, FreshRows, RunsLeft, table
<1>18. ASSUME NEW w \in Workers, Rescue(w)
      PROVE  FreshRows' /\ RunsLeft'
  BY <1>18, JobQueueAssumption DEF Rescue, TypeOK, FreshRows, RunsLeft, table
<1>19. CASE UNCHANGED vars
  BY <1>19 DEF vars, table, TypeOK, FreshRows, RunsLeft
<1>. QED
  BY <1>1, <1>2, <1>3, <1>4, <1>5, <1>6, <1>7, <1>8, <1>9, <1>10, <1>11,
     <1>12, <1>13, <1>14, <1>15, <1>16, <1>17, <1>18, <1>19
  DEF Next, RunStep

(* What let a run through was a yes, and stays one.                           *)
LEMMA PassedStep ==
  ASSUME TypeOK, HasJob, PassedApproved, [Next]_vars
  PROVE  PassedApproved'
<1>1. ASSUME NEW w \in Workers, Claim(w)
      PROVE  PassedApproved'
  BY <1>1 DEF Claim, TypeOK, PassedApproved
<1>2. ASSUME NEW w \in Workers, AskNew(w)
      PROVE  PassedApproved'
  BY <1>2 DEF AskNew, TypeOK, PassedApproved
<1>3. ASSUME NEW w \in Workers, AskAgain(w)
      PROVE  PassedApproved'
  <2>. DEFINE j == job[w]
  <2>1. j \in Jobs /\ rank[w] \in Ranks(j)
    BY <1>3, AskedInRange DEF AskAgain
  <2>2. pc'[w] = "running" => decision[j][rank[w]] = "approved"
    BY <1>3, <2>1 DEF AskAgain, AfterDecision, TypeOK, Decisions
  <2>3. /\ UNCHANGED decision
        /\ passed' = [passed EXCEPT ![j] = IF pc'[w] = "running" THEN @ \cup {rank[w]} ELSE @]
    BY <1>3 DEF AskAgain
  <2>. QED
    BY <2>1, <2>2, <2>3 DEF TypeOK, PassedApproved
<1>4. ASSUME NEW w \in Workers, AskFails(w)
      PROVE  PassedApproved'
  BY <1>4 DEF AskFails, TypeOK, PassedApproved
<1>5. ASSUME NEW d \in Deciders, NEW j \in Jobs, NEW r \in Ranks(j), Decide(d, j, r)
      PROVE  PassedApproved'
  BY <1>5 DEF Decide, TypeOK, PassedApproved
<1>6. CASE UNCHANGED <<decision, passed>>
  BY <1>6 DEF PassedApproved
<1>. QED
  BY <1>1, <1>2, <1>3, <1>4, <1>5, <1>6
  DEF Next, RunStep, Enqueue, ComeDue, Retry, Look, MissClaim, Rescue, Finish, Wait, GiveUp,
      RetryLater, Abandon, Resume, AbandonDecision, vars

------------------------------------------------------------------------------
(* The empty tables and idle workers a program starts with.                   *)
LEMMA InitInv == Init => IInv
  BY InitTyped, JobQueueAssumption
  DEF Init, IInv, OneRunner, Owning, FreshRows, RunsLeft, PassedApproved

(* One step keeps all of the invariant: types, owners, runs left, approvals.  *)
LEMMA Inductive == IInv /\ [Next]_vars => IInv'
  BY TypeStep, RunnerStep, BudgetStep, PassedStep DEF IInv

(* The inductive invariant holds in every reachable state of the job queue.   *)
LEMMA Invariant == Spec => []IInv
<1>1. Init => IInv
  BY InitInv
<1>2. IInv /\ [Next]_vars => IInv'
  BY Inductive
<1>. QED
  BY <1>1, <1>2, PTL DEF Spec

(* The tables and the workers stay of their types, in every reachable state  *)
(* of grenat_ops::jobs, approvals and perform_one.                           *)
THEOREM TypeCorrect == Spec => []TypeOK
<1>1. IInv => TypeOK
  BY DEF IInv
<1>. QED
  BY <1>1, Invariant, PTL

(* Two workers never run the same job (jobs::claim), for any number of       *)
(* workers, servers and deciders.                                            *)
THEOREM OneRunnerHolds == Spec => []OneRunner
<1>1. IInv => OneRunner
  BY DEF IInv
<1>. QED
  BY <1>1, Invariant, PTL

(* A job that may run again has a run left (retry_later, wait,               *)
(* resume_waiting), for any ATTEMPTS.                                        *)
THEOREM RunsLeftHolds == Spec => []RunsLeft
<1>1. IInv => RunsLeft
  BY DEF IInv
<1>. QED
  BY <1>1, Invariant, PTL

(* What a run did past a question, done or under way, rests on a human's yes *)
(* that stands (stored_approval, decide_by), for any jobs, questions and     *)
(* deciders.                                                                 *)
THEOREM PassedApprovedHolds == Spec => []PassedApproved
<1>1. IInv => PassedApproved
  BY DEF IInv
<1>. QED
  BY <1>1, Invariant, PTL
------------------------------------------------------------------------------
(* A decision is changed by decide_by alone, and only while it is pending.   *)
DecisionKept ==
    \A j \in Jobs : \A r \in Ranks(j) :
        decision[j][r] \in {"approved", "denied"} => decision'[j][r] = decision[j][r]

(* No step but a pending row's decide_by changes a decision.                  *)
LEMMA DecisionStep ==
  ASSUME TypeOK, HasJob, [Next]_vars
  PROVE  DecisionKept
<1>1. ASSUME NEW j \in Jobs, Enqueue(j)
      PROVE  DecisionKept
  BY <1>1 DEF Enqueue, TypeOK, DecisionKept
<1>2. ASSUME NEW j \in Jobs, ComeDue(j)
      PROVE  DecisionKept
  BY <1>2 DEF ComeDue, TypeOK, DecisionKept
<1>3. ASSUME NEW j \in Jobs, Retry(j)
      PROVE  DecisionKept
  BY <1>3 DEF Retry, TypeOK, DecisionKept
<1>4. ASSUME NEW w \in Workers, NEW j \in Jobs, Look(w, j)
      PROVE  DecisionKept
  BY <1>4 DEF Look, TypeOK, DecisionKept
<1>5. ASSUME NEW w \in Workers, Claim(w)
      PROVE  DecisionKept
  BY <1>5 DEF Claim, TypeOK, DecisionKept
<1>6. ASSUME NEW w \in Workers, MissClaim(w)
      PROVE  DecisionKept
  BY <1>6 DEF MissClaim, TypeOK, DecisionKept
<1>7. ASSUME NEW w \in Workers, AskNew(w)
      PROVE  DecisionKept
  <2>1. job[w] \in Jobs /\ rank[w] \in Ranks(job[w])
    BY <1>7, AskedInRange DEF AskNew
  <2>. QED
    BY <1>7, <2>1 DEF AskNew, TypeOK, DecisionKept
<1>8. ASSUME NEW w \in Workers, AskAgain(w)
      PROVE  DecisionKept
  BY <1>8 DEF AskAgain, TypeOK, DecisionKept
<1>9. ASSUME NEW w \in Workers, Finish(w)
      PROVE  DecisionKept
  BY <1>9 DEF Finish, TypeOK, DecisionKept
<1>10. ASSUME NEW w \in Workers, Wait(w)
      PROVE  DecisionKept
  BY <1>10 DEF Wait, TypeOK, DecisionKept
<1>11. ASSUME NEW w \in Workers, GiveUp(w)
      PROVE  DecisionKept
  BY <1>11 DEF GiveUp, TypeOK, DecisionKept
<1>12. ASSUME NEW w \in Workers, RetryLater(w)
      PROVE  DecisionKept
  BY <1>12 DEF RetryLater, TypeOK, DecisionKept
<1>13. ASSUME NEW w \in Workers, Abandon(w)
      PROVE  DecisionKept
  BY <1>13 DEF Abandon, TypeOK, DecisionKept
<1>14. ASSUME NEW w \in Workers, AskFails(w)
      PROVE  DecisionKept
  <2>1. job[w] \in Jobs /\ rank[w] \in Ranks(job[w])
    BY <1>14, AskedInRange DEF AskFails
  <2>. QED
    BY <1>14, <2>1 DEF AskFails, TypeOK, DecisionKept
<1>15. ASSUME NEW d \in Deciders, NEW j \in Jobs, NEW r \in Ranks(j), Decide(d, j, r)
      PROVE  DecisionKept
  BY <1>15 DEF Decide, TypeOK, DecisionKept
<1>16. ASSUME NEW d \in Deciders, Resume(d)
      PROVE  DecisionKept
  BY <1>16 DEF Resume, TypeOK, DecisionKept
<1>17. ASSUME NEW d \in Deciders, AbandonDecision(d)
      PROVE  DecisionKept
  BY <1>17 DEF AbandonDecision, TypeOK, DecisionKept
<1>18. ASSUME NEW w \in Workers, Rescue(w)
      PROVE  DecisionKept
  BY <1>18 DEF Rescue, TypeOK, DecisionKept
<1>19. CASE UNCHANGED vars
  BY <1>19 DEF vars, TypeOK, DecisionKept
<1>. QED
  BY <1>1, <1>2, <1>3, <1>4, <1>5, <1>6, <1>7, <1>8, <1>9, <1>10, <1>11,
     <1>12, <1>13, <1>14, <1>15, <1>16, <1>17, <1>18, <1>19
  DEF Next, RunStep

(* Every decision on an approval is final (decide_by's condition).           *)
THEOREM DecisionsStandHolds == Spec => DecisionsStand
<1>1. IInv /\ [Next]_vars => [DecisionKept]_vars
  BY DecisionStep DEF IInv
<1>. QED
  BY <1>1, Invariant, PTL DEF Spec, DecisionsStand, DecisionKept

(* Only the owner of a running job writes a status without a condition.      *)
SettledKept ==
    \A j \in Jobs :
        /\ status[j] = "done" => status'[j] = "done"
        /\ status[j] = "failed" /\ status'[j] # "failed" =>
               status'[j] = "queued" /\ attempts'[j] = 0

(* No step but jobs::retry brings a settled job back: the updates that end a  *)
(* run are the owner's, and its job is running.                               *)
LEMMA SettledStep ==
  ASSUME TypeOK, HasJob, OneRunner, [Next]_vars
  PROVE  SettledKept
<1>1. ASSUME NEW j \in Jobs, Enqueue(j)
      PROVE  SettledKept
  BY <1>1 DEF Enqueue, TypeOK, SettledKept
<1>2. ASSUME NEW j \in Jobs, ComeDue(j)
      PROVE  SettledKept
  BY <1>2 DEF ComeDue, TypeOK, SettledKept
<1>3. ASSUME NEW j \in Jobs, Retry(j)
      PROVE  SettledKept
  BY <1>3 DEF Retry, TypeOK, SettledKept
<1>4. ASSUME NEW w \in Workers, NEW j \in Jobs, Look(w, j)
      PROVE  SettledKept
  BY <1>4 DEF Look, TypeOK, SettledKept, table
<1>5. ASSUME NEW w \in Workers, Claim(w)
      PROVE  SettledKept
  BY <1>5 DEF Claim, TypeOK, SettledKept
<1>6. ASSUME NEW w \in Workers, MissClaim(w)
      PROVE  SettledKept
  BY <1>6 DEF MissClaim, TypeOK, SettledKept, table
<1>7. ASSUME NEW w \in Workers, AskNew(w)
      PROVE  SettledKept
  BY <1>7 DEF AskNew, TypeOK, SettledKept, table
<1>8. ASSUME NEW w \in Workers, AskAgain(w)
      PROVE  SettledKept
  BY <1>8 DEF AskAgain, TypeOK, SettledKept, table
<1>9. ASSUME NEW w \in Workers, Finish(w)
      PROVE  SettledKept
  BY <1>9 DEF Finish, TypeOK, OneRunner, Owning, SettledKept
<1>10. ASSUME NEW w \in Workers, Wait(w)
      PROVE  SettledKept
  BY <1>10 DEF Wait, TypeOK, OneRunner, Owning, SettledKept
<1>11. ASSUME NEW w \in Workers, GiveUp(w)
      PROVE  SettledKept
  BY <1>11 DEF GiveUp, TypeOK, OneRunner, Owning, SettledKept
<1>12. ASSUME NEW w \in Workers, RetryLater(w)
      PROVE  SettledKept
  BY <1>12 DEF RetryLater, TypeOK, OneRunner, Owning, SettledKept
<1>13. ASSUME NEW w \in Workers, Abandon(w)
      PROVE  SettledKept
  BY <1>13 DEF Abandon, TypeOK, SettledKept, table
<1>14. ASSUME NEW w \in Workers, AskFails(w)
      PROVE  SettledKept
  BY <1>14 DEF AskFails, TypeOK, OneRunner, Owning, SettledKept
<1>15. ASSUME NEW d \in Deciders, NEW j \in Jobs, NEW r \in Ranks(j), Decide(d, j, r)
      PROVE  SettledKept
  BY <1>15 DEF Decide, TypeOK, SettledKept, table
<1>16. ASSUME NEW d \in Deciders, Resume(d)
      PROVE  SettledKept
  BY <1>16 DEF Resume, TypeOK, SettledKept
<1>17. ASSUME NEW d \in Deciders, AbandonDecision(d)
      PROVE  SettledKept
  BY <1>17 DEF AbandonDecision, TypeOK, SettledKept, table
<1>18. ASSUME NEW w \in Workers, Rescue(w)
      PROVE  SettledKept
  BY <1>18 DEF Rescue, TypeOK, SettledKept, table
<1>19. CASE UNCHANGED vars
  BY <1>19 DEF vars, table, TypeOK, SettledKept
<1>. QED
  BY <1>1, <1>2, <1>3, <1>4, <1>5, <1>6, <1>7, <1>8, <1>9, <1>10, <1>11,
     <1>12, <1>13, <1>14, <1>15, <1>16, <1>17, <1>18, <1>19
  DEF Next, RunStep

(* A job done stays done, a failed one is queued again only by hand.         *)
THEOREM SettledStaysHolds == Spec => SettledStays
<1>1. IInv /\ [Next]_vars => [SettledKept]_vars
  BY SettledStep DEF IInv
<1>. QED
  BY <1>1, Invariant, PTL DEF Spec, SettledStays, SettledKept
------------------------------------------------------------------------------
(* Going back to the loop gives back the job, if the worker had claimed it.  *)
LEMMA IdleGivesBack ==
  ASSUME TypeOK, HasJob, OneRunner, NEW w \in Workers, Idle(w), pc[w] \in Owning
  PROVE  Lock!GiveBack(job[w], w)
<1>1. job[w] \in Jobs
  BY DEF HasJob, Owning
<1>2. runners[job[w]] = {w}
  BY <1>1 DEF runners, Owns, OneRunner
<1>3. \A j \in Jobs : runners'[j] = IF j = job[w] THEN {} ELSE runners[j]
  BY <1>1 DEF runners, Owns, OneRunner, Idle, TypeOK, Owning
<1>. QED
  BY <1>1, <1>2, <1>3 DEF Lock!GiveBack, runners

(* A worker that goes back to its loop before its claim (MissClaim, a crash   *)
(* after next_due) gives back nothing.                                        *)
LEMMA IdleKeeps ==
  ASSUME TypeOK, NEW w \in Workers, Idle(w), pc[w] \notin Owning
  PROVE  UNCHANGED runners
<1>1. \A v \in Workers, j \in Jobs : Owns(v, j)' = Owns(v, j)
  BY DEF Owns, Idle, TypeOK, Owning
<1>. QED
  BY <1>1 DEF runners

(* A claim finds the job queued, so nobody runs it (jobs::claim).             *)
LEMMA ClaimTakes ==
  ASSUME TypeOK, HasJob, OneRunner, NEW w \in Workers, Claim(w)
  PROVE  job[w] \in Jobs /\ Lock!Take(job[w], w)
<1>1. job[w] \in Jobs
  BY DEF HasJob, Claim
<1>2. runners[job[w]] = {}
  BY <1>1 DEF runners, Owns, OneRunner, Claim
<1>3. \A j \in Jobs : runners'[j] = IF j = job[w] THEN {w} ELSE runners[j]
  <2>1. \A v \in Workers, j \in Jobs :
            Owns(v, j)' <=> (IF v = w THEN j = job[w] ELSE Owns(v, j))
    BY DEF Owns, Claim, TypeOK, Owning
  <2>2. \A j \in Jobs : runners'[j] = {v \in Workers : IF v = w THEN j = job[w] ELSE Owns(v, j)}
    BY <2>1 DEF runners
  <2>3. \A v \in Workers : ~ Owns(v, job[w])
    BY <1>1, <1>2 DEF runners
  <2>4. \A j \in Jobs : j # job[w] => ~ Owns(w, j)
    BY DEF Owns, Claim, Owning
  <2>. QED
    BY <1>1, <2>2, <2>3, <2>4 DEF runners
<1>4. runners \in [Jobs -> SUBSET Workers] /\ runners' \in [Jobs -> SUBSET Workers]
  BY DEF runners
<1>. QED
  BY <1>1, <1>2, <1>3, <1>4 DEF Lock!Take

(* Steps that change no worker's job or place leave the holders as they are.  *)
LEMMA SameOwners ==
  ASSUME \A v \in Workers, j \in Jobs : Owns(v, j)' <=> Owns(v, j)
  PROVE  UNCHANGED runners
  BY DEF runners

(* A claim takes the lock, the end of a run gives it back, and nothing else  *)
(* changes who holds it.                                                     *)
LEMMA LockStep ==
  ASSUME TypeOK, HasJob, OneRunner, [Next]_vars
  PROVE  [Lock!Next]_runners
<1>1. ASSUME NEW j \in Jobs, Enqueue(j)
      PROVE  [Lock!Next]_runners
  BY <1>1, SameOwners DEF Enqueue, TypeOK, Owns, worker
<1>2. ASSUME NEW j \in Jobs, ComeDue(j)
      PROVE  [Lock!Next]_runners
  BY <1>2, SameOwners DEF ComeDue, TypeOK, Owns, worker
<1>3. ASSUME NEW j \in Jobs, Retry(j)
      PROVE  [Lock!Next]_runners
  BY <1>3, SameOwners DEF Retry, TypeOK, Owns, worker
<1>4. ASSUME NEW w \in Workers, NEW j \in Jobs, Look(w, j)
      PROVE  [Lock!Next]_runners
  BY <1>4, SameOwners DEF Look, TypeOK, Owns, Owning
<1>5. ASSUME NEW w \in Workers, Claim(w)
      PROVE  [Lock!Next]_runners
  BY <1>5, ClaimTakes DEF Lock!Next
<1>6. ASSUME NEW w \in Workers, MissClaim(w)
      PROVE  [Lock!Next]_runners
  BY <1>6, IdleKeeps DEF MissClaim, Owning
<1>7. ASSUME NEW w \in Workers, AskNew(w)
      PROVE  [Lock!Next]_runners
  BY <1>7, SameOwners DEF AskNew, TypeOK, Owns, Owning
<1>8. ASSUME NEW w \in Workers, AskAgain(w)
      PROVE  [Lock!Next]_runners
  <2>1. job[w] \in Jobs /\ rank[w] \in Ranks(job[w])
    BY <1>8, AskedInRange DEF AskAgain
  <2>2. decision[job[w]][rank[w]] \in {"pending", "approved", "denied"}
    BY <1>8, <2>1 DEF AskAgain, TypeOK, Decisions
  <2>3. pc'[w] \in Owning /\ pc[w] \in Owning /\ job' = job
    BY <1>8, <2>2 DEF AskAgain, AfterDecision, TypeOK, Owning
  <2>. QED
    BY <1>8, <2>3, SameOwners DEF AskAgain, TypeOK, Owns
<1>9. ASSUME NEW w \in Workers, Finish(w)
      PROVE  [Lock!Next]_runners
  <2>1. Idle(w) /\ pc[w] \in Owning /\ job[w] \in Jobs
    BY <1>9 DEF Finish, Owning, HasJob
  <2>. QED
    BY <2>1, IdleGivesBack DEF Lock!Next
<1>10. ASSUME NEW w \in Workers, Wait(w)
      PROVE  [Lock!Next]_runners
  <2>1. Idle(w) /\ pc[w] \in Owning /\ job[w] \in Jobs
    BY <1>10 DEF Wait, Owning, HasJob
  <2>. QED
    BY <2>1, IdleGivesBack DEF Lock!Next
<1>11. ASSUME NEW w \in Workers, GiveUp(w)
      PROVE  [Lock!Next]_runners
  <2>1. Idle(w) /\ pc[w] \in Owning /\ job[w] \in Jobs
    BY <1>11 DEF GiveUp, Owning, HasJob
  <2>. QED
    BY <2>1, IdleGivesBack DEF Lock!Next
<1>12. ASSUME NEW w \in Workers, RetryLater(w)
      PROVE  [Lock!Next]_runners
  <2>1. Idle(w) /\ pc[w] \in Owning /\ job[w] \in Jobs
    BY <1>12 DEF RetryLater, Owning, HasJob
  <2>. QED
    BY <2>1, IdleGivesBack DEF Lock!Next
<1>13. ASSUME NEW w \in Workers, Abandon(w)
      PROVE  [Lock!Next]_runners
  <2>1. CASE pc[w] \in Owning
    BY <1>13, <2>1, IdleGivesBack DEF Abandon, HasJob, Lock!Next
  <2>2. CASE pc[w] \notin Owning
    BY <1>13, <2>2, IdleKeeps DEF Abandon
  <2>. QED
    BY <2>1, <2>2
<1>14. ASSUME NEW w \in Workers, AskFails(w)
      PROVE  [Lock!Next]_runners
  <2>1. Idle(w) /\ pc[w] \in Owning /\ job[w] \in Jobs
    BY <1>14 DEF AskFails, Owning, HasJob
  <2>. QED
    BY <2>1, IdleGivesBack DEF Lock!Next
<1>15. ASSUME NEW d \in Deciders, NEW j \in Jobs, NEW r \in Ranks(j), Decide(d, j, r)
      PROVE  [Lock!Next]_runners
  BY <1>15, SameOwners DEF Decide, TypeOK, Owns, worker
<1>16. ASSUME NEW d \in Deciders, Resume(d)
      PROVE  [Lock!Next]_runners
  BY <1>16, SameOwners DEF Resume, TypeOK, Owns, worker
<1>17. ASSUME NEW d \in Deciders, AbandonDecision(d)
      PROVE  [Lock!Next]_runners
  BY <1>17, SameOwners DEF AbandonDecision, TypeOK, Owns, worker
<1>18. ASSUME NEW w \in Workers, Rescue(w)
      PROVE  [Lock!Next]_runners
  BY <1>18, SameOwners DEF Rescue, TypeOK, Owns, Owning
<1>19. CASE UNCHANGED vars
  BY <1>19, SameOwners DEF vars, worker, TypeOK, Owns
<1>. QED
  BY <1>1, <1>2, <1>3, <1>4, <1>5, <1>6, <1>7, <1>8, <1>9, <1>10, <1>11,
     <1>12, <1>13, <1>14, <1>15, <1>16, <1>17, <1>18, <1>19
  DEF Next, RunStep

(* The claim implements the abstract lock: one owner at a time for each job. *)
THEOREM ClaimIsALockHolds == Spec => ClaimIsALock
<1>1. Init => Lock!Init
  BY DEF Init, Lock!Init, runners, Owns, Owning
<1>2. IInv /\ [Next]_vars => [Lock!Next]_runners
  BY LockStep DEF IInv
<1>. QED
  BY <1>1, <1>2, Invariant, PTL DEF Spec, ClaimIsALock, Lock!Spec
==============================================================================
