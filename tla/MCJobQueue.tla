----------------------------- MODULE MCJobQueue ------------------------------
(* Two jobs, the first asking up to two questions, the second none; and a    *)
(* durable workflow that a job runs: two steps that ask, then the first      *)
(* one's name again, as a loop would have it.  A job has one runner at a     *)
(* time (OneRunner), so that the workflow's runs follow one another and each *)
(* is looked at while the other stands still: `part' says which one runs.    *)
EXTENDS JobQueue, Workflow, TLC

CONSTANTS j1, j2

MCJobs == {j1, j2}
MCQuestions == (j1 :> 2) @@ (j2 :> 0)

MCProgram == <<"draft", "review", "draft">>
MCAsks    == {1, 2}

VARIABLE part

allVars == <<vars, workflowVars, part>>

AllInit == Init /\ WorkflowInit /\ part \in {"jobs", "workflow"}

OfJobs(A)     == part = "jobs" /\ A /\ UNCHANGED <<workflowVars, part>>
OfWorkflow(A) == part = "workflow" /\ A /\ UNCHANGED <<vars, part>>

AllNext == OfJobs(Next) \/ OfWorkflow(WorkflowNext)

(* The fairness of the workers: see JobQueue.                                *)
AllFair ==
    /\ \A j \in Jobs : WF_allVars(OfJobs(ComeDue(j)))
    /\ \A w \in Workers : WF_allVars(OfJobs(RunStep(w)))
    /\ \A j \in Jobs : SF_allVars(OfJobs(\E w \in Workers : Look(w, j)))
    /\ \A d \in Deciders : WF_allVars(OfJobs(Resume(d)))

AllSpec == AllInit /\ [][AllNext]_allVars /\ AllFair
==============================================================================
