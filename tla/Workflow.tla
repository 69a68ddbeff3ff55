------------------------------ MODULE Workflow -------------------------------
(* A durable workflow run by a job: its journal (grenat_ops::journal), the   *)
(* replay of its steps (grenat_interp eval/workflow.rs) and the questions of *)
(* its steps (eval/approvals.rs), through crashes, errors and human waits.   *)
(*                                                                           *)
(* One run follows another (JobQueue!OneRunner); the body calls `step' for   *)
(* each name of Program in turn, none inside another, and what it does       *)
(* outside steps can be done again (E0310).  An error that a step or a       *)
(* question raises ends the run.  The value of step i is written i.          *)
EXTENDS Naturals, Sequences, FiniteSets

CONSTANTS
    Program,     \* the names of the steps, in order; a loop repeats a name
    Asks,        \* the steps (positions) whose block is an `approve!'
    Cuts,        \* what a crash in the middle of a write can leave
    MaxMishaps    \* bound: crashes, and steps that raise

Positions == 1 .. Len(Program)
Names     == {Program[i] : i \in Positions}
RowRanks     == 0 .. Cardinality(Asks) - 1
Keys      == Names \X (0 .. Len(Program))

(* A line cut short is not JSON; one cut inside a character is not UTF-8; a  *)
(* whole line may lack only its end.                                         *)
CutKinds == {"cut", "split", "unended"}

ASSUME WorkflowAssumption ==
    /\ Program \in Seq(STRING)
    /\ Asks \subseteq Positions
    /\ Cuts \subseteq CutKinds
    /\ MaxMishaps \in Nat

StepLine(k, i) == [kind |-> "step", key |-> k, value |-> i]
ResultLine     == [kind |-> "result"]
Garbled        == [kind |-> "garbled"]   \* no JSON value: ignored
Split          == [kind |-> "split"]     \* not even text: read fails
Lines ==
    [kind : {"step"}, key : Keys, value : Positions] \cup {ResultLine, Garbled, Split}

VARIABLES
    lines,       \* the journal file
    ended,       \* whether its last line has its end
    rows,        \* grenat_approvals of the job, by rank
    \* the run
    stage,       \* of the job, and where its run is: see Stages
    done,        \* the journal's steps, read when the run opened it
    at,          \* the step the body is at
    counts,      \* occurrences of each name in this run
    occurrence,  \* the number of the step the body is in
    questionRank,  \* approval_rank
    got,         \* the value each step returned in this run; 0: none yet
    \* of the model
    written,     \* how the value of a step was last journaled: "never", on a
                 \* line "alone", or "joined" to one that a crash had cut
    mishaps

(* "ready" to run, "running" between two steps, "entered" in one, "writing"  *)
(* its value; "suspended" by a question, then "waiting" for its answer.      *)
Stages == {"ready", "running", "entered", "writing", "suspended", "waiting",
           "denied", "finished"}

disk == <<lines, ended>>
run  == <<stage, done, at, counts, occurrence, questionRank, got>>
workflowVars == <<disk, rows, run, written, mishaps>>

NoRow == [question |-> 0, decision |-> "none"]
NoneDone == [k \in {} |-> 0]

WorkflowInit ==
    /\ lines = <<>>
    /\ ended = TRUE
    /\ rows = [r \in RowRanks |-> NoRow]
    /\ stage = "ready"
    /\ done = NoneDone
    /\ at = 1
    /\ counts = [n \in Names |-> 0]
    /\ occurrence = 0
    /\ questionRank = 0
    /\ got = [i \in Positions |-> 0]
    /\ written = [i \in Positions |-> "never"]
    /\ mishaps = 0

------------------------------------------------------------------------------
(* The journal file.                                                         *)

(* journal::read: the last readable line of each step, unless the file is    *)
(* not text.                                                                 *)
Readable == \A l \in DOMAIN lines : lines[l] # Split

(* (A bug: nothing is read past a line that is no JSON value.)               *)
StepLinesBefore ==
    {l \in DOMAIN lines : lines[l].kind = "step" /\ \A m \in 1 .. l : lines[m] # Garbled}

StepLines == {l \in DOMAIN lines : lines[l].kind = "step"}
DoneSteps ==
    [k \in {lines[l].key : l \in StepLines} |->
        LET last == CHOOSE l \in StepLines :
                        /\ lines[l].key = k
                        /\ \A m \in StepLines : lines[m].key = k => m <= l
        IN  lines[last].value]
HasResult == \E l \in DOMAIN lines : lines[l] = ResultLine

(* Bytes added after a line without its end belong to that line, which then  *)
(* is no JSON value.                                                         *)
Added(entry) ==
    IF ended THEN Append(lines, entry)
    ELSE [lines EXCEPT ![Len(lines)] = IF Split \in {@, entry} THEN Split ELSE Garbled]

(* journal::append: the line and its end, synced.                            *)
Write(entry) ==
    /\ lines' = Added(entry)
    /\ ended' = TRUE

(* A crash in append.                                                        *)
Cut(entry, kind) ==
    /\ lines' = Added(CASE kind = "cut"     -> Garbled
                        [] kind = "split"   -> Split
                        [] kind = "unended" -> entry)
    /\ ended' = FALSE

------------------------------------------------------------------------------
(* A run of the workflow.                                                    *)

(* What a run keeps in memory goes with it.                                  *)
RunOver(next) ==
    /\ stage' = next
    /\ done' = NoneDone
    /\ at' = 1
    /\ counts' = [n \in Names |-> 0]
    /\ occurrence' = 0
    /\ questionRank' = 0
    /\ got' = [i \in Positions |-> 0]

(* WorkflowRun::open, then a completed run's result replayed.                *)
Open ==
    /\ stage = "ready"
    /\ Readable
    /\ stage' = IF HasResult THEN "finished" ELSE "running"
    /\ done' = IF HasResult THEN NoneDone ELSE DoneSteps
    /\ UNCHANGED <<disk, rows, at, counts, occurrence, questionRank, got, written, mishaps>>

(* step: it counts itself among those of its name.                           *)
Enter ==
    /\ stage = "running"
    /\ at <= Len(Program)
    /\ occurrence' = counts[Program[at]]
    /\ counts' = [counts EXCEPT ![Program[at]] = @ + 1]
    /\ stage' = "entered"
    /\ UNCHANGED <<disk, rows, done, at, questionRank, got, written, mishaps>>

(* The step the body is in, by its name and occurrence.                      *)
(* (A bug: the occurrences of a name are not told apart.)                    *)
KeyOfName == <<Program[at], 0>>
Key == <<Program[at], occurrence>>

Journaled == Key \in DOMAIN done
AtBlock   == stage = "entered" /\ ~Journaled
AtQuestion == AtBlock /\ at \in Asks

(* The step's journaled value: its block does not run.                       *)
Replay ==
    /\ stage = "entered"
    /\ Journaled
    /\ got' = [got EXCEPT ![at] = done[Key]]
    /\ at' = at + 1
    /\ stage' = "running"
    /\ UNCHANGED <<disk, rows, done, counts, occurrence, questionRank, written, mishaps>>

(* The block runs and returns; its value is to be journaled.                 *)
RunBlock ==
    /\ AtBlock
    /\ at \notin Asks
    /\ stage' = "writing"
    /\ UNCHANGED <<disk, rows, done, at, counts, occurrence, questionRank, got, written, mishaps>>

(* The block asks its question: the row of this rank is inserted...          *)
InsertRow ==
    /\ AtQuestion
    /\ rows[questionRank].decision = "none"
    /\ rows' = [rows EXCEPT ![questionRank] = [question |-> at, decision |-> "pending"]]

Ask ==
    /\ InsertRow
    /\ RunOver("suspended")
    /\ UNCHANGED <<disk, written, mishaps>>

(* ... or answers, whatever question it was inserted for.                    *)
Answered ==
    /\ AtQuestion
    /\ rows[questionRank].decision = "approved"
    /\ questionRank' = questionRank + 1
    /\ stage' = "writing"
    /\ UNCHANGED <<disk, rows, done, at, counts, occurrence, got, written, mishaps>>

AskedAgain ==
    /\ AtQuestion
    /\ \/ rows[questionRank].decision = "pending" /\ RunOver("suspended")
       \/ rows[questionRank].decision = "denied" /\ RunOver("denied")
    /\ UNCHANGED <<disk, rows, written, mishaps>>

(* perform_one, once the run has raised Suspended: jobs::wait.               *)
StartWaiting ==
    /\ stage = "suspended"
    /\ stage' = "waiting"
    /\ UNCHANGED <<disk, rows, done, at, counts, occurrence, questionRank, got, written, mishaps>>

(* append_step, then the step returns.                                       *)
Journal ==
    /\ stage = "writing"
    /\ Write(StepLine(Key, at))
    /\ written' = [written EXCEPT ![at] = IF ended THEN "alone" ELSE "joined"]
    /\ got' = [got EXCEPT ![at] = at]
    /\ at' = at + 1
    /\ stage' = "running"
    /\ UNCHANGED <<rows, done, counts, occurrence, questionRank, mishaps>>

(* The body ends: append_result.                                             *)
FinishBody ==
    /\ stage = "running"
    /\ at = Len(Program) + 1
    /\ Write(ResultLine)
    /\ RunOver("finished")
    /\ UNCHANGED <<rows, written, mishaps>>

------------------------------------------------------------------------------
(* What goes wrong, and who answers.                                         *)

(* A step raises, or the process dies: the workflow may be run again.        *)
Fail ==
    /\ mishaps < MaxMishaps
    /\ stage \in {"running", "entered", "writing"}
    /\ mishaps' = mishaps + 1
    /\ RunOver("ready")
    /\ UNCHANGED <<disk, rows, written>>

(* The question is stored, but the store fails before its id is read back:   *)
(* the run raises, with the question open.                                   *)
QuestionLost ==
    /\ mishaps < MaxMishaps
    /\ InsertRow
    /\ mishaps' = mishaps + 1
    /\ RunOver("ready")
    /\ UNCHANGED <<disk, written>>

(* The process dies while it writes.                                         *)
FailWriting ==
    /\ mishaps < MaxMishaps
    /\ \E kind \in Cuts :
           \/ stage = "writing" /\ Cut(StepLine(Key, at), kind)
           \/ stage = "running" /\ at = Len(Program) + 1 /\ Cut(ResultLine, kind)
    /\ mishaps' = mishaps + 1
    /\ RunOver("ready")
    /\ UNCHANGED <<rows, written>>

(* The workflow called again with the same arguments, once completed; the    *)
(* job of a refused one queued again by hand (jobs::retry).                  *)
CallAgain ==
    /\ stage \in {"finished", "denied"}
    /\ stage' = "ready"
    /\ UNCHANGED <<disk, rows, done, at, counts, occurrence, questionRank, got, written, mishaps>>

(* decide_by, whatever the job does meanwhile: it is queued again only if it *)
(* waits (resume_waiting).                                                   *)
DecideRow ==
    /\ \E r \in RowRanks, answer \in {"approved", "denied"} :
           /\ rows[r].decision = "pending"
           /\ rows' = [rows EXCEPT ![r].decision = answer]
    /\ stage' = IF stage = "waiting" THEN "ready" ELSE stage
    /\ UNCHANGED <<disk, done, at, counts, occurrence, questionRank, got, written, mishaps>>

------------------------------------------------------------------------------
BodyStep ==
    \/ Open \/ Enter \/ Replay \/ RunBlock \/ Ask \/ Answered \/ AskedAgain \/ StartWaiting
    \/ Journal \/ FinishBody

WorkflowNext == BodyStep \/ Fail \/ QuestionLost \/ FailWriting \/ CallAgain \/ DecideRow

WorkflowSpec == WorkflowInit /\ [][WorkflowNext]_workflowVars

------------------------------------------------------------------------------
(* Types of the journal, of the rows and of the run.                         *)
WorkflowTypeOK ==
    /\ lines \in Seq(Lines)
    /\ ended \in BOOLEAN
    /\ rows \in [RowRanks -> [question : 0 .. Len(Program),
                           decision : {"none", "pending", "approved", "denied"}]]
    /\ stage \in Stages
    /\ DOMAIN done \subseteq Keys
    /\ at \in 1 .. Len(Program) + 1
    /\ counts \in [Names -> 0 .. Len(Program)]
    /\ occurrence \in 0 .. Len(Program)
    /\ questionRank \in 0 .. Cardinality(Asks)
    /\ got \in [Positions -> 0 .. Len(Program)]
    /\ written \in [Positions -> {"never", "alone", "joined"}]
    /\ mishaps \in 0 .. MaxMishaps

(* A step returns its own value: a replay never hands a step what another    *)
(* step, or another occurrence of its name, returned - whatever lines were   *)
(* cut (WorkflowRun.done, keyed by name and occurrence).                     *)
ReplayFaithful == \A i \in Positions : got[i] \in {0, i}

(* A step whose value was journaled on a line of its own does not run again, *)
(* in any later run: no crash in the middle of a later write, no line that   *)
(* joins a cut one, takes its line away (journal::read skips what it cannot  *)
(* read).  Of a step whose own line joined one that a crash had cut it is    *)
(* not true: its value is lost, and it runs again.                           *)
StepsRunOnce == stage = "writing" => written[at] # "alone"

------------------------------------------------------------------------------
(* What the repository says, and the code does not do.                       *)

(* The human's answer a step got is the answer to that step's question       *)
(* (stored_approval: "the same question gets the same answer").              *)
AnswersItsQuestion ==
    \A i \in Asks : got[i] # 0 =>
        \E r \in RowRanks : rows[r] = [question |-> i, decision |-> "approved"]
==============================================================================
