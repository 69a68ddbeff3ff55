# Grenat in TLA+

A verification development of [Grenat](../src/README.md), a language and its
runtime in Rust: the parts of the runtime whose correctness depends on the order
in which tasks, workers, servers, humans and crashes act. The modules are
translated from the code under `src/crates`; `PROJECT.json` maps each definition
to the lines it stands for.

## 1. The system

A Grenat program runs in an interpreter (`grenat_interp`) whose tasks are green
threads (`grenat_green`). Agents are actors on those tasks. What must survive the
process — jobs, approvals, journals of workflows — is kept in the application's
database and files (`grenat_ops`). Around it are the server, folder and mailbox
watches, rate limits, traces, foreign bridges, and a compiler front end.

| component | state | operations | interacts with |
|---|---|---|---|
| jobs (`grenat_ops/jobs.rs`, `eval/jobs.rs`) | rows of `grenat_jobs`: status, attempts, run_at | enqueue, next_due, claim, finish, wait, fail, retry_later, retry, resume_waiting; the worker's loop `work`/`perform_one` | workers of several servers share the table; the console retries |
| approvals (`grenat_ops/approvals.rs`, `eval/approvals.rs`) | rows of `grenat_approvals` by job and rank | ask, decide_by; stored_approval in the run | a decision (route, Slack, console) queues the job again |
| workflows (`grenat_ops/journal.rs`, `eval/workflow.rs`) | an append-only file; in memory the steps read and the occurrence counts | open, step, append_step, append_result | run by jobs, ask humans |
| green scheduler (`grenat_green/task.rs`, `scheduler.rs`) | a state per task, the run queue, `live` | spawn, wake, park, yield, finish; a worker's loop | everything runs on it |
| green waits (`sync.rs`, `channel.rs`, `timer.rs`, `blocking.rs`) | waiters and tickets, items, senders, deadlines | lock, wait, notify_all, send, recv, sleep, blocking | park and wake; used by agents, batches, SSH, databases |
| agents (`eval/agents.rs`, `value/agent.rs`) | turn, owner, queued, restarts, down; `waits` | ask, tell, wait_for, on_crash, pools | run handlers in the caller's task, under the turn |
| forks (`eval/concurrency.rs`, `task.rs`) | tasks, results | parallel_map, race | channels; agents inside them |
| rate limits (`grenat_limits`, `eval/limits.rs`, `http_retry.rs`) | per host: a token bucket, slots and their queue, the end of a pause | acquire, cancel, drop a permit, pause, send again | every model and HTTP call |
| LLM batches (`eval/batch.rs`) | requests queued, a count of tasks running | call, finished, rounds, one answer for each | tasks of a `batch_map`, which may ask agents |
| bridges (`grenat_bridge`) | a server process, its pipes and the threads on them | call, start, kill the group, send again | tasks, one at a time |
| HTTP server (`grenat_serve/server.rs`, `connection.rs`, `descriptors.rs`, `serve.rs`) | connections served, sockets held, a channel of requests | accept, refuse, read, answer, hand a socket to a stream | one thread accepts, one serves each connection, a task answers each request |
| event streams (`grenat_serve/outbox.rs`, `events.rs`) | bytes queued for a client, why no more can be sent | send, finish, drop; a writing thread | a task writes, the client reads when it likes |
| traces (`grenat_otel`) | a bounded queue of spans, flushes asked and done, counts | push, flush, shut down; a thread that sends | any task pushes, several flush |
| folder watch (`grenat_watch`, `folders.rs`, `grenat_ops/files.rs`) | what each path was when last seen and handed over; a table of digests | scan, settle, open, hand over, record | whoever drops files; handlers |
| mailboxes (`grenat_imap`, `mailboxes.rs`) | a connection, failed runs of messages | search, fetch, hand over, file, flag | an IMAP server that other clients use too |
| language (lexer, parser, types, codegen, fmt, lsp, packages, cli) | none that lasts | pure functions, files | — |

**What is hard.** Two workers, two servers and humans update the same rows with
separate statements. A run that waits for a human is thrown away and run again
from its start. A crash may come between any two statements, or inside a write.
Wakes race with parks; wakes come late, for waits that are over. Agents' asks
form chains across tasks while their owners change. Calls are cancelled with turns
they booked; answers come one by one to tasks that call again; a foreign server
dies between reading a call and answering it. Clients stall, connections break
with their last command done or not, files change between the scan and the read.
`PROJECT.json` lists each hazard at its line with the properties that cover it, or
why none does.

**What makes each part correct**, in short: a job has one runner and settles
once; its questions meet their own answers; a journal replays the right values;
no wake, notification or message is lost and no task runs twice at once; handlers
exclude each other and a cycle of asks is refused, not waited in; a crashed state
is replaced before it is seen; a turn is given to one call and no call is left
behind; a round of a batch is whole; a call with effects runs once; a client reads
what was sent, in order, or is told of less; every span and every connection is
counted once; what is dropped in a folder or a mailbox is handed over, once, and
counts as handled only then.

## 2. Modules

| module | models | refines |
|---|---|---|
| `Exclusion` | what a lock promises: taken while free, given back by its holder | — |
| `Parking` | what park and wake promise a task: it returns once woken, a wake is kept and spent once | — |
| `JobQueue` | the two tables, the workers, the deciders | `Exclusion` (jobs held by workers) |
| `Workflow` | the journal, the replay, the questions in steps | — |
| `GreenScheduler` | task states, run queue, workers | `Parking` |
| `GreenSync` | lock, condition variable, channel, sleep, blocking calls, over park and wake | `Exclusion` (guards held by tasks); asks no more than `Parking` |
| `Agents` | turns, deadlock detection, supervision, forks | `Exclusion` (agents held by handlers) |
| `Limits` | slots, turns and pauses of one host, requests sent again | — |
| `Batch` | the rounds of `batch_map` | — |
| `Bridge` | calls to a foreign server and its restarts | — |
| `Outbox` | an event stream and its writing thread | — |
| `Exporter` | the span queue and its thread | — |
| `Folders` | a watched folder | — |
| `Mailboxes` | a watched mailbox | — |
| `Server` | the HTTP server's connections and sockets | — |
| `JobQueueProofs`, `WorkflowProofs`, `GreenSchedulerProofs`, `GreenSyncProofs`, `AgentsProofs` | theorems of one module each | — |
| `ModelCallsProofs`, `HelperThreadsProofs`, `TriggersProofs` | theorems of `Limits`, `Batch` and `Bridge`; of `Exporter` and `Outbox`; of `Server`, `Folders` and `Mailboxes` | — |
| `MCJobQueue`, `MCAgents`, `MCModelCalls`, `MCHelperThreads`, `MCTriggers` | instances for TLC | — |

Definitions that begin with "(A bug: …)" are the mutants of `PROJECT.json`: each
changes one operation the way a mistake in that code would, and breaks the
property it is listed with. No action uses them.

Four instances hold several components that share nothing (`MCJobQueue`: the
queue and a workflow; `MCModelCalls`: limits, batch and bridge;
`MCHelperThreads`: outbox and exporter; `MCTriggers`: folder, mailbox and server).
A variable `part`, chosen at the start, says which one runs; the others stand
still. Components that do not touch each other's state have no interleavings to
lose, so that this is the same check as one instance each: the states of such a
run are the sum of its parts', not their product. Each part has its own fairness.

### JobQueue
The variables `status`, `attempts`, `due` are the columns of a row (`due`: its
`run_at` has passed), `decision[j][r]` the row of question `r` of job `j`. A
worker's `pc` is where it is in `perform_one`; `tries` is the `attempts` of the
row `next_due` returned, and `rank` is `approval_rank`. One action is one SQL
statement: `Look` is `next_due`, `Claim`/`MissClaim` the two outcomes of `claim`,
`AskNew`/`AskAgain` are `stored_approval`, `Finish`/`Wait`/`GiveUp`/`RetryLater`
the four ends of a run. A decider writes the decision (`Decide`), then queues the
job again (`Resume`): two statements. `Abandon` is a crash of a worker's server,
or the refusal of the update that ends a run; `AskFails` a question stored whose
id could not be read back. An error of the job's own function is `GiveUp` or
`RetryLater` at any point of the run, and `Finish` may come at any point too: a run
may ask fewer questions than another (answered steps are replayed, forked tasks
count from 0 again), and `Rescue` is a program that goes on past a suspension or a
refusal. `passed[j]` are the questions whose answer let the last run of `j` go on.
What a run does between questions touches none of these tables.

### Workflow
`lines` is the file; `ended` says whether its last line has its newline. A crash
inside `append` (`FailWriting`) leaves a line that is no JSON (`cut`), a line cut
inside a character (`split`), or a whole line without its end (`unended`); what is
appended next joins an unended line. `done` is what `journal::read` returned when
the run opened the file, keyed by name and occurrence. `Enter` counts the step and
gives it its number, before anything else; then it is replayed, or its block runs,
asks or raises, and its value is journaled in a later action, so that a crash can
come between. `rows` are the questions of the job, and `questionRank` counts those
asked in this run. A question suspends the run (`Ask`), and only then does the job
wait (`StartWaiting`); a decision runs it again if it waits (`DecideRow`), and
otherwise changes its row only. `written` remembers on what line the value of a step
was last journaled. Runs follow each other, as `JobQueue!OneRunner` allows.

The bodies are flat: no step is inside another, none is retried in one run after a
`rescue`, none run in parallel. In such bodies the number a step gets depends on more
than its place in the program.

### GreenScheduler
One action is one atomic operation on a task's state or `live`, or one critical
section of the queue's lock. The lock is held by a worker from finding the queue
empty to waiting on the condition variable (`check`, `wait`), and `QueueFree`
keeps others out meanwhile. `push` is an append under the lock (`Push`) and a
`notify_one` after it (`Notify`); between making a task QUEUED and pushing it, the
task is in a `hand`. A task may do anything between its operations: spawn, wake
any task, yield, park, return. `woken[t]` remembers a wake since the task last
resumed. `parking` are the tasks whose coroutine is suspended in `park`: with
`woken` it says which of Parking's four places a task is in (`parkedOrNot`), for
between a wake and the worker that resumes it a task is QUEUED like any other.

### GreenSync
`token[t]` is what GreenScheduler makes of wakes: kept until the task parks next, or
yields (`YieldNow`: `check_cancel` does, now and then), and then spent. That is
`Parking`: GreenScheduler implements it (`ParkAndWake`), and GreenSync asks no more
of it (`AsksNoMore`), so that what one takes for granted is what the other gives.
Each action is one critical section. A sleep, or a blocking call, ends when its
condition is true, and its wake may come after that (`outside` is then `due`): a
late wake then ends some other wait too early. Every wait here must stand it: the
tickets of `Mutex`, the registration of `Condvar`, the receiver's waiter.

### Agents
A task's `pc` follows `ask_turn`: sent (counted), checked (`down` read), walking
(`wait_for` follows owners and waits, under the lock of waits), blocked, won,
named, running the handler; then returned, disowned, and the turn is given back
with the frame. `turn` is the mutex, `owner` the field that says who handles a
message: they differ for a while at both ends, and the chain reads `owner`. `hops` counts
the links followed: `wait_for` looks at 1000 at most (`MaxChain`) and then waits, as
it does where the chain ends (`ChainEnds`).
`Crash` is `on_crash`: over the limit the agent is down; otherwise fresh states
are made one by one for the children the strategy names. `FailRestart` is the
error of making one. `tell` starts a task of its own, or is refused because it has a
block (`TellWithBlock`): its message stays counted then, and `lost` says how many are; `Fork` and `Join` are
parallel_map and race (the join may end as soon as one forked task has, as a race,
a `break` or an error does).

### Limits
The times (`next`, `paused`, `turn`, `rest`) say how far ahead a moment lies, and
`Tick` brings all of them nearer: a state is the same whenever it comes. `queue`
is `Slots`, whose tickets are the calls that wait; `next` is the moment from which
`Bucket` gives the next turn once its burst is spent, and `turn[c]` what `reserve`
returned, with the moment before and after it that `refund` compares. A call goes
idle, queued, entered, turn, calling; a cancellation leaves it from the queue
(`Leave`), from its turn (`Cancel`, then the drop of the permit) or from the pause
between two sends (`GiveUp`). `AnswerLater` is a 429 with a Retry-After, `Told`
what `send_retrying` does of it: pause the host, and send again or not. `spent`
remembers the ends of turns that were used.

### Batch
`running` is the count that decides when a round goes. The tasks of a `batch_map`
call models (`CallModel`: queued, and counted as waiting), may ask an agent whose
handler runs in their own task, and end (`SendResult`, `Finished`: two steps). The
collector takes the requests when the count is zero (`Round`), groups them by
provider (`Group`, which may fail: `Missing` are the providers that cannot be
made), sends one group at a time and answers its requests one by one: a task
answered goes on at once, while others of the same round still wait. The requests
of a round stay where they were taken: `left` are the places of those not sent yet,
`group` of those sent and not answered.

### Bridge
`holder` has the lock of the process; `up` is whether there is one. The server is
a group: a `leader`, which `try_wait` sees, and whoever `serves` the pipes, which
may be a child that outlives it. `Falter` lets the leader or the server die and
either pipe close, at any moment. A call is written by a thread (`line` is in the
pipe, `reported` what the thread says), handled (`ran` counts), answered. A failure
drops the process and kills the group (`KillGroup`) before the call is sent again.

### Outbox, Exporter
One action is one critical section of the lock, or one step of the thread outside
it. A condition variable's only waiter is the thread, which may also wake for
nothing. `Outbox`: `accepted` is what `send` took and `written` what the client can
read (a piece cut by an error is `NoPiece`); a stream ends with a last chunk, or over
HTTP/1.0 with the connection (`EndPlain`); `slow` is a write that lasts longer
than its limit. `Exporter`: `before[c]` is the number of spans that had been pushed
and not dropped when `c` asked its flush, `handled` those exported or failed.
`Look` is each wake-up's look at the two conditions.

### Folders
`disk[p]` is what a path holds (a content, one half-written, a link, nothing) and
`stamp[p]` what a scan can see of it: every change gives another. `entry[p]` is the
tracker's, `record[p]` the database's. A scan tells what is ready, for any set of
paths whose time is over; each is then opened in turn, while anything may happen to
the others. `Scan` includes forgetting what is gone, `Handled` is followed by
`Record`, where a crash may come between, or the database may refuse. `last[p]` is
the content the last run ended with, as long as the watch can know; `concluded`
what was handled or given up.

A file is settled when its stamp is the one of the last scan (`Settled`), for any
set of paths: nothing says that it is whole. So a content half-written may be
handed over, as in the code. *Assumption*: every change gives another stamp. That a
rewrite of the same size and time is not seen is outside the model: a stamp has
nothing else to go by.

### Mailboxes
`box[u]` is a message of the folder as it is now, `since` the UIDVALIDITY under
which the task's UIDs were read. An exchange is answered (`Answered`), breaks with
its effect done or not (`Broken(Effects)`: opened again, and made again, once), is
refused (the message is then given up, whichever command was), or meets another
UIDVALIDITY. `unseen` and `fetched` are the
UIDs still to fetch and the messages at hand: both are gone through in the order of
their UIDs, so that sets say as much as the lists do. `failures` counts the runs
that raised, as the messages see them; `attempts` as the program does.

### Server
The acceptor goes through room, accept, hold, and takes a slot before it looks
whether there was one (`TakeSlot`), so that a refusal or a thread that cannot start
gives it back in a later step; a connection's thread reads,
waits for the answer, writes, ends; the program's task answers, starts a stream or
drops the request. A stream has the socket (`StartStream`) before the connection's
thread hears of it (`RespondEvents`). `Shared` says who still has the `Arc` of a socket: it is closed
when nobody has, and uncounted after that. `live` and `held` are the two counters.

## 3. Runs

| run | question | states |
|---|---|---|
| `job_queue` | one runner, what a run passed was approved, settled jobs, every queued job taken; replay, and steps that never run again, through three crashes | 254 000 |
| `green_scheduler` | one place for a task; park and wake as promised; shutdown, progress | 42 000 |
| `green_sync` | no stranded waiter, notifications, messages, ends of waits | 217 000 |
| `agents` | exclusion, deadlock detection exact, restarts | 1 360 000 |
| `model_calls` | turns apart, every call goes; rounds whole, their end; one run of a call, its end | 96 000 |
| `helper_threads` | what a client reads, what is held for it, the thread's end; spans accounted, flushes true, nothing waits for ever | 393 000 |
| `triggers` | once per content, known once handed, nothing missed; messages kept, none forgotten; counts true, one writer | 537 000 |

Five runs end in a counterexample: what a document or a comment says, and the
code does not do. `PROJECT.json` quotes the text under "findings".

| run | what happens |
|---|---|
| `job_decision_lost` | the decision comes between the question and the status `waiting`, and nobody queues the job again |
| `job_run_ends` | the server dies in a run: the row stays `running`, the workflow is not resumed |
| `workflow_questions` | a replayed step does not count its question: the second question gets the first one's answer |
| `agents_no_hang` | a handler that waits for tasks it forked, which ask its agent, hangs |
| `batch_all_answered` | a task of a batch waits for an agent whose handler waits for its batched answer: the round is never sent |

Other things the models show of the code, where no property of a run depends on
them, or the documents say nothing definite:

* A worker with an old row claims the job and writes its old attempts: a job may
  fail more often than ATTEMPTS (`JobQueue`: `tries` against `attempts`).
* A step journaled right after a line cut short shares its line, is not read back,
  and runs again, though it completed and was synced (`journal.rs` 76-84: `append`
  writes after whatever the file ends with). SPEC.md:341 says that no LLM call is
  billed twice. StepsRunOnce is of the steps that have a line of their own.
* A line cut inside a character makes the whole journal unreadable
  (`read_to_string`): every later run raises JournalError. journal.rs:55-56 says that
  a line cut by a crash is ignored. `Open` needs `Readable`, and such a workflow
  stands still.
* A file may be handed over half-written: its writer pauses for longer than `settle`
  (which may be 0), or opens it again between the scan and the read (`Folders!Open`,
  folders.rs:106,170). folders.rs:9-10 and settle.rs:6 say that a file is never handed
  over half-written.
* A `tell` with a block raises after it raised the agent's load (agents.rs:138,
  153-155), and nothing lowers it again: a pool then passes that agent over. So
  `Agents!lost`.
* An ask whose restart fails leaves the agent's owner set (agents.rs:284), and the
  task's next message to it gets a DeadlockError that is none; AlarmsAreTrue leaves
  such runs out.
* After a pause the bucket is full: every call that waits goes at once, up to the
  burst (`Limits!Told`).
* A file given up because it could not be read loses the digest of what was handed
  over: the same content may then be handed over again. `OncePerContent` says so.
* A bridge server that dies with a call in its pipe, unread, fails the call if it
  is not pure: the code cannot tell it from one that was run (`Bridge!Exited`).
* A provider that cannot be made ends `batch_map` with an error; a task that goes on
  and calls again queues a request that nobody collects. `BatchEnds` leaves it out.
* A bare `rescue` around an approval catches the suspension, and the job goes on, and
  ends, with its question open (`JobQueue!Rescue`). So a job done need not have a yes
  to each of its questions: PassedApproved is of the questions that let it through.

**Bounds.** *Jobs*: two jobs, one of two questions and one of none, two workers,
one decider, ATTEMPTS 2, one fault. Races are between two workers on one job, or a
worker and a decider; the second job is there for progress. Two questions are the
fewest for which ranks matter. Decisions cannot multiply: two deciders differ from
one in `Resume` only, which is conditional. *Workflow*: a name used twice, so that
occurrences matter, two of the three steps ask, three faults: a cut, a run over the
joined line, and one more.
*Scheduler*: three tasks so that one can be queued, one running and one parked, two
workers, one thread that only wakes. *Sync*: three tasks — a holder, a waiter and
one that barges in; one task sleeps, and as it is also the receiver, its late wakes
reach every kind of wait; a channel of one value. *Agents*: two agents are enough
for a cycle, three tasks for a cycle read while a third takes a turn; handlers are
nested two deep; a chain is followed for two links, as many as a cycle of two
agents has; `rest_for_one` restarts one or both; one restart, one failure of a
restart, or a `tell` refused for its block. The tasks that may be started are symmetric in `agents`, which checks
safety only. *Limits*: three calls, two slots, a bucket of two with an interval of
two: one call waits for a slot while two have turns, of which either may be
cancelled; waits below and above the longest one waited out; one resend. New calls
begin only while `next` is within the `Horizon`, which keeps times small. *Batch*:
three tasks of two calls each, two providers, one of which cannot be made, two
tasks that ask the agent once: a task answered can call again, or take the turn,
before the last of its round is answered. *Bridge*: two calls, one pure, each
retried as the code does: the second meets what the first left behind. *Outbox*:
pieces of one or two bytes against a limit of three, three events. *Exporter*: a
queue of three and batches of two, so that a batch is full before the queue is, four
spans, so that one is dropped, two that flush, one of which shuts down. *Folders*:
two files, of which the second changes twice while the first keeps the task busy;
two contents; two attempts; one restart (with one file). *Mailboxes*: two messages,
one download at a time, a mailbox made anew once, two losses: one for the exchange
and one for its repetition. *Server*: three sockets, two threads, two descriptors:
one waits, and streams hold descriptors without a thread.

Deadlock is not checked: a program may stop (every job settled, every task done,
every call over), and humans, clients and programs need not act. That waits end
where they must is checked as liveness.

## 4. Fairness

*JobQueue*: time passes, a worker goes on with a run, a decider with its second
update (weak fairness). A due job is looked at (strong fairness of `Look`) because
`next_due` orders by `run_at`: a job passed over has the smallest. Nothing obliges
anyone to enqueue, retry or decide. `Workflow` has safety properties only: nothing in
the code obliges a human to decide, or runs again a workflow whose server crashed or
whose decision came before the job waited (`job_run_ends`, `job_decision_lost`). *GreenScheduler*: OS threads go on; a thread
that asks for the queue's lock gets it (strong fairness of a worker's steps and of
pushes); a running task gives its worker back. Nothing obliges a task to be woken.
*GreenSync*: a task goes on with the call it is in, as `QueuedRuns` gives; time
passes; threads that promised a wake give it. Nothing obliges a task to release a
lock or to send.

*Limits*: time passes, servers answer, tasks go on (weak fairness of `GoOn`). A call
that waits for the end of a pause sleeps until it ends and looks then, so that it
finds a moment without a pause even when each is soon followed by another: strong
fairness of `Pass`. Nothing obliges a program to call, or a call to be cancelled.
*Batch*: blocks end, handlers give their turn back, the collector goes on, providers
answer. *Bridge*: the task with the lock goes on, and its deadline passes; nothing
obliges the server, or the thread that writes to it, to do anything. *Outbox*: the
thread runs and a write ends, as the socket has a write timeout; a stream is
finished or dropped in the end. *Exporter*: its thread runs, the delay passes, the
request to the collector is answered or times out; a caller wakes when its flush is
done; that its time is up is no obligation. *Folders*: the task goes on, and scans
find a file's settling time over again and again; *Mailboxes*: the task goes on;
losses, and whoever makes a mailbox anew, are finitely many. `Server` has safety
properties only.

## 5. Proofs

Every safety and action property of a passing run is also a theorem. The theorems hold for
every value of the constants that satisfies the named assumptions: `JobQueueAssumption`, `WorkflowAssumption`, `GreenAssumption`,
`SyncAssumption`, `AgentsAssumption`, `LimitsAssumption`, `BatchAssumption`,
`BridgeAssumption`, `OutboxAssumption`, `ExporterAssumption`, `ServerAssumption`,
`FoldersAssumption`, `MailboxesAssumption`. They allow any numbers of jobs, workers,
questions, tasks, threads, agents, calls, sizes, files, messages and sockets; tasks,
elements, files and sockets are finitely many where they are counted or ordered. The
bounds of the runs (`Horizon`, `MaxEvents`, `MaxSpans`, `MaxDepth`, `MaxFaults`, ...)
are constants of the specifications, and so arbitrary too. Each argument below is an
inductive invariant: it holds at first, and every action keeps it.

*JobQueueProofs*. `IInv` is TypeOK, OneRunner, RunsLeft and
PassedApproved, with what they need: `HasJob` (past its look, a worker has a
job) and `FreshRows` (a row not inserted has no attempts). OneRunner rests on the
claim's condition (`status = 'queued'`) and on the fact that only retry,
resume_waiting and the owner's updates write a status, the first two
conditionally. PassedApproved rests on decide_by's condition (`status = 'pending'`):
a run passes a question on a yes, and no later statement writes over a yes. From `IInv` follow the two action properties, and that every step of
JobQueue is a step of `Exclusion` or changes no holder.

*WorkflowProofs*. The key of a step is its name and how many steps of that name come
before it in the program (`KeyOf`). What the file tells, through any cuts and joined
lines, is told under its own key (`ToldFaithfully`); so is what a run has read
(`DoneFaithfully`); and a run has counted exactly the steps it has entered
(`CountsKept`), whether they were replayed or run: so the key it looks up is the key of
the step it is in, and ReplayFaithful follows. StepsRunOnce needs that a line with its
end is never changed again, whatever is appended (`Safe`, `SafeStays`): the line of a
step journaled on its own stays (`WrittenTold`), so every later run that can read the
file has the step among those done (`WrittenRead`) and does not come to its block.

*GreenSchedulerProofs*. `IInv` says where a task is: entries of the queue are
distinct, QUEUED, and in no hand and with no worker (`QueueOK`); so for hands
(`HandsOK`) and workers (`WorkersOK`); and a runnable task is somewhere
(`Covered`). `WakesKept` is stronger than NoLostWake: a task woken and not resumed
is not RUNNING either, since a plain RUNNING could be parked. `ParkingOK`: a PARKED
task is in park, one in park is PARKED or QUEUED, and a task is NOTIFIED by a wake
only. So a worker's compare-exchange succeeds for a task not woken ("going" to
"parked") and fails for one that was ("noted" to "ready"), which is the refinement of
Parking. `Counted` equates `live` with the number of unfinished tasks, from which
NoneLeftBehind follows.

*GreenSyncProofs*. `IInv` says, for each primitive, where its waiters and their
wakes are. `LockOK`: locked exactly when there is a guard, and one at most; the
refinement of Exclusion follows. `TicketsOK`: a ticket is of a task still in its
attempt, which has no other; so the wake-up that unlock spends goes to a task that
will try the lock, and NoStrandedWaiter is itself inductive. `NotifyOK`: a task in
`Condvar::wait` is registered, or its wake is given or in a notifier's hand, and
only the latter two once notify_all came. `ListenOK`: a receiver parked and not
woken is registered and has nothing to wake for. Late wakes may come at any time:
none of these says that a token means anything. AsksNoMore goes through the actions:
each moves one task and wakes others; `Condvar::wait`, which unlocks and parks in one
action, needs that the task it wakes is another (`TicketsOK`).

*AgentsProofs*. A task's step tells what it holds (`Placed`); the turns a task has
are those of the handlers on its stack and of the one it is about to run
(`TurnsKept`); an agent's owner is the task that runs its handler, but at both ends
(`OwnersNamed`). The refinement of Exclusion follows. That a cycle of asks is found is
the difficult part: the chain is read link by link while turns change hands. The
lock on `waits` has one holder (`OneWalker`), so that no other task starts to wait
meanwhile. `WalkFinds`: if some tasks would wait for each other once this one blocks,
then at every link the walk is still within them, with as many passed as it counted:
a cycle of as many as `MaxChain` closes before the count ends. `WalkTrue`, for the
converse: the links passed are still there and lead to the cursor, or the last of them
got its turn meanwhile, handles nothing yet and so is nobody's owner. A restart that
fails leaves an owner that runs nothing; AlarmsAreTrue is stated for runs without one,
as the invariant is. FreshAfterCrash rests on `CrashesSeen`: a state left by a raise is
on the list of those that the task which ran it is still to replace.

*ModelCallsProofs*, `Limits`. TurnsApart rests on `TurnInv`: `next` is the end of the
last stretch given (`NextIsLast`): no turn that waits, and no end that was spent, lies
after it. A refund sets `next` back only when it still is the end of the refunded turn;
it is then nobody else's. Slots: `SlotsCounted` (as many in flight as calls between
their entry and the drop of their permit) and `TicketsWait` (the queue is the calls
that wait, once each) are each inductive; the second is what a cancellation must
not break. `Batch`: a task has one request or one answer (`OneEach`), which is of its
last call (`AskedWait`), and a round's requests are where its stage says (`Rounds`).
`Counts`: `running` is the number of tasks that are neither done nor queued, and so is
never less than zero. `Bridge`: `BridgeInv` says of the server that what it has, in its
pipe or at work, is of the call that holds the lock (`OfHolder`) and was reported as it
is (`Reports`); and, for each call, `Counted`: how often it may have run, at each step
of the call, given what failed before. A call whose line was never delivered has
not been run by the server it was sent to; one that exited may have been, and is
sent again only if it is pure, to a server started after the whole group was
killed. That the group, and not only the leader, is killed is what `Counted` needs.

*HelperThreadsProofs*, `Exporter`. `ExporterInv` adds to SpansAccounted what a flush's
number means (`FlushInv`): until a flush is done, the spans queued before it are among
those handled, in the batch, or still in the queue; a flush taken with the batch
(`flush`) leaves none of them in the queue once the queue is empty. `Numbers` orders
`done`, `flush` and `asked`. `Outbox`: `Placed` says that what was written, what
is being written and the queue are, in this order, the pieces accepted, as long as
nothing failed; `Faithful` and `LastIsLast` say what the client has read, and that
the last chunk was accepted after every other and only if none was refused; `Ends`
what the closing states and the thread's end mean. A failure is kept (`failed` is
set once), from which the rest follows. BytesHeld needs what `pending` adds up. The
sum of a sequence is defined by recursion and would be reasoned about by induction;
instead the invariant says that there is a running total (`Totals`), whose differences
are the sizes of the pieces accepted and two of whose values differ by `pending`.

*TriggersProofs*, `Server`. `ServerInv` is the types, what the acceptor holds at each
step, `Sound` of each socket — where its thread is fits what the program has of it, and
a socket in use is open — and the counts. OneWriter follows from `Sound`, CountsTrue
from the counts with the budget, which `Room` looks at one accept before the count is
raised: only the acceptor raises it. `Folders`: `Watched` says that what
runs was read from that path and was new there, unless half-written (`RunRead`). KnownWasHanded is inductive with `Concludes`; `LastKnown` — the
tracker has the digest of the last run it can know of, or none — gives OncePerContent.
`Mailboxes`: `Read` says what there is to go through at each exchange (`Stages`), that
under another UIDVALIDITY nothing was done yet (`Folder`), what may be marked
(`MayMark`), and how the attempts counted relate to the runs that failed (`Tries`): a
flag that a lost connection took costs MAX_RUNS more at most. That a set of UIDs has a
least one is taken from the well-foundedness of the natural numbers.

Model-checked only: all liveness (EveryJobIsTaken, AllStop, QueuedRuns,
WaitsEnd, EveryCallGoes, BatchEnds, CallsEnd, WriterEnds, NothingWaits, NothingMissed,
NoneForgotten), which is out of the prover's reach under fairness. Proved and not in a
run: the type invariants of the modules, RunsLeft, DecisionsStand, NoLostWake,
NoneLeftBehind, MutexIsALock, AsksNoMore, LoadCounted (an agent's load counts
the messages no handler has started on, and beyond them at most one for each `tell`
refused for its block), SlotsCounted, TicketsWait.

## 6. Not modelled, and why

Left out for good: the language front end, type checker, code generation,
formatter, language server, packages and configuration (pure functions over syntax
trees or files: most of the lines, of which a model checker shows little that a
test does not); wire formats and drivers (I/O); SSH; cron (a pure function).

Left out of the components modelled: pools of agents (the pick by load) and the
cancellation of tasks that are forked; steps of a workflow that are nested, retried
after a rescue or run in parallel; the
notifications of the system that hasten a folder's scan; the IMAP session and its
token; parsing, and the lengths of timeouts, of the HTTP server; describing and
installing a facet's bridge; `refill` of a limiter between two tests.

Next, in this order: pools and the cancellation of forked tasks in `Agents`, which
its inductive invariant can be extended to (a task picked is not yet the owner of
its turn: `OwnersNamed`); the ledger of budgets; how wait_for's chain grows when a
restart fails, of which AlarmsAreTrue says nothing.
