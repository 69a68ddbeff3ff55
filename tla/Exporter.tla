------------------------------ MODULE Exporter -------------------------------
(* The spans of a program's traces, queued by its tasks and sent in batches  *)
(* by a thread of their own (grenat_otel exporter.rs, retry.rs, tracer.rs).  *)
(*                                                                           *)
(* One action is one critical section of the queue's mutex, or a step        *)
(* between two.  A span is known by its place in the queue, first in, first  *)
(* out, so that numbers stand for sets of spans.                             *)
EXTENDS Naturals, FiniteSets

CONSTANTS
    Callers,      \* threads that flush
    Closers,      \* those that shut the exporter down after their flush
    MaxQueue,     \* Batching::max_queue
    MaxBatch,     \* Batching::max_batch
    MAX_ATTEMPTS, \* sends of one batch
    MaxSpans      \* bound: spans ended

ASSUME ExporterAssumption ==
    /\ IsFiniteSet(Callers) /\ Closers \subseteq Callers
    /\ MaxQueue \in Nat \ {0} /\ MaxBatch \in Nat \ {0}
    /\ MAX_ATTEMPTS \in Nat \ {0}
    /\ MaxSpans \in Nat

VARIABLES
    \* State of exporter.rs
    spans,        \* how many are queued
    asked,        \* flushes asked
    done,         \* the last one done
    closing,
    exported,     \* stats
    dropped,
    unsent,       \* stats.failed
    \* the exporter's thread
    thread,       \* where it is
    batch,        \* spans of the batch it sends
    flush,        \* `asked', as it was when the batch was taken
    last,         \* `closing', as it was then
    attempts,     \* sends of this batch
    \* threads that flush
    caller,       \* where each is
    mine,         \* the number of its flush
    \* what became of the spans
    ended,        \* spans pushed, dropped ones included
    handled,      \* spans of the batches that were exported or failed
    before        \* before[c]: spans taken when c asked its flush

exporterVars == <<spans, asked, done, closing, exported, dropped, unsent, thread,
                  batch, flush, last, attempts, caller, mine, ended, handled, before>>
stats == <<exported, dropped, unsent>>
taken == <<batch, flush, last, attempts>>
flushing == <<caller, mine, before>>

ThreadSteps == {"top", "idle", "again", "batching", "sending", "backoff", "sent", "stopped"}
CallerSteps == {"none", "waiting", "true", "false", "over"}

Least(a, b) == IF a <= b THEN a ELSE b
Greatest(a, b) == IF a >= b THEN a ELSE b

ExporterInit ==
    /\ spans = 0 /\ asked = 0 /\ done = 0 /\ closing = FALSE
    /\ exported = 0 /\ dropped = 0 /\ unsent = 0
    /\ thread = "top" /\ batch = 0 /\ flush = 0 /\ last = FALSE /\ attempts = 0
    /\ caller = [c \in Callers |-> "none"]
    /\ mine = [c \in Callers |-> 0]
    /\ before = [c \in Callers |-> 0]
    /\ ended = 0 /\ handled = 0

(* work.notify_one: only the exporter's thread waits there.                  *)
NotifyThread ==
    thread' = CASE thread = "idle" -> "top"
                [] thread = "batching" -> "again"
                [] OTHER -> thread

------------------------------------------------------------------------------
(* Exporter::push, by any task that ends a span.                             *)

(* (A bug: only a full batch wakes the thread.)                              *)
TellsFull == spans' >= MaxBatch

(* The first span starts the delay; a full batch ends it.                    *)
Tells == spans' = 1 \/ spans' >= MaxBatch

Push ==
    /\ ended < MaxSpans
    /\ ended' = ended + 1
    /\ IF closing \/ spans >= MaxQueue
       THEN dropped' = dropped + 1 /\ UNCHANGED <<spans, thread>>
       ELSE /\ spans' = spans + 1
            /\ IF Tells THEN NotifyThread ELSE UNCHANGED thread
            /\ UNCHANGED dropped
    /\ UNCHANGED <<asked, done, closing, exported, unsent, taken, flushing, handled>>

(* Exporter::flush.                                                          *)
AskFlush(c) ==
    /\ caller[c] = "none"
    /\ asked' = asked + 1
    /\ NotifyThread
    /\ caller' = [caller EXCEPT ![c] = "waiting"]
    /\ mine' = [mine EXCEPT ![c] = asked + 1]
    /\ before' = [before EXCEPT ![c] = handled + batch + spans]
    /\ UNCHANGED <<spans, done, closing, stats, taken, ended, handled>>

(* The flush is done, or its time is up.                                     *)
Flushed(c) ==
    /\ caller[c] = "waiting"
    /\ done >= mine[c]
    /\ caller' = [caller EXCEPT ![c] = "true"]
    /\ UNCHANGED <<spans, asked, done, closing, stats, thread, taken, mine,
                   before, ended, handled>>

TimeUp(c) ==
    /\ caller[c] = "waiting"
    /\ done < mine[c]
    /\ caller' = [caller EXCEPT ![c] = "false"]
    /\ UNCHANGED <<spans, asked, done, closing, stats, thread, taken, mine,
                   before, ended, handled>>

(* Exporter::shutdown, after its flush.                                      *)
Shutdown(c) ==
    /\ c \in Closers
    /\ caller[c] \in {"true", "false"}
    /\ closing' = TRUE
    /\ NotifyThread
    /\ caller' = [caller EXCEPT ![c] = "over"]
    /\ UNCHANGED <<spans, asked, done, stats, taken, mine, before, ended, handled>>

------------------------------------------------------------------------------
(* The exporter's thread: export_loop, export.                                *)

NothingAsked == asked = done /\ ~closing

Take ==
    /\ batch' = Least(spans, MaxBatch)
    /\ spans' = spans - batch'
    /\ flush' = asked
    /\ last' = closing
    /\ attempts' = 0
    /\ thread' = IF batch' = 0 THEN "sent" ELSE "sending"

(* The two waits, of which each wake-up looks again at the condition: for    *)
(* work, then for a full batch.                                              *)
Look ==
    /\ thread \in {"top", "again"}
    /\ IF thread = "top" /\ spans = 0 /\ NothingAsked
       THEN thread' = "idle" /\ UNCHANGED <<spans, taken>>
       ELSE IF spans < MaxBatch /\ NothingAsked
       THEN thread' = "batching" /\ UNCHANGED <<spans, taken>>
       ELSE Take
    /\ UNCHANGED <<asked, done, closing, stats, flushing, ended, handled>>

(* The delay is over: a smaller batch goes.                                  *)
DelayOver ==
    /\ thread \in {"again", "batching"}
    /\ Take
    /\ UNCHANGED <<asked, done, closing, stats, flushing, ended, handled>>

(* A condition variable may wake its waiter for nothing.                     *)
WakeThread ==
    /\ thread \in {"idle", "batching"}
    /\ NotifyThread
    /\ UNCHANGED <<spans, asked, done, closing, stats, taken, flushing, ended, handled>>

(* What became of the batch, counted.                                        *)
Handled ==
    /\ handled' = handled + batch
    /\ batch' = 0
    /\ thread' = "sent"
    /\ UNCHANGED <<spans, asked, done, closing, flush, last, attempts, flushing, ended>>

(* (A bug: a span the collector rejected is counted among those it took.)    *)
AcceptedAll ==
    /\ thread = "sending"
    /\ \E rejected \in 0 .. batch :
          exported' = exported + batch /\ dropped' = dropped + rejected
    /\ Handled
    /\ UNCHANGED unsent

Accepted ==
    /\ thread = "sending"
    /\ \E rejected \in 0 .. batch :
          exported' = exported + (batch - rejected) /\ dropped' = dropped + rejected
    /\ Handled
    /\ UNCHANGED unsent

(* Refused for good, or as often as a batch is sent, or the collector asks   *)
(* for a wait that is too long.                                              *)
Failed ==
    /\ thread = "sending"
    /\ unsent' = unsent + batch
    /\ Handled
    /\ UNCHANGED <<exported, dropped>>

(* retry::delay gives a wait: the batch is sent again after it.              *)
Retry ==
    /\ thread = "sending"
    /\ attempts + 1 < MAX_ATTEMPTS
    /\ attempts' = attempts + 1
    /\ thread' = "backoff"
    /\ UNCHANGED <<spans, asked, done, closing, stats, batch, flush, last, flushing,
                   ended, handled>>

Resend ==
    /\ thread = "backoff"
    /\ thread' = "sending"
    /\ UNCHANGED <<spans, asked, done, closing, stats, taken, flushing, ended, handled>>

(* (A bug: the spans pushed while the batch was sent are not looked at.)     *)
ConcludeAtOnce ==
    /\ thread = "sent"
    /\ done' = Greatest(done, flush)
    /\ thread' = IF last THEN "stopped" ELSE "top"
    /\ UNCHANGED <<spans, asked, closing, stats, taken, flushing, ended, handled>>

(* With nothing left in the queue, the flushes asked before the batch was    *)
(* taken are done, and a thread told to stop by then stops.                  *)
Conclude ==
    /\ thread = "sent"
    /\ IF spans = 0
       THEN done' = Greatest(done, flush) /\ thread' = IF last THEN "stopped" ELSE "top"
       ELSE thread' = "top" /\ UNCHANGED done
    /\ UNCHANGED <<spans, asked, closing, stats, taken, flushing, ended, handled>>

ThreadStep ==
    \/ Look \/ DelayOver \/ Accepted \/ Failed \/ Retry \/ Resend \/ Conclude

ExporterNext ==
    \/ Push \/ ThreadStep \/ WakeThread
    \/ \E c \in Callers : AskFlush(c) \/ Flushed(c) \/ TimeUp(c) \/ Shutdown(c)

ExporterSpec == ExporterInit /\ [][ExporterNext]_exporterVars

------------------------------------------------------------------------------
(* Properties.                                                               *)

(* The variables have their types.                                           *)
ExporterTypeOK ==
    /\ spans \in Nat /\ asked \in Nat /\ done \in Nat /\ closing \in BOOLEAN
    /\ exported \in Nat /\ dropped \in Nat /\ unsent \in Nat
    /\ thread \in ThreadSteps
    /\ batch \in Nat /\ flush \in Nat /\ last \in BOOLEAN /\ attempts \in Nat
    /\ caller \in [Callers -> CallerSteps]
    /\ mine \in [Callers -> Nat] /\ before \in [Callers -> Nat]
    /\ ended \in Nat /\ handled \in Nat

(* A span ended is queued, being sent, or counted once among those exported, *)
(* dropped or failed (Stats), and none is left in the queue of a thread that *)
(* stopped, though tasks end spans until then and after.                     *)
SpansAccounted ==
    /\ ended = spans + batch + exported + dropped + unsent
    /\ spans <= MaxQueue /\ batch <= MaxBatch
    /\ thread = "stopped" => spans = 0 /\ batch = 0

(* A flush that says yes says it of every span queued before it (flush:      *)
(* "whether it was all handled"), whatever was pushed since.                 *)
FlushTells == \A c \in Callers : caller[c] = "true" => handled >= before[c]

(* The thread never sleeps over work: a span is sent though no flush is      *)
(* asked, a flush asked before the exporter is shut down is answered before  *)
(* its time is up once the tasks end no more spans, and the thread stops     *)
(* when it is told to.                                                       *)
NothingWaits ==
    /\ spans > 0 ~> batch > 0
    /\ \A c \in Callers :
          caller[c] = "waiting" /\ ~closing ~> caller[c] # "waiting"
    /\ closing ~> thread = "stopped"

==============================================================================
