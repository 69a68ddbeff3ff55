------------------------- MODULE HelperThreadsProofs -------------------------
(* Theorems about the threads beside the program: the exporter of spans      *)
(* (Exporter) and the writer of an event stream (Outbox).                    *)
EXTENDS Exporter, Outbox, SequenceTheorems, TLAPS

------------------------------------------------------------------------------
(* Exporter: spans and flushes, for any callers, limits and number of spans. *)

(* What a flush rests on: the spans queued before it are handled, in a batch *)
(* or queued, and all handled once it is done; a batch is being sent exactly *)
(* while the thread is at it.                                                *)
FlushInv ==
    /\ \A c \in Callers : caller[c] # "none" =>
          /\ before[c] <= handled + batch + spans
          /\ done >= mine[c] => before[c] <= handled
    /\ \A c \in Callers : caller[c] = "true" => done >= mine[c]
    /\ thread \notin {"sending", "backoff"} => batch = 0

(* No caller's number is past those asked, and so none is done too early;    *)
(* the thread stops only when it is told to.                                 *)
Numbers ==
    /\ done <= asked /\ flush <= asked
    /\ last => closing
    /\ thread = "stopped" => closing
    /\ \A c \in Callers : mine[c] <= asked

ExporterInv == ExporterTypeOK /\ SpansAccounted /\ FlushInv /\ Numbers

------------------------------------------------------------------------------
(* A batch takes spans from the queue, a full batch at most (export_loop).   *)
LEMMA Taking ==
  ASSUME ExporterTypeOK, Take
  PROVE  /\ batch' \in Nat /\ spans' \in Nat /\ batch' <= MaxBatch
         /\ spans = spans' + batch' /\ spans' <= spans
         /\ (thread' \notin {"sending", "backoff"} => batch' = 0)
         /\ thread' \in {"sent", "sending"}
BY ExporterAssumption DEF ExporterTypeOK, Take, Least

(* The exporter's state keeps its types.                                     *)
LEMMA ExporterTypeStep == ExporterTypeOK /\ [ExporterNext]_exporterVars => ExporterTypeOK'
<1>. SUFFICES ASSUME ExporterTypeOK, [ExporterNext]_exporterVars
              PROVE  ExporterTypeOK'
  OBVIOUS
<1>1. ASSUME Push PROVE ExporterTypeOK'
  <2>1. thread' \in ThreadSteps
    BY <1>1 DEF Push, Tells, NotifyThread, ExporterTypeOK, ThreadSteps
  <2>. QED
    BY <1>1, <2>1 DEF Push, ExporterTypeOK, taken, flushing
<1>2. ASSUME NEW c \in Callers, AskFlush(c) PROVE ExporterTypeOK'
  BY <1>2 DEF AskFlush, NotifyThread, ExporterTypeOK, ThreadSteps, CallerSteps, taken, stats
<1>3. ASSUME NEW c \in Callers, Flushed(c) PROVE ExporterTypeOK'
  BY <1>3 DEF Flushed, ExporterTypeOK, CallerSteps, taken, stats
<1>4. ASSUME NEW c \in Callers, TimeUp(c) PROVE ExporterTypeOK'
  BY <1>4 DEF TimeUp, ExporterTypeOK, CallerSteps, taken, stats
<1>5. ASSUME NEW c \in Callers, Shutdown(c) PROVE ExporterTypeOK'
  BY <1>5 DEF Shutdown, NotifyThread, ExporterTypeOK, ThreadSteps, CallerSteps, taken, stats
<1>t. ASSUME Take, UNCHANGED <<asked, done, closing, stats, flushing, ended, handled>>
      PROVE  ExporterTypeOK'
  BY <1>t, Taking DEF Take, ExporterTypeOK, ThreadSteps, stats, flushing
<1>6. ASSUME Look PROVE ExporterTypeOK'
  <2>1. CASE UNCHANGED <<spans, taken>>
    BY <1>6, <2>1, <1>t DEF Look, ExporterTypeOK, ThreadSteps, taken, stats, flushing
  <2>2. CASE ~ UNCHANGED <<spans, taken>>
    BY <1>6, <2>2, <1>t DEF Look
  <2>. QED
    BY <2>1, <2>2
<1>7. ASSUME DelayOver PROVE ExporterTypeOK'
  BY <1>7, <1>t DEF DelayOver
<1>8. ASSUME WakeThread PROVE ExporterTypeOK'
  BY <1>8 DEF WakeThread, NotifyThread, ExporterTypeOK, ThreadSteps, taken, stats, flushing
<1>9. ASSUME Accepted PROVE ExporterTypeOK'
  <2>1. exported' \in Nat /\ dropped' \in Nat
    BY <1>9 DEF Accepted, ExporterTypeOK
  <2>. QED
    BY <1>9, <2>1 DEF Accepted, Handled, ExporterTypeOK, ThreadSteps, flushing
<1>10. ASSUME Failed PROVE ExporterTypeOK'
  BY <1>10 DEF Failed, Handled, ExporterTypeOK, ThreadSteps, flushing
<1>11. ASSUME Retry PROVE ExporterTypeOK'
  BY <1>11 DEF Retry, ExporterTypeOK, ThreadSteps, flushing, stats
<1>12. ASSUME Resend PROVE ExporterTypeOK'
  BY <1>12 DEF Resend, ExporterTypeOK, ThreadSteps, flushing, stats, taken
<1>13. ASSUME Conclude PROVE ExporterTypeOK'
  BY <1>13 DEF Conclude, Greatest, ExporterTypeOK, ThreadSteps, flushing, stats, taken
<1>14. ASSUME UNCHANGED exporterVars PROVE ExporterTypeOK'
  BY <1>14 DEF exporterVars, ExporterTypeOK
<1>. QED
  BY <1>1, <1>2, <1>3, <1>4, <1>5, <1>6, <1>7, <1>8, <1>9, <1>10, <1>11,
     <1>12, <1>13, <1>14 DEF ExporterNext, ThreadStep

(* The exporter starts with its types.                                       *)
LEMMA ExporterInitialTypes == ExporterInit => ExporterTypeOK
<1>. SUFFICES ASSUME ExporterInit PROVE ExporterTypeOK
  OBVIOUS
<1>1. caller \in [Callers -> CallerSteps]
  BY DEF ExporterInit, CallerSteps
<1>2. mine \in [Callers -> Nat] /\ before \in [Callers -> Nat]
  BY DEF ExporterInit
<1>3. closing \in BOOLEAN /\ last \in BOOLEAN
  BY DEF ExporterInit
<1>4. thread \in ThreadSteps
  BY DEF ExporterInit, ThreadSteps
<1>5. /\ spans \in Nat /\ asked \in Nat /\ done \in Nat
      /\ exported \in Nat /\ dropped \in Nat /\ unsent \in Nat
      /\ batch \in Nat /\ flush \in Nat /\ attempts \in Nat
      /\ ended \in Nat /\ handled \in Nat
  BY DEF ExporterInit
<1>. QED
  BY <1>1, <1>2, <1>3, <1>4, <1>5 DEF ExporterTypeOK

(* The exporter's state keeps its types.                                     *)
THEOREM ExporterTypeCorrect == ExporterSpec => []ExporterTypeOK
<1>. QED
  BY ExporterInitialTypes, ExporterTypeStep, PTL DEF ExporterSpec

------------------------------------------------------------------------------
(* Every step keeps the count of the spans, and what the flushes rest on.    *)
LEMMA ExporterInvStep == ExporterInv /\ [ExporterNext]_exporterVars => ExporterInv'
<1>. SUFFICES ASSUME ExporterInv, [ExporterNext]_exporterVars PROVE ExporterInv'
  OBVIOUS
<1>0. ExporterTypeOK /\ ExporterTypeOK'
  BY ExporterTypeStep DEF ExporterInv
<1>i. SpansAccounted /\ FlushInv /\ Numbers
  BY DEF ExporterInv
<1>1. ASSUME Push PROVE ExporterInv'
  <2>0. (thread' = thread) \/ (thread = "idle" /\ thread' = "top")
        \/ (thread = "batching" /\ thread' = "again")
    BY <1>1 DEF Push, Tells, NotifyThread
  <2>n. /\ spans \in Nat /\ batch \in Nat /\ exported \in Nat /\ dropped \in Nat
        /\ unsent \in Nat /\ ended \in Nat /\ MaxQueue \in Nat
    BY <1>0, ExporterAssumption DEF ExporterTypeOK
  <2>1. SpansAccounted'
    <3>1. CASE closing \/ spans >= MaxQueue
      BY <1>1, <1>i, <2>n, <3>1 DEF Push, SpansAccounted, taken
    <3>2. CASE ~(closing \/ spans >= MaxQueue)
      <4>1. /\ spans' = spans + 1 /\ ended' = ended + 1 /\ thread' # "stopped"
            /\ UNCHANGED <<batch, exported, dropped, unsent>>
        BY <1>1, <1>i, <2>0, <3>2 DEF Push, Numbers, taken
      <4>. QED
        BY <1>i, <2>n, <3>2, <4>1 DEF SpansAccounted
    <3>. QED
      BY <3>1, <3>2
  <2>2. FlushInv'
    BY <1>0, <1>1, <1>i, <2>0 DEF Push, FlushInv, ExporterTypeOK, taken, flushing
  <2>3. Numbers'
    BY <1>1, <1>i, <2>0 DEF Push, Numbers, taken, flushing
  <2>. QED
    BY <1>0, <2>1, <2>2, <2>3 DEF ExporterInv
<1>2. ASSUME NEW c \in Callers, AskFlush(c) PROVE ExporterInv'
  <2>0. (thread' = thread) \/ (thread = "idle" /\ thread' = "top")
        \/ (thread = "batching" /\ thread' = "again")
    BY <1>2 DEF AskFlush, NotifyThread
  <2>1. SpansAccounted'
    BY <1>2, <1>i, <2>0 DEF AskFlush, SpansAccounted, taken, stats
  <2>n. asked \in Nat /\ done \in Nat /\ flush \in Nat /\ mine \in [Callers -> Nat]
    BY <1>0 DEF ExporterTypeOK
  <2>2. Numbers'
    BY <2>0, <2>n, <1>0, <1>2, <1>i DEF AskFlush, Numbers, ExporterTypeOK, taken
  <2>3. before'[c] = handled + batch + spans /\ mine'[c] = asked + 1 /\ done' = done
    BY <1>0, <1>2 DEF AskFlush, ExporterTypeOK
  <2>4. ~(done' >= mine'[c])
    BY <1>0, <1>i, <2>3 DEF Numbers, ExporterTypeOK
  <2>5. FlushInv'
    <3>1. /\ \A d \in Callers \ {c} : caller'[d] = caller[d] /\ mine'[d] = mine[d]
                                      /\ before'[d] = before[d]
          /\ caller'[c] = "waiting"
          /\ UNCHANGED <<spans, batch, handled, done>>
      BY <1>0, <1>2 DEF AskFlush, ExporterTypeOK, taken
    <3>. QED
      BY <1>0, <1>i, <2>0, <2>3, <2>4, <3>1 DEF FlushInv, ExporterTypeOK
  <2>. QED
    BY <1>0, <2>1, <2>2, <2>5 DEF ExporterInv
<1>3. ASSUME NEW c \in Callers, Flushed(c) PROVE ExporterInv'
  BY <1>0, <1>3, <1>i
  DEF Flushed, ExporterInv, SpansAccounted, FlushInv, Numbers, ExporterTypeOK, taken, stats
<1>4. ASSUME NEW c \in Callers, TimeUp(c) PROVE ExporterInv'
  BY <1>0, <1>4, <1>i
  DEF TimeUp, ExporterInv, SpansAccounted, FlushInv, Numbers, ExporterTypeOK, taken, stats
<1>5. ASSUME NEW c \in Callers, Shutdown(c) PROVE ExporterInv'
  <2>0. (thread' = thread) \/ (thread = "idle" /\ thread' = "top")
        \/ (thread = "batching" /\ thread' = "again")
    BY <1>5 DEF Shutdown, NotifyThread
  <2>. QED
    BY <1>0, <1>5, <1>i, <2>0
    DEF Shutdown, ExporterInv, SpansAccounted, FlushInv, Numbers, ExporterTypeOK, taken, stats
<1>t. ASSUME Take, thread \in {"top", "again", "batching"},
             UNCHANGED <<asked, done, closing, stats, flushing, ended, handled>>
      PROVE  ExporterInv'
  <2>n. /\ spans \in Nat /\ batch \in Nat /\ spans' \in Nat /\ batch' \in Nat
        /\ exported \in Nat /\ dropped \in Nat /\ unsent \in Nat /\ ended \in Nat
        /\ handled \in Nat /\ MaxQueue \in Nat /\ MaxBatch \in Nat
        /\ before \in [Callers -> Nat]
    BY <1>0, ExporterAssumption DEF ExporterTypeOK
  <2>0. batch = 0 /\ spans = spans' + batch' /\ batch' <= MaxBatch
        /\ (thread' \notin {"sending", "backoff"} => batch' = 0)
        /\ thread' # "stopped" /\ flush' = asked /\ last' = closing
    BY <1>0, <1>t, <1>i, Taking DEF FlushInv, Take
  <2>u. /\ exported' = exported /\ dropped' = dropped /\ unsent' = unsent
        /\ caller' = caller /\ mine' = mine /\ before' = before
        /\ done' = done /\ ended' = ended /\ handled' = handled
    BY <1>t DEF stats, flushing
  <2>1. SpansAccounted'
    <3>1. /\ spans = spans' + batch' /\ batch = 0 /\ batch' <= MaxBatch
          /\ spans <= MaxQueue /\ ended' = spans + 0 + exported' + dropped' + unsent'
      BY <2>n, <1>i, <2>0, <2>u DEF SpansAccounted
    <3>2. /\ exported' \in Nat /\ dropped' \in Nat /\ unsent' \in Nat
          /\ ended' \in Nat
      BY <1>0 DEF ExporterTypeOK
    <3>3. ended' = spans' + batch' + exported' + dropped' + unsent'
      BY <2>n, <3>1, <3>2
    <3>4. spans' <= MaxQueue
      <4>1. spans' <= spans
        BY <1>0, <1>t, Taking
      <4>2. spans <= MaxQueue
        BY <3>1
      <4>. QED
        BY <2>n, <4>1, <4>2
    <3>. QED
      BY <2>0, <3>3, <3>4 DEF SpansAccounted
  <2>2. FlushInv'
    <3>1. handled' + batch' + spans' = handled + batch + spans
      <4>1. /\ spans \in Nat /\ spans' \in Nat /\ batch' \in Nat /\ handled \in Nat
            /\ batch \in Nat /\ handled' \in Nat
        BY <1>0, <2>n DEF ExporterTypeOK
      <4>2. batch = 0 /\ spans = spans' + batch' /\ handled' = handled
        BY <2>0, <2>u
      <4>. QED
        BY <4>1, <4>2
    <3>2. ASSUME NEW c \in Callers, caller[c] # "none"
          PROVE  before[c] <= handled + batch + spans /\ (done >= mine[c] => before[c] <= handled)
      BY <1>i, <3>2 DEF FlushInv
    <3>. QED
      BY <1>i, <2>0, <2>u, <3>1, <3>2 DEF FlushInv
  <2>3. Numbers'
    BY <1>0, <1>t, <1>i, <2>0 DEF Numbers, flushing, ExporterTypeOK
  <2>. QED
    BY <1>0, <2>1, <2>2, <2>3 DEF ExporterInv
<1>6. ASSUME Look PROVE ExporterInv'
  <2>1. CASE UNCHANGED <<spans, taken>> /\ thread' \in {"idle", "batching"}
    BY <1>0, <1>6, <1>i, <2>1
    DEF Look, ExporterInv, SpansAccounted, FlushInv, Numbers, taken, stats, flushing
  <2>2. CASE Take
    BY <1>6, <1>t, <2>2 DEF Look
  <2>. QED
    BY <1>6, <2>1, <2>2 DEF Look
<1>7. ASSUME DelayOver PROVE ExporterInv'
  BY <1>7, <1>t DEF DelayOver
<1>8. ASSUME WakeThread PROVE ExporterInv'
  <2>0. (thread = "idle" /\ thread' = "top") \/ (thread = "batching" /\ thread' = "again")
    BY <1>8 DEF WakeThread, NotifyThread
  <2>. QED
    BY <1>0, <1>8, <1>i, <2>0
    DEF WakeThread, ExporterInv, SpansAccounted, FlushInv, Numbers, taken, stats, flushing
<1>h. ASSUME Handled, ended = spans + exported' + dropped' + unsent'
      PROVE  ExporterInv'
  <2>1. SpansAccounted'
    <3>1. /\ spans \in Nat /\ exported' \in Nat /\ dropped' \in Nat /\ unsent' \in Nat
          /\ ended \in Nat /\ MaxQueue \in Nat /\ MaxBatch \in Nat
      BY <1>0, ExporterAssumption DEF ExporterTypeOK
    <3>2. spans' = spans /\ ended' = ended /\ batch' = 0 /\ thread' = "sent"
      BY <1>h DEF Handled
    <3>3. ended' = spans' + batch' + exported' + dropped' + unsent'
      BY <1>h, <3>1, <3>2
    <3>4. spans' <= MaxQueue /\ batch' <= MaxBatch
      BY <1>i, <3>1, <3>2 DEF SpansAccounted
    <3>. QED
      BY <3>2, <3>3, <3>4 DEF SpansAccounted
  <2>2. FlushInv'
    BY <1>0, <1>h, <1>i DEF Handled, FlushInv, ExporterTypeOK, flushing
  <2>3. Numbers'
    BY <1>h, <1>i DEF Handled, Numbers, flushing
  <2>. QED
    BY <1>0, <2>1, <2>2, <2>3 DEF ExporterInv
<1>n. /\ spans \in Nat /\ batch \in Nat /\ exported \in Nat /\ dropped \in Nat
      /\ unsent \in Nat /\ ended \in Nat
      /\ exported' \in Nat /\ dropped' \in Nat /\ unsent' \in Nat
  BY <1>0 DEF ExporterTypeOK
<1>9. ASSUME Accepted PROVE ExporterInv'
  <2>1. PICK r \in 0 .. batch :
           exported' = exported + (batch - r) /\ dropped' = dropped + r
    BY <1>9 DEF Accepted
  <2>2. unsent' = unsent /\ ended = spans + batch + exported + dropped + unsent
    BY <1>9, <1>i DEF Accepted, SpansAccounted
  <2>3. ended = spans + exported' + dropped' + unsent'
    BY <1>n, <2>1, <2>2
  <2>. QED
    BY <1>9, <1>h, <2>3 DEF Accepted
<1>10. ASSUME Failed PROVE ExporterInv'
  <2>1. ended = spans + exported' + dropped' + unsent'
    BY <1>10, <1>i, <1>n DEF Failed, SpansAccounted
  <2>. QED
    BY <1>10, <1>h, <2>1 DEF Failed
<1>11. ASSUME Retry PROVE ExporterInv'
  BY <1>0, <1>11, <1>i
  DEF Retry, ExporterInv, SpansAccounted, FlushInv, Numbers, stats, flushing
<1>12. ASSUME Resend PROVE ExporterInv'
  BY <1>0, <1>12, <1>i
  DEF Resend, ExporterInv, SpansAccounted, FlushInv, Numbers, stats, flushing, taken
<1>13. ASSUME Conclude PROVE ExporterInv'
  <2>0. batch = 0 /\ thread' \in {"top", "stopped"} /\ (thread' = "stopped" => spans = 0)
    BY <1>13, <1>i DEF Conclude, FlushInv
  <2>1. SpansAccounted'
    BY <1>13, <1>i, <2>0 DEF Conclude, SpansAccounted, stats, taken
  <2>2. done' \in Nat /\ done' >= done /\ done' <= asked
        /\ (spans # 0 => done' = done)
    BY <1>0, <1>13, <1>i DEF Conclude, Greatest, Numbers, ExporterTypeOK
  <2>3. FlushInv'
    <3>. SUFFICES ASSUME NEW c \in Callers, caller[c] # "none", done' >= mine[c]
                  PROVE  before[c] <= handled
      BY <1>0, <1>13, <1>i, <2>0, <2>2
      DEF Conclude, FlushInv, ExporterTypeOK, flushing, taken
    <3>1. CASE spans = 0
      BY <1>0, <1>i, <2>0, <3>1 DEF FlushInv, ExporterTypeOK
    <3>2. CASE spans # 0
      BY <1>0, <1>i, <2>2, <3>2 DEF FlushInv, ExporterTypeOK
    <3>. QED
      BY <3>1, <3>2
  <2>4. Numbers'
    BY <1>13, <1>i, <2>2 DEF Conclude, Numbers, flushing, taken
  <2>. QED
    BY <1>0, <2>1, <2>3, <2>4 DEF ExporterInv
<1>14. ASSUME UNCHANGED exporterVars PROVE ExporterInv'
  BY <1>0, <1>14, <1>i DEF exporterVars, ExporterInv, SpansAccounted, FlushInv, Numbers
<1>. QED
  BY <1>1, <1>2, <1>3, <1>4, <1>5, <1>6, <1>7, <1>8, <1>9, <1>10, <1>11,
     <1>12, <1>13, <1>14 DEF ExporterNext, ThreadStep

(* The invariant holds at the start.                                         *)
LEMMA ExporterInvInitially == ExporterInit => ExporterInv
<1>. SUFFICES ASSUME ExporterInit PROVE ExporterInv
  OBVIOUS
<1>1. SpansAccounted
  BY ExporterAssumption DEF ExporterInit, SpansAccounted
<1>2. FlushInv
  BY DEF ExporterInit, FlushInv
<1>3. Numbers
  BY DEF ExporterInit, Numbers
<1>. QED
  BY <1>1, <1>2, <1>3, ExporterInitialTypes DEF ExporterInv

(* Every span is queued, being sent, or counted once, and none is left       *)
(* behind by a thread that stopped (export_loop).                            *)
THEOREM SpansAccountedHolds == ExporterSpec => []SpansAccounted
<1>1. ExporterInv => SpansAccounted
  BY DEF ExporterInv
<1>. QED
  BY <1>1, ExporterInvInitially, ExporterInvStep, PTL DEF ExporterSpec

(* A flush that says yes says it of every span queued before it              *)
(* (Exporter::flush).                                                        *)
THEOREM FlushTellsHolds == ExporterSpec => []FlushTells
<1>1. ExporterInv => FlushTells
  BY DEF ExporterInv, FlushInv, FlushTells, ExporterTypeOK
<1>. QED
  BY <1>1, ExporterInvInitially, ExporterInvStep, PTL DEF ExporterSpec

------------------------------------------------------------------------------
(* Outbox: what a stream is sent, for any requests and sizes.                *)

(* The types the proofs rest on.                                             *)
OutboxTyping ==
    /\ queue \in Seq(Pieces)
    /\ writer \in {"ready", "waiting", "writing", "ended"}
    /\ stream \in {"open", "ending", "plain", "closed", "joining", "ok", "error"}
    /\ number \in Nat /\ accepted \in Seq(Pieces)
    /\ refused \in BOOLEAN /\ closed \in BOOLEAN
    /\ written \in Seq(Pieces \cup {NoPiece})
    /\ writer = "writing" => writing \in Pieces

(* Pieces that are neither written nor queued.                               *)
InHand == IF writer = "writing" THEN 1 ELSE 0

(* Written, in hand and queued, one after the other, are the pieces accepted,*)
(* up to one that was cut: the thread then takes no other.                   *)
Placed ==
    /\ Len(accepted) = Len(written) + InHand + Len(queue)
    /\ \A i \in 1 .. Len(queue) : queue[i] = accepted[Len(written) + InHand + i]
    /\ writer = "writing" => writing = accepted[Len(written) + 1]

Cut == failed # "no" /\ writer \in {"ready", "ended"}

Faithful ==
    \A i \in 1 .. Len(written) :
       written[i] = accepted[i] \/ (written[i] = NoPiece /\ i = Len(written) /\ Cut)

(* The last chunk is accepted last, and only if all the others were.         *)
LastIsLast ==
    \A i \in 1 .. Len(accepted) :
       accepted[i].kind = "last" =>
          i = Len(accepted) /\ stream # "open" /\ ~refused /\ number = Len(accepted)

(* What each side has ended with.                                            *)
Ends ==
    /\ refused => failed # "no"
    /\ ~refused => number = Len(accepted)
    /\ closed => stream \notin {"open", "ending", "plain"}
    /\ writer = "ended" => failed # "no" \/ (closed /\ queue = <<>>)
    /\ stream = "ok" => failed = "no" /\ writer = "ended" /\ ~refused

OutboxInv == OutboxTyping /\ Placed /\ Faithful /\ LastIsLast /\ Ends

------------------------------------------------------------------------------
(* A sequence with an element after the others.                              *)
LEMMA Appended ==
  ASSUME NEW S, NEW s \in Seq(S), NEW e \in S
  PROVE  /\ Append(s, e) \in Seq(S) /\ Len(Append(s, e)) = Len(s) + 1
         /\ \A i \in 1 .. Len(s) : Append(s, e)[i] = s[i]
         /\ Append(s, e)[Len(s) + 1] = e
OBVIOUS

(* A piece accepted goes to the end of both; one refused changes neither     *)
(* (Outbox::send).                                                           *)
LEMMA Sent ==
  ASSUME OutboxInv, NEW piece \in Pieces, Send(piece), stream = "open",
         stream' \in {"open", "ending"},
         piece.kind = "last" => stream' = "ending"
  PROVE  OutboxInv'
<1>0. OutboxTyping /\ Placed /\ Faithful /\ LastIsLast /\ Ends
  BY DEF OutboxInv
<1>w. /\ (writer' = writer) \/ (writer = "waiting" /\ writer' = "ready")
      /\ UNCHANGED <<slow, closed, writing, written>> /\ number' = number + 1
  BY DEF Send, Accept, Refuse, NotifyWriter
<1>h. InHand' = InHand /\ InHand \in Nat
  BY <1>w DEF InHand
<1>l. Len(written) \in Nat /\ Len(queue) \in Nat /\ Len(accepted) \in Nat
  BY <1>0 DEF OutboxTyping
<1>1. CASE Refuse(piece)
  <2>1. UNCHANGED <<queue, accepted, writer>> /\ refused' = TRUE /\ failed' # "no"
        /\ (failed # "no" => failed' = failed)
    BY <1>1 DEF Refuse
  <2>2. OutboxTyping'
    BY <1>0, <1>w, <2>1 DEF OutboxTyping
  <2>3. Placed'
    BY <1>0, <1>w, <1>h, <2>1 DEF Placed
  <2>4. Faithful'
    BY <1>0, <1>w, <2>1 DEF Faithful, Cut
  <2>5. LastIsLast'
    BY <1>0, <2>1 DEF LastIsLast
  <2>6. Ends'
    BY <1>0, <1>w, <2>1 DEF Ends
  <2>. QED
    BY <2>2, <2>3, <2>4, <2>5, <2>6 DEF OutboxInv
<1>2. CASE Accept(piece)
  <2>1. /\ failed = "no" /\ UNCHANGED <<failed, refused>>
        /\ queue' = Append(queue, piece) /\ accepted' = Append(accepted, piece)
    BY <1>2 DEF Accept
  <2>2. /\ Len(accepted') = Len(accepted) + 1 /\ accepted'[Len(accepted) + 1] = piece
        /\ \A i \in 1 .. Len(accepted) : accepted'[i] = accepted[i]
        /\ accepted' \in Seq(Pieces)
    BY <1>0, <2>1, Appended DEF OutboxTyping
  <2>3. /\ Len(queue') = Len(queue) + 1 /\ queue'[Len(queue) + 1] = piece
        /\ \A i \in 1 .. Len(queue) : queue'[i] = queue[i]
        /\ queue' \in Seq(Pieces)
    BY <1>0, <2>1, Appended DEF OutboxTyping
  <2>4. OutboxTyping'
    BY <1>0, <1>w, <2>1, <2>2, <2>3 DEF OutboxTyping
  <2>5. Placed'
    <3>1. Len(accepted') = Len(written') + InHand' + Len(queue')
      BY <1>0, <1>w, <1>h, <1>l, <2>2, <2>3 DEF Placed
    <3>2. ASSUME NEW i \in 1 .. Len(queue')
          PROVE  queue'[i] = accepted'[Len(written') + InHand' + i]
      <4>1. CASE i = Len(queue) + 1
        BY <1>0, <1>w, <1>h, <1>l, <2>2, <2>3, <4>1 DEF Placed
      <4>2. CASE i \in 1 .. Len(queue)
        <5>1. queue[i] = accepted[Len(written) + InHand + i]
          BY <1>0, <4>2 DEF Placed
        <5>2. Len(written) + InHand + i \in 1 .. Len(accepted)
          BY <1>0, <1>h, <1>l, <4>2 DEF Placed
        <5>. QED
          BY <1>w, <1>h, <2>2, <2>3, <4>2, <5>1, <5>2
      <4>. QED
        BY <1>l, <2>3, <4>1, <4>2
    <3>3. writer' = "writing" => writing' = accepted'[Len(written') + 1]
      <4>. SUFFICES ASSUME writer' = "writing" PROVE writing = accepted'[Len(written) + 1]
        BY <1>w
      <4>1. writer = "writing" /\ InHand = 1
        BY <1>w DEF InHand
      <4>2. Len(written) + 1 \in 1 .. Len(accepted)
        BY <1>0, <1>l, <4>1 DEF Placed
      <4>. QED
        BY <1>0, <2>2, <4>1, <4>2 DEF Placed
    <3>. QED
      BY <3>1, <3>2, <3>3 DEF Placed
  <2>6. Faithful'
    <3>. SUFFICES ASSUME NEW i \in 1 .. Len(written)
                  PROVE  written[i] = accepted'[i]
      BY <1>w DEF Faithful
    <3>1. written[i] = accepted[i]
      BY <1>0, <2>1 DEF Faithful, Cut
    <3>2. i \in 1 .. Len(accepted)
      BY <1>0, <1>h, <1>l DEF Placed
    <3>. QED
      BY <2>2, <3>1, <3>2
  <2>7. ~refused /\ number' = Len(accepted')
    BY <1>0, <1>w, <2>1, <2>2 DEF Ends
  <2>8. LastIsLast'
    <3>. SUFFICES ASSUME NEW i \in 1 .. Len(accepted'), accepted'[i].kind = "last"
                  PROVE  i = Len(accepted') /\ stream' # "open" /\ ~refused'
                         /\ number' = Len(accepted')
      BY DEF LastIsLast
    <3>1. i \notin 1 .. Len(accepted)
      BY <1>0, <2>2 DEF LastIsLast
    <3>2. i = Len(accepted) + 1
      BY <1>l, <2>2, <3>1
    <3>. QED
      BY <2>1, <2>2, <2>7, <3>2
  <2>9. Ends'
    BY <1>0, <1>w, <2>1, <2>7 DEF Ends
  <2>. QED
    BY <2>4, <2>5, <2>6, <2>8, <2>9 DEF OutboxInv
<1>. QED
  BY <1>1, <1>2 DEF Send

(* The writing thread takes the first piece, or ends, or waits (write_all).  *)
LEMMA Taken == OutboxInv /\ TakePiece => OutboxInv'
<1>. SUFFICES ASSUME OutboxInv, TakePiece PROVE OutboxInv'
  OBVIOUS
<1>0. OutboxTyping /\ Placed /\ Faithful /\ LastIsLast /\ Ends
  BY DEF OutboxInv
<1>u. UNCHANGED <<pending, slow, failed, closed, stream, number, accepted,
                  refused, written>> /\ writer = "ready"
  BY DEF TakePiece
<1>l. Len(written) \in Nat /\ Len(queue) \in Nat /\ Len(accepted) \in Nat
  BY <1>0 DEF OutboxTyping
<1>r. LastIsLast'
  BY <1>0, <1>u DEF LastIsLast
<1>1. CASE failed # "no"
  <2>1. writer' = "ended" /\ UNCHANGED <<queue, writing>>
    BY <1>1 DEF TakePiece
  <2>2. InHand' = InHand
    BY <1>u, <2>1 DEF InHand
  <2>3. OutboxTyping' /\ Ends'
    BY <1>0, <1>1, <1>u, <2>1 DEF OutboxTyping, Ends
  <2>4. Placed'
    BY <1>0, <1>u, <2>1, <2>2 DEF Placed
  <2>5. Faithful'
    BY <1>0, <1>1, <1>u, <2>1 DEF Faithful, Cut
  <2>. QED
    BY <1>r, <2>3, <2>4, <2>5 DEF OutboxInv
<1>2. CASE failed = "no" /\ queue # <<>>
  <2>1. writer' = "writing" /\ writing' = Head(queue) /\ queue' = Tail(queue)
    BY <1>2 DEF TakePiece
  <2>2. /\ Head(queue) = queue[1] /\ Head(queue) \in Pieces /\ Tail(queue) \in Seq(Pieces)
        /\ Len(queue) = Len(Tail(queue)) + 1 /\ Len(Tail(queue)) \in Nat
        /\ \A i \in 1 .. Len(Tail(queue)) : Tail(queue)[i] = queue[i + 1]
    BY <1>0, <1>2, HeadTailProperties DEF OutboxTyping
  <2>3. InHand = 0 /\ InHand' = 1
    BY <1>u, <2>1 DEF InHand
  <2>4. OutboxTyping'
    BY <1>0, <1>u, <2>1, <2>2 DEF OutboxTyping
  <2>5. Placed'
    <3>1. Len(accepted') = Len(written') + InHand' + Len(queue')
      BY <1>0, <1>l, <1>u, <2>1, <2>2, <2>3 DEF Placed
    <3>2. ASSUME NEW i \in 1 .. Len(queue')
          PROVE  queue'[i] = accepted'[Len(written') + InHand' + i]
      <4>1. queue'[i] = queue[i + 1] /\ i + 1 \in 1 .. Len(queue)
        BY <2>1, <2>2
      <4>2. queue[i + 1] = accepted[Len(written) + InHand + (i + 1)]
        BY <1>0, <4>1 DEF Placed
      <4>. QED
        BY <1>l, <1>u, <2>3, <4>1, <4>2
    <3>3. writing' = accepted'[Len(written') + 1]
      <4>1. 1 \in 1 .. Len(queue)
        BY <1>l, <2>2
      <4>2. queue[1] = accepted[Len(written) + InHand + 1]
        BY <1>0, <4>1 DEF Placed
      <4>. QED
        BY <1>l, <1>u, <2>1, <2>2, <2>3, <4>2
    <3>. QED
      BY <3>1, <3>2, <3>3 DEF Placed
  <2>6. Faithful'
    BY <1>0, <1>2, <1>u DEF Faithful, Cut
  <2>7. Ends'
    BY <1>0, <1>u, <2>1 DEF Ends
  <2>. QED
    BY <1>r, <2>4, <2>5, <2>6, <2>7 DEF OutboxInv
<1>3. CASE failed = "no" /\ queue = <<>>
  <2>1. writer' = (IF closed THEN "ended" ELSE "waiting") /\ UNCHANGED <<queue, writing>>
    BY <1>3 DEF TakePiece
  <2>2. InHand' = InHand
    BY <1>u, <2>1 DEF InHand
  <2>3. OutboxTyping'
    BY <1>0, <1>u, <2>1 DEF OutboxTyping
  <2>4. Placed'
    BY <1>0, <1>u, <2>1, <2>2 DEF Placed
  <2>5. Faithful'
    BY <1>0, <1>3, <1>u DEF Faithful, Cut
  <2>6. Ends'
    BY <1>0, <1>3, <1>u, <2>1 DEF Ends
  <2>. QED
    BY <1>r, <2>3, <2>4, <2>5, <2>6 DEF OutboxInv
<1>. QED
  BY <1>1, <1>2, <1>3

(* A write ends, whole or cut (write_all).                                   *)
LEMMA WriteEnded == OutboxInv /\ WriteEnds => OutboxInv'
<1>. SUFFICES ASSUME OutboxInv, WriteEnds PROVE OutboxInv'
  OBVIOUS
<1>0. OutboxTyping /\ Placed /\ Faithful /\ LastIsLast /\ Ends
  BY DEF OutboxInv
<1>u. /\ UNCHANGED <<queue, closed, stream, number, accepted, refused>>
      /\ writer = "writing" /\ writer' = "ready"
  BY DEF WriteEnds
<1>l. Len(written) \in Nat /\ Len(queue) \in Nat /\ Len(accepted) \in Nat
  BY <1>0 DEF OutboxTyping
<1>1. PICK piece \in Pieces \cup {NoPiece} :
         /\ written' = Append(written, piece)
         /\ \/ piece = writing /\ failed' = failed
            \/ piece = NoPiece /\ failed' # "no"
         /\ (failed' = failed \/ failed' # "no")
  BY <1>0, <1>u DEF WriteEnds, OutboxTyping
<1>2. /\ Len(written') = Len(written) + 1 /\ written'[Len(written) + 1] = piece
      /\ \A i \in 1 .. Len(written) : written'[i] = written[i]
      /\ written' \in Seq(Pieces \cup {NoPiece})
  BY <1>0, <1>1, Appended DEF OutboxTyping
<1>3. InHand = 1 /\ InHand' = 0
  BY <1>u DEF InHand
<1>4. OutboxTyping'
  BY <1>0, <1>u, <1>2 DEF OutboxTyping
<1>5. Placed'
  <2>1. Len(accepted') = Len(written') + InHand' + Len(queue')
    BY <1>0, <1>l, <1>u, <1>2, <1>3 DEF Placed
  <2>2. ASSUME NEW i \in 1 .. Len(queue')
        PROVE  queue'[i] = accepted'[Len(written') + InHand' + i]
    <3>1. queue[i] = accepted[Len(written) + InHand + i]
      BY <1>0, <1>u DEF Placed
    <3>. QED
      BY <1>l, <1>u, <1>2, <1>3, <3>1
  <2>. QED
    BY <1>u, <2>1, <2>2 DEF Placed
<1>6. Faithful'
  <2>. SUFFICES ASSUME NEW i \in 1 .. Len(written')
                PROVE  written'[i] = accepted[i]
                       \/ (written'[i] = NoPiece /\ i = Len(written') /\ Cut')
    BY <1>u DEF Faithful
  <2>1. CASE i \in 1 .. Len(written)
    BY <1>0, <1>u, <1>2, <2>1 DEF Faithful, Cut
  <2>2. CASE i = Len(written) + 1
    <3>1. writing = accepted[i]
      BY <1>0, <1>u, <2>2 DEF Placed
    <3>. QED
      BY <1>1, <1>u, <1>2, <2>2, <3>1 DEF Cut
  <2>. QED
    BY <1>l, <1>2, <2>1, <2>2
<1>7. LastIsLast'
  BY <1>0, <1>u DEF LastIsLast
<1>8. Ends'
  BY <1>0, <1>1, <1>u DEF Ends
<1>. QED
  BY <1>4, <1>5, <1>6, <1>7, <1>8 DEF OutboxInv

(* Steps that neither move a piece nor end a write.                          *)
LEMMA OthersStep ==
  ASSUME OutboxInv, UNCHANGED <<queue, failed, writing, number, accepted, refused, written>>,
         writer' = writer \/ (writer = "waiting" /\ writer' = "ready"),
         closed' \in BOOLEAN,
         stream' \in {"open", "ending", "plain", "closed", "joining", "ok", "error"},
         stream' = "open" => stream = "open",
         closed' => stream' \notin {"open", "ending", "plain"}, closed => closed',
         stream' = "ok" => failed = "no" /\ writer = "ended" /\ ~refused
  PROVE  OutboxInv'
<1>0. OutboxTyping /\ Placed /\ Faithful /\ LastIsLast /\ Ends
  BY DEF OutboxInv
<1>1. InHand' = InHand
  BY DEF InHand
<1>2. OutboxTyping'
  BY <1>0 DEF OutboxTyping
<1>3. Placed'
  BY <1>0, <1>1 DEF Placed
<1>4. Faithful'
  BY <1>0 DEF Faithful, Cut
<1>5. LastIsLast'
  BY <1>0 DEF LastIsLast
<1>6. Ends'
  BY <1>0 DEF Ends
<1>. QED
  BY <1>2, <1>3, <1>4, <1>5, <1>6 DEF OutboxInv

(* The head is the one piece queued and accepted (EventStream::start).       *)
LEMMA OutboxInvInitially == OutboxInit => OutboxInv
<1>. SUFFICES ASSUME OutboxInit PROVE OutboxInv
  OBVIOUS
<1>1. PICK size \in Sizes :
        LET head == [kind |-> "head", number |-> 0, size |-> size] IN
        /\ queue = <<head>> /\ pending = size /\ accepted = <<head>>
        /\ slow = FALSE /\ failed = "no" /\ closed = FALSE
        /\ writer = "ready" /\ writing = NoPiece
        /\ stream = "open" /\ number = 1
        /\ refused = FALSE /\ written = <<>>
  BY DEF OutboxInit
<1>. DEFINE head == [kind |-> "head", number |-> 0, size |-> size]
<1>2. head \in Pieces /\ head.kind # "last"
  BY OutboxAssumption DEF Pieces, Kinds
<1>3. queue = <<head>> /\ accepted = <<head>> /\ written = <<>>
  BY <1>1
<1>. HIDE DEF head
<1>4. /\ <<head>> \in Seq(Pieces) /\ Len(<<head>>) = 1 /\ <<head>>[1] = head
      /\ Len(written) = 0 /\ written \in Seq(Pieces \cup {NoPiece})
  BY <1>2, <1>3
<1>5. OutboxTyping
  BY <1>1, <1>3, <1>4 DEF OutboxTyping
<1>6. InHand = 0
  BY <1>1 DEF InHand
<1>7. Placed
  BY <1>1, <1>3, <1>4, <1>6 DEF Placed
<1>8. Faithful
  BY <1>4 DEF Faithful
<1>9. LastIsLast
  BY <1>2, <1>3, <1>4 DEF LastIsLast
<1>10. Ends
  BY <1>1, <1>3, <1>4 DEF Ends
<1>. QED
  BY <1>5, <1>7, <1>8, <1>9, <1>10 DEF OutboxInv

(* Every step of the stream and of the writing thread keeps the invariant.   *)
LEMMA OutboxInvStep == OutboxInv /\ [OutboxNext]_outboxVars => OutboxInv'
<1>. SUFFICES ASSUME OutboxInv, [OutboxNext]_outboxVars PROVE OutboxInv'
  OBVIOUS
<1>0. OutboxTyping /\ Ends
  BY DEF OutboxInv
<1>1. ASSUME SendEvent PROVE OutboxInv'
  <2>1. PICK size \in Sizes : Send([kind |-> "event", number |-> number, size |-> size])
    BY <1>1 DEF SendEvent
  <2>. DEFINE piece == [kind |-> "event", number |-> number, size |-> size]
  <2>2. piece \in Pieces /\ piece.kind = "event"
    BY <1>0, OutboxAssumption DEF Pieces, Kinds, OutboxTyping
  <2>3. stream = "open" /\ stream' = "open"
    BY <1>1 DEF SendEvent
  <2>4. Send(piece)
    BY <2>1
  <2>. HIDE DEF piece
  <2>. QED
    BY <2>2, <2>3, <2>4, Sent
<1>2. ASSUME stream = "open", EndChunked PROVE OutboxInv'
  <2>1. PICK size \in Sizes : Send([kind |-> "last", number |-> number, size |-> size])
    BY <1>2 DEF EndChunked
  <2>. DEFINE piece == [kind |-> "last", number |-> number, size |-> size]
  <2>2. piece \in Pieces
    BY <1>0, OutboxAssumption DEF Pieces, Kinds, OutboxTyping
  <2>3. stream = "open" /\ stream' = "ending"
    BY <1>2 DEF EndChunked
  <2>4. Send(piece)
    BY <2>1
  <2>. HIDE DEF piece
  <2>. QED
    BY <2>2, <2>3, <2>4, Sent
<1>8. ASSUME stream = "open", EndPlain PROVE OutboxInv'
  <2>1. /\ UNCHANGED <<queue, failed, closed, writer, writing, number, accepted, refused, written>>
        /\ stream' = "plain"
    BY <1>8 DEF EndPlain, outbox
  <2>2. ~closed /\ closed \in BOOLEAN
    BY <1>0, <1>8 DEF Ends, OutboxTyping
  <2>. QED
    BY <2>1, <2>2, OthersStep
<1>3. ASSUME Close PROVE OutboxInv'
  <2>1. /\ UNCHANGED <<queue, failed, writing, number, accepted, refused, written>>
        /\ writer' = writer \/ (writer = "waiting" /\ writer' = "ready")
        /\ closed' = TRUE /\ stream' \in {"closed", "joining"}
    BY <1>3 DEF Close, NotifyWriter, MayWait
  <2>. QED
    BY <2>1, OthersStep
<1>4. ASSUME Joined PROVE OutboxInv'
  <2>1. /\ UNCHANGED <<queue, failed, closed, writing, number, accepted, refused, written>>
        /\ writer' = writer /\ writer = "ended" /\ stream = "joining"
        /\ stream' \in {"ok", "error"} /\ (stream' = "ok" => failed = "no")
    BY <1>4 DEF Joined, outbox
  <2>2. (failed = "no" => ~refused) /\ closed \in BOOLEAN
    BY <1>0, <2>1 DEF Ends, OutboxTyping
  <2>. QED
    BY <2>1, <2>2, OthersStep
<1>5. ASSUME WakeForNothing PROVE OutboxInv'
  <2>1. /\ UNCHANGED <<queue, failed, closed, stream, writing, number, accepted, refused, written>>
        /\ writer = "waiting" /\ writer' = "ready"
    BY <1>5 DEF WakeForNothing, outbox
  <2>. QED
    BY <1>0, <2>1, OthersStep DEF OutboxTyping, Ends
<1>6. ASSUME GrowSlow PROVE OutboxInv'
  <2>1. UNCHANGED <<queue, failed, closed, stream, writer, writing, number, accepted, refused, written>>
    BY <1>6 DEF GrowSlow
  <2>. QED
    BY <1>0, <2>1, OthersStep DEF OutboxTyping, Ends
<1>7. ASSUME UNCHANGED outboxVars PROVE OutboxInv'
  <2>1. UNCHANGED <<queue, failed, closed, stream, writer, writing, number, accepted, refused, written>>
    BY <1>7 DEF outboxVars
  <2>. QED
    BY <1>0, <2>1, OthersStep DEF OutboxTyping, Ends
<1>. QED
  BY <1>1, <1>2, <1>3, <1>4, <1>5, <1>6, <1>7, <1>8, Taken, WriteEnded DEF OutboxNext, End

------------------------------------------------------------------------------
(* What the client can read is what was accepted, in order, up to a cut; the *)
(* last chunk tells that all is there; and whoever waits for the end is told *)
(* so only when it is (write_all, send, wait).                               *)
THEOREM StreamFaithfulHolds == OutboxSpec => []StreamFaithful
<1>1. OutboxInv => StreamFaithful
  <2>. SUFFICES ASSUME OutboxInv PROVE StreamFaithful
    OBVIOUS
  <2>0. OutboxTyping /\ Placed /\ Faithful /\ LastIsLast /\ Ends
    BY DEF OutboxInv
  <2>n. Len(written) \in Nat /\ Len(queue) \in Nat /\ Len(accepted) \in Nat /\ InHand \in {0, 1}
    BY <2>0 DEF OutboxTyping, InHand
  <2>1. Len(written) <= Len(accepted)
    BY <2>0, <2>n DEF Placed
  <2>2. PiecesInOrder
    BY <2>0, <2>1 DEF Faithful, PiecesInOrder
  <2>3. WholeMeansAll
    <3>. SUFFICES ASSUME NEW i \in 1 .. Len(written), written[i].kind = "last"
                  PROVE  ~refused /\ Len(written) = number
      BY DEF WholeMeansAll
    <3>1. written[i] = accepted[i]
      BY <2>0 DEF Faithful, NoPiece
    <3>2. i \in 1 .. Len(accepted)
      BY <2>1, <2>n
    <3>3. i = Len(accepted) /\ ~refused /\ number = Len(accepted)
      BY <2>0, <3>1, <3>2 DEF LastIsLast
    <3>. QED
      BY <2>1, <2>n, <3>3
  <2>4. WaitTells
    <3>. SUFFICES ASSUME stream = "ok" PROVE ~refused /\ written = accepted
      BY DEF WaitTells
    <3>1. failed = "no" /\ writer = "ended" /\ ~refused /\ queue = <<>>
      BY <2>0 DEF Ends
    <3>2. Len(written) = Len(accepted)
      BY <2>0, <2>n, <3>1 DEF Placed, InHand
    <3>3. \A i \in 1 .. Len(written) : written[i] = accepted[i]
      BY <2>0, <3>1 DEF Faithful, Cut
    <3>4. accepted \in Seq(Pieces \cup {NoPiece})
      BY <2>0, SeqMonotonic DEF OutboxTyping
    <3>. QED
      BY <2>0, <3>1, <3>2, <3>3, <3>4, SeqEqual DEF OutboxTyping
  <2>. QED
    BY <2>2, <2>3, <2>4 DEF StreamFaithful
<1>. QED
  BY <1>1, OutboxInvInitially, OutboxInvStep, PTL DEF OutboxSpec

------------------------------------------------------------------------------
(* The bytes held.                                                           *)

(* total[i]: the bytes of the first i pieces accepted, each of a byte at     *)
(* least; those that wait are of the pieces not written yet.                 *)
Totals(total) ==
    /\ total \in [Nat -> Nat]
    /\ \A i \in 1 .. Len(accepted) : total[i] = total[i - 1] + accepted[i].size
    /\ \A i \in 0 .. Len(accepted) :
          total[i] + (Len(accepted) - i) <= total[Len(accepted)]
    /\ pending = total[Len(accepted)] - total[Len(written)]

Counted == pending \in Nat /\ \E total : Totals(total)

HInv == OutboxInv /\ Counted /\ BytesHeld

(* Nothing is held exactly when every piece accepted was written.            *)
LEMMA NothingHeld ==
  ASSUME OutboxInv, Counted, pending = 0
  PROVE  Len(queue) = 0 /\ InHand = 0 /\ Len(accepted) = Len(written)
<1>0. OutboxTyping /\ Placed
  BY DEF OutboxInv
<1>1. PICK total : Totals(total)
  BY DEF Counted
<1>2. Len(written) \in Nat /\ Len(queue) \in Nat /\ Len(accepted) \in Nat /\ InHand \in {0, 1}
  BY <1>0 DEF OutboxTyping, InHand
<1>3. Len(written) <= Len(accepted)
  BY <1>0, <1>2 DEF Placed
<1>4. total[Len(written)] + (Len(accepted) - Len(written)) <= total[Len(accepted)]
  BY <1>1, <1>2, <1>3 DEF Totals
<1>5. total[Len(written)] \in Nat /\ total[Len(accepted)] \in Nat
      /\ total[Len(accepted)] - total[Len(written)] = 0
  BY <1>1, <1>2 DEF Totals
<1>6. Len(accepted) = Len(written)
  BY <1>2, <1>3, <1>4, <1>5
<1>. QED
  BY <1>0, <1>2, <1>6 DEF Placed

(* A piece accepted adds its bytes, and finds nothing held or room for them  *)
(* (send).                                                                   *)
LEMMA SentHeld ==
  ASSUME HInv, NEW piece \in Pieces, Send(piece)
  PROVE  Counted' /\ BytesHeld'
<1>0. OutboxTyping /\ Placed /\ Counted /\ BytesHeld /\ OutboxInv
  BY DEF OutboxInv, HInv
<1>w. UNCHANGED <<slow, closed, writing, written>>
  BY DEF Send
<1>1. CASE Refuse(piece)
  <2>1. UNCHANGED <<queue, pending, accepted, writer>>
    BY <1>1 DEF Refuse
  <2>2. \A total : Totals(total) => Totals(total)'
    BY <1>w, <2>1 DEF Totals
  <2>. QED
    BY <1>0, <2>1, <2>2 DEF Counted, BytesHeld
<1>2. CASE Accept(piece)
  <2>1. /\ queue' = Append(queue, piece) /\ accepted' = Append(accepted, piece)
        /\ pending' = pending + piece.size
        /\ pending <= 0 \/ pending + piece.size <= Pending
        /\ (writer' = "writing") = (writer = "writing")
    BY <1>0, <1>2, OutboxAssumption DEF Accept, Stalled, NotifyWriter, Counted, Pieces
  <2>2. PICK size \in Nat \ {0} : size = piece.size
    BY DEF Pieces
  <2>p. pending \in Nat /\ pending' = pending + size
        /\ (pending <= 0 \/ pending + size <= Pending)
    BY <1>0, <2>1, <2>2 DEF Counted
  <2>3. /\ Len(accepted') = Len(accepted) + 1 /\ accepted'[Len(accepted) + 1] = piece
        /\ \A i \in 1 .. Len(accepted) : accepted'[i] = accepted[i]
    BY <1>0, <2>1, Appended DEF OutboxTyping
  <2>4. Len(queue') = Len(queue) + 1
    BY <1>0, <2>1, Appended DEF OutboxTyping
  <2>n. Len(accepted) \in Nat /\ Len(written) \in Nat /\ Len(queue) \in Nat
        /\ InHand \in {0, 1} /\ Len(written) <= Len(accepted)
    BY <1>0 DEF OutboxTyping, Placed, InHand
  <2>5. PICK total : Totals(total)
    BY <1>0 DEF Counted
  <2>k. PICK n \in Nat : n = Len(accepted)
    BY <2>n
  <2>s. n \in Nat /\ size \in Nat \ {0}
    BY <2>2, <2>k
  <2>6. /\ total \in [Nat -> Nat]
        /\ \A i \in 0 .. n : total[i] + (n - i) <= total[n]
    BY <2>5, <2>k DEF Totals
  <2>. DEFINE more == [total EXCEPT ![n + 1] = total[n] + size]
  <2>7. /\ more \in [Nat -> Nat] /\ more[n + 1] = total[n] + size
        /\ \A i \in 0 .. n : more[i] = total[i]
    BY <2>s, <2>6
  <2>. HIDE DEF more
  <2>8. Totals(more)'
    <3>1. ASSUME NEW i \in 1 .. n + 1 PROVE more[i] = more[i - 1] + accepted'[i].size
      <4>1. CASE i \in 1 .. n
        <5>1. total[i] = total[i - 1] + accepted[i].size
          BY <2>5, <4>1, <2>k DEF Totals
        <5>2. more[i] = total[i] /\ more[i - 1] = total[i - 1]
          BY <2>6, <2>7, <2>s, <4>1
        <5>3. accepted'[i] = accepted[i]
          BY <2>3, <4>1, <2>k
        <5>. QED
          BY <5>1, <5>2, <5>3, Zenon
      <4>2. CASE i = n + 1
        <5>1. i - 1 = n /\ more[n] = total[n]
          BY <2>6, <2>7, <2>s, <4>2
        <5>2. accepted'[i] = piece
          BY <2>3, <4>2, <2>k
        <5>. QED
          BY <2>2, <2>7, <4>2, <5>1, <5>2, Zenon
      <4>3. i \in 1 .. n \/ i = n + 1
        BY <2>s
      <4>. QED
        BY <4>1, <4>2, <4>3, Zenon
    <3>2. pending' = more[n + 1] - more[Len(written)]
      <4>1. Len(written) \in 0 .. n
        BY <2>n, <2>k
      <4>2. more[Len(written)] = total[Len(written)] /\ total[Len(written)] \in Nat
            /\ total[n] \in Nat
        BY <2>6, <2>7, <2>s, <4>1
      <4>3. pending = total[n] - total[Len(written)]
        BY <2>5, <2>k DEF Totals
      <4>4. more[n + 1] = total[n] + size /\ size \in Nat
        BY <2>s, <2>7
      <4>5. pending \in Nat /\ pending' = pending + size
        BY <2>p, Zenon
      <4>. QED
        BY <4>2, <4>3, <4>4, <4>5
    <3>3. Len(accepted') = n + 1
      BY <2>3, <2>k
    <3>4. ASSUME NEW i \in 0 .. n + 1 PROVE more[i] + ((n + 1) - i) <= more[n + 1]
      <4>1. CASE i \in 0 .. n
        <5>1. total[i] + (n - i) <= total[n]
          BY <2>6, <4>1
        <5>2. more[i] = total[i] /\ total[i] \in Nat /\ total[n] \in Nat
          BY <2>s, <2>6, <2>7, <4>1
        <5>3. more[n + 1] = total[n] + size
          BY <2>7
        <5>. QED
          BY <2>s, <4>1, <5>1, <5>2, <5>3
      <4>2. CASE i = n + 1
        BY <2>s, <2>6, <2>7, <4>2
      <4>. QED
        BY <2>s, <4>1, <4>2
    <3>. QED
      BY <1>w, <2>7, <3>1, <3>2, <3>3, <3>4, Zenon DEF Totals
  <2>9. Counted'
    BY <2>p, <2>8 DEF Counted
  <2>10. BytesHeld'
    <3>1. CASE pending = 0
      <4>1. Len(queue) = 0 /\ InHand = 0
        BY <1>0, <3>1, NothingHeld
      <4>. QED
        BY <2>1, <2>4, <4>1 DEF BytesHeld, InHand
    <3>2. CASE pending' <= Pending
      BY <3>2 DEF BytesHeld
    <3>. QED
      BY <2>p, <3>1, <3>2
  <2>. QED
    BY <2>9, <2>10
<1>. QED
  BY <1>1, <1>2 DEF Send

(* A write that ends, whole or cut, gives back the bytes of its piece        *)
(* (write_all).                                                              *)
LEMMA WriteEndedHeld ==
  ASSUME HInv, WriteEnds
  PROVE  Counted' /\ BytesHeld'
<1>0. OutboxTyping /\ Placed /\ Counted /\ BytesHeld
  BY DEF OutboxInv, HInv
<1>u. /\ UNCHANGED <<queue, accepted>> /\ writer = "writing" /\ writer' = "ready"
      /\ pending' = pending - writing.size
  BY DEF WriteEnds
<1>1. Len(written') = Len(written) + 1
  <2>1. PICK piece \in Pieces \cup {NoPiece} : written' = Append(written, piece)
    BY <1>0, <1>u DEF WriteEnds, OutboxTyping
  <2>. QED
    BY <1>0, <2>1, Appended DEF OutboxTyping
<1>2. InHand = 1 /\ writing = accepted[Len(written) + 1]
  BY <1>0, <1>u DEF InHand, Placed
<1>n. Len(accepted) \in Nat /\ Len(written) \in Nat /\ Len(queue) \in Nat
      /\ Len(written) + 1 <= Len(accepted)
  BY <1>0, <1>2 DEF OutboxTyping, Placed
<1>3. PICK total : Totals(total)
  BY <1>0 DEF Counted
<1>. DEFINE w == Len(written) n == Len(accepted)
<1>4. /\ total[w + 1] = total[w] + writing.size
      /\ total[w] \in Nat /\ total[w + 1] \in Nat /\ total[n] \in Nat
      /\ total[w + 1] + (n - (w + 1)) <= total[n]
      /\ pending = total[n] - total[w]
  <2>1. (w + 1) - 1 = w /\ w + 1 \in 1 .. n
    BY <1>n
  <2>2. total[w + 1] = total[(w + 1) - 1] + accepted[w + 1].size
    BY <1>3, <2>1 DEF Totals
  <2>3. total[w + 1] = total[w] + writing.size
    BY <1>2, <2>1, <2>2, Zenon
  <2>4. total \in [Nat -> Nat]
    BY <1>3 DEF Totals
  <2>5. w \in Nat /\ w + 1 \in 0 .. n /\ n \in Nat
    BY <1>n
  <2>6. total[w + 1] + (n - (w + 1)) <= total[n]
    BY <1>3, <2>5 DEF Totals
  <2>7. pending = total[n] - total[w]
    BY <1>3 DEF Totals
  <2>8. total[w] \in Nat /\ total[w + 1] \in Nat /\ total[n] \in Nat
    BY <2>4, <2>5
  <2>. QED
    BY <2>3, <2>6, <2>7, <2>8, Zenon
<1>5. PICK size \in Nat : size = writing.size
  BY <1>0, <1>u DEF OutboxTyping, Pieces
<1>6. pending' = total[n] - total[w + 1] /\ pending' \in Nat /\ pending' <= pending
  <2>1. total[w + 1] = total[w] + size /\ pending' = pending - size
    BY <1>4, <1>5, <1>u, Zenon
  <2>2. /\ total[w] \in Nat /\ total[w + 1] \in Nat /\ total[n] \in Nat
        /\ total[w + 1] + (n - (w + 1)) <= total[n]
        /\ pending = total[n] - total[w]
        /\ n \in Nat /\ w \in Nat /\ w + 1 <= n /\ size \in Nat
    BY <1>4, <1>n, <1>5
  <2>. HIDE DEF n, w
  <2>. QED
    BY <2>1, <2>2
<1>7. Totals(total)'
  BY <1>3, <1>6, <1>1, <1>u DEF Totals
<1>8. BytesHeld'
  <2>1. CASE Len(queue) + 1 <= 1
    BY <1>n, <1>u, <2>1 DEF BytesHeld
  <2>2. CASE pending <= Pending
    BY <1>0, <1>6, <2>2, OutboxAssumption DEF BytesHeld, Counted
  <2>. QED
    BY <1>0, <1>u, <2>1, <2>2 DEF BytesHeld
<1>. QED
  BY <1>6, <1>7, <1>8 DEF Counted

(* Steps that neither take nor give bytes: the piece that the thread takes   *)
(* is still held.                                                            *)
LEMMA OthersHeld ==
  ASSUME HInv, UNCHANGED <<pending, accepted, written>>,
         Len(queue') + InHand' = Len(queue) + InHand
  PROVE  Counted' /\ BytesHeld'
<1>1. \A total : Totals(total) => Totals(total)'
  BY DEF Totals
<1>. QED
  BY <1>1 DEF HInv, Counted, BytesHeld, InHand

LEMMA HeldStep == HInv /\ [OutboxNext]_outboxVars => HInv'
<1>. SUFFICES ASSUME HInv, [OutboxNext]_outboxVars PROVE HInv'
  OBVIOUS
<1>0. OutboxInv /\ OutboxInv'
  BY OutboxInvStep DEF HInv
<1>t. OutboxTyping /\ OutboxTyping'
  BY <1>0 DEF OutboxInv
<1>. SUFFICES Counted' /\ BytesHeld'
  BY <1>0 DEF HInv
<1>1. CASE SendEvent
  <2>1. PICK size \in Sizes : Send([kind |-> "event", number |-> number, size |-> size])
    BY <1>1 DEF SendEvent
  <2>2. [kind |-> "event", number |-> number, size |-> size] \in Pieces
    BY <1>t, OutboxAssumption DEF Pieces, Kinds, OutboxTyping
  <2>. QED
    BY <2>1, <2>2, SentHeld
<1>2. CASE EndChunked
  <2>1. PICK size \in Sizes : Send([kind |-> "last", number |-> number, size |-> size])
    BY <1>2 DEF EndChunked
  <2>2. [kind |-> "last", number |-> number, size |-> size] \in Pieces
    BY <1>t, OutboxAssumption DEF Pieces, Kinds, OutboxTyping
  <2>. QED
    BY <2>1, <2>2, SentHeld
<1>3. CASE WriteEnds
  BY <1>3, WriteEndedHeld
<1>4. CASE TakePiece
  <2>1. UNCHANGED <<pending, accepted, written>> /\ writer = "ready"
    BY <1>4 DEF TakePiece
  <2>2. Len(queue) \in Nat
    BY <1>t DEF OutboxTyping
  <2>3. CASE queue' = queue /\ writer' # "writing"
    BY <2>1, <2>3, OthersHeld DEF InHand
  <2>4. CASE queue # <<>> /\ queue' = Tail(queue) /\ writer' = "writing"
    <3>1. Len(queue) = Len(queue') + 1 /\ Len(queue') \in Nat
      BY <1>t, <2>4, HeadTailProperties DEF OutboxTyping
    <3>2. InHand = 0 /\ InHand' = 1
      BY <2>1, <2>4 DEF InHand
    <3>3. Len(queue') + InHand' = Len(queue) + InHand
      BY <3>1, <3>2
    <3>. QED
      BY <2>1, <3>3, OthersHeld
  <2>. QED
    BY <1>4, <2>3, <2>4 DEF TakePiece
<1>5. CASE EndPlain \/ Close \/ Joined \/ WakeForNothing \/ GrowSlow \/ UNCHANGED outboxVars
  <2>1. /\ UNCHANGED <<queue, pending, accepted, written>>
        /\ (writer' = "writing") = (writer = "writing")
    BY <1>5 DEF EndPlain, Close, NotifyWriter, Joined, WakeForNothing, GrowSlow, outboxVars, outbox
  <2>2. InHand' = InHand
    BY <2>1 DEF InHand
  <2>. QED
    BY <2>1, <2>2, OthersHeld
<1>. QED
  BY <1>1, <1>2, <1>3, <1>4, <1>5 DEF OutboxNext, End

(* At first the head alone is held (EventStream::start).                     *)
LEMMA HeldInitially == OutboxInit => HInv
<1>. SUFFICES ASSUME OutboxInit PROVE HInv
  OBVIOUS
<1>1. PICK size \in Sizes :
        /\ queue = <<[kind |-> "head", number |-> 0, size |-> size]>>
        /\ accepted = <<[kind |-> "head", number |-> 0, size |-> size]>>
        /\ pending = size /\ writer = "ready" /\ written = <<>>
  BY DEF OutboxInit
<1>. DEFINE total == [i \in Nat |-> IF i = 0 THEN 0 ELSE size]
<1>2. size \in Nat \ {0}
  BY OutboxAssumption
<1>3. Len(accepted) = 1 /\ accepted[1].size = size /\ Len(written) = 0 /\ Len(queue) = 1
  BY <1>1
<1>4. /\ total \in [Nat -> Nat] /\ total[0] = 0 /\ total[1] = size
  BY <1>2
<1>. HIDE DEF total
<1>5. \A i \in 0 .. 1 : i = 0 \/ i = 1
  OBVIOUS
<1>6. Totals(total)
  <2>1. \A i \in 1 .. 1 : total[i] = total[i - 1] + accepted[i].size
    BY <1>2, <1>3, <1>4
  <2>2. \A i \in 0 .. 1 : total[i] + (1 - i) <= total[1]
    BY <1>2, <1>4, <1>5
  <2>. QED
    BY <1>1, <1>2, <1>3, <1>4, <2>1, <2>2 DEF Totals
<1>7. BytesHeld
  BY <1>1, <1>3 DEF BytesHeld
<1>. QED
  BY <1>1, <1>2, <1>6, <1>7, OutboxInvInitially DEF HInv, Counted

(* The bytes held for a slow client, those being written included, are never *)
(* more than the limit, but for one piece that found nothing waiting (send). *)
THEOREM BytesHeldHolds == OutboxSpec => []BytesHeld
<1>1. HInv => BytesHeld
  BY DEF HInv
<1>. QED
  BY <1>1, HeldInitially, HeldStep, PTL DEF OutboxSpec

(* The types of a stream: in particular, what is subtracted from the bytes   *)
(* that wait was added to them before (write_all, `pending').                *)
THEOREM OutboxTypeCorrect == OutboxSpec => []OutboxTypeOK
<1>1. OutboxInit /\ HInv => OutboxTypeOK
  BY DEF OutboxInit, HInv, OutboxInv, OutboxTyping, Counted, OutboxTypeOK
<1>2. OutboxTypeOK /\ HInv /\ HInv' /\ [OutboxNext]_outboxVars => OutboxTypeOK'
  <2>. SUFFICES ASSUME OutboxTypeOK, HInv, HInv', [OutboxNext]_outboxVars
                PROVE  /\ slow' \in BOOLEAN
                       /\ failed' \in {"no", "timed out", "error"}
                       /\ writing' \in Pieces \cup {NoPiece}
    BY DEF HInv, OutboxInv, OutboxTyping, Counted, OutboxTypeOK
  <2>1. CASE SendEvent \/ End
    BY <2>1 DEF SendEvent, End, EndChunked, EndPlain, outbox, Send, Accept, Refuse, OutboxTypeOK
  <2>2. CASE TakePiece
    <3>1. writer' = "writing" => writing' \in Pieces
      BY DEF HInv, OutboxInv, OutboxTyping
    <3>. QED
      BY <2>2, <3>1 DEF TakePiece, OutboxTypeOK
  <2>3. CASE WriteEnds
    BY <2>3 DEF WriteEnds, OutboxTypeOK
  <2>4. CASE Close \/ Joined \/ WakeForNothing \/ GrowSlow \/ UNCHANGED outboxVars
    BY <2>4
    DEF Close, Joined, WakeForNothing, GrowSlow, outboxVars, outbox, OutboxTypeOK
  <2>. QED
    BY <2>1, <2>2, <2>3, <2>4 DEF OutboxNext
<1>. QED
  BY <1>1, <1>2, HeldInitially, HeldStep, PTL DEF OutboxSpec
==============================================================================
