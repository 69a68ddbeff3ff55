------------------------------- MODULE Outbox --------------------------------
(* The bytes of an event stream for a client that may be slow or gone        *)
(* (grenat_serve outbox.rs), written by a thread of their own, and the       *)
(* stream that sends them (events.rs): a head, events, and over HTTP/1.1 a   *)
(* last chunk by which the client knows that the response is whole.          *)
(*                                                                           *)
(* One action is one critical section of the outbox's mutex, or the end of   *)
(* a write.  A piece is known by its place among those sent, and its bytes   *)
(* by their number.                                                          *)
EXTENDS Naturals, Sequences

CONSTANTS
    Sizes,        \* of the pieces, in bytes
    Pending,      \* Limits::pending: bytes that wait, at most
    MaxEvents     \* bound: events of the stream

ASSUME OutboxAssumption ==
    /\ Sizes \subseteq Nat \ {0} /\ Sizes # {}
    /\ Pending \in Nat
    /\ MaxEvents \in Nat

VARIABLES
    \* State of outbox.rs
    queue,        \* pieces that wait
    pending,      \* their bytes, and those being written
    slow,         \* whether the current write has lasted longer than its limit
    failed,       \* State::failed
    closed,       \* State::closed
    \* the writing thread
    writer,       \* where it is
    writing,      \* the piece it writes
    \* the stream
    stream,       \* where whoever sends is
    number,       \* of the pieces sent or refused so far
    \* what became of the pieces
    accepted,     \* those `send' took, in order
    refused,      \* whether one was refused
    written       \* what the client can read

outboxVars == <<queue, pending, slow, failed, closed, writer, writing, stream,
                number, accepted, refused, written>>
outbox == <<queue, pending, slow, failed, closed>>

Kinds  == {"head", "event", "last"}
Pieces == [kind : Kinds, number : Nat, size : Nat \ {0}]
NoPiece == [kind |-> "none", number |-> 0, size |-> 0]

(* Outbox::new and EventStream::start: the head is sent to an empty outbox.  *)
OutboxInit ==
    \E size \in Sizes :
       LET head == [kind |-> "head", number |-> 0, size |-> size] IN
       /\ queue = <<head>> /\ pending = size /\ accepted = <<head>>
       /\ slow = FALSE /\ failed = "no" /\ closed = FALSE
       /\ writer = "ready" /\ writing = NoPiece
       /\ stream = "open" /\ number = 1
       /\ refused = FALSE /\ written = <<>>

------------------------------------------------------------------------------
(* Outbox::send.                                                             *)

(* notify_one: only the writing thread waits on the condition variable.      *)
NotifyWriter == writer' = IF writer = "waiting" THEN "ready" ELSE writer

(* (A bug: only the bytes of the piece are held to the limit.)               *)
StalledAlone(piece) == slow \/ (pending > 0 /\ piece.size > Pending)

Stalled(piece) == slow \/ (pending > 0 /\ pending + piece.size > Pending)

Accept(piece) ==
    /\ failed = "no" /\ ~Stalled(piece)
    /\ queue' = Append(queue, piece)
    /\ pending' = pending + piece.size
    /\ accepted' = Append(accepted, piece)
    /\ NotifyWriter
    /\ UNCHANGED <<failed, refused>>

(* (A bug: a stalled client may catch up: the failure is not kept.)          *)
RefuseOnce(piece) ==
    /\ failed # "no" \/ Stalled(piece)
    /\ refused' = TRUE
    /\ UNCHANGED <<queue, pending, failed, accepted, writer>>

Refuse(piece) ==
    /\ failed # "no" \/ Stalled(piece)
    /\ failed' = IF failed = "no" THEN "timed out" ELSE failed
    /\ refused' = TRUE
    /\ UNCHANGED <<queue, pending, accepted, writer>>

Send(piece) ==
    /\ Accept(piece) \/ Refuse(piece)
    /\ number' = number + 1
    /\ UNCHANGED <<slow, closed, writing, written>>

(* EventStream::send.                                                        *)
SendEvent ==
    /\ stream = "open"
    /\ number <= MaxEvents
    /\ \E size \in Sizes : Send([kind |-> "event", number |-> number, size |-> size])
    /\ UNCHANGED stream

(* EventStream::end, by finish or by the drop of the stream, then close.     *)
EndChunked ==
    /\ \E size \in Sizes : Send([kind |-> "last", number |-> number, size |-> size])
    /\ stream' = "ending"

(* Over HTTP/1.0, nothing is sent: the end of the connection tells.          *)
EndPlain ==
    /\ stream' = "plain"
    /\ UNCHANGED <<outbox, writer, writing, number, accepted, refused, written>>

End == stream = "open" /\ (EndChunked \/ EndPlain)

(* Outbox::close; finish_and_wait then joins the thread, unless the last     *)
(* chunk was refused, as it is after a refused event.                        *)
MayWait == IF stream = "ending" /\ refused THEN {"closed"} ELSE {"closed", "joining"}

(* (A bug: the writing thread is not told.)                                  *)
CloseQuietly ==
    /\ stream \in {"ending", "plain"}
    /\ closed' = TRUE
    /\ stream' \in MayWait
    /\ UNCHANGED <<queue, pending, slow, failed, writer, writing, number, accepted,
                   refused, written>>

Close ==
    /\ stream \in {"ending", "plain"}
    /\ closed' = TRUE
    /\ NotifyWriter
    /\ stream' \in MayWait
    /\ UNCHANGED <<queue, pending, slow, failed, writing, number, accepted,
                   refused, written>>

(* Outbox::wait returns.                                                     *)
Joined ==
    /\ stream = "joining"
    /\ writer = "ended"
    /\ stream' = IF failed = "no" THEN "ok" ELSE "error"
    /\ UNCHANGED <<outbox, writer, writing, number, accepted, refused, written>>

------------------------------------------------------------------------------
(* The writing thread: write_all.                                            *)

(* Awake, it looks at what there is to do.                                   *)
TakePiece ==
    /\ writer = "ready"
    /\ IF failed # "no" THEN writer' = "ended" /\ UNCHANGED <<queue, writing>>
       ELSE IF queue # <<>>
       THEN writer' = "writing" /\ writing' = Head(queue) /\ queue' = Tail(queue)
       ELSE writer' = (IF closed THEN "ended" ELSE "waiting") /\ UNCHANGED <<queue, writing>>
    /\ UNCHANGED <<pending, slow, failed, closed, stream, number, accepted,
                   refused, written>>

(* A condition variable may wake its waiter for nothing.                     *)
WakeForNothing ==
    /\ writer = "waiting"
    /\ writer' = "ready"
    /\ UNCHANGED <<outbox, writing, stream, number, accepted, refused, written>>

(* The current write lasts.                                                  *)
GrowSlow ==
    /\ writer = "writing"
    /\ slow' = TRUE
    /\ UNCHANGED <<queue, pending, failed, closed, writer, writing, stream, number,
                   accepted, refused, written>>

(* Whole, or cut by an error: of the client, or of the socket's timeout.     *)
WriteEnds ==
    /\ writer = "writing"
    /\ \/ written' = Append(written, writing) /\ UNCHANGED failed
       \/ /\ written' = Append(written, NoPiece)
          /\ failed' = IF failed = "no" THEN "error" ELSE failed
    /\ slow' = FALSE
    /\ pending' = pending - writing.size
    /\ writing' = NoPiece
    /\ writer' = "ready"
    /\ UNCHANGED <<queue, closed, stream, number, accepted, refused>>

OutboxNext ==
    \/ SendEvent \/ End \/ Close \/ Joined
    \/ TakePiece \/ WakeForNothing \/ GrowSlow \/ WriteEnds

OutboxSpec == OutboxInit /\ [][OutboxNext]_outboxVars

------------------------------------------------------------------------------
(* Properties.                                                               *)

(* The variables have their types.                                           *)
OutboxTypeOK ==
    /\ queue \in Seq(Pieces) /\ pending \in Nat /\ slow \in BOOLEAN
    /\ failed \in {"no", "timed out", "error"} /\ closed \in BOOLEAN
    /\ writer \in {"ready", "waiting", "writing", "ended"}
    /\ writing \in Pieces \cup {NoPiece}
    /\ stream \in {"open", "ending", "plain", "closed", "joining", "ok", "error"}
    /\ number \in Nat
    /\ accepted \in Seq(Pieces) /\ refused \in BOOLEAN
    /\ written \in Seq(Pieces \cup {NoPiece})

(* What the client can read is the pieces accepted, in order, up to the one  *)
(* cut by an error, after which nothing is written (write_all).              *)
PiecesInOrder ==
    /\ Len(written) <= Len(accepted)
    /\ \A i \in 1 .. Len(written) :
          written[i] = accepted[i] \/ (written[i] = NoPiece /\ i = Len(written))

(* A client that read the last chunk read every event sent: none was refused *)
(* before it, though the client had been slow and was read again (send keeps *)
(* its failure).                                                             *)
WholeMeansAll ==
    \A i \in 1 .. Len(written) :
       written[i].kind = "last" => ~refused /\ Len(written) = number

(* Outbox::wait says ok only when every piece taken was written.             *)
WaitTells == stream = "ok" => ~refused /\ written = accepted

(* What the client can read, and what the program is told of it.             *)
StreamFaithful == PiecesInOrder /\ WholeMeansAll /\ WaitTells

(* The bytes held for a slow client, those being written included, are never *)
(* more than the limit, but for one piece that found nothing waiting.        *)
BytesHeld ==
    pending <= Pending \/ (Len(queue) + (IF writer = "writing" THEN 1 ELSE 0) <= 1)

(* Once the stream is closed, the writing thread ends, and whoever waits for *)
(* it goes on, whatever the client does.                                     *)
WriterEnds == closed ~> writer = "ended" /\ stream # "joining"

==============================================================================
