--------------------------- MODULE MCHelperThreads ---------------------------
(* The two helper threads of a process, each with the tasks it works for.    *)
(* They share nothing, so that each is looked at while the other stands      *)
(* still: `part' says which one runs.                                        *)
EXTENDS Outbox, Exporter

VARIABLE part

vars == <<outboxVars, exporterVars, part>>

Init ==
    /\ OutboxInit /\ ExporterInit
    /\ part \in {"outbox", "exporter"}
    /\ part = "exporter" => pending = CHOOSE size \in Sizes : TRUE

OfOutbox(A)   == part = "outbox" /\ A /\ UNCHANGED <<exporterVars, part>>
OfExporter(A) == part = "exporter" /\ A /\ UNCHANGED <<outboxVars, part>>

Next == OfOutbox(OutboxNext) \/ OfExporter(ExporterNext)

(* The writing thread runs, and a write ends: the socket has a write         *)
(* timeout.  The stream is finished or dropped in the end.  The exporter's   *)
(* thread runs, its delay passes, and the collector answers or the request   *)
(* times out; a caller is woken when its flush is done.                      *)
Spec ==
    /\ Init /\ [][Next]_vars
    /\ WF_vars(OfOutbox(TakePiece \/ WriteEnds))
    /\ WF_vars(OfOutbox(End \/ Close \/ Joined))
    /\ WF_vars(OfExporter(ThreadStep)) /\ WF_vars(OfExporter(DelayOver))
    /\ \A c \in Callers : WF_vars(OfExporter(Flushed(c)))
==============================================================================
