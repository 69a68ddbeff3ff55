-------------------------------- MODULE Server --------------------------------
(* The HTTP server: connections accepted while a descriptor is left for      *)
(* them, each served by a thread of its own or refused; the requests the     *)
(* program answers, whole or as a stream (grenat_serve server.rs,            *)
(* connection.rs, descriptors.rs; grenat_interp serve.rs).                   *)
(*                                                                           *)
(* A socket is shared by whoever reads it, answers it or writes to it, and   *)
(* closed by the last of them.  One action is one update of a counter, or    *)
(* what a thread does between two messages.                                  *)
EXTENDS Naturals, FiniteSets

CONSTANTS
    Sockets,      \* clients' ends: each connects again once it is closed
    NoSocket,
    Connections,  \* Settings::connections: served at once
    Budget        \* Descriptors::budget: held at once

ASSUME ServerAssumption ==
    /\ IsFiniteSet(Sockets) /\ NoSocket \notin Sockets
    /\ Connections \in Nat /\ Budget \in Nat \ {0}

VARIABLES
    \* the accepting thread
    acceptor,     \* where it is
    accepting,    \* the socket it has
    live,         \* connections served
    held,         \* Descriptors::held
    \* the sockets
    backlog,      \* those in the system's queue
    open,         \* those the process has a descriptor for
    closed,       \* those closed, and still counted
    \* of each
    connection,   \* where the thread that serves it is
    exchange,     \* where the program is with its request
    response,     \* what it was sent: Reply, or "gone"
    streamed,     \* those a stream writes to
    releasing     \* those of requests answered, and not dropped yet

counts     == <<live, held>>
ofAcceptor == <<acceptor, accepting>>
ofSockets  == <<backlog, open, closed>>
ofEach     == <<connection, exchange, response, streamed, releasing>>
serverVars == <<ofAcceptor, counts, ofSockets, ofEach>>

ServerInit ==
    /\ acceptor = "room" /\ accepting = NoSocket
    /\ live = 0 /\ held = 0
    /\ backlog = {} /\ open = {} /\ closed = {} /\ streamed = {} /\ releasing = {}
    /\ connection = [s \in Sockets |-> "none"]
    /\ exchange = [s \in Sockets |-> "none"]
    /\ response = [s \in Sockets |-> "none"]

(* A client connects, with a socket that nothing is left of.                 *)
Connect(s) ==
    /\ s \notin backlog \cup open \cup closed /\ connection[s] = "none"
    /\ backlog' = backlog \cup {s}
    /\ UNCHANGED <<ofAcceptor, counts, open, closed, ofEach>>

------------------------------------------------------------------------------
(* accept.                                                                   *)

(* Descriptors::wait_for_room.                                               *)
Room ==
    /\ acceptor = "room" /\ held < Budget
    /\ acceptor' = "accepting"
    /\ UNCHANGED <<accepting, counts, ofSockets, ofEach>>

Accept ==
    /\ acceptor = "accepting"
    /\ \E s \in backlog :
          /\ backlog' = backlog \ {s} /\ open' = open \cup {s}
          /\ accepting' = s
    /\ acceptor' = "holding"
    /\ UNCHANGED <<counts, closed, ofEach>>

AcceptFails ==
    /\ acceptor = "accepting"
    /\ acceptor' = "room"
    /\ UNCHANGED <<accepting, counts, ofSockets, ofEach>>

Hold ==
    /\ acceptor = "holding"
    /\ held' = held + 1
    /\ acceptor' = "placing"
    /\ UNCHANGED <<accepting, live, ofSockets, ofEach>>

NextConnection == acceptor' = "room" /\ accepting' = NoSocket

(* live.fetch_add: a slot is taken, though there may be none left.           *)
TakeSlot ==
    /\ acceptor = "placing"
    /\ live' = live + 1
    /\ acceptor' = IF live >= Connections THEN "refusing" ELSE "starting"
    /\ UNCHANGED <<accepting, held, ofSockets, ofEach>>

(* A thread is started for it, with its slot.                                *)
Place ==
    /\ acceptor = "starting"
    /\ connection' = [connection EXCEPT ![accepting] = "reading"]
    /\ NextConnection
    /\ UNCHANGED <<counts, ofSockets, exchange, response, streamed, releasing>>

(* ... or none could be, and its socket and its slot are dropped.            *)
SpawnFails ==
    /\ acceptor = "starting"
    /\ live' = live - 1
    /\ NextConnection
    /\ UNCHANGED <<held, ofSockets, ofEach>>

(* (A bug: a connection refused is counted as one that is served.)           *)
TurnAwayCounted ==
    /\ acceptor = "refusing"
    /\ NextConnection
    /\ UNCHANGED <<counts, ofSockets, ofEach>>

(* The slot is given back, and the client gets a 503 at once.                *)
TurnAway ==
    /\ acceptor = "refusing"
    /\ live' = live - 1
    /\ NextConnection
    /\ UNCHANGED <<held, ofSockets, ofEach>>

------------------------------------------------------------------------------
(* connection::serve.                                                        *)

Serves(s, step) == connection' = [connection EXCEPT ![s] = step]

(* A request is read, and handed to the program with the socket.             *)
ReadRequest(s) ==
    /\ connection[s] = "reading"
    /\ exchange' = [exchange EXCEPT ![s] = "queued"]
    /\ Serves(s, "answered")
    /\ UNCHANGED <<ofAcceptor, counts, ofSockets, response, streamed, releasing>>

(* The client closed, is too slow, or is refused.                            *)
ReadFails(s) ==
    /\ connection[s] = "reading"
    /\ Serves(s, "ending")
    /\ UNCHANGED <<ofAcceptor, counts, ofSockets, exchange, response, streamed, releasing>>

(* (A bug: whatever the program answers, the next request is read.)          *)
AnswerReadsOn(s) ==
    /\ connection[s] = "answered" /\ response[s] # "none"
    /\ Serves(s, IF response[s] = "whole" THEN "writing" ELSE "reading")
    /\ response' = [response EXCEPT ![s] = "none"]
    /\ UNCHANGED <<ofAcceptor, counts, ofSockets, exchange, streamed, releasing>>

(* What the program answers: a whole response, or the end of the connection. *)
AnswerOf(s) ==
    /\ connection[s] = "answered" /\ response[s] # "none"
    /\ Serves(s, IF response[s] = "whole" THEN "writing" ELSE "ending")
    /\ response' = [response EXCEPT ![s] = "none"]
    /\ UNCHANGED <<ofAcceptor, counts, ofSockets, exchange, streamed, releasing>>

WriteAnswer(s) ==
    /\ connection[s] = "writing"
    /\ \E step \in {"reading", "ending"} : Serves(s, step)
    /\ UNCHANGED <<ofAcceptor, counts, ofSockets, exchange, response, streamed, releasing>>

(* The thread ends: its socket, then its slot, are dropped.                  *)
DropSlot(s) ==
    /\ connection[s] = "ending"
    /\ live' = live - 1
    /\ Serves(s, "none")
    /\ UNCHANGED <<ofAcceptor, held, ofSockets, exchange, response, streamed, releasing>>

------------------------------------------------------------------------------
(* The program: serve_request.                                               *)

TakeRequest(s) ==
    /\ exchange[s] = "queued"
    /\ exchange' = [exchange EXCEPT ![s] = "running"]
    /\ UNCHANGED <<ofAcceptor, counts, ofSockets, connection, response, streamed, releasing>>

Answers(s, how) == response' = [response EXCEPT ![s] = how]

Respond(s) ==
    /\ exchange[s] = "running"
    /\ Answers(s, "whole")
    /\ exchange' = [exchange EXCEPT ![s] = "none"]
    /\ releasing' = releasing \cup {s}
    /\ UNCHANGED <<ofAcceptor, counts, ofSockets, connection, streamed>>

(* respond_events: the stream has the socket, and sends its head...          *)
StartStream(s) ==
    /\ exchange[s] = "running"
    /\ streamed' = streamed \cup {s}
    /\ exchange' = [exchange EXCEPT ![s] = "streaming"]
    /\ UNCHANGED <<ofAcceptor, counts, ofSockets, connection, response, releasing>>

(* ... then the connection's thread is told.                                 *)
RespondEvents(s) ==
    /\ exchange[s] = "streaming"
    /\ Answers(s, "streamed")
    /\ exchange' = [exchange EXCEPT ![s] = "none"]
    /\ UNCHANGED <<ofAcceptor, counts, ofSockets, connection, streamed, releasing>>

(* It is dropped unanswered: no stream could be started.                     *)
Unanswered(s) ==
    /\ exchange[s] = "running"
    /\ Answers(s, "gone")
    /\ exchange' = [exchange EXCEPT ![s] = "none"]
    /\ releasing' = releasing \cup {s}
    /\ UNCHANGED <<ofAcceptor, counts, ofSockets, connection, streamed>>

Released(s) ==
    /\ s \in releasing
    /\ releasing' = releasing \ {s}
    /\ UNCHANGED <<ofAcceptor, counts, ofSockets, connection, exchange, response, streamed>>

StreamEnds(s) ==
    /\ s \in streamed
    /\ streamed' = streamed \ {s}
    /\ UNCHANGED <<ofAcceptor, counts, ofSockets, connection, exchange, response, releasing>>

------------------------------------------------------------------------------
(* The last Arc of a Socket: it is closed, then no longer counted.           *)

Shared(s) ==
    \/ s = accepting \/ s \in streamed \cup releasing \/ exchange[s] \in {"queued", "running"}
    \/ connection[s] \in {"reading", "answered", "writing"}

CloseSocket(s) ==
    /\ s \in open /\ ~Shared(s)
    /\ open' = open \ {s} /\ closed' = closed \cup {s}
    /\ UNCHANGED <<ofAcceptor, counts, backlog, ofEach>>

Uncount(s) ==
    /\ s \in closed
    /\ closed' = closed \ {s}
    /\ held' = held - 1
    /\ UNCHANGED <<ofAcceptor, live, backlog, open, ofEach>>

ServerNext ==
    \/ Room \/ Accept \/ AcceptFails \/ Hold \/ TakeSlot \/ Place \/ SpawnFails \/ TurnAway
    \/ \E s \in Sockets :
          \/ Connect(s) \/ CloseSocket(s) \/ Uncount(s)
          \/ ReadRequest(s) \/ ReadFails(s) \/ AnswerOf(s) \/ WriteAnswer(s) \/ DropSlot(s)
          \/ TakeRequest(s) \/ Respond(s) \/ StartStream(s) \/ RespondEvents(s)
          \/ Unanswered(s) \/ Released(s) \/ StreamEnds(s)

ServerSpec == ServerInit /\ [][ServerNext]_serverVars

------------------------------------------------------------------------------
(* Properties.                                                               *)

(* The variables have their types.                                           *)
ServerTypeOK ==
    /\ acceptor \in {"room", "accepting", "holding", "placing", "starting", "refusing"}
    /\ accepting \in Sockets \cup {NoSocket}
    /\ live \in Nat /\ held \in Nat
    /\ backlog \subseteq Sockets /\ open \subseteq Sockets
    /\ closed \subseteq Sockets
    /\ streamed \subseteq Sockets /\ releasing \subseteq Sockets
    /\ connection \in [Sockets -> {"none", "reading", "answered", "writing", "ending"}]
    /\ exchange \in [Sockets -> {"none", "queued", "running", "streaming"}]
    /\ response \in [Sockets -> {"none", "whole", "streamed", "gone"}]

(* The counters are true: none is lost, on any way a connection takes, and   *)
(* with them no room to accept or to serve.  The process has never more      *)
(* descriptors of connections than its budget, those of streams among them.  *)
CountsTrue ==
    /\ live = Cardinality({s \in Sockets : connection[s] # "none"})
              + IF acceptor \in {"starting", "refusing"} THEN 1 ELSE 0
    /\ held = Cardinality(open \cup closed) - IF acceptor = "holding" THEN 1 ELSE 0
    /\ Cardinality(open) <= Budget

(* A socket has one writer: its thread writes no answer, and reads no other  *)
(* request, once a stream has it; a request has one answer, and the program  *)
(* one request of a connection.                                              *)
OneWriter ==
    \A s \in Sockets :
       /\ s \in streamed =>
             connection[s] \in {"answered", "ending", "none"} /\ exchange[s] \in {"none", "streaming"}
       /\ connection[s] = "answered" =>
             (exchange[s] = "none" <=> response[s] # "none")
==============================================================================
