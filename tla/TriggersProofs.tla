--------------------------- MODULE TriggersProofs ----------------------------
(* Theorems about what starts runs: the HTTP server (Server), the watch of   *)
(* folders (Folders) and the reading of mailboxes (Mailboxes).               *)
EXTENDS Server, Folders, Mailboxes, FiniteSetTheorems, WellFoundedInduction, TLAPS

------------------------------------------------------------------------------
(* Server: the counters are true and a socket has one writer.                *)

ServerTyping ==
    /\ acceptor \in {"room", "accepting", "holding", "placing", "starting", "refusing"}
    /\ accepting \in Sockets \cup {NoSocket}
    /\ backlog \subseteq Sockets /\ open \subseteq Sockets /\ closed \subseteq Sockets
    /\ streamed \subseteq Sockets /\ releasing \subseteq Sockets
    /\ connection \in [Sockets -> {"none", "reading", "answered", "writing", "ending"}]
    /\ exchange \in [Sockets -> {"none", "queued", "running", "streaming"}]
    /\ response \in [Sockets -> {"none", "whole", "streamed", "gone"}]

(* Nothing is left of a socket, but its place in a set.                      *)
Fresh(s) ==
    /\ connection[s] = "none" /\ exchange[s] = "none" /\ response[s] = "none"
    /\ s \notin streamed /\ s \notin releasing

(* The socket being accepted is new.                                         *)
AcceptingInv ==
    /\ acceptor \in {"room", "accepting"} => accepting = NoSocket
    /\ acceptor \notin {"room", "accepting"} => accepting \in open /\ Fresh(accepting)

(* Whoever has a socket has it open; it has one writer.                      *)
Sound(s) ==
    /\ s \in backlog => s \notin open /\ s \notin closed /\ Fresh(s)
    /\ s \in open => s \notin closed
    /\ s \notin open =>
          /\ connection[s] \in {"none", "ending"} /\ exchange[s] = "none"
          /\ s \notin streamed /\ s \notin releasing
    /\ exchange[s] # "none" \/ response[s] # "none" => connection[s] = "answered"
    /\ s \in streamed =>
          connection[s] \in {"answered", "ending", "none"} /\ exchange[s] \in {"none", "streaming"}
    /\ s \in streamed => response[s] # "whole"
    /\ connection[s] = "answered" => (exchange[s] = "none" <=> response[s] # "none")

(* A descriptor is counted as soon as its socket is accepted, or about to    *)
(* be; there is room for it.                                                 *)
Counted == open \cup closed
Serving == {s \in Sockets : connection[s] # "none"}
Late    == IF acceptor = "holding" THEN 1 ELSE 0
Taken   == IF acceptor \in {"starting", "refusing"} THEN 1 ELSE 0

CountInv ==
    /\ live = Cardinality(Serving) + Taken
    /\ held = Cardinality(Counted) - Late
    /\ held <= Budget
    /\ acceptor \in {"accepting", "holding"} => held < Budget

ServerInv == ServerTyping /\ AcceptingInv /\ (\A s \in Sockets : Sound(s)) /\ CountInv

(* The sets that are counted are finite.                                     *)
LEMMA Finite ==
  ASSUME ServerTyping
  PROVE  /\ IsFiniteSet(Counted) /\ IsFiniteSet(Serving) /\ IsFiniteSet(open)
         /\ Cardinality(Counted) \in Nat /\ Cardinality(Serving) \in Nat
<1>1. Counted \subseteq Sockets /\ Serving \subseteq Sockets /\ open \subseteq Sockets
  BY DEF Counted, Serving, ServerTyping
<1>2. IsFiniteSet(Counted) /\ IsFiniteSet(Serving) /\ IsFiniteSet(open)
  BY <1>1, FS_Subset, ServerAssumption
<1>. QED
  BY <1>2, FS_CardinalityType

LEMMA ServerInvInitially == ServerInit => ServerInv
<1>. SUFFICES ASSUME ServerInit PROVE ServerInv
  OBVIOUS
<1>1. ServerTyping
  BY DEF ServerInit, ServerTyping
<1>2. AcceptingInv /\ \A s \in Sockets : Sound(s)
  BY DEF ServerInit, AcceptingInv, Sound
<1>3. Serving = {} /\ Counted = {} /\ Late = 0 /\ Taken = 0
  BY DEF ServerInit, Serving, Counted, Late, Taken
<1>4. CountInv
  BY <1>3, FS_EmptySet, ServerAssumption DEF CountInv, ServerInit
<1>. QED
  BY <1>1, <1>2, <1>4 DEF ServerInv

(* What a client, a connection's thread and the program do to one socket.    *)
OfSocket(s) ==
    \/ Connect(s) \/ CloseSocket(s) \/ Uncount(s)
    \/ ReadRequest(s) \/ ReadFails(s) \/ AnswerOf(s) \/ WriteAnswer(s) \/ DropSlot(s)
    \/ TakeRequest(s) \/ Respond(s) \/ StartStream(s) \/ RespondEvents(s) \/ Unanswered(s)
    \/ Released(s) \/ StreamEnds(s)

LEMMA ServerTypeStep == ServerTyping /\ [ServerNext]_serverVars => ServerTyping'
<1>. USE DEF counts, ofAcceptor, ofSockets, ofEach, ServerTyping
<1>1. ASSUME ServerTyping, Room \/ Accept \/ AcceptFails \/ Hold \/ TakeSlot \/ Place \/ SpawnFails
                         \/ TurnAway
      PROVE  ServerTyping'
  BY <1>1 DEF Room, Accept, AcceptFails, Hold, TakeSlot, Place, SpawnFails, TurnAway, NextConnection
<1>2. ASSUME ServerTyping, NEW s \in Sockets, Connect(s) \/ CloseSocket(s) \/ Uncount(s)
                                        \/ Released(s) \/ StreamEnds(s)
      PROVE  ServerTyping'
  BY <1>2 DEF Connect, CloseSocket, Uncount, Released, StreamEnds
<1>3. ASSUME ServerTyping, NEW s \in Sockets,
             ReadRequest(s) \/ ReadFails(s) \/ AnswerOf(s) \/ WriteAnswer(s) \/ DropSlot(s)
      PROVE  ServerTyping'
  BY <1>3 DEF ReadRequest, ReadFails, AnswerOf, WriteAnswer, DropSlot, Serves
<1>4. ASSUME ServerTyping, NEW s \in Sockets,
             TakeRequest(s) \/ Respond(s) \/ StartStream(s) \/ RespondEvents(s) \/ Unanswered(s)
      PROVE  ServerTyping'
  BY <1>4 DEF TakeRequest, Respond, StartStream, RespondEvents, Unanswered, Answers
<1>5. ASSUME ServerTyping, UNCHANGED serverVars PROVE ServerTyping'
  BY <1>5 DEF serverVars
<1>. QED
  BY <1>1, <1>2, <1>3, <1>4, <1>5 DEF ServerNext

(* A step of one socket is none of the socket being accepted.                *)
LEMMA NotAccepting ==
  ASSUME ServerInv, NEW s \in Sockets, OfSocket(s), acceptor \notin {"room", "accepting"}
  PROVE  s # accepting
  BY ServerAssumption
  DEF ServerInv, AcceptingInv, Fresh, Sound, OfSocket, Connect, CloseSocket, Uncount, ReadRequest, ReadFails,
      AnswerOf, WriteAnswer, DropSlot, TakeRequest, Respond, StartStream, RespondEvents, Unanswered,
      Released, StreamEnds, Shared

------------------------------------------------------------------------------
(* Every step keeps the sockets sound.                                       *)
LEMMA SocketSound ==
  ASSUME ServerInv, NEW s \in Sockets, OfSocket(s)
  PROVE  AcceptingInv' /\ \A t \in Sockets : Sound(t)'
<1>. USE DEF counts, ofAcceptor, ofSockets, ofEach, ServerInv
<1>1. AcceptingInv'
  <2>1. UNCHANGED <<acceptor, accepting>>
    BY DEF OfSocket, Connect, CloseSocket, Uncount, ReadRequest, ReadFails, AnswerOf,
           WriteAnswer, DropSlot, TakeRequest, Respond, StartStream, RespondEvents, Unanswered,
           Released, StreamEnds
  <2>2. CASE acceptor \in {"room", "accepting"}
    BY <2>1, <2>2 DEF AcceptingInv
  <2>3. CASE acceptor \notin {"room", "accepting"}
    <3>1. s # accepting /\ accepting \in open /\ Fresh(accepting) /\ accepting \in Sockets
      BY <2>3, NotAccepting DEF AcceptingInv, ServerTyping
    <3>2. accepting \in open' /\ Fresh(accepting)'
      BY <2>1, <3>1
      DEF Fresh, ServerTyping, OfSocket, Connect, CloseSocket, Uncount, ReadRequest, ReadFails, AnswerOf,
          WriteAnswer, DropSlot, TakeRequest, Respond, StartStream, RespondEvents, Unanswered,
          Released, StreamEnds, Serves, Answers
    <3>. QED
      BY <2>1, <2>3, <3>2 DEF AcceptingInv, Fresh
  <2>. QED
    BY <2>2, <2>3 DEF ServerTyping
<1>2. ASSUME NEW t \in Sockets, t # s PROVE Sound(t)'
  <2>1. Sound(t)
    OBVIOUS
  <2>. QED
    BY <1>2, <2>1
    DEF Sound, Fresh, ServerTyping, OfSocket, Connect, CloseSocket, Uncount, ReadRequest, ReadFails,
        AnswerOf, WriteAnswer, DropSlot, TakeRequest, Respond, StartStream, RespondEvents, Unanswered,
        Released, StreamEnds, Serves, Answers
<1>3. Sound(s)'
  <2>. USE DEF Sound, ServerTyping
  <2>1. CASE Connect(s)
    BY <2>1 DEF Connect, Fresh
  <2>2. CASE CloseSocket(s) \/ Uncount(s)
    BY <2>2 DEF CloseSocket, Uncount, Shared, Fresh
  <2>3. CASE ReadRequest(s) \/ ReadFails(s)
    BY <2>3 DEF ReadRequest, ReadFails, Serves, Fresh
  <2>4. CASE AnswerOf(s) \/ WriteAnswer(s) \/ DropSlot(s)
    BY <2>4 DEF AnswerOf, WriteAnswer, DropSlot, Serves, Fresh
  <2>5. CASE TakeRequest(s) \/ Respond(s) \/ StartStream(s) \/ RespondEvents(s) \/ Unanswered(s)
    BY <2>5 DEF TakeRequest, Respond, StartStream, RespondEvents, Unanswered, Answers, Fresh
  <2>6. CASE Released(s) \/ StreamEnds(s)
    BY <2>6 DEF Released, StreamEnds, Fresh
  <2>. QED
    BY <2>1, <2>2, <2>3, <2>4, <2>5, <2>6 DEF OfSocket
<1>. QED
  BY <1>1, <1>2, <1>3

LEMMA AcceptorSound ==
  ASSUME ServerInv, Room \/ Accept \/ AcceptFails \/ Hold \/ TakeSlot \/ Place \/ SpawnFails \/ TurnAway
  PROVE  AcceptingInv' /\ \A t \in Sockets : Sound(t)'
<1>. USE DEF counts, ofAcceptor, ofSockets, ofEach, ServerInv
<1>1. CASE Room \/ AcceptFails \/ Hold \/ TakeSlot
  BY <1>1 DEF Room, AcceptFails, Hold, TakeSlot, AcceptingInv, Sound, Fresh
<1>2. CASE Accept
  BY <1>2 DEF Accept, AcceptingInv, Sound, Fresh, ServerTyping
<1>3. CASE Place
  BY <1>3 DEF Place, NextConnection, AcceptingInv, Sound, Fresh, ServerTyping
<1>4. CASE SpawnFails \/ TurnAway
  BY <1>4 DEF SpawnFails, TurnAway, NextConnection, AcceptingInv, Sound, Fresh
<1>. QED
  BY <1>1, <1>2, <1>3, <1>4

------------------------------------------------------------------------------
(* Every step keeps the counters true.                                       *)
LEMMA SocketCounted ==
  ASSUME ServerInv, NEW s \in Sockets, OfSocket(s)
  PROVE  CountInv'
<1>. USE DEF counts, ofAcceptor, ofSockets, ofEach
<1>0. ServerTyping /\ Sound(s) /\ CountInv
  BY DEF ServerInv
<1>1. UNCHANGED acceptor /\ Late' = Late /\ Late \in {0, 1} /\ Taken' = Taken /\ Taken \in {0, 1}
  BY DEF Late, Taken, OfSocket, Connect, CloseSocket, Uncount, ReadRequest, ReadFails, AnswerOf,
         WriteAnswer, DropSlot, TakeRequest, Respond, StartStream, RespondEvents, Unanswered,
         Released, StreamEnds
<1>2. Cardinality(Counted) \in Nat /\ Cardinality(Serving) \in Nat
  BY <1>0, Finite
<1>3. CASE Uncount(s)
  <2>1. Counted' = Counted \ {s} /\ s \in Counted /\ Serving' = Serving
    BY <1>3, <1>0 DEF Uncount, Counted, Serving, Sound
  <2>2. Cardinality(Counted') = Cardinality(Counted) - 1
    BY <1>0, <2>1, Finite, FS_RemoveElement
  <2>3. held' = held - 1 /\ live' = live
    BY <1>3 DEF Uncount
  <2>. QED
    BY <1>0, <1>1, <1>2, <2>1, <2>2, <2>3, ServerAssumption DEF CountInv
<1>4. CASE DropSlot(s)
  <2>1. Serving' = Serving \ {s} /\ s \in Serving /\ Counted' = Counted
    BY <1>4, <1>0 DEF DropSlot, Serves, Counted, Serving, ServerTyping
  <2>2. Cardinality(Serving') = Cardinality(Serving) - 1
    BY <1>0, <2>1, Finite, FS_RemoveElement
  <2>3. live' = live - 1 /\ held' = held
    BY <1>4 DEF DropSlot
  <2>. QED
    BY <1>0, <1>1, <1>2, <2>1, <2>2, <2>3 DEF CountInv
<1>5. ASSUME ~Uncount(s), ~DropSlot(s) PROVE CountInv'
  <2>1. UNCHANGED counts
    BY <1>5
    DEF OfSocket, Connect, CloseSocket, ReadRequest, ReadFails, AnswerOf,
        WriteAnswer, TakeRequest, Respond, StartStream, RespondEvents, Unanswered, Released, StreamEnds
  <2>2. Counted' = Counted
    BY <1>5, <1>0
    DEF Counted, OfSocket, Connect, CloseSocket, ReadRequest, ReadFails, AnswerOf,
        WriteAnswer, TakeRequest, Respond, StartStream, RespondEvents, Unanswered, Released, StreamEnds
  <2>3. Serving' = Serving
    <3>1. ASSUME NEW t \in Sockets PROVE connection'[t] = "none" <=> connection[t] = "none"
      BY <1>5, <1>0
      DEF ServerTyping, Serves, OfSocket, Connect, CloseSocket, ReadRequest, ReadFails,
          AnswerOf, WriteAnswer, TakeRequest, Respond, StartStream, RespondEvents, Unanswered, Released,
          StreamEnds
    <3>. QED
      BY <3>1 DEF Serving
  <2>. QED
    BY <1>0, <1>1, <2>1, <2>2, <2>3 DEF CountInv
<1>. QED
  BY <1>3, <1>4, <1>5

LEMMA AcceptorCounted ==
  ASSUME ServerInv, Room \/ Accept \/ AcceptFails \/ Hold \/ TakeSlot \/ Place \/ SpawnFails \/ TurnAway
  PROVE  CountInv'
<1>. USE DEF counts, ofAcceptor, ofSockets, ofEach
<1>0. ServerTyping /\ CountInv /\ AcceptingInv
  BY DEF ServerInv
<1>2. Cardinality(Counted) \in Nat /\ Cardinality(Serving) \in Nat
  BY <1>0, Finite
<1>3. CASE Accept
  <2>1. PICK s \in Sockets : s \in backlog /\ backlog' = backlog \ {s} /\ open' = open \cup {s}
    BY <1>0, <1>3 DEF Accept, ServerTyping
  <2>2. s \notin Counted /\ Counted' = Counted \cup {s}
    BY <1>3, <2>1 DEF Accept, Counted, ServerInv, Sound
  <2>3. Cardinality(Counted') = Cardinality(Counted) + 1
    BY <1>0, <2>2, Finite, FS_AddElement
  <2>4. Late = 0 /\ Late' = 1 /\ acceptor = "accepting" /\ Taken = 0 /\ Taken' = 0
    BY <1>3 DEF Accept, Late, Taken
  <2>5. UNCHANGED counts /\ Serving' = Serving
    BY <1>3 DEF Accept, Serving
  <2>. QED
    BY <1>0, <1>2, <2>3, <2>4, <2>5 DEF CountInv
<1>4. CASE Place
  <2>1. accepting \in Sockets /\ accepting \notin Serving
    BY <1>0, <1>4 DEF Place, AcceptingInv, ServerTyping, Fresh, Serving
  <2>2. Serving' = Serving \cup {accepting} /\ Counted' = Counted
    BY <1>0, <1>4, <2>1 DEF Place, NextConnection, Serving, Counted, ServerTyping
  <2>3. Cardinality(Serving') = Cardinality(Serving) + 1
    BY <1>0, <2>1, <2>2, Finite, FS_AddElement
  <2>4. UNCHANGED counts /\ acceptor' = "room" /\ Late = 0 /\ Late' = 0 /\ Taken = 1 /\ Taken' = 0
    BY <1>4 DEF Place, NextConnection, Late, Taken
  <2>. QED
    BY <1>0, <1>2, <2>2, <2>3, <2>4 DEF CountInv
<1>5. CASE Hold
  <2>1. held' = held + 1 /\ live' = live /\ Late = 1 /\ Late' = 0 /\ Taken = 0 /\ Taken' = 0
    BY <1>5 DEF Hold, Late, Taken
  <2>2. acceptor = "holding" /\ acceptor' = "placing"
    BY <1>5 DEF Hold
  <2>3. Counted' = Counted /\ Serving' = Serving
    BY <1>5 DEF Hold, Counted, Serving
  <2>4. held \in Int
    BY <1>0, <1>2, <2>1 DEF CountInv
  <2>. QED
    BY <1>0, <1>2, <2>1, <2>2, <2>3, <2>4, ServerAssumption DEF CountInv
<1>6. CASE Room \/ AcceptFails
  <2>1. /\ UNCHANGED counts /\ Late = 0 /\ Late' = 0 /\ Taken = 0 /\ Taken' = 0
        /\ acceptor' = "accepting" => held < Budget
        /\ acceptor' # "holding"
    BY <1>6 DEF Room, AcceptFails, Late, Taken
  <2>2. Counted' = Counted /\ Serving' = Serving
    BY <1>6 DEF Room, AcceptFails, Counted, Serving
  <2>. QED
    BY <1>0, <2>1, <2>2 DEF CountInv
<1>7. CASE TakeSlot
  <2>1. /\ live' = live + 1 /\ held' = held /\ Late = 0 /\ Late' = 0 /\ Taken = 0 /\ Taken' = 1
        /\ acceptor' \notin {"accepting", "holding"}
    BY <1>7 DEF TakeSlot, Late, Taken
  <2>2. Counted' = Counted /\ Serving' = Serving
    BY <1>7 DEF TakeSlot, Counted, Serving
  <2>. QED
    BY <1>0, <1>2, <2>1, <2>2 DEF CountInv
<1>8. CASE SpawnFails \/ TurnAway
  <2>1. /\ live' = live - 1 /\ held' = held /\ Late = 0 /\ Late' = 0 /\ Taken = 1 /\ Taken' = 0
        /\ acceptor' = "room"
    BY <1>8 DEF SpawnFails, TurnAway, NextConnection, Late, Taken
  <2>2. Counted' = Counted /\ Serving' = Serving
    BY <1>8 DEF SpawnFails, TurnAway, Counted, Serving
  <2>. QED
    BY <1>0, <1>2, <2>1, <2>2 DEF CountInv
<1>. QED
  BY <1>3, <1>4, <1>5, <1>6, <1>7, <1>8

LEMMA ServerInvStep == ServerInv /\ [ServerNext]_serverVars => ServerInv'
<1>. SUFFICES ASSUME ServerInv, [ServerNext]_serverVars PROVE ServerInv'
  OBVIOUS
<1>1. ServerTyping'
  BY ServerTypeStep DEF ServerInv
<1>2. ASSUME NEW s \in Sockets, OfSocket(s) PROVE ServerInv'
  BY <1>1, <1>2, SocketSound, SocketCounted DEF ServerInv
<1>3. CASE Room \/ Accept \/ AcceptFails \/ Hold \/ TakeSlot \/ Place \/ SpawnFails \/ TurnAway
  BY <1>1, <1>3, AcceptorSound, AcceptorCounted DEF ServerInv
<1>4. CASE UNCHANGED serverVars
  BY <1>4
  DEF ServerInv, ServerTyping, AcceptingInv, Fresh, Sound, CountInv, Counted, Serving, Late, Taken,
      serverVars, counts, ofAcceptor, ofSockets, ofEach
<1>. QED
  BY <1>2, <1>3, <1>4 DEF ServerNext, OfSocket

LEMMA ServerInductive == ServerSpec => []ServerInv
  BY ServerInvInitially, ServerInvStep, PTL DEF ServerSpec

------------------------------------------------------------------------------
(* The counters are true and within the budget, for any number of clients,   *)
(* of connections and of descriptors (Slot, Held, Descriptors).              *)
THEOREM CountsTrueHolds == ServerSpec => []CountsTrue
<1>1. ASSUME ServerInv PROVE CountsTrue
  <2>1. ServerTyping /\ CountInv /\ Cardinality(Counted) \in Nat
    BY <1>1, Finite DEF ServerInv
  <2>2. Cardinality(open) \in Nat /\ Cardinality(open) <= Cardinality(Counted)
    BY <2>1, Finite, FS_Subset, FS_CardinalityType DEF Counted
  <2>3. Cardinality(Counted) <= Budget
    BY <2>1, ServerAssumption DEF CountInv, Late
  <2>4. Cardinality(open) <= Budget
    BY <2>1, <2>2, <2>3, ServerAssumption
  <2>. QED
    BY <2>1, <2>4 DEF CountsTrue, CountInv, Counted, Serving, Late, Taken
<1>. QED
  BY <1>1, ServerInductive, PTL

(* A socket has one writer and a request one answer, whenever streams start, *)
(* requests are dropped and connections end (serve, respond_events).         *)
THEOREM OneWriterHolds == ServerSpec => []OneWriter
<1>1. ServerInv => OneWriter
  BY DEF ServerInv, Sound, OneWriter
<1>. QED
  BY <1>1, ServerInductive, PTL

(* The variables have their types.                                           *)
THEOREM ServerTypeCorrect == ServerSpec => []ServerTypeOK
<1>1. ASSUME ServerInv PROVE ServerTypeOK
  <2>1. ServerTyping /\ CountInv /\ Cardinality(Counted) \in Nat /\ Cardinality(Serving) \in Nat
    BY <1>1, Finite DEF ServerInv
  <2>2. acceptor = "holding" => Cardinality(Counted) # 0
    BY <1>1, <2>1, Finite, FS_EmptySet DEF ServerInv, AcceptingInv, Counted
  <2>3. live \in Nat /\ held \in Nat
    BY <2>1, <2>2 DEF CountInv, Late, Taken
  <2>. QED
    BY <2>1, <2>3 DEF ServerTyping, ServerTypeOK
<1>. QED
  BY <1>1, ServerInductive, PTL

------------------------------------------------------------------------------
(* Folders: each content is handed over once, and known once handed over.    *)

(* What runs was read at a path, and was new there.                          *)
RunRead ==
    pc = "run" =>
       /\ run.path \in Paths /\ run.content \in Readable
       /\ run.content # Partial => entry[run.path].digest # run.content

(* What is recorded next is concluded.                                       *)
Concludes ==
    pc = "record" => run.path \in Paths /\ <<run.path, run.content>> \in concluded

(* The watch knows nothing before its first scan; from then on, of a file    *)
(* whose last run it can know of, that content, or that it was given up.     *)
LastKnown ==
    /\ ~started => entry = [p \in Paths |-> NoEntry] /\ pc = "scan"
    /\ started => \A p \in Paths : last[p] # None => entry[p].digest \in {last[p], Unread}

Watched ==
    /\ FoldersTypeOK
    /\ RunRead
    /\ KnownWasHanded /\ Concludes
    /\ LastKnown

------------------------------------------------------------------------------
(* The four marks are of four kinds, and of no content.                      *)
LEMMA Marks ==
  /\ None # Partial /\ None # Link /\ None # Unread
  /\ Partial # Link /\ Partial # Unread /\ Link # Unread
  /\ None \notin Readable /\ Unread \notin Readable /\ Link \notin Readable
<1>1. ASSUME NEW a, NEW b, NEW c PROVE Cardinality({a, b, c}) \in {1, 2, 3}
  <2>1. IsFiniteSet({a}) /\ Cardinality({a}) = 1
    BY FS_Singleton
  <2>2. /\ IsFiniteSet({a} \cup {b})
        /\ Cardinality({a} \cup {b}) = IF b \in {a} THEN 1 ELSE 1 + 1
    BY <2>1, FS_AddElement
  <2>3. Cardinality({a} \cup {b}) \in {1, 2}
    BY <2>2
  <2>5. Cardinality(({a} \cup {b}) \cup {c})
          = IF c \in {a} \cup {b} THEN Cardinality({a} \cup {b})
            ELSE Cardinality({a} \cup {b}) + 1
    BY <2>2, FS_AddElement
  <2>6. Cardinality(({a} \cup {b}) \cup {c}) \in {1, 2, 3}
    BY <2>3, <2>5
  <2>4. ({a} \cup {b}) \cup {c} = {a, b, c}
    OBVIOUS
  <2>. QED
    BY <2>4, <2>6
<1>2. 4 \notin {1, 2, 3}
  OBVIOUS
<1>3. \A a, b, c : {None, Partial, Link, Unread} # {a, b, c}
  <2>. SUFFICES ASSUME NEW a, NEW b, NEW c, {None, Partial, Link, Unread} = {a, b, c}
                PROVE  FALSE
    OBVIOUS
  <2>1. Cardinality({a, b, c}) \in {1, 2, 3}
    BY <1>1
  <2>2. Cardinality({a, b, c}) = 4
    BY FoldersAssumption
  <2>. QED
    BY <1>2, <2>1, <2>2
<1>4. None # Partial
  <2>. SUFFICES ASSUME None = Partial PROVE FALSE
    OBVIOUS
  <2>1. {None, Partial, Link, Unread} = {None, Link, Unread}
    OBVIOUS
  <2>. QED
    BY <1>3, <2>1
<1>5. None # Link
  <2>. SUFFICES ASSUME None = Link PROVE FALSE
    OBVIOUS
  <2>1. {None, Partial, Link, Unread} = {None, Partial, Unread}
    OBVIOUS
  <2>. QED
    BY <1>3, <2>1
<1>6. None # Unread
  <2>. SUFFICES ASSUME None = Unread PROVE FALSE
    OBVIOUS
  <2>1. {None, Partial, Link, Unread} = {None, Partial, Link}
    OBVIOUS
  <2>. QED
    BY <1>3, <2>1
<1>7. Partial # Link
  <2>. SUFFICES ASSUME Partial = Link PROVE FALSE
    OBVIOUS
  <2>1. {None, Partial, Link, Unread} = {None, Partial, Unread}
    OBVIOUS
  <2>. QED
    BY <1>3, <2>1
<1>8. Partial # Unread
  <2>. SUFFICES ASSUME Partial = Unread PROVE FALSE
    OBVIOUS
  <2>1. {None, Partial, Link, Unread} = {None, Partial, Link}
    OBVIOUS
  <2>. QED
    BY <1>3, <2>1
<1>9. Link # Unread
  <2>. SUFFICES ASSUME Link = Unread PROVE FALSE
    OBVIOUS
  <2>1. {None, Partial, Link, Unread} = {None, Partial, Link}
    OBVIOUS
  <2>. QED
    BY <1>3, <2>1
<1>. QED
  BY <1>4, <1>5, <1>6, <1>7, <1>8, <1>9, FoldersAssumption DEF Readable

LEMMA NoEntryIs == NoEntry \in Entries /\ NoEntry.stamp = 0 /\ NoEntry.digest = None
BY DEF NoEntry, Entries, Digests, Never

(* Nothing is known at the start, of the program or of the watch.            *)
LEMMA WatchInitially == FoldersInit => Watched
<1>. SUFFICES ASSUME FoldersInit PROVE Watched
  OBVIOUS
<1>1. FoldersTypeOK
  BY NoEntryIs DEF FoldersInit, FoldersTypeOK, Readable, Digests
<1>3. KnownWasHanded
  BY NoEntryIs DEF FoldersInit, KnownWasHanded
<1>. QED
  BY <1>1, <1>3 DEF FoldersInit, Watched, RunRead, Concludes, LastKnown

(* A file that changes has a new stamp; the task is not disturbed.           *)
LEMMA FileChanges ==
  ASSUME Watched, NEW p \in Paths, NEW what \in Readable \cup {None, Link},
         Becomes(p, what), changes' \in [Paths -> Nat]
  PROVE  Watched'
<1>0. /\ FoldersTypeOK /\ RunRead
      /\ KnownWasHanded /\ Concludes /\ LastKnown
  BY DEF Watched
<1>u. UNCHANGED <<record, existing, pc, started, entry, ready, run, crashes,
                  last, concluded>>
  BY DEF Becomes
<1>1. /\ disk' \in [Paths -> Readable \cup {None, Link}] /\ stamp' \in [Paths -> Nat]
  BY <1>0 DEF FoldersTypeOK, Becomes
<1>4. FoldersTypeOK'
  BY <1>0, <1>u, <1>1 DEF FoldersTypeOK
<1>7. RunRead'
  BY <1>0, <1>u DEF RunRead
<1>8. KnownWasHanded' /\ Concludes' /\ LastKnown'
  BY <1>0, <1>u DEF KnownWasHanded, Concludes, LastKnown
<1>. QED
  BY <1>4, <1>7, <1>8 DEF Watched

(* A scan sees what is there, and keeps what it knew of each file that still *)
(* is (Tracker::observe).                                                    *)
LEMMA Scanned ==
  ASSUME Watched, NEW waited \in SUBSET Paths, Scan(waited)
  PROVE  Watched'
<1>0. /\ FoldersTypeOK /\ RunRead
      /\ KnownWasHanded /\ Concludes /\ LastKnown
  BY DEF Watched
<1>1. PICK remembered \in {record, [p \in Paths |-> None]} :
        \E kept \in SUBSET Gone(remembered) :
           /\ entry' = [p \in Paths |-> Observed(p, remembered)]
           /\ record' = [p \in Paths |-> IF p \in Gone(remembered) \ kept
                                         THEN None ELSE record[p]]
           /\ last' = [p \in Paths |-> IF p \notin There THEN None
                                       ELSE IF started THEN last[p]
                                       ELSE IF remembered[p] = last[p] THEN last[p]
                                       ELSE None]
  BY DEF Scan
<1>u. /\ UNCHANGED <<disk, stamp, changes, existing, run, crashes, concluded>>
      /\ started' = TRUE /\ ready' = Ready(waited) /\ pc = "scan"
      /\ pc' \in {"scan", "open"}
  BY DEF Scan, folder
<1>2. /\ record' \in [Paths -> Digests]
      /\ \A p \in Paths : record'[p] = None \/ record'[p] = record[p]
  BY <1>0, <1>1 DEF FoldersTypeOK, Digests
<1>3. /\ last' \in [Paths -> Digests]
      /\ \A p \in Paths : \/ last'[p] = None
                          \/ /\ p \in There /\ last'[p] = last[p]
                             /\ ~started => remembered[p] = last[p]
  BY <1>0, <1>1 DEF FoldersTypeOK, Digests
<1>4. \A p \in Paths : remembered[p] = None \/ remembered[p] = record[p]
  BY <1>1
<1>5. ASSUME NEW p \in Paths
      PROVE  /\ entry'[p] \in Entries
             /\ entry'[p].stamp \in {0, stamp[p], entry[p].stamp}
             /\ entry'[p].digest \in {None, remembered[p], entry[p].digest}
             /\ entry[p].stamp = stamp[p] => entry'[p].stamp \in {0, stamp[p]}
             /\ p \in There /\ ~started => entry'[p].digest = remembered[p]
             /\ p \in There /\ started /\ entry[p] # NoEntry =>
                   entry'[p].digest = entry[p].digest
  <2>1. entry'[p] = Observed(p, remembered)
    BY <1>1
  <2>2. entry[p] \in Entries /\ stamp[p] \in Nat
    BY <1>0 DEF FoldersTypeOK
  <2>3. remembered[p] \in Digests
    BY <1>0, <1>4 DEF FoldersTypeOK, Digests
  <2>4. /\ Seen(p, remembered) \in Entries /\ Seen(p, remembered).stamp = stamp[p]
        /\ Seen(p, remembered).digest = IF started THEN None ELSE remembered[p]
    BY <2>2, <2>3 DEF Seen, Entries, Digests, Never
  <2>5. ~started => entry[p] = NoEntry
    BY <1>0 DEF LastKnown
  <2>6. CASE p \notin There
    BY <2>1, <2>6, NoEntryIs DEF Observed
  <2>7. CASE p \in There /\ entry[p] = NoEntry
    BY <2>1, <2>4, <2>7 DEF Observed
  <2>8. CASE p \in There /\ entry[p] # NoEntry
    <3>1. entry'[p] = IF entry[p].stamp # stamp[p]
                      THEN [entry[p] EXCEPT !.stamp = stamp[p], !.failures = 0]
                      ELSE entry[p]
      BY <2>1, <2>8 DEF Observed
    <3>2. CASE entry[p].stamp = stamp[p]
      BY <2>2, <2>5, <2>8, <3>1, <3>2
    <3>3. CASE entry[p].stamp # stamp[p]
      <4>. DEFINE e == [entry[p] EXCEPT !.stamp = stamp[p], !.failures = 0]
      <4>1. entry'[p] = e
        BY <3>1, <3>3
      <4>2. e \in Entries
        BY <2>2 DEF Entries
      <4>3. e.stamp = stamp[p] /\ e.digest = entry[p].digest
        BY <2>2 DEF Entries
      <4>. HIDE DEF e
      <4>. QED
        BY <2>5, <2>8, <3>3, <4>1, <4>2, <4>3
    <3>. QED
      BY <3>2, <3>3
  <2>. QED
    BY <2>6, <2>7, <2>8
<1>6. FoldersTypeOK'
  <2>1. entry' \in [Paths -> Entries]
    BY <1>1, <1>5
  <2>2. ready' \subseteq Paths
    BY <1>u DEF Ready, There
  <2>. QED
    BY <1>0, <1>u, <1>2, <1>3, <2>1, <2>2 DEF FoldersTypeOK
<1>9. RunRead' /\ Concludes'
  BY <1>u DEF RunRead, Concludes
<1>10. KnownWasHanded'
  <2>. SUFFICES ASSUME NEW p \in Paths
                PROVE  /\ record'[p] # None => <<p, record'[p]>> \in concluded
                       /\ entry'[p].digest # None => <<p, entry'[p].digest>> \in concluded
    BY <1>u DEF KnownWasHanded
  <2>1. /\ record[p] # None => <<p, record[p]>> \in concluded
        /\ entry[p].digest # None => <<p, entry[p].digest>> \in concluded
    BY <1>0 DEF KnownWasHanded
  <2>2. entry'[p].digest \in {None, remembered[p], entry[p].digest}
    BY <1>5
  <2>. QED
    BY <1>2, <1>4, <2>1, <2>2
<1>11. LastKnown'
  <2>. SUFFICES ASSUME NEW p \in Paths, last'[p] # None
                PROVE  entry'[p].digest \in {last'[p], Unread}
    BY <1>u DEF LastKnown
  <2>1. p \in There /\ last'[p] = last[p] /\ (~started => remembered[p] = last[p])
    BY <1>3
  <2>2. CASE ~started
    BY <1>5, <2>1, <2>2
  <2>3. CASE started
    <3>1. entry[p].digest \in {last[p], Unread}
      BY <1>0, <2>1, <2>3 DEF LastKnown
    <3>2. entry[p] # NoEntry
      BY <2>1, <3>1, NoEntryIs, Marks
    <3>. QED
      BY <1>5, <2>1, <2>3, <3>1, <3>2
  <2>. QED
    BY <2>2, <2>3
<1>. QED
  BY <1>6, <1>9, <1>10, <1>11 DEF Watched

(* Steps that change, of what is known of one file, neither stamp nor        *)
(* digest.                                                                   *)
LEMMA EntryKept ==
  ASSUME Watched, NEW p \in Paths,
         UNCHANGED <<disk, stamp, changes, record, existing, started, crashes, last, concluded>>,
         NEW e \in Entries, entry' = [entry EXCEPT ![p] = e],
         e.stamp = entry[p].stamp, e.digest = entry[p].digest,
         pc # "scan",
         ready' \subseteq ready, pc' \in {"scan", "open"}, run' = NoRun
  PROVE  Watched'
<1>0. /\ FoldersTypeOK /\ RunRead
      /\ KnownWasHanded /\ Concludes /\ LastKnown
  BY DEF Watched
<1>1. /\ entry' \in [Paths -> Entries]
      /\ \A q \in Paths : entry'[q].stamp = entry[q].stamp /\ entry'[q].digest = entry[q].digest
  BY <1>0 DEF FoldersTypeOK
<1>2. FoldersTypeOK'
  BY <1>0, <1>1 DEF FoldersTypeOK
<1>3. KnownWasHanded'
  BY <1>0, <1>1 DEF KnownWasHanded
<1>5. RunRead' /\ Concludes'
  BY DEF RunRead, Concludes
<1>6. LastKnown'
  BY <1>0, <1>1 DEF LastKnown
<1>. QED
  BY <1>2, <1>3, <1>5, <1>6 DEF Watched

(* Its state counts as looked at, with another digest or not (passed_over,   *)
(* handled).                                                                 *)
LEMMA CountsAsHandled ==
  ASSUME Watched, NEW p \in Paths, NEW digest \in Readable \cup {Unread},
         Handled(p, digest), pc # "scan",
         UNCHANGED <<disk, stamp, changes, record, existing, started, crashes>>
  PROVE  Watched'
<1>0. /\ FoldersTypeOK /\ RunRead
      /\ KnownWasHanded /\ Concludes /\ LastKnown
  BY DEF Watched
<1>1. entry[p] \in Entries
  BY <1>0 DEF FoldersTypeOK
<1>2. PICK e : e = [entry[p] EXCEPT !.checked = AsScanned(p), !.digest = digest, !.failures = 0]
  OBVIOUS
<1>3. e \in Entries /\ e.stamp = entry[p].stamp /\ e.digest = digest
  BY <1>1, <1>2 DEF Entries, AsScanned, Digests
<1>4. entry' = [entry EXCEPT ![p] = e]
  BY <1>0, <1>2 DEF Handled, FoldersTypeOK
<1>5. /\ entry' \in [Paths -> Entries] /\ entry'[p] = e
      /\ \A q \in Paths : q # p => entry'[q] = entry[q]
      /\ \A q \in Paths : entry'[q].stamp = entry[q].stamp
  BY <1>0, <1>3, <1>4 DEF FoldersTypeOK
<1>6. /\ pc' = "record" /\ run' = [path |-> p, content |-> digest]
      /\ concluded' = concluded \cup {<<p, digest>>} /\ ready' = ready
      /\ last' = IF digest = Unread THEN last ELSE [last EXCEPT ![p] = digest]
  BY DEF Handled
<1>7. /\ last' \in [Paths -> Digests]
      /\ \A q \in Paths : q # p => last'[q] = last[q]
      /\ digest # Unread => last'[p] = digest
  BY <1>0, <1>6 DEF FoldersTypeOK, Digests
<1>8. FoldersTypeOK'
  <2>1. run' \in [path : Paths, content : Digests] /\ <<p, digest>> \in Paths \X Digests
    BY <1>6 DEF Digests
  <2>. QED
    BY <1>0, <1>5, <1>6, <1>7, <2>1 DEF FoldersTypeOK
<1>11. RunRead' /\ Concludes'
  BY <1>6 DEF RunRead, Concludes
<1>12. KnownWasHanded'
  BY <1>0, <1>3, <1>5, <1>6 DEF KnownWasHanded
<1>13. LastKnown'
  <2>1. started /\ started'
    BY <1>0 DEF LastKnown, FoldersTypeOK
  <2>. SUFFICES ASSUME NEW q \in Paths, last'[q] # None
                PROVE  entry'[q].digest \in {last'[q], Unread}
    BY <2>1 DEF LastKnown
  <2>2. CASE q = p
    BY <1>3, <1>5, <1>7, <2>2
  <2>3. CASE q # p
    BY <1>0, <1>5, <1>7, <2>1, <2>3 DEF LastKnown
  <2>. QED
    BY <2>2, <2>3
<1>. QED
  BY <1>8, <1>11, <1>12, <1>13 DEF Watched

(* A failed run is counted, or concludes (failed_run).                       *)
LEMMA RunFails ==
  ASSUME Watched, NEW p \in Paths, NEW digest \in Readable \cup {Unread},
         FailedRun(p, digest), pc # "scan",
         UNCHANGED <<disk, stamp, changes, record, existing, started, crashes>>
  PROVE  Watched'
<1>1. CASE Handled(p, digest)
  BY <1>1, CountsAsHandled
<1>2. CASE entry' = [entry EXCEPT ![p].failures = @ + 1] /\ Onward(p)
           /\ UNCHANGED <<last, concluded>>
  <2>1. entry \in [Paths -> Entries] /\ entry[p] \in Entries
    BY DEF Watched, FoldersTypeOK
  <2>2. PICK e : e = [entry[p] EXCEPT !.failures = @ + 1]
    OBVIOUS
  <2>3. e \in Entries /\ e.stamp = entry[p].stamp /\ e.digest = entry[p].digest
    BY <2>1, <2>2 DEF Entries
  <2>4. entry' = [entry EXCEPT ![p] = e]
    BY <1>2, <2>1, <2>2
  <2>5. ready' \subseteq ready /\ pc' \in {"scan", "open"} /\ run' = NoRun
    BY <1>2 DEF Onward
  <2>. QED
    BY <1>2, <2>3, <2>4, <2>5, EntryKept
<1>. QED
  BY <1>1, <1>2 DEF FailedRun

(* A ready file is opened, and read (hand_over).                             *)
LEMMA Opened ==
  ASSUME Watched, NEW p \in Paths, Open(p)
  PROVE  Watched'
<1>0. /\ FoldersTypeOK /\ RunRead
      /\ KnownWasHanded /\ Concludes /\ LastKnown
  BY DEF Watched
<1>u. /\ UNCHANGED <<disk, stamp, changes, record, existing, started, crashes>>
      /\ pc = "open" /\ p \in ready
  BY DEF Open, Turn, folder
<1>1. CASE LookedAt(p)
  <2>1. entry \in [Paths -> Entries] /\ entry[p] \in Entries
    BY <1>0 DEF FoldersTypeOK
  <2>2. PICK e : e = [entry[p] EXCEPT !.checked = entry[p].stamp]
    OBVIOUS
  <2>3. e \in Entries /\ e.stamp = entry[p].stamp /\ e.digest = entry[p].digest
    BY <2>1, <2>2 DEF Entries
  <2>4. entry' = [entry EXCEPT ![p] = e]
    BY <1>1, <2>1, <2>2 DEF LookedAt
  <2>5. ready' \subseteq ready /\ pc' \in {"scan", "open"} /\ run' = NoRun
    BY <1>1 DEF Onward, LookedAt
  <2>6. UNCHANGED <<last, concluded>>
    BY <1>1 DEF LookedAt
  <2>. QED
    BY <1>u, <2>3, <2>4, <2>5, <2>6, EntryKept
<1>2. CASE disk[p] \in Readable /\ IsNew(p) /\ HandFile(p)
  <2>1. /\ run' = [path |-> p, content |-> disk[p]] /\ pc' = "run"
        /\ UNCHANGED <<entry, ready, last, concluded>>
    BY <1>2 DEF HandFile
  <2>2. run'.path = p /\ run'.content = disk[p] /\ run' \in [path : Paths, content : Digests]
    BY <1>2, <2>1 DEF Digests
  <2>3. FoldersTypeOK'
    BY <1>0, <1>u, <2>1, <2>2 DEF FoldersTypeOK
  <2>4. RunRead'
    BY <1>0, <1>2, <1>u, <2>1, <2>2 DEF RunRead, IsNew
  <2>5. KnownWasHanded' /\ Concludes'
    BY <1>0, <1>u, <2>1 DEF KnownWasHanded, Concludes
  <2>6. LastKnown'
    BY <1>0, <1>u, <2>1 DEF LastKnown
  <2>. QED
    BY <2>3, <2>4, <2>5, <2>6 DEF Watched
<1>3. CASE FailedRun(p, Unread)
  BY <1>u, <1>3, RunFails
<1>. QED
  BY <1>1, <1>2, <1>3 DEF Open

(* The record of a content concluded is written, or not (files::record).     *)
LEMMA Recorded ==
  ASSUME Watched, Record
  PROVE  Watched'
<1>0. /\ FoldersTypeOK /\ RunRead
      /\ KnownWasHanded /\ Concludes /\ LastKnown
  BY DEF Watched
<1>u. /\ UNCHANGED <<disk, stamp, changes, existing, started, entry, crashes, last, concluded>>
      /\ pc = "record" /\ ready' \subseteq ready /\ pc' \in {"scan", "open"} /\ run' = NoRun
  BY DEF Record, folder, Onward
<1>1. PICK digest \in {run.content, None, record[run.path]} :
         record' = [record EXCEPT ![run.path] = digest]
  BY DEF Record
<1>2. run.path \in Paths /\ <<run.path, run.content>> \in concluded
  BY <1>0, <1>u DEF Concludes
<1>3. run.content \in Digests
  BY <1>0, <1>2 DEF FoldersTypeOK
<1>4. /\ record' \in [Paths -> Digests] /\ record'[run.path] = digest
      /\ \A q \in Paths : q # run.path => record'[q] = record[q]
  BY <1>0, <1>1, <1>2, <1>3 DEF FoldersTypeOK, Digests
<1>5. FoldersTypeOK'
  BY <1>0, <1>u, <1>4 DEF FoldersTypeOK
<1>6. KnownWasHanded'
  BY <1>0, <1>u, <1>1, <1>2, <1>4 DEF KnownWasHanded
<1>7. RunRead' /\ Concludes'
  BY <1>0, <1>u DEF RunRead, Concludes, FoldersTypeOK
<1>8. LastKnown'
  BY <1>0, <1>u DEF LastKnown
<1>. QED
  BY <1>5, <1>6, <1>7, <1>8 DEF Watched

(* Started again, the watch knows nothing but what the database says.        *)
LEMMA StartedAgain ==
  ASSUME Watched, Crash
  PROVE  Watched'
<1>0. /\ FoldersTypeOK /\ KnownWasHanded
  BY DEF Watched
<1>u. /\ UNCHANGED <<disk, stamp, changes, record, existing, last, concluded>>
      /\ pc' = "scan" /\ started' = FALSE /\ entry' = [p \in Paths |-> NoEntry]
      /\ ready' = {} /\ run' = NoRun /\ crashes' = crashes + 1
  BY DEF Crash, Started, folder
<1>1. FoldersTypeOK'
  <2>1. entry' \in [Paths -> Entries]
    BY <1>u, NoEntryIs
  <2>2. crashes' \in Nat
    BY <1>0, <1>u DEF FoldersTypeOK
  <2>. QED
    BY <1>0, <1>u, <2>1, <2>2 DEF FoldersTypeOK
<1>3. KnownWasHanded'
  BY <1>0, <1>u, NoEntryIs DEF KnownWasHanded
<1>. QED
  BY <1>u, <1>1, <1>3 DEF Watched, RunRead, Concludes, LastKnown

LEMMA WatchStep == Watched /\ [FoldersNext]_foldersVars => Watched'
<1>. SUFFICES ASSUME Watched, [FoldersNext]_foldersVars PROVE Watched'
  OBVIOUS
<1>1. ASSUME NEW p \in Paths, Change(p) PROVE Watched'
  <2>1. PICK what \in Readable \cup {None, Link} : Becomes(p, what)
    BY <1>1 DEF Change
  <2>2. changes' \in [Paths -> Nat]
    BY <1>1 DEF Change, Watched, FoldersTypeOK
  <2>. QED
    BY <2>1, <2>2, FileChanges
<1>2. ASSUME NEW p \in Paths, WriteOver(p) PROVE Watched'
  <2>1. PICK c \in Contents : Becomes(p, c)
    BY <1>2 DEF WriteOver
  <2>2. changes' \in [Paths -> Nat] /\ c \in Readable \cup {None, Link}
    BY <1>2 DEF WriteOver, Watched, FoldersTypeOK, Readable
  <2>. QED
    BY <2>1, <2>2, FileChanges
<1>3. ASSUME HandlerEnds PROVE Watched'
  <2>1. run.path \in Paths /\ run.content \in Readable /\ pc = "run"
    BY <1>3 DEF HandlerEnds, Watched, RunRead
  <2>2. UNCHANGED <<disk, stamp, changes, record, existing, started, crashes>>
    BY <1>3 DEF HandlerEnds, folder
  <2>. QED
    BY <1>3, <2>1, <2>2, CountsAsHandled, RunFails DEF HandlerEnds
<1>4. ASSUME UNCHANGED foldersVars PROVE Watched'
  BY <1>4 DEF foldersVars, folder, Watched, FoldersTypeOK, RunRead,
              KnownWasHanded, Concludes, LastKnown
<1>. QED
  BY <1>1, <1>2, <1>3, <1>4, Opened, Scanned, Recorded, StartedAgain DEF FoldersNext

LEMMA AlwaysWatched == FoldersSpec => []Watched
BY WatchInitially, WatchStep, PTL DEF FoldersSpec

------------------------------------------------------------------------------
(* The watch and its tables keep their types.                                *)
THEOREM FoldersTypeCorrect == FoldersSpec => []FoldersTypeOK
<1>1. Watched => FoldersTypeOK
  BY DEF Watched
<1>. QED
  BY <1>1, AlwaysWatched, PTL

(* A content counts as handled, in memory or in the database, only once a    *)
(* run on it was a success or it was given up, through any crash (handled).  *)
THEOREM KnownWasHandedHolds == FoldersSpec => []KnownWasHanded
<1>1. Watched => KnownWasHanded
  BY DEF Watched
<1>. QED
  BY <1>1, AlwaysWatched, PTL

(* A path's content is handed over again only after something else was, or   *)
(* the file was seen gone, or a restart could not know, or it had been given *)
(* up unread (Tracker::is_new).                                              *)
THEOREM OncePerContentHolds == FoldersSpec => []OncePerContent
<1>1. Watched => OncePerContent
  <2>. SUFFICES ASSUME Watched, pc = "run", run.content # Partial,
                       run.content = last[run.path]
                PROVE  entry[run.path].digest = Unread
    BY DEF OncePerContent
  <2>1. /\ run.path \in Paths /\ run.content \in Readable
        /\ entry[run.path].digest # run.content
    BY DEF Watched, RunRead
  <2>2. started
    BY DEF Watched, LastKnown
  <2>3. last[run.path] # None
    BY <2>1, Marks
  <2>. QED
    BY <2>1, <2>2, <2>3 DEF Watched, LastKnown
<1>. QED
  BY <1>1, AlwaysWatched, PTL

------------------------------------------------------------------------------
(* Mailboxes: a message is marked when it is done with, and never lost.      *)

(* The message at hand may have been marked already.                         *)
AtHand == IF step \in {"file", "flag"} THEN {Oldest} ELSE {}

(* Messages whose UIDs were read under the folder's UIDVALIDITY, and that    *)
(* are still to be handed.                                                   *)
InLine == IF since = validity THEN (unseen \cup fetched) \ AtHand ELSE {}

(* Those that are handed in this read or in a later one.                     *)
ToHand == InLine \cup ({u \in Uids : box[u] \in {"none", "unseen"}} \
                       (IF since = validity THEN AtHand ELSE {}))

(* What there is to go through at each exchange.                             *)
Stages ==
    /\ step = "search" => unseen = {} /\ fetched = {}
    /\ step = "fetch" => fetched = {}
    /\ step \in {"hand", "file", "flag"} => fetched # {}
    /\ step # "search" => since \in Validities
    /\ unseen \cap fetched = {}

(* Under another UIDVALIDITY, nothing was done to this folder's messages;    *)
(* under the same, the connection is to this folder.                         *)
Folder ==
    /\ since <= validity
    /\ since = validity => opened \in {0, validity}
    /\ since # validity => handled = {} /\ \A u \in Uids : failures[u] = 0
    /\ since = validity => \A u \in unseen \cup fetched : box[u] # "none"
    /\ \A w \in Validities, u \in Uids : w > validity => attempts[<<w, u>>] = 0

(* What is marked may be.                                                    *)
MayMark ==
    since = validity =>
       /\ step = "file" => Oldest \in handled
       /\ step = "flag" => \/ Oldest \in handled \cup malformed
                           \/ failures[Oldest] >= MAX_RUNS

(* Runs of a message that failed: those of the attempts since it was given   *)
(* up last, and MAX_RUNS for each time it was given up, which its flag ends  *)
(* or a lost connection.                                                     *)
Spent == MAX_RUNS * losses

Tries ==
    \A u \in Uids :
       /\ attempts[<<validity, u>>] <= failures[u]
       /\ attempts[<<validity, u>>] < MAX_RUNS
       /\ failures[u] <= Spent + MAX_RUNS
       /\ u \in ToHand => failures[u] <= Spent + attempts[<<validity, u>>]

Read == MailboxesTypeOK /\ Stages /\ Folder /\ MayMark /\ NoneTakenAway /\ Tries

------------------------------------------------------------------------------
(* A set of natural numbers has a least one: the message at hand is one of   *)
(* those downloaded.                                                         *)
LEMMA OldestIsFetched ==
  ASSUME fetched \subseteq Uids, fetched # {}
  PROVE  Oldest \in fetched
<1>0. fetched \in SUBSET Nat
  BY MailboxesAssumption DEF Uids
<1>1. PICK x \in fetched : \A y \in fetched : ~(<<y, x>> \in OpToRel(<, Nat))
  BY <1>0, NatLessThanWellFounded, WFMin, Zenon
<1>2. \A y \in fetched : ~(y < x)
  BY <1>0, <1>1, Zenon DEF OpToRel
<1>. HIDE <1>1
<1>3. \A y \in fetched : x <= y
  BY <1>0, <1>2
<1>. QED
  BY <1>3, Zenon DEF Oldest

(* The runs a lost connection may cost.                                      *)
LEMMA Spending ==
  ASSUME losses \in Nat
  PROVE  /\ Spent \in Nat /\ MAX_RUNS \in Nat \ {0}
         /\ losses' = losses => Spent' = Spent
         /\ losses' = losses + 1 => Spent' = Spent + MAX_RUNS
         /\ MAX_RUNS * (1 + losses) = Spent + MAX_RUNS
<1>1. MAX_RUNS \in Nat \ {0}
  BY MailboxesAssumption
<1>2. \A k \in Nat : /\ MAX_RUNS * k \in Nat
                      /\ MAX_RUNS * (k + 1) = MAX_RUNS * k + MAX_RUNS
                      /\ MAX_RUNS * (1 + k) = MAX_RUNS * k + MAX_RUNS
  BY <1>1, SMT
<1>3. Spent = MAX_RUNS * losses /\ Spent' = MAX_RUNS * losses'
  BY DEF Spent
<1>. QED
  BY <1>1, <1>2, <1>3

LEMMA NumbersOf ==
  ASSUME MailboxesTypeOK, NEW u \in Uids
  PROVE  /\ failures[u] \in Nat /\ losses \in Nat
         /\ validity \in Nat /\ since \in Nat
         /\ \A w \in Validities : attempts[<<w, u>>] \in Nat
         /\ attempts[<<validity, u>>] \in Nat
BY MailboxesAssumption DEF MailboxesTypeOK, Validities

------------------------------------------------------------------------------
(* Tries, as the steps change them.                                          *)

(* Nothing is counted, and no more messages are to be handed.                *)
LEMMA TriesKept ==
  ASSUME Tries, MailboxesTypeOK,
         UNCHANGED <<validity, losses, attempts, failures>>, ToHand' \subseteq ToHand
  PROVE  Tries'
<1>1. Spent' = Spent
  BY DEF Spent
<1>. QED
  BY <1>1 DEF Tries

(* A connection is lost: all may be handed again.                            *)
LEMMA TriesLost ==
  ASSUME Tries, MailboxesTypeOK,
         UNCHANGED <<validity, failures>>, losses' = losses + 1,
         \A u \in Uids : attempts'[<<validity, u>>] \in {0, attempts[<<validity, u>>]}
  PROVE  Tries'
<1>. SUFFICES ASSUME NEW u \in Uids
              PROVE  /\ attempts'[<<validity, u>>] <= failures[u]
                     /\ attempts'[<<validity, u>>] < MAX_RUNS
                     /\ failures[u] <= Spent' + MAX_RUNS
                     /\ failures[u] <= Spent' + attempts'[<<validity, u>>]
  BY DEF Tries
<1>1. /\ failures[u] \in Nat /\ attempts[<<validity, u>>] \in Nat /\ Spent \in Nat
      /\ MAX_RUNS \in Nat \ {0} /\ Spent' = Spent + MAX_RUNS
  BY NumbersOf, Spending
<1>2. /\ attempts[<<validity, u>>] <= failures[u]
      /\ attempts[<<validity, u>>] < MAX_RUNS
      /\ failures[u] <= Spent + MAX_RUNS
  BY DEF Tries
<1>. QED
  BY <1>1, <1>2

(* No message of the folder has been handed yet.                             *)
LEMMA TriesFresh ==
  ASSUME MailboxesTypeOK, losses' \in Nat,
         \A u \in Uids : failures'[u] = 0 /\ attempts'[<<validity', u>>] = 0
  PROVE  Tries'
<1>1. Spent' \in Nat /\ MAX_RUNS \in Nat \ {0}
  <2>1. \A k \in Nat : MAX_RUNS * k \in Nat
    BY MailboxesAssumption, SMT
  <2>. QED
    BY <2>1, MailboxesAssumption DEF Spent
<1>2. ASSUME NEW u \in Uids
      PROVE  /\ attempts'[<<validity', u>>] <= failures'[u]
             /\ attempts'[<<validity', u>>] < MAX_RUNS
             /\ failures'[u] <= Spent' + MAX_RUNS
             /\ failures'[u] <= Spent' + attempts'[<<validity', u>>]
  <2>1. failures'[u] = 0 /\ attempts'[<<validity', u>>] = 0
    OBVIOUS
  <2>2. 0 <= 0 /\ 0 < MAX_RUNS /\ 0 <= Spent' + MAX_RUNS /\ 0 <= Spent' + 0
    <3>1. \A s \in Nat, n \in Nat \ {0} : 0 <= 0 /\ 0 < n /\ 0 <= s + n /\ 0 <= s + 0
      OBVIOUS
    <3>. QED
      BY <1>1, <3>1, Zenon
  <2>. QED
    BY <2>1, <2>2, Zenon
<1>. QED
  BY <1>2 DEF Tries

LEMMA NoneTried ==
  ASSUME Tries, Folder, MailboxesTypeOK, since # validity
  PROVE  \A u \in Uids : failures[u] = 0 /\ attempts[<<validity, u>>] = 0
<1>. SUFFICES ASSUME NEW u \in Uids PROVE failures[u] = 0 /\ attempts[<<validity, u>>] = 0
  OBVIOUS
<1>1. failures[u] = 0 /\ attempts[<<validity, u>>] <= failures[u]
  BY DEF Tries, Folder
<1>. QED
  BY <1>1, NumbersOf

------------------------------------------------------------------------------
(* Where a step leads.                                                       *)

LEMMA Abandoned ==
  ASSUME Abort
  PROVE  /\ step' = "search" /\ opened' = 0 /\ retried' = FALSE
         /\ unseen' = {} /\ fetched' = {}
         /\ Stages' /\ MayMark'
BY DEF Abort, Stages, MayMark

LEMMA Afterwards ==
  ASSUME NEW messages \in SUBSET Uids, NEW uids \in SUBSET Uids, After(messages, uids),
         messages \cap uids = {}, messages \cup uids # {} => since' \in Validities
  PROVE  /\ step' \in {"search", "fetch", "hand"}
         /\ unseen' = uids /\ fetched' = messages
         /\ Stages' /\ MayMark' /\ AtHand' = {}
<1>u. unseen' = uids /\ fetched' = messages
  BY DEF After
<1>a. messages # {} => step' = "hand"
  BY DEF After
<1>b. messages = {} /\ uids # {} => step' = "fetch"
  BY DEF After
<1>c. messages = {} /\ uids = {} => step' = "search"
  BY DEF After
<1>1. /\ unseen' = uids /\ fetched' = messages
      /\ messages # {} => step' = "hand"
      /\ messages = {} /\ uids # {} => step' = "fetch"
      /\ messages = {} /\ uids = {} => step' = "search"
  BY <1>u, <1>a, <1>b, <1>c
<1>2. step' \in {"search", "fetch", "hand"}
  BY <1>1
<1>3. Stages'
  BY <1>1 DEF Stages
<1>. QED
  BY <1>1, <1>2, <1>3 DEF MayMark, AtHand

(* On to the next message, from the one at hand.                             *)
LEMMA OnToNext ==
  ASSUME MailboxesTypeOK, Stages, NextMessage, step \in {"hand", "file", "flag"},
         since' = since
  PROVE  /\ Oldest \in fetched /\ Oldest \notin unseen
         /\ step' \in {"search", "fetch", "hand"}
         /\ unseen' = unseen /\ fetched' = fetched \ {Oldest}
         /\ Stages' /\ MayMark' /\ AtHand' = {}
<1>1. fetched \subseteq Uids /\ unseen \subseteq Uids /\ fetched # {} /\ since \in Validities
      /\ unseen \cap fetched = {}
  BY DEF MailboxesTypeOK, Stages
<1>2. Oldest \in fetched
  BY <1>1, OldestIsFetched
<1>3. After(fetched \ {Oldest}, unseen)
  BY DEF NextMessage
<1>. QED
  BY <1>1, <1>2, <1>3, Afterwards

(* A mark changes the message at hand only, if it is there.                  *)
LEMMA Marking ==
  ASSUME MailboxesTypeOK, Oldest \in Uids,
         NEW what \in {"seen", "moved", "deleted", "flagged"},
         NEW marked, marked = Marked(Oldest, what)
  PROVE  /\ marked \in [Uids -> {"none", "unseen", "gone", "seen", "moved", "deleted", "flagged"}]
         /\ \A u \in Uids \ {Oldest} : marked[u] = box[u]
         /\ IF box[Oldest] \in Away THEN marked[Oldest] = box[Oldest]
            ELSE marked[Oldest] = what
BY DEF MailboxesTypeOK, Marked

------------------------------------------------------------------------------
(* The server, and the folder's other clients.                               *)

LEMMA Arrives ==
  ASSUME Read, NEW u \in Uids, Arrive(u) \/ TakenOut(u)
  PROVE  Read'
<1>0. MailboxesTypeOK /\ Stages /\ Folder /\ MayMark /\ NoneTakenAway /\ Tries
  BY DEF Read
<1>u. /\ UNCHANGED <<validity, filing, losses, step, opened, retried, since, unseen,
                     fetched, attempts, handled, failures>>
      /\ malformed' \in {malformed, malformed \cup {u}}
  BY DEF Arrive, TakenOut, OthersUnchanged, conn
<1>1. PICK what \in {"unseen", "gone"} : box' = [box EXCEPT ![u] = what]
  BY DEF Arrive, TakenOut
<1>2. box[u] \in {"none", "unseen"}
  BY DEF Arrive, TakenOut
<1>3. /\ box' \in [Uids -> {"none", "unseen", "gone", "seen", "moved", "deleted", "flagged"}]
      /\ box'[u] = what /\ \A w \in Uids : w # u => box'[w] = box[w]
  BY <1>0, <1>1 DEF MailboxesTypeOK
<1>4. MailboxesTypeOK'
  BY <1>0, <1>u, <1>3 DEF MailboxesTypeOK
<1>5. Oldest' = Oldest
  BY <1>u DEF Oldest
<1>6. Stages' /\ MayMark'
  BY <1>0, <1>u, <1>5 DEF Stages, MayMark
<1>7. Folder'
  <2>1. unseen \subseteq Uids /\ fetched \subseteq Uids
    BY <1>0 DEF MailboxesTypeOK
  <2>2. \A w \in Uids : box'[w] = "none" => box[w] = "none"
    BY <1>3
  <2>. QED
    BY <1>0, <1>u, <2>1, <2>2 DEF Folder
<1>8. NoneTakenAway'
  BY <1>0, <1>u, <1>3 DEF NoneTakenAway
<1>9. ToHand' \subseteq ToHand
  <2>1. AtHand' = AtHand /\ InLine' = InLine
    BY <1>u, <1>5 DEF AtHand, InLine
  <2>2. \A w \in Uids : box'[w] \in {"none", "unseen"} => box[w] \in {"none", "unseen"}
    BY <1>2, <1>3
  <2>. QED
    BY <1>u, <2>1, <2>2 DEF ToHand
<1>10. Tries'
  BY <1>0, <1>u, <1>9, TriesKept
<1>. QED
  BY <1>4, <1>6, <1>7, <1>8, <1>10 DEF Read

LEMMA MadeAnew ==
  ASSUME Read, Recreate
  PROVE  Read'
<1>0. MailboxesTypeOK /\ Stages /\ Folder /\ MayMark /\ NoneTakenAway /\ Tries
  BY DEF Read
<1>u. /\ UNCHANGED <<filing, losses, step, opened, retried, since, unseen, fetched, attempts>>
      /\ validity' = validity + 1 /\ validity < MaxValidity
      /\ box' = [u \in Uids |-> "none"] /\ malformed' = {}
      /\ handled' = {} /\ failures' = [u \in Uids |-> 0]
  BY DEF Recreate, OthersUnchanged, conn
<1>1. validity \in Nat /\ since \in Nat /\ validity' \in Validities
  BY <1>0, <1>u, MailboxesAssumption DEF MailboxesTypeOK, Validities
<1>2. MailboxesTypeOK'
  BY <1>0, <1>u, <1>1 DEF MailboxesTypeOK
<1>3. since' # validity' /\ since' <= validity'
  BY <1>0, <1>u, <1>1 DEF Folder
<1>4. Stages' /\ MayMark'
  BY <1>0, <1>u, <1>3 DEF Stages, MayMark
<1>5. \A w \in Validities, u \in Uids : w > validity => attempts[<<w, u>>] = 0
  BY <1>0 DEF Folder
<1>6. validity' > validity /\ \A w \in Validities : w > validity' => w > validity
  BY <1>1, <1>u DEF Validities
<1>7. Folder'
  BY <1>u, <1>3, <1>5, <1>6 DEF Folder
<1>8. NoneTakenAway'
  BY <1>u DEF NoneTakenAway
<1>9. Tries'
  <2>1. \A u \in Uids : failures'[u] = 0 /\ attempts'[<<validity', u>>] = 0
    BY <1>u, <1>1, <1>5, <1>6
  <2>2. losses' \in Nat
    BY <1>0, <1>u DEF MailboxesTypeOK
  <2>. QED
    BY <1>0, <2>1, <2>2, TriesFresh
<1>. QED
  BY <1>2, <1>4, <1>7, <1>8, <1>9 DEF Read

------------------------------------------------------------------------------
(* Connections, and the program, that end.                                   *)

(* The folder's messages are as they were.                                   *)
LEMMA FolderKept ==
  ASSUME MailboxesTypeOK, Folder, UNCHANGED <<box, validity, since, attempts, handled, failures>>,
         since = validity => opened' \in {0, validity},
         unseen' \cup fetched' \subseteq unseen \cup fetched
  PROVE  Folder'
BY DEF Folder

LEMMA Loses ==
  ASSUME Read, Refused \/ Restart
  PROVE  Read'
<1>0. MailboxesTypeOK /\ Stages /\ Folder /\ MayMark /\ NoneTakenAway /\ Tries
  BY DEF Read
<1>u. /\ UNCHANGED <<box, malformed, validity, filing, since, handled, failures>>
      /\ losses' = losses + 1 /\ Abort
      /\ attempts' = attempts \/ attempts' = NoAttempts
  BY DEF Refused, Restart
<1>1. /\ step' = "search" /\ opened' = 0 /\ retried' = FALSE
      /\ unseen' = {} /\ fetched' = {} /\ Stages' /\ MayMark'
  BY <1>u, Abandoned
<1>2. /\ attempts' \in [Validities \X Uids -> Nat]
      /\ \A w \in Validities, u \in Uids : attempts'[<<w, u>>] \in {0, attempts[<<w, u>>]}
  BY <1>0, <1>u DEF NoAttempts, MailboxesTypeOK
<1>3. MailboxesTypeOK'
  <2>1. losses' \in Nat
    BY <1>0, <1>u DEF MailboxesTypeOK
  <2>. QED
    BY <1>0, <1>u, <1>1, <1>2, <2>1 DEF MailboxesTypeOK
<1>4. Folder'
  <2>1. \A w \in Validities, u \in Uids : w > validity => attempts'[<<w, u>>] = 0
    BY <1>0, <1>2 DEF Folder
  <2>. QED
    BY <1>0, <1>u, <1>1, <2>1 DEF Folder
<1>5. NoneTakenAway'
  BY <1>0, <1>u DEF NoneTakenAway
<1>6. Tries'
  <2>1. validity \in Validities
    BY <1>0 DEF MailboxesTypeOK
  <2>. QED
    BY <1>0, <1>u, <1>2, <2>1, TriesLost
<1>. QED
  BY <1>1, <1>3, <1>4, <1>5, <1>6 DEF Read

(* To read under another UIDVALIDITY gives up a read that had found the      *)
(* folder that was: nothing was done to this one's messages.                 *)
LEMMA OtherFolder ==
  ASSUME Read, WrongFolder
  PROVE  Read'
<1>0. MailboxesTypeOK /\ Stages /\ Folder /\ MayMark /\ NoneTakenAway /\ Tries
  BY DEF Read
<1>u. /\ UNCHANGED <<box, malformed, validity, filing, losses, since, attempts, handled, failures>>
      /\ Abort /\ Connection # since
  BY DEF WrongFolder, server, SameFolder
<1>1. /\ step' = "search" /\ opened' = 0 /\ retried' = FALSE
      /\ unseen' = {} /\ fetched' = {} /\ Stages' /\ MayMark'
  BY <1>u, Abandoned
<1>2. MailboxesTypeOK'
  BY <1>0, <1>u, <1>1 DEF MailboxesTypeOK
<1>3. since # validity
  BY <1>0, <1>u DEF Folder, Connection
<1>4. Folder'
  BY <1>0, <1>u, <1>1, FolderKept
<1>5. NoneTakenAway'
  BY <1>0, <1>u DEF NoneTakenAway
<1>6. Tries'
  <2>1. \A u \in Uids : failures'[u] = 0 /\ attempts'[<<validity', u>>] = 0
    BY <1>0, <1>3, <1>u, NoneTried
  <2>2. losses' \in Nat
    BY <1>0, <1>u DEF MailboxesTypeOK
  <2>. QED
    BY <1>0, <2>1, <2>2, TriesFresh
<1>. QED
  BY <1>1, <1>2, <1>4, <1>5, <1>6 DEF Read

(* A mark that may be made takes no other message away.                      *)
LEMMA MarkedRightly ==
  ASSUME Read, since = validity, step \in {"file", "flag"},
         NEW what \in {"seen", "moved", "deleted", "flagged"},
         step = "flag" => what = "flagged",
         step = "file" => what # "flagged",
         UNCHANGED <<malformed, handled, failures>>,
         box' = Marked(Oldest, what)
  PROVE  /\ box' \in [Uids -> {"none", "unseen", "gone", "seen", "moved", "deleted", "flagged"}]
         /\ \A u \in Uids : box'[u] = "none" => box[u] = "none"
         /\ \A u \in Uids : box'[u] \in {"none", "unseen"} =>
               box[u] \in {"none", "unseen"} /\ u # Oldest
         /\ NoneTakenAway'
<1>0. MailboxesTypeOK /\ Stages /\ Folder /\ MayMark /\ NoneTakenAway
  BY DEF Read
<1>1. Oldest \in fetched /\ Oldest \in Uids
  BY <1>0, OldestIsFetched DEF Stages, MailboxesTypeOK
<1>2. /\ box' \in [Uids -> {"none", "unseen", "gone", "seen", "moved", "deleted", "flagged"}]
      /\ \A u \in Uids \ {Oldest} : box'[u] = box[u]
      /\ IF box[Oldest] \in Away THEN box'[Oldest] = box[Oldest] ELSE box'[Oldest] = what
  BY <1>0, <1>1, Marking
<1>3. box[Oldest] # "none"
  BY <1>0, <1>1 DEF Folder
<1>4. box'[Oldest] \notin {"none", "unseen"}
  BY <1>2, <1>3 DEF Away
<1>5. NoneTakenAway'
  <2>. SUFFICES ASSUME NEW u \in Uids
                PROVE  /\ box'[u] \in {"seen", "moved", "deleted"} => u \in handled
                       /\ box'[u] = "flagged" =>
                             u \in handled \/ u \in malformed \/ failures[u] >= MAX_RUNS
    BY DEF NoneTakenAway
  <2>1. CASE box'[u] = box[u]
    BY <1>0, <2>1 DEF NoneTakenAway
  <2>2. CASE u = Oldest /\ box'[u] = what
    BY <1>0, <2>2 DEF MayMark
  <2>. QED
    BY <1>2, <2>1, <2>2
<1>. QED
  BY <1>2, <1>4, <1>5

(* A connection that breaks: the server may have done what it was asked.     *)
LEMMA Breaks ==
  ASSUME Read, step # "hand", Broken(Effects)
  PROVE  Read'
<1>0. MailboxesTypeOK /\ Stages /\ Folder /\ MayMark /\ NoneTakenAway /\ Tries
  BY DEF Read
<1>u. /\ UNCHANGED <<malformed, validity, filing, since, attempts, handled, failures>>
      /\ SameFolder
      /\ \/ Abort
         \/ opened' = 0 /\ retried' = TRUE /\ UNCHANGED <<step, unseen, fetched>>
  BY DEF Broken
<1>1. /\ step' = "search" \/ (UNCHANGED <<step, unseen, fetched>>)
      /\ step' = "search" => unseen' = {} /\ fetched' = {}
      /\ opened' = 0 /\ retried' \in BOOLEAN
      /\ unseen' \cup fetched' \subseteq unseen \cup fetched
      /\ Stages' /\ MayMark'
  <2>1. CASE Abort
    BY <2>1, Abandoned
  <2>2. CASE opened' = 0 /\ retried' = TRUE /\ UNCHANGED <<step, unseen, fetched>>
    <3>1. Oldest' = Oldest
      BY <2>2 DEF Oldest
    <3>. QED
      BY <1>0, <1>u, <2>2, <3>1 DEF Stages, MayMark
  <2>. QED
    BY <1>u, <2>1, <2>2
<1>t. step' \in {"search", "fetch", "hand", "file", "flag"} /\ unseen' \subseteq Uids /\ fetched' \subseteq Uids
  BY <1>0, <1>1 DEF MailboxesTypeOK
<1>2. CASE Connection # validity
  <2>1. UNCHANGED <<losses, box>>
    BY <1>2 DEF Broken
  <2>2. since # validity
    BY <1>0, <1>2 DEF Folder, Connection
  <2>3. MailboxesTypeOK'
    BY <1>0, <1>u, <1>1, <1>t, <2>1 DEF MailboxesTypeOK
  <2>4. Folder'
    BY <1>0, <1>u, <1>1, <2>1, FolderKept
  <2>5. NoneTakenAway'
    BY <1>0, <1>u, <2>1 DEF NoneTakenAway
  <2>6. Tries'
    <3>1. \A u \in Uids : failures'[u] = 0 /\ attempts'[<<validity', u>>] = 0
      BY <1>0, <1>u, <2>2, NoneTried
    <3>2. losses' \in Nat
      BY <1>0, <2>1 DEF MailboxesTypeOK
    <3>. QED
      BY <1>0, <3>1, <3>2, TriesFresh
  <2>. QED
    BY <1>1, <2>3, <2>4, <2>5, <2>6 DEF Read
<1>3. CASE Connection = validity
  <2>1. losses' = losses + 1 /\ box' \in Effects
    BY <1>3 DEF Broken
  <2>2. /\ box' \in [Uids -> {"none", "unseen", "gone", "seen", "moved", "deleted", "flagged"}]
        /\ \A u \in Uids : box'[u] = "none" => box[u] = "none"
        /\ NoneTakenAway'
    <3>1. CASE box' = box
      BY <1>0, <1>u, <3>1 DEF MailboxesTypeOK, NoneTakenAway
    <3>2. CASE box' # box
      <4>1. step \in {"file", "flag"} /\ since = validity
        BY <1>3, <1>u, <2>1, <3>2 DEF Effects, SameFolder
      <4>2. CASE step = "file"
        <5>1. PICK what \in {"seen", "moved", "deleted"} : box' = Marked(Oldest, what)
          BY <2>1, <3>2, <4>2 DEF Effects, Filed
        <5>. QED
          BY <1>u, <4>1, <4>2, <5>1, MarkedRightly
      <4>3. CASE step = "flag"
        <5>1. box' = Marked(Oldest, "flagged")
          BY <2>1, <3>2, <4>3 DEF Effects
        <5>. QED
          BY <1>u, <4>1, <4>3, <5>1, MarkedRightly
      <4>. QED
        BY <4>1, <4>2, <4>3
    <3>. QED
      BY <3>1, <3>2
  <2>3. MailboxesTypeOK'
    <3>1. losses' \in Nat
      BY <1>0, <2>1 DEF MailboxesTypeOK
    <3>. QED
      BY <1>0, <1>u, <1>1, <1>t, <2>2, <3>1 DEF MailboxesTypeOK
  <2>4. Folder'
    BY <1>0, <1>u, <1>1, <2>2 DEF Folder, MailboxesTypeOK
  <2>5. Tries'
    BY <1>0, <1>u, <2>1, TriesLost
  <2>. QED
    BY <1>1, <2>2, <2>3, <2>4, <2>5 DEF Read
<1>. QED
  BY <1>2, <1>3

------------------------------------------------------------------------------
(* read_mailbox.                                                             *)

(* The unseen messages are found, under the folder's UIDVALIDITY.            *)
LEMMA Searches ==
  ASSUME Read, Search
  PROVE  Read'
<1>0. MailboxesTypeOK /\ Stages /\ Folder /\ MayMark /\ NoneTakenAway /\ Tries
  BY DEF Read
<1>. DEFINE found == {u \in Uids : box[u] = "unseen"}
<1>u. /\ UNCHANGED <<box, malformed, validity, filing, losses, attempts, handled, failures>>
      /\ step = "search" /\ opened' = validity /\ retried' = FALSE /\ since' = validity
      /\ After({}, found)
  BY DEF Search, Answered
<1>1. validity \in Validities
  BY <1>0 DEF MailboxesTypeOK
<1>2. found \in SUBSET Uids
  OBVIOUS
<1>3. /\ step' \in {"search", "fetch", "hand"} /\ unseen' = found /\ fetched' = {}
      /\ Stages' /\ MayMark' /\ AtHand' = {}
  <2>. HIDE DEF found
  <2>. QED
    BY <1>1, <1>2, <1>u, Afterwards
<1>4. MailboxesTypeOK'
  BY <1>0, <1>1, <1>2, <1>3, <1>u DEF MailboxesTypeOK
<1>5. Folder'
  <2>1. since' = validity' /\ validity' <= validity'
    BY <1>u, <1>1 DEF Validities
  <2>2. \A u \in unseen' \cup fetched' : box'[u] # "none"
    BY <1>3, <1>u
  <2>. QED
    BY <1>0, <1>u, <2>1, <2>2 DEF Folder
<1>6. NoneTakenAway'
  BY <1>0, <1>u DEF NoneTakenAway
<1>7. Tries'
  <2>1. AtHand = {}
    BY <1>u DEF AtHand
  <2>2. ToHand' \subseteq ToHand
    BY <1>3, <1>u, <2>1 DEF ToHand, InLine
  <2>. QED
    BY <1>0, <1>u, <2>2, TriesKept
<1>. QED
  BY <1>3, <1>4, <1>5, <1>6, <1>7 DEF Read

(* Some are downloaded; those gone are left out.                             *)
LEMMA Fetches ==
  ASSUME Read, Fetch
  PROVE  Read'
<1>0. MailboxesTypeOK /\ Stages /\ Folder /\ MayMark /\ NoneTakenAway /\ Tries
  BY DEF Read
<1>. DEFINE some == {u \in Chunk : box[u] \notin Away}  rest == unseen \ Chunk
<1>u. /\ UNCHANGED <<box, malformed, validity, filing, losses, since, attempts, handled, failures>>
      /\ step = "fetch" /\ opened' = validity /\ retried' = FALSE
      /\ After(some, rest)
  BY DEF Fetch, Answered
<1>1. /\ some \in SUBSET unseen /\ rest \in SUBSET unseen /\ some \cap rest = {}
      /\ unseen \subseteq Uids /\ since \in Validities
  BY <1>0, <1>u DEF MailboxesTypeOK, Stages, Chunk
<1>. HIDE DEF some, rest
<1>3. /\ step' \in {"search", "fetch", "hand"} /\ unseen' = rest /\ fetched' = some
      /\ Stages' /\ MayMark' /\ AtHand' = {}
  <2>1. some \in SUBSET Uids /\ rest \in SUBSET Uids
    BY <1>1
  <2>. QED
    BY <1>1, <1>u, <2>1, Afterwards
<1>4. MailboxesTypeOK'
  BY <1>0, <1>1, <1>3, <1>u DEF MailboxesTypeOK
<1>5. Folder'
  BY <1>0, <1>1, <1>3, <1>u, FolderKept
<1>6. NoneTakenAway'
  BY <1>0, <1>u DEF NoneTakenAway
<1>7. Tries'
  <2>1. AtHand = {}
    BY <1>u DEF AtHand
  <2>2. ToHand' \subseteq ToHand
    BY <1>1, <1>3, <1>u, <2>1 DEF ToHand, InLine
  <2>. QED
    BY <1>0, <1>u, <2>2, TriesKept
<1>. QED
  BY <1>3, <1>4, <1>5, <1>6, <1>7 DEF Read

(* The message at hand leaves the line: it is marked, or gone.               *)
LEMMA MarkedAndOn ==
  ASSUME Read, step \in {"file", "flag"}, since = validity,
         UNCHANGED <<malformed, validity, filing, losses, since, attempts, handled, failures>>,
         opened' = validity, retried' = FALSE,
         NEW what \in {"seen", "moved", "deleted", "flagged"},
         step = "flag" => what = "flagged", step = "file" => what # "flagged",
         box' = Marked(Oldest, what), NextMessage
  PROVE  Read'
<1>0. MailboxesTypeOK /\ Stages /\ Folder /\ MayMark /\ NoneTakenAway /\ Tries
  BY DEF Read
<1>1. /\ box' \in [Uids -> {"none", "unseen", "gone", "seen", "moved", "deleted", "flagged"}]
      /\ \A u \in Uids : box'[u] = "none" => box[u] = "none"
      /\ \A u \in Uids : box'[u] \in {"none", "unseen"} =>
            box[u] \in {"none", "unseen"} /\ u # Oldest
      /\ NoneTakenAway'
  BY MarkedRightly
<1>2. /\ Oldest \in fetched /\ Oldest \notin unseen
      /\ step' \in {"search", "fetch", "hand"}
      /\ unseen' = unseen /\ fetched' = fetched \ {Oldest}
      /\ Stages' /\ MayMark' /\ AtHand' = {}
  BY <1>0, OnToNext
<1>3. MailboxesTypeOK'
  BY <1>0, <1>1, <1>2 DEF MailboxesTypeOK
<1>4. Folder'
  BY <1>0, <1>1, <1>2 DEF Folder, MailboxesTypeOK
<1>5. Tries'
  <2>1. AtHand = {Oldest}
    BY DEF AtHand
  <2>2. ToHand' \subseteq ToHand
    BY <1>1, <1>2, <2>1 DEF ToHand, InLine
  <2>. QED
    BY <1>0, <2>2, TriesKept
<1>. QED
  BY <1>1, <1>2, <1>3, <1>4, <1>5 DEF Read

LEMMA Flags ==
  ASSUME Read, Flag
  PROVE  Read'
<1>1. /\ UNCHANGED <<malformed, validity, filing, losses, since, attempts, handled, failures>>
      /\ opened' = validity /\ retried' = FALSE /\ step = "flag" /\ since = validity
      /\ box' = Marked(Oldest, "flagged") /\ NextMessage
  BY DEF Flag, Answered, SameFolder
<1>. QED
  BY <1>1, MarkedAndOn

LEMMA Files ==
  ASSUME Read, File
  PROVE  Read'
<1>0. MailboxesTypeOK /\ Stages /\ Folder /\ MayMark /\ NoneTakenAway /\ Tries
  BY DEF Read
<1>u. /\ UNCHANGED <<malformed, validity, filing, losses, since, attempts, handled, failures>>
      /\ opened' = validity /\ retried' = FALSE /\ step = "file" /\ since = validity
  BY DEF File, Answered, SameFolder
<1>1. CASE box' = Filed(Oldest) /\ NextMessage
  <2>1. PICK what \in {"seen", "moved"} : box' = Marked(Oldest, what)
    BY <1>1 DEF Filed
  <2>. QED
    BY <1>1, <1>u, <2>1, MarkedAndOn
<1>2. CASE GiveUp /\ UNCHANGED box
  <2>1. step' = "flag" /\ UNCHANGED <<fetched, unseen>> /\ Oldest' = Oldest
    BY <1>2 DEF GiveUp, Oldest
  <2>2. MailboxesTypeOK' /\ Stages'
    BY <1>0, <1>u, <1>2, <2>1 DEF MailboxesTypeOK, Stages
  <2>3. Folder'
    BY <1>0, <1>u, <1>2, <2>1, FolderKept
  <2>4. MayMark' /\ NoneTakenAway'
    BY <1>0, <1>u, <1>2, <2>1 DEF MayMark, NoneTakenAway
  <2>5. Tries'
    <3>1. AtHand = {Oldest} /\ AtHand' = {Oldest}
      BY <1>u, <2>1 DEF AtHand
    <3>2. ToHand' \subseteq ToHand
      BY <1>u, <1>2, <2>1, <3>1 DEF ToHand, InLine
    <3>. QED
      BY <1>0, <1>u, <3>2, TriesKept
  <2>. QED
    BY <2>2, <2>3, <2>4, <2>5 DEF Read
<1>. QED
  BY <1>1, <1>2 DEF File

(* The message at hand is handed, or given up for what it is.                *)
LEMMA Hands ==
  ASSUME Read, Hand
  PROVE  Read'
<1>0. MailboxesTypeOK /\ Stages /\ Folder /\ MayMark /\ NoneTakenAway /\ Tries
  BY DEF Read
<1>. DEFINE u == Oldest  m == <<since, u>>
<1>u. /\ UNCHANGED <<box, malformed, validity, filing, losses, opened, retried, since>>
      /\ step = "hand"
  BY DEF Hand, server, conn
<1>1. u \in fetched /\ u \in Uids /\ since \in Validities /\ m \in Validities \X Uids
      /\ validity \in Validities
  BY <1>0, <1>u, OldestIsFetched DEF Stages, MailboxesTypeOK
<1>n. /\ attempts[m] \in Nat /\ failures[u] \in Nat /\ Spent \in Nat /\ losses \in Nat
      /\ MAX_RUNS \in Nat \ {0} /\ Spent' = Spent
      /\ \A w \in Uids : failures[w] \in Nat /\ attempts[<<validity, w>>] \in Nat
  BY <1>0, <1>1, <1>u, NumbersOf, Spending
<1>h. AtHand = {}
  BY <1>u DEF AtHand
<1>g. GiveUp => /\ step' = "flag" /\ UNCHANGED <<fetched, unseen>> /\ Oldest' = u
                /\ AtHand' = {u} /\ Stages'
  BY <1>0, <1>u, <1>1 DEF GiveUp, Oldest, AtHand, Stages
<1>l. since = validity => u \in ToHand
  BY <1>1, <1>h DEF ToHand, InLine
<1>2. CASE (OfThisFolder => u \in malformed) /\ GiveUp /\ UNCHANGED <<attempts, handled, failures>>
  <2>1. MailboxesTypeOK'
    BY <1>0, <1>u, <1>2, <1>g DEF MailboxesTypeOK
  <2>2. Folder'
    BY <1>0, <1>u, <1>2, <1>g, FolderKept DEF Folder
  <2>3. MayMark' /\ NoneTakenAway'
    BY <1>0, <1>u, <1>2, <1>g DEF MayMark, NoneTakenAway, OfThisFolder
  <2>4. Tries'
    <3>1. ToHand' \subseteq ToHand
      BY <1>u, <1>2, <1>g, <1>h DEF ToHand, InLine
    <3>. QED
      BY <1>0, <1>u, <1>2, <3>1, TriesKept
  <2>. QED
    BY <1>2, <1>g, <2>1, <2>2, <2>3, <2>4 DEF Read
<1>3. CASE Returns(u)
  <2>1. /\ handled' = (IF since = validity THEN handled \cup {u} ELSE handled)
        /\ attempts' = [attempts EXCEPT ![m] = 0]
        /\ step' = "file" /\ UNCHANGED <<fetched, unseen, failures>>
    BY <1>3 DEF Returns, OfThisFolder
  <2>2. Oldest' = u /\ AtHand' = {u} /\ Stages'
    BY <1>0, <1>u, <1>1, <2>1 DEF Oldest, AtHand, Stages
  <2>3. /\ attempts' \in [Validities \X Uids -> Nat]
        /\ \A w \in Validities, v \in Uids : attempts'[<<w, v>>] =
              IF w = since /\ v = u THEN 0 ELSE attempts[<<w, v>>]
    BY <1>0, <1>1, <2>1 DEF MailboxesTypeOK
  <2>4. MailboxesTypeOK'
    BY <1>0, <1>u, <1>1, <2>1, <2>3 DEF MailboxesTypeOK
  <2>5. Folder'
    BY <1>0, <1>u, <2>1, <2>3 DEF Folder
  <2>6. MayMark' /\ NoneTakenAway'
    BY <1>0, <1>u, <2>1, <2>2 DEF MayMark, NoneTakenAway
  <2>7. Tries'
    <3>1. ToHand' \subseteq ToHand \ (IF since = validity THEN {u} ELSE {})
      BY <1>u, <1>h, <2>1, <2>2 DEF ToHand, InLine
    <3>. SUFFICES ASSUME NEW v \in Uids
                  PROVE  /\ attempts'[<<validity, v>>] <= failures[v]
                         /\ attempts'[<<validity, v>>] < MAX_RUNS
                         /\ failures[v] <= Spent + MAX_RUNS
                         /\ v \in ToHand' => failures[v] <= Spent + attempts'[<<validity, v>>]
      BY <1>u, <1>n, <2>1 DEF Tries
    <3>2. /\ attempts[<<validity, v>>] <= failures[v]
          /\ attempts[<<validity, v>>] < MAX_RUNS
          /\ failures[v] <= Spent + MAX_RUNS
          /\ v \in ToHand => failures[v] <= Spent + attempts[<<validity, v>>]
      BY <1>0 DEF Tries
    <3>3. CASE since = validity /\ v = u
      <4>1. attempts'[<<validity, v>>] = 0 /\ v \notin ToHand'
        BY <1>1, <2>3, <3>1, <3>3
      <4>. QED
        BY <1>n, <3>2, <4>1
    <3>4. CASE ~(since = validity /\ v = u)
      <4>1. attempts'[<<validity, v>>] = attempts[<<validity, v>>]
        BY <1>1, <2>3, <3>4
      <4>. QED
        BY <3>1, <3>2, <4>1
    <3>. QED
      BY <3>3, <3>4
  <2>. QED
    BY <2>2, <2>4, <2>5, <2>6, <2>7 DEF Read
<1>4. CASE Raises(u)
  <2>1. /\ failures' = (IF since = validity THEN [failures EXCEPT ![u] = @ + 1] ELSE failures)
        /\ handled' = handled
        /\ \/ /\ attempts[m] + 1 >= MAX_RUNS
              /\ attempts' = [attempts EXCEPT ![m] = 0] /\ GiveUp
           \/ /\ ~(attempts[m] + 1 >= MAX_RUNS)
              /\ attempts' = [attempts EXCEPT ![m] = @ + 1] /\ NextMessage
    BY <1>4 DEF Raises, OfThisFolder
  <2>2. PICK a \in Nat :
           /\ attempts' = [attempts EXCEPT ![m] = a]
           /\ \/ a = 0 /\ attempts[m] + 1 >= MAX_RUNS /\ GiveUp
              \/ a = attempts[m] + 1 /\ ~(attempts[m] + 1 >= MAX_RUNS) /\ NextMessage
    BY <1>0, <1>1, <1>n, <2>1 DEF MailboxesTypeOK
  <2>3. /\ attempts' \in [Validities \X Uids -> Nat]
        /\ \A w \in Validities, v \in Uids : attempts'[<<w, v>>] =
              IF w = since /\ v = u THEN a ELSE attempts[<<w, v>>]
    BY <1>0, <1>1, <2>2 DEF MailboxesTypeOK
  <2>4. /\ failures' \in [Uids -> Nat]
        /\ \A v \in Uids : failures'[v] =
              IF since = validity /\ v = u THEN failures[v] + 1 ELSE failures[v]
    BY <1>0, <1>1, <1>n, <2>1 DEF MailboxesTypeOK
  <2>n. NextMessage => /\ step' \in {"search", "fetch", "hand"}
                       /\ unseen' = unseen /\ fetched' = fetched \ {u}
                       /\ Stages' /\ MayMark' /\ AtHand' = {}
    BY <1>0, <1>u, OnToNext
  <2>5. /\ step' \in {"search", "fetch", "hand", "flag"} /\ Stages' /\ AtHand' \subseteq {u}
        /\ unseen' = unseen /\ fetched' \subseteq fetched
    BY <2>2, <2>n, <1>g
  <2>6. MailboxesTypeOK'
    BY <1>0, <1>u, <2>1, <2>3, <2>4, <2>5 DEF MailboxesTypeOK
  <2>7. Folder'
    <3>1. \A w \in Validities, v \in Uids : w > validity => attempts'[<<w, v>>] = 0
      <4>1. validity \in Nat /\ since \in Nat /\ since <= validity
        BY <1>0, <1>1 DEF Folder, Validities
      <4>. QED
        BY <1>0, <2>3, <4>1 DEF Folder, Validities
    <3>. QED
      BY <1>0, <1>u, <2>1, <2>4, <2>5, <3>1 DEF Folder
  <2>8. since = validity => attempts[m] <= failures[u] /\ attempts[m] < MAX_RUNS
                            /\ failures[u] <= Spent + attempts[m]
    BY <1>0, <1>1, <1>l DEF Tries
  <2>9. NoneTakenAway'
    <3>1. \A v \in Uids : failures[v] >= MAX_RUNS => failures'[v] >= MAX_RUNS
      BY <1>n, <2>4
    <3>. QED
      BY <1>0, <1>u, <2>1, <3>1 DEF NoneTakenAway
  <2>10. MayMark'
    <3>1. CASE NextMessage
      BY <2>n, <3>1
    <3>2. CASE a = 0 /\ attempts[m] + 1 >= MAX_RUNS /\ GiveUp
      <4>1. step' = "flag" /\ Oldest' = u
        BY <1>g, <3>2
      <4>2. since = validity => failures'[u] >= MAX_RUNS
        BY <1>1, <1>n, <2>4, <2>8, <3>2
      <4>. QED
        BY <1>u, <4>1, <4>2 DEF MayMark
    <3>. QED
      BY <2>2, <3>1, <3>2
  <2>11. Tries'
    <3>1. ToHand' \subseteq ToHand /\ (GiveUp /\ since = validity => u \notin ToHand')
      BY <1>u, <1>h, <1>g, <2>5 DEF ToHand, InLine
    <3>. SUFFICES ASSUME NEW v \in Uids
                  PROVE  /\ attempts'[<<validity, v>>] <= failures'[v]
                         /\ attempts'[<<validity, v>>] < MAX_RUNS
                         /\ failures'[v] <= Spent + MAX_RUNS
                         /\ v \in ToHand' => failures'[v] <= Spent + attempts'[<<validity, v>>]
      BY <1>u, <1>n DEF Tries
    <3>2. /\ attempts[<<validity, v>>] <= failures[v]
          /\ attempts[<<validity, v>>] < MAX_RUNS
          /\ failures[v] <= Spent + MAX_RUNS
          /\ v \in ToHand => failures[v] <= Spent + attempts[<<validity, v>>]
      BY <1>0 DEF Tries
    <3>3. CASE since = validity /\ v = u
      <4>1. /\ attempts'[<<validity, v>>] = a /\ failures'[v] = failures[u] + 1
            /\ attempts[m] <= failures[u] /\ attempts[m] < MAX_RUNS
            /\ failures[u] <= Spent + attempts[m]
        BY <1>1, <2>3, <2>4, <2>8, <3>3
      <4>2. CASE a = 0 /\ GiveUp
        BY <1>n, <3>1, <3>3, <4>1, <4>2
      <4>3. CASE a = attempts[m] + 1 /\ ~(attempts[m] + 1 >= MAX_RUNS)
        BY <1>n, <4>1, <4>3
      <4>. QED
        BY <2>2, <4>2, <4>3
    <3>4. CASE ~(since = validity /\ v = u)
      <4>1. attempts'[<<validity, v>>] = attempts[<<validity, v>>] /\ failures'[v] = failures[v]
        BY <1>1, <2>3, <2>4, <3>4
      <4>. QED
        BY <3>1, <3>2, <4>1
    <3>. QED
      BY <3>3, <3>4
  <2>. QED
    BY <2>5, <2>6, <2>7, <2>9, <2>10, <2>11 DEF Read
<1>. QED
  BY <1>2, <1>3, <1>4 DEF Hand

------------------------------------------------------------------------------
LEMMA ReadInitially == MailboxesInit => Read
<1>. SUFFICES ASSUME MailboxesInit PROVE Read
  OBVIOUS
<1>1. 1 \in Validities /\ attempts = NoAttempts
  BY MailboxesAssumption DEF MailboxesInit, Validities
<1>2. attempts \in [Validities \X Uids -> Nat]
      /\ \A w \in Validities, u \in Uids : attempts[<<w, u>>] = 0
  BY <1>1 DEF NoAttempts
<1>3. MailboxesTypeOK
  BY <1>1, <1>2 DEF MailboxesInit, MailboxesTypeOK
<1>4. Stages /\ MayMark /\ NoneTakenAway /\ Folder
  BY <1>1, <1>2 DEF MailboxesInit, Stages, MayMark, NoneTakenAway, Folder
<1>5. Tries
  <2>1. Spent = 0
    <3>1. MAX_RUNS * 0 = 0
      BY MailboxesAssumption, SMT
    <3>. QED
      BY <3>1 DEF MailboxesInit, Spent
  <2>2. validity = 1 /\ \A u \in Uids : failures[u] = 0
    BY DEF MailboxesInit
  <2>. QED
    BY <1>1, <1>2, <2>1, <2>2, MailboxesAssumption DEF Tries
<1>. QED
  BY <1>3, <1>4, <1>5 DEF Read

LEMMA ReadStep == Read /\ [MailboxesNext]_mailboxesVars => Read'
<1>. SUFFICES ASSUME Read, [MailboxesNext]_mailboxesVars PROVE Read'
  OBVIOUS
<1>1. ASSUME UNCHANGED mailboxesVars PROVE Read'
  <2>1. UNCHANGED <<box, malformed, validity, filing, losses, step, opened, retried, since,
                    unseen, fetched, attempts, handled, failures>>
    BY <1>1 DEF mailboxesVars, server, conn
  <2>2. Oldest' = Oldest
    BY <2>1 DEF Oldest
  <2>3. ToHand' = ToHand
    BY <2>1, <2>2 DEF ToHand, InLine, AtHand
  <2>4. MailboxesTypeOK' /\ Stages' /\ Folder' /\ NoneTakenAway'
    BY <2>1 DEF Read, MailboxesTypeOK, Stages, Folder, NoneTakenAway
  <2>5. MayMark' /\ Tries'
    BY <2>1, <2>2, <2>3, TriesKept DEF Read, MayMark
  <2>. QED
    BY <2>4, <2>5 DEF Read
<1>. QED
  BY <1>1, Arrives, MadeAnew, Loses, OtherFolder, Breaks, Searches, Fetches, Flags, Files, Hands
     DEF MailboxesNext, Exchange

LEMMA AlwaysRead == MailboxesSpec => []Read
BY ReadInitially, ReadStep, PTL DEF MailboxesSpec

(* A mailbox and its task keep their types.                                  *)
THEOREM MailboxesTypeCorrect == MailboxesSpec => []MailboxesTypeOK
<1>1. Read => MailboxesTypeOK
  BY DEF Read
<1>. QED
  BY <1>1, AlwaysRead, PTL

(* A message leaves the unseen ones only once its own handler returned, or   *)
(* it was given up, and is tried MAX_RUNS times, but for lost connections    *)
(* (Attempts, with_uids).                                                    *)
THEOREM MessagesKeptHolds == MailboxesSpec => []MessagesKept
<1>1. Read => MessagesKept
  <2>. SUFFICES ASSUME Read PROVE MessagesKept
    OBVIOUS
  <2>1. losses \in Nat
    BY DEF Read, MailboxesTypeOK
  <2>2. MAX_RUNS * (1 + losses) = Spent + MAX_RUNS
    BY <2>1, Spending
  <2>3. TriesCounted
    BY <2>2 DEF Read, Tries, TriesCounted
  <2>. QED
    BY <2>3 DEF Read, MessagesKept
<1>. QED
  BY <1>1, AlwaysRead, PTL

==============================================================================
