-------------------------------- MODULE Bridge --------------------------------
(* A foreign bridge: the server process of a facet, and the tasks that call  *)
(* its functions (grenat_bridge bridge.rs, process.rs, group.rs).            *)
(*                                                                           *)
(* The server is a process group: a leader, which the bridge waits for, and  *)
(* the process that serves, the leader itself or one it started.  Any of     *)
(* them dies, and closes its end of a pipe, when it likes.  One action is    *)
(* what a thread does between two messages, or one step of the server.       *)
EXTENDS Naturals

CONSTANTS
    BridgeCalls,  \* each made once, by a task of its own
    NoCall,
    Pure          \* those of functions declared `pure'

ASSUME BridgeAssumption == NoCall \notin BridgeCalls /\ Pure \subseteq BridgeCalls

VARIABLES
    \* the tasks
    request,      \* where the request of each call is
    holder,       \* the one that has the lock of Bridge::process
    restarted,    \* of its `request'
    failure,      \* why it got no response: Failure
    \* Process
    up,           \* whether there is one
    reported,     \* what its writing thread says of the line: `written'
    reply,        \* the call whose response was read and not received
    \* the server
    leader,       \* whether the leader lives
    serves,       \* whether the process that serves does
    reads,        \* whether one of them holds standard input
    writes,       \* ... and standard output
    line,         \* the call that waits on its standard input
    handling,     \* the one whose function it has run, not answered yet
    ran           \* how many times each call's function was run

channels   == <<reported, reply>>
ends       == <<leader, serves, reads, writes>>
working    == <<line, handling, ran>>
bridgeVars == <<request, holder, restarted, failure, up, channels, ends, working>>

BridgeInit ==
    /\ request = [c \in BridgeCalls |-> "idle"] /\ holder = NoCall
    /\ restarted = FALSE /\ failure = "none"
    /\ up = FALSE /\ reported = "none" /\ reply = NoCall
    /\ leader = FALSE /\ serves = FALSE /\ reads = FALSE /\ writes = FALSE
    /\ line = NoCall /\ handling = NoCall
    /\ ran = [c \in BridgeCalls |-> 0]

------------------------------------------------------------------------------
(* Bridge::request.                                                          *)

Goes(c, step) == request' = [request EXCEPT ![c] = step]

AskBridge(c) ==
    /\ request[c] = "idle"
    /\ Goes(c, "locking")
    /\ UNCHANGED <<holder, restarted, failure, up, channels, ends, working>>

LockBridge(c) ==
    /\ request[c] = "locking" /\ holder = NoCall
    /\ holder' = c /\ restarted' = FALSE /\ failure' = "none"
    /\ Goes(c, "looking")
    /\ UNCHANGED <<up, channels, ends, working>>

Ends(c, how) == Goes(c, how) /\ holder' = NoCall

(* (A bug: the leader is killed, and what it started goes on.)               *)
KillLeader ==
    /\ up' = FALSE /\ reported' = "none" /\ reply' = NoCall
    /\ leader' = FALSE
    /\ UNCHANGED <<serves, reads, writes, working>>

(* Drop for Process, after `kill': the whole group dies.                     *)
KillGroup ==
    /\ up' = FALSE /\ reported' = "none" /\ reply' = NoCall
    /\ leader' = FALSE /\ serves' = FALSE /\ reads' = FALSE /\ writes' = FALSE
    /\ line' = NoCall /\ handling' = NoCall
    /\ UNCHANGED ran

(* The server runs, as far as is known: the request is queued for it.        *)
Reuse(c) ==
    /\ request[c] = "looking" /\ up /\ leader
    /\ Goes(c, "writing")
    /\ UNCHANGED <<holder, restarted, failure, up, channels, ends, working>>

(* It does not: another is started, if it can be.                            *)
Clear(c) ==
    /\ request[c] = "looking" /\ up /\ ~leader
    /\ KillGroup
    /\ UNCHANGED <<request, holder, restarted, failure>>

StartServer(c) ==
    /\ request[c] = "looking" /\ ~up
    /\ up' = TRUE
    /\ leader' = TRUE /\ serves' = TRUE /\ reads' = TRUE /\ writes' = TRUE
    /\ Goes(c, "writing")
    /\ UNCHANGED <<holder, restarted, failure, channels, working>>

CannotStart(c) ==
    /\ request[c] = "looking" /\ ~up
    /\ Ends(c, "raised")
    /\ UNCHANGED <<restarted, failure, up, channels, ends, working>>

Fails(c, why) ==
    /\ failure' = why
    /\ Goes(c, "failed")
    /\ UNCHANGED <<holder, restarted, up, channels, ends, working>>

(* Process::request: whether the line was written, then the response; what a *)
(* channel holds is received before the deadline is looked at.               *)
Written(c) ==
    /\ request[c] = "writing" /\ reported = "yes"
    /\ reported' = "none"
    /\ Goes(c, "answering")
    /\ UNCHANGED <<holder, restarted, failure, up, reply, ends, working>>

NotDelivered(c) == request[c] = "writing" /\ reported = "no" /\ Fails(c, "not delivered")

Received(c) ==
    /\ request[c] = "answering" /\ reply = c
    /\ reply' = NoCall
    /\ Ends(c, "returned")
    /\ UNCHANGED <<restarted, failure, up, reported, ends, working>>

Exited(c) ==
    /\ request[c] = "answering" /\ reply = NoCall /\ ~writes
    /\ Fails(c, "exited")

TimedOut(c) ==
    /\ \/ request[c] = "writing" /\ reported = "none"
       \/ request[c] = "answering" /\ reply = NoCall /\ writes
    /\ Fails(c, "timed out")

(* The call is sent again, once: if no server can have run it, or if it is   *)
(* pure.                                                                     *)
SendAgain(c) == failure = "not delivered" \/ (failure = "exited" /\ c \in Pure)

(* (A bug: a new server for the call as long as it fails.)                   *)
GiveUpOrRetryAlways(c) ==
    IF SendAgain(c)
    THEN /\ restarted' = TRUE
         /\ Goes(c, "looking") /\ UNCHANGED holder
    ELSE Ends(c, "raised") /\ UNCHANGED restarted

GiveUpOrRetry(c) ==
    IF SendAgain(c) /\ ~restarted
    THEN /\ restarted' = TRUE
         /\ Goes(c, "looking") /\ UNCHANGED holder
    ELSE Ends(c, "raised") /\ UNCHANGED restarted

Retreat(c) ==
    /\ request[c] = "failed"
    /\ KillGroup
    /\ GiveUpOrRetry(c)
    /\ UNCHANGED failure

------------------------------------------------------------------------------
(* The threads and the server.                                               *)

(* The writing thread: the line is written, unless nobody holds the other    *)
(* end; or it waits for a server that does not read.                         *)
Write ==
    /\ holder # NoCall /\ request[holder] = "writing" /\ reported = "none"
    /\ IF reads
       THEN reported' = "yes" /\ line' = IF serves THEN holder ELSE NoCall
       ELSE reported' = "no" /\ UNCHANGED line
    /\ UNCHANGED <<request, holder, restarted, failure, up, reply, ends, handling, ran>>

(* The server (grenat_bridge.py, bridge.rb): one line at a time, it runs the *)
(* function asked for, then writes and flushes the response.                 *)
Handle ==
    /\ serves /\ reads /\ line # NoCall /\ handling = NoCall
    /\ handling' = line /\ line' = NoCall
    /\ ran' = [ran EXCEPT ![line] = @ + 1]
    /\ UNCHANGED <<request, holder, restarted, failure, up, channels, ends>>

Respond ==
    /\ serves /\ writes /\ handling # NoCall
    /\ reply' = IF up THEN handling ELSE NoCall
    /\ handling' = NoCall
    /\ UNCHANGED <<request, holder, restarted, failure, up, reported, ends, line, ran>>

(* Its processes die, and close their ends of the pipes, as they like.       *)
Falter ==
    /\ leader' \in {leader, FALSE} /\ serves' \in {serves, FALSE}
    /\ reads' \in {reads, FALSE} /\ writes' \in {writes, FALSE}
    /\ ends' # ends
    /\ reads' \/ writes' => leader' \/ serves'
    /\ line' = IF serves' /\ reads' THEN line ELSE NoCall
    /\ handling' = IF serves' THEN handling ELSE NoCall
    /\ UNCHANGED <<request, holder, restarted, failure, up, channels, ran>>

CallStep(c) ==
    \/ LockBridge(c) \/ Reuse(c) \/ Clear(c) \/ StartServer(c) \/ CannotStart(c)
    \/ Written(c) \/ NotDelivered(c) \/ Received(c) \/ Exited(c) \/ TimedOut(c)
    \/ Retreat(c)

BridgeNext ==
    \/ \E c \in BridgeCalls : AskBridge(c) \/ CallStep(c)
    \/ Write \/ Handle \/ Respond \/ Falter

BridgeSpec == BridgeInit /\ [][BridgeNext]_bridgeVars

------------------------------------------------------------------------------
(* Properties.                                                               *)

(* The variables have their types.                                           *)
BridgeTypeOK ==
    /\ request \in [BridgeCalls -> {"idle", "locking", "looking", "writing", "answering",
                                 "failed", "returned", "raised"}]
    /\ holder \in BridgeCalls \cup {NoCall}
    /\ restarted \in BOOLEAN
    /\ failure \in {"none", "not delivered", "exited", "timed out"}
    /\ up \in BOOLEAN /\ reported \in {"none", "yes", "no"}
    /\ reply \in BridgeCalls \cup {NoCall}
    /\ leader \in BOOLEAN /\ serves \in BOOLEAN /\ reads \in BOOLEAN /\ writes \in BOOLEAN
    /\ line \in BridgeCalls \cup {NoCall} /\ handling \in BridgeCalls \cup {NoCall}
    /\ ran \in [BridgeCalls -> Nat]

(* A function with effects is never run twice for one call, whenever its     *)
(* server dies, or closes a pipe, or is too slow; a pure one twice at most   *)
(* (bridge.rs: "a call with effects is never run twice").  One whose call    *)
(* returned was run; and what a call started ends with it: once it raised, a *)
(* timeout say, nothing of it is run, or is about to be.                     *)
RunOnce ==
    \A c \in BridgeCalls :
       /\ ran[c] <= IF c \in Pure THEN 2 ELSE 1
       /\ request[c] = "returned" => ran[c] >= 1
       /\ request[c] \in {"returned", "raised"} => c \notin {line, handling}

(* Every call ends, though servers die or hang: its timeout passes, and one  *)
(* server more is tried at most.                                             *)
CallsEnd ==
    (\E c \in BridgeCalls : request[c] # "idle") ~>
        \A c \in BridgeCalls : request[c] \in {"idle", "returned", "raised"}
==============================================================================
