------------------------------ MODULE MCTriggers ------------------------------
(* What wakes a served program: a watched folder, a mailbox, each with a     *)
(* task of its own, and its HTTP server.  They share nothing, so that each   *)
(* is looked at while the others stand still: `part' says which one runs.    *)
(*                                                                           *)
(* Of the folder's two files the second changes; the first is there or not,  *)
(* and keeps the task busy while the second waits for its turn.              *)
EXTENDS Folders, Mailboxes, Server

VARIABLE part

vars == <<foldersVars, mailboxesVars, serverVars, part>>

ChangesOf == [p \in Paths |-> IF p = 2 THEN 2 ELSE 0]

Init ==
    /\ FoldersInit /\ MailboxesInit /\ ServerInit
    /\ part \in {"folder", "mailbox", "server"}
    /\ disk[1] \in {None, CHOOSE c \in Contents : TRUE}
    /\ part # "mailbox" => filing = "seen"
    /\ part # "folder" => existing /\ disk = [p \in Paths |-> None]

(* Bound: the program is restarted only with one file in the folder.         *)
OfFolder(A) ==
    /\ part = "folder" /\ A /\ UNCHANGED <<mailboxesVars, serverVars, part>>
    /\ crashes' > 0 => disk[1] = None
OfMailbox(A) ==
    part = "mailbox" /\ A /\ UNCHANGED <<foldersVars, serverVars, part>>
OfServer(A) ==
    part = "server" /\ A /\ UNCHANGED <<foldersVars, mailboxesVars, part>>

Next == OfFolder(FoldersNext) \/ OfMailbox(MailboxesNext) \/ OfServer(ServerNext)

(* The folder is scanned again and again, and in the end a scan finds every  *)
(* wait over; a file is read and the database answers, or they fail.  The    *)
(* mailbox's server answers in the end, or its connection is seen broken.    *)
(* Handlers return or raise.                                                 *)
Spec ==
    /\ Init /\ [][Next]_vars
    /\ WF_vars(OfFolder(Scan(Paths)))
    /\ WF_vars(OfFolder(\E p \in Paths : Open(p)))
    /\ WF_vars(OfFolder(HandlerEnds)) /\ WF_vars(OfFolder(Record))
    /\ WF_vars(OfMailbox(Exchange)) /\ WF_vars(OfMailbox(Hand))
    /\ WF_vars(OfMailbox(step # "hand" /\ (WrongFolder \/ Stale)))
==============================================================================
