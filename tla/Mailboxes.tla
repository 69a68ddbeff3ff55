------------------------------ MODULE Mailboxes -------------------------------
(* A mailbox read by on_email: its unseen messages are handed to a handler,  *)
(* then marked seen, moved, or flagged for a human (grenat_interp            *)
(* mailboxes.rs, grenat_imap inbox.rs and mailbox.rs).                       *)
(*                                                                           *)
(* One action of the mailbox's task is one exchange with the server, whose   *)
(* connection may break before or after the server did what it was asked;    *)
(* messages arrive, and the folder is made anew, at any moment.              *)
EXTENDS Naturals, FiniteSets

CONSTANTS
    MaxUid,        \* bound: UIDs given to a folder's messages as they arrive
    BATCH,         \* messages downloaded at a time
    MAX_RUNS,      \* MAX_ATTEMPTS of mailboxes.rs
    MaxValidity,   \* bound: UIDVALIDITYs of the folder
    MaxLosses      \* bound: connections lost or refused, restarts

ASSUME MailboxesAssumption ==
    /\ MaxUid \in Nat
    /\ BATCH \in Nat \ {0} /\ MAX_RUNS \in Nat \ {0}
    /\ MaxValidity \in Nat \ {0} /\ MaxLosses \in Nat

VARIABLES
    \* the server
    box,           \* what is of each message of the folder
    malformed,     \* messages that are too large, or none
    validity,      \* the folder's UIDVALIDITY
    filing,        \* how a handled message leaves: chosen once
    losses,
    \* the mailbox's task
    step,          \* the exchange or the handler it is at
    opened,        \* UIDVALIDITY of the connection it has, or 0
    retried,       \* Inbox::run
    since,         \* the UIDVALIDITY under which the UIDs were read
    unseen,        \* UIDs still to download, the oldest first
    fetched,       \* messages downloaded, still to handle, in that order
    attempts,      \* Attempts
    \* what became of the messages of this folder
    handled,       \* those whose handler returned
    failures       \* runs of the handler that raised

server == <<box, malformed, validity, filing, losses>>
conn   == <<opened, retried>>
mailboxesVars == <<server, step, conn, since, unseen, fetched, attempts, handled, failures>>

Uids == 1 .. MaxUid
Validities == 1 .. MaxValidity
NoAttempts == [m \in Validities \X Uids |-> 0]

MailboxesInit ==
    /\ box = [u \in Uids |-> "none"] /\ malformed = {}
    /\ validity = 1 /\ losses = 0
    /\ filing \in {"seen", "move", "copy"}
    /\ step = "search" /\ opened = 0 /\ retried = FALSE /\ since = 0
    /\ unseen = {} /\ fetched = {}
    /\ attempts = NoAttempts
    /\ handled = {} /\ failures = [u \in Uids |-> 0]

------------------------------------------------------------------------------
(* The server, and the folder's other clients.                               *)

OthersUnchanged ==
    UNCHANGED <<filing, losses, step, conn, since, unseen, fetched, attempts>>

(* A message arrives, with the next UID.                                     *)
Arrive(u) ==
    /\ box[u] = "none" /\ \A w \in Uids : w >= u => box[w] = "none"
    /\ u > 1 => box[u - 1] # "none"
    /\ box' = [box EXCEPT ![u] = "unseen"]
    /\ malformed' \in {malformed, malformed \cup {u}}
    /\ UNCHANGED <<validity, handled, failures>> /\ OthersUnchanged

(* Another client removes it.                                                *)
TakenOut(u) ==
    /\ box[u] = "unseen"
    /\ box' = [box EXCEPT ![u] = "gone"]
    /\ UNCHANGED <<malformed, validity, handled, failures>> /\ OthersUnchanged

(* The folder is removed and made again: its UIDs name other messages, and   *)
(* the connections that had selected it are of no use.                       *)
Recreate ==
    /\ validity < MaxValidity
    /\ validity' = validity + 1
    /\ box' = [u \in Uids |-> "none"] /\ malformed' = {}
    /\ handled' = {} /\ failures' = [u \in Uids |-> 0]
    /\ OthersUnchanged

------------------------------------------------------------------------------
(* Inbox::run: an exchange on the connection there is, or a new one.         *)

(* The read fails: a new Inbox, and the next read after a while.             *)
Abort ==
    /\ step' = "search" /\ opened' = 0 /\ retried' = FALSE
    /\ unseen' = {} /\ fetched' = {}

Connection == IF opened = 0 THEN validity ELSE opened

(* (A bug: the UIDs are not held to the UIDVALIDITY they were read under.)   *)
SameFolderUnchecked == TRUE

SameFolder == step = "search" \/ Connection = since

(* The server answers.                                                       *)
Answered ==
    /\ Connection = validity
    /\ SameFolder
    /\ opened' = validity /\ retried' = FALSE
    /\ UNCHANGED <<malformed, validity, filing, losses>>

(* A UID read under another UIDVALIDITY names another message now.           *)
WrongFolder ==
    /\ ~SameFolder
    /\ Abort
    /\ UNCHANGED <<server, since, attempts, handled, failures>>

(* The connection breaks, or the answer is late: it is opened again, and the *)
(* exchange made again, once.  `effects' is what the server may have done.   *)
Broken(effects) ==
    /\ SameFolder
    /\ IF Connection = validity
       THEN losses < MaxLosses /\ losses' = losses + 1 /\ box' \in effects
       ELSE UNCHANGED <<losses, box>>
    /\ IF retried THEN Abort
       ELSE opened' = 0 /\ retried' = TRUE /\ UNCHANGED <<step, unseen, fetched>>
    /\ UNCHANGED <<malformed, validity, filing, since, attempts, handled, failures>>

(* The server cannot be reached, or refuses the login or the command.        *)
Refused ==
    /\ losses < MaxLosses /\ losses' = losses + 1
    /\ Abort
    /\ UNCHANGED <<box, malformed, validity, filing, since, attempts, handled, failures>>

(* The program is started again.                                             *)
Restart ==
    /\ losses < MaxLosses /\ losses' = losses + 1
    /\ Abort
    /\ attempts' = NoAttempts
    /\ UNCHANGED <<box, malformed, validity, filing, since, handled, failures>>

------------------------------------------------------------------------------
(* read_mailbox.                                                             *)

Away == {"none", "gone", "moved"}

(* On to the next message, to the next to download, or to the next read.     *)
After(messages, uids) ==
    /\ fetched' = messages
    /\ unseen' = uids
    /\ step' = IF messages # {} THEN "hand" ELSE IF uids # {} THEN "fetch" ELSE "search"

(* Mailbox::unseen: the messages neither seen nor deleted, oldest first.     *)
Search ==
    /\ step = "search"
    /\ Answered
    /\ since' = validity
    /\ After({}, {u \in Uids : box[u] = "unseen"})
    /\ UNCHANGED <<box, attempts, handled, failures>>

(* The next to download.                                                     *)
Chunk == {u \in unseen : Cardinality({w \in unseen : w < u}) < BATCH}

(* Mailbox::fetch, of messages left unseen; one gone is left out.            *)
Fetch ==
    /\ step = "fetch"
    /\ Answered
    /\ After({u \in Chunk : box[u] \notin Away}, unseen \ Chunk)
    /\ UNCHANGED <<box, since, attempts, handled, failures>>

OfThisFolder == since = validity

(* The message at hand.                                                      *)
Oldest == CHOOSE u \in fetched : \A w \in fetched : u <= w

NextMessage == After(fetched \ {Oldest}, unseen)

(* (A bug: a message given up is not flagged.)                               *)
GiveUpQuietly == NextMessage

GiveUp == step' = "flag" /\ UNCHANGED <<fetched, unseen>>

(* The handler raised: the message is tried again at the next reads, or      *)
(* given up, and then counted from the start should it come back.            *)
Raises(u) ==
    LET m == <<since, u>> IN
    /\ failures' = IF OfThisFolder THEN [failures EXCEPT ![u] = @ + 1] ELSE failures
    /\ IF attempts[m] + 1 >= MAX_RUNS
       THEN attempts' = [attempts EXCEPT ![m] = 0] /\ GiveUp
       ELSE attempts' = [attempts EXCEPT ![m] = @ + 1] /\ NextMessage
    /\ UNCHANGED handled

Returns(u) ==
    /\ handled' = IF OfThisFolder THEN handled \cup {u} ELSE handled
    /\ attempts' = [attempts EXCEPT ![<<since, u>>] = 0]
    /\ step' = "file"
    /\ UNCHANGED <<fetched, unseen, failures>>

(* The handler is called, unless there is no message to hand.                *)
Hand ==
    /\ step = "hand"
    /\ LET u == Oldest IN
       \/ /\ OfThisFolder => u \in malformed
          /\ GiveUp
          /\ UNCHANGED <<attempts, handled, failures>>
       \/ (OfThisFolder => u \notin malformed) /\ (Returns(u) \/ Raises(u))
    /\ UNCHANGED <<server, conn, since>>

(* Marked, if it is still there: a UID gone is no error.                     *)
Marked(u, what) ==
    IF box[u] \in Away THEN box ELSE [box EXCEPT ![u] = what]

(* Mailbox::mark_seen or move_to; without UID MOVE, a copy, then \Deleted,   *)
(* then an expunge.                                                          *)
Filed(u) == Marked(u, IF filing = "seen" THEN "seen" ELSE "moved")

File ==
    /\ step = "file"
    /\ Answered
    /\ \/ box' = Filed(Oldest) /\ NextMessage
       \/ GiveUp /\ UNCHANGED box     \* refused: for a human
    /\ UNCHANGED <<since, attempts, handled, failures>>

(* give_up: Mailbox::mark_flagged.                                           *)
Flag ==
    /\ step = "flag"
    /\ Answered
    /\ box' = Marked(Oldest, "flagged")
    /\ NextMessage
    /\ UNCHANGED <<since, attempts, handled, failures>>

(* What an exchange whose connection breaks may have done.                   *)
Effects ==
    CASE step = "file" -> {box, Filed(Oldest)}
                          \cup (IF filing = "copy" THEN {Marked(Oldest, "deleted")} ELSE {})
      [] step = "flag" -> {box, Marked(Oldest, "flagged")}
      [] OTHER         -> {box}

(* A connection that selected a folder made anew since.                      *)
Stale == Connection # validity /\ Broken(Effects)

Exchange == Search \/ Fetch \/ File \/ Flag

MailboxesNext ==
    \/ \E u \in Uids : Arrive(u) \/ TakenOut(u)
    \/ Recreate
    \/ Exchange \/ Hand
    \/ step # "hand" /\ (WrongFolder \/ Broken(Effects) \/ Refused)
    \/ Restart

MailboxesSpec == MailboxesInit /\ [][MailboxesNext]_mailboxesVars

------------------------------------------------------------------------------
(* Properties.                                                               *)

(* The variables have their types.                                           *)
MailboxesTypeOK ==
    /\ box \in [Uids -> {"none", "unseen", "gone", "seen", "moved", "deleted", "flagged"}]
    /\ malformed \subseteq Uids /\ validity \in Validities
    /\ filing \in {"seen", "move", "copy"} /\ losses \in Nat
    /\ step \in {"search", "fetch", "hand", "file", "flag"}
    /\ opened \in {0} \cup Validities /\ retried \in BOOLEAN
    /\ since \in {0} \cup Validities
    /\ unseen \subseteq Uids /\ fetched \subseteq Uids
    /\ attempts \in [Validities \X Uids -> Nat]
    /\ handled \subseteq Uids /\ failures \in [Uids -> Nat]

(* A message leaves the unseen ones only once its own handler returned, or   *)
(* once it was given up for what it is or for its own failed runs: never one *)
(* that has the UID of another, or that was handled under another            *)
(* UIDVALIDITY.                                                              *)
NoneTakenAway ==
    \A u \in Uids :
       /\ box[u] \in {"seen", "moved", "deleted"} => u \in handled
       /\ box[u] = "flagged" =>
             u \in handled \/ u \in malformed \/ failures[u] >= MAX_RUNS

(* A message whose handler raises is tried MAX_RUNS times in all, but for    *)
(* those given up whose flag a lost connection kept from the server.         *)
TriesCounted == \A u \in Uids : failures[u] <= MAX_RUNS * (1 + losses)

MessagesKept == NoneTakenAway /\ TriesCounted

(* Every message leaves the unseen ones in the end: one that fails does not  *)
(* keep the others waiting, and is not tried for ever.                       *)
NoneForgotten == \A u \in Uids : box[u] = "unseen" ~> box[u] # "unseen"

==============================================================================
