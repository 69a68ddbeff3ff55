------------------------------- MODULE Folders -------------------------------
(* A folder watched by on_file: its files are handed to a handler once they  *)
(* have stopped changing, and once per content (grenat_interp folders.rs,    *)
(* grenat_watch settle.rs and scan.rs, grenat_ops files.rs).                 *)
(*                                                                           *)
(* One action of the watch's task is what it does between two points where   *)
(* it waits for a thread of its own (a scan, a read, the handler, the        *)
(* database); files change at any moment.  A content stands for its digest.  *)
(* Whoever writes a file in place may pause for longer than the settling     *)
(* time: what is handed over may be half-written.                            *)
EXTENDS Naturals, FiniteSets

CONSTANTS
    Paths,        \* numbers: a scan's files are gone through in their order
    Contents,     \* of a whole file
    None,         \* no content
    Partial,      \* of a file being written: of no other has the same digest
    Link,         \* what is there is a link leading out of the folder
    Unread,       \* the digest "", of a content given up before it was read
    MAX_ATTEMPTS,
    MaxChanges,   \* bound: changes of each file, but for the ends of writes
    MaxCrashes    \* bound

ASSUME FoldersAssumption ==
    /\ Paths \subseteq Nat /\ IsFiniteSet(Paths)
    /\ Cardinality({None, Partial, Link, Unread}) = 4
    /\ {None, Partial, Link, Unread} \cap Contents = {}
    /\ MAX_ATTEMPTS \in Nat \ {0}
    /\ MaxChanges \in [Paths -> Nat] /\ MaxCrashes \in Nat

VARIABLES
    \* the folder
    disk,         \* what is at each path
    stamp,        \* Stamp of what is there: of each change a new one
    changes,
    \* the database
    record,       \* the digest recorded for each path
    \* the watch's task
    existing,     \* FileTrigger::existing: chosen once
    pc,           \* where it is
    started,      \* Tracker::started
    entry,        \* Tracker::files
    ready,        \* files still to look at, of the last scan
    run,          \* the file handed over, and the content that was read
    crashes,
    \* what became of the contents
    last,         \* last[p]: the content p's last run ended with, as long as
                  \* the watch can know of it
    concluded     \* <<p, c>>: a run on c was a success, or c was given up

folder == <<disk, stamp, changes>>
foldersVars == <<folder, record, existing, pc, started, entry, ready, run, crashes,
                 last, concluded>>

Readable == Contents \cup {Partial}
Digests  == Readable \cup {None, Unread}
Never    == 0       \* no state was looked at: `checked' is None

Entries == [stamp : Nat, checked : Nat, digest : Digests, failures : Nat]
NoEntry == [stamp |-> 0, checked |-> Never, digest |-> None, failures |-> 0]
NoRun   == [path |-> 0, content |-> None]

(* The watch starts: nothing is known but what the database says.            *)
Started ==
    /\ pc' = "scan" /\ started' = FALSE
    /\ entry' = [p \in Paths |-> NoEntry]
    /\ ready' = {} /\ run' = NoRun

FoldersInit ==
    /\ disk \in [Paths -> {None} \cup Contents]
    /\ stamp = [p \in Paths |-> 1] /\ changes = [p \in Paths |-> 0]
    /\ record = [p \in Paths |-> None]
    /\ existing \in BOOLEAN
    /\ pc = "scan" /\ started = FALSE
    /\ entry = [p \in Paths |-> NoEntry]
    /\ ready = {} /\ run = NoRun /\ crashes = 0
    /\ last = [p \in Paths |-> None] /\ concluded = {}

------------------------------------------------------------------------------
(* Whoever drops files.                                                      *)

Becomes(p, what) ==
    /\ disk' = [disk EXCEPT ![p] = what]
    /\ stamp' = [stamp EXCEPT ![p] = @ + 1]
    /\ UNCHANGED <<record, existing, pc, started, entry, ready, run, crashes,
                   last, concluded>>

(* A file moved there, touched, written in place, removed, or a link.        *)
Change(p) ==
    /\ changes[p] < MaxChanges[p]
    /\ changes' = [changes EXCEPT ![p] = @ + 1]
    /\ disk[p] # Partial
    /\ \E what \in Readable \cup {None, Link} : Becomes(p, what)

WriteOver(p) ==
    /\ disk[p] = Partial
    /\ UNCHANGED changes
    /\ \E c \in Contents : Becomes(p, c)

------------------------------------------------------------------------------
(* A scan: grenat_watch::scan, Tracker::skip_present and observe, and the    *)
(* files gone forgotten (watch_folder).                                      *)

There == {p \in Paths : disk[p] \in Readable}

(* A file seen for the first time: since the start, its path may be          *)
(* remembered, and what is there skipped.                                    *)
Seen(p, remembered) ==
    [stamp    |-> stamp[p],
     checked  |-> IF started \/ existing THEN Never ELSE stamp[p],
     digest   |-> IF started THEN None ELSE remembered[p],
     failures |-> 0]

(* (A bug: a file that changed is taken for a new one.)                      *)
ObservedAnew(p, remembered) ==
    IF p \notin There THEN NoEntry
    ELSE IF entry[p].stamp # stamp[p] THEN Seen(p, remembered)
    ELSE entry[p]

Observed(p, remembered) ==
    IF p \notin There THEN NoEntry
    ELSE IF entry[p] = NoEntry THEN Seen(p, remembered)
    ELSE IF entry[p].stamp # stamp[p]
    THEN [entry[p] EXCEPT !.stamp = stamp[p], !.failures = 0]
    ELSE entry[p]

(* Gone since the last scan, or while nothing watched.                       *)
Gone(remembered) ==
    {p \in Paths \ There : entry[p] # NoEntry \/ (~started /\ remembered[p] # None)}

(* Seen like this before.                                                    *)
Settled(p) == entry[p].stamp = stamp[p]

(* For these paths the settling time is over, or the retry delay.            *)
Ready(waited) ==
    {p \in There \cap waited : Settled(p) /\ entry[p].checked # stamp[p]}

(* `remembered' is what the database had at the start, or nothing if it      *)
(* could not be read; it may fail to forget a file.                          *)
Scan(waited) ==
    /\ pc = "scan"
    /\ \E remembered \in {record, [p \in Paths |-> None]} :
       \E kept \in SUBSET Gone(remembered) :
          /\ entry' = [p \in Paths |-> Observed(p, remembered)]
          /\ record' = [p \in Paths |-> IF p \in Gone(remembered) \ kept
                                        THEN None ELSE record[p]]
          /\ last' = [p \in Paths |-> IF p \notin There THEN None
                                      ELSE IF started THEN last[p]
                                      ELSE IF remembered[p] = last[p] THEN last[p]
                                      ELSE None]
    /\ started' = TRUE
    /\ ready' = Ready(waited)
    /\ pc' = IF ready' = {} THEN "scan" ELSE "open"
    /\ UNCHANGED <<folder, existing, run, crashes, concluded>>

------------------------------------------------------------------------------
(* hand_over, of each ready file in turn.                                    *)

Turn(p) == p \in ready /\ \A q \in ready : p <= q

(* On to the next file, or to the next scan.                                 *)
Onward(p) ==
    /\ ready' = ready \ {p}
    /\ pc' = IF ready' = {} THEN "scan" ELSE "open"
    /\ run' = NoRun

(* Its state counts as looked at: Tracker::passed_over, and is_new when the  *)
(* content is not.                                                           *)
LookedAt(p) ==
    /\ entry' = [entry EXCEPT ![p].checked = entry[p].stamp]
    /\ Onward(p)
    /\ UNCHANGED <<last, concluded>>

IsNew(p) == disk[p] = Partial \/ entry[p].digest # disk[p]

(* (A bug: what counts as looked at is the state the file is in by now.)     *)
AsItIs(p) == stamp[p]

AsScanned(p) == entry[p].stamp

(* Tracker::handled, then the record in the database, which comes next.      *)
Handled(p, digest) ==
    /\ entry' = [entry EXCEPT ![p].checked = AsScanned(p), ![p].digest = digest,
                              ![p].failures = 0]
    /\ pc' = "record"
    /\ run' = [path |-> p, content |-> digest]
    /\ last' = IF digest = Unread THEN last ELSE [last EXCEPT ![p] = digest]
    /\ concluded' = concluded \cup {<<p, digest>>}
    /\ UNCHANGED ready

(* failed_run: tried again, or given up.                                     *)
FailedRun(p, digest) ==
    IF entry[p].failures + 1 >= MAX_ATTEMPTS
    THEN Handled(p, digest)
    ELSE /\ entry' = [entry EXCEPT ![p].failures = @ + 1]
         /\ Onward(p)
         /\ UNCHANGED <<last, concluded>>

(* (A bug: the content counts as handed over before it is handled.)          *)
HandEarly(p) ==
    /\ entry' = [entry EXCEPT ![p].digest = disk[p]]
    /\ run' = [path |-> p, content |-> disk[p]]
    /\ pc' = "run"
    /\ UNCHANGED <<ready, last, concluded>>

HandFile(p) ==
    /\ run' = [path |-> p, content |-> disk[p]]
    /\ pc' = "run"
    /\ UNCHANGED <<entry, ready, last, concluded>>

(* The file is opened, wherever the path leads by now, and read: it may be   *)
(* the content handed over last, and it may be that it cannot be read.       *)
Open(p) ==
    /\ pc = "open" /\ Turn(p)
    /\ \/ disk[p] \in Readable /\ ~IsNew(p) /\ LookedAt(p)
       \/ disk[p] \in Readable /\ IsNew(p) /\ HandFile(p)
       \/ disk[p] = Link /\ LookedAt(p)
       \/ disk[p] # Link /\ FailedRun(p, Unread)
    /\ UNCHANGED <<folder, record, existing, started, crashes>>

(* The handler returned, or raised.                                          *)
HandlerEnds ==
    /\ pc = "run"
    /\ Handled(run.path, run.content) \/ FailedRun(run.path, run.content)
    /\ UNCHANGED <<folder, record, existing, started, crashes>>

(* files::record: the old record deleted, the new one inserted; either may   *)
(* fail, which is a warning.                                                 *)
Record ==
    /\ pc = "record"
    /\ \E digest \in {run.content, None, record[run.path]} :
          record' = [record EXCEPT ![run.path] = digest]
    /\ Onward(run.path)
    /\ UNCHANGED <<folder, existing, started, entry, crashes, last, concluded>>

(* The program stops, and is started again.                                  *)
Crash ==
    /\ crashes < MaxCrashes
    /\ crashes' = crashes + 1
    /\ Started
    /\ UNCHANGED <<folder, record, existing, last, concluded>>

FoldersNext ==
    \/ \E p \in Paths : Change(p) \/ WriteOver(p) \/ Open(p)
    \/ \E waited \in SUBSET Paths : Scan(waited)
    \/ HandlerEnds \/ Record \/ Crash

FoldersSpec == FoldersInit /\ [][FoldersNext]_foldersVars

------------------------------------------------------------------------------
(* Properties.                                                               *)

(* The variables have their types.                                           *)
FoldersTypeOK ==
    /\ disk \in [Paths -> Readable \cup {None, Link}]
    /\ stamp \in [Paths -> Nat] /\ changes \in [Paths -> Nat]
    /\ record \in [Paths -> Digests]
    /\ existing \in BOOLEAN /\ started \in BOOLEAN
    /\ pc \in {"scan", "open", "run", "record"}
    /\ entry \in [Paths -> Entries]
    /\ ready \subseteq Paths
    /\ run \in [path : Paths, content : Digests] \cup {NoRun}
    /\ crashes \in Nat
    /\ last \in [Paths -> Digests]
    /\ concluded \subseteq Paths \X Digests

(* A path's content is handed over again only when something else was handed *)
(* over meanwhile, or the file was seen gone, or a restart could not know of *)
(* it (settle.rs: "once per content") - or when it could not be read so many *)
(* times that it was given up.                                               *)
OncePerContent ==
    pc = "run" /\ run.content # Partial /\ run.content = last[run.path]
       => entry[run.path].digest = Unread

(* A content counts as handled, in memory and in the database, only once a   *)
(* run on it was a success or it was given up: what a program that stops     *)
(* between any two steps had not finished, the next one takes for new        *)
(* (handled) - unless it skips what is there when it starts.                 *)
KnownWasHanded ==
    \A p \in Paths : \A digest \in {record[p], entry[p].digest} :
       digest # None => <<p, digest>> \in concluded

(* What is there when the files and the program have changed for the last    *)
(* time is looked at in the end: it is the content handed over last or given *)
(* up, unless it is skipped for having been there at the start.              *)
LookedAtInTheEnd(p) ==
    disk[p] \in Contents =>
       /\ entry[p].checked = stamp[p]
       /\ existing => entry[p].digest \in {disk[p], Unread}

NothingMissed == <>[](\A p \in Paths : LookedAtInTheEnd(p))

==============================================================================
