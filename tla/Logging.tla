------------------------------ MODULE Logging ------------------------------
(***************************************************************************)
(* Writing a conversation down: collectNewRecords and the flush of         *)
(* packages/ui/src/app/logging.ts, beside a Buffer that live lines, pages  *)
(* of history, our own lines and their echoes change, and the two stores   *)
(* of packages/platform-tauri/src/logging they write to.                   *)
(*                                                                         *)
(* The collecting effect runs after the interface has been rendered: up to *)
(* Burst changes of the buffer later. An append is begun by the timer and  *)
(* ends later, well or not; a purge of the plaintext store reads the file  *)
(* and writes it again. Times and ids are those of History, whose requests *)
(* and batches are abstracted here: a page comes line by line, the oldest  *)
(* first, with whatever is said meanwhile in between.                      *)
(***************************************************************************)
EXTENDS Buffer

CONSTANTS
    Stores,         \* the kinds of LogStore there may be: "sqlite", "plaintext"
    PurgeOverlaps,  \* a plaintext purge may overlap an append
    Burst,          \* bound on the changes of a buffer between two renderings
    Mishaps         \* bound, together, on connections, our own lines, appends that
                    \* fail and changes of the policy

ASSUME LoggingAssumption ==
    /\ Stores \subseteq {"sqlite", "plaintext"} /\ PurgeOverlaps \in BOOLEAN
    /\ {Burst, Mishaps} \subseteq Nat /\ Burst < Limit

VARIABLES
    read,           \* how much of the log has been read live, or missed
    page,           \* the positions a page still brings, in order
    outgoing,       \* our line on its way to the server
    stale,          \* changes of the buffer not rendered yet
    interface,      \* the hook is mounted: "open", or how it went away
    store,          \* the kind of the LogStore
    enabled,        \* LoggingPolicy.enabled
    written,        \* the id the log was left off at
    pending,        \* Progress.pending
    flushing,       \* Progress.flushing
    writing,        \* the batch being appended
    broken,         \* the database could not be opened
    failures,       \* how many appends have failed
    file,           \* the records in the store
    purging,        \* what a purge will leave, read before it writes
    cutoff,         \* what is older than this has been dropped
    due, unwanted,  \* what ought to be written, and what must not be
    lost,           \* the place the log was left off at was gone once, from the buffer
                    \* or with the session
    mishaps         \* what has happened, against Mishaps

server == <<log, connected, read, page, outgoing, sent>>
progress == <<written, pending, flushing, writing>>
disk == <<broken, failures, file, purging, cutoff>>
ghosts == <<due, unwanted, lost>>
app == <<buffer, stale, interface, store, enabled>>
vars == <<server, app, progress, disk, ghosts, mishaps>>

Mishap == mishaps < Mishaps /\ mishaps' = mishaps + 1

----------------------------------------------------------------------------
(* Collecting.                                                             *)

\* What of a sequence is in a set, in its order.
Those(s, S) == FoldLeft(LAMBDA those, x : IF x \in S THEN Append(those, x) ELSE those, <<>>, s)

\* The first of each.
Distinct(s) ==
    IF IsInjective(s) THEN s
    ELSE FoldLeft(LAMBDA d, l : IF l \in ToSet(d) THEN d ELSE Append(d, l), <<>>, s)

\* Taken down: in the store or on the way to it. What a purge will not leave
\* is gone when it has read the file.
TakenDown == Distinct((IF purging = <<>> THEN file ELSE purging) \o writing \o pending)

Nothing == [at |-> 0, text |-> Other]

Record(e) == [at |-> e.at, text |-> e.text]

Records(entries) == [i \in 1..Len(entries) |-> Record(entries[i])]

\* How many entries are behind the place the log was left off at: all of
\* them at first sight, none when the place is gone.
Start(entries) ==
    IF written = Nothing THEN Len(entries)
    ELSE SelectInSeq(entries, LAMBDA e : Record(e) = written)

Fresh_Newest(entries) == SubSeq(entries, IF Start(entries) = Len(entries) THEN Len(entries) + 1 ELSE Len(entries), Len(entries))

Fresh(entries) == SubSeq(entries, Start(entries) + 1, Len(entries))

\* shouldLog(): never a line that waits for its echo.
Logged(entries) == Records(Those(entries, {e \in ToSet(entries) : ~e.pending}))

\* What the log is not to have: all of a conversation seen for the first
\* time, and what is new while logging is off.
NotToKeep ==
    ToSet(Records(IF written = Nothing THEN buffer
                  ELSE IF enabled THEN <<>> ELSE Fresh(buffer))) \ ToSet(TakenDown)

Collect_OnlyEnabled ==
    /\ interface = "open" /\ stale > 0
    /\ stale' = 0
    /\ written' = IF buffer = <<>> \/ ~enabled THEN written ELSE Record(Last(buffer))
    /\ pending' = IF enabled THEN pending \o Logged(Fresh(buffer)) ELSE pending
    /\ unwanted' = unwanted \cup NotToKeep
    /\ lost' = (lost \/ (buffer # <<>> /\ Start(buffer) = 0))
    /\ UNCHANGED <<server, buffer, interface, store, enabled, flushing, writing, disk, due, mishaps>>

\* collectNewRecords(), and the effect that calls it.
Collect ==
    /\ interface = "open" /\ stale > 0
    /\ stale' = 0
    /\ written' = IF buffer = <<>> THEN written ELSE Record(Last(buffer))
    /\ pending' = IF enabled THEN pending \o Logged(Fresh(buffer)) ELSE pending
    /\ unwanted' = unwanted \cup NotToKeep
    /\ lost' = (lost \/ (buffer # <<>> /\ Start(buffer) = 0))
    /\ UNCHANGED <<server, buffer, interface, store, enabled, flushing, writing, disk, due, mishaps>>

----------------------------------------------------------------------------
(* Writing.                                                                *)

FlushDue == ~flushing /\ pending # <<>>

\* flush(), up to its await.
Flush ==
    /\ FlushDue
    /\ flushing' = TRUE
    /\ writing' = pending
    /\ pending' = <<>>
    /\ UNCHANGED written

\* setInterval
TimerFlushes ==
    /\ interface = "open"
    /\ Flush
    /\ UNCHANGED <<server, app, disk, ghosts, mishaps>>

Unmounts_Drops ==
    /\ interface = "open"
    /\ interface' = IF flushing THEN "closed late" ELSE "closed"
    /\ UNCHANGED <<server, buffer, stale, store, enabled, progress, disk, ghosts, mishaps>>

\* The cleanup of the effect: the timer is gone, and a last flush begins
\* unless one is running.
Unmounts ==
    /\ interface = "open"
    /\ interface' = IF flushing THEN "closed late" ELSE "closed"
    /\ Flush \/ (~FlushDue /\ UNCHANGED progress)
    /\ UNCHANGED <<server, buffer, stale, store, enabled, disk, ghosts, mishaps>>

Stored_Again(records) == file \o records

\* What a store holds after records are appended. INSERT OR IGNORE, where
\* there is a database; a text file takes whatever it is given.
Stored(records) ==
    IF store = "plaintext" THEN file \o records
    ELSE Distinct(file \o records)

Settles ==
    /\ writing # <<>>
    /\ purging = <<>> \/ PurgeOverlaps
    /\ writing' = <<>>
    /\ UNCHANGED <<server, app, written, purging, cutoff, ghosts>>

Appends ==
    /\ Settles
    /\ flushing' = FALSE
    /\ ~broken
    /\ file' = Stored(writing)
    /\ UNCHANGED <<pending, failures, broken, mishaps>>

AppendFails_Behind ==
    /\ Settles
    /\ flushing' = FALSE
    /\ ~broken /\ Mishap
    /\ failures' = failures + 1
    /\ pending' = pending \o writing
    /\ UNCHANGED <<file, broken>>

AppendFails_StillFlushing ==
    /\ Settles
    /\ ~broken /\ Mishap
    /\ failures' = failures + 1
    /\ pending' = writing \o pending
    /\ UNCHANGED <<flushing, file, broken>>

\* The first call opens the database. One that could not be opened is never
\* opened again: the promise that failed is what every later call awaits.
CannotOpen == store = "sqlite" /\ file = <<>> /\ failures = 0 /\ cutoff = 0

\* It fails part of the way, and the batch goes back in front of what came
\* meanwhile.
AppendFails ==
    /\ Settles
    /\ flushing' = FALSE
    /\ \/ /\ broken
          /\ UNCHANGED <<file, failures, broken, mishaps>>
       \/ /\ ~broken /\ Mishap
          /\ failures' = failures + 1
          /\ \/ /\ CannotOpen
                /\ broken' = TRUE
                /\ UNCHANGED file
             \/ \E n \in 0..(Len(writing) - 1) :
                   /\ file' = Stored(SubSeq(writing, 1, n))
                   /\ UNCHANGED broken
    /\ pending' = writing \o pending

----------------------------------------------------------------------------
(* Retention. The records that are being written are too recent for it.    *)

Kept(at) == Those(file, {r \in ToSet(file) : r.at >= at})

Drops(at) ==
    /\ interface = "open" /\ purging = <<>>
    /\ Kept(at) # file /\ at >= cutoff
    /\ \A r \in ToSet(writing \o pending) : r.at >= at
    /\ cutoff' = at
    /\ UNCHANGED <<server, app, progress, broken, failures, ghosts, mishaps>>

\* DELETE, or a file with nothing left to keep.
PurgesAtOnce(at) ==
    /\ Drops(at)
    /\ store = "sqlite" \/ Kept(at) = <<>>
    /\ ~broken
    /\ file' = Kept(at)
    /\ UNCHANGED purging

PurgeReads(at) ==
    /\ Drops(at)
    /\ store = "plaintext" /\ Kept(at) # <<>>
    /\ purging' = Kept(at)
    /\ UNCHANGED file

PurgeWrites ==
    /\ purging # <<>>
    /\ file' = purging /\ purging' = <<>>
    /\ UNCHANGED <<server, app, progress, broken, failures, cutoff, ghosts, mishaps>>

----------------------------------------------------------------------------
(* The conversation.                                                       *)

Entry(p) == [at |-> 2 * p, text |-> log[p], pending |-> FALSE]

\* A message from the server: ours is an echo, or a copy out of history.
Takes(p) ==
    buffer' = IF log[p] \in Texts THEN Reconcile(buffer, Entry(p)) ELSE Insert(buffer, Entry(p))

Renders == stale < Burst /\ stale' = stale + 1

Aside == UNCHANGED <<interface, store, enabled, progress, disk, unwanted, lost>>

\* A live line. It is to be written when the log is kept and the
\* conversation has been seen before.
ReadsLive ==
    /\ connected /\ read < Len(log)
    /\ read' = read + 1
    /\ Takes(read + 1) /\ Renders
    /\ due' = IF enabled /\ written # Nothing THEN due \cup {Record(Entry(read + 1))} ELSE due
    /\ UNCHANGED <<log, connected, page, outgoing, sent, mishaps>> /\ Aside

ReadsPage ==
    /\ connected /\ page # <<>>
    /\ page' = Tail(page)
    /\ Takes(Head(page)) /\ Renders
    /\ UNCHANGED <<log, connected, read, outgoing, sent, due, mishaps>> /\ Aside

\* sendMessage(), never with words that were said before.
Speaks(t) ==
    /\ connected /\ outgoing = <<>> /\ Mishap
    /\ t \notin ToSet(log) \cup {e.text : e \in ToSet(buffer)}
    /\ outgoing' = <<t>> /\ sent' = sent + 1
    /\ buffer' = Insert(buffer, [at |-> 2 * Len(log) + 1, text |-> t, pending |-> TRUE])
    /\ Renders
    /\ UNCHANGED <<log, connected, read, page, due>> /\ Aside

\* The page before the first line of the server's that is shown.
AsksOlder ==
    LET first == SelectInSeq(buffer, LAMBDA e : e.at % 2 = 0)
        before == IF first = 0 THEN read + 1 ELSE buffer[first].at \div 2
    IN  /\ connected /\ page = <<>> /\ before > 1
        /\ page' = PageBefore(before)
        /\ UNCHANGED <<log, connected, read, outgoing, sent, app, progress, disk, ghosts, mishaps>>

Said ==
    /\ Len(log) < MaxLog
    /\ \/ log' = Append(log, Other) /\ UNCHANGED outgoing
       \/ /\ outgoing # <<>>
          /\ log' = log \o outgoing /\ outgoing' = <<>>
    /\ UNCHANGED <<connected, read, page, sent, app, progress, disk, ghosts, mishaps>>

Leaves ==
    /\ connected
    /\ connected' = FALSE /\ outgoing' = <<>> /\ page' = <<>>
    /\ UNCHANGED <<log, read, sent, app, progress, disk, ghosts, mishaps>>

\* Back on the same session: what was missed comes as a page.
Returns ==
    /\ ~connected /\ Mishap
    /\ connected' = TRUE
    /\ page' = Those(PageBefore(Len(log) + 1), (read + 1)..Len(log))
    /\ read' = Len(log)
    /\ UNCHANGED <<log, outgoing, sent, app, progress, disk, ghosts>>

\* The user reconnects: a new Session, which has seen nothing.
Restarts ==
    /\ ~connected /\ stale = 0 /\ Mishap
    /\ connected' = TRUE /\ read' = Len(log)
    /\ buffer' = <<>>
    /\ lost' = (lost \/ written # Nothing)
    /\ UNCHANGED <<log, page, outgoing, sent, stale, interface, store, enabled>>
    /\ UNCHANGED <<progress, disk, due, unwanted>>

\* updateLogging(), or a policy of the network's own.
Switches ==
    /\ stale = 0 /\ Mishap
    /\ enabled' = ~enabled
    /\ UNCHANGED <<server, buffer, stale, interface, store, progress, disk, ghosts>>

----------------------------------------------------------------------------
Init ==
    /\ log = <<>> /\ connected = TRUE /\ read = 0 /\ page = <<>> /\ outgoing = <<>>
    /\ buffer = <<>> /\ stale = 0
    /\ interface = "open" /\ store \in Stores /\ enabled \in BOOLEAN
    /\ written = Nothing /\ pending = <<>> /\ flushing = FALSE /\ writing = <<>>
    /\ broken = FALSE /\ failures = 0 /\ file = <<>> /\ purging = <<>> /\ cutoff = 0
    /\ due = {} /\ unwanted = {} /\ lost = FALSE
    /\ mishaps = 0 /\ sent = 0

Next ==
    \/ /\ interface = "open"
       /\ \/ ReadsLive \/ ReadsPage \/ AsksOlder \/ \E t \in Texts : Speaks(t)
          \/ Said \/ Leaves \/ Returns \/ Restarts \/ Switches
    \/ Collect \/ TimerFlushes \/ Unmounts \/ Appends \/ AppendFails
    \/ \E at \in {r.at + 1 : r \in ToSet(file)} \cup {cutoff} :
          PurgesAtOnce(at) \/ PurgeReads(at)
    \/ PurgeWrites

\* Effects run, the interval fires and an append comes to an end.
Fairness ==
    /\ WF_vars(Collect) /\ WF_vars(TimerFlushes)
    /\ WF_vars(Appends \/ AppendFails) /\ WF_vars(PurgeWrites)

Spec == Init /\ [][Next]_vars /\ Fairness

----------------------------------------------------------------------------
Lines == [at : Nat, text : {Other} \cup Texts]

\* Besides the types: whatever is being appended is so under `flushing`.
TypeOK ==
    /\ interface \in {"open", "closed", "closed late"} /\ store \in Stores
    /\ {broken, enabled, flushing, lost} \subseteq BOOLEAN
    /\ buffer \in Seq([at : Nat, text : {Other} \cup Texts, pending : BOOLEAN])
    /\ Len(buffer) <= Limit /\ stale \in 0..Burst /\ mishaps \in 0..Mishaps
    /\ written \in Lines /\ cutoff \in Nat
    /\ {pending, writing, file, purging} \subseteq Seq(Lines)
    /\ {due, unwanted} \subseteq SUBSET Lines
    /\ flushing = (writing # <<>>)

\* Whatever is retried, put back and ignored, what has been taken down stays
\* so, in its place, until it is too old (shared/logging.ts 58-66).
J == INSTANCE Journal WITH journal <- TakenDown

IsJournal == J!Spec

\* No line is in the store twice; in a text file none that was put there by
\* an append that ended well (shared/logging.ts 63-64).
StoredOnce ==
    IsInjective(file) \/ (store = "plaintext" /\ (failures > 0 \/ lost))

\* A line somebody else says while the log is kept gets into it: it is taken
\* down, it is still where the next rendering looks, or it was too old
\* (logging.ts 76-78).
DueIsTakenDown ==
    sent = 0 /\ interface = "open" =>
       \A l \in due : \/ l \in ToSet(TakenDown) \cup ToSet(Records(Fresh(buffer)))
                      \/ l.at < cutoff

\* What was said before the log was kept, or while it was off, stays out of
\* it as long as the session lasts (logging.ts 67-70).
UnwantedStaysOut == ~lost => unwanted \cap ToSet(TakenDown) = {}

\* A store that works gets all there is to write, in the end, and a flush
\* that failed is made again (logging.ts 133-135).
AllWritten == <>[](pending = <<>> /\ ~flushing) \/ <>broken \/ <>(interface # "open")

\* The last flush writes what there is when none was running (logging.ts
\* 146-147).
WrittenOnTheWayOut ==
    interface = "closed" ~> (pending = <<>> /\ ~flushing) \/ failures > 0

\* What is in the log is there once, and nobody asked for it to stay out.
OnlyWanted == TypeOK /\ StoredOnce /\ UnwantedStaysOut

\* What is to be written is, sooner or later or on the way out.
Written == AllWritten /\ WrittenOnTheWayOut

=============================================================================
