----------------------------- MODULE Transfers -----------------------------
(***************************************************************************)
(* The file monitor of packages/ui/src/app/Marmotter.tsx and view-store.ts *)
(* over Download: rows that are asked for, negotiated, fetched, stopped,   *)
(* dismissed and cleared, while one serving bot queues, narrates, offers   *)
(* and offers again, and offers files nobody asked for.                    *)
(*                                                                         *)
(* Of a row its status is kept, its name, whether the bot said it holds a  *)
(* transfer (awaitingTransfer), whether the other address was tried and,   *)
(* of one that began with an offer nobody could read, whether it has an    *)
(* address by now.                                                         *)
(* What is sent to the bot is read at once, what it offers and agrees to   *)
(* is read later. A download folder is set; names are compared exactly.    *)
(***************************************************************************)
EXTENDS Download, SequencesExt

CONSTANTS
    File,       \* the name of the file of the packs
    Passive,    \* an offer may be passive
    Private,    \* an address offered may be one with another to try behind it
    Asks,       \* bound on the questions to the shell there are at a time
    Acts        \* bound on what the user and the bot do of their own accord

ASSUME TransfersAssumption ==
    /\ None \notin Rows \cup Attempts
    /\ File \in Names
    /\ Passive \subseteq BOOLEAN /\ Private \subseteq BOOLEAN /\ {Asks, Acts} \subseteq Nat

VARIABLES
    rows,       \* dccOffers
    handle,     \* transfers: the attempt a row can stop
    cancelled,  \* cancelledOffers
    queue,      \* pendingXdcc of the bot
    watchdogs,  \* requestWatchdogs
    asking,     \* beginTransfer() waits for resumableBytes()
    resumes,    \* pendingResumes, at most one for a name
    network,    \* the network has not been removed
    queued, holds,      \* the bot's: its queue, and the transfer it has opened
    offers, accepts,    \* on their way from the bot: DCC SEND, DCC ACCEPT
    agreed,     \* where the bot goes on from with a name
    invited,    \* the rows the user has asked for
    misread,    \* the rows put down as failed for an offer nobody could read
    crossed,    \* the rows two things crossed each other for
    acts        \* what was done, against Acts

bot == <<queued, holds, offers, accepts, agreed>>
pending == <<queue, watchdogs, asking, resumes>>
screen == <<rows, handle, cancelled>>
ghosts == <<invited, misread, crossed>>
vars == <<native, screen, pending, bot, ghosts, network, acts>>

Act == acts < Acts /\ acts' = acts + 1

Absent == [status |-> "absent", name |-> None, awaiting |-> FALSE, tried |-> FALSE,
           address |-> "offered"]

Listed(r) == rows[r].status # "absent"

\* The rows there are to a name.
Named(n) == {r \in Rows : rows[r].name = n}

InFlight(r) == rows[r].status = "downloading"

\* setDccOfferStatus(): no row, no effect; the note and awaitingTransfer go.
Patched(r, status) ==
    IF Listed(r) THEN [rows EXCEPT ![r].status = status, ![r].awaiting = FALSE] ELSE rows

\* queue.filter(): what is left of the requests to the bot.
Unqueued(gone) ==
    LET Left(rest, r) == IF r \in gone THEN rest ELSE Append(rest, r)
    IN  FoldLeft(Left, <<>>, queue)

AskingFor(r) == \E i \in DOMAIN asking : asking[i].row = r

Negotiating(r) == \E e \in resumes : e.row = r

\* Something of this row is under way already.
Busy(r) ==
    AskingFor(r) \/ Negotiating(r) \/ \E a \in Attempts : Under(a) /\ attempts[a].row = r

----------------------------------------------------------------------------
(* Starting.                                                               *)

\* fetchIntoFolder() keeps a host and a port with the row, fetchPassively() no port.
Dialled(r, passive) ==
    IF rows[r].address = "none" /\ ~passive THEN "late" ELSE rows[r].address

\* fetchIntoFolder() and fetchPassively(), over a table of attempts in which
\* one may just have ended, and trackTransfer() up to its promise.
Launch(table, r, n, from, sends, fallback, passive) ==
    LET free == {a \in Attempts : table[a] = NoAttempt}
        a == CHOOSE a \in free : TRUE
    IN  /\ free # {}
        /\ attempts' = [table EXCEPT ![a] = Launched(r, n, from, sends, fallback, passive)]
        /\ handle' = [handle EXCEPT ![r] = a]
        /\ cancelled' = cancelled \ {r}
        /\ rows' = IF Listed(r)
                   THEN [rows EXCEPT ![r] = [status |-> "downloading", name |-> n,
                                             awaiting |-> FALSE, tried |-> table # attempts,
                                             address |-> Dialled(r, passive)]]
                   ELSE rows

\* start(): a passive transfer needs the session.
Starts(plan, from) ==
    IF plan.passive /\ ~network THEN UNCHANGED <<attempts, screen>>
    ELSE \E private \in IF plan.passive THEN {FALSE} ELSE Private :
            Launch(attempts, plan.row, plan.name, from, agreed[plan.name], private, plan.passive)

\* The sender goes on from elsewhere than we do.
Misses(plan, from) == IF agreed[plan.name] # from THEN mixed \cup {plan.name} ELSE mixed

Plan(r, n, passive) == [row |-> r, name |-> n, passive |-> passive]

\* beginTransfer(), up to the shell's answer. A negotiation of this very row
\* goes on with the new address.
Begins(plan) ==
    /\ watchdogs' = watchdogs \ {plan.row}
    /\ IF \E e \in resumes : e.name = plan.name /\ e.row = plan.row
       THEN /\ resumes' = {e \in resumes : e.name # plan.name} \cup {plan}
            /\ UNCHANGED <<asking, crossed>>
       ELSE /\ Len(asking) < Asks
            /\ asking' = Append(asking, plan)
            /\ crossed' = IF Busy(plan.row) THEN crossed \cup {plan.row} ELSE crossed
            /\ UNCHANGED resumes

\* withDeadline(): the answer, or none in time, or an error.
Answers == {0} \cup {Resumable(asking[i].name) : i \in DOMAIN asking}

ShellAnswers_Crowds(i, already) ==
    LET plan == asking[i]  n == plan.name
    IN  /\ already \in {0, Resumable(n)}
        /\ asking' = RemoveAt(asking, i)
        /\ \/ /\ already = 0 \/ already = Size
              /\ Starts(plan, 0) /\ mixed' = Misses(plan, 0)
              /\ UNCHANGED <<part, spoiled, resumes, agreed, accepts>>
           \/ /\ already \in 1..(Size - 1)
              /\ rows' = Patched(plan.row, "requested")
              /\ resumes' = resumes \cup {plan}
              /\ UNCHANGED <<native, handle, cancelled, agreed, accepts>>

\* The rest of beginTransfer(): nothing to go on from, another row's
\* negotiation of the name, or DCC RESUME, which the bot may agree to.
ShellAnswers(i, already) ==
    LET plan == asking[i]  n == plan.name
        held == {e \in resumes : e.name = n}
    IN  /\ already \in {0, Resumable(n)}
        /\ asking' = RemoveAt(asking, i)
        /\ \/ /\ already = 0 \/ already = Size \/ \E e \in held : e.row # plan.row
              /\ Starts(plan, 0) /\ mixed' = Misses(plan, 0)
              /\ UNCHANGED <<part, spoiled, resumes, agreed, accepts>>
           \/ /\ already \in 1..(Size - 1)
              /\ \A e \in held : e.row = plan.row
              /\ rows' = Patched(plan.row, "requested")
              /\ resumes' = (resumes \ held) \cup {plan}
              /\ IF held # {} THEN UNCHANGED <<agreed, accepts>>
                 ELSE \/ /\ accepts' = accepts \cup {n}
                         /\ \E position \in 0..already : agreed' = [agreed EXCEPT ![n] = position]
                      \/ UNCHANGED <<agreed, accepts>>
              /\ UNCHANGED <<native, handle, cancelled>>

Answered(r) ==
    /\ \E i \in DOMAIN asking, already \in Answers : asking[i].row = r /\ ShellAnswers(i, already)
    /\ UNCHANGED <<queue, watchdogs, network, queued, holds, offers, ghosts, acts>>

\* Eight seconds without an answer: from the beginning, unless the sender
\* has agreed meanwhile.
ResumeGivesUp(r) ==
    \E e \in resumes :
       /\ e.row = r
       /\ resumes' = resumes \ {e}
       /\ Starts(e, 0) /\ mixed' = Misses(e, 0)
       /\ UNCHANGED <<part, spoiled, queue, watchdogs, asking, bot, network, ghosts, acts>>

\* handleDccAccept(): of this name, or else the only one of this bot.
ReadsAccept ==
    \E n \in accepts :
       LET of == {e \in resumes : e.name = n}
           meant == IF of # {} THEN of ELSE {e \in resumes : resumes = {e}}
       IN  /\ network
           /\ accepts' = accepts \ {n}
           /\ resumes' = resumes \ meant
           /\ IF meant = {} THEN UNCHANGED <<attempts, mixed, screen>>
              ELSE \E e \in meant :
                      Starts(e, agreed[n]) /\ mixed' = Misses(e, agreed[n])
           /\ UNCHANGED <<part, spoiled, queue, watchdogs, asking, network>>
           /\ UNCHANGED <<queued, holds, offers, agreed, ghosts, acts>>

----------------------------------------------------------------------------
(* The bot.                                                                *)

\* cancelPackRequest(): a transfer it has opened, or a place in its queue.
Withdraws(r) ==
    IF r \in Packs /\ rows[r].status \in {"requested", "downloading"}
    THEN IF rows[r].awaiting \/ InFlight(r)
         THEN holds' = None /\ UNCHANGED queued
         ELSE queued' = queued \ {r} /\ UNCHANGED holds
    ELSE UNCHANGED <<queued, holds>>

Same == UNCHANGED <<native, screen, ghosts, network>>

BotOpens ==
    \E r \in queued :
       /\ network /\ holds = None
       /\ holds' = r /\ queued' = queued \ {r}
       /\ offers' = offers \cup {File} /\ agreed' = [agreed EXCEPT ![File] = 0]
       /\ UNCHANGED <<pending, accepts, acts>> /\ Same

\* Again, every few seconds until somebody connects; or a transfer of its
\* own that was not asked for.
BotOffers ==
    \E n \in Names :
       /\ network /\ n \notin offers /\ Act
       /\ offers' = offers \cup {n}
       /\ agreed' = IF holds # None /\ n = File THEN agreed ELSE [agreed EXCEPT ![n] = 0]
       /\ UNCHANGED <<pending, queued, holds, accepts>> /\ Same

BotGivesUp ==
    /\ holds # None /\ Act
    /\ holds' = None
    /\ UNCHANGED <<pending, queued, offers, accepts, agreed>> /\ Same

\* handleXdccResponse(), for a row in the queue that is still waiting.
ReadsNotice ==
    \E r \in Packs, kind \in {"sending", "queued", "dropped"} :
       /\ network /\ Act
       /\ kind = "sending" => holds = r
       /\ kind # "sending" => r \in queued
       /\ queued' = IF kind = "dropped" THEN queued \ {r} ELSE queued
       /\ IF r \in ToSet(queue) /\ rows[r].status = "requested"
          THEN /\ rows' = IF kind = "dropped" THEN Patched(r, "failed")
                          ELSE [Patched(r, "requested") EXCEPT ![r].awaiting = (kind = "sending")]
               /\ queue' = IF kind = "dropped" THEN Unqueued({r}) ELSE queue
               /\ watchdogs' = IF kind = "dropped" THEN watchdogs \ {r} ELSE watchdogs \cup {r}
          ELSE UNCHANGED <<rows, queue, watchdogs>>
       /\ UNCHANGED <<asking, resumes, holds, offers, accepts, agreed>>
       /\ UNCHANGED <<native, handle, cancelled, ghosts, network>>

\* matchPendingRequest(): the request of that name, or else the oldest one
\* when no row has the name.
MatchPendingRequest(n) ==
    LET named == {i \in DOMAIN queue : queue[i] \in Named(n)}
        matches == IF named = {} /\ Named(n) = {} THEN DOMAIN queue ELSE named
    IN  {queue[i] : i \in {j \in matches : \A k \in matches : j <= k}}

\* recordUnreadableOffer(): what could not be read stands for the name, and
\* there is no address.
ReadsUnreadable ==
    \E n \in Names :
       /\ network /\ ~Listed(n) /\ Act
       /\ rows' = [rows EXCEPT ![n] = [Absent EXCEPT !.status = "failed", !.name = n,
                                                     !.address = "none"]]
       /\ misread' = misread \cup {n}
       /\ UNCHANGED <<native, handle, cancelled, pending, bot, invited, crossed, network>>

Reoffered_Any(r) == Listed(r) /\ rows[r].status # "downloading"

\* classifyDccReoffer(): `retry` and `refuse`.
Reoffered(r) == rows[r].status \in {"failed", "requested"}

\* handleDccOffer(): the answer to a request, a row offered again, one that
\* is only announced or left alone, or a file that is not listed.
ReadsOffer ==
    \E n \in offers, passive \in Passive :
       LET answered == MatchPendingRequest(n)
           PlanOf(r) == Plan(r, IF passive THEN rows[r].name ELSE n, passive)
       IN  /\ network
           /\ offers' = offers \ {n}
           /\ \/ \E r \in answered :
                    /\ queue' = Unqueued({r})
                    /\ Begins(PlanOf(r))
                    /\ UNCHANGED rows
              \/ /\ answered = {}
                 /\ \E r \in Named(n) :
                       IF Reoffered(r) THEN Begins(PlanOf(r))
                       ELSE UNCHANGED <<watchdogs, asking, resumes, crossed>>
                 /\ UNCHANGED <<queue, rows>>
              \/ /\ answered = {} /\ Named(n) = {}
                 /\ rows' = [rows EXCEPT ![n] = [Absent EXCEPT !.status = "available", !.name = n]]
                 /\ UNCHANGED <<pending, crossed>>
           /\ UNCHANGED <<native, handle, cancelled, network>>
           /\ UNCHANGED <<queued, holds, accepts, agreed, invited, misread, acts>>

----------------------------------------------------------------------------
(* The user.                                                               *)

\* recordXdccOffer()
ReadsCatalogue ==
    \E r \in Packs :
       /\ network /\ ~Listed(r) /\ Act
       /\ rows' = [rows EXCEPT ![r] = [Absent EXCEPT !.status = "available", !.name = File]]
       /\ UNCHANGED <<native, handle, cancelled, pending, bot, ghosts, network>>

Requests_Unwatched(r) ==
    /\ queue' = Append(queue, r)
    /\ queued' = IF holds = r THEN queued ELSE queued \cup {r}
    /\ invited' = invited \cup {r}
    /\ UNCHANGED <<native, handle, cancelled, watchdogs, asking, resumes>>
    /\ UNCHANGED <<holds, offers, accepts, agreed, network, misread>>

\* A request goes out, and is waited for.
Requests(r) ==
    /\ queue' = Append(queue, r)
    /\ watchdogs' = watchdogs \cup {r}
    /\ queued' = IF holds = r THEN queued ELSE queued \cup {r}
    /\ invited' = invited \cup {r}
    /\ UNCHANGED <<native, handle, cancelled, asking, resumes>>
    /\ UNCHANGED <<holds, offers, accepts, agreed, network, misread>>

\* downloadOffer(), from the button.
Downloads(r) ==
    /\ network /\ rows[r].status \in {"available", "failed"} /\ Act
    /\ \/ /\ r \in Packs
          /\ rows' = Patched(r, "requested")
          /\ Requests(r)
          /\ crossed' = IF Busy(r) THEN crossed \cup {r} ELSE crossed
       \/ /\ r \in Names /\ rows[r].address # "none"
          /\ \E passive \in Passive :
                /\ rows[r].address = "late" => ~passive
                /\ Begins(Plan(r, rows[r].name, passive))
          /\ invited' = invited \cup {r}
          /\ UNCHANGED <<native, screen, queue, bot, network, misread>>

\* notePackRequest(): typed at the bot, for a row in whatever state it is.
Types(r) ==
    /\ r \in Packs /\ network /\ Act
    /\ rows' = [rows EXCEPT ![r].status = "requested", ![r].awaiting = FALSE,
                            ![r].name = IF Listed(r) THEN rows[r].name ELSE r]
    /\ Requests(r)
    /\ crossed' = IF Busy(r) THEN crossed \cup {r} ELSE crossed

\* watchRequest(), after a quarter of an hour.
WatchdogFires ==
    \E r \in watchdogs :
       /\ watchdogs' = watchdogs \ {r}
       /\ rows' = IF rows[r].status = "requested" THEN Patched(r, "failed") ELSE rows
       /\ UNCHANGED <<native, handle, cancelled, queue, asking, resumes, bot, network, ghosts, acts>>

ForgetPendingResume(gone) == resumes' = {e \in resumes : e.row \notin gone}

\* forgetPendingRequest()
ForgetPendingRequest(gone) ==
    /\ queue' = Unqueued(gone)
    /\ watchdogs' = watchdogs \ gone

\* What stopping comes too early for.
TooEarly(r) == handle[r] # None /\ Phase(handle[r]) = "invoked"

\* cancelOffer(): nothing of it starts again unless it is asked for.
Cancels(r) ==
    /\ InFlight(r) /\ handle[r] # None /\ Act
    /\ cancelled' = cancelled \cup {r}
    /\ attempts' = Told(handle[r])
    /\ ForgetPendingResume({r})
    /\ rows' = Patched(r, "available")
    /\ invited' = invited \ {r} /\ misread' = misread \ {r}
    /\ crossed' = IF TooEarly(r) \/ AskingFor(r) THEN crossed \cup {r} ELSE crossed
    /\ UNCHANGED <<part, spoiled, mixed, handle, queue, watchdogs, asking, bot, network>>

Dismisses_KeepsRequest(r) ==
    /\ Listed(r) /\ Act
    /\ cancelled' = IF handle[r] = None THEN cancelled ELSE cancelled \cup {r}
    /\ attempts' = IF handle[r] = None THEN attempts ELSE Told(handle[r])
    /\ Withdraws(r)
    /\ ForgetPendingResume({r})
    /\ rows' = [rows EXCEPT ![r] = Absent]
    /\ invited' = invited \ {r} /\ misread' = misread \ {r}
    /\ crossed' = IF TooEarly(r) \/ AskingFor(r) THEN crossed \cup {r} ELSE crossed
    /\ UNCHANGED <<part, spoiled, mixed, handle, queue, watchdogs, asking, offers, accepts, agreed, network>>

\* dismissOffer()
Dismisses(r) ==
    /\ Listed(r) /\ Act
    /\ cancelled' = IF handle[r] = None THEN cancelled ELSE cancelled \cup {r}
    /\ attempts' = IF handle[r] = None THEN attempts ELSE Told(handle[r])
    /\ Withdraws(r)
    /\ ForgetPendingRequest({r}) /\ ForgetPendingResume({r})
    /\ rows' = [rows EXCEPT ![r] = Absent]
    /\ invited' = invited \ {r} /\ misread' = misread \ {r}
    /\ crossed' = IF TooEarly(r) \/ AskingFor(r) THEN crossed \cup {r} ELSE crossed
    /\ UNCHANGED <<part, spoiled, mixed, handle, asking, offers, accepts, agreed, network>>

Clears_Everything ==
    LET gone == {r \in Rows : Listed(r)}
    IN  /\ gone # {} /\ Act
        /\ ForgetPendingRequest(gone) /\ ForgetPendingResume(gone)
        /\ queued' = queued \ {r \in gone : rows[r].status = "requested"}
        /\ rows' = [r \in Rows |-> IF r \in gone THEN Absent ELSE rows[r]]
        /\ invited' = invited \ gone /\ misread' = misread \ gone
        /\ crossed' = crossed \cup {r \in gone : AskingFor(r)}
        /\ UNCHANGED <<native, handle, cancelled, asking, holds, offers, accepts, agreed, network>>

\* clearOffers(): all that is not arriving.
Clears ==
    LET gone == {r \in Rows : Listed(r) /\ ~InFlight(r)}
        waiting == {r \in gone \cap Packs : rows[r].status = "requested"}
    IN  /\ gone # {} /\ Act
        /\ ForgetPendingRequest(gone) /\ ForgetPendingResume(gone)
        /\ queued' = queued \ {r \in waiting : ~rows[r].awaiting}
        /\ holds' = IF \E r \in waiting : rows[r].awaiting THEN None ELSE holds
        /\ rows' = [r \in Rows |-> IF r \in gone THEN Absent ELSE rows[r]]
        /\ invited' = invited \ gone /\ misread' = misread \ gone
        /\ crossed' = crossed \cup {r \in gone : AskingFor(r)}
        /\ UNCHANGED <<native, handle, cancelled, asking, offers, accepts, agreed, network>>

\* removeNetwork(), by way of forgetNetwork(): nothing is stopped.
RemovesNetwork ==
    /\ network /\ Act
    /\ network' = FALSE
    /\ rows' = [r \in Rows |-> Absent]
    /\ crossed' = Rows /\ invited' = {} /\ misread' = {}
    /\ UNCHANGED <<native, handle, cancelled, pending, bot>>

----------------------------------------------------------------------------
(* The transfers.                                                          *)

\* setDccOfferProgress()
Progress(a) ==
    /\ Under(a) /\ attempts[a].news
    /\ attempts' = [attempts EXCEPT ![a].news = FALSE]
    /\ LET r == attempts[a].row
       IN  /\ rows' = IF Listed(r) THEN [rows EXCEPT ![r].status = "downloading"] ELSE rows
           /\ crossed' = IF r \in cancelled THEN crossed \cup {r} ELSE crossed
    /\ UNCHANGED <<part, spoiled, mixed, handle, cancelled, pending, bot, network, invited, misread, acts>>

\* onListening(): our address goes to the sender, if we have one.
Listening(a) ==
    /\ Phase(a) = "listening" /\ ~attempts[a].told
    /\ LET r == attempts[a].row
       IN  \/ Moves(a, "waiting") /\ UNCHANGED <<rows, cancelled, crossed>>
           \/ /\ attempts' = [attempts EXCEPT ![a].told = TRUE]
              /\ cancelled' = cancelled \cup {r}
              /\ rows' = Patched(r, "failed")
              /\ crossed' = crossed \cup {r}
    /\ UNCHANGED <<part, spoiled, mixed, handle, pending, bot, network, invited, misread, acts>>

Ended(a) == [attempts EXCEPT ![a] = NoAttempt]

Resolves_Silent(a) ==
    /\ Phase(a) = "saved"
    /\ handle' = [handle EXCEPT ![attempts[a].row] = None]
    /\ attempts' = Ended(a)
    /\ UNCHANGED <<part, spoiled, mixed, rows, cancelled, pending, bot, network, ghosts, acts>>

\* trackTransfer(): it is saved.
Resolves(a) ==
    /\ Phase(a) = "saved"
    /\ LET r == attempts[a].row
       IN  /\ handle' = [handle EXCEPT ![r] = None]
           /\ rows' = Patched(r, "downloaded")
    /\ attempts' = Ended(a)
    /\ UNCHANGED <<part, spoiled, mixed, cancelled, pending, bot, network, ghosts, acts>>

\* trackTransfer(): it was stopped, has another address to try, or failed,
\* and then the bot is told that nobody will connect.
Rejects_Silent(a) ==
    /\ Phase(a) \in {"failed", "stopped"}
    /\ LET r == attempts[a].row
       IN  \/ /\ r \in cancelled
              /\ cancelled' = cancelled \ {r} /\ handle' = [handle EXCEPT ![r] = None]
              /\ attempts' = Ended(a)
              /\ UNCHANGED <<rows, queued, holds>>
           \/ /\ r \notin cancelled /\ attempts[a].fallback /\ ~rows[r].tried
              /\ Launch(Ended(a), r, attempts[a].name, attempts[a].from, attempts[a].sends, FALSE, FALSE)
              /\ UNCHANGED <<queued, holds>>
           \/ /\ r \notin cancelled /\ (~attempts[a].fallback \/ rows[r].tried)
              /\ rows' = Patched(r, "failed") /\ handle' = [handle EXCEPT ![r] = None]
              /\ attempts' = Ended(a)
              /\ UNCHANGED <<cancelled, queued, holds>>
    /\ UNCHANGED <<part, spoiled, mixed, pending, offers, accepts, agreed, network, ghosts, acts>>

Rejects_Again(a) ==
    /\ Phase(a) \in {"failed", "stopped"}
    /\ LET r == attempts[a].row
       IN  \/ /\ r \in cancelled
              /\ cancelled' = cancelled \ {r} /\ handle' = [handle EXCEPT ![r] = None]
              /\ attempts' = Ended(a)
              /\ UNCHANGED <<rows, queued, holds>>
           \/ /\ r \notin cancelled /\ attempts[a].fallback
              /\ Launch(Ended(a), r, attempts[a].name, attempts[a].from, attempts[a].sends, TRUE, FALSE)
              /\ UNCHANGED <<queued, holds>>
           \/ /\ r \notin cancelled /\ ~attempts[a].fallback
              /\ rows' = Patched(r, "failed") /\ handle' = [handle EXCEPT ![r] = None]
              /\ attempts' = Ended(a)
              /\ Withdraws(r) /\ UNCHANGED cancelled
    /\ UNCHANGED <<part, spoiled, mixed, pending, offers, accepts, agreed, network, ghosts, acts>>

Rejects(a) ==
    /\ Phase(a) \in {"failed", "stopped"}
    /\ LET r == attempts[a].row
       IN  \/ /\ r \in cancelled
              /\ cancelled' = cancelled \ {r} /\ handle' = [handle EXCEPT ![r] = None]
              /\ attempts' = Ended(a)
              /\ UNCHANGED <<rows, queued, holds>>
           \/ /\ r \notin cancelled /\ attempts[a].fallback /\ ~rows[r].tried
              /\ Launch(Ended(a), r, attempts[a].name, attempts[a].from, attempts[a].sends, FALSE, FALSE)
              /\ UNCHANGED <<queued, holds>>
           \/ /\ r \notin cancelled /\ (~attempts[a].fallback \/ rows[r].tried)
              /\ rows' = Patched(r, "failed") /\ handle' = [handle EXCEPT ![r] = None]
              /\ attempts' = Ended(a)
              /\ Withdraws(r) /\ UNCHANGED cancelled
    /\ UNCHANGED <<part, spoiled, mixed, pending, offers, accepts, agreed, network, ghosts, acts>>

\* The bot's slot is free when the transfer it opened is over.
Over(a) == holds' = IF holds = attempts[a].row /\ Streaming(a) THEN None ELSE holds

Beside == UNCHANGED <<screen, pending, queued, offers, accepts, agreed, network, ghosts, acts>>

Carries(a) == (Opens(a) \/ Connects(a) \/ Receives(a)) /\ UNCHANGED holds /\ Beside

Ends(a) == (Fails(a) \/ Finishes(a)) /\ Over(a) /\ Beside

Unwinds(a) == Stops(a) /\ Over(a) /\ Beside

\* The sender's doing.
Unblocks(a) == Acknowledged(a) /\ UNCHANGED holds /\ Beside

----------------------------------------------------------------------------
Init ==
    /\ NativeInit
    /\ \E listed \in SUBSET Packs :
          rows = [r \in Rows |-> IF r \in listed
                                  THEN [Absent EXCEPT !.status = "available", !.name = File]
                                  ELSE Absent]
    /\ handle = [r \in Rows |-> None] /\ cancelled = {}
    /\ queue = <<>> /\ watchdogs = {} /\ asking = <<>> /\ resumes = {}
    /\ network = TRUE
    /\ queued = {} /\ holds = None /\ offers = {} /\ accepts = {}
    /\ agreed = [n \in Rows |-> 0]
    /\ invited = {} /\ misread = {} /\ crossed = {} /\ acts = 0

Timers == WatchdogFires \/ \E r \in Rows : Answered(r) \/ ResumeGivesUp(r)

User ==
    \/ ReadsCatalogue \/ Clears \/ RemovesNetwork
    \/ \E r \in Rows : Downloads(r) \/ Types(r) \/ Cancels(r) \/ Dismisses(r)

Bot ==
    \/ BotOpens \/ BotOffers \/ BotGivesUp
    \/ ReadsNotice \/ ReadsUnreadable \/ ReadsOffer \/ ReadsAccept

Transfer(a) ==
    \/ Carries(a) \/ Unblocks(a) \/ Ends(a) \/ Unwinds(a)
    \/ Progress(a) \/ Listening(a) \/ Resolves(a) \/ Rejects(a)

Next == Timers \/ User \/ Bot \/ \E a \in Attempts : Transfer(a)

\* Timers fire, what was sent is read, a dial, a read and a wait have a
\* timeout each, and a promise that is settled is heard of. That a sender reads
\* what is written to it is not assumed: there is nothing of Unblocks.
Fairness ==
    /\ WF_vars(WatchdogFires) /\ WF_vars(ReadsOffer)
    /\ \A r \in Rows : WF_vars(Answered(r)) /\ WF_vars(ResumeGivesUp(r))
    /\ \A a \in Attempts :
          /\ WF_vars(Carries(a) \/ Ends(a) \/ Unwinds(a))
          /\ WF_vars(Resolves(a) \/ Rejects(a))

Spec == Init /\ [][Next]_vars /\ Fairness

----------------------------------------------------------------------------
TypeOK ==
    /\ NativeTypeOK
    /\ rows \in [Rows -> [status : {"absent", "available", "requested", "downloading",
                                    "downloaded", "failed"},
                          name : Rows \cup {None}, awaiting : BOOLEAN, tried : BOOLEAN,
                          address : {"offered", "none", "late"}]]
    /\ handle \in [Rows -> Attempts \cup {None}]
    /\ cancelled \subseteq Rows /\ queue \in Seq(Packs) /\ watchdogs \subseteq Rows
    /\ asking \in Seq([row : Rows, name : Rows, passive : BOOLEAN]) /\ Len(asking) <= Asks
    /\ resumes \subseteq [row : Rows, name : Rows, passive : BOOLEAN]
    /\ \A e, f \in resumes : e.name = f.name => e = f
    /\ queued \subseteq Packs /\ holds \in Packs \cup {None}
    /\ offers \subseteq Names /\ accepts \subseteq Rows /\ agreed \in [Rows -> 0..Size]
    /\ invited \subseteq Rows /\ misread \subseteq Rows /\ crossed \subseteq Rows /\ acts \in 0..Acts

\* A transfer that is running can be seen and stopped, and its row has no
\* other (Marmotter.tsx 1565-1567, 2312-2317).
RunningIsShown ==
    \A a \in Attempts :
       Running(a) /\ ~attempts[a].told /\ attempts[a].row \notin crossed =>
          InFlight(attempts[a].row) /\ handle[attempts[a].row] = a

\* A row that says it is downloading is (view-store.ts 78-91): Clear keeps it.
DownloadingRuns ==
    \A r \in Rows \ crossed :
       InFlight(r) => handle[r] # None /\ Under(handle[r]) /\ attempts[handle[r]].row = r

\* Something is always left that moves on a row that only waits (1930-1942).
RequestedIsWatched ==
    \A r \in Rows :
       rows[r].status = "requested" =>
          r \in watchdogs \/ AskingFor(r) \/ Negotiating(r)

\* Nothing is fetched that was not asked for, or not since it was stopped
\* (view-store.ts 206-218), but for what an offer that could not be read has named:
\* its row counts as a transfer that failed (view-store.ts 1118, 233), and the next
\* offer of that name is fetched though nobody asked for it.
Invited ==
    \A a \in Attempts : Running(a) /\ ~attempts[a].told =>
       attempts[a].row \in invited \cup misread \cup crossed

\* A request that is waited for has its row (2242-2250).
QueueIsListed == network => \A r \in ToSet(queue) : Listed(r)

\* What is saved is the sender's file (dcc.rs 489-492).
SavedWhole == spoiled \subseteq mixed

\* What is fetched was asked for or named by an offer that could not be read, and
\* what is saved of it is what was sent.
FetchesAsAsked == Invited /\ SavedWhole

\* What a row shows as arriving waits for a sender that does not read.
Stuck(r) == handle[r] # None /\ Blocked(handle[r])

\* No row waits or arrives for ever (1930-1936), but for a transfer whose
\* acknowledgement is not read (dcc.rs 553-562).
Settles ==
    \A r \in Rows :
       /\ rows[r].status = "requested" ~> rows[r].status # "requested"
       /\ InFlight(r) ~> ~InFlight(r) \/ r \in crossed \/ Stuck(r)

\* A transfer that fails is not left open at the bot, which would wait for
\* us before it serves anything else (1655-1677).
FailureFreesSlot ==
    [][\A r \in Packs \ crossed' :
          rows[r].status = "downloading" /\ rows'[r].status = "failed" => holds' # r]_vars

\* The rows tell what is going on: what runs has one, what waits is watched
\* and what is queued is listed.
RowsTell == TypeOK /\ RunningIsShown /\ DownloadingRuns /\ RequestedIsWatched /\ QueueIsListed

\* Every row comes to an end if its sender reads, and one that fails frees its place at the bot.
EndsWell == Settles /\ FailureFreesSlot

=============================================================================
