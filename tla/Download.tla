------------------------------ MODULE Download ------------------------------
(***************************************************************************)
(* What a transfer does to the disk: download(), receive_passive() and     *)
(* stream_to_file() of crates/marmotter-transport/src/dcc.rs under the     *)
(* commands of crates/marmotter-shell/src/dcc.rs, up to the promise that   *)
(* packages/platform-tauri/src/dcc.ts hands out. Transfers adds the        *)
(* interface that starts and stops them.                                   *)
(*                                                                         *)
(* A file is Size pieces. Of a part-file its length is kept, and whether   *)
(* every piece in it is where it belongs. A command of the interface to    *)
(* stop is read whenever the shell gets round to it.                       *)
(***************************************************************************)
EXTENDS Naturals, FiniteSets

CONSTANTS
    Packs,      \* the rows of a bot's packs
    Names,      \* the names of files, and the rows of direct offers of them; a pack
                \* whose file is not known is named after itself
    Size,       \* the pieces of a file
    Attempts    \* bound: the transfers there may be at a time

ASSUME DownloadAssumption == Packs \cap Names = {} /\ Size \in Nat \ {0}

VARIABLES
    attempts,   \* the transfers
    part,       \* the part-file of each name
    spoiled,    \* the names a file was saved under that is not the sender's
    mixed       \* the names two transfers, or two answers, were mixed up for, and those a
                \* transfer went on with where there was less to go on from

native == <<attempts, part, spoiled, mixed>>

Rows == Packs \cup Names

None == "none"

NoAttempt == [phase |-> None]

Phase(a) == attempts[a].phase

\* A transfer whose promise is not settled.
Under(a) == attempts[a] # NoAttempt

Running(a) == Phase(a) \in {"invoked", "listening", "waiting", "streaming", "acking"}

\* It writes an acknowledgement to a sender that does not read: no timeout, and
\* its cancel signal is not looked at.
Blocked(a) == Phase(a) = "acking"

\* It has a connection and the part-file open.
Streaming(a) == Phase(a) \in {"streaming", "acking"}

\* download() and receivePassive() of the bridge: nobody can stop it until
\* the shell has the command, which follows the listeners. What the sender
\* goes on from belongs to its end of this transfer.
Launched(r, n, from, sends, fallback, passive) ==
    [phase |-> "invoked", row |-> r, name |-> n, from |-> from, sends |-> sends, got |-> from,
     told |-> FALSE, news |-> FALSE, fallback |-> fallback, passive |-> passive]

\* dcc_cancel_download(): an id that is not in the registry is a no-op.
Told(a) == IF Running(a) /\ Phase(a) # "invoked"
           THEN [attempts EXCEPT ![a].told = TRUE] ELSE attempts

Moves(a, phase) == attempts' = [attempts EXCEPT ![a].phase = phase]

\* The command registers its cancel handle, and dials or listens.
Opens(a) ==
    /\ Phase(a) = "invoked"
    /\ Moves(a, IF attempts[a].passive THEN "listening" ELSE "waiting")
    /\ UNCHANGED <<part, spoiled, mixed>>

Connects_Appends(a) ==
    /\ Phase(a) = "waiting"
    /\ LET n == attempts[a].name  from == attempts[a].from
       IN  /\ from > 0 => part[n].len > 0
           /\ attempts' = [attempts EXCEPT ![a].phase = "streaming", ![a].news = TRUE]
           /\ UNCHANGED <<part, mixed>>
    /\ UNCHANGED spoiled

\* The part-file is cut back to where the sender goes on from, or begun anew.
Connects(a) ==
    /\ Phase(a) = "waiting"
    /\ LET n == attempts[a].name  from == attempts[a].from
       IN  /\ from > 0 => part[n].len > 0
           /\ attempts' = [attempts EXCEPT ![a].phase = "streaming", ![a].news = TRUE]
           /\ part' = [part EXCEPT ![n] =
                 [len |-> from, right |-> from = 0 \/ (part[n].right /\ from <= part[n].len)]]
           /\ mixed' = IF \/ from > part[n].len
                          \/ \E b \in Attempts \ {a} : Streaming(b) /\ attempts[b].name = n
                       THEN mixed \cup {n} ELSE mixed
    /\ UNCHANGED spoiled

\* A piece from the sender, who sends what it goes on from. Unless it is a
\* turbo sender it is acknowledged, and has to read that.
Receives(a) ==
    /\ Phase(a) = "streaming"
    /\ attempts[a].got < Size
    /\ attempts[a].got - attempts[a].from < Size - attempts[a].sends
    /\ \E blocks \in BOOLEAN :
          attempts' = [attempts EXCEPT ![a].phase = IF blocks THEN "acking" ELSE "streaming",
                                       ![a].got = @ + 1, ![a].news = @ \/ ~blocks]
    /\ LET file == part[attempts[a].name]
       IN  part' = [part EXCEPT ![attempts[a].name] =
              [len |-> IF file.len > attempts[a].got THEN file.len ELSE attempts[a].got + 1,
               right |-> /\ file.right /\ attempts[a].sends = attempts[a].from
                         /\ attempts[a].got <= file.len]]
    /\ UNCHANGED <<spoiled, mixed>>

\* The sender reads, or is gone: the outcome of the write is not looked at.
Acknowledged(a) ==
    /\ Blocked(a)
    /\ attempts' = [attempts EXCEPT ![a].phase = "streaming", ![a].news = TRUE]
    /\ UNCHANGED <<part, spoiled, mixed>>

\* Nobody there, a part-file that is gone, silence, or an end too soon: what
\* has arrived stays.
Fails(a) ==
    /\ Running(a) /\ Phase(a) # "invoked" /\ ~Blocked(a)
    /\ Phase(a) = "streaming" => attempts[a].got < Size
    /\ Moves(a, "failed")
    /\ UNCHANGED <<part, spoiled, mixed>>

\* settle(): renamed, under a name that is free.
Finishes(a) ==
    /\ Phase(a) = "streaming" /\ attempts[a].got = Size
    /\ Moves(a, "saved")
    /\ part' = [part EXCEPT ![attempts[a].name] = [len |-> 0, right |-> TRUE]]
    /\ spoiled' = IF part[attempts[a].name] = [len |-> Size, right |-> TRUE] THEN spoiled
                  ELSE spoiled \cup {attempts[a].name}
    /\ UNCHANGED mixed

\* cancelled(): before there is a file, or the part-file goes.
Stops(a) ==
    /\ Running(a) /\ attempts[a].told /\ ~Blocked(a)
    /\ Moves(a, "stopped")
    /\ part' = IF Phase(a) = "streaming"
               THEN [part EXCEPT ![attempts[a].name] = [len |-> 0, right |-> TRUE]]
               ELSE part
    /\ UNCHANGED <<spoiled, mixed>>

\* dcc_resumable_bytes()
Resumable(n) == part[n].len

NativeInit ==
    /\ attempts = [a \in Attempts |-> NoAttempt]
    /\ part \in [Rows -> {[len |-> 0, right |-> TRUE], [len |-> 1, right |-> TRUE]}]
    /\ \A r \in Packs : part[r].len = 0
    /\ spoiled = {} /\ mixed = {}

NativeTypeOK ==
    /\ attempts \in [Attempts -> {NoAttempt} \cup
         [phase : {"invoked", "listening", "waiting", "streaming", "acking", "saved", "failed",
                  "stopped"},
          row : Rows, name : Rows, from : 0..Size, sends : 0..Size, got : 0..Size,
          told : BOOLEAN, news : BOOLEAN, fallback : BOOLEAN, passive : BOOLEAN]]
    /\ part \in [Rows -> [len : 0..Size, right : BOOLEAN]]
    /\ spoiled \subseteq Rows /\ mixed \subseteq Rows

=============================================================================
