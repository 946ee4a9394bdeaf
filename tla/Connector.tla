----------------------------- MODULE Connector -----------------------------
(***************************************************************************)
(* What createReconnectingTransport (packages/client/src/transport/        *)
(* reconnecting.ts) promises the session above it, seen only through       *)
(* `onStateChange` and `onClose`: an attempt begins from rest, ends in a   *)
(* connection, in a wait or for good, and the end is announced once.       *)
(***************************************************************************)
EXTENDS Naturals

VARIABLES
    kind,       \* the ConnectionState's kind
    announced   \* how many closes have been announced to the session

vars == <<kind, announced>>

Kinds == {"idle", "connecting", "connected", "waiting", "stopped"}

Init == kind = "idle" /\ announced = 0

\* An attempt begins, the first one or the one a wait was for.
Dial ==
    /\ kind \in {"idle", "waiting"}
    /\ kind' = "connecting"
    /\ UNCHANGED announced

\* The attempt in hand succeeds.
Open ==
    /\ kind = "connecting"
    /\ kind' = "connected"
    /\ UNCHANGED announced

\* An attempt or a connection is lost and another attempt will follow.
Lose ==
    /\ kind \in {"connecting", "connected"}
    /\ kind' = "waiting"
    /\ UNCHANGED announced

\* The user, a permanent failure or the attempt limit ends it.
Stop ==
    /\ kind # "stopped"
    /\ kind' = "stopped"
    /\ announced' = announced + 1

Next == Dial \/ Open \/ Lose \/ Stop

Spec == Init /\ [][Next]_vars

=============================================================================
