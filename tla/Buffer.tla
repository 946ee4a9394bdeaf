------------------------------- MODULE Buffer -------------------------------
(***************************************************************************)
(* The messages of one conversation (packages/client/src/state/            *)
(* messages.ts): entries [at, text, pending] in the order of time, at most *)
(* Limit of them. Time and text are the id of a message.                   *)
(*                                                                         *)
(* And what every model of a conversation has besides: the server's log of *)
(* it, and the pages the log is served in.                                 *)
(***************************************************************************)
EXTENDS Naturals, SequencesExt

CONSTANTS
    Limit,          \* MESSAGE_LIMIT
    Other,          \* whatever somebody else says
    Texts,          \* what we say
    Page,           \* the most messages of a page, asked for and served
    MaxLog          \* bound on what is said

ASSUME BufferAssumption ==
    /\ Limit \in Nat \ {0} /\ Page \in Nat \ {0} /\ MaxLog \in Nat
    /\ Other \notin Texts

VARIABLES
    connected,      \* registered on a connection and in the channel
    buffer,         \* ChannelState.messages
    log,            \* the server's: what was said
    sent            \* how many lines we have sent

\* Drops the oldest of a buffer that has grown too long.
Trimmed(b) == SubSeq(b, IF Len(b) > Limit THEN Len(b) - Limit + 1 ELSE 1, Len(b))

Place_Last(b, at) == Len(b)

\* How many entries a message of that time goes after: all of them when the
\* last is not newer, otherwise what a binary search finds.
Place(b, at) ==
    LET search[r \in (0..Len(b)) \X (0..Len(b))] ==
            LET low == r[1]
                high == r[2]
                middle == (low + high) \div 2
            IN  IF low >= high THEN low
                ELSE IF b[middle + 1].at <= at THEN search[<<middle + 1, high>>]
                ELSE search[<<low, middle>>]
    IN  IF b = <<>> \/ Last(b).at <= at THEN Len(b) ELSE search[<<0, Len(b)>>]

\* A message as it is kept once the server has it.
Settled(m) == [at |-> m.at, text |-> m.text, pending |-> FALSE]

Insert_Untrimmed(b, m) ==
    LET i == SelectInSeq(b, LAMBDA e : e.at = m.at /\ e.text = m.text)
    IN  IF i = 0 THEN InsertAt(b, Place(b, m.at) + 1, m)
        ELSE IF m.pending /\ ~b[i].pending THEN b
        ELSE [b EXCEPT ![i] = Settled(m)]

\* insertMessage(): a message already there is merged with its second copy.
Insert(b, m) ==
    LET i == SelectInSeq(b, LAMBDA e : e.at = m.at /\ e.text = m.text)
    IN  IF i = 0 THEN Trimmed(InsertAt(b, Place(b, m.at) + 1, m))
        ELSE IF m.pending /\ ~b[i].pending THEN b
        ELSE [b EXCEPT ![i] = Settled(m)]

Reconcile_Inserts(b, m) == Insert(b, m)

\* reconcileEcho(): takes the place of the last line that waits for it.
Reconcile(b, m) ==
    LET i == SelectLastInSeq(b, LAMBDA e : e.pending /\ e.text = m.text)
    IN  IF i = 0 \/ m \in ToSet(b) THEN Insert(b, m) ELSE [b EXCEPT ![i] = m]

\* The last positions before p, as many as a page holds.
PageBefore(p) ==
    LET first == IF p > Page THEN p - Page ELSE 1
    IN  [i \in 1..(p - first) |-> first + i - 1]

=============================================================================
