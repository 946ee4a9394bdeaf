------------------------------- MODULE Native -------------------------------
(***************************************************************************)
(* The native transport: the registry of crates/marmotter-shell/src/       *)
(* transport.rs and, for each connection in it, the pump of crates/        *)
(* marmotter-transport/src/connection.rs with the decoder of lines.rs.     *)
(*                                                                         *)
(* The webview's commands are taken in the order they were invoked. What a *)
(* server sends is a stream of tokens, a line's text being one of them.    *)
(***************************************************************************)
EXTENDS Naturals, Sequences, SequencesExt

CONSTANTS
    Conns,      \* the connections there may be, 1, 2, ...
    Window,     \* lines a peer that does not read lets us write
    MaxLine     \* MAX_LINE_BYTES

ASSUME NativeAssumption == Window \in Nat \ {0} /\ MaxLine \in Nat \ {0}

VARIABLES
    calls,      \* commands invoked and not yet taken
    conns       \* the connections

native == <<calls, conns>>

LF == <<"LF">>
CR == <<"CR">>

(***************************************************************************)
(* pump      "none", "running", "writing" (in write_all) or "ended"        *)
(* handle    the registry holds its Connection                             *)
(* shutdown  its shutdown was sent, or the handle dropped                  *)
(* outgoing  lines queued for the pump                                     *)
(* inbox     lines written that the server has not read                    *)
(* stream    what the server has sent and was not read                     *)
(* cut       the stream ends there: closed by the server, or broken        *)
(* buffer    the decoder's                                                 *)
(* events    what the pump has reported and was not handled                *)
(***************************************************************************)
Unopened == [pump |-> "none", handle |-> FALSE, shutdown |-> FALSE, outgoing |-> <<>>,
             inbox |-> <<>>, stream |-> <<>>, cut |-> FALSE, buffer |-> <<>>, events |-> <<>>]

NativeInit == calls = <<>> /\ conns = [c \in Conns |-> Unopened]

Live(c) == conns[c].pump \in {"running", "writing"}

Closed == <<"closed">>

----------------------------------------------------------------------------
(* LineDecoder.                                                            *)

Feed_KeepsCR(decoder, token) ==
    IF token # LF THEN [decoder EXCEPT !.buffer = Append(@, token)]
    ELSE [lines |-> Append(decoder.lines, decoder.buffer), buffer |-> <<>>]

\* One byte: a newline completes the line, and its CR is not part of it.
Feed(decoder, token) ==
    IF token # LF THEN [decoder EXCEPT !.buffer = Append(@, token)]
    ELSE LET line == IF decoder.buffer # <<>> /\ Last(decoder.buffer) = CR
                     THEN Front(decoder.buffer) ELSE decoder.buffer
         IN  [lines |-> IF line = <<>> THEN decoder.lines ELSE Append(decoder.lines, line),
              buffer |-> <<>>]

Push_Anew(buffer, chunk) == FoldLeft(Feed, [lines |-> <<>>, buffer |-> <<>>], chunk)

\* push(): what the bytes complete, and what is kept of them.
Push(buffer, chunk) == FoldLeft(Feed, [lines |-> <<>>, buffer |-> buffer], chunk)

----------------------------------------------------------------------------
(* The commands.                                                           *)

\* transport_connect succeeding: registered, and its pump started.
Connected(c) == [conns EXCEPT ![c] = [Unopened EXCEPT !.pump = "running", !.handle = TRUE]]

Invoked(op, c, lines) ==
    [i \in DOMAIN lines |-> [op |-> op, on |-> c, line |-> lines[i]]]

Sent(c, lines) == Invoked("send", c, lines)

Disconnected(c) == Invoked("disconnect", c, <<Closed>>)

Call(op) == calls # <<>> /\ Head(calls).op = op /\ calls' = Tail(calls)

\* transport_send: with no handle, or a pump that has ended, it only fails.
TakesSend ==
    /\ Call("send")
    /\ LET c == Head(calls).on
       IN  conns' = IF conns[c].handle /\ Live(c)
                    THEN [conns EXCEPT ![c].outgoing = Append(@, Head(calls).line)] ELSE conns

TakesDisconnect_Forgets ==
    /\ Call("disconnect")
    /\ conns' = [conns EXCEPT ![Head(calls).on].handle = FALSE]

\* transport_disconnect: the handle is removed, and shuts the pump down.
TakesDisconnect ==
    /\ Call("disconnect")
    /\ LET c == Head(calls).on
       IN  conns' = IF conns[c].handle
                    THEN [conns EXCEPT ![c].handle = FALSE, ![c].shutdown = TRUE] ELSE conns

----------------------------------------------------------------------------
(* pump(). Shutting down comes before writing, and writing before reading. *)

\* The loop is left: the socket is closed and the end reported.
Break(c) ==
    conns' = [conns EXCEPT ![c].pump = "ended", ![c].outgoing = <<>>, ![c].stream = <<>>,
                           ![c].inbox = <<>>, ![c].buffer = <<>>, ![c].cut = FALSE,
                           ![c].events = Append(@, Closed)]

ShutsDown(c) ==
    /\ conns[c].pump = "running" /\ conns[c].shutdown
    /\ Break(c)

Writing(c) ==
    \/ conns[c].pump = "running" /\ ~conns[c].shutdown /\ conns[c].outgoing # <<>>
    \/ conns[c].pump = "writing"

\* write_all() waits for the peer, and nothing else happens meanwhile.
Waits(c) ==
    /\ Writing(c) /\ ~conns[c].cut /\ Len(conns[c].inbox) = Window
    /\ conns' = [conns EXCEPT ![c].pump = "writing"]

Writes(c) ==
    /\ Writing(c)
    /\ IF conns[c].cut THEN Break(c)
       ELSE /\ Len(conns[c].inbox) < Window
            /\ conns' = [conns EXCEPT ![c].pump = "running", ![c].outgoing = Tail(@),
                                      ![c].inbox = Append(@, Head(conns[c].outgoing))]

\* read() returns some of what there is, or its end. Past the limit an error
\* comes in place of the lines completed in the same read.
ReadsSocket(c) ==
    /\ conns[c].pump = "running" /\ ~conns[c].shutdown /\ conns[c].outgoing = <<>>
    /\ IF conns[c].stream = <<>> THEN conns[c].cut /\ Break(c)
       ELSE \E count \in 1..Len(conns[c].stream) :
               LET decoder == Push(conns[c].buffer, SubSeq(conns[c].stream, 1, count))
               IN  IF Len(decoder.buffer) > MaxLine THEN Break(c)
                   ELSE conns' = [conns EXCEPT ![c].buffer = decoder.buffer,
                           ![c].stream = SubSeq(@, count + 1, Len(@)),
                           ![c].events = @ \o decoder.lines]

Pump(c) == ShutsDown(c) \/ Waits(c) \/ Writes(c) \/ ReadsSocket(c)

\* The oldest event is emitted; with the last the handle is dropped.
Forwarded(c) ==
    [conns EXCEPT ![c].events = Tail(@),
                  ![c].handle = @ /\ Head(conns[c].events) # Closed]

----------------------------------------------------------------------------
NativeTypeOK ==
    /\ \A i \in DOMAIN calls : calls[i].op \in {"send", "disconnect"} /\ calls[i].on \in Conns
    /\ \A c \in Conns :
          /\ conns[c].pump \in {"none", "running", "writing", "ended"}
          /\ conns[c].handle => ~conns[c].shutdown
          /\ conns[c].pump = "writing" => conns[c].outgoing # <<>>
          /\ Len(conns[c].inbox) <= Window /\ Len(conns[c].buffer) <= MaxLine
          /\ \A i \in DOMAIN conns[c].events : Len(conns[c].events[i]) = 1
          /\ conns[c].pump = "ended" \/ Closed \notin ToSet(conns[c].events)

=============================================================================
