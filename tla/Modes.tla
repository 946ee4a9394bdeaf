------------------------------- MODULE Modes -------------------------------
(***************************************************************************)
(* Channel modes as lines carry them: letters with signs on one side,      *)
(* parameters on the other, and only the kind of each letter to say which  *)
(* parameter belongs to which (packages/protocol/src/modes.ts), with the   *)
(* form of the settings panel and the changes that lead from what is known *)
(* of a channel to that form (packages/ui/src/app/channel-settings.ts).    *)
(*                                                                         *)
(* One letter of each kind. "" is no value, as it is in the source.        *)
(***************************************************************************)
EXTENDS Naturals, SequencesExt

\* classifyChannelMode(), for a network that advertises these five.
Kind == [o |-> "prefix", b |-> "list", k |-> "parameter",
         l |-> "parameter-when-set", m |-> "flag"]

TakesParameter_Always(kind, add) ==
    kind \in {"list", "parameter", "prefix", "parameter-when-set"}

\* takesParameter()
TakesParameter(kind, add) ==
    \/ kind \in {"list", "parameter", "prefix"}
    \/ kind = "parameter-when-set" /\ add

Change(add, mode, parameter) == [add |-> add, mode |-> mode, parameter |-> parameter]

\* parseChannelModes(): each letter draws its parameter in turn.
ParseChannelModes(letters, params) ==
    LET Draw(acc, x) ==
            LET draws == TakesParameter(Kind[x.mode], x.add) /\ acc.rest # <<>>
            IN  [rest |-> IF draws THEN Tail(acc.rest) ELSE acc.rest,
                 changes |-> Append(acc.changes,
                                    Change(x.add, x.mode, IF draws THEN Head(acc.rest) ELSE ""))]
    IN  FoldLeft(Draw, [rest |-> params, changes |-> <<>>], letters).changes

\* One command of serializeModeChanges().
Command(changes) ==
    [letters |-> [i \in 1..Len(changes) |-> [add |-> changes[i].add, mode |-> changes[i].mode]],
     params |-> LET Put(params, x) ==
                        IF x.parameter # "" /\ TakesParameter(Kind[x.mode], x.add)
                           THEN Append(params, x.parameter) ELSE params
                IN  FoldLeft(Put, <<>>, changes)]

\* serializeModeChanges(): no more than `limit` changes in a command.
SerializeModeChanges(changes, limit) ==
    [i \in 1..((Len(changes) + limit - 1) \div limit) |->
        Command(SubSeq(changes, (i - 1) * limit + 1,
                       IF i * limit < Len(changes) THEN i * limit ELSE Len(changes)))]

----------------------------------------------------------------------------
(* ChannelModeState: the letters that are set, and the values of those     *)
(* that have one.                                                          *)

NoModes == [flags |-> {}, params |-> [k |-> "", l |-> ""]]

ApplyChange_KeepsValue(state, change) ==
    IF Kind[change.mode] \in {"prefix", "list"} THEN state
    ELSE IF ~change.add THEN [state EXCEPT !.flags = @ \ {change.mode}]
    ELSE [flags |-> state.flags \cup {change.mode},
          params |-> IF change.parameter = "" \/ state.params[change.mode] # "" THEN state.params
                     ELSE [state.params EXCEPT ![change.mode] = change.parameter]]

ApplyChange(state, change) ==
    IF Kind[change.mode] \in {"prefix", "list"} THEN state
    ELSE LET valued == change.mode \in DOMAIN state.params
             with == IF valued /\ (~change.add \/ change.parameter # "")
                        THEN [state.params EXCEPT ![change.mode] = change.parameter]
                        ELSE state.params
         IN  [flags |-> IF change.add THEN state.flags \cup {change.mode}
                                      ELSE state.flags \ {change.mode},
              params |-> IF change.add \/ ~valued THEN with
                         ELSE [with EXCEPT ![change.mode] = ""]]

\* applyChannelModes()
ApplyChannelModes(state, changes) == FoldLeft(ApplyChange, state, changes)

----------------------------------------------------------------------------
(* The panel's form.                                                       *)

Value(state, mode) == IF mode \in state.flags THEN state.params[mode] ELSE ""

\* channelControls() and settingsFrom(): what the form shows to begin with.
SettingsFrom(state) ==
    [m |-> "m" \in state.flags, k |-> Value(state, "k"), l |-> Value(state, "l")]

DiffValue_Overwrites(state, settings, mode) ==
    LET wanted == settings[mode]
        current == Value(state, mode)
    IN  IF wanted = current THEN <<>>
        ELSE IF wanted = ""
             THEN <<Change(FALSE, mode, IF Kind[mode] = "parameter" THEN current ELSE "")>>
        ELSE <<Change(TRUE, mode, wanted)>>

\* A key is dropped by naming it, and before there is another one.
DiffValue(state, settings, mode) ==
    LET wanted == settings[mode]
        current == Value(state, mode)
        named == IF Kind[mode] = "parameter" THEN current ELSE ""
    IN  IF wanted = current THEN <<>>
        ELSE IF wanted = "" THEN <<Change(FALSE, mode, named)>>
        ELSE (IF named # "" THEN <<Change(FALSE, mode, named)>> ELSE <<>>)
                \o <<Change(TRUE, mode, wanted)>>

\* diffChannelModes()
DiffChannelModes(state, settings) ==
    (IF settings.m # ("m" \in state.flags) THEN <<Change(settings.m, "m", "")>> ELSE <<>>)
    \o DiffValue(state, settings, "k") \o DiffValue(state, settings, "l")

=============================================================================
