------------------------------- MODULE Panel -------------------------------
(***************************************************************************)
(* The channel settings panel (packages/ui/src/app/ChannelPanel.tsx) over  *)
(* what the session knows of two channels and what the server holds of     *)
(* them: the form of the settings tab, filled from the channel and changed *)
(* by the user while others change the channel, and the table of the ban   *)
(* tab, which is asked for when the tab is first shown.                    *)
(*                                                                         *)
(* The shell mounts one panel for whatever channel is selected and keeps   *)
(* whether it is open (Marmotter.tsx).  React renders on each change of    *)
(* what is shown, so a step that changes it renders too: Show.             *)
(***************************************************************************)
EXTENDS Modes

CONSTANTS
    Channels,           \* the channels we are an operator of
    Unselected,         \* no channel: a private conversation is selected
    ModesPerCommand,    \* ISUPPORT's MODES
    Past,               \* those of them that were there before us
    MaxSteps,           \* bound: what the user does
    MaxChanges          \* bound: what others do to the channels

ASSUME PanelAssumption ==
    /\ Unselected \notin Channels
    /\ Past \subseteq Channels
    /\ ModesPerCommand \in Nat \ {0} /\ {MaxSteps, MaxChanges} \subseteq Nat

VARIABLES
    held,       \* by channel: what the server holds, `modes`, `topic` and `bans`
    toServer,   \* our lines under way, oldest first
    toClient,   \* the server's lines under way, oldest first
    known,      \* NetworkState.channels: `modes`, `topic`, `lists.ban`, `listsLoading`
    selected,   \* selection.target
    shell,      \* channelPanelOpen and channelPanelTab
    panel,      \* the state of the mounted ChannelPanel
    touched,    \* what the user changed since the form was filled
    stale,      \* the topic changed since the form was filled
    wanted,     \* by channel: what was saved last, while nobody changed it since
    told,       \* by channel: the server was asked for its modes, or had none
    answered,   \* by channel: the bans the server last answered with
    first,      \* the channel whose ban tab was shown first
    mounts,     \* times the panel was mounted
    steps,      \* of the user, so far
    changes     \* of others, so far

vars == <<held, toServer, toClient, known, selected, shell, panel, touched, stale,
          wanted, told, answered, first, mounts, steps, changes>>

Topics == {"", "t"}
Fields == {"m", "k", "l", "topic"}
Nothing == [what |-> "nothing"]
Unmounted == [tab |-> "unmounted"]

\* A channel just created, and one with a past.
Fresh == [modes |-> NoModes, topic |-> "", bans |-> {}]
Old == [modes |-> [flags |-> {"k", "l"}, params |-> [k |-> "x", l |-> "5"]],
        topic |-> "t", bans |-> {"n"}]

Line(c, sent) == [c |-> c, what |-> "MODE", line |-> Command(sent)]
Text(c, what, text) == [c |-> c, what |-> what, text |-> text]

----------------------------------------------------------------------------
(* What a server does with a MODE line from an operator: a key is set only *)
(* where there is none, and dropped only by naming it; "+b" without a mask *)
(* asks for the list, and no letters at all ask for the modes.             *)

Takes(h, x) ==
    CASE x.mode = "b" -> x.parameter # "" /\ x.add = (x.parameter \notin h.bans)
      [] x.mode = "k" -> IF x.add THEN x.parameter # "" /\ "k" \notin h.modes.flags
                                  ELSE "k" \in h.modes.flags /\ x.parameter = h.modes.params.k
      [] x.mode = "l" -> IF x.add THEN x.parameter \notin {"", h.modes.params.l}
                                  ELSE "l" \in h.modes.flags
      [] x.mode = "m" -> x.add = ("m" \notin h.modes.flags)
      [] OTHER        -> TRUE

Switched(modes, x) ==
    [flags |-> IF x.add THEN modes.flags \cup {x.mode} ELSE modes.flags \ {x.mode},
     params |-> IF x.mode = "m" THEN modes.params
                ELSE [modes.params EXCEPT ![x.mode] = IF x.add THEN x.parameter ELSE ""]]

Made(h, x) ==
    CASE x.mode = "b" -> [h EXCEPT !.bans = IF x.add THEN @ \cup {x.parameter}
                                                     ELSE @ \ {x.parameter}]
      [] x.mode = "o" -> h
      [] OTHER -> [h EXCEPT !.modes = Switched(@, x)]

\* Change by change: what comes of it, and which changes took effect.
Served(h, sent) ==
    LET One(acc, x) == IF Takes(acc.holds, x)
                          THEN [holds |-> Made(acc.holds, x), done |-> Append(acc.done, x)]
                          ELSE acc
    IN  FoldLeft(One, [holds |-> h, done |-> <<>>], sent)

Told(c, done) == IF done = <<>> THEN <<>> ELSE <<Line(c, done)>>

\* 324, with every mode the channel has.
ModesOf(h) ==
    LET all == (IF "m" \in h.modes.flags THEN <<Change(TRUE, "m", "")>> ELSE <<>>)
            \o (IF "l" \in h.modes.flags THEN <<Change(TRUE, "l", h.modes.params.l)>> ELSE <<>>)
            \o (IF "k" \in h.modes.flags THEN <<Change(TRUE, "k", h.modes.params.k)>> ELSE <<>>)
    IN  Command(all)

BansOf(c, h) == [i \in 1..Cardinality(h.bans) |-> Text(c, "367", SetToSeq(h.bans)[i])]
                    \o <<Text(c, "368", "")>>

----------------------------------------------------------------------------
(* Rendering.                                                              *)

\* The form as settingsFrom() and the channel's topic fill it.
Filled(p, k) == [p EXCEPT !.form = SettingsFrom(k.modes), !.topic = k.topic]

Mounted(k, sh) ==
    Filled([openedAt |-> sh.open, tab |-> sh.tab, form |-> {}, topic |-> "",
            requested |-> FALSE], k)

\* The effect that asks for a list: once, and only for a tab that is shown.
Fetches_Always(p) == p.openedAt /\ p.tab = "ban"

Fetches(p) == p.openedAt /\ p.tab = "ban" /\ ~p.requested

Refills_OnMount(replaces) == panel = Unmounted

\* `basis` is not `controls` any longer: another channel's, or changed modes.
Refills(replaces) == panel = Unmounted \/ replaces

\* What is on the screen once the channels are `k`, `s` is selected and the
\* shell is `sh`; `lines` are what the step has sent by then.
Show(k, s, sh, replaces, lines) ==
    LET again == [panel EXCEPT !.openedAt = sh.open,
                               !.tab = IF sh.open /\ ~panel.openedAt THEN sh.tab ELSE @]
        shown == IF panel = Unmounted THEN Mounted(k[s], sh)
                 ELSE IF Refills(replaces) THEN Filled(again, k[s]) ELSE again
        asks == s # Unselected /\ Fetches(shown)
        filled == s = Unselected \/ Refills(replaces)
    IN  /\ known' = k
        /\ selected' = s
        /\ shell' = sh
        /\ panel' = IF s = Unselected THEN Unmounted
                    ELSE [shown EXCEPT !.requested = @ \/ asks]
        /\ toServer' = toServer \o lines
                         \o (IF asks THEN <<Line(s, <<Change(TRUE, "b", "")>>)>> ELSE <<>>)
        /\ touched' = IF filled THEN {} ELSE touched
        /\ stale' = IF filled THEN FALSE ELSE stale \/ k[s].topic # known[s].topic
        /\ first' = IF first = Unselected /\ asks THEN s ELSE first

\* A render that changes nothing but the shell.
ShowShell(sh) == Show(known, selected, sh, FALSE, <<>>)

Step == steps < MaxSteps /\ steps' = steps + 1 /\ UNCHANGED changes

\* Joined, with the topic there and the modes asked for or not.
Init ==
    /\ held = [c \in Channels |-> IF c \in Past THEN Old ELSE Fresh]
    /\ told \in {t \in [Channels -> BOOLEAN] : \A c \in Channels \ Past : t[c]}
    /\ known = [c \in Channels |-> [modes |-> IF told[c] THEN held[c].modes ELSE NoModes,
                                    topic |-> held[c].topic, bans |-> <<>>, loading |-> FALSE]]
    /\ toServer = <<>> /\ toClient = <<>>
    /\ selected = Unselected
    /\ shell = [open |-> FALSE, tab |-> "settings"]
    /\ panel = Unmounted
    /\ touched = {} /\ stale = FALSE
    /\ wanted = [c \in Channels |-> Nothing]
    /\ answered = [c \in Channels |-> Nothing]
    /\ first = Unselected
    /\ mounts = 0 /\ steps = 0 /\ changes = 0

server == <<held, toClient, told, answered>>

----------------------------------------------------------------------------
(* The user.                                                               *)

Selects ==
    \E s \in (Channels \cup {Unselected}) \ {selected} :
        /\ Step
        /\ Show(known, s, shell, TRUE, <<>>)
        /\ mounts' = IF selected = Unselected THEN mounts + 1 ELSE mounts
        /\ UNCHANGED <<server, wanted>>

\* The channel's name, or a member's menu.
Opens ==
    \E tab \in {"settings", "ban"} :
        /\ panel # Unmounted /\ ~panel.openedAt /\ Step
        /\ ShowShell([open |-> TRUE, tab |-> tab])
        /\ UNCHANGED <<server, wanted, mounts>>

Closes ==
    /\ panel # Unmounted /\ panel.openedAt /\ Step
    /\ ShowShell([shell EXCEPT !.open = FALSE])
    /\ UNCHANGED <<server, wanted, mounts>>

\* onChange of the tabs, which renders and may ask for a list.
PicksTab ==
    /\ panel # Unmounted /\ panel.openedAt /\ Step
    /\ \E tab \in {"settings", "ban"} \ {panel.tab} :
          LET picked == [panel EXCEPT !.tab = tab]
              asks == Fetches(picked)
          IN  /\ panel' = [picked EXCEPT !.requested = @ \/ asks]
              /\ toServer' = toServer \o (IF asks
                     THEN <<Line(selected, <<Change(TRUE, "b", "")>>)>> ELSE <<>>)
              /\ first' = IF first = Unselected /\ asks THEN selected ELSE first
    /\ UNCHANGED <<server, known, selected, shell, touched, stale, wanted, mounts>>

OnSettings == panel # Unmounted /\ panel.openedAt /\ panel.tab = "settings"

Edits ==
    /\ OnSettings /\ Step
    /\ \/ \E field \in {"m", "k", "l"} :
             \E value \in IF field = "m" THEN BOOLEAN
                          ELSE IF field = "k" THEN {"", "y"} ELSE {"", "5"} :
                /\ panel.form[field] # value
                /\ panel' = [panel EXCEPT !.form[field] = value]
                /\ touched' = touched \cup {field}
       \/ \E text \in Topics \ {panel.topic} :
             /\ panel' = [panel EXCEPT !.topic = text]
             /\ touched' = touched \cup {"topic"}
    /\ UNCHANGED <<server, toServer, known, selected, shell, stale, wanted, first, mounts>>

Pending == DiffChannelModes(known[selected].modes, panel.form)
TopicChanged == panel.topic # known[selected].topic

\* Nothing of this channel is under way.
Idle(c) == \A lines \in {toServer, toClient} : \A i \in DOMAIN lines : lines[i].c # c

Knows(c) == Idle(c) /\ known[c].modes = held[c].modes /\ known[c].topic = held[c].topic

\* applySettings()
Saves ==
    /\ OnSettings /\ Step
    /\ Pending # <<>> \/ TopicChanged
    /\ LET commands == SerializeModeChanges(Pending, ModesPerCommand)
       IN  Show(known, selected, [shell EXCEPT !.open = FALSE], FALSE,
                [i \in DOMAIN commands |-> [c |-> selected, what |-> "MODE",
                                            line |-> commands[i]]]
                \o (IF TopicChanged THEN <<Text(selected, "TOPIC", panel.topic)>> ELSE <<>>))
    /\ wanted' = [wanted EXCEPT ![selected] =
                      IF Knows(selected) THEN [form |-> panel.form, topic |-> panel.topic]
                                         ELSE Nothing]
    /\ UNCHANGED <<server, mounts>>

\* onAdd and onRemove of the table, and "/mode" in the conversation.
Asks ==
    /\ panel # Unmounted /\ Step
    /\ \E sent \in (IF panel.openedAt /\ panel.tab = "ban"
                       THEN {<<Change(TRUE, "b", "n")>>}
                              \cup {<<Change(FALSE, "b", known[selected].bans[i])>> :
                                        i \in DOMAIN known[selected].bans}
                       ELSE IF ~panel.openedAt THEN {<<>>} ELSE {}) :
          Show(known, selected, shell, FALSE, <<Line(selected, sent)>>)
    /\ UNCHANGED <<server, wanted, mounts>>

----------------------------------------------------------------------------
(* The server.                                                             *)

ServerReads ==
    /\ toServer # <<>>
    /\ toServer' = Tail(toServer)
    /\ LET m == Head(toServer)
           c == m.c
           h == held[c]
           Sends(lines) == toClient' = toClient \o lines
       IN  IF m.what = "TOPIC"
           THEN /\ held' = [held EXCEPT ![c].topic = m.text]
                /\ Sends(<<m>>)
                /\ UNCHANGED <<told, answered>>
           ELSE LET sent == ParseChannelModes(m.line.letters, m.line.params)
                    served == Served(h, sent)
                    lists == Change(TRUE, "b", "") \in ToSet(sent)
                IN  /\ held' = [held EXCEPT ![c] = served.holds]
                    /\ Sends(Told(c, served.done)
                             \o (IF sent = <<>>
                                 THEN <<[c |-> c, what |-> "324", line |-> ModesOf(h)]>> ELSE <<>>)
                             \o (IF lists THEN BansOf(c, served.holds) ELSE <<>>))
                    /\ told' = [told EXCEPT ![c] = @ \/ sent = <<>>]
                    /\ answered' = [answered EXCEPT ![c] =
                                       IF lists THEN [what |-> "bans", bans |-> h.bans] ELSE @]
    /\ UNCHANGED <<known, selected, shell, panel, touched, stale, wanted, first,
                   mounts, steps, changes>>

OthersChanges ==
    { <<Change(FALSE, "l", ""), Change(TRUE, "m", ""), Change(TRUE, "k", "y")>>,
      <<Change(FALSE, "k", "x"), Change(TRUE, "k", "y")>>,
      <<Change(TRUE, "o", "nick"), Change(FALSE, "b", "n"), Change(TRUE, "l", "5")>> }

SomebodyChanges ==
    /\ changes < MaxChanges /\ changes' = changes + 1
    /\ \E c \in Channels :
          /\ \/ \E sent \in OthersChanges :
                   LET served == Served(held[c], sent)
                   IN  /\ served.done # <<>>
                       /\ held' = [held EXCEPT ![c] = served.holds]
                       /\ toClient' = toClient \o Told(c, served.done)
             \/ \E text \in Topics \ {held[c].topic} :
                   /\ held' = [held EXCEPT ![c].topic = text]
                   /\ toClient' = Append(toClient, Text(c, "TOPIC", text))
          /\ wanted' = [wanted EXCEPT ![c] = Nothing]
    /\ UNCHANGED <<toServer, known, selected, shell, panel, touched, stale, told, answered,
                   first, mounts, steps>>

----------------------------------------------------------------------------
(* The reducer, and the render that follows it.                            *)

\* MODE and 324
Moded(k, line) ==
    [k EXCEPT !.modes = ApplyChannelModes(@, ParseChannelModes(line.letters, line.params))]

\* RPL_BANLIST and its end
Listed(k, mask) == [k EXCEPT !.bans = Append(@, mask), !.loading = TRUE]
ListEnds(k) == [k EXCEPT !.loading = FALSE]

ClientReads ==
    /\ toClient # <<>>
    /\ toClient' = Tail(toClient)
    /\ LET m == Head(toClient)
           k == known[m.c]
           new == CASE m.what \in {"MODE", "324"}  -> Moded(k, m.line)
                    [] m.what = "TOPIC"            -> [k EXCEPT !.topic = m.text]
                    [] m.what = "367"              -> Listed(k, m.text)
                    [] OTHER                       -> ListEnds(k)
       IN  Show([known EXCEPT ![m.c] = new], selected, shell,
                m.c = selected /\ m.what \in {"MODE", "324"}, <<>>)
    /\ UNCHANGED <<held, told, answered, wanted, mounts, steps, changes>>

Next == \/ Selects \/ Opens \/ Closes \/ PicksTab \/ Edits \/ Saves \/ Asks
        \/ ServerReads \/ SomebodyChanges \/ ClientReads

Spec == Init /\ [][Next]_vars

----------------------------------------------------------------------------
(* Properties.                                                             *)

ModeStates == [flags : SUBSET {"m", "k", "l"},
               params : [k : {"", "x", "y"}, l : {"", "5"}]]

TypeOK ==
    /\ held \in [Channels -> [modes : ModeStates, topic : Topics, bans : SUBSET {"n"}]]
    /\ \A c \in Channels : /\ known[c].modes \in ModeStates
                           /\ known[c].topic \in Topics
                           /\ known[c].bans \in Seq({"n"})
                           /\ known[c].loading \in BOOLEAN
    /\ selected \in Channels \cup {Unselected}
    /\ shell \in [open : BOOLEAN, tab : {"settings", "ban"}]
    /\ panel = Unmounted <=> selected = Unselected
    /\ panel # Unmounted => panel.openedAt = shell.open
    /\ touched \subseteq Fields

\* With nothing under way, what the client knows of a channel's modes is what
\* the server holds as far as it goes, and the whole of it once the server
\* was asked; the topic it shows is the server's.
KnownHolds ==
    \A c \in Channels : Idle(c) =>
        /\ known[c].topic = held[c].topic
        /\ known[c].modes.flags \subseteq held[c].modes.flags
        /\ \A mode \in known[c].modes.flags \cap {"k", "l"} :
              known[c].modes.params[mode] = held[c].modes.params[mode]
        /\ told[c] => known[c].modes = held[c].modes

\* The ban table of the channel it was first opened in, for as long as the
\* panel stays mounted: asked for once, it shows each ban the server answered
\* with once, and it does not wait for an answer that came.
ListShown ==
    first # Unselected /\ mounts = 1 /\ Idle(first) =>
        /\ answered[first] # Nothing
        /\ ToSet(known[first].bans) = answered[first].bans
        /\ IsInjective(known[first].bans)
        /\ ~known[first].loading

\* Saving sends what the user changed and nothing else, whoever changed the
\* channel and whichever channel is selected meanwhile: the form never
\* re-applies what it was filled with (ChannelPanel.tsx).  The topic is the
\* exception: it may have changed since the form was filled.
PendingIsTouched ==
    panel # Unmounted =>
        /\ \A i \in DOMAIN Pending : Pending[i].mode \in touched
        /\ TopicChanged => "topic" \in touched \/ stale

\* What was saved knowing the channel is what the server holds afterwards,
\* however many commands it took, unless somebody changed the channel since.
SaveTakesEffect ==
    \A c \in Channels : wanted[c] # Nothing /\ Idle(c) =>
        /\ SettingsFrom(held[c].modes) = wanted[c].form
        /\ held[c].topic = wanted[c].topic

\* What the client knows of a channel, and what it saved, is what the server
\* holds.
AgreesWithServer == TypeOK /\ KnownHolds /\ ListShown /\ SaveTakesEffect

=============================================================================
