--------------------------- MODULE Channel_proofs ---------------------------
(***************************************************************************)
(* Proofs about a channel: its settings panel (Panel), for any channels,   *)
(* MODES limit and bounds, and its member list (Channel), for any nicks,   *)
(* modes and connections.                                                  *)
(*                                                                         *)
(* SavesOnlyTouched: saving never sends what the user did not change.  The *)
(* form is a copy: it has to be shown that whatever is not touched in it   *)
(* still is what the client knows, over all that others change, the        *)
(* selection moving, and the panel mounted again.  What the form is        *)
(* compared by, DiffChannelModes, is then shown to name only what differs. *)
(*                                                                         *)
(* AlwaysAgrees: once no line about a channel is under way, the client and *)
(* the server agree.  Lines are always under way, so what is kept is about *)
(* what they lead to (Comes): what is known, brought up to date by the     *)
(* server's lines, is what is held; what is held, brought up to date by    *)
(* ours, is what was saved.  That rests on what the operators on modes do  *)
(* to each other: a line parses back to the changes it was made of         *)
(* (ParsesBack), the changes a form is made into lead to it (DiffServes),  *)
(* cut into any number of commands (LinesServe), and what a server tells   *)
(* of the changes it took brings a client to what it holds (ServedIs).     *)
(*                                                                         *)
(* MembersAlwaysAgree, where only arrivals and mode changes come amid a    *)
(* reply to NAMES.  What the client is still to become is a path: the      *)
(* states it goes through as it reads the lines under way, one after       *)
(* another. A step of the server makes the path longer, one of the client  *)
(* makes it start later, and its end is what the server's list is compared *)
(* with.                                                                   *)
(***************************************************************************)
EXTENDS Panel, Channel, FunctionTheorems, SequenceTheorems, WellFoundedInduction, FiniteSetTheorems, TLAPS

----------------------------------------------------------------------------
(* The difference of a form and a state names only what differs.           *)

\* What DiffValue may name.
Named(state, settings, mode) ==
    IF settings[mode] = Value(state, mode) THEN {}
    ELSE {Change(TRUE, mode, settings[mode]), Change(FALSE, mode, ""),
          Change(FALSE, mode, Value(state, mode))}

\* A change names its mode.
LEMMA ChangeOf ==
    ASSUME NEW add, NEW mode, NEW parameter
    PROVE  Change(add, mode, parameter).mode = mode
BY DEF Change

\* diffChannelModes() of one mode names it, and is empty where the form has
\* its value.
LEMMA DiffValueNames ==
    ASSUME NEW state, NEW settings, NEW mode
    PROVE  DiffValue(state, settings, mode) \in Seq(Named(state, settings, mode))
<1> DEFINE named == IF Kind[mode] = "parameter" THEN Value(state, mode) ELSE ""
           a == Change(FALSE, mode, named)
           b == Change(TRUE, mode, settings[mode])
           S == Named(state, settings, mode)
<1>1. CASE settings[mode] = Value(state, mode)
  BY <1>1 DEF DiffValue
<1>2. CASE settings[mode] # Value(state, mode)
  <2>1. a \in S /\ b \in S
    BY <1>2 DEF Named
  <2>2. DiffValue(state, settings, mode) =
            IF settings[mode] = "" THEN <<a>>
            ELSE (IF named # "" THEN <<a>> ELSE <<>>) \o <<b>>
    BY <1>2 DEF DiffValue
  <2> HIDE DEF a, b, S, named
  <2>3. <<a>> \in Seq(S) /\ <<b>> \in Seq(S) /\ <<>> \in Seq(S)
    BY <2>1
  <2> DEFINE t == IF named # "" THEN <<a>> ELSE <<>>
  <2>4. t \in Seq(S)
    BY <2>3
  <2>5. t \o <<b>> \in Seq(S)
    <3> HIDE DEF t
    <3> QED BY <2>3, <2>4
  <2>6. DiffValue(state, settings, mode) \in Seq(S)
    BY <2>2, <2>3, <2>5
  <2> QED BY <2>6 DEF S
<1> QED BY <1>1, <1>2

\* The letters DiffChannelModes names are those in which the form differs
\* from settingsFrom() of the state.
LEMMA DiffNames ==
    ASSUME NEW state, NEW settings,
           NEW i \in DOMAIN DiffChannelModes(state, settings)
    PROVE  LET mode == DiffChannelModes(state, settings)[i].mode
           IN  \/ mode = "m" /\ settings.m # ("m" \in state.flags)
               \/ mode = "k" /\ settings.k # Value(state, "k")
               \/ mode = "l" /\ settings.l # Value(state, "l")
<1> DEFINE differs == settings.m # ("m" \in state.flags)
           x == Change(settings.m, "m", "")
           M == IF differs THEN {x} ELSE {}
           K == Named(state, settings, "k")
           L == Named(state, settings, "l")
           s == IF differs THEN <<x>> ELSE <<>>
           k == DiffValue(state, settings, "k")
           l == DiffValue(state, settings, "l")
           d == DiffChannelModes(state, settings)
           S == M \cup K \cup L
<1>1. d = s \o k \o l
  BY DEF DiffChannelModes
<1>2. s \in Seq(S)
  <2>1. CASE differs
    <3> HIDE DEF x, differs
    <3> QED BY <2>1
  <2>2. CASE ~differs
    BY <2>2
  <2> QED BY <2>1, <2>2
<1>3. k \in Seq(S) /\ l \in Seq(S)
  <2>1. k \in Seq(K) /\ l \in Seq(L)
    BY DiffValueNames
  <2> HIDE DEF k, l, M, K, L
  <2> QED BY <2>1
<1>4. d \in Seq(S)
  <2> HIDE DEF s, k, l, d, S
  <2> QED BY <1>1, <1>2, <1>3
<1>5. d[i] \in S
  <2>1. i \in DOMAIN d
    OBVIOUS
  <2> HIDE DEF d, S
  <2> QED BY <1>4, <2>1
<1>6. ASSUME NEW y \in M PROVE y.mode = "m" /\ differs
  <2>1. x.mode = "m"
    BY ChangeOf
  <2> HIDE DEF x, differs
  <2> QED BY <2>1
<1>7. ASSUME NEW mode, NEW y \in Named(state, settings, mode)
      PROVE  y.mode = mode /\ settings[mode] # Value(state, mode)
  <2> DEFINE c1 == Change(TRUE, mode, settings[mode])
             c2 == Change(FALSE, mode, "")
             c3 == Change(FALSE, mode, Value(state, mode))
  <2>1. settings[mode] # Value(state, mode) /\ y \in {c1, c2, c3}
    BY DEF Named
  <2>2. c1.mode = mode /\ c2.mode = mode /\ c3.mode = mode
    BY ChangeOf
  <2> HIDE DEF c1, c2, c3
  <2> QED BY <2>1, <2>2
<1>8. \/ d[i].mode = "m" /\ differs
      \/ d[i].mode = "k" /\ settings["k"] # Value(state, "k")
      \/ d[i].mode = "l" /\ settings["l"] # Value(state, "l")
  <2>1. d[i] \in M \/ d[i] \in K \/ d[i] \in L
    <3> HIDE DEF d, M, K, L
    <3> QED BY <1>5
  <2>2. CASE d[i] \in M
    <3> HIDE DEF d, M, differs
    <3> QED BY <1>6, <2>2
  <2>3. CASE d[i] \in K
    <3> HIDE DEF d
    <3> QED BY <1>7, <2>3
  <2>4. CASE d[i] \in L
    <3> HIDE DEF d
    <3> QED BY <1>7, <2>4
  <2> QED BY <2>1, <2>2, <2>3, <2>4
<1> QED BY <1>8

----------------------------------------------------------------------------
(* What is not touched in the form is what the client knows.               *)

\* A channel of the client's has its four fields.
Shaped(k) == k = [modes |-> k.modes, topic |-> k.topic, bans |-> k.bans, loading |-> k.loading]

\* A mounted panel has its fields, and its form has one for each mode.
ShapedPanel(p) ==
    /\ p = [openedAt |-> p.openedAt, tab |-> p.tab, form |-> p.form, topic |-> p.topic,
            requested |-> p.requested]
    /\ p.form = [m |-> p.form.m, k |-> p.form.k, l |-> p.form.l]
    /\ p.tab \in {"settings", "ban"}

\* The form `p` of a channel `k`, where the user has touched `t` of it and
\* the topic may have changed since.
Follows(p, k, t, st) ==
    /\ "m" \notin t => p.form.m = SettingsFrom(k.modes).m
    /\ "k" \notin t => p.form.k = SettingsFrom(k.modes).k
    /\ "l" \notin t => p.form.l = SettingsFrom(k.modes).l
    /\ "topic" \notin t /\ ~st => p.topic = k.topic

FormInv ==
    /\ \A c \in Channels : Shaped(known[c])
    /\ DOMAIN known = Channels
    /\ shell \in [open : BOOLEAN, tab : {"settings", "ban"}]
    /\ selected \in Channels \cup {Unselected}
    /\ panel = Unmounted <=> selected = Unselected
    /\ panel # Unmounted => ShapedPanel(panel) /\ Follows(panel, known[selected], touched, stale)

\* A panel that has its fields is mounted.
LEMMA ShapedMounted == ASSUME NEW p, ShapedPanel(p) PROVE p # Unmounted
BY DEF ShapedPanel, Unmounted

\* A panel filled from a channel follows it.
LEMMA FilledFollows ==
    ASSUME NEW p, NEW k, NEW f, NEW st,
           p = [openedAt |-> p.openedAt, tab |-> p.tab, form |-> f, topic |-> p.topic,
                requested |-> p.requested],
           p.tab \in {"settings", "ban"}
    PROVE  ShapedPanel(Filled(p, k)) /\ Follows(Filled(p, k), k, {}, st)
<1> DEFINE s == SettingsFrom(k.modes)
           q == Filled(p, k)
<1>1. s = [m |-> s.m, k |-> s.k, l |-> s.l]
  BY DEF SettingsFrom
<1>2. q = [p EXCEPT !.form = s, !.topic = k.topic]
  BY DEF Filled
<1> HIDE DEF s, q
<1>3. /\ q = [openedAt |-> p.openedAt, tab |-> p.tab, form |-> s, topic |-> k.topic,
              requested |-> p.requested]
  BY <1>2
<1>4. ShapedPanel(q)
  BY <1>1, <1>3 DEF ShapedPanel
<1>5. Follows(q, k, {}, st)
  BY <1>3 DEF Follows, s
<1> QED BY <1>4, <1>5 DEF q

\* Rendering keeps the form with the channel, where the modes of the channel
\* that stays selected are replaced only by a step that says so.
LEMMA ShowFollows ==
    ASSUME FormInv,
           NEW k, NEW s \in Channels \cup {Unselected}, NEW sh, NEW replaces, NEW lines,
           \A c \in Channels : Shaped(k[c]),
           DOMAIN k = Channels,
           sh \in [open : BOOLEAN, tab : {"settings", "ban"}],
           ~replaces => s = selected /\ (s # Unselected => k[s].modes = known[s].modes),
           Show(k, s, sh, replaces, lines)
    PROVE  FormInv'
<1>1. CASE s = Unselected
  <2>1. panel' = Unmounted /\ known' = k /\ selected' = s /\ shell' = sh
    BY <1>1 DEF Show
  <2> QED BY <1>1, <2>1 DEF FormInv, Shaped
<1>2. CASE s # Unselected
  <2> DEFINE again == [panel EXCEPT !.openedAt = sh.open,
                                    !.tab = IF sh.open /\ ~panel.openedAt THEN sh.tab ELSE @]
             shown == IF panel = Unmounted THEN Mounted(k[s], sh)
                      ELSE IF Refills(replaces) THEN Filled(again, k[s]) ELSE again
             filled == Refills(replaces)
             asks == Fetches(shown)
  <2>1. /\ known' = k /\ selected' = s /\ shell' = sh
        /\ panel' = [shown EXCEPT !.requested = shown.requested \/ asks]
        /\ touched' = IF filled THEN {} ELSE touched
        /\ stale' = IF filled THEN FALSE ELSE stale \/ k[s].topic # known[s].topic
    BY <1>2 DEF Show
  <2>2. panel # Unmounted => ShapedPanel(again) /\ again.form = panel.form /\ again.topic = panel.topic
    <3> SUFFICES ASSUME panel # Unmounted PROVE ShapedPanel(again) /\ again.form = panel.form
                                                 /\ again.topic = panel.topic
      OBVIOUS
    <3>1. ShapedPanel(panel)
      BY DEF FormInv
    <3> DEFINE tab == IF sh.open /\ ~panel.openedAt THEN sh.tab ELSE panel.tab
    <3>2. tab \in {"settings", "ban"}
      BY <3>1 DEF ShapedPanel
    <3>3. again = [panel EXCEPT !.openedAt = sh.open, !.tab = tab]
      OBVIOUS
    <3> HIDE DEF again, tab
    <3> QED BY <3>1, <3>2, <3>3 DEF ShapedPanel
  <2>3. ShapedPanel(shown) /\ Follows(shown, k[s], touched', stale')
    <3>1. CASE panel = Unmounted
      <4> DEFINE blank == [openedAt |-> sh.open, tab |-> sh.tab, form |-> {}, topic |-> "",
                           requested |-> FALSE]
      <4>1. shown = Filled(blank, k[s]) /\ touched' = {}
        BY <3>1, <2>1 DEF Mounted, Refills
      <4>2. blank = [openedAt |-> blank.openedAt, tab |-> blank.tab, form |-> {},
                     topic |-> blank.topic, requested |-> blank.requested]
            /\ blank.tab \in {"settings", "ban"}
        OBVIOUS
      <4> HIDE DEF blank, shown
      <4> QED BY <4>1, <4>2, FilledFollows
    <3>2. CASE panel # Unmounted /\ Refills(replaces)
      <4>1. shown = Filled(again, k[s]) /\ touched' = {}
        BY <3>2, <2>1
      <4>2. again = [openedAt |-> again.openedAt, tab |-> again.tab, form |-> again.form,
                     topic |-> again.topic, requested |-> again.requested]
            /\ again.tab \in {"settings", "ban"}
        BY <3>2, <2>2 DEF ShapedPanel
      <4> HIDE DEF again, shown
      <4> QED BY <4>1, <4>2, FilledFollows
    <3>3. CASE panel # Unmounted /\ ~Refills(replaces)
      <4>1. shown = again /\ touched' = touched /\ s = selected
            /\ stale' = (stale \/ k[s].topic # known[s].topic) /\ k[s].modes = known[s].modes
        BY <3>3, <2>1, <1>2 DEF Refills
      <4>2. Follows(panel, known[s], touched, stale)
        BY <3>3, <4>1 DEF FormInv
      <4>3. ShapedPanel(again) /\ again.form = panel.form /\ again.topic = panel.topic
        BY <2>2, <3>3
      <4> HIDE DEF again, shown
      <4>4. Follows(shown, k[s], touched', stale')
        BY <4>1, <4>2, <4>3 DEF Follows
      <4> QED BY <4>1, <4>3, <4>4
    <3> QED BY <3>1, <3>2, <3>3
  <2> HIDE DEF shown, asks, again, filled
  <2>4. /\ panel' = [openedAt |-> shown.openedAt, tab |-> shown.tab, form |-> shown.form,
                     topic |-> shown.topic, requested |-> shown.requested \/ asks]
    BY <2>1, <2>3 DEF ShapedPanel
  <2>5. ShapedPanel(panel') /\ Follows(panel', k[s], touched', stale')
    BY <2>3, <2>4 DEF ShapedPanel, Follows
  <2>6. panel' # Unmounted
    BY <2>5, ShapedMounted
  <2>7. /\ \A c \in Channels : Shaped(known'[c])
        /\ DOMAIN known' = Channels
        /\ shell' \in [open : BOOLEAN, tab : {"settings", "ban"}]
        /\ selected' \in Channels \cup {Unselected} /\ selected' = s
    BY <2>1
  <2> QED BY <1>2, <2>1, <2>5, <2>6, <2>7 DEF FormInv, Shaped, ShapedPanel, Follows
<1> QED BY <1>1, <1>2

----------------------------------------------------------------------------
(* The invariant.                                                          *)

\* Nothing is mounted at first.
LEMMA FormInit == Init => FormInv
<1> SUFFICES ASSUME Init PROVE FormInv
  OBVIOUS
<1>1. /\ known = [c \in Channels |-> [modes |-> IF told[c] THEN held[c].modes ELSE NoModes,
                                      topic |-> held[c].topic, bans |-> <<>>, loading |-> FALSE]]
      /\ shell = [open |-> FALSE, tab |-> "settings"]
      /\ selected = Unselected /\ panel = Unmounted
  BY DEF Init
<1>2. ASSUME NEW c \in Channels PROVE Shaped(known[c])
  <2> DEFINE modes == IF told[c] THEN held[c].modes ELSE NoModes
  <2>1. known[c] = [modes |-> modes, topic |-> held[c].topic, bans |-> <<>>, loading |-> FALSE]
    BY <1>1
  <2> HIDE DEF modes
  <2> QED BY <2>1 DEF Shaped
<1> QED BY <1>1, <1>2 DEF FormInv

\* What FormInv is about.
formVars == <<known, selected, shell, panel, touched, stale>>

\* What the invariant is about, left alone.
LEMMA FormStutter == FormInv /\ UNCHANGED formVars => FormInv'
BY DEF FormInv, formVars, Shaped, ShapedPanel, Follows

\* Each step keeps the form with the channel.
LEMMA FormStep == FormInv /\ [Next]_vars => FormInv'
<1> SUFFICES ASSUME FormInv, [Next]_vars PROVE FormInv'
  OBVIOUS
<1>0. /\ \A c \in Channels : Shaped(known[c])
      /\ DOMAIN known = Channels
      /\ shell \in [open : BOOLEAN, tab : {"settings", "ban"}]
      /\ selected \in Channels \cup {Unselected}
  BY DEF FormInv
<1>1. CASE Selects
  <2>1. PICK s \in (Channels \cup {Unselected}) \ {selected} : Show(known, s, shell, TRUE, <<>>)
    BY <1>1 DEF Selects
  <2> QED BY <1>0, <2>1, ShowFollows
<1>2. CASE Opens
  <2>1. PICK tab \in {"settings", "ban"} : ShowShell([open |-> TRUE, tab |-> tab])
    BY <1>2 DEF Opens
  <2> DEFINE sh == [open |-> TRUE, tab |-> tab]
  <2>2. sh \in [open : BOOLEAN, tab : {"settings", "ban"}]
    OBVIOUS
  <2>3. Show(known, selected, sh, FALSE, <<>>)
    BY <2>1 DEF ShowShell
  <2> HIDE DEF sh
  <2> QED BY <1>0, <2>2, <2>3, ShowFollows
<1>3. CASE Closes
  <2> DEFINE sh == [shell EXCEPT !.open = FALSE]
  <2>1. sh \in [open : BOOLEAN, tab : {"settings", "ban"}]
    BY <1>0
  <2>2. Show(known, selected, sh, FALSE, <<>>)
    BY <1>3 DEF Closes, ShowShell
  <2> HIDE DEF sh
  <2> QED BY <1>0, <2>1, <2>2, ShowFollows
<1>4. CASE PicksTab
  <2>1. panel # Unmounted /\ UNCHANGED <<known, selected, shell, touched, stale>>
    BY <1>4 DEF PicksTab
  <2>2. PICK tab \in {"settings", "ban"} :
           panel' = [[panel EXCEPT !.tab = tab] EXCEPT
                        !.requested = @ \/ Fetches([panel EXCEPT !.tab = tab])]
    BY <1>4 DEF PicksTab
  <2>3. ShapedPanel(panel) /\ Follows(panel, known[selected], touched, stale)
    BY <2>1 DEF FormInv
  <2> DEFINE asks == Fetches([panel EXCEPT !.tab = tab])
  <2>4. panel' = [openedAt |-> panel.openedAt, tab |-> tab, form |-> panel.form,
                  topic |-> panel.topic, requested |-> panel.requested \/ asks]
    <3> HIDE DEF asks
    <3> QED BY <2>2, <2>3 DEF asks, ShapedPanel
  <2> HIDE DEF asks
  <2>5. ShapedPanel(panel') /\ Follows(panel', known[selected], touched, stale)
    BY <2>3, <2>4 DEF ShapedPanel, Follows
  <2>6. panel' # Unmounted
    BY <2>5, ShapedMounted
  <2> QED BY <1>0, <2>1, <2>5, <2>6 DEF FormInv, Shaped, ShapedPanel, Follows
<1>5. CASE Edits
  <2>1. /\ panel # Unmounted
        /\ UNCHANGED <<known, selected, shell, stale>>
    BY <1>5 DEF Edits, OnSettings
  <2>2. ShapedPanel(panel) /\ Follows(panel, known[selected], touched, stale)
    BY <2>1 DEF FormInv
  <2>3. ShapedPanel(panel') /\ Follows(panel', known[selected], touched', stale)
    <3>1. CASE \E field \in {"m", "k", "l"} : \E value :
                  panel' = [panel EXCEPT !.form[field] = value] /\ touched' = touched \cup {field}
      <4>1. PICK field, value :
                  field \in {"m", "k", "l"} /\ panel' = [panel EXCEPT !.form[field] = value] /\ touched' = touched \cup {field}
        BY <3>1
      <4> DEFINE f == [panel.form EXCEPT ![field] = value]
      <4>2. panel' = [openedAt |-> panel.openedAt, tab |-> panel.tab, form |-> f,
                      topic |-> panel.topic, requested |-> panel.requested]
        <5>1. panel' = [panel EXCEPT !.form = f]
          BY <4>1
        <5> HIDE DEF f
        <5> QED BY <5>1, <2>2 DEF ShapedPanel
      <4>3. f = [m |-> f.m, k |-> f.k, l |-> f.l]
        BY <2>2 DEF ShapedPanel
      <4>4. /\ field # "m" => f.m = panel.form.m
            /\ field # "k" => f.k = panel.form.k
            /\ field # "l" => f.l = panel.form.l
        BY <2>2 DEF ShapedPanel
      <4> HIDE DEF f
      <4> QED BY <2>2, <4>1, <4>2, <4>3, <4>4 DEF ShapedPanel, Follows
    <3>2. CASE \E text : panel' = [panel EXCEPT !.topic = text] /\ touched' = touched \cup {"topic"}
      <4>1. PICK text : panel' = [panel EXCEPT !.topic = text] /\ touched' = touched \cup {"topic"}
        BY <3>2
      <4>2. panel' = [openedAt |-> panel.openedAt, tab |-> panel.tab, form |-> panel.form,
                      topic |-> text, requested |-> panel.requested]
        BY <4>1, <2>2 DEF ShapedPanel
      <4> QED BY <2>2, <4>1, <4>2 DEF ShapedPanel, Follows
    <3> QED BY <1>5, <3>1, <3>2 DEF Edits
  <2>4. panel' # Unmounted
    BY <2>3, ShapedMounted
  <2> QED BY <1>0, <2>1, <2>3, <2>4 DEF FormInv, Shaped, ShapedPanel, Follows
<1>6. CASE Saves
  <2> DEFINE sh == [shell EXCEPT !.open = FALSE]
  <2>1. sh \in [open : BOOLEAN, tab : {"settings", "ban"}]
    BY <1>0
  <2>2. PICK lines : Show(known, selected, sh, FALSE, lines)
    BY <1>6 DEF Saves
  <2> HIDE DEF sh
  <2> QED BY <1>0, <2>1, <2>2, ShowFollows
<1>7. CASE Asks
  <2>1. PICK lines : Show(known, selected, shell, FALSE, lines)
    BY <1>7 DEF Asks
  <2> QED BY <1>0, <2>1, ShowFollows
<1>8. CASE ServerReads
  BY <1>8, FormStutter DEF ServerReads, formVars
<1>9. CASE SomebodyChanges
  BY <1>9, FormStutter DEF SomebodyChanges, formVars
<1>10. CASE ClientReads
  <2> DEFINE m == Head(toClient)
             k == known[m.c]
             new == CASE m.what \in {"MODE", "324"}  -> Moded(k, m.line)
                      [] m.what = "TOPIC"            -> [k EXCEPT !.topic = m.text]
                      [] m.what = "367"              -> Listed(k, m.text)
                      [] OTHER                       -> ListEnds(k)
             all == [known EXCEPT ![m.c] = new]
             replaces == m.c = selected /\ m.what \in {"MODE", "324"}
  <2>1. Show(all, selected, shell, replaces, <<>>)
    BY <1>10 DEF ClientReads
  <2>2. ASSUME m.c \in Channels
        PROVE  Shaped(new) /\ (m.what \notin {"MODE", "324"} => new.modes = k.modes)
    <3>1. Shaped(k)
      BY <1>0, <2>2
    <3> HIDE DEF k, m
    <3>2. CASE m.what \in {"MODE", "324"}
      <4>1. new = Moded(k, m.line)
        BY <3>2
      <4> HIDE DEF new
      <4> QED BY <3>1, <3>2, <4>1 DEF Shaped, Moded
    <3>3. CASE m.what = "TOPIC"
      <4>1. new = [k EXCEPT !.topic = m.text]
        BY <3>3
      <4> HIDE DEF new
      <4> QED BY <3>1, <4>1 DEF Shaped
    <3>4. CASE m.what = "367"
      <4>1. new = Listed(k, m.text)
        BY <3>4
      <4> HIDE DEF new
      <4> QED BY <3>1, <4>1 DEF Shaped, Listed
    <3>5. CASE m.what \notin {"MODE", "324", "TOPIC", "367"}
      <4>1. new = ListEnds(k)
        BY <3>5
      <4> HIDE DEF new
      <4> QED BY <3>1, <4>1 DEF Shaped, ListEnds
    <3> QED BY <3>2, <3>3, <3>4, <3>5
  <2> HIDE DEF new
  <2>3. (\A c \in Channels : Shaped(all[c])) /\ DOMAIN all = Channels
    BY <1>0, <2>2
  <2>4. ~replaces => selected = selected /\ (selected # Unselected =>
                                                 all[selected].modes = known[selected].modes)
    BY <1>0, <2>2
  <2> HIDE DEF all, replaces
  <2> QED BY <1>0, <2>1, <2>3, <2>4, ShowFollows
<1>11. CASE UNCHANGED vars
  BY <1>11, FormStutter DEF vars, formVars
<1> QED BY <1>1, <1>2, <1>3, <1>4, <1>5, <1>6, <1>7, <1>8, <1>9, <1>10, <1>11 DEF Next

\* A form that follows the channel differs from it only in what is touched.
LEMMA FormSuffices == FormInv => PendingIsTouched
<1> SUFFICES ASSUME FormInv, panel # Unmounted
             PROVE  /\ \A i \in DOMAIN Pending : Pending[i].mode \in touched
                    /\ TopicChanged => "topic" \in touched \/ stale
  BY DEF PendingIsTouched
<1> DEFINE k == known[selected]
<1>1. Follows(panel, k, touched, stale)
  BY DEF FormInv
<1>2. /\ SettingsFrom(k.modes).m = ("m" \in k.modes.flags)
      /\ SettingsFrom(k.modes).k = Value(k.modes, "k")
      /\ SettingsFrom(k.modes).l = Value(k.modes, "l")
  BY DEF SettingsFrom
<1>3. ASSUME NEW i \in DOMAIN Pending PROVE Pending[i].mode \in touched
  <2>1. LET mode == Pending[i].mode
        IN  \/ mode = "m" /\ panel.form.m # ("m" \in k.modes.flags)
            \/ mode = "k" /\ panel.form.k # Value(k.modes, "k")
            \/ mode = "l" /\ panel.form.l # Value(k.modes, "l")
    BY DiffNames DEF Pending
  <2> QED BY <1>1, <1>2, <2>1 DEF Follows
<1> QED BY <1>1, <1>3 DEF Follows, TopicChanged

\* For any channels, any MODES limit, and however long it goes on: what a
\* save would send is what the user changed (ChannelPanel.tsx 133-140).
THEOREM SavesOnlyTouched == Spec => []PendingIsTouched
<1>1. Init => FormInv
  BY FormInit
<1>2. FormInv /\ [Next]_vars => FormInv'
  BY FormStep
<1>3. FormInv => PendingIsTouched
  BY FormSuffices
<1> QED BY <1>1, <1>2, <1>3, PTL DEF Spec

----------------------------------------------------------------------------
(* Induction up to a bound, and along a sequence, over sets.               *)

\* A set of numbers has a least.
LEMMA LeastOf ==
    ASSUME NEW S, S \subseteq Nat, S # {}
    PROVE  \E n \in S : \A m \in S : n <= m
<1> DEFINE R == OpToRel(<, Nat)
<1>1. \E n \in S : \A m \in S : <<m, n>> \notin R
  <2>1. IsWellFoundedOn(R, Nat)
    BY NatLessThanWellFounded
  <2> HIDE DEF R
  <2> QED BY <2>1, WFMin
<1>2. \E n \in S : \A m \in S : n <= m
  <2>1. PICK n \in S : \A m \in S : <<m, n>> \notin R
    BY <1>1
  <2>2. \A m \in S : ~(m < n)
    BY <2>1 DEF OpToRel
  <2> QED BY <2>2
<1> QED BY <1>2

\* Induction up to a bound.
LEMMA UpTo ==
    ASSUME NEW n \in Nat, NEW G, 0 \in G, \A k \in 1..n : k - 1 \in G => k \in G
    PROVE  0..n \subseteq G
<1> SUFFICES ASSUME 0..n \ G # {} PROVE FALSE
  OBVIOUS
<1>0. 0..n \ G \subseteq Nat
  OBVIOUS
<1>1. PICK k \in 0..n \ G : \A m \in 0..n \ G : k <= m
  BY <1>0, LeastOf
<1>2. k \in 1..n /\ k - 1 \in 0..n /\ ~(k <= k - 1)
  BY <1>1
<1>3. k - 1 \in G
  BY <1>1, <1>2
<1> QED BY <1>1, <1>2, <1>3

\* Induction along a sequence.
LEMMA AlongSequence ==
    ASSUME NEW S, NEW G, <<>> \in G,
           \A s \in Seq(S), x \in S : s \in G => Append(s, x) \in G
    PROVE  Seq(S) \subseteq G
<1> SUFFICES ASSUME NEW s \in Seq(S) PROVE s \in G
  OBVIOUS
<1>0. Len(s) \in Nat /\ DOMAIN s = 1..Len(s)
  OBVIOUS
<1> DEFINE H == {k \in 0..Len(s) : SubSeq(s, 1, k) \in G}
<1>1. 0 \in H
  <2>1. SubSeq(s, 1, 0) = <<>>
    BY SubSeqEmpty, SMT
  <2>2. SubSeq(s, 1, 0) \in G
    BY <2>1, Zenon
  <2>3. 0 \in 0..Len(s)
    BY <1>0
  <2> QED BY <2>2, <2>3, Zenon
<1>2. ASSUME NEW k \in 1..Len(s), k - 1 \in H PROVE k \in H
  <2>1. /\ SubSeq(s, 1, k - 1) \in Seq(S) /\ SubSeq(s, 1, k - 1) \in G /\ s[k] \in S
    BY <1>0, <1>2
  <2>2. SubSeq(s, 1, k) = Append(SubSeq(s, 1, k - 1), s[k])
    BY <1>0
  <2>3. SubSeq(s, 1, k) \in G
    BY <2>1, <2>2
  <2> QED BY <1>0, <2>3
<1>3. Len(s) \in H
  <2> HIDE DEF H
  <2>1. 0..Len(s) \subseteq H
    BY <1>0, <1>1, <1>2, UpTo
  <2> QED BY <1>0, <2>1
<1>4. SubSeq(s, 1, Len(s)) = s
  BY <1>0
<1> QED BY <1>3, <1>4

\* The greatest of a set is what none of it is greater than,
LEMMA MaxIs ==
    ASSUME NEW n \in Nat, NEW d \in SUBSET (1..n), n \in d
    PROVE  Max(d) = n
<1>1. \A y \in d : n >= y
  OBVIOUS
<1>2. \A m \in d : (\A y \in d : m >= y) => m = n
  OBVIOUS
<1> QED BY <1>1, <1>2 DEF Max

\* and is of the set.
LEMMA MaxIn ==
    ASSUME NEW n \in Nat, NEW d \in SUBSET (1..n), d # {}
    PROVE  Max(d) \in d
<1> DEFINE above == {k \in 0..n : \A y \in d : k >= y}
<1>1. n \in above /\ above \subseteq Nat
  OBVIOUS
<1>2. PICK m \in above : \A k \in above : m <= k
  <2> HIDE DEF above
  <2> QED BY <1>1, LeastOf
<1>3. m \in d
  <2> SUFFICES ASSUME m \notin d PROVE FALSE
    OBVIOUS
  <2>1. PICK y \in d : TRUE
    OBVIOUS
  <2>2. m >= 1
    BY <1>2, <2>1
  <2>3. \A z \in d : m - 1 >= z
    BY <1>2
  <2>4. m - 1 \in above
    BY <1>2, <2>2, <2>3
  <2> QED BY <1>2, <2>4
<1> QED BY <1>2, <1>3 DEF Max

----------------------------------------------------------------------------
(* Folds.  Those of the model, and what a queue makes of what its reader   *)
(* knows, go along a sequence: one operator has them all, by name, so that *)
(* what holds of a fold is shown once.                                     *)

\* What a line makes of what a client knows of the modes and topic of a channel.
Seen(c, v, m) ==
    IF m.c # c THEN v
    ELSE IF m.what \in {"MODE", "324"}
         THEN [v EXCEPT !.modes = ApplyChannelModes(@, ParseChannelModes(m.line.letters, m.line.params))]
    ELSE IF m.what = "TOPIC" THEN [v EXCEPT !.topic = m.text] ELSE v

\* What a line makes of what a server holds of a channel.
Holds(c, h, m) ==
    IF m.c # c THEN h
    ELSE IF m.what = "TOPIC" THEN [h EXCEPT !.topic = m.text]
    ELSE Served(h, ParseChannelModes(m.line.letters, m.line.params)).holds

\* What a line makes of the ban table of a channel.
Tabled(c, t, m) ==
    IF m.c # c THEN t
    ELSE IF m.what = "367" THEN [bans |-> Append(t.bans, m.text), loading |-> TRUE]
    ELSE IF m.what \in {"MODE", "324", "TOPIC"} THEN t
    ELSE [t EXCEPT !.loading = FALSE]

DrawsOne(acc, x) ==
    LET draws == TakesParameter(Kind[x.mode], x.add) /\ acc.rest # <<>>
    IN  [rest |-> IF draws THEN Tail(acc.rest) ELSE acc.rest,
         changes |-> Append(acc.changes,
                            Change(x.add, x.mode, IF draws THEN Head(acc.rest) ELSE ""))]

PutsOne(params, x) ==
    IF x.parameter # "" /\ TakesParameter(Kind[x.mode], x.add)
       THEN Append(params, x.parameter) ELSE params

ServesOne(acc, x) ==
    IF Takes(acc.holds, x) THEN [holds |-> Made(acc.holds, x), done |-> Append(acc.done, x)]
    ELSE acc

Along(kind, c, acc, x) ==
    CASE kind = "draws"   -> DrawsOne(acc, x)
      [] kind = "puts"    -> PutsOne(acc, x)
      [] kind = "serves"  -> ServesOne(acc, x)
      [] kind = "applies" -> ApplyChange(acc, x)
      [] kind = "seen"    -> Seen(c, acc, x)
      [] kind = "holds"   -> Holds(c, acc, x)
      [] kind = "tabled"  -> Tabled(c, acc, x)

Runs(kind, c, base, s, f) ==
    f[0] = base /\ \A k \in 1..Len(s) : f[k] = Along(kind, c, f[k - 1], s[k])

\* The sequence leads from `base` to `e`.
Comes(kind, c, base, s, e) == \E f : Runs(kind, c, base, s, f) /\ f[Len(s)] = e

\* A sequence leads to one end.
LEMMA ComesOne ==
    ASSUME NEW kind, NEW c, NEW base, NEW S, NEW s \in Seq(S), NEW d, NEW e,
           Comes(kind, c, base, s, d), Comes(kind, c, base, s, e)
    PROVE  d = e
<1>0. Len(s) \in Nat
  OBVIOUS
<1>1. PICK f : Runs(kind, c, base, s, f) /\ f[Len(s)] = d
  BY DEF Comes
<1>2. PICK g : Runs(kind, c, base, s, g) /\ g[Len(s)] = e
  BY DEF Comes
<1> DEFINE G == {k \in 0..Len(s) : f[k] = g[k]}
<1>3. 0 \in G
  BY <1>0, <1>1, <1>2 DEF Runs
<1>4. ASSUME NEW k \in 1..Len(s), k - 1 \in G PROVE k \in G
  <2>1. f[k] = g[k]
    BY <1>1, <1>2, <1>4 DEF Runs
  <2> QED BY <1>0, <2>1
<1>5. Len(s) \in G
  <2> HIDE DEF G
  <2>1. 0..Len(s) \subseteq G
    BY <1>0, <1>3, <1>4, UpTo
  <2> QED BY <1>0, <2>1
<1> QED BY <1>1, <1>2, <1>5

\* No element: where it began.
LEMMA ComesNone ==
    ASSUME NEW kind, NEW c, NEW base PROVE Comes(kind, c, base, <<>>, base)
<1> DEFINE f == [k \in 0..0 |-> base]
<1>1. f[0] = base /\ Len(<<>>) = 0
  OBVIOUS
<1> HIDE DEF f
<1>2. Runs(kind, c, base, <<>>, f)
  BY <1>1 DEF Runs
<1> QED BY <1>1, <1>2 DEF Comes

\* One more element.
LEMMA ComesAppend ==
    ASSUME NEW kind, NEW c, NEW base, NEW S, NEW s \in Seq(S), NEW x, NEW e,
           Comes(kind, c, base, s, e)
    PROVE  Comes(kind, c, base, Append(s, x), Along(kind, c, e, x))
<1>0. Len(s) \in Nat /\ Len(Append(s, x)) = Len(s) + 1
  OBVIOUS
<1>1. PICK f : Runs(kind, c, base, s, f) /\ f[Len(s)] = e
  BY DEF Comes
<1> DEFINE y == Along(kind, c, e, x)
           g == [k \in 0..(Len(s) + 1) |-> IF k = Len(s) + 1 THEN y ELSE f[k]]
<1>2. \A k \in 0..Len(s) : g[k] = f[k]
  BY <1>0
<1>3. g[Len(s) + 1] = y
  BY <1>0
<1> HIDE DEF g
<1>4. \A k \in 1..Len(s) : Append(s, x)[k] = s[k]
  BY <1>0
<1>5. Append(s, x)[Len(s) + 1] = x
  BY <1>0
<1>6. ASSUME NEW k \in 1..(Len(s) + 1) PROVE g[k] = Along(kind, c, g[k - 1], Append(s, x)[k])
  <2>1. CASE k = Len(s) + 1
    <3>1. g[k - 1] = e
      BY <1>0, <1>1, <1>2, <2>1
    <3> QED BY <1>3, <1>5, <2>1, <3>1
  <2>2. CASE k \in 1..Len(s)
    <3>1. k - 1 \in 0..Len(s) /\ k \in 0..Len(s)
      BY <1>0, <2>2
    <3>2. f[k] = Along(kind, c, f[k - 1], s[k])
      BY <1>1, <2>2 DEF Runs
    <3> QED BY <1>2, <1>4, <2>2, <3>1, <3>2
  <2> QED BY <1>0, <2>1, <2>2
<1>7. g[0] = base
  BY <1>0, <1>1, <1>2 DEF Runs
<1>8. Runs(kind, c, base, Append(s, x), g)
  BY <1>0, <1>6, <1>7 DEF Runs
<1> QED BY <1>0, <1>3, <1>8 DEF Comes

\* One sequence after another.
LEMMA ComesThen ==
    ASSUME NEW kind, NEW c, NEW base, NEW S, NEW s \in Seq(S), NEW q \in Seq(S), NEW d, NEW e,
           Comes(kind, c, base, s, d), Comes(kind, c, d, q, e)
    PROVE  Comes(kind, c, base, s \o q, e)
<1>0. Len(s) \in Nat /\ Len(q) \in Nat /\ Len(s \o q) = Len(s) + Len(q)
  OBVIOUS
<1>1. PICK f : Runs(kind, c, base, s, f) /\ f[Len(s)] = d
  BY DEF Comes
<1>2. PICK g : Runs(kind, c, d, q, g) /\ g[Len(q)] = e
  BY DEF Comes
<1> DEFINE h == [k \in 0..(Len(s) + Len(q)) |-> IF k <= Len(s) THEN f[k] ELSE g[k - Len(s)]]
<1>3. \A k \in 0..Len(s) : h[k] = f[k]
  BY <1>0
<1>4. \A k \in 0..Len(q) : h[Len(s) + k] = g[k]
  <2> SUFFICES ASSUME NEW k \in 0..Len(q) PROVE h[Len(s) + k] = g[k]
    OBVIOUS
  <2>1. CASE k = 0
    BY <1>0, <1>1, <1>2, <1>3, <2>1 DEF Runs
  <2>2. CASE k > 0
    <3>1. Len(s) + k \in 0..(Len(s) + Len(q)) /\ ~(Len(s) + k <= Len(s)) /\ Len(s) + k - Len(s) = k
      BY <1>0, <2>2
    <3> QED BY <3>1
  <2> QED BY <2>1, <2>2
<1> HIDE DEF h
<1>5. ASSUME NEW k \in 1..(Len(s) + Len(q)) PROVE h[k] = Along(kind, c, h[k - 1], (s \o q)[k])
  <2>1. CASE k \in 1..Len(s)
    <3>1. k - 1 \in 0..Len(s) /\ k \in 0..Len(s) /\ (s \o q)[k] = s[k]
      BY <1>0, <2>1
    <3>2. f[k] = Along(kind, c, f[k - 1], s[k])
      BY <1>1, <2>1 DEF Runs
    <3> QED BY <1>3, <3>1, <3>2
  <2>2. CASE k \notin 1..Len(s)
    <3> DEFINE j == k - Len(s)
    <3>1. j \in 1..Len(q) /\ j - 1 \in 0..Len(q) /\ j \in 0..Len(q) /\ (s \o q)[k] = q[j]
          /\ k = Len(s) + j /\ k - 1 = Len(s) + (j - 1)
      BY <1>0, <2>2
    <3>2. g[j] = Along(kind, c, g[j - 1], q[j])
      BY <1>2, <3>1 DEF Runs
    <3>3. h[k] = g[j] /\ h[k - 1] = g[j - 1]
      <4> HIDE DEF j
      <4> QED BY <1>4, <3>1
    <3> QED BY <3>1, <3>2, <3>3
  <2> QED BY <2>1, <2>2
<1>6. h[0] = base
  BY <1>0, <1>1, <1>3 DEF Runs
<1>7. h[Len(s) + Len(q)] = e
  BY <1>0, <1>2, <1>4
<1>8. Runs(kind, c, base, s \o q, h)
  BY <1>0, <1>5, <1>6 DEF Runs
<1> QED BY <1>0, <1>7, <1>8 DEF Comes

\* Taking the first away.
LEMMA ComesOn ==
    ASSUME NEW kind, NEW c, NEW base, NEW S, NEW s \in Seq(S), s # <<>>, NEW e,
           Comes(kind, c, base, s, e)
    PROVE  Comes(kind, c, Along(kind, c, base, Head(s)), Tail(s), e)
<1>0. Len(s) \in Nat /\ Len(s) >= 1 /\ Len(Tail(s)) = Len(s) - 1 /\ Head(s) = s[1]
  OBVIOUS
<1>1. PICK f : Runs(kind, c, base, s, f) /\ f[Len(s)] = e
  BY DEF Comes
<1> DEFINE g == [k \in 0..(Len(s) - 1) |-> f[k + 1]]
<1>2. \A k \in 0..(Len(s) - 1) : g[k] = f[k + 1]
  OBVIOUS
<1> HIDE DEF g
<1>3. g[0] = Along(kind, c, base, Head(s))
  <2>1. f[1] = Along(kind, c, f[1 - 1], s[1]) /\ f[0] = base
    BY <1>0, <1>1 DEF Runs
  <2> QED BY <1>0, <1>2, <2>1
<1>4. ASSUME NEW k \in 1..(Len(s) - 1) PROVE g[k] = Along(kind, c, g[k - 1], Tail(s)[k])
  <2>1. Tail(s)[k] = s[k + 1] /\ k + 1 \in 1..Len(s) /\ k - 1 \in 0..(Len(s) - 1)
        /\ k \in 0..(Len(s) - 1) /\ k - 1 + 1 = k /\ k + 1 - 1 = k
    BY <1>0
  <2>2. f[k + 1] = Along(kind, c, f[k], s[k + 1])
    BY <1>1, <2>1 DEF Runs
  <2> QED BY <1>2, <2>1, <2>2
<1>5. g[Len(s) - 1] = e
  BY <1>0, <1>1, <1>2
<1>6. Runs(kind, c, Along(kind, c, base, Head(s)), Tail(s), g)
  BY <1>0, <1>3, <1>4 DEF Runs
<1> QED BY <1>0, <1>5, <1>6 DEF Comes

\* What nothing in the sequence says anything about stays as it is.
LEMMA ComesSame ==
    ASSUME NEW kind, NEW c, NEW base, NEW S, NEW s \in Seq(S),
           \A k \in 1..Len(s) : Along(kind, c, base, s[k]) = base
    PROVE  Comes(kind, c, base, s, base)
<1> DEFINE f == [k \in 0..Len(s) |-> base]
<1>1. Len(s) \in Nat /\ \A k \in 0..Len(s) : f[k] = base
  OBVIOUS
<1> HIDE DEF f
<1>2. \A k \in 1..Len(s) : k - 1 \in 0..Len(s) /\ k \in 0..Len(s)
  BY <1>1
<1>3. Runs(kind, c, base, s, f)
  BY <1>1, <1>2 DEF Runs
<1> QED BY <1>1, <1>3 DEF Comes

----------------------------------------------------------------------------
(* The recursion of FoldLeft, and that each of the model's folds is one of *)
(* those above.                                                            *)

Unfolds(kind, base, s, g) ==
    g = [d \in SUBSET DOMAIN s |->
            IF d = {} THEN base ELSE Along(kind, 0, g[d \ {Max(d)}], s[Max(d)])]

\* The recursion there is in a fold has a solution.
LEMMA Unfoldable ==
    ASSUME NEW kind, NEW base, NEW S, NEW s \in Seq(S)
    PROVE  \E g : Unfolds(kind, base, s, g)
<1> DEFINE Upto(k, g) == g = [d \in SUBSET (1..k) |->
                                IF d = {} THEN base
                                ELSE Along(kind, 0, g[d \ {Max(d)}], s[Max(d)])]
           G == {k \in 0..Len(s) : \E g : Upto(k, g)}
<1>1. 0 \in G
  <2> DEFINE g == [d \in SUBSET (1..0) |-> base]
  <2>1. \A d \in SUBSET (1..0) : d = {}
    OBVIOUS
  <2>2. Upto(0, g)
    BY <2>1
  <2>3. 0 \in 0..Len(s)
    <3>1. Len(s) \in Nat
      OBVIOUS
    <3> QED BY <3>1
  <2>4. \E q : Upto(0, q)
    <3> HIDE DEF Upto, g
    <3> QED BY <2>2
  <2> HIDE DEF Upto, g
  <2> QED BY <2>3, <2>4
<1>2. ASSUME NEW k \in 1..Len(s), k - 1 \in G PROVE k \in G
  <2>1. PICK g : Upto(k - 1, g)
    BY <1>2
  <2> DEFINE h == [d \in SUBSET (1..k) |->
                      IF k \in d THEN Along(kind, 0, g[d \ {k}], s[k]) ELSE g[d]]
  <2> HIDE DEF Upto
  <2>2. ASSUME NEW d \in SUBSET (1..k)
        PROVE  h[d] = IF d = {} THEN base ELSE Along(kind, 0, h[d \ {Max(d)}], s[Max(d)])
    <3>1. CASE k \in d
      <4>1. Max(d) = k
        BY <3>1, MaxIs
      <4>2. d \ {k} \in SUBSET (1..(k - 1)) /\ d \ {k} \in SUBSET (1..k)
        OBVIOUS
      <4>3. h[d \ {k}] = g[d \ {k}]
        BY <4>2
      <4> QED BY <3>1, <4>1, <4>3
    <3>2. CASE k \notin d
      <4>1. d \in SUBSET (1..(k - 1))
        BY <3>2
      <4>2. h[d] = g[d]
        BY <3>2
      <4>3. g[d] = IF d = {} THEN base ELSE Along(kind, 0, g[d \ {Max(d)}], s[Max(d)])
        BY <2>1, <4>1 DEF Upto
      <4>4. CASE d = {}
        BY <4>2, <4>3, <4>4
      <4>5. CASE d # {}
        <5>1. d \ {Max(d)} \in SUBSET (1..k) /\ k \notin d \ {Max(d)}
          BY <3>2
        <5>2. h[d \ {Max(d)}] = g[d \ {Max(d)}]
          BY <5>1
        <5> QED BY <4>2, <4>3, <4>5, <5>2
      <4> QED BY <4>4, <4>5
    <3> QED BY <3>1, <3>2
  <2>3. Upto(k, h)
    <3>1. h = [d \in SUBSET (1..k) |-> h[d]]
      OBVIOUS
    <3> HIDE DEF h
    <3>2. h = [d \in SUBSET (1..k) |->
                  IF d = {} THEN base ELSE Along(kind, 0, h[d \ {Max(d)}], s[Max(d)])]
      BY <2>2, <3>1
    <3> QED BY <3>2 DEF Upto
  <2> QED BY <1>2, <2>3
<1>3. Len(s) \in G
  <2>1. Len(s) \in Nat
    OBVIOUS
  <2> HIDE DEF G
  <2>2. 0..Len(s) \subseteq G
    BY <1>1, <1>2, <2>1, UpTo
  <2> QED BY <2>1, <2>2
<1>4. PICK g : Upto(Len(s), g)
  BY <1>3
<1>5. DOMAIN s = 1..Len(s)
  OBVIOUS
<1>6. Unfolds(kind, base, s, g)
  BY <1>4, <1>5 DEF Unfolds
<1> QED BY <1>6

\* A solution is found one after another.
LEMMA UnfoldsComes ==
    ASSUME NEW kind, NEW base, NEW S, NEW s \in Seq(S), NEW g, Unfolds(kind, base, s, g)
    PROVE  Comes(kind, 0, base, s, g[DOMAIN s])
<1> DEFINE f == [k \in 0..Len(s) |-> g[1..k]]
<1>0. DOMAIN s = 1..Len(s) /\ Len(s) \in Nat
  OBVIOUS
<1>1. f[0] = base
  <2>1. 1..0 = {} /\ f[0] = g[{}]
    BY <1>0
  <2> HIDE DEF f
  <2> QED BY <2>1 DEF Unfolds
<1>2. f[Len(s)] = g[DOMAIN s]
  BY <1>0
<1>3. ASSUME NEW k \in 1..Len(s) PROVE f[k] = Along(kind, 0, f[k - 1], s[k])
  <2>1. 1..k \in SUBSET DOMAIN s /\ 1..k # {} /\ k \in 1..k
    <3> HIDE DEF f
    <3>1. k \in Nat /\ k >= 1 /\ k <= Len(s)
      BY <1>0
    <3>2. k \in 1..k /\ \A j \in 1..k : j \in 1..Len(s)
      BY <1>0, <3>1
    <3> QED BY <1>0, <3>2
  <2>2. Max(1..k) = k
    BY <2>1, MaxIs
  <2>3. g[1..k] = Along(kind, 0, g[(1..k) \ {k}], s[k])
    BY <2>1, <2>2 DEF Unfolds
  <2>4. (1..k) \ {k} = 1..(k - 1)
    OBVIOUS
  <2> QED BY <2>3, <2>4
<1>4. Runs(kind, 0, base, s, f)
  <2> HIDE DEF f
  <2> QED BY <1>1, <1>3 DEF Runs
<1> QED BY <1>2, <1>4 DEF Comes

\* What a fold with one of the operators above unfolds to.
UnfoldsApply(base, s, g) ==
    g = [d \in SUBSET DOMAIN s |->
            IF d = {} THEN base ELSE ApplyChange(g[d \ {Max(d)}], s[Max(d)])]
UnfoldsDraw(base, s, g) ==
    g = [d \in SUBSET DOMAIN s |->
            IF d = {} THEN base ELSE DrawsOne(g[d \ {Max(d)}], s[Max(d)])]
UnfoldsPut(base, s, g) ==
    g = [d \in SUBSET DOMAIN s |->
            IF d = {} THEN base ELSE PutsOne(g[d \ {Max(d)}], s[Max(d)])]
UnfoldsServe(base, s, g) ==
    g = [d \in SUBSET DOMAIN s |->
            IF d = {} THEN base ELSE ServesOne(g[d \ {Max(d)}], s[Max(d)])]

\* The operators by their names.
LEMMA AlongIs ==
    \A c, acc, x : /\ Along("applies", c, acc, x) = ApplyChange(acc, x)
                   /\ Along("draws", c, acc, x) = DrawsOne(acc, x)
                   /\ Along("puts", c, acc, x) = PutsOne(acc, x)
                   /\ Along("serves", c, acc, x) = ServesOne(acc, x)
                   /\ Along("seen", c, acc, x) = Seen(c, acc, x)
                   /\ Along("holds", c, acc, x) = Holds(c, acc, x)
                   /\ Along("tabled", c, acc, x) = Tabled(c, acc, x)
BY DEF Along

\* These are the folds by name.
LEMMA UnfoldsAs ==
    ASSUME NEW base, NEW s, NEW g
    PROVE  /\ Unfolds("applies", base, s, g) <=> UnfoldsApply(base, s, g)
           /\ Unfolds("draws", base, s, g) <=> UnfoldsDraw(base, s, g)
           /\ Unfolds("puts", base, s, g) <=> UnfoldsPut(base, s, g)
           /\ Unfolds("serves", base, s, g) <=> UnfoldsServe(base, s, g)
<1>1. Unfolds("applies", base, s, g) <=> UnfoldsApply(base, s, g)
  <2>1. \A acc, x : Along("applies", 0, acc, x) = ApplyChange(acc, x)
    BY AlongIs
  <2> QED BY <2>1 DEF Unfolds, UnfoldsApply
<1>2. Unfolds("draws", base, s, g) <=> UnfoldsDraw(base, s, g)
  <2>1. \A acc, x : Along("draws", 0, acc, x) = DrawsOne(acc, x)
    BY AlongIs
  <2> QED BY <2>1 DEF Unfolds, UnfoldsDraw
<1>3. Unfolds("puts", base, s, g) <=> UnfoldsPut(base, s, g)
  <2>1. \A acc, x : Along("puts", 0, acc, x) = PutsOne(acc, x)
    BY AlongIs
  <2> QED BY <2>1 DEF Unfolds, UnfoldsPut
<1>4. Unfolds("serves", base, s, g) <=> UnfoldsServe(base, s, g)
  <2>1. \A acc, x : Along("serves", 0, acc, x) = ServesOne(acc, x)
    BY AlongIs
  <2> QED BY <2>1 DEF Unfolds, UnfoldsServe
<1> QED BY <1>1, <1>2, <1>3, <1>4

\* applyChannelModes()
LEMMA AppliesComes ==
    ASSUME NEW base, NEW S, NEW s \in Seq(S)
    PROVE  Comes("applies", 0, base, s, ApplyChannelModes(base, s))
<1> DEFINE g == CHOOSE g : UnfoldsApply(base, s, g)
<1>1. ApplyChannelModes(base, s) = g[DOMAIN s]
  BY DEF ApplyChannelModes, FoldLeft, MapThenFoldSet, UnfoldsApply
<1>2. \A h : Unfolds("applies", base, s, h) <=> UnfoldsApply(base, s, h)
  BY UnfoldsAs
<1>3. Unfolds("applies", base, s, g)
  <2>1. \E h : UnfoldsApply(base, s, h)
    BY <1>2, Unfoldable
  <2> QED BY <1>2, <2>1
<1> HIDE DEF g
<1> QED BY <1>1, <1>3, UnfoldsComes

\* What parseChannelModes() has drawn, with what is left to draw from.
Drawn(letters, params) ==
    FoldLeft(DrawsOne, [rest |-> params, changes |-> <<>>], letters)

\* parseChannelModes() is a fold.
LEMMA ParseIs ==
    ASSUME NEW letters, NEW params
    PROVE  ParseChannelModes(letters, params) = Drawn(letters, params).changes
BY DEF ParseChannelModes, Drawn, DrawsOne

\* One letter after another.
LEMMA DrawnComes ==
    ASSUME NEW params, NEW S, NEW s \in Seq(S)
    PROVE  Comes("draws", 0, [rest |-> params, changes |-> <<>>], s, Drawn(s, params))
<1> DEFINE base == [rest |-> params, changes |-> <<>>]
           g == CHOOSE g : UnfoldsDraw(base, s, g)
<1>1. Drawn(s, params) = g[DOMAIN s]
  BY DEF Drawn, FoldLeft, MapThenFoldSet, UnfoldsDraw
<1> HIDE DEF base
<1>2. \A h : Unfolds("draws", base, s, h) <=> UnfoldsDraw(base, s, h)
  BY UnfoldsAs
<1>3. Unfolds("draws", base, s, g)
  <2>1. \E h : UnfoldsDraw(base, s, h)
    BY <1>2, Unfoldable
  <2> QED BY <1>2, <2>1
<1> HIDE DEF g
<1>4. Comes("draws", 0, base, s, Drawn(s, params))
  BY <1>1, <1>3, UnfoldsComes
<1> QED BY <1>4 DEF base

\* The parameters of a command.
Put(cs) == FoldLeft(PutsOne, <<>>, cs)

\* A command, with its parameters a fold.
LEMMA CommandIs ==
    ASSUME NEW cs
    PROVE  Command(cs) =
               [letters |-> [i \in 1..Len(cs) |-> [add |-> cs[i].add, mode |-> cs[i].mode]],
                params |-> Put(cs)]
BY DEF Command, Put, PutsOne

\* One parameter after another.
LEMMA PutComes ==
    ASSUME NEW S, NEW s \in Seq(S)
    PROVE  Comes("puts", 0, <<>>, s, Put(s))
<1> DEFINE g == CHOOSE g : UnfoldsPut(<<>>, s, g)
<1>1. Put(s) = g[DOMAIN s]
  BY DEF Put, FoldLeft, MapThenFoldSet, UnfoldsPut
<1>2. \A h : Unfolds("puts", <<>>, s, h) <=> UnfoldsPut(<<>>, s, h)
  BY UnfoldsAs
<1>3. Unfolds("puts", <<>>, s, g)
  <2>1. \E h : UnfoldsPut(<<>>, s, h)
    BY <1>2, Unfoldable
  <2> QED BY <1>2, <2>1
<1> HIDE DEF g
<1> QED BY <1>1, <1>3, UnfoldsComes

\* The server, change by change.
LEMMA ServedComes ==
    ASSUME NEW held0, NEW S, NEW s \in Seq(S)
    PROVE  Comes("serves", 0, [holds |-> held0, done |-> <<>>], s, Served(held0, s))
<1> DEFINE base == [holds |-> held0, done |-> <<>>]
           g == CHOOSE g : UnfoldsServe(base, s, g)
<1>1. Served(held0, s) = g[DOMAIN s]
  BY DEF Served, ServesOne, FoldLeft, MapThenFoldSet, UnfoldsServe
<1> HIDE DEF base
<1>2. \A h : Unfolds("serves", base, s, h) <=> UnfoldsServe(base, s, h)
  BY UnfoldsAs
<1>3. Unfolds("serves", base, s, g)
  <2>1. \E h : UnfoldsServe(base, s, h)
    BY <1>2, Unfoldable
  <2> QED BY <1>2, <2>1
<1> HIDE DEF g
<1>4. Comes("serves", 0, base, s, Served(held0, s))
  BY <1>1, <1>3, UnfoldsComes
<1> QED BY <1>4 DEF base

\* One change after another.
LEMMA ApplyNone == ASSUME NEW v PROVE ApplyChannelModes(v, <<>>) = v
<1>1. <<>> \in Seq({0})
  OBVIOUS
<1>2. Comes("applies", 0, v, <<>>, ApplyChannelModes(v, <<>>))
  BY <1>1, AppliesComes
<1>3. Comes("applies", 0, v, <<>>, v)
  BY ComesNone
<1> QED BY <1>1, <1>2, <1>3, ComesOne

\* applyChannelModes() of one change more.
LEMMA ApplyAppend ==
    ASSUME NEW v, NEW S, NEW s \in Seq(S), NEW x \in S
    PROVE  ApplyChannelModes(v, Append(s, x)) = ApplyChange(ApplyChannelModes(v, s), x)
<1>1. Append(s, x) \in Seq(S)
  OBVIOUS
<1>2. Comes("applies", 0, v, Append(s, x), ApplyChange(ApplyChannelModes(v, s), x))
  BY AppliesComes, ComesAppend, AlongIs
<1>3. Comes("applies", 0, v, Append(s, x), ApplyChannelModes(v, Append(s, x)))
  BY <1>1, AppliesComes
<1> QED BY <1>1, <1>2, <1>3, ComesOne

\* No letters draw nothing.
LEMMA DrawnNone ==
    ASSUME NEW params PROVE Drawn(<<>>, params) = [rest |-> params, changes |-> <<>>]
<1>1. <<>> \in Seq({0})
  OBVIOUS
<1> DEFINE base == [rest |-> params, changes |-> <<>>]
<1>2. Comes("draws", 0, base, <<>>, Drawn(<<>>, params))
  BY <1>1, DrawnComes
<1> HIDE DEF base
<1>3. Comes("draws", 0, base, <<>>, base)
  BY ComesNone
<1>4. Drawn(<<>>, params) = base
  BY <1>1, <1>2, <1>3, ComesOne
<1> QED BY <1>4 DEF base

\* One letter more.
LEMMA DrawnAppend ==
    ASSUME NEW params, NEW S, NEW s \in Seq(S), NEW x \in S
    PROVE  Drawn(Append(s, x), params) = DrawsOne(Drawn(s, params), x)
<1>1. Append(s, x) \in Seq(S)
  OBVIOUS
<1>2. Comes("draws", 0, [rest |-> params, changes |-> <<>>], Append(s, x),
            DrawsOne(Drawn(s, params), x))
  BY DrawnComes, ComesAppend, AlongIs
<1>3. Comes("draws", 0, [rest |-> params, changes |-> <<>>], Append(s, x), Drawn(Append(s, x), params))
  BY <1>1, DrawnComes
<1> QED BY <1>1, <1>2, <1>3, ComesOne

\* No changes have no parameters.
LEMMA PutNone == Put(<<>>) = <<>>
<1>1. <<>> \in Seq({0})
  OBVIOUS
<1>2. Comes("puts", 0, <<>>, <<>>, Put(<<>>))
  BY <1>1, PutComes
<1>3. Comes("puts", 0, <<>>, <<>>, <<>>)
  BY ComesNone
<1> QED BY <1>1, <1>2, <1>3, ComesOne

\* One change more.
LEMMA PutAppend ==
    ASSUME NEW S, NEW s \in Seq(S), NEW x \in S
    PROVE  Put(Append(s, x)) = PutsOne(Put(s), x)
<1>1. Append(s, x) \in Seq(S)
  OBVIOUS
<1>2. Comes("puts", 0, <<>>, Append(s, x), PutsOne(Put(s), x))
  BY PutComes, ComesAppend, AlongIs
<1>3. Comes("puts", 0, <<>>, Append(s, x), Put(Append(s, x)))
  BY <1>1, PutComes
<1> QED BY <1>1, <1>2, <1>3, ComesOne

\* No changes leave a server as it is.
LEMMA ServedNone ==
    ASSUME NEW h PROVE Served(h, <<>>) = [holds |-> h, done |-> <<>>]
<1>1. <<>> \in Seq({0})
  OBVIOUS
<1> DEFINE base == [holds |-> h, done |-> <<>>]
<1>2. Comes("serves", 0, base, <<>>, Served(h, <<>>))
  BY <1>1, ServedComes
<1> HIDE DEF base
<1>3. Comes("serves", 0, base, <<>>, base)
  BY ComesNone
<1>4. Served(h, <<>>) = base
  BY <1>1, <1>2, <1>3, ComesOne
<1> QED BY <1>4 DEF base

\* One change more.
LEMMA ServedAppend ==
    ASSUME NEW h, NEW S, NEW s \in Seq(S), NEW x \in S
    PROVE  Served(h, Append(s, x)) = ServesOne(Served(h, s), x)
<1>1. Append(s, x) \in Seq(S)
  OBVIOUS
<1>2. Comes("serves", 0, [holds |-> h, done |-> <<>>], Append(s, x), ServesOne(Served(h, s), x))
  BY ServedComes, ComesAppend, AlongIs
<1>3. Comes("serves", 0, [holds |-> h, done |-> <<>>], Append(s, x), Served(h, Append(s, x)))
  BY <1>1, ServedComes
<1> QED BY <1>1, <1>2, <1>3, ComesOne

----------------------------------------------------------------------------
(* What a line says is what was put into it.                               *)

\* The changes there are on the wire, but for the question "+b".
Proper(x) ==
    \/ x.mode = "m" /\ x.parameter = ""
    \/ x.mode = "k" /\ x.parameter \in {"x", "y"}
    \/ x.mode = "l" /\ x.parameter = (IF x.add THEN "5" ELSE "")
    \/ x.mode = "b" /\ x.parameter = "n"
    \/ x.mode = "o" /\ x.parameter = "nick"

Sendable ==
    {x \in [add : BOOLEAN, mode : {"m", "k", "l", "b", "o"},
            parameter : {"", "x", "y", "5", "n", "nick"}] : Proper(x)}

Question == Change(TRUE, "b", "")

\* What a change on the wire looks like.
LEMMA SendableIs ==
    ASSUME NEW x \in Sendable
    PROVE  /\ x.add \in BOOLEAN /\ x.mode \in {"m", "k", "l", "b", "o"} /\ Proper(x)
           /\ x = Change(x.add, x.mode, x.parameter)
           /\ TakesParameter(Kind[x.mode], x.add) <=> x.parameter # ""
           /\ x # Question
<1>1. /\ x.add \in BOOLEAN /\ x.mode \in {"m", "k", "l", "b", "o"} /\ Proper(x)
      /\ x = Change(x.add, x.mode, x.parameter)
  BY DEF Sendable, Change
<1>2. TakesParameter(Kind[x.mode], x.add) <=> x.parameter # ""
  <2>1. /\ Kind["m"] = "flag" /\ Kind["k"] = "parameter" /\ Kind["l"] = "parameter-when-set"
        /\ Kind["b"] = "list" /\ Kind["o"] = "prefix"
    BY DEF Kind
  <2> QED BY <1>1, <2>1 DEF Proper, TakesParameter
<1>3. x # Question
  <2>1. Question.mode = "b" /\ Question.parameter = ""
    BY DEF Question, Change
  <2> QED BY <1>1, <2>1 DEF Proper
<1> QED BY <1>1, <1>2, <1>3

Letters(cs) == [i \in 1..Len(cs) |-> [add |-> cs[i].add, mode |-> cs[i].mode]]

LetterSet == [add : BOOLEAN, mode : {"m", "k", "l", "b", "o"}]

\* The letters of changes,
LEMMA LettersType ==
    ASSUME NEW cs \in Seq(Sendable) PROVE Letters(cs) \in Seq(LetterSet)
<1>1. \A i \in 1..Len(cs) : cs[i] \in Sendable
  OBVIOUS
<1>2. \A i \in 1..Len(cs) : [add |-> cs[i].add, mode |-> cs[i].mode] \in LetterSet
  BY <1>1, SendableIs DEF LetterSet
<1> QED BY <1>2 DEF Letters

\* as many as there are changes,
LEMMA LettersLength ==
    ASSUME NEW cs, Len(cs) \in Nat PROVE Len(Letters(cs)) = Len(cs)
BY DEF Letters

\* with one for one change more.
LEMMA LettersAppend ==
    ASSUME NEW cs \in Seq(Sendable), NEW x \in Sendable
    PROVE  Letters(Append(cs, x)) = Append(Letters(cs), [add |-> x.add, mode |-> x.mode])
<1>0. Len(cs) \in Nat /\ Append(cs, x) \in Seq(Sendable) /\ Len(Append(cs, x)) = Len(cs) + 1
  OBVIOUS
<1> DEFINE y == [add |-> x.add, mode |-> x.mode]
           a == Letters(Append(cs, x))
           b == Append(Letters(cs), y)
<1>1. Letters(cs) \in Seq(LetterSet) /\ Len(Letters(cs)) = Len(cs)
  BY <1>0, LettersType DEF Letters
<1>2. y \in LetterSet
  BY SendableIs DEF LetterSet
<1>3. a \in Seq(LetterSet) /\ Len(a) = Len(cs) + 1
  <2>1. a \in Seq(LetterSet)
    BY <1>0, LettersType
  <2>2. Len(a) = Len(Append(cs, x))
    <3> DEFINE v == Append(cs, x)
    <3>1. Len(v) \in Nat
      BY <1>0
    <3> HIDE DEF v
    <3>2. Len(Letters(v)) = Len(v)
      BY <3>1, LettersLength
    <3> QED BY <3>2 DEF v
  <2> QED BY <1>0, <2>1, <2>2
<1> HIDE DEF y
<1>4. b \in Seq(LetterSet) /\ Len(b) = Len(cs) + 1
  BY <1>1, <1>2
<1>5. ASSUME NEW i \in 1..(Len(cs) + 1) PROVE a[i] = b[i]
  <2>1. CASE i = Len(cs) + 1
    <3>1. Append(cs, x)[i] = x
      BY <2>1, <1>0
    <3>2. a[i] = y
      BY <1>0, <3>1 DEF Letters, y
    <3>3. b[i] = y
      BY <1>0, <1>1, <1>2, <2>1
    <3> QED BY <3>2, <3>3
  <2>2. CASE i \in 1..Len(cs)
    <3>1. Append(cs, x)[i] = cs[i]
      BY <2>2, <1>0
    <3>2. a[i] = Letters(cs)[i]
      BY <1>0, <2>2, <3>1 DEF Letters
    <3>3. b[i] = Letters(cs)[i]
      <4> DEFINE l == Letters(cs)
      <4>1. l \in Seq(LetterSet) /\ i \in 1..Len(l)
        BY <1>1, <2>2
      <4> HIDE DEF l
      <4>2. Append(l, y)[i] = l[i]
        <5>1. \A z \in LetterSet : Append(l, z)[i] = l[i]
          BY <4>1
        <5> HIDE DEF y
        <5> QED BY <1>2, <5>1
      <4>3. b = Append(l, y)
        BY DEF l
      <4> HIDE DEF b
      <4> QED BY <4>2, <4>3 DEF l
    <3> QED BY <3>2, <3>3
  <2> HIDE DEF a, b
  <2> QED BY <1>0, <2>1, <2>2
<1> HIDE DEF a, b
<1>6. a = b
  BY <1>3, <1>4, <1>5
<1> QED BY <1>6 DEF a, b, y

Params == {"x", "y", "5", "n", "nick"}

\* The parameters of changes.
LEMMA PutType == ASSUME NEW cs \in Seq(Sendable) PROVE Put(cs) \in Seq(Params)
<1> DEFINE G == {s \in Seq(Sendable) : Put(s) \in Seq(Params)}
<1>1. <<>> \in G
  <2>1. <<>> \in Seq(Sendable) /\ <<>> \in Seq(Params)
    OBVIOUS
  <2> QED BY <2>1, PutNone
<1>2. ASSUME NEW s \in Seq(Sendable), NEW x \in Sendable, s \in G PROVE Append(s, x) \in G
  <2>1. Put(Append(s, x)) = PutsOne(Put(s), x)
    BY PutAppend
  <2>2. x.parameter = "" \/ x.parameter \in Params
    BY SendableIs DEF Proper, Params
  <2>3. PutsOne(Put(s), x) \in Seq(Params)
    <3>1. Put(s) \in Seq(Params)
      BY <1>2
    <3> DEFINE w == Put(s)
    <3> HIDE DEF w
    <3>2. w \in Seq(Params)
      BY <3>1 DEF w
    <3>3. PutsOne(w, x) \in Seq(Params)
      <4>1. CASE x.parameter = ""
        BY <3>2, <4>1 DEF PutsOne
      <4>2. CASE x.parameter \in Params
        <5> HIDE DEF G
        <5>1. Append(w, x.parameter) \in Seq(Params)
          BY <3>2, <4>2
        <5> QED BY <3>2, <5>1 DEF PutsOne
      <4> QED BY <2>2, <4>1, <4>2
    <3> QED BY <3>3 DEF w
  <2>4. Append(s, x) \in Seq(Sendable)
    OBVIOUS
  <2> QED BY <2>1, <2>3, <2>4
<1>3. Seq(Sendable) \subseteq G
  <2> HIDE DEF G
  <2> QED BY <1>1, <1>2, AlongSequence
<1> QED BY <1>3

\* Each letter finds its own parameter, whatever follows.
LEMMA Draws ==
    ASSUME NEW cs \in Seq(Sendable), NEW w \in Seq(Params)
    PROVE  Drawn(Letters(cs), Put(cs) \o w) = [rest |-> w, changes |-> cs]
<1> DEFINE Right(s) == \A r \in Seq(Params) :
                          Drawn(Letters(s), Put(s) \o r) = [rest |-> r, changes |-> s]
           G == {s \in Seq(Sendable) : Right(s)}
<1>1. <<>> \in G
  <2>1. <<>> \in Seq(Sendable)
    OBVIOUS
  <2>2. Letters(<<>>) = <<>>
    <3>1. Len(<<>>) = 0 /\ 1..0 = {}
      OBVIOUS
    <3>2. Letters(<<>>) \in Seq(LetterSet) /\ Len(Letters(<<>>)) = 0
      BY <2>1, <3>1, LettersType DEF Letters
    <3> QED BY <3>2
  <2>3. ASSUME NEW r \in Seq(Params) PROVE Drawn(Letters(<<>>), Put(<<>>) \o r) = [rest |-> r, changes |-> <<>>]
    <3>1. <<>> \o r = r
      OBVIOUS
    <3> QED BY <2>2, <3>1, PutNone, DrawnNone
  <2> QED BY <2>1, <2>3
<1>2. ASSUME NEW s \in Seq(Sendable), NEW x \in Sendable, s \in G PROVE Append(s, x) \in G
  <2>0. Append(s, x) \in Seq(Sendable) /\ Put(s) \in Seq(Params) /\ Letters(s) \in Seq(LetterSet)
        /\ Right(s)
    BY <1>2, PutType, LettersType
  <2> DEFINE y == [add |-> x.add, mode |-> x.mode]
  <2>1. ASSUME NEW r \in Seq(Params)
        PROVE  Drawn(Letters(Append(s, x)), Put(Append(s, x)) \o r) = [rest |-> r, changes |-> Append(s, x)]
    <3> DEFINE p == Put(Append(s, x)) \o r
               q == IF x.parameter # "" THEN <<x.parameter>> \o r ELSE r
    <3>1. q \in Seq(Params) /\ p = Put(s) \o q
      <4>1. Put(Append(s, x)) = PutsOne(Put(s), x)
        BY PutAppend
      <4>2. CASE x.parameter = ""
        BY <4>1, <4>2, SendableIs DEF PutsOne
      <4>3. CASE x.parameter # ""
        <5>1. Put(Append(s, x)) = Append(Put(s), x.parameter)
          BY <4>1, <4>3, SendableIs DEF PutsOne
        <5>2. x.parameter \in Params
          BY <4>3, SendableIs DEF Proper, Params
        <5>3. \A v \in Params : \A a, b \in Seq(Params) : Append(a, v) \o b = a \o (<<v>> \o b)
                                                        /\ <<v>> \o b \in Seq(Params)
          OBVIOUS
        <5>4. Append(Put(s), x.parameter) \o r = Put(s) \o (<<x.parameter>> \o r)
              /\ <<x.parameter>> \o r \in Seq(Params)
          BY <2>0, <5>2, <5>3
        <5> QED BY <4>3, <5>1, <5>4
      <4> QED BY <4>2, <4>3
    <3>2. y \in LetterSet
      BY SendableIs DEF LetterSet
    <3>3. Drawn(Letters(Append(s, x)), p) = DrawsOne(Drawn(Letters(s), p), y)
      <4> HIDE DEF p, y
      <4>1. Letters(Append(s, x)) = Append(Letters(s), y)
        BY LettersAppend DEF y
      <4> QED BY <2>0, <3>2, <4>1, DrawnAppend
    <3>4. Drawn(Letters(s), p) = [rest |-> q, changes |-> s]
      <4> HIDE DEF p, q
      <4> QED BY <2>0, <3>1
    <3>5. DrawsOne([rest |-> q, changes |-> s], y) = [rest |-> r, changes |-> Append(s, x)]
      <4>1. CASE x.parameter = ""
        <5>1. q = r /\ ~TakesParameter(Kind[y.mode], y.add)
          BY <4>1, SendableIs
        <5>2. x = Change(y.add, y.mode, "")
          BY <4>1, SendableIs
        <5> HIDE DEF q, y
        <5> QED BY <5>1, <5>2 DEF DrawsOne
      <4>2. CASE x.parameter # ""
        <5>1. x.parameter \in Params /\ q = <<x.parameter>> \o r /\ TakesParameter(Kind[y.mode], y.add)
          BY <4>2, SendableIs DEF Proper, Params
        <5>2. q # <<>> /\ Head(q) = x.parameter /\ Tail(q) = r
          <6>1. \A v \in Params : \A b \in Seq(Params) :
                    /\ Len(<<v>> \o b) = Len(b) + 1 /\ <<v>> \o b \in Seq(Params)
                    /\ (<<v>> \o b)[1] = v
                    /\ \A i \in 1..Len(b) : (<<v>> \o b)[i + 1] = b[i]
            OBVIOUS
          <6> DEFINE z == <<x.parameter>> \o r
          <6>2. Len(z) = Len(r) + 1 /\ z \in Seq(Params) /\ z[1] = x.parameter
                /\ \A i \in 1..Len(r) : z[i + 1] = r[i]
            BY <5>1, <6>1
          <6> HIDE DEF z
          <6>3. z # <<>> /\ Head(z) = x.parameter /\ Tail(z) = r
            BY <6>2
          <6> QED BY <5>1, <6>3 DEF z
        <5>3. x = Change(y.add, y.mode, x.parameter)
          BY SendableIs
        <5> HIDE DEF q, y
        <5> QED BY <5>1, <5>2, <5>3 DEF DrawsOne
      <4> QED BY <4>1, <4>2
    <3> HIDE DEF p, q, y
    <3>6. Drawn(Letters(Append(s, x)), p) = [rest |-> r, changes |-> Append(s, x)]
      BY <3>3, <3>4, <3>5
    <3> QED BY <3>6 DEF p
  <2> QED BY <2>0, <2>1
<1>3. Seq(Sendable) \subseteq G
  <2> HIDE DEF G
  <2> QED BY <1>1, <1>2, AlongSequence
<1> QED BY <1>3

\* parseChannelModes() of what serializeModeChanges() made.
LEMMA ParsesBack ==
    ASSUME NEW cs \in Seq(Sendable)
    PROVE  ParseChannelModes(Command(cs).letters, Command(cs).params) = cs
<1>1. Command(cs).letters = Letters(cs) /\ Command(cs).params = Put(cs)
  BY CommandIs DEF Letters
<1>2. Put(cs) \in Seq(Params) /\ <<>> \in Seq(Params) /\ Put(cs) \o <<>> = Put(cs)
  BY PutType
<1>3. Drawn(Letters(cs), Put(cs)) = [rest |-> <<>>, changes |-> cs]
  BY <1>2, Draws
<1> QED BY <1>1, <1>3, ParseIs

\* The question comes back as itself, for want of a parameter.
LEMMA ParsesQuestion ==
    ParseChannelModes(Command(<<Question>>).letters, Command(<<Question>>).params) = <<Question>>
<1> DEFINE y == [add |-> TRUE, mode |-> "b"]
           S == {Question, y}
<1>0. Question.add = TRUE /\ Question.mode = "b" /\ Question.parameter = ""
  BY DEF Question, Change
<1>1. <<Question>> = Append(<<>>, Question) /\ <<y>> = Append(<<>>, y) /\ <<>> \in Seq(S)
  OBVIOUS
<1>2. Put(<<Question>>) = <<>>
  <2>1. Put(Append(<<>>, Question)) = PutsOne(Put(<<>>), Question)
    <3> HIDE DEF y
    <3> QED BY <1>1, PutAppend
  <2> QED BY <1>0, <1>1, <2>1, PutNone DEF PutsOne
<1>3. Command(<<Question>>).letters = <<y>>
  <2>1. Len(<<Question>>) = 1 /\ <<Question>>[1] = Question /\ 1..1 = {1}
    OBVIOUS
  <2>2. Command(<<Question>>).letters = [i \in 1..1 |-> [add |-> <<Question>>[i].add, mode |-> <<Question>>[i].mode]]
    BY <2>1, CommandIs
  <2>3. \A i \in 1..1 : [add |-> <<Question>>[i].add, mode |-> <<Question>>[i].mode] = y
    BY <1>0, <2>1
  <2> HIDE DEF y
  <2>4. [i \in 1..1 |-> y] = <<y>>
    OBVIOUS
  <2> QED BY <2>2, <2>3, <2>4
<1>4. Drawn(<<y>>, <<>>) = DrawsOne([rest |-> <<>>, changes |-> <<>>], y)
  <2> HIDE DEF y
  <2>1. Drawn(Append(<<>>, y), <<>>) = DrawsOne(Drawn(<<>>, <<>>), y)
    BY <1>1, DrawnAppend
  <2> QED BY <1>1, <2>1, DrawnNone
<1>5. DrawsOne([rest |-> <<>>, changes |-> <<>>], y).changes = <<Question>>
  <2>1. DrawsOne([rest |-> <<>>, changes |-> <<>>], y).changes = Append(<<>>, Change(y.add, y.mode, ""))
    BY DEF DrawsOne
  <2> QED BY <1>1, <2>1 DEF Question
<1>6. Command(<<Question>>).params = <<>>
  BY <1>2, CommandIs
<1> HIDE DEF y
<1> QED BY <1>3, <1>4, <1>5, <1>6, ParseIs

----------------------------------------------------------------------------
(* What a server makes of a line, and what the client makes of what it is  *)
(* told of it.                                                             *)

\* Modes as they are held, and known: a mode with a value is set exactly
\* where there is one.
Kept ==
    {s \in ModeStates : /\ "k" \in s.flags <=> s.params.k # ""
                        /\ "l" \in s.flags <=> s.params.l # ""}

HeldSet == [modes : Kept, topic : Topics, bans : SUBSET {"n"}]

\* What is known of some modes is so.
Partial(s, h) ==
    /\ s.flags \subseteq h.flags
    /\ "k" \in s.flags => s.params.k = h.params.k
    /\ "l" \in s.flags => s.params.l = h.params.l

\* What modes are made of,
LEMMA KeptIs ==
    ASSUME NEW s \in Kept
    PROVE  /\ s = [flags |-> s.flags, params |-> [k |-> s.params.k, l |-> s.params.l]]
           /\ s.flags \in SUBSET {"m", "k", "l"}
           /\ s.params.k \in {"", "x", "y"} /\ s.params.l \in {"", "5"}
           /\ "k" \in s.flags <=> s.params.k # ""
           /\ "l" \in s.flags <=> s.params.l # ""
BY DEF Kept, ModeStates

\* and what makes them.
LEMMA KeptFrom ==
    ASSUME NEW f \in SUBSET {"m", "k", "l"}, NEW k \in {"", "x", "y"}, NEW l \in {"", "5"},
           "k" \in f <=> k # "", "l" \in f <=> l # ""
    PROVE  [flags |-> f, params |-> [k |-> k, l |-> l]] \in Kept
BY DEF Kept, ModeStates

\* A record of the two values, as a function of the mode.
LEMMA ValuesAre ==
    ASSUME NEW v, NEW b
    PROVE  [k |-> v, l |-> b] = [i \in {"k", "l"} |-> IF i = "k" THEN v ELSE b]
OBVIOUS

\* Setting one of the two values.
LEMMA ValuesExcept ==
    ASSUME NEW v, NEW b, NEW w
    PROVE  /\ [[k |-> v, l |-> b] EXCEPT !["k"] = w] = [k |-> w, l |-> b]
           /\ [[k |-> v, l |-> b] EXCEPT !["l"] = w] = [k |-> v, l |-> w]
<1> DEFINE q == [k |-> v, l |-> b]
           f == [i \in {"k", "l"} |-> IF i = "k" THEN v ELSE b]
<1>1. q = f
  BY ValuesAre
<1>2. [f EXCEPT !["k"] = w] = [i \in {"k", "l"} |-> IF i = "k" THEN w ELSE b]
  OBVIOUS
<1>3. [f EXCEPT !["l"] = w] = [i \in {"k", "l"} |-> IF i = "k" THEN v ELSE w]
  OBVIOUS
<1> HIDE DEF q, f
<1>4. [q EXCEPT !["k"] = w] = [f EXCEPT !["k"] = w] /\ [q EXCEPT !["l"] = w] = [f EXCEPT !["l"] = w]
  BY <1>1, Zenon
<1>5. /\ [k |-> w, l |-> b] = [i \in {"k", "l"} |-> IF i = "k" THEN w ELSE b]
      /\ [k |-> v, l |-> w] = [i \in {"k", "l"} |-> IF i = "k" THEN v ELSE w]
  BY ValuesAre
<1>6. [q EXCEPT !["k"] = w] = [k |-> w, l |-> b]
  BY <1>2, <1>4, <1>5, Zenon
<1>7. [q EXCEPT !["l"] = w] = [k |-> v, l |-> w]
  BY <1>3, <1>4, <1>5, Zenon
<1> QED BY <1>6, <1>7, Zenon DEF q

\* ApplyChange, mode by mode.
LEMMA ApplyIs ==
    ASSUME NEW s \in Kept, NEW x \in Sendable
    PROVE  ApplyChange(s, x) =
              IF x.mode \in {"b", "o"} THEN s
              ELSE [flags |-> IF x.add THEN s.flags \cup {x.mode} ELSE s.flags \ {x.mode},
                    params |-> [k |-> IF x.mode # "k" THEN s.params.k
                                      ELSE IF x.add THEN x.parameter ELSE "",
                                l |-> IF x.mode # "l" THEN s.params.l
                                      ELSE IF x.add THEN x.parameter ELSE ""]]
<1>0. /\ Kind["m"] = "flag" /\ Kind["k"] = "parameter" /\ Kind["l"] = "parameter-when-set"
      /\ Kind["b"] = "list" /\ Kind["o"] = "prefix"
  BY DEF Kind
<1>1. x.add \in BOOLEAN /\ Proper(x)
  BY SendableIs
<1>2. s = [flags |-> s.flags, params |-> [k |-> s.params.k, l |-> s.params.l]]
  BY KeptIs
<1> DEFINE f == s.flags
           a == s.params.k
           b == s.params.l
           p == [k |-> a, l |-> b]
<1>3. s.flags = f /\ s.params = p /\ DOMAIN p = {"k", "l"}
  BY <1>2
<1>4. CASE x.mode \in {"b", "o"}
  BY <1>0, <1>4 DEF ApplyChange
<1>5. CASE x.mode = "m"
  <2>1. x.parameter = "" /\ Kind[x.mode] \notin {"prefix", "list"} /\ x.mode \notin DOMAIN p
    BY <1>0, <1>1, <1>3, <1>5 DEF Proper
  <2>2. ApplyChange(s, x) = [flags |-> IF x.add THEN f \cup {x.mode} ELSE f \ {x.mode}, params |-> p]
    <3> HIDE DEF p, f
    <3> QED BY <1>3, <2>1 DEF ApplyChange
  <2> QED BY <1>5, <2>2
<1>6. CASE x.mode = "k"
  <2>1. x.parameter # "" /\ Kind[x.mode] \notin {"prefix", "list"} /\ x.mode \in DOMAIN p
    BY <1>0, <1>1, <1>3, <1>6 DEF Proper
  <2>2. ApplyChange(s, x) =
           [flags |-> IF x.add THEN f \cup {x.mode} ELSE f \ {x.mode},
            params |-> IF x.add THEN [p EXCEPT !["k"] = x.parameter]
                       ELSE [[p EXCEPT !["k"] = x.parameter] EXCEPT !["k"] = ""]]
    <3> HIDE DEF p, f
    <3> QED BY <1>3, <1>6, <2>1 DEF ApplyChange
  <2>3. [p EXCEPT !["k"] = x.parameter] = [k |-> x.parameter, l |-> b]
    BY ValuesExcept
  <2>4. [[p EXCEPT !["k"] = x.parameter] EXCEPT !["k"] = ""] = [k |-> "", l |-> b]
    <3> DEFINE q == [p EXCEPT !["k"] = x.parameter]
               z == [k |-> x.parameter, l |-> b]
    <3>1. q = z
      BY <2>3
    <3>2. [z EXCEPT !["k"] = ""] = [k |-> "", l |-> b]
      <4> DEFINE e == ""
                 y == x.parameter
      <4> HIDE DEF e, y, b
      <4>1. [[k |-> y, l |-> b] EXCEPT !["k"] = e] = [k |-> e, l |-> b]
        BY ValuesExcept
      <4> QED BY <4>1 DEF e, y
    <3> HIDE DEF q, z
    <3>3. [q EXCEPT !["k"] = ""] = [z EXCEPT !["k"] = ""]
      BY <3>1, Zenon
    <3>4. [q EXCEPT !["k"] = ""] = [k |-> "", l |-> b]
      BY <3>2, <3>3, Zenon
    <3> QED BY <3>4, Zenon DEF q
  <2> HIDE DEF p
  <2> QED BY <1>1, <1>6, <2>2, <2>3, <2>4
<1>7. CASE x.mode = "l"
  <2>1. (x.add => x.parameter # "") /\ Kind[x.mode] \notin {"prefix", "list"} /\ x.mode \in DOMAIN p
    BY <1>0, <1>1, <1>3, <1>7 DEF Proper
  <2>2. ApplyChange(s, x) =
           [flags |-> IF x.add THEN f \cup {x.mode} ELSE f \ {x.mode},
            params |-> IF x.add THEN [p EXCEPT !["l"] = x.parameter]
                       ELSE [[p EXCEPT !["l"] = x.parameter] EXCEPT !["l"] = ""]]
    <3> HIDE DEF p, f
    <3> QED BY <1>1, <1>3, <1>7, <2>1 DEF ApplyChange
  <2>3. [p EXCEPT !["l"] = x.parameter] = [k |-> a, l |-> x.parameter]
    BY ValuesExcept
  <2>4. [[p EXCEPT !["l"] = x.parameter] EXCEPT !["l"] = ""] = [k |-> a, l |-> ""]
    <3> DEFINE q == [p EXCEPT !["l"] = x.parameter]
               z == [k |-> a, l |-> x.parameter]
    <3>1. q = z
      BY <2>3
    <3>2. [z EXCEPT !["l"] = ""] = [k |-> a, l |-> ""]
      <4> DEFINE e == ""
                 y == x.parameter
      <4> HIDE DEF e, y, a
      <4>1. [[k |-> a, l |-> y] EXCEPT !["l"] = e] = [k |-> a, l |-> e]
        BY ValuesExcept
      <4> QED BY <4>1 DEF e, y
    <3> HIDE DEF q, z
    <3>3. [q EXCEPT !["l"] = ""] = [z EXCEPT !["l"] = ""]
      BY <3>1, Zenon
    <3>4. [q EXCEPT !["l"] = ""] = [k |-> a, l |-> ""]
      BY <3>2, <3>3, Zenon
    <3> QED BY <3>4, Zenon DEF q
  <2> HIDE DEF p
  <2> QED BY <1>1, <1>7, <2>2, <2>3, <2>4
<1> QED BY <1>1, <1>4, <1>5, <1>6, <1>7 DEF Proper

\* A change leaves modes that are in order in order,
LEMMA ApplyKept ==
    ASSUME NEW s \in Kept, NEW x \in Sendable PROVE ApplyChange(s, x) \in Kept
<1>1. x.add \in BOOLEAN /\ Proper(x)
  BY SendableIs
<1> DEFINE f == IF x.add THEN s.flags \cup {x.mode} ELSE s.flags \ {x.mode}
           k == IF x.mode # "k" THEN s.params.k ELSE IF x.add THEN x.parameter ELSE ""
           l == IF x.mode # "l" THEN s.params.l ELSE IF x.add THEN x.parameter ELSE ""
<1>2. CASE x.mode \in {"b", "o"}
  BY <1>2, ApplyIs
<1>3. CASE x.mode \notin {"b", "o"}
  <2>1. ApplyChange(s, x) = [flags |-> f, params |-> [k |-> k, l |-> l]]
    BY <1>3, ApplyIs
  <2>2. f \in SUBSET {"m", "k", "l"}
    BY <1>1, <1>3, KeptIs DEF Proper
  <2>3. k \in {"", "x", "y"} /\ l \in {"", "5"}
    BY <1>1, <1>3, KeptIs DEF Proper
  <2>4. ("k" \in f <=> k # "") /\ ("l" \in f <=> l # "")
    BY <1>1, <1>3, KeptIs DEF Proper
  <2> HIDE DEF f, k, l
  <2> QED BY <2>1, <2>2, <2>3, <2>4, KeptFrom
<1> QED BY <1>2, <1>3

\* and so do changes.
LEMMA AppliesKept ==
    ASSUME NEW s \in Kept, NEW cs \in Seq(Sendable) PROVE ApplyChannelModes(s, cs) \in Kept
<1> DEFINE G == {q \in Seq(Sendable) : ApplyChannelModes(s, q) \in Kept}
<1>1. <<>> \in G
  <2>1. <<>> \in Seq(Sendable)
    OBVIOUS
  <2> QED BY <2>1, ApplyNone
<1>2. ASSUME NEW q \in Seq(Sendable), NEW x \in Sendable, q \in G PROVE Append(q, x) \in G
  <2>1. Append(q, x) \in Seq(Sendable)
    OBVIOUS
  <2>2. ApplyChannelModes(s, Append(q, x)) = ApplyChange(ApplyChannelModes(s, q), x)
    BY ApplyAppend
  <2>3. ApplyChange(ApplyChannelModes(s, q), x) \in Kept
    BY <1>2, ApplyKept
  <2> QED BY <2>1, <2>2, <2>3
<1>3. Seq(Sendable) \subseteq G
  <2> HIDE DEF G
  <2> QED BY <1>1, <1>2, AlongSequence
<1> QED BY <1>3

\* What a server holds of a channel.
LEMMA HeldIs ==
    ASSUME NEW h \in HeldSet
    PROVE  /\ h = [modes |-> h.modes, topic |-> h.topic, bans |-> h.bans]
           /\ h.modes \in Kept /\ h.topic \in Topics /\ h.bans \in SUBSET {"n"}
BY DEF HeldSet

\* A change that takes effect is made of the modes as the client makes it.
LEMMA MadeIs ==
    ASSUME NEW h \in HeldSet, NEW x \in Sendable, Takes(h, x)
    PROVE  /\ Made(h, x) \in HeldSet
           /\ Made(h, x).topic = h.topic
           /\ Made(h, x).modes = ApplyChange(h.modes, x)
<1>0. x.add \in BOOLEAN /\ Proper(x)
  BY SendableIs
<1> DEFINE s == h.modes
           t == h.topic
           b == h.bans
<1>1. /\ h = [modes |-> s, topic |-> t, bans |-> b]
      /\ s \in Kept /\ t \in Topics /\ b \in SUBSET {"n"}
  BY HeldIs
<1>2. CASE x.mode = "b"
  <2> DEFINE w == IF x.add THEN b \cup {x.parameter} ELSE b \ {x.parameter}
  <2>1. Made(h, x) = [h EXCEPT !.bans = w]
    BY <1>2 DEF Made
  <2>2. w \in SUBSET {"n"}
    BY <1>0, <1>1, <1>2 DEF Proper
  <2> HIDE DEF w, s, t, b
  <2>3. Made(h, x) = [modes |-> s, topic |-> t, bans |-> w]
    BY <1>1, <2>1
  <2>4. ApplyChange(s, x) = s
    BY <1>1, <1>2, ApplyIs
  <2> QED BY <1>1, <2>2, <2>3, <2>4 DEF HeldSet, s, t
<1>3. CASE x.mode = "o"
  <2>1. Made(h, x) = h
    BY <1>3 DEF Made
  <2>2. ApplyChange(s, x) = s
    BY <1>1, <1>3, ApplyIs
  <2> QED BY <2>1, <2>2
<1>4. CASE x.mode \in {"m", "k", "l"}
  <2> DEFINE r == Switched(s, x)
  <2>1. Made(h, x) = [h EXCEPT !.modes = r]
    BY <1>4 DEF Made
  <2>2. s = [flags |-> s.flags, params |-> [k |-> s.params.k, l |-> s.params.l]]
    BY <1>1, KeptIs
  <2>3. Made(h, x) = [modes |-> r, topic |-> t, bans |-> b]
    <3> HIDE DEF r, s, t, b
    <3> QED BY <1>1, <2>1
  <2>4. ApplyChange(s, x) = r
    <3> DEFINE a == s.params.k
               e == s.params.l
               f == IF x.add THEN s.flags \cup {x.mode} ELSE s.flags \ {x.mode}
               v == IF x.add THEN x.parameter ELSE ""
    <3>1. s.params = [k |-> a, l |-> e]
      BY <2>2
    <3>2. r = [flags |-> f, params |-> IF x.mode = "m" THEN s.params ELSE [s.params EXCEPT ![x.mode] = v]]
      BY DEF Switched
    <3>3. ApplyChange(s, x) = [flags |-> f, params |-> [k |-> IF x.mode # "k" THEN a ELSE v,
                                                        l |-> IF x.mode # "l" THEN e ELSE v]]
      BY <1>1, <1>4, ApplyIs
    <3> HIDE DEF r, a, e, f, v, s
    <3>4. CASE x.mode = "m"
      BY <3>1, <3>2, <3>3, <3>4
    <3>5. CASE x.mode = "k"
      <4>1. [s.params EXCEPT !["k"] = v] = [k |-> v, l |-> e]
        BY <3>1, ValuesExcept
      <4> QED BY <3>2, <3>3, <3>5, <4>1
    <3>6. CASE x.mode = "l"
      <4>1. [s.params EXCEPT !["l"] = v] = [k |-> a, l |-> v]
        BY <3>1, ValuesExcept
      <4> QED BY <3>2, <3>3, <3>6, <4>1
    <3> QED BY <1>4, <3>4, <3>5, <3>6
  <2>5. r \in Kept
    BY <1>1, <2>4, ApplyKept
  <2> HIDE DEF r, s, t, b
  <2> QED BY <1>1, <2>3, <2>4, <2>5 DEF HeldSet, s, t
<1> QED BY <1>0, <1>2, <1>3, <1>4 DEF Proper

\* What is known of some modes stays so through a change that takes effect.
LEMMA PartialApply ==
    ASSUME NEW h \in HeldSet, NEW x \in Sendable, Takes(h, x), NEW s \in Kept,
           Partial(s, h.modes)
    PROVE  Partial(ApplyChange(s, x), ApplyChange(h.modes, x))
<1>0. x.add \in BOOLEAN /\ Proper(x) /\ h.modes \in Kept
  BY SendableIs, HeldIs
<1>1. CASE x.mode \in {"b", "o"}
  BY <1>0, <1>1, ApplyIs
<1>2. CASE x.mode \notin {"b", "o"}
  <2> DEFINE g == h.modes
  <2>1. ApplyChange(s, x) =
            [flags |-> IF x.add THEN s.flags \cup {x.mode} ELSE s.flags \ {x.mode},
             params |-> [k |-> IF x.mode # "k" THEN s.params.k
                               ELSE IF x.add THEN x.parameter ELSE "",
                         l |-> IF x.mode # "l" THEN s.params.l
                               ELSE IF x.add THEN x.parameter ELSE ""]]
    BY <1>2, ApplyIs
  <2>2. ApplyChange(g, x) =
            [flags |-> IF x.add THEN g.flags \cup {x.mode} ELSE g.flags \ {x.mode},
             params |-> [k |-> IF x.mode # "k" THEN g.params.k
                               ELSE IF x.add THEN x.parameter ELSE "",
                         l |-> IF x.mode # "l" THEN g.params.l
                               ELSE IF x.add THEN x.parameter ELSE ""]]
    BY <1>0, <1>2, ApplyIs
  <2>3. Partial(s, g)
    OBVIOUS
  <2> HIDE DEF g
  <2>4. Partial(ApplyChange(s, x), ApplyChange(g, x))
    <3>1. CASE x.mode = "m"
      BY <2>1, <2>2, <2>3, <3>1 DEF Partial
    <3> DEFINE u == ApplyChange(s, x)
               w == ApplyChange(g, x)
    <3>2. CASE x.mode = "k"
      <4>1. /\ u.flags = (IF x.add THEN s.flags \cup {"k"} ELSE s.flags \ {"k"})
            /\ u.params.k = (IF x.add THEN x.parameter ELSE "") /\ u.params.l = s.params.l
        <5> DEFINE f == IF x.add THEN s.flags \cup {x.mode} ELSE s.flags \ {x.mode}
                   k == IF x.mode # "k" THEN s.params.k ELSE IF x.add THEN x.parameter ELSE ""
                   l == IF x.mode # "l" THEN s.params.l ELSE IF x.add THEN x.parameter ELSE ""
        <5>1. u = [flags |-> f, params |-> [k |-> k, l |-> l]]
          BY <2>1
        <5> HIDE DEF u, f, k, l
        <5>2. u.flags = f /\ u.params.k = k /\ u.params.l = l
          BY <5>1
        <5> QED BY <3>2, <5>2 DEF f, k, l
      <4>2. /\ w.flags = (IF x.add THEN g.flags \cup {"k"} ELSE g.flags \ {"k"})
            /\ w.params.k = (IF x.add THEN x.parameter ELSE "") /\ w.params.l = g.params.l
        <5> DEFINE f == IF x.add THEN g.flags \cup {x.mode} ELSE g.flags \ {x.mode}
                   k == IF x.mode # "k" THEN g.params.k ELSE IF x.add THEN x.parameter ELSE ""
                   l == IF x.mode # "l" THEN g.params.l ELSE IF x.add THEN x.parameter ELSE ""
        <5>1. w = [flags |-> f, params |-> [k |-> k, l |-> l]]
          BY <2>2
        <5> HIDE DEF w, f, k, l
        <5>2. w.flags = f /\ w.params.k = k /\ w.params.l = l
          BY <5>1
        <5> QED BY <3>2, <5>2 DEF f, k, l
      <4> HIDE DEF u, w
      <4>3. Partial(u, w)
        <5>1. u.flags \subseteq w.flags
          BY <2>3, <4>1, <4>2 DEF Partial
        <5>2. "k" \in u.flags => u.params.k = w.params.k
          <6>1. CASE x.add
            BY <2>3, <4>1, <4>2, <6>1 DEF Partial
          <6>2. CASE ~x.add
            BY <2>3, <4>1, <4>2, <6>2 DEF Partial
          <6> QED BY <6>1, <6>2
        <5>3. "l" \in u.flags => u.params.l = w.params.l
          <6>1. CASE x.add
            BY <2>3, <4>1, <4>2, <6>1 DEF Partial
          <6>2. CASE ~x.add
            BY <2>3, <4>1, <4>2, <6>2 DEF Partial
          <6> QED BY <6>1, <6>2
        <5> QED BY <5>1, <5>2, <5>3 DEF Partial
      <4> QED BY <4>3 DEF u, w
    <3>3. CASE x.mode = "l"
      <4>1. /\ u.flags = (IF x.add THEN s.flags \cup {"l"} ELSE s.flags \ {"l"})
            /\ u.params.l = (IF x.add THEN x.parameter ELSE "") /\ u.params.k = s.params.k
        <5> DEFINE f == IF x.add THEN s.flags \cup {x.mode} ELSE s.flags \ {x.mode}
                   k == IF x.mode # "k" THEN s.params.k ELSE IF x.add THEN x.parameter ELSE ""
                   l == IF x.mode # "l" THEN s.params.l ELSE IF x.add THEN x.parameter ELSE ""
        <5>1. u = [flags |-> f, params |-> [k |-> k, l |-> l]]
          BY <2>1
        <5> HIDE DEF u, f, k, l
        <5>2. u.flags = f /\ u.params.k = k /\ u.params.l = l
          BY <5>1
        <5> QED BY <3>3, <5>2 DEF f, k, l
      <4>2. /\ w.flags = (IF x.add THEN g.flags \cup {"l"} ELSE g.flags \ {"l"})
            /\ w.params.l = (IF x.add THEN x.parameter ELSE "") /\ w.params.k = g.params.k
        <5> DEFINE f == IF x.add THEN g.flags \cup {x.mode} ELSE g.flags \ {x.mode}
                   k == IF x.mode # "k" THEN g.params.k ELSE IF x.add THEN x.parameter ELSE ""
                   l == IF x.mode # "l" THEN g.params.l ELSE IF x.add THEN x.parameter ELSE ""
        <5>1. w = [flags |-> f, params |-> [k |-> k, l |-> l]]
          BY <2>2
        <5> HIDE DEF w, f, k, l
        <5>2. w.flags = f /\ w.params.k = k /\ w.params.l = l
          BY <5>1
        <5> QED BY <3>3, <5>2 DEF f, k, l
      <4> HIDE DEF u, w
      <4>3. Partial(u, w)
        <5>1. u.flags \subseteq w.flags
          BY <2>3, <4>1, <4>2 DEF Partial
        <5>2. "k" \in u.flags => u.params.k = w.params.k
          <6>1. CASE x.add
            BY <2>3, <4>1, <4>2, <6>1 DEF Partial
          <6>2. CASE ~x.add
            BY <2>3, <4>1, <4>2, <6>2 DEF Partial
          <6> QED BY <6>1, <6>2
        <5>3. "l" \in u.flags => u.params.l = w.params.l
          <6>1. CASE x.add
            BY <2>3, <4>1, <4>2, <6>1 DEF Partial
          <6>2. CASE ~x.add
            BY <2>3, <4>1, <4>2, <6>2 DEF Partial
          <6> QED BY <6>1, <6>2
        <5> QED BY <5>1, <5>2, <5>3 DEF Partial
      <4> QED BY <4>3 DEF u, w
    <3> QED BY <1>0, <1>2, <3>1, <3>2, <3>3 DEF Proper
  <2> QED BY <2>4 DEF g
<1> QED BY <1>1, <1>2

\* A line of changes: what the server tells of it brings what is known of
\* the modes to what it holds.
LEMMA ServedIs ==
    ASSUME NEW h \in HeldSet, NEW cs \in Seq(Sendable)
    PROVE  /\ Served(h, cs) = [holds |-> Served(h, cs).holds, done |-> Served(h, cs).done]
           /\ Served(h, cs).holds \in HeldSet
           /\ Served(h, cs).holds.topic = h.topic
           /\ Served(h, cs).done \in Seq(Sendable)
           /\ Served(h, cs).holds.modes = ApplyChannelModes(h.modes, Served(h, cs).done)
           /\ \A s \in Kept : Partial(s, h.modes) =>
                 Partial(ApplyChannelModes(s, Served(h, cs).done), Served(h, cs).holds.modes)
<1> DEFINE Right(r) ==
              /\ r = [holds |-> r.holds, done |-> r.done]
              /\ r.holds \in HeldSet
              /\ r.holds.topic = h.topic
              /\ r.done \in Seq(Sendable)
              /\ r.holds.modes = ApplyChannelModes(h.modes, r.done)
              /\ \A s \in Kept : Partial(s, h.modes) =>
                    Partial(ApplyChannelModes(s, r.done), r.holds.modes)
           G == {q \in Seq(Sendable) : Right(Served(h, q))}
<1>1. <<>> \in G
  <2>1. <<>> \in Seq(Sendable)
    OBVIOUS
  <2> DEFINE r == Served(h, <<>>)
  <2>2. r.holds = h /\ r.done = <<>> /\ r = [holds |-> r.holds, done |-> r.done]
    BY ServedNone
  <2> HIDE DEF r
  <2>3. Right(r)
    BY <2>1, <2>2, ApplyNone
  <2> QED BY <2>1, <2>3 DEF r
<1>2. ASSUME NEW q \in Seq(Sendable), NEW x \in Sendable, q \in G PROVE Append(q, x) \in G
  <2> DEFINE r == Served(h, q)
             z == Served(h, Append(q, x))
  <2>1. Append(q, x) \in Seq(Sendable)
    OBVIOUS
  <2>2. Right(r)
    BY <1>2
  <2>3. z = IF Takes(r.holds, x) THEN [holds |-> Made(r.holds, x), done |-> Append(r.done, x)] ELSE r
    BY ServedAppend DEF ServesOne
  <2> HIDE DEF r, z
  <2>4. CASE ~Takes(r.holds, x)
    <3>1. z = r
      BY <2>3, <2>4
    <3>2. Right(z)
      BY <2>2, <3>1
    <3> QED BY <2>1, <3>2 DEF z
  <2>5. CASE Takes(r.holds, x)
    <3>0. z.holds = Made(r.holds, x) /\ z.done = Append(r.done, x)
          /\ z = [holds |-> z.holds, done |-> z.done]
      BY <2>3, <2>5
    <3>1. /\ z.holds \in HeldSet /\ z.holds.topic = h.topic
          /\ z.holds.modes = ApplyChange(r.holds.modes, x)
      BY <2>2, <2>5, <3>0, MadeIs
    <3>2. z.done \in Seq(Sendable)
      BY <2>2, <3>0
    <3>3. \A s : ApplyChannelModes(s, z.done) = ApplyChange(ApplyChannelModes(s, r.done), x)
      BY <2>2, <3>0, ApplyAppend
    <3>4. ASSUME NEW s \in Kept, Partial(s, h.modes)
          PROVE  Partial(ApplyChannelModes(s, z.done), z.holds.modes)
      <4>1. ApplyChannelModes(s, r.done) \in Kept
        BY <2>2, AppliesKept
      <4>2. Partial(ApplyChannelModes(s, r.done), r.holds.modes)
        BY <2>2, <3>4
      <4>3. Partial(ApplyChange(ApplyChannelModes(s, r.done), x), ApplyChange(r.holds.modes, x))
        BY <2>2, <2>5, <4>1, <4>2, PartialApply
      <4> QED BY <3>1, <3>3, <4>3
    <3>5. Right(z)
      BY <2>2, <3>0, <3>1, <3>2, <3>3, <3>4
    <3> QED BY <2>1, <3>5 DEF z
  <2> QED BY <2>4, <2>5
<1>3. Seq(Sendable) \subseteq G
  <2> HIDE DEF G
  <2> QED BY <1>1, <1>2, AlongSequence
<1> HIDE DEF Right
<1>4. Right(Served(h, cs))
  BY <1>3
<1> QED BY <1>4 DEF Right

\* The question changes nothing.
LEMMA ServedQuestion ==
    ASSUME NEW h PROVE Served(h, <<Question>>) = [holds |-> h, done |-> <<>>]
<1>1. ~Takes(h, Question)
  BY DEF Takes, Question, Change
<1>2. <<Question>> = Append(<<>>, Question) /\ <<>> \in Seq({Question})
  OBVIOUS
<1>3. Served(h, Append(<<>>, Question)) = ServesOne(Served(h, <<>>), Question)
  BY <1>2, ServedAppend
<1> QED BY <1>1, <1>2, <1>3, ServedNone DEF ServesOne

----------------------------------------------------------------------------
(* The modes a channel is said to have, and the changes a form is made     *)
(* into, end in what they are about.                                       *)

If(b, x) == IF b THEN <<x>> ELSE <<>>

\* A change that is there on a condition,
LEMMA IfType ==
    ASSUME NEW b \in BOOLEAN, NEW x, NEW S, b => x \in S
    PROVE  If(b, x) \in Seq(S)
BY DEF If

\* what the client makes of it,
LEMMA ApplyIf ==
    ASSUME NEW s, NEW p \in Seq(Sendable), NEW b \in BOOLEAN, NEW x, b => x \in Sendable
    PROVE  /\ p \o If(b, x) \in Seq(Sendable)
           /\ ApplyChannelModes(s, p \o If(b, x)) =
                 IF b THEN ApplyChange(ApplyChannelModes(s, p), x) ELSE ApplyChannelModes(s, p)
<1>1. CASE b
  <2>1. \A y \in Sendable : p \o <<y>> = Append(p, y) /\ Append(p, y) \in Seq(Sendable)
    OBVIOUS
  <2>2. p \o If(b, x) = Append(p, x) /\ Append(p, x) \in Seq(Sendable)
    BY <1>1, <2>1 DEF If
  <2>3. ApplyChannelModes(s, Append(p, x)) = ApplyChange(ApplyChannelModes(s, p), x)
    BY <1>1, ApplyAppend
  <2> QED BY <1>1, <2>2, <2>3
<1>2. CASE ~b
  <2>1. p \o If(b, x) = p
    BY <1>2 DEF If
  <2> QED BY <1>2, <2>1
<1> QED BY <1>1, <1>2

\* and what the server makes of it.
LEMMA ServedIf ==
    ASSUME NEW h, NEW p \in Seq(Sendable), NEW b \in BOOLEAN, NEW x, b => x \in Sendable,
           b => Takes(Served(h, p).holds, x)
    PROVE  /\ p \o If(b, x) \in Seq(Sendable)
           /\ Served(h, p \o If(b, x)).holds =
                 IF b THEN Made(Served(h, p).holds, x) ELSE Served(h, p).holds
<1>1. CASE b
  <2>1. \A y \in Sendable : p \o <<y>> = Append(p, y) /\ Append(p, y) \in Seq(Sendable)
    OBVIOUS
  <2>2. p \o If(b, x) = Append(p, x) /\ Append(p, x) \in Seq(Sendable)
    BY <1>1, <2>1 DEF If
  <2>3. Served(h, Append(p, x)) = ServesOne(Served(h, p), x)
    BY <1>1, ServedAppend
  <2>4. ServesOne(Served(h, p), x).holds = Made(Served(h, p).holds, x)
    BY <1>1 DEF ServesOne
  <2> QED BY <1>1, <2>2, <2>3, <2>4
<1>2. CASE ~b
  <2>1. p \o If(b, x) = p
    BY <1>2 DEF If
  <2> QED BY <1>2, <2>1
<1> QED BY <1>1, <1>2

All(h) ==
    (IF "m" \in h.modes.flags THEN <<Change(TRUE, "m", "")>> ELSE <<>>)
        \o (IF "l" \in h.modes.flags THEN <<Change(TRUE, "l", h.modes.params.l)>> ELSE <<>>)
        \o (IF "k" \in h.modes.flags THEN <<Change(TRUE, "k", h.modes.params.k)>> ELSE <<>>)

\* 324, as changes.
LEMMA ModesOfIs == ASSUME NEW h PROVE ModesOf(h) = Command(All(h))
BY DEF ModesOf, All

\* A change with a mode that can have it can be sent.
LEMMA ChangeSendable ==
    ASSUME NEW add \in BOOLEAN
    PROVE  /\ Change(add, "m", "") \in Sendable
           /\ \A v \in {"x", "y"} : Change(add, "k", v) \in Sendable
           /\ Change(TRUE, "l", "5") \in Sendable /\ Change(FALSE, "l", "") \in Sendable
           /\ Change(add, "b", "n") \in Sendable /\ Change(add, "o", "nick") \in Sendable
BY DEF Change, Sendable, Proper

\* 324 tells all of it, to a client that knows some.
LEMMA AllTells ==
    ASSUME NEW h \in HeldSet, NEW s \in Kept, Partial(s, h.modes)
    PROVE  All(h) \in Seq(Sendable) /\ ApplyChannelModes(s, All(h)) = h.modes
<1> DEFINE g == h.modes
           xm == Change(TRUE, "m", "")
           xl == Change(TRUE, "l", g.params.l)
           xk == Change(TRUE, "k", g.params.k)
           bm == "m" \in g.flags
           bl == "l" \in g.flags
           bk == "k" \in g.flags
           p1 == <<>> \o If(bm, xm)
           p2 == p1 \o If(bl, xl)
           p3 == p2 \o If(bk, xk)
<1>0. g \in Kept /\ xm \in Sendable /\ (bl => xl \in Sendable) /\ (bk => xk \in Sendable)
  <2>1. g \in Kept
    BY HeldIs
  <2>2. /\ "k" \in g.flags => g.params.k \in {"x", "y"}
        /\ "l" \in g.flags => g.params.l = "5"
    BY <2>1, KeptIs
  <2> QED BY <2>1, <2>2, ChangeSendable
<1>1. All(h) = p3
  <2>1. If(bm, xm) \in Seq(Sendable)
    <3>1. bm \in BOOLEAN /\ xm \in Sendable
      <4>1. bm \in BOOLEAN
        OBVIOUS
      <4>2. xm \in Sendable
        BY <1>0
      <4> QED BY <4>1, <4>2, Zenon
    <3> HIDE DEF bm, xm
    <3> QED BY <3>1, IfType
  <2>2. p1 = If(bm, xm)
    <3> DEFINE w == If(bm, xm)
    <3>1. w \in Seq(Sendable)
      BY <2>1
    <3> HIDE DEF w
    <3>2. <<>> \o w = w
      BY <3>1
    <3> QED BY <3>2 DEF w
  <2>3. All(h) = If(bm, xm) \o If(bl, xl) \o If(bk, xk)
    BY DEF All, If
  <2> HIDE DEF p1
  <2> QED BY <2>2, <2>3
<1>2. s \in Kept /\ s = [flags |-> s.flags, params |-> [k |-> s.params.k, l |-> s.params.l]]
  BY KeptIs
<1>3. xm.add = TRUE /\ xm.mode = "m" /\ xl.add = TRUE /\ xl.mode = "l" /\ xl.parameter = g.params.l
      /\ xk.add = TRUE /\ xk.mode = "k" /\ xk.parameter = g.params.k
  BY DEF Change
<1>4. <<>> \in Seq(Sendable) /\ bm \in BOOLEAN /\ bl \in BOOLEAN /\ bk \in BOOLEAN
  OBVIOUS
<1> HIDE DEF xm, xl, xk, bm, bl, bk
<1> DEFINE s1 == IF bm THEN ApplyChange(s, xm) ELSE s
           s2 == IF bl THEN ApplyChange(s1, xl) ELSE s1
           s3 == IF bk THEN ApplyChange(s2, xk) ELSE s2
<1>5. p1 \in Seq(Sendable) /\ ApplyChannelModes(s, p1) = s1
  <2> DEFINE e == <<>>
  <2>1. e \in Seq(Sendable) /\ ApplyChannelModes(s, e) = s
    BY <1>4, ApplyNone
  <2> HIDE DEF e
  <2>2. /\ e \o If(bm, xm) \in Seq(Sendable)
        /\ ApplyChannelModes(s, e \o If(bm, xm)) =
              IF bm THEN ApplyChange(ApplyChannelModes(s, e), xm) ELSE ApplyChannelModes(s, e)
    BY <1>0, <1>4, <2>1, ApplyIf
  <2> QED BY <2>1, <2>2 DEF e
<1> HIDE DEF p1, s1
<1>6. p2 \in Seq(Sendable) /\ ApplyChannelModes(s, p2) = s2
  <2>1. /\ p1 \o If(bl, xl) \in Seq(Sendable)
        /\ ApplyChannelModes(s, p1 \o If(bl, xl)) =
              IF bl THEN ApplyChange(ApplyChannelModes(s, p1), xl) ELSE ApplyChannelModes(s, p1)
    BY <1>0, <1>4, <1>5, ApplyIf
  <2> QED BY <1>5, <2>1
<1> HIDE DEF p2, s2
<1>7. p3 \in Seq(Sendable) /\ ApplyChannelModes(s, p3) = s3
  <2>1. /\ p2 \o If(bk, xk) \in Seq(Sendable)
        /\ ApplyChannelModes(s, p2 \o If(bk, xk)) =
              IF bk THEN ApplyChange(ApplyChannelModes(s, p2), xk) ELSE ApplyChannelModes(s, p2)
    BY <1>0, <1>4, <1>6, ApplyIf
  <2> QED BY <1>6, <2>1
<1> HIDE DEF p3, s3
<1> DEFINE f1 == IF bm THEN s.flags \cup {"m"} ELSE s.flags
           f2 == IF bl THEN f1 \cup {"l"} ELSE f1
           f3 == IF bk THEN f2 \cup {"k"} ELSE f2
           l2 == IF bl THEN g.params.l ELSE s.params.l
           k3 == IF bk THEN g.params.k ELSE s.params.k
<1>8. s1 = [flags |-> f1, params |-> [k |-> s.params.k, l |-> s.params.l]] /\ s1 \in Kept
  <2>1. CASE bm
    BY <1>0, <1>2, <1>3, <2>1, ApplyIs, ApplyKept DEF s1
  <2>2. CASE ~bm
    BY <1>2, <2>2 DEF s1
  <2> QED BY <2>1, <2>2
<1> HIDE DEF f1
<1>9. s2 = [flags |-> f2, params |-> [k |-> s.params.k, l |-> l2]] /\ s2 \in Kept
  <2>1. CASE bl
    <3>1. ApplyChange(s1, xl) = [flags |-> s1.flags \cup {"l"}, params |-> [k |-> s1.params.k, l |-> g.params.l]]
      BY <1>0, <1>3, <1>8, <2>1, ApplyIs
    <3> QED BY <1>0, <1>8, <2>1, <3>1, ApplyKept DEF s2
  <2>2. CASE ~bl
    BY <1>8, <2>2 DEF s2
  <2> QED BY <2>1, <2>2
<1> HIDE DEF f2, l2
<1>10. s3 = [flags |-> f3, params |-> [k |-> k3, l |-> l2]]
  <2>1. CASE bk
    <3>1. ApplyChange(s2, xk) = [flags |-> s2.flags \cup {"k"}, params |-> [k |-> g.params.k, l |-> s2.params.l]]
      BY <1>0, <1>3, <1>9, <2>1, ApplyIs
    <3> QED BY <1>9, <2>1, <3>1 DEF s3
  <2>2. CASE ~bk
    BY <1>9, <2>2 DEF s3
  <2> QED BY <2>1, <2>2
<1>11. f3 = g.flags /\ k3 = g.params.k /\ l2 = g.params.l
  <2>1. s.flags \subseteq g.flags
    BY DEF Partial
  <2>2. ~bk => s.params.k = g.params.k
    BY <1>0, <2>1, KeptIs DEF bk
  <2>3. ~bl => s.params.l = g.params.l
    BY <1>0, <2>1, KeptIs DEF bl
  <2>4. g.flags \in SUBSET {"m", "k", "l"}
    BY <1>0, KeptIs
  <2>5. f3 = g.flags
    <3> DEFINE q == g.flags
               r == s.flags
    <3>1. r \subseteq q /\ q \in SUBSET {"m", "k", "l"}
      BY <2>1, <2>4
    <3>2. bm = ("m" \in q) /\ bl = ("l" \in q) /\ bk = ("k" \in q)
      BY DEF bm, bl, bk
    <3>3. /\ f1 = IF bm THEN r \cup {"m"} ELSE r
          /\ f2 = IF bl THEN f1 \cup {"l"} ELSE f1
          /\ f3 = IF bk THEN f2 \cup {"k"} ELSE f2
      BY DEF f1, f2
    <3> HIDE DEF q, r, bm, bl, bk, f1, f2, f3
    <3>4. \A x : x \in f3 <=> x \in r \/ (bm /\ x = "m") \/ (bl /\ x = "l") \/ (bk /\ x = "k")
      BY <3>3
    <3>5. \A x : x \in f3 <=> x \in q
      BY <3>1, <3>2, <3>4
    <3> QED BY <3>3, <3>5 DEF q
  <2>6. k3 = g.params.k
    BY <2>2
  <2>7. l2 = g.params.l
    BY <2>3 DEF l2
  <2> QED BY <2>5, <2>6, <2>7
<1>12. s3 = g
  <2>1. g = [flags |-> g.flags, params |-> [k |-> g.params.k, l |-> g.params.l]]
    BY <1>0, KeptIs
  <2> HIDE DEF f3, k3, g
  <2> QED BY <1>10, <1>11, <2>1
<1> QED BY <1>1, <1>7, <1>12

Forms == [m : BOOLEAN, k : {"", "x", "y"}, l : {"", "5"}]

\* What a form is made of.
LEMMA FormIs ==
    ASSUME NEW f \in Forms
    PROVE  /\ f = [m |-> f.m, k |-> f.k, l |-> f.l]
           /\ f.m \in BOOLEAN /\ f.k \in {"", "x", "y"} /\ f.l \in {"", "5"}
BY DEF Forms

\* settingsFrom(): the form of a channel.
LEMMA SettingsType ==
    ASSUME NEW s \in Kept
    PROVE  SettingsFrom(s) = [m |-> "m" \in s.flags, k |-> s.params.k, l |-> s.params.l]
           /\ SettingsFrom(s) \in Forms
<1>1. Value(s, "k") = s.params.k /\ Value(s, "l") = s.params.l
  <2>1. s.params["k"] = s.params.k /\ s.params["l"] = s.params.l
    OBVIOUS
  <2> QED BY <2>1, KeptIs DEF Value
<1>2. s.params.k \in {"", "x", "y"} /\ s.params.l \in {"", "5"}
  BY KeptIs
<1>3. SettingsFrom(s) = [m |-> "m" \in s.flags, k |-> s.params.k, l |-> s.params.l]
  BY <1>1 DEF SettingsFrom
<1>4. ("m" \in s.flags) \in BOOLEAN
  OBVIOUS
<1>5. [m |-> "m" \in s.flags, k |-> s.params.k, l |-> s.params.l] \in Forms
  <2> DEFINE b == "m" \in s.flags
  <2>1. b \in BOOLEAN
    OBVIOUS
  <2> HIDE DEF b
  <2>2. [m |-> b, k |-> s.params.k, l |-> s.params.l] \in Forms
    BY <1>2, <2>1 DEF Forms
  <2> QED BY <2>2 DEF b
<1> QED BY <1>3, <1>5

----------------------------------------------------------------------------
(* However many commands the changes of a form take, what the server makes *)
(* of them is what it makes of them one after the other.                   *)

\* One line of changes after another is both in one.
LEMMA ServedThen ==
    ASSUME NEW h, NEW s \in Seq(Sendable), NEW q \in Seq(Sendable)
    PROVE  Served(h, s \o q).holds = Served(Served(h, s).holds, q).holds
<1> DEFINE G == {r \in Seq(Sendable) : Served(h, s \o r).holds = Served(Served(h, s).holds, r).holds}
<1>1. <<>> \in G
  <2>1. <<>> \in Seq(Sendable) /\ s \o <<>> = s
    OBVIOUS
  <2>2. Served(Served(h, s).holds, <<>>).holds = Served(h, s).holds
    BY ServedNone
  <2> QED BY <2>1, <2>2
<1>2. ASSUME NEW r \in Seq(Sendable), NEW x \in Sendable, r \in G PROVE Append(r, x) \in G
  <2>1. /\ Append(r, x) \in Seq(Sendable) /\ s \o r \in Seq(Sendable)
        /\ s \o Append(r, x) = Append(s \o r, x)
    OBVIOUS
  <2> DEFINE u == Served(h, s \o r)
             w == Served(Served(h, s).holds, r)
  <2>2. Served(h, Append(s \o r, x)) = ServesOne(u, x)
    <3>1. \A t \in Seq(Sendable) : Served(h, Append(t, x)) = ServesOne(Served(h, t), x)
      BY ServedAppend
    <3> QED BY <2>1, <3>1
  <2>3. Served(Served(h, s).holds, Append(r, x)) = ServesOne(w, x)
    BY ServedAppend
  <2>4. u.holds = w.holds
    BY <1>2
  <2> HIDE DEF u, w
  <2>5. ServesOne(u, x).holds = IF Takes(u.holds, x) THEN Made(u.holds, x) ELSE u.holds
    BY DEF ServesOne
  <2>6. ServesOne(w, x).holds = IF Takes(w.holds, x) THEN Made(w.holds, x) ELSE w.holds
    BY DEF ServesOne
  <2>7. ServesOne(u, x).holds = ServesOne(w, x).holds
    <3>1. CASE Takes(u.holds, x)
      BY <2>4, <2>5, <2>6, <3>1
    <3>2. CASE ~Takes(u.holds, x)
      BY <2>4, <2>5, <2>6, <3>2
    <3> QED BY <3>1, <3>2
  <2> QED BY <2>1, <2>2, <2>3, <2>7
<1>3. Seq(Sendable) \subseteq G
  <2> HIDE DEF G
  <2> QED BY <1>1, <1>2, AlongSequence
<1> QED BY <1>3

\* How far the first i commands go.
Cut(cs, i) == IF i * ModesPerCommand < Len(cs) THEN i * ModesPerCommand ELSE Len(cs)

\* serializeModeChanges(), a command at a time.
Piece(cs, i) == SubSeq(cs, (i - 1) * ModesPerCommand + 1, Cut(cs, i))
Pieces(cs) == (Len(cs) + ModesPerCommand - 1) \div ModesPerCommand

\* serializeModeChanges() cuts the changes into commands,
LEMMA PiecesAre ==
    ASSUME NEW cs \in Seq(Sendable)
    PROVE  /\ Pieces(cs) \in Nat
           /\ SerializeModeChanges(cs, ModesPerCommand) =
                 [i \in 1..Pieces(cs) |-> Command(Piece(cs, i))]
           /\ \A i \in 1..Pieces(cs) : Piece(cs, i) \in Seq(Sendable)
<1>1. ModesPerCommand \in Nat \ {0} /\ Len(cs) \in Nat
  BY PanelAssumption
<1>2. Pieces(cs) \in Nat
  BY <1>1 DEF Pieces
<1>3. SerializeModeChanges(cs, ModesPerCommand) = [i \in 1..Pieces(cs) |-> Command(Piece(cs, i))]
  BY DEF SerializeModeChanges, Pieces, Piece, Cut
<1>4. ASSUME NEW i \in 1..Pieces(cs) PROVE Piece(cs, i) \in Seq(Sendable)
  <2>1. (i - 1) * ModesPerCommand + 1 \in 1..(Len(cs) + 1) /\ Cut(cs, i) \in 0..Len(cs)
    <3> DEFINE N == Pieces(cs)
               L == ModesPerCommand
    <3>1. N * L <= Len(cs) + L - 1
      BY <1>1 DEF Pieces
    <3>2. i * L <= N * L /\ (i - 1) * L + L = i * L /\ (i - 1) * L \in Nat /\ i * L \in Nat
      BY <1>1, <1>2
    <3> HIDE DEF N
    <3>3. (i - 1) * L + 1 \in 1..(Len(cs) + 1)
      <4> DEFINE a == (i - 1) * L
                 b == i * L
                 d == N * L
      <4>1. L \in Nat /\ a \in Nat /\ b \in Nat /\ d <= Len(cs) + L - 1 /\ b <= d /\ a + L = b
        BY <1>1, <3>1, <3>2
      <4>2. d \in Nat
        BY <1>1, <1>2 DEF N
      <4> HIDE DEF a, b, d
      <4>3. a + 1 \in 1..(Len(cs) + 1)
        <5> HIDE DEF L
        <5> QED BY <1>1, <4>1, <4>2
      <4> QED BY <4>3 DEF a
    <3>4. Cut(cs, i) \in 0..Len(cs)
      BY <1>1, <3>2 DEF Cut
    <3> QED BY <3>3, <3>4
  <2>2. \A j \in (i - 1) * ModesPerCommand + 1 .. Cut(cs, i) : j \in 1..Len(cs)
    BY <1>1, <2>1
  <2> QED BY <2>1, <2>2, <1>1, SubSeqProperties DEF Piece
<1> QED BY <1>2, <1>3, <1>4

\* The commands up to one, and it.
LEMMA PieceNext ==
    ASSUME NEW cs \in Seq(Sendable), NEW i \in 1..Pieces(cs)
    PROVE  /\ SubSeq(cs, 1, Cut(cs, i - 1)) \in Seq(Sendable)
           /\ SubSeq(cs, 1, Cut(cs, i)) = SubSeq(cs, 1, Cut(cs, i - 1)) \o Piece(cs, i)
<1> DEFINE N == Pieces(cs)
           L == ModesPerCommand
           a == (i - 1) * L
<1>1. L \in Nat \ {0} /\ Len(cs) \in Nat
  BY PanelAssumption
<1>2. N \in Nat /\ N * L <= Len(cs) + L - 1
  BY <1>1 DEF Pieces
<1>3. i * L <= N * L /\ a + L = i * L /\ a \in Nat /\ i * L \in Nat
  BY <1>1, <1>2
<1> HIDE DEF N
<1>4. a < Len(cs)
  BY <1>1, <1>2, <1>3
<1>5. Cut(cs, i - 1) = a
  BY <1>4 DEF Cut
<1>6. Cut(cs, i) \in a..Len(cs)
  BY <1>1, <1>3, <1>4 DEF Cut
<1>7. Piece(cs, i) = SubSeq(cs, a + 1, Cut(cs, i))
  BY DEF Piece
<1> HIDE DEF a, L
<1>8. SubSeq(cs, 1, a) \in Seq(Sendable)
  BY <1>1, <1>3, <1>4, SubSeqProperties
<1>9. SubSeq(cs, 1, a) \o SubSeq(cs, a + 1, Cut(cs, i)) = SubSeq(cs, 1, Cut(cs, i))
  <2>1. 1 \in 1..(Len(cs) + 1) /\ a \in (1 - 1)..Len(cs) /\ Cut(cs, i) \in a..Len(cs)
    BY <1>1, <1>3, <1>4, <1>6
  <2> QED BY <2>1, ConcatAdjacentSubSeq
<1> QED BY <1>5, <1>7, <1>8, <1>9

\* which are all of them.
LEMMA PiecesAll ==
    ASSUME NEW cs \in Seq(Sendable)
    PROVE  /\ SubSeq(cs, 1, Cut(cs, 0)) = <<>>
           /\ SubSeq(cs, 1, Cut(cs, Pieces(cs))) = cs
<1> DEFINE N == Pieces(cs)
           L == ModesPerCommand
<1>1. L \in Nat \ {0} /\ Len(cs) \in Nat
  BY PanelAssumption
<1>2. N \in Nat /\ N * L >= Len(cs)
  BY <1>1 DEF Pieces
<1>3. Cut(cs, 0) = 0
  BY <1>1 DEF Cut
<1>4. Cut(cs, N) = Len(cs)
  <2> HIDE DEF N
  <2> QED BY <1>1, <1>2 DEF Cut
<1> QED BY <1>1, <1>3, <1>4, SubSeqEmpty, SubSeqFull

\* The lines of a save.
SaveLines(c, cs) ==
    LET commands == SerializeModeChanges(cs, ModesPerCommand)
    IN  [i \in DOMAIN commands |-> [c |-> c, what |-> "MODE", line |-> commands[i]]]

\* Each line of a save is one of these commands.
LEMMA LinesAre ==
    ASSUME NEW c, NEW cs \in Seq(Sendable)
    PROVE  SaveLines(c, cs) = [i \in 1..Pieces(cs) |-> Line(c, Piece(cs, i))]
<1>1. SerializeModeChanges(cs, ModesPerCommand) = [i \in 1..Pieces(cs) |-> Command(Piece(cs, i))]
  BY PiecesAre
<1> QED BY <1>1 DEF SaveLines, Line

\* What the lines of a save lead the server to is what all of their changes do.
LEMMA LinesServe ==
    ASSUME NEW c, NEW cs \in Seq(Sendable), NEW h
    PROVE  Comes("holds", c, h, SaveLines(c, cs), Served(h, cs).holds)
<1> DEFINE N == Pieces(cs)
           s == SaveLines(c, cs)
           f == [i \in 0..N |-> Served(h, SubSeq(cs, 1, Cut(cs, i))).holds]
<1>1. N \in Nat
  BY PiecesAre
<1>2. Len(s) = N /\ \A i \in 1..N : s[i] = Line(c, Piece(cs, i))
  BY <1>1, LinesAre
<1>3. f[0] = h
  <2>1. f[0] = Served(h, SubSeq(cs, 1, Cut(cs, 0))).holds
    BY <1>1
  <2>2. SubSeq(cs, 1, Cut(cs, 0)) = <<>>
    BY PiecesAll
  <2>3. Served(h, <<>>).holds = h
    BY ServedNone
  <2> HIDE DEF f
  <2> QED BY <2>1, <2>2, <2>3
<1>4. f[N] = Served(h, cs).holds
  <2>1. f[N] = Served(h, SubSeq(cs, 1, Cut(cs, N))).holds
    BY <1>1
  <2> QED BY <2>1, PiecesAll
<1>5. ASSUME NEW i \in 1..N PROVE f[i] = Along("holds", c, f[i - 1], s[i])
  <2> DEFINE before == SubSeq(cs, 1, Cut(cs, i - 1))
             piece == Piece(cs, i)
  <2>1. f[i] = Served(h, SubSeq(cs, 1, Cut(cs, i))).holds /\ f[i - 1] = Served(h, before).holds
    BY <1>1
  <2>2. before \in Seq(Sendable) /\ piece \in Seq(Sendable)
        /\ SubSeq(cs, 1, Cut(cs, i)) = before \o piece
    BY PieceNext, PiecesAre
  <2> HIDE DEF f, before, piece, s
  <2>3. Served(h, before \o piece).holds = Served(f[i - 1], piece).holds
    BY <2>1, <2>2, ServedThen
  <2>4. s[i].c = c /\ s[i].what = "MODE" /\ s[i].line = Command(piece)
    BY <1>2 DEF Line, piece
  <2>5. ParseChannelModes(s[i].line.letters, s[i].line.params) = piece
    BY <2>2, <2>4, ParsesBack
  <2>6. Along("holds", c, f[i - 1], s[i]) = Holds(c, f[i - 1], s[i])
    BY AlongIs
  <2>7. Holds(c, f[i - 1], s[i]) = Served(f[i - 1], piece).holds
    BY <2>4, <2>5 DEF Holds
  <2> QED BY <2>1, <2>2, <2>3, <2>6, <2>7
<1> HIDE DEF f, N, s
<1>6. Runs("holds", c, h, s, f)
  BY <1>2, <1>3, <1>5 DEF Runs
<1>7. Comes("holds", c, h, s, Served(h, cs).holds)
  BY <1>2, <1>4, <1>6 DEF Comes
<1> QED BY <1>7 DEF s

----------------------------------------------------------------------------
(* The changes a form is made into lead to it.                             *)

\* diffChannelModes(), change by change: the form `f` over the modes `g`.
Diff(g, f) ==
    ((((If(f.m # ("m" \in g.flags), Change(f.m, "m", ""))
        \o If(f.k # g.params.k /\ g.params.k # "", Change(FALSE, "k", g.params.k)))
        \o If(f.k # g.params.k /\ f.k # "", Change(TRUE, "k", f.k)))
        \o If(f.l # g.params.l /\ f.l = "", Change(FALSE, "l", "")))
        \o If(f.l # g.params.l /\ f.l # "", Change(TRUE, "l", f.l)))

\* The value of a mode.
LEMMA ValueIs ==
    ASSUME NEW g \in Kept
    PROVE  Value(g, "k") = g.params.k /\ Value(g, "l") = g.params.l
<1>1. g.params["k"] = g.params.k /\ g.params["l"] = g.params.l
  OBVIOUS
<1> QED BY <1>1, KeptIs DEF Value

\* diffChannelModes() is the sequence of changes above.
LEMMA DiffIs ==
    ASSUME NEW g \in Kept, NEW f \in Forms
    PROVE  DiffChannelModes(g, f) = Diff(g, f)
<1> DEFINE a == g.params.k
           b == g.params.l
           xm == If(f.m # ("m" \in g.flags), Change(f.m, "m", ""))
           kd == Change(FALSE, "k", a)
           ka == Change(TRUE, "k", f.k)
           ld == Change(FALSE, "l", "")
           la == Change(TRUE, "l", f.l)
           S == {Change(f.m, "m", ""), kd, ka, ld, la}
           p1 == If(f.k # a /\ a # "", kd)
           p2 == If(f.k # a /\ f.k # "", ka)
           p3 == If(f.l # b /\ f.l = "", ld)
           p4 == If(f.l # b /\ f.l # "", la)
<1>1. f["k"] = f.k /\ f["l"] = f.l
  OBVIOUS
<1>2. Value(g, "k") = a /\ Value(g, "l") = b
  BY ValueIs
<1>3. Kind["k"] = "parameter" /\ Kind["l"] = "parameter-when-set"
  BY DEF Kind
<1>4. xm \in Seq(S) /\ p1 \in Seq(S) /\ p2 \in Seq(S) /\ p3 \in Seq(S) /\ p4 \in Seq(S)
  <2>1. S = S /\ Change(f.m, "m", "") \in S /\ kd \in S /\ ka \in S /\ ld \in S /\ la \in S
    OBVIOUS
  <2> HIDE DEF S, kd, ka, ld, la
  <2> DEFINE x0 == Change(f.m, "m", "")
  <2>2. x0 \in S
    BY <2>1
  <2> HIDE DEF x0
  <2>3. \A c \in BOOLEAN, x \in S : If(c, x) \in Seq(S)
    BY IfType
  <2>4. /\ (f.m # ("m" \in g.flags)) \in BOOLEAN
        /\ (f.k # a /\ a # "") \in BOOLEAN /\ (f.k # a /\ f.k # "") \in BOOLEAN
        /\ (f.l # b /\ f.l = "") \in BOOLEAN /\ (f.l # b /\ f.l # "") \in BOOLEAN
    OBVIOUS
  <2> QED BY <2>1, <2>2, <2>3, <2>4 DEF x0
<1>5. DiffValue(g, f, "k") = p1 \o p2
  <2>1. <<kd>> \o <<>> = <<kd>> /\ <<>> \o <<>> = <<>>
    OBVIOUS
  <2>2. DiffValue(g, f, "k") =
           IF f.k = a THEN <<>>
           ELSE IF f.k = "" THEN <<kd>>
           ELSE (IF a # "" THEN <<kd>> ELSE <<>>) \o <<ka>>
    BY <1>1, <1>2, <1>3 DEF DiffValue
  <2> HIDE DEF kd, ka, a
  <2> QED BY <2>1, <2>2 DEF If
<1>6. DiffValue(g, f, "l") = p3 \o p4
  <2>1. <<ld>> \o <<>> = <<ld>> /\ <<>> \o <<>> = <<>> /\ <<>> \o <<la>> = <<la>>
    OBVIOUS
  <2>2. DiffValue(g, f, "l") =
           IF f.l = b THEN <<>>
           ELSE IF f.l = "" THEN <<ld>>
           ELSE (IF "" # "" THEN <<ld>> ELSE <<>>) \o <<la>>
    BY <1>1, <1>2, <1>3 DEF DiffValue
  <2> HIDE DEF ld, la, b
  <2> QED BY <2>1, <2>2 DEF If
<1>7. DiffChannelModes(g, f) = xm \o DiffValue(g, f, "k") \o DiffValue(g, f, "l")
  BY DEF DiffChannelModes, If
<1>8. Diff(g, f) = (((xm \o p1) \o p2) \o p3) \o p4
  BY DEF Diff
<1> HIDE DEF xm, p1, p2, p3, p4, S
<1>9. (xm \o (p1 \o p2)) \o (p3 \o p4) = (((xm \o p1) \o p2) \o p3) \o p4
  <2>1. xm \o (p1 \o p2) = (xm \o p1) \o p2
    BY <1>4
  <2>2. (xm \o p1) \o p2 \in Seq(S)
    BY <1>4
  <2> DEFINE r == (xm \o p1) \o p2
  <2> HIDE DEF r
  <2>3. r \o (p3 \o p4) = (r \o p3) \o p4
    BY <1>4, <2>2 DEF r
  <2> QED BY <2>1, <2>3 DEF r
<1> QED BY <1>5, <1>6, <1>7, <1>8, <1>9

\* Each change of it takes effect on a server that holds the modes, and
\* together they come to the form.
LEMMA DiffServes ==
    ASSUME NEW h \in HeldSet, NEW f \in Forms
    PROVE  /\ DiffChannelModes(h.modes, f) \in Seq(Sendable)
           /\ SettingsFrom(Served(h, DiffChannelModes(h.modes, f)).holds.modes) = f
<1> DEFINE g == h.modes
           xm == Change(f.m, "m", "")
           kd == Change(FALSE, "k", g.params.k)
           ka == Change(TRUE, "k", f.k)
           ld == Change(FALSE, "l", "")
           la == Change(TRUE, "l", f.l)
           bm == f.m # ("m" \in g.flags)
           bkd == f.k # g.params.k /\ g.params.k # ""
           bka == f.k # g.params.k /\ f.k # ""
           bld == f.l # g.params.l /\ f.l = ""
           bla == f.l # g.params.l /\ f.l # ""
           q0 == <<>>
           q1 == q0 \o If(bm, xm)
           q2 == q1 \o If(bkd, kd)
           q3 == q2 \o If(bka, ka)
           q4 == q3 \o If(bld, ld)
           q5 == q4 \o If(bla, la)
<1>0. /\ g \in Kept /\ f.m \in BOOLEAN /\ f.k \in {"", "x", "y"} /\ f.l \in {"", "5"}
      /\ g.params.k \in {"", "x", "y"} /\ g.params.l \in {"", "5"}
      /\ "k" \in g.flags <=> g.params.k # ""
      /\ "l" \in g.flags <=> g.params.l # ""
      /\ g.flags \in SUBSET {"m", "k", "l"}
  BY HeldIs, KeptIs, FormIs
<1>1. /\ bm \in BOOLEAN /\ bkd \in BOOLEAN /\ bka \in BOOLEAN /\ bld \in BOOLEAN /\ bla \in BOOLEAN
  OBVIOUS
<1>2. /\ bm => xm \in Sendable
      /\ bkd => kd \in Sendable
      /\ bka => ka \in Sendable
      /\ bld => ld \in Sendable
      /\ bla => la \in Sendable
  BY <1>0, ChangeSendable
<1>3. /\ xm.add = f.m /\ xm.mode = "m"
      /\ kd.add = FALSE /\ kd.mode = "k" /\ kd.parameter = g.params.k
      /\ ka.add = TRUE /\ ka.mode = "k" /\ ka.parameter = f.k
      /\ ld.add = FALSE /\ ld.mode = "l"
      /\ la.add = TRUE /\ la.mode = "l" /\ la.parameter = f.l
  BY DEF Change
<1>4. q0 \in Seq(Sendable) /\ Served(h, q0).holds = h
  BY ServedNone
<1>5. DiffChannelModes(g, f) = q5
  <2>1. DiffChannelModes(g, f) = Diff(g, f)
    BY <1>0, DiffIs
  <2>2. Diff(g, f) = (((If(bm, xm) \o If(bkd, kd)) \o If(bka, ka)) \o If(bld, ld)) \o If(bla, la)
    BY DEF Diff
  <2>3. q0 \o If(bm, xm) = If(bm, xm)
    <3> HIDE DEF bm, xm
    <3>1. If(bm, xm) \in Seq(Sendable)
      BY <1>1, <1>2, IfType
    <3> QED BY <3>1
  <2> HIDE DEF bm, xm, bkd, kd, bka, ka, bld, ld, bla, la, q0
  <2> QED BY <2>1, <2>2, <2>3
<1> HIDE DEF xm, kd, ka, ld, la
\* The modes after each: those of the flags and values that follow.
<1> DEFINE Hm(r) == r = [flags |-> r.flags, params |-> [k |-> r.params.k, l |-> r.params.l]]
           h1 == IF bm THEN Made(h, xm) ELSE h
           h2 == IF bkd THEN Made(h1, kd) ELSE h1
           h3 == IF bka THEN Made(h2, ka) ELSE h2
           h4 == IF bld THEN Made(h3, ld) ELSE h3
           h5 == IF bla THEN Made(h4, la) ELSE h4
<1>6. /\ h1 \in HeldSet
      /\ "m" \in h1.modes.flags <=> f.m
      /\ h1.modes.params.k = g.params.k /\ h1.modes.params.l = g.params.l
      /\ bm => Takes(h, xm)
  <2>1. CASE ~bm
    BY <1>0, <2>1
  <2>2. CASE bm
    <3>1. Takes(h, xm)
      <4>1. xm.mode = "m" /\ (xm.add = ("m" \notin h.modes.flags))
        <5>1. CASE f.m = TRUE
          <6>1. ~("m" \in h.modes.flags)
            <7>1. (f.m # ("m" \in h.modes.flags))
              BY <2>2
            <7> HIDE DEF g
            <7> QED BY <5>1, <7>1
          <6>2. ("m" \notin h.modes.flags) = TRUE
            BY <6>1
          <6> QED BY <1>3, <5>1, <6>2
        <5>2. CASE f.m = FALSE
          <6>1. "m" \in h.modes.flags
            <7>1. (f.m # ("m" \in h.modes.flags))
              BY <2>2
            <7> HIDE DEF g
            <7> SUFFICES ASSUME ~("m" \in h.modes.flags) PROVE FALSE
              OBVIOUS
            <7>2. ("m" \in h.modes.flags) = FALSE
              OBVIOUS
            <7> QED BY <5>2, <7>1, <7>2
          <6>2. ("m" \notin h.modes.flags) = FALSE
            BY <6>1
          <6> QED BY <1>3, <5>2, <6>2
        <5> QED BY <1>0, <5>1, <5>2
      <4> HIDE DEF g
      <4> QED BY <4>1 DEF Takes
    <3>2. Made(h, xm) \in HeldSet /\ Made(h, xm).modes = ApplyChange(g, xm)
      BY <1>2, <2>2, <3>1, MadeIs
    <3> DEFINE fl == IF f.m THEN g.flags \cup {"m"} ELSE g.flags \ {"m"}
    <3>3. ApplyChange(g, xm) = [flags |-> fl, params |-> [k |-> g.params.k, l |-> g.params.l]]
      <4> HIDE DEF g
      <4> QED BY <1>0, <1>2, <1>3, <2>2, ApplyIs
    <3> HIDE DEF fl
    <3>4. Made(h, xm).modes.flags = fl /\ Made(h, xm).modes.params.k = g.params.k
          /\ Made(h, xm).modes.params.l = g.params.l
      BY <3>2, <3>3
    <3>5. "m" \in fl <=> f.m
      BY <1>0 DEF fl
    <3> QED BY <2>2, <3>1, <3>2, <3>4, <3>5
  <2> QED BY <2>1, <2>2
<1> HIDE DEF h1, g
<1>7. /\ h2 \in HeldSet
      /\ "m" \in h2.modes.flags <=> f.m
      /\ h2.modes.params.k = (IF bkd THEN "" ELSE g.params.k) /\ h2.modes.params.l = g.params.l
      /\ bkd => Takes(h1, kd)
  <2>1. CASE ~bkd
    BY <1>6, <2>1
  <2>2. CASE bkd
    <3> DEFINE v == h1.modes
    <3>0. v \in Kept
      BY <1>6, HeldIs
    <3>1. Takes(h1, kd)
      <4>1. "k" \in v.flags
        BY <1>6, <2>2, <3>0, KeptIs
      <4> QED BY <1>3, <1>6, <4>1 DEF Takes
    <3>2. Made(h1, kd) \in HeldSet /\ Made(h1, kd).modes = ApplyChange(v, kd)
      BY <1>2, <1>6, <2>2, <3>1, MadeIs
    <3>3. ApplyChange(v, kd) = [flags |-> v.flags \ {"k"}, params |-> [k |-> "", l |-> v.params.l]]
      <4> HIDE DEF v
      <4> QED BY <1>2, <1>3, <2>2, <3>0, ApplyIs
    <3> DEFINE fl == v.flags \ {"k"}
    <3>4. "m" \in fl <=> f.m
      BY <1>6
    <3> HIDE DEF fl
    <3>5. Made(h1, kd).modes.flags = fl /\ Made(h1, kd).modes.params.k = ""
          /\ Made(h1, kd).modes.params.l = g.params.l
      <4> DEFINE r == Made(h1, kd).modes
                 pk == ""
                 pl == v.params.l
      <4>1. r = [flags |-> fl, params |-> [k |-> pk, l |-> pl]]
        BY <3>2, <3>3, Zenon DEF fl
      <4>2. pk = "" /\ pl = g.params.l
        BY <1>6
      <4> HIDE DEF r, pk, pl
      <4>3. r.flags = fl /\ r.params.k = pk /\ r.params.l = pl
        BY <4>1
      <4> QED BY <4>2, <4>3 DEF r
    <3> QED BY <2>2, <3>1, <3>2, <3>4, <3>5
  <2> QED BY <2>1, <2>2
<1> HIDE DEF h2
<1>8. /\ h3 \in HeldSet
      /\ "m" \in h3.modes.flags <=> f.m
      /\ h3.modes.params.k = f.k /\ h3.modes.params.l = g.params.l
      /\ bka => Takes(h2, ka)
  <2>1. CASE ~bka
    BY <1>7, <2>1
  <2>2. CASE bka
    <3> DEFINE v == h2.modes
    <3>0. v \in Kept
      BY <1>7, HeldIs
    <3>1. Takes(h2, ka)
      <4>1. "k" \notin v.flags
        BY <1>7, <2>2, <3>0, KeptIs
      <4> QED BY <1>3, <2>2, <4>1 DEF Takes
    <3>2. Made(h2, ka) \in HeldSet /\ Made(h2, ka).modes = ApplyChange(v, ka)
      BY <1>2, <1>7, <2>2, <3>1, MadeIs
    <3>3. ApplyChange(v, ka) = [flags |-> v.flags \cup {"k"}, params |-> [k |-> f.k, l |-> v.params.l]]
      <4> HIDE DEF v
      <4> QED BY <1>2, <1>3, <2>2, <3>0, ApplyIs
    <3> DEFINE fl == v.flags \cup {"k"}
    <3>4. "m" \in fl <=> f.m
      BY <1>7
    <3> HIDE DEF fl
    <3>5. Made(h2, ka).modes.flags = fl /\ Made(h2, ka).modes.params.k = f.k
          /\ Made(h2, ka).modes.params.l = g.params.l
      <4> DEFINE r == Made(h2, ka).modes
                 pk == f.k
                 pl == v.params.l
      <4>1. r = [flags |-> fl, params |-> [k |-> pk, l |-> pl]]
        BY <3>2, <3>3, Zenon DEF fl
      <4>2. pk = f.k /\ pl = g.params.l
        BY <1>7
      <4> HIDE DEF r, pk, pl
      <4>3. r.flags = fl /\ r.params.k = pk /\ r.params.l = pl
        BY <4>1
      <4> QED BY <4>2, <4>3 DEF r
    <3> QED BY <2>2, <3>1, <3>2, <3>4, <3>5
  <2> QED BY <2>1, <2>2
<1> HIDE DEF h3
<1>9. /\ h4 \in HeldSet
      /\ "m" \in h4.modes.flags <=> f.m
      /\ h4.modes.params.k = f.k /\ h4.modes.params.l = (IF bld THEN "" ELSE g.params.l)
      /\ bld => Takes(h3, ld)
  <2>1. CASE ~bld
    BY <1>8, <2>1
  <2>2. CASE bld
    <3> DEFINE v == h3.modes
    <3>0. v \in Kept
      BY <1>8, HeldIs
    <3>1. Takes(h3, ld)
      <4>1. "l" \in v.flags
        BY <1>8, <2>2, <3>0, KeptIs
      <4> QED BY <1>3, <4>1 DEF Takes
    <3>2. Made(h3, ld) \in HeldSet /\ Made(h3, ld).modes = ApplyChange(v, ld)
      BY <1>2, <1>8, <2>2, <3>1, MadeIs
    <3>3. ApplyChange(v, ld) = [flags |-> v.flags \ {"l"}, params |-> [k |-> v.params.k, l |-> ""]]
      <4> HIDE DEF v
      <4> QED BY <1>2, <1>3, <2>2, <3>0, ApplyIs
    <3> DEFINE fl == v.flags \ {"l"}
    <3>4. "m" \in fl <=> f.m
      BY <1>8
    <3> HIDE DEF fl
    <3>5. Made(h3, ld).modes.flags = fl /\ Made(h3, ld).modes.params.k = f.k
          /\ Made(h3, ld).modes.params.l = ""
      <4> DEFINE r == Made(h3, ld).modes
                 pk == v.params.k
                 pl == ""
      <4>1. r = [flags |-> fl, params |-> [k |-> pk, l |-> pl]]
        BY <3>2, <3>3, Zenon DEF fl
      <4>2. pk = f.k /\ pl = ""
        BY <1>8
      <4> HIDE DEF r, pk, pl
      <4>3. r.flags = fl /\ r.params.k = pk /\ r.params.l = pl
        BY <4>1
      <4> QED BY <4>2, <4>3 DEF r
    <3> QED BY <2>2, <3>1, <3>2, <3>4, <3>5
  <2> QED BY <2>1, <2>2
<1> HIDE DEF h4
<1>10. /\ h5 \in HeldSet
       /\ "m" \in h5.modes.flags <=> f.m
       /\ h5.modes.params.k = f.k /\ h5.modes.params.l = f.l
       /\ bla => Takes(h4, la)
  <2>1. CASE ~bla
    BY <1>9, <2>1
  <2>2. CASE bla
    <3> DEFINE v == h4.modes
    <3>0. v \in Kept
      BY <1>9, HeldIs
    <3>1. Takes(h4, la)
      BY <1>3, <1>9, <2>2 DEF Takes
    <3>2. Made(h4, la) \in HeldSet /\ Made(h4, la).modes = ApplyChange(v, la)
      BY <1>2, <1>9, <2>2, <3>1, MadeIs
    <3>3. ApplyChange(v, la) = [flags |-> v.flags \cup {"l"}, params |-> [k |-> v.params.k, l |-> f.l]]
      <4> HIDE DEF v
      <4> QED BY <1>2, <1>3, <2>2, <3>0, ApplyIs
    <3> DEFINE fl == v.flags \cup {"l"}
    <3>4. "m" \in fl <=> f.m
      BY <1>9
    <3> HIDE DEF fl
    <3>5. Made(h4, la).modes.flags = fl /\ Made(h4, la).modes.params.k = f.k
          /\ Made(h4, la).modes.params.l = f.l
      <4> DEFINE r == Made(h4, la).modes
                 pk == v.params.k
                 pl == f.l
      <4>1. r = [flags |-> fl, params |-> [k |-> pk, l |-> pl]]
        BY <3>2, <3>3, Zenon DEF fl
      <4>2. pk = f.k /\ pl = f.l
        BY <1>9
      <4> HIDE DEF r, pk, pl
      <4>3. r.flags = fl /\ r.params.k = pk /\ r.params.l = pl
        BY <4>1
      <4> QED BY <4>2, <4>3 DEF r
    <3> QED BY <2>2, <3>1, <3>2, <3>4, <3>5
  <2> QED BY <2>1, <2>2
<1> HIDE DEF h5, bm, bkd, bka, bld, bla, q0
<1>11. q1 \in Seq(Sendable) /\ Served(h, q1).holds = h1
  BY <1>1, <1>2, <1>4, <1>6, ServedIf DEF h1
<1> HIDE DEF q1
<1>12. q2 \in Seq(Sendable) /\ Served(h, q2).holds = h2
  BY <1>1, <1>2, <1>7, <1>11, ServedIf DEF h2
<1> HIDE DEF q2
<1>13. q3 \in Seq(Sendable) /\ Served(h, q3).holds = h3
  BY <1>1, <1>2, <1>8, <1>12, ServedIf DEF h3
<1> HIDE DEF q3
<1>14. q4 \in Seq(Sendable) /\ Served(h, q4).holds = h4
  BY <1>1, <1>2, <1>9, <1>13, ServedIf DEF h4
<1> HIDE DEF q4
<1>15. q5 \in Seq(Sendable) /\ Served(h, q5).holds = h5
  BY <1>1, <1>2, <1>10, <1>14, ServedIf DEF h5
<1>16. SettingsFrom(h5.modes) = f
  <2> DEFINE b == "m" \in h5.modes.flags
  <2>1. h5.modes \in Kept
    BY <1>10, HeldIs
  <2>2. SettingsFrom(h5.modes) = [m |-> b, k |-> h5.modes.params.k, l |-> h5.modes.params.l]
    BY <2>1, SettingsType
  <2>3. b = f.m
    <3>1. b \in BOOLEAN /\ (b <=> f.m)
      BY <1>10
    <3> HIDE DEF b
    <3> QED BY <1>0, <3>1
  <2>4. f = [m |-> f.m, k |-> f.k, l |-> f.l]
    BY FormIs
  <2> HIDE DEF b
  <2> QED BY <1>10, <2>2, <2>3, <2>4
<1> QED BY <1>5, <1>15, <1>16 DEF g

----------------------------------------------------------------------------
(* The lines there are.                                                    *)

\* Ours: changes, questions and topics.
AskLines ==
    {Line(p[1], p[2]) : p \in Channels \X (Seq(Sendable) \cup {<<Question>>})}
        \cup {Text(p[1], "TOPIC", p[2]) : p \in Channels \X Topics}

Whole(c, cs) == [c |-> c, what |-> "324", line |-> Command(cs)]

\* The server's.
TellLines ==
    {Line(p[1], p[2]) : p \in Channels \X Seq(Sendable)}
        \cup {Whole(p[1], p[2]) : p \in Channels \X Seq(Sendable)}
        \cup {Text(p[1], "TOPIC", p[2]) : p \in Channels \X Topics}
        \cup {Text(c, "367", "n") : c \in Channels}
        \cup {Text(c, "368", "") : c \in Channels}

\* Lines of ours, and of the server.
LEMMA LineAsks ==
    ASSUME NEW c \in Channels, NEW cs \in Seq(Sendable) \cup {<<Question>>}
    PROVE  Line(c, cs) \in AskLines
<1> DEFINE p == <<c, cs>>
<1>1. p \in Channels \X (Seq(Sendable) \cup {<<Question>>}) /\ p[1] = c /\ p[2] = cs
  OBVIOUS
<1> HIDE DEF p
<1> QED BY <1>1 DEF AskLines

\* The same of topics,
LEMMA TopicAsks ==
    ASSUME NEW c \in Channels, NEW t \in Topics
    PROVE  Text(c, "TOPIC", t) \in AskLines /\ Text(c, "TOPIC", t) \in TellLines
<1> DEFINE p == <<c, t>>
<1>1. p \in Channels \X Topics /\ p[1] = c /\ p[2] = t
  OBVIOUS
<1> HIDE DEF p
<1> QED BY <1>1 DEF AskLines, TellLines

\* of modes,
LEMMA LineTells ==
    ASSUME NEW c \in Channels, NEW cs \in Seq(Sendable)
    PROVE  Line(c, cs) \in TellLines /\ Whole(c, cs) \in TellLines
<1> DEFINE p == <<c, cs>>
<1>1. p \in Channels \X Seq(Sendable) /\ p[1] = c /\ p[2] = cs
  OBVIOUS
<1> HIDE DEF p
<1> QED BY <1>1 DEF TellLines

\* and of bans.
LEMMA BansTell ==
    ASSUME NEW c \in Channels
    PROVE  Text(c, "367", "n") \in TellLines /\ Text(c, "368", "") \in TellLines
BY DEF TellLines

\* What a line of ours asks for.
Asked(m) == ParseChannelModes(m.line.letters, m.line.params)

\* What a line is about comes back when it is parsed.
LEMMA LineIs ==
    ASSUME NEW c, NEW cs \in Seq(Sendable) \cup {<<Question>>}
    PROVE  /\ Line(c, cs).c = c /\ Line(c, cs).what = "MODE" /\ Asked(Line(c, cs)) = cs
           /\ Whole(c, cs).c = c /\ Whole(c, cs).what = "324" /\ Asked(Whole(c, cs)) = cs
<1>1. ParseChannelModes(Command(cs).letters, Command(cs).params) = cs
  <2>1. CASE cs \in Seq(Sendable)
    BY <2>1, ParsesBack
  <2>2. CASE cs = <<Question>>
    BY <2>2, ParsesQuestion
  <2> QED BY <2>1, <2>2
<1>2. Line(c, cs).line = Command(cs) /\ Whole(c, cs).line = Command(cs)
  BY DEF Line, Whole
<1> QED BY <1>1, <1>2 DEF Asked, Line, Whole

\* Our lines, kind by kind.
LEMMA AskLinesAre ==
    ASSUME NEW m \in AskLines
    PROVE  /\ m.c \in Channels
           /\ \/ m.what = "TOPIC" /\ m.text \in Topics /\ m = Text(m.c, "TOPIC", m.text)
              \/ m.what = "MODE" /\ Asked(m) \in Seq(Sendable) \cup {<<Question>>}
                 /\ m = Line(m.c, Asked(m))
<1>1. CASE \E p \in Channels \X (Seq(Sendable) \cup {<<Question>>}) : m = Line(p[1], p[2])
  <2>1. PICK p \in Channels \X (Seq(Sendable) \cup {<<Question>>}) : m = Line(p[1], p[2])
    BY <1>1
  <2> QED BY <2>1, LineIs
<1>2. CASE \E p \in Channels \X Topics : m = Text(p[1], "TOPIC", p[2])
  BY <1>2 DEF Text
<1> QED BY <1>1, <1>2 DEF AskLines

\* The server's lines, kind by kind.
LEMMA TellLinesAre ==
    ASSUME NEW m \in TellLines
    PROVE  /\ m.c \in Channels
           /\ \/ m.what = "TOPIC" /\ m.text \in Topics
              \/ m.what \in {"MODE", "324"} /\ Asked(m) \in Seq(Sendable)
              \/ m.what = "367" /\ m.text = "n"
              \/ m.what = "368"
<1>1. CASE \E p \in Channels \X Seq(Sendable) : m = Line(p[1], p[2]) \/ m = Whole(p[1], p[2])
  <2>1. PICK p \in Channels \X Seq(Sendable) : m = Line(p[1], p[2]) \/ m = Whole(p[1], p[2])
    BY <1>1
  <2> DEFINE c == p[1]
             cs == p[2]
  <2>2. c \in Channels /\ cs \in Seq(Sendable) /\ (m = Line(c, cs) \/ m = Whole(c, cs))
    BY <2>1
  <2> HIDE DEF c, cs
  <2>3. /\ Line(c, cs).c = c /\ Line(c, cs).what = "MODE" /\ Asked(Line(c, cs)) = cs
        /\ Whole(c, cs).c = c /\ Whole(c, cs).what = "324" /\ Asked(Whole(c, cs)) = cs
    BY <2>2, LineIs
  <2> QED BY <2>2, <2>3
<1>2. CASE \E p \in Channels \X Topics : m = Text(p[1], "TOPIC", p[2])
  BY <1>2 DEF Text
<1>3. CASE \E c \in Channels : m = Text(c, "367", "n")
  BY <1>3 DEF Text
<1>4. CASE \E c \in Channels : m = Text(c, "368", "")
  <2>1. PICK c \in Channels : m = Text(c, "368", "")
    BY <1>4
  <2>2. m.c = c /\ m.what = "368"
    BY <2>1 DEF Text
  <2> QED BY <2>2
<1> QED BY <1>1, <1>2, <1>3, <1>4 DEF TellLines

----------------------------------------------------------------------------
(* What the server answers.                                                *)

Answer(c, h, cs) ==
    Told(c, Served(h, cs).done)
        \o (IF cs = <<>> THEN <<Whole(c, All(h))>> ELSE <<>>)
        \o (IF Question \in ToSet(cs) THEN BansOf(c, Served(h, cs).holds) ELSE <<>>)

\* A pair is one and the other.
LEMMA PairIs == ASSUME NEW x, NEW y PROVE <<x>> \o <<y>> = <<x, y>>
<1> DEFINE a == <<x>> \o <<y>>
           b == <<x, y>>
           S == {x, y}
<1>1. <<x>> \in Seq(S) /\ <<y>> \in Seq(S) /\ b \in Seq(S)
  OBVIOUS
<1>2. a \in Seq(S)
  BY <1>1
<1>3. Len(a) = 2 /\ Len(b) = 2 /\ a[1] = x /\ a[2] = y /\ b[1] = x /\ b[2] = y
  OBVIOUS
<1> HIDE DEF a, b
<1>4. a = b
  BY <1>1, <1>2, <1>3
<1> QED BY <1>4 DEF a, b

\* RPL_BANLIST for the one ban there may be, and its end.
LEMMA BansAre ==
    ASSUME NEW c, NEW h \in HeldSet
    PROVE  BansOf(c, h) = IF h.bans = {} THEN <<Text(c, "368", "")>>
                          ELSE <<Text(c, "367", "n"), Text(c, "368", "")>>
<1> DEFINE f == [i \in 1..Cardinality(h.bans) |-> Text(c, "367", SetToSeq(h.bans)[i])]
           x == Text(c, "367", "n")
           y == Text(c, "368", "")
<1>1. h.bans = {} \/ h.bans = {"n"}
  BY HeldIs
<1>2. CASE h.bans = {}
  <2>1. Cardinality(h.bans) = 0
    BY <1>2, FS_EmptySet
  <2>2. f = <<>>
    BY <2>1
  <2> HIDE DEF f, y
  <2>3. <<>> \o <<y>> = <<y>>
    OBVIOUS
  <2> QED BY <1>2, <2>2, <2>3 DEF BansOf, f, y
<1>3. CASE h.bans = {"n"}
  <2>1. Cardinality(h.bans) = 1
    BY <1>3, FS_Singleton
  <2>2. SetToSeq(h.bans)[1] = "n"
    <3> DEFINE S == h.bans
    <3>1. SetToSeq(S) = CHOOSE g \in [1..1 -> S] : IsInjective(g)
      BY <2>1 DEF SetToSeq
    <3>2. \E g \in [1..1 -> S] : IsInjective(g)
      <4> DEFINE g == [i \in 1..1 |-> "n"]
      <4>1. g \in [1..1 -> S]
        BY <1>3
      <4>2. IsInjective(g)
        BY DEF IsInjective
      <4> QED BY <4>1, <4>2
    <3>3. SetToSeq(S) \in [1..1 -> S]
      <4> HIDE DEF S
      <4> QED BY <3>1, <3>2
    <3> QED BY <1>3, <3>3
  <2>3. f = [i \in 1..1 |-> x]
    BY <2>1, <2>2
  <2> HIDE DEF f, x, y
  <2>4. [i \in 1..1 |-> x] \o <<y>> = <<x, y>>
    <3>1. [i \in 1..1 |-> x] = <<x>>
      OBVIOUS
    <3>2. <<x>> \o <<y>> = <<x, y>>
      BY PairIs
    <3> QED BY <3>1, <3>2
  <2> QED BY <1>3, <2>3, <2>4 DEF BansOf, f, x, y
<1> QED BY <1>1, <1>2, <1>3

\* To no letters all of the modes, to the question the list, and to changes
\* those that took effect.
LEMMA AnswerIs ==
    ASSUME NEW c \in Channels, NEW h \in HeldSet, NEW cs \in Seq(Sendable) \cup {<<Question>>}
    PROVE  /\ cs = <<>> => Answer(c, h, cs) = <<Whole(c, All(h))>>
           /\ cs = <<Question>> => Answer(c, h, cs) = BansOf(c, h)
           /\ cs \notin {<<>>, <<Question>>} => Answer(c, h, cs) = Told(c, Served(h, cs).done)
           /\ cs = <<Question>> <=> Question \in ToSet(cs)
           /\ Answer(c, h, cs) \in Seq(TellLines)
           /\ All(h) \in Seq(Sendable)
           /\ Served(h, cs).holds \in HeldSet
           /\ Served(h, cs).done \in Seq(Sendable)
<1> DEFINE w == Whole(c, All(h))
           done == Served(h, cs).done
           lists == Question \in ToSet(cs)
           bans == BansOf(c, Served(h, cs).holds)
<1>0. All(h) \in Seq(Sendable) /\ w \in TellLines
  <2>1. h.modes \in Kept
    BY HeldIs
  <2>2. All(h) \in Seq(Sendable)
    BY <2>1, AllTells DEF Partial
  <2> QED BY <2>2, LineTells
<1>1. cs = <<Question>> <=> lists
  <2>1. CASE cs = <<Question>>
    <3>1. cs[1] = Question /\ 1 \in DOMAIN cs
      BY <2>1
    <3> QED BY <2>1, <3>1 DEF ToSet
  <2>2. CASE cs \in Seq(Sendable)
    <3>1. ~lists
      <4>1. \A i \in DOMAIN cs : cs[i] \in Sendable
        BY <2>2
      <4> QED BY <4>1, SendableIs DEF ToSet
    <3>2. cs # <<Question>>
      <4>1. cs = <<Question>> => cs[1] = Question /\ 1 \in DOMAIN cs
        OBVIOUS
      <4> QED BY <3>1, <4>1 DEF ToSet
    <3> QED BY <3>1, <3>2
  <2> QED BY <2>1, <2>2
<1>2. Served(h, cs).holds \in HeldSet /\ done \in Seq(Sendable)
  <2>1. CASE cs \in Seq(Sendable)
    BY <2>1, ServedIs
  <2>2. CASE cs = <<Question>>
    <3>1. Served(h, cs) = [holds |-> h, done |-> <<>>]
      BY <2>2, ServedQuestion
    <3>2. Served(h, cs).holds = h /\ Served(h, cs).done = <<>>
      BY <3>1
    <3> QED BY <3>2
  <2> QED BY <2>1, <2>2
<1>3. Told(c, done) \in Seq(TellLines) /\ (done = <<>> => Told(c, done) = <<>>)
  <2> HIDE DEF done
  <2>1. Line(c, done) \in TellLines
    BY <1>2, LineTells
  <2> DEFINE x == Line(c, done)
  <2> HIDE DEF x
  <2>2. <<>> \in Seq(TellLines) /\ <<x>> \in Seq(TellLines)
    BY <2>1 DEF x
  <2> QED BY <2>2 DEF Told, x
<1>4. bans \in Seq(TellLines)
  <2> DEFINE x == Text(c, "367", "n")
             y == Text(c, "368", "")
  <2>1. bans = IF Served(h, cs).holds.bans = {} THEN <<y>> ELSE <<x, y>>
    BY <1>2, BansAre
  <2>2. x \in TellLines /\ y \in TellLines
    BY BansTell
  <2> HIDE DEF x, y, bans
  <2>3. <<y>> \in Seq(TellLines) /\ <<x, y>> \in Seq(TellLines)
    BY <2>2
  <2> QED BY <2>1, <2>3
<1>5. Answer(c, h, cs) = Told(c, done) \o (IF cs = <<>> THEN <<w>> ELSE <<>>)
                            \o (IF lists THEN bans ELSE <<>>)
  BY DEF Answer
<1> DEFINE t == Told(c, done)
           q == <<w>>
<1>6. q \in Seq(TellLines) /\ t \in Seq(TellLines)
  BY <1>0, <1>3
<1>7. cs = <<>> => ~lists /\ t = <<>>
  <2>1. cs = <<>> => cs # <<Question>>
    OBVIOUS
  <2>2. cs = <<>> => done = <<>>
    BY ServedNone
  <2> QED BY <1>1, <1>3, <2>1, <2>2
<1>8. cs = <<Question>> => cs # <<>> /\ t = <<>> /\ Served(h, cs).holds = h
  <2>1. cs = <<Question>> => cs # <<>>
    OBVIOUS
  <2>2. Served(h, <<Question>>).holds = h /\ Served(h, <<Question>>).done = <<>>
    <3>1. Served(h, <<Question>>) = [holds |-> h, done |-> <<>>]
      BY ServedQuestion
    <3> QED BY <3>1
  <2> QED BY <1>3, <2>1, <2>2
<1>9. /\ \A z \in Seq(TellLines) : z \o <<>> = z /\ <<>> \o z = z
      /\ \A z, v \in Seq(TellLines) : z \o v \in Seq(TellLines)
      /\ <<>> \in Seq(TellLines)
  OBVIOUS
<1>10. cs = <<>> => Answer(c, h, cs) = q
  <2> HIDE DEF lists, bans, t, q, w
  <2> QED BY <1>5, <1>6, <1>7, <1>9 DEF q, t
<1>11. cs = <<Question>> => Answer(c, h, cs) = BansOf(c, h)
  <2>1. cs = <<Question>> => bans = BansOf(c, h)
    BY <1>8
  <2> HIDE DEF lists, bans, t, q, w
  <2> QED BY <1>1, <1>4, <1>5, <1>8, <1>9, <2>1 DEF t
<1>12. cs \notin {<<>>, <<Question>>} => Answer(c, h, cs) = t
  <2> HIDE DEF lists, bans, t, q, w
  <2> QED BY <1>1, <1>5, <1>6, <1>9 DEF t
<1>13. Answer(c, h, cs) \in Seq(TellLines)
  <2> DEFINE u == IF cs = <<>> THEN <<w>> ELSE <<>>
             v == IF lists THEN bans ELSE <<>>
  <2>1. u \in Seq(TellLines) /\ v \in Seq(TellLines)
    <3> HIDE DEF lists, bans, w
    <3> QED BY <1>4, <1>6, <1>9
  <2>2. Answer(c, h, cs) = (t \o u) \o v
    BY <1>5
  <2> HIDE DEF u, v, t, q
  <2> QED BY <1>6, <1>9, <2>1, <2>2
<1> QED BY <1>0, <1>1, <1>2, <1>10, <1>11, <1>12, <1>13

----------------------------------------------------------------------------
(* What a render leaves.                                                   *)

ShellSet == [open : BOOLEAN, tab : {"settings", "ban"}]

\* The panel was mounted and had asked already.
Asked_Before == panel # Unmounted /\ panel.requested

Question_Line(c) == Line(c, <<Question>>)

\* A panel is filled, or keeps what it has; it asks where it has not.
Rendered(k, s, sh, asks) ==
    /\ ShapedPanel(panel')
    /\ panel'.openedAt = sh.open
    /\ \/ panel'.form = SettingsFrom(k[s].modes) /\ panel'.topic = k[s].topic
       \/ panel # Unmounted /\ panel'.form = panel.form /\ panel'.topic = panel.topic
    /\ panel'.requested = (Asked_Before \/ asks)
    /\ asks => ~Asked_Before

Sends(s, lines, asks) ==
    /\ toServer' = toServer \o lines \o (IF asks THEN <<Question_Line(s)>> ELSE <<>>)
    /\ first' = IF first = Unselected /\ asks THEN s ELSE first

\* A render, by what is selected after it.
LEMMA ShowIs ==
    ASSUME FormInv, panel # Unmounted => panel.requested \in BOOLEAN,
           NEW k, NEW s \in Channels \cup {Unselected}, NEW sh \in ShellSet,
           NEW replaces, NEW lines,
           Show(k, s, sh, replaces, lines)
    PROVE  /\ known' = k /\ selected' = s /\ shell' = sh
           /\ touched' \in {{}, touched}
           /\ s = Unselected => panel' = Unmounted /\ Sends(s, lines, FALSE)
           /\ s # Unselected => \E asks \in BOOLEAN :
                                    Rendered(k, s, sh, asks) /\ Sends(s, lines, asks)
<1>0. known' = k /\ selected' = s /\ shell' = sh /\ touched' \in {{}, touched}
  BY DEF Show
<1>1. CASE s = Unselected
  <2>1. panel' = Unmounted
    BY <1>1 DEF Show
  <2>2. toServer' = toServer \o lines \o <<>> /\ first' = first
    BY <1>1 DEF Show
  <2>3. Sends(s, lines, FALSE)
    BY <2>2 DEF Sends
  <2> QED BY <1>0, <1>1, <2>1, <2>3
<1>2. CASE s # Unselected
  <2> DEFINE again == [panel EXCEPT !.openedAt = sh.open,
                                    !.tab = IF sh.open /\ ~panel.openedAt THEN sh.tab ELSE @]
             shown == IF panel = Unmounted THEN Mounted(k[s], sh)
                      ELSE IF Refills(replaces) THEN Filled(again, k[s]) ELSE again
             asks == Fetches(shown)
  <2>1. panel' = [shown EXCEPT !.requested = shown.requested \/ asks]
    BY <1>2 DEF Show
  <2>2. Sends(s, lines, asks)
    BY <1>2 DEF Show, Sends, Question_Line, Question
  <2>3. /\ ShapedPanel(shown) /\ shown.openedAt = sh.open
        /\ \/ shown.form = SettingsFrom(k[s].modes) /\ shown.topic = k[s].topic
           \/ panel # Unmounted /\ shown.form = panel.form /\ shown.topic = panel.topic
        /\ shown.requested = Asked_Before
    <3> DEFINE tab == IF sh.open /\ ~panel.openedAt THEN sh.tab ELSE panel.tab
    <3>1. CASE panel = Unmounted
      <4> DEFINE blank == [openedAt |-> sh.open, tab |-> sh.tab, form |-> {}, topic |-> "",
                           requested |-> FALSE]
      <4>1. shown = Filled(blank, k[s])
        BY <3>1 DEF Mounted
      <4>2. blank = [openedAt |-> blank.openedAt, tab |-> blank.tab, form |-> {},
                     topic |-> blank.topic, requested |-> blank.requested]
            /\ blank.tab \in {"settings", "ban"} /\ blank.openedAt = sh.open
            /\ blank.requested = FALSE
        BY DEF ShellSet
      <4> HIDE DEF blank
      <4>3. ShapedPanel(Filled(blank, k[s]))
        BY <4>2, FilledFollows
      <4> DEFINE v == SettingsFrom(k[s].modes)
                 t == k[s].topic
                 q == Filled(blank, k[s])
      <4>4. q = [blank EXCEPT !.form = v, !.topic = t]
        BY DEF Filled
      <4> HIDE DEF v, t, q
      <4>5. q.openedAt = sh.open /\ q.form = v /\ q.topic = t /\ q.requested = FALSE
        BY <4>2, <4>4
      <4>6. Asked_Before = FALSE
        BY <3>1 DEF Asked_Before
      <4> HIDE DEF shown
      <4> QED BY <4>1, <4>3, <4>5, <4>6 DEF v, t, q
    <3>2. CASE panel # Unmounted
      <4>1. ShapedPanel(panel) /\ panel.requested \in BOOLEAN
        BY <3>2 DEF FormInv
      <4>2. Asked_Before = panel.requested
        BY <3>2, <4>1 DEF Asked_Before
      <4>3. tab \in {"settings", "ban"}
        BY <4>1 DEF ShapedPanel, ShellSet
      <4>4. again = [panel EXCEPT !.openedAt = sh.open, !.tab = tab]
        OBVIOUS
      <4> HIDE DEF again, tab
      <4>5. /\ again = [openedAt |-> sh.open, tab |-> tab, form |-> panel.form,
                        topic |-> panel.topic, requested |-> panel.requested]
        BY <4>1, <4>4 DEF ShapedPanel
      <4>6. ShapedPanel(again)
        BY <4>1, <4>3, <4>5 DEF ShapedPanel
      <4>7. CASE ~Refills(replaces)
        <5>1. shown = again
          BY <3>2, <4>7
        <5> HIDE DEF shown
        <5> QED BY <3>2, <4>2, <4>5, <4>6, <5>1
      <4>8. CASE Refills(replaces)
        <5>1. shown = Filled(again, k[s])
          BY <3>2, <4>8
        <5>2. ShapedPanel(Filled(again, k[s]))
          <6>1. again = [openedAt |-> again.openedAt, tab |-> again.tab, form |-> panel.form,
                         topic |-> again.topic, requested |-> again.requested]
                /\ again.tab \in {"settings", "ban"}
            BY <4>3, <4>5
          <6> QED BY <6>1, FilledFollows
        <5> DEFINE v == SettingsFrom(k[s].modes)
                   t == k[s].topic
                   q == Filled(again, k[s])
        <5>3. q = [again EXCEPT !.form = v, !.topic = t]
          BY DEF Filled
        <5> HIDE DEF v, t, q
        <5>4. q.openedAt = sh.open /\ q.form = v /\ q.topic = t /\ q.requested = panel.requested
          BY <4>5, <5>3
        <5> HIDE DEF shown
        <5> QED BY <4>2, <5>1, <5>2, <5>4 DEF v, t, q
      <4> QED BY <4>7, <4>8
    <3> QED BY <3>1, <3>2
  <2>4. asks => ~shown.requested
    BY DEF Fetches
  <2>5. asks \in BOOLEAN
    BY DEF Fetches
  <2> HIDE DEF shown, asks, again
  <2>6. panel' = [openedAt |-> shown.openedAt, tab |-> shown.tab, form |-> shown.form,
                  topic |-> shown.topic, requested |-> shown.requested \/ asks]
    BY <2>1, <2>3 DEF ShapedPanel
  <2>7. ShapedPanel(panel')
    BY <2>3, <2>6 DEF ShapedPanel
  <2>8. Rendered(k, s, sh, asks)
    <3>1. panel'.openedAt = sh.open /\ panel'.form = shown.form /\ panel'.topic = shown.topic
      BY <2>3, <2>6
    <3>2. panel'.requested = (Asked_Before \/ asks)
      BY <2>3, <2>6
    <3> QED BY <2>3, <2>4, <2>7, <3>1, <3>2 DEF Rendered
  <2> QED BY <1>0, <1>2, <2>2, <2>5, <2>8
<1> QED BY <1>1, <1>2

----------------------------------------------------------------------------
(* Types.                                                                  *)

KnownSet == [modes : Kept, topic : Topics, bans : Seq({"n"}), loading : BOOLEAN]

ClientType ==
    /\ known \in [Channels -> KnownSet]
    /\ toServer \in Seq(AskLines)
    /\ panel # Unmounted => /\ panel.form \in Forms
                            /\ panel.topic \in Topics
                            /\ panel.requested \in BOOLEAN
                            /\ panel.openedAt = shell.open
    /\ touched \subseteq Fields

ServerType ==
    /\ held \in [Channels -> HeldSet]
    /\ told \in [Channels -> BOOLEAN]
    /\ toClient \in Seq(TellLines)

TypeInv == FormInv /\ ClientType /\ ServerType

\* What is known of a channel.
LEMMA KnownIs ==
    ASSUME NEW k \in KnownSet
    PROVE  /\ k = [modes |-> k.modes, topic |-> k.topic, bans |-> k.bans, loading |-> k.loading]
           /\ k.modes \in Kept /\ k.topic \in Topics /\ k.bans \in Seq({"n"}) /\ k.loading \in BOOLEAN
BY DEF KnownSet

\* No modes at all are in order,
LEMMA NoModesKept == NoModes \in Kept
<1> DEFINE e == ""
           f == {}
<1>1. f \in SUBSET {"m", "k", "l"} /\ e \in {"", "x", "y"} /\ e \in {"", "5"}
      /\ "k" \notin f /\ "l" \notin f /\ e = ""
  OBVIOUS
<1> HIDE DEF e, f
<1>2. [flags |-> f, params |-> [k |-> e, l |-> e]] \in Kept
  BY <1>1, KeptFrom
<1> QED BY <1>2 DEF NoModes, e, f

\* and so is what a server holds at first.
LEMMA FirstHeld == Fresh \in HeldSet /\ Old \in HeldSet
<1>1. Fresh \in HeldSet
  BY NoModesKept DEF Fresh, HeldSet, Topics
<1>2. Old.modes \in Kept
  <2> DEFINE f == {"k", "l"}
             a == "x"
             b == "5"
  <2>1. f \in SUBSET {"m", "k", "l"} /\ a \in {"", "x", "y"} /\ b \in {"", "5"}
        /\ "k" \in f /\ "l" \in f /\ a # "" /\ b # ""
    OBVIOUS
  <2> HIDE DEF f, a, b
  <2>2. [flags |-> f, params |-> [k |-> a, l |-> b]] \in Kept
    BY <2>1, KeptFrom
  <2> QED BY <2>2 DEF Old, f, a, b
<1>3. Old \in HeldSet
  <2> DEFINE v == Old.modes
  <2>1. Old = [modes |-> v, topic |-> "t", bans |-> {"n"}] /\ v \in Kept
    BY <1>2 DEF Old
  <2> HIDE DEF v
  <2> QED BY <2>1 DEF HeldSet, Topics
<1> QED BY <1>1, <1>3

\* What is not changed in the form, as the server would take it.
LEMMA PendingSends ==
    ASSUME NEW g \in Kept, NEW f \in Forms
    PROVE  DiffChannelModes(g, f) \in Seq(Sendable)
<1> DEFINE h == [modes |-> g, topic |-> "", bans |-> {}]
<1>1. h \in HeldSet /\ h.modes = g
  BY DEF HeldSet, Topics
<1> HIDE DEF h
<1> QED BY <1>1, DiffServes

\* The lines of a save are lines of ours,
LEMMA LinesType ==
    ASSUME NEW c \in Channels, NEW cs \in Seq(Sendable)
    PROVE  SaveLines(c, cs) \in Seq(AskLines)
<1>1. Pieces(cs) \in Nat /\ \A i \in 1..Pieces(cs) : Line(c, Piece(cs, i)) \in AskLines
  BY PiecesAre, LineAsks
<1> QED BY <1>1, LinesAre

\* and so is the question.
LEMMA QuestionAsks ==
    ASSUME NEW c \in Channels
    PROVE  Question_Line(c) \in AskLines
BY LineAsks DEF Question_Line

\* Rendering keeps the client's types.
LEMMA ShowTyped ==
    ASSUME FormInv, ClientType,
           NEW k \in [Channels -> KnownSet], NEW s \in Channels \cup {Unselected},
           NEW sh \in ShellSet, NEW replaces, NEW lines \in Seq(AskLines),
           Show(k, s, sh, replaces, lines)
    PROVE  ClientType'
<1>1. panel # Unmounted => panel.requested \in BOOLEAN
  BY DEF ClientType
<1>2. /\ known' = k /\ selected' = s /\ shell' = sh
      /\ touched' \in {{}, touched}
      /\ s = Unselected => panel' = Unmounted /\ Sends(s, lines, FALSE)
      /\ s # Unselected => \E asks \in BOOLEAN :
                               Rendered(k, s, sh, asks) /\ Sends(s, lines, asks)
  BY <1>1, ShowIs
<1>3. touched' \subseteq Fields
  BY <1>2 DEF ClientType
<1>4. \A a, b \in Seq(AskLines) : a \o b \in Seq(AskLines)
  OBVIOUS
<1>5. toServer \in Seq(AskLines)
  BY DEF ClientType
<1>6. CASE s = Unselected
  <2>1. toServer' = toServer \o lines \o <<>>
    BY <1>2, <1>6 DEF Sends
  <2>2. toServer' \in Seq(AskLines)
    <3>1. <<>> \in Seq(AskLines)
      OBVIOUS
    <3> QED BY <1>4, <1>5, <2>1, <3>1
  <2> QED BY <1>2, <1>3, <1>6, <2>2 DEF ClientType
<1>7. CASE s # Unselected
  <2>1. PICK asks \in BOOLEAN : Rendered(k, s, sh, asks) /\ Sends(s, lines, asks)
    BY <1>2, <1>7
  <2>2. toServer' \in Seq(AskLines)
    <3> DEFINE x == Question_Line(s)
               q == IF asks THEN <<x>> ELSE <<>>
    <3>1. x \in AskLines
      BY <1>7, QuestionAsks
    <3> HIDE DEF x
    <3>2. q \in Seq(AskLines)
      BY <3>1
    <3>3. toServer' = toServer \o lines \o q
      BY <2>1 DEF Sends, x
    <3> HIDE DEF q
    <3> QED BY <1>4, <1>5, <3>2, <3>3
  <2>3. panel'.form \in Forms /\ panel'.topic \in Topics
    <3>1. k[s].modes \in Kept /\ k[s].topic \in Topics
      BY <1>7, KnownIs
    <3>2. SettingsFrom(k[s].modes) \in Forms
      BY <3>1, SettingsType
    <3> QED BY <2>1, <3>1, <3>2 DEF Rendered, ClientType
  <2>4. panel'.requested \in BOOLEAN /\ panel'.openedAt = shell'.open
    BY <1>2, <2>1 DEF Rendered
  <2> QED BY <1>2, <1>3, <2>2, <2>3, <2>4 DEF ClientType
<1> QED BY <1>6, <1>7

----------------------------------------------------------------------------
(* The reads.                                                              *)

\* What the client makes of a line.
New(k, m) ==
    CASE m.what \in {"MODE", "324"}  -> Moded(k, m.line)
      [] m.what = "TOPIC"            -> [k EXCEPT !.topic = m.text]
      [] m.what = "367"              -> Listed(k, m.text)
      [] OTHER                       -> ListEnds(k)

\* The parts of a channel a line can be about.
View(k) == [modes |-> k.modes, topic |-> k.topic]
Table(k) == [bans |-> k.bans, loading |-> k.loading]

\* The parts of what is known of a channel.
LEMMA KnownMade ==
    ASSUME NEW a \in Kept, NEW t \in Topics, NEW b \in Seq({"n"}), NEW l \in BOOLEAN, NEW n,
           n = [modes |-> a, topic |-> t, bans |-> b, loading |-> l]
    PROVE  /\ n \in KnownSet
           /\ View(n) = [modes |-> a, topic |-> t] /\ Table(n) = [bans |-> b, loading |-> l]
BY DEF View, Table, KnownSet

\* A line goes to the modes and the topic, or to the table.
LEMMA NewIs ==
    ASSUME NEW k \in KnownSet, NEW m \in TellLines
    PROVE  /\ New(k, m) \in KnownSet
           /\ View(New(k, m)) = Seen(m.c, View(k), m)
           /\ Table(New(k, m)) = Tabled(m.c, Table(k), m)
<1> DEFINE n == New(k, m)
           a == k.modes
           t == k.topic
           b == k.bans
           l == k.loading
<1>1. /\ k = [modes |-> a, topic |-> t, bans |-> b, loading |-> l]
      /\ a \in Kept /\ t \in Topics /\ b \in Seq({"n"}) /\ l \in BOOLEAN
  BY KnownIs
<1>2. View(k) = [modes |-> a, topic |-> t] /\ Table(k) = [bans |-> b, loading |-> l]
  BY DEF View, Table
<1> HIDE DEF a, t, b, l
<1>3. CASE m.what \in {"MODE", "324"}
  <2> DEFINE v == ApplyChannelModes(a, Asked(m))
  <2>1. Asked(m) \in Seq(Sendable)
    BY <1>3, TellLinesAre
  <2>2. v \in Kept
    BY <1>1, <2>1, AppliesKept
  <2>3. n = [k EXCEPT !.modes = v]
    BY <1>1, <1>3 DEF New, Moded, Asked
  <2>4. Seen(m.c, View(k), m) = [View(k) EXCEPT !.modes = v]
    BY <1>2, <1>3 DEF Seen, Asked
  <2>5. Tabled(m.c, Table(k), m) = Table(k)
    BY <1>3 DEF Tabled
  <2> HIDE DEF v, n
  <2>6. n = [modes |-> v, topic |-> t, bans |-> b, loading |-> l]
    BY <1>1, <2>3
  <2> QED BY <1>1, <1>2, <2>2, <2>4, <2>5, <2>6 DEF View, Table, KnownSet, n
<1>4. CASE m.what = "TOPIC"
  <2> DEFINE v == m.text
  <2>1. v \in Topics
    BY <1>4, TellLinesAre
  <2>2. n = [k EXCEPT !.topic = v]
    BY <1>4 DEF New
  <2>3. Seen(m.c, View(k), m) = [View(k) EXCEPT !.topic = v]
    BY <1>4 DEF Seen
  <2>4. Tabled(m.c, Table(k), m) = Table(k)
    BY <1>4 DEF Tabled
  <2> HIDE DEF v, n
  <2>5. n = [modes |-> a, topic |-> v, bans |-> b, loading |-> l]
    BY <1>1, <2>2
  <2> QED BY <1>1, <1>2, <2>1, <2>3, <2>4, <2>5 DEF View, Table, KnownSet, n
<1>5. CASE m.what = "367"
  <2> DEFINE v == Append(b, m.text)
  <2>1. v \in Seq({"n"})
    BY <1>1, <1>5, TellLinesAre
  <2>2. n = [k EXCEPT !.bans = v, !.loading = TRUE]
    BY <1>1, <1>5 DEF New, Listed
  <2>3. Seen(m.c, View(k), m) = View(k)
    BY <1>5 DEF Seen
  <2>4. Tabled(m.c, Table(k), m) = [bans |-> v, loading |-> TRUE]
    BY <1>2, <1>5 DEF Tabled
  <2> HIDE DEF v, n
  <2>5. n = [modes |-> a, topic |-> t, bans |-> v, loading |-> TRUE]
    BY <1>1, <2>2
  <2>6. n \in KnownSet /\ View(n) = [modes |-> a, topic |-> t] /\ Table(n) = [bans |-> v, loading |-> TRUE]
    <3> DEFINE y == TRUE
    <3>1. y \in BOOLEAN /\ n = [modes |-> a, topic |-> t, bans |-> v, loading |-> y]
      BY <2>5
    <3> HIDE DEF y
    <3>2. n \in KnownSet /\ View(n) = [modes |-> a, topic |-> t] /\ Table(n) = [bans |-> v, loading |-> y]
      BY <1>1, <2>1, <3>1, KnownMade
    <3> QED BY <3>2 DEF y
  <2> QED BY <1>2, <2>3, <2>4, <2>6 DEF n
<1>6. CASE m.what = "368"
  <2>2. n = [k EXCEPT !.loading = FALSE]
    BY <1>6 DEF New, ListEnds
  <2>3. Seen(m.c, View(k), m) = View(k)
    BY <1>6 DEF Seen
  <2>4. Tabled(m.c, Table(k), m) = [Table(k) EXCEPT !.loading = FALSE]
    BY <1>6 DEF Tabled
  <2> HIDE DEF n
  <2>5. n = [modes |-> a, topic |-> t, bans |-> b, loading |-> FALSE]
    BY <1>1, <2>2
  <2>6. n \in KnownSet /\ View(n) = [modes |-> a, topic |-> t] /\ Table(n) = [bans |-> b, loading |-> FALSE]
    <3> DEFINE y == FALSE
    <3>1. y \in BOOLEAN /\ n = [modes |-> a, topic |-> t, bans |-> b, loading |-> y]
      BY <2>5
    <3> HIDE DEF y
    <3>2. n \in KnownSet /\ View(n) = [modes |-> a, topic |-> t] /\ Table(n) = [bans |-> b, loading |-> y]
      BY <1>1, <3>1, KnownMade
    <3> QED BY <3>2 DEF y
  <2>7. [Table(k) EXCEPT !.loading = FALSE] = [bans |-> b, loading |-> FALSE]
    <3> DEFINE y == FALSE
               r == Table(k)
    <3>1. r = [bans |-> b, loading |-> l]
      BY <1>2
    <3> HIDE DEF y, r
    <3>2. [r EXCEPT !.loading = y] = [bans |-> b, loading |-> y]
      BY <3>1
    <3> QED BY <3>2 DEF y, r
  <2> QED BY <1>2, <2>3, <2>4, <2>6, <2>7 DEF n
<1> QED BY <1>3, <1>4, <1>5, <1>6, TellLinesAre

\* ClientReads, in these terms.
LEMMA ClientReadIs ==
    ASSUME TypeInv, ClientReads
    PROVE  LET m == Head(toClient)
           IN  /\ toClient # <<>> /\ m \in TellLines /\ m.c \in Channels
               /\ toClient' = Tail(toClient) /\ toClient' \in Seq(TellLines)
               /\ [known EXCEPT ![m.c] = New(known[m.c], m)] \in [Channels -> KnownSet]
               /\ Show([known EXCEPT ![m.c] = New(known[m.c], m)], selected, shell,
                       m.c = selected /\ m.what \in {"MODE", "324"}, <<>>)
               /\ UNCHANGED <<held, told, answered, wanted, mounts, steps, changes>>
<1> DEFINE m == Head(toClient)
<1>1. toClient # <<>> /\ toClient \in Seq(TellLines) /\ known \in [Channels -> KnownSet]
  BY DEF TypeInv, ServerType, ClientType, ClientReads
<1>2. m \in TellLines /\ Tail(toClient) \in Seq(TellLines)
  BY <1>1
<1>3. m.c \in Channels
  BY <1>2, TellLinesAre
<1>4. New(known[m.c], m) \in KnownSet
  BY <1>1, <1>2, <1>3, NewIs
<1>5. [known EXCEPT ![m.c] = New(known[m.c], m)] \in [Channels -> KnownSet]
  <2> HIDE DEF m
  <2> QED BY <1>1, <1>3, <1>4
<1>6. /\ toClient' = Tail(toClient)
      /\ Show([known EXCEPT ![m.c] = New(known[m.c], m)], selected, shell,
              m.c = selected /\ m.what \in {"MODE", "324"}, <<>>)
      /\ UNCHANGED <<held, told, answered, wanted, mounts, steps, changes>>
  BY DEF ClientReads, New
<1> QED BY <1>1, <1>2, <1>3, <1>5, <1>6

\* ServerReads, in these terms.
LEMMA ServerReadIs ==
    ASSUME TypeInv, ServerReads
    PROVE  LET m == Head(toServer)
               h == held[m.c]
               cs == Asked(m)
           IN  /\ toServer # <<>> /\ m \in AskLines /\ m.c \in Channels /\ h \in HeldSet
               /\ toServer' = Tail(toServer) /\ toServer' \in Seq(AskLines)
               /\ m.what = "TOPIC" =>
                     /\ m.text \in Topics /\ m = Text(m.c, "TOPIC", m.text)
                     /\ held' = [held EXCEPT ![m.c] = [h EXCEPT !.topic = m.text]]
                     /\ toClient' = toClient \o <<m>>
                     /\ UNCHANGED <<told, answered>>
               /\ m.what # "TOPIC" =>
                     /\ m.what = "MODE" /\ cs \in Seq(Sendable) \cup {<<Question>>}
                     /\ m = Line(m.c, cs)
                     /\ held' = [held EXCEPT ![m.c] = Served(h, cs).holds]
                     /\ toClient' = toClient \o Answer(m.c, h, cs)
                     /\ told' = [told EXCEPT ![m.c] = told[m.c] \/ cs = <<>>]
                     /\ answered' = [answered EXCEPT ![m.c] =
                            IF cs = <<Question>> THEN [what |-> "bans", bans |-> h.bans]
                            ELSE answered[m.c]]
               /\ UNCHANGED <<known, selected, shell, panel, touched, stale, wanted, first,
                              mounts, steps, changes>>
<1> DEFINE m == Head(toServer)
           h == held[m.c]
           cs == Asked(m)
<1>1. toServer # <<>> /\ toServer \in Seq(AskLines) /\ held \in [Channels -> HeldSet]
  BY DEF TypeInv, ServerType, ClientType, ServerReads
<1>2. m \in AskLines /\ Tail(toServer) \in Seq(AskLines)
  BY <1>1
<1>3. /\ m.c \in Channels
      /\ \/ m.what = "TOPIC" /\ m.text \in Topics /\ m = Text(m.c, "TOPIC", m.text)
         \/ m.what = "MODE" /\ cs \in Seq(Sendable) \cup {<<Question>>} /\ m = Line(m.c, cs)
  BY <1>2, AskLinesAre
<1>4. h \in HeldSet
  BY <1>1, <1>3
<1>5. /\ toServer' = Tail(toServer)
      /\ UNCHANGED <<known, selected, shell, panel, touched, stale, wanted, first,
                     mounts, steps, changes>>
  BY DEF ServerReads
<1>6. m.what = "TOPIC" =>
          /\ held' = [held EXCEPT ![m.c] = [h EXCEPT !.topic = m.text]]
          /\ toClient' = toClient \o <<m>>
          /\ UNCHANGED <<told, answered>>
  BY DEF ServerReads
<1>7. ASSUME m.what # "TOPIC"
      PROVE  /\ held' = [held EXCEPT ![m.c] = Served(h, cs).holds]
             /\ toClient' = toClient \o Answer(m.c, h, cs)
             /\ told' = [told EXCEPT ![m.c] = told[m.c] \/ cs = <<>>]
             /\ answered' = [answered EXCEPT ![m.c] =
                    IF cs = <<Question>> THEN [what |-> "bans", bans |-> h.bans]
                    ELSE answered[m.c]]
  <2>1. /\ held' = [held EXCEPT ![m.c] = Served(h, cs).holds]
        /\ toClient' = toClient \o (Told(m.c, Served(h, cs).done)
                             \o (IF cs = <<>>
                                 THEN <<[c |-> m.c, what |-> "324", line |-> ModesOf(h)]>> ELSE <<>>)
                             \o (IF Question \in ToSet(cs) THEN BansOf(m.c, Served(h, cs).holds) ELSE <<>>))
        /\ told' = [told EXCEPT ![m.c] = told[m.c] \/ cs = <<>>]
        /\ answered' = [answered EXCEPT ![m.c] =
               IF Question \in ToSet(cs) THEN [what |-> "bans", bans |-> h.bans] ELSE answered[m.c]]
    BY <1>7 DEF ServerReads, Asked, Question
  <2>2. cs \in Seq(Sendable) \cup {<<Question>>}
    BY <1>3, <1>7
  <2>3. cs = <<Question>> <=> Question \in ToSet(cs)
    <3> HIDE DEF cs, h, m
    <3> QED BY <1>3, <1>4, <2>2, AnswerIs
  <2>4. [c |-> m.c, what |-> "324", line |-> ModesOf(h)] = Whole(m.c, All(h))
    BY ModesOfIs DEF Whole
  <2> HIDE DEF m, h, cs
  <2> QED BY <2>1, <2>3, <2>4 DEF Answer
<1> QED BY <1>1, <1>2, <1>3, <1>4, <1>5, <1>6, <1>7

----------------------------------------------------------------------------
(* The types are kept.                                                     *)

\* The types at first.
LEMMA TypeInit == Init => TypeInv
<1> SUFFICES ASSUME Init PROVE TypeInv
  OBVIOUS
<1>1. FormInv
  BY FormInit
<1>2. /\ held = [c \in Channels |-> IF c \in Past THEN Old ELSE Fresh]
      /\ told \in [Channels -> BOOLEAN]
      /\ known = [c \in Channels |-> [modes |-> IF told[c] THEN held[c].modes ELSE NoModes,
                                      topic |-> held[c].topic, bans |-> <<>>, loading |-> FALSE]]
      /\ toServer = <<>> /\ toClient = <<>> /\ panel = Unmounted /\ touched = {}
  BY DEF Init
<1>3. held \in [Channels -> HeldSet]
  BY <1>2, FirstHeld
<1>4. ASSUME NEW c \in Channels PROVE known[c] \in KnownSet
  <2> DEFINE v == IF told[c] THEN held[c].modes ELSE NoModes
             t == held[c].topic
             e == <<>>
             f == FALSE
  <2>1. v \in Kept /\ t \in Topics /\ e \in Seq({"n"}) /\ f \in BOOLEAN
    <3>1. held[c] \in HeldSet
      BY <1>3
    <3> QED BY <3>1, HeldIs, NoModesKept
  <2>2. known[c] = [modes |-> v, topic |-> t, bans |-> e, loading |-> f]
    BY <1>2
  <2> HIDE DEF v, t, e, f
  <2> QED BY <2>1, <2>2, KnownMade
<1>5. known \in [Channels -> KnownSet]
  BY <1>2, <1>4
<1>6. <<>> \in Seq(AskLines) /\ <<>> \in Seq(TellLines)
  OBVIOUS
<1> QED BY <1>1, <1>2, <1>3, <1>5, <1>6 DEF TypeInv, ClientType, ServerType

\* The lines of a save, and of a question in the conversation or a change in
\* the ban table.
LEMMA SaveIs ==
    ASSUME TypeInv, Saves
    PROVE  LET sh == [shell EXCEPT !.open = FALSE]
               topic == IF TopicChanged THEN <<Text(selected, "TOPIC", panel.topic)>> ELSE <<>>
           IN  /\ selected \in Channels /\ Pending \in Seq(Sendable) /\ sh \in ShellSet
               /\ panel.form \in Forms /\ panel.topic \in Topics
               /\ SaveLines(selected, Pending) \in Seq(AskLines) /\ topic \in Seq(AskLines)
               /\ SaveLines(selected, Pending) \o topic \in Seq(AskLines)
               /\ Show(known, selected, sh, FALSE, SaveLines(selected, Pending) \o topic)
<1> DEFINE sh == [shell EXCEPT !.open = FALSE]
           x == Text(selected, "TOPIC", panel.topic)
           topic == IF TopicChanged THEN <<x>> ELSE <<>>
           lines == SaveLines(selected, Pending)
<1>1. panel # Unmounted /\ selected \in Channels /\ shell \in ShellSet
  BY DEF Saves, OnSettings, TypeInv, FormInv, ShellSet
<1>2. sh \in ShellSet
  BY <1>1 DEF ShellSet
<1>3. panel.form \in Forms /\ panel.topic \in Topics /\ known[selected] \in KnownSet
  BY <1>1 DEF TypeInv, ClientType
<1>4. Pending \in Seq(Sendable)
  <2>1. known[selected].modes \in Kept
    BY <1>3, KnownIs
  <2> QED BY <1>3, <2>1, PendingSends DEF Pending
<1>5. lines \in Seq(AskLines)
  BY <1>1, <1>4, LinesType
<1>6. topic \in Seq(AskLines)
  <2>1. x \in AskLines
    BY <1>1, <1>3, TopicAsks
  <2> HIDE DEF x
  <2> QED BY <2>1
<1>7. Show(known, selected, sh, FALSE, lines \o topic)
  BY DEF Saves, SaveLines
<1>8. lines \o topic \in Seq(AskLines)
  <2> HIDE DEF lines, topic
  <2> QED BY <1>5, <1>6
<1> QED BY <1>1, <1>2, <1>3, <1>4, <1>5, <1>6, <1>7, <1>8

\* A line of the table or of the conversation is a change of the bans, or empty.
LEMMA AskIs ==
    ASSUME TypeInv, Asks
    PROVE  /\ selected \in Channels /\ panel # Unmounted
           /\ \E cs \in Seq(Sendable) :
                 /\ cs = <<>> \/ \E x \in Sendable : x.mode = "b" /\ cs = <<x>>
                 /\ Show(known, selected, shell, FALSE, <<Line(selected, cs)>>)
<1>1. panel # Unmounted /\ selected \in Channels
  BY DEF Asks, TypeInv, FormInv
<1>2. PICK sent \in (IF panel.openedAt /\ panel.tab = "ban"
                       THEN {<<Change(TRUE, "b", "n")>>}
                              \cup {<<Change(FALSE, "b", known[selected].bans[i])>> :
                                        i \in DOMAIN known[selected].bans}
                       ELSE IF ~panel.openedAt THEN {<<>>} ELSE {}) :
             Show(known, selected, shell, FALSE, <<Line(selected, sent)>>)
  BY DEF Asks
<1>3. known[selected].bans \in Seq({"n"})
  <2>1. known[selected] \in KnownSet
    BY <1>1 DEF TypeInv, ClientType
  <2> QED BY <2>1, KnownIs
<1>4. \A i \in DOMAIN known[selected].bans : known[selected].bans[i] = "n"
  BY <1>3
<1>5. sent = <<>> \/ sent = <<Change(TRUE, "b", "n")>> \/ sent = <<Change(FALSE, "b", "n")>>
  BY <1>2, <1>4
<1>6. \A add \in BOOLEAN : Change(add, "b", "n") \in Sendable /\ Change(add, "b", "n").mode = "b"
  BY ChangeSendable DEF Change
<1>7. sent = <<>> \/ \E x \in Sendable : x.mode = "b" /\ sent = <<x>>
  BY <1>5, <1>6
<1>8. sent \in Seq(Sendable)
  <2>1. <<>> \in Seq(Sendable) /\ \A x \in Sendable : <<x>> \in Seq(Sendable)
    OBVIOUS
  <2> QED BY <1>7, <2>1
<1> QED BY <1>1, <1>2, <1>7, <1>8

\* An edited form has the fields of a form.
LEMMA FieldsExcept ==
    ASSUME NEW q, q = [m |-> q.m, k |-> q.k, l |-> q.l], NEW field, NEW value,
           NEW f, f = [q EXCEPT ![field] = value]
    PROVE  f = [m |-> f.m, k |-> f.k, l |-> f.l]
OBVIOUS

\* Each step keeps the client's types.
LEMMA ClientTypeStep == TypeInv /\ [Next]_vars => ClientType'
<1> SUFFICES ASSUME TypeInv, [Next]_vars PROVE ClientType'
  OBVIOUS
<1>0. /\ FormInv /\ ClientType /\ known \in [Channels -> KnownSet]
      /\ shell \in ShellSet /\ selected \in Channels \cup {Unselected}
      /\ toServer \in Seq(AskLines) /\ touched \subseteq Fields
  BY DEF TypeInv, FormInv, ClientType, ShellSet
<1>00. <<>> \in Seq(AskLines)
  OBVIOUS
<1>1. CASE Selects
  <2>1. PICK s \in (Channels \cup {Unselected}) \ {selected} : Show(known, s, shell, TRUE, <<>>)
    BY <1>1 DEF Selects
  <2> QED BY <1>0, <1>00, <2>1, ShowTyped
<1>2. CASE Opens
  <2>1. PICK tab \in {"settings", "ban"} : ShowShell([open |-> TRUE, tab |-> tab])
    BY <1>2 DEF Opens
  <2> DEFINE sh == [open |-> TRUE, tab |-> tab]
  <2>2. sh \in ShellSet /\ Show(known, selected, sh, FALSE, <<>>)
    BY <2>1 DEF ShellSet, ShowShell
  <2> HIDE DEF sh
  <2> QED BY <1>0, <1>00, <2>2, ShowTyped
<1>3. CASE Closes
  <2> DEFINE sh == [shell EXCEPT !.open = FALSE]
  <2>1. sh \in ShellSet /\ Show(known, selected, sh, FALSE, <<>>)
    BY <1>0, <1>3 DEF Closes, ShowShell, ShellSet
  <2> HIDE DEF sh
  <2> QED BY <1>0, <1>00, <2>1, ShowTyped
<1>4. CASE PicksTab
  <2>1. panel # Unmounted /\ UNCHANGED <<known, selected, shell, touched>> /\ selected \in Channels
    BY <1>0, <1>4 DEF PicksTab, FormInv
  <2>2. PICK tab \in {"settings", "ban"} :
           /\ panel' = [[panel EXCEPT !.tab = tab] EXCEPT
                        !.requested = @ \/ Fetches([panel EXCEPT !.tab = tab])]
           /\ toServer' = toServer \o (IF Fetches([panel EXCEPT !.tab = tab])
                     THEN <<Question_Line(selected)>> ELSE <<>>)
    BY <1>4 DEF PicksTab, Question_Line, Question
  <2>3. /\ ShapedPanel(panel) /\ panel.form \in Forms /\ panel.topic \in Topics
        /\ panel.requested \in BOOLEAN /\ panel.openedAt = shell.open
    BY <1>0, <2>1 DEF FormInv, ClientType
  <2> DEFINE asks == Fetches([panel EXCEPT !.tab = tab])
             x == Question_Line(selected)
  <2>4. panel' = [openedAt |-> panel.openedAt, tab |-> tab, form |-> panel.form,
                  topic |-> panel.topic, requested |-> panel.requested \/ asks]
    <3> HIDE DEF asks
    <3> QED BY <2>2, <2>3 DEF asks, ShapedPanel
  <2>5. toServer' \in Seq(AskLines)
    <3>1. x \in AskLines
      BY <2>1, QuestionAsks
    <3>2. toServer' = toServer \o (IF asks THEN <<x>> ELSE <<>>)
      BY <2>2
    <3> HIDE DEF asks, x
    <3> QED BY <1>0, <3>1, <3>2
  <2> HIDE DEF asks
  <2>6. /\ panel'.form = panel.form /\ panel'.topic = panel.topic /\ panel'.openedAt = panel.openedAt
        /\ panel'.requested \in BOOLEAN
    BY <2>3, <2>4
  <2> QED BY <1>0, <2>1, <2>3, <2>5, <2>6 DEF ClientType
<1>5. CASE Edits
  <2>1. /\ panel # Unmounted
        /\ UNCHANGED <<known, toServer, selected, shell>>
    BY <1>5 DEF Edits, OnSettings
  <2>2. /\ ShapedPanel(panel) /\ panel.form \in Forms /\ panel.topic \in Topics
        /\ panel.requested \in BOOLEAN /\ panel.openedAt = shell.open
    BY <1>0, <2>1 DEF FormInv, ClientType
  <2>3. CASE \E field \in {"m", "k", "l"} :
                \E value \in IF field = "m" THEN BOOLEAN
                             ELSE IF field = "k" THEN {"", "y"} ELSE {"", "5"} :
                  panel' = [panel EXCEPT !.form[field] = value] /\ touched' = touched \cup {field}
    <3>1. PICK field \in {"m", "k", "l"} :
                \E value \in IF field = "m" THEN BOOLEAN
                             ELSE IF field = "k" THEN {"", "y"} ELSE {"", "5"} :
                  panel' = [panel EXCEPT !.form[field] = value] /\ touched' = touched \cup {field}
      BY <2>3
    <3>2. PICK value \in IF field = "m" THEN BOOLEAN
                             ELSE IF field = "k" THEN {"", "y"} ELSE {"", "5"} :
                  panel' = [panel EXCEPT !.form[field] = value] /\ touched' = touched \cup {field}
      BY <3>1
    <3> DEFINE f == [panel.form EXCEPT ![field] = value]
    <3>3. panel' = [openedAt |-> panel.openedAt, tab |-> panel.tab, form |-> f,
                    topic |-> panel.topic, requested |-> panel.requested]
      <4>1. panel' = [panel EXCEPT !.form = f]
        BY <3>2
      <4> HIDE DEF f
      <4> QED BY <4>1, <2>2 DEF ShapedPanel
    <3>4. f \in Forms
      <4>0. panel.form = [m |-> panel.form.m, k |-> panel.form.k, l |-> panel.form.l]
        BY <2>2 DEF ShapedPanel
      <4>1. f = [m |-> f.m, k |-> f.k, l |-> f.l]
        <5> DEFINE q == panel.form
        <5>1. q = [m |-> q.m, k |-> q.k, l |-> q.l] /\ f = [q EXCEPT ![field] = value]
          BY <4>0
        <5> HIDE DEF f, q
        <5> QED BY <5>1, FieldsExcept
      <4>2. /\ field # "m" => f.m = panel.form.m
            /\ field # "k" => f.k = panel.form.k
            /\ field # "l" => f.l = panel.form.l
            /\ field = "m" => f.m = value
            /\ field = "k" => f.k = value
            /\ field = "l" => f.l = value
        BY <2>2 DEF ShapedPanel
      <4>3. panel.form.m \in BOOLEAN /\ panel.form.k \in {"", "x", "y"} /\ panel.form.l \in {"", "5"}
        BY <2>2, FormIs
      <4>4. f.m \in BOOLEAN
        BY <4>2, <4>3
      <4>5. f.k \in {"", "x", "y"} /\ f.l \in {"", "5"}
        BY <4>2, <4>3
      <4> HIDE DEF f
      <4> QED BY <4>1, <4>4, <4>5 DEF Forms
    <3>5. touched' \subseteq Fields
      BY <1>0, <3>2 DEF Fields
    <3> HIDE DEF f
    <3>6. panel'.form = f /\ panel'.topic = panel.topic /\ panel'.requested = panel.requested
          /\ panel'.openedAt = panel.openedAt
      BY <3>3
    <3> QED BY <1>0, <2>1, <2>2, <3>4, <3>5, <3>6 DEF ClientType
  <2>4. CASE \E text \in Topics : panel' = [panel EXCEPT !.topic = text] /\ touched' = touched \cup {"topic"}
    <3>1. PICK text \in Topics : panel' = [panel EXCEPT !.topic = text] /\ touched' = touched \cup {"topic"}
      BY <2>4
    <3>2. panel' = [openedAt |-> panel.openedAt, tab |-> panel.tab, form |-> panel.form,
                    topic |-> text, requested |-> panel.requested]
      BY <3>1, <2>2 DEF ShapedPanel
    <3>3. touched' \subseteq Fields
      BY <1>0, <3>1 DEF Fields
    <3>4. panel'.form = panel.form /\ panel'.topic = text /\ panel'.requested = panel.requested
          /\ panel'.openedAt = panel.openedAt
      BY <3>2
    <3> QED BY <1>0, <2>1, <2>2, <3>3, <3>4 DEF ClientType
  <2> QED BY <1>5, <2>3, <2>4 DEF Edits
<1>6. CASE Saves
  <2> DEFINE sh == [shell EXCEPT !.open = FALSE]
             lines == SaveLines(selected, Pending)
                         \o (IF TopicChanged THEN <<Text(selected, "TOPIC", panel.topic)>> ELSE <<>>)
  <2>1. sh \in ShellSet /\ lines \in Seq(AskLines) /\ Show(known, selected, sh, FALSE, lines)
    BY <1>6, SaveIs
  <2> HIDE DEF sh, lines
  <2> QED BY <1>0, <2>1, ShowTyped
<1>7. CASE Asks
  <2>1. selected \in Channels
    BY <1>7, AskIs
  <2>2. PICK cs \in Seq(Sendable) : Show(known, selected, shell, FALSE, <<Line(selected, cs)>>)
    BY <1>7, AskIs
  <2> DEFINE x == Line(selected, cs)
  <2>3. x \in AskLines
    BY <2>1, LineAsks
  <2> HIDE DEF x
  <2>4. <<x>> \in Seq(AskLines)
    BY <2>3
  <2> QED BY <1>0, <2>2, <2>4, ShowTyped DEF x
<1>8. CASE ServerReads
  <2>1. toServer' \in Seq(AskLines) /\ UNCHANGED <<known, shell, panel, touched>>
    BY <1>8, ServerReadIs
  <2> QED BY <1>0, <2>1 DEF ClientType
<1>9. CASE SomebodyChanges
  <2>1. UNCHANGED <<toServer, known, shell, panel, touched>>
    BY <1>9 DEF SomebodyChanges
  <2> QED BY <1>0, <2>1 DEF ClientType
<1>10. CASE ClientReads
  <2> DEFINE m == Head(toClient)
             k == [known EXCEPT ![m.c] = New(known[m.c], m)]
             replaces == m.c = selected /\ m.what \in {"MODE", "324"}
  <2>1. k \in [Channels -> KnownSet] /\ Show(k, selected, shell, replaces, <<>>)
    BY <1>10, ClientReadIs
  <2> HIDE DEF k, replaces
  <2> QED BY <1>0, <1>00, <2>1, ShowTyped
<1>11. CASE UNCHANGED vars
  BY <1>0, <1>11 DEF vars, ClientType
<1> QED BY <1>1, <1>2, <1>3, <1>4, <1>5, <1>6, <1>7, <1>8, <1>9, <1>10, <1>11 DEF Next

\* What others send is changes.
LEMMA OthersSend == \A sent \in OthersChanges : sent \in Seq(Sendable)
<1> DEFINE a == Change(FALSE, "l", "")
           b == Change(TRUE, "m", "")
           d == Change(TRUE, "k", "y")
           e == Change(FALSE, "k", "x")
           f == Change(TRUE, "o", "nick")
           g == Change(FALSE, "b", "n")
           h == Change(TRUE, "l", "5")
<1>1. /\ a \in Sendable /\ b \in Sendable /\ d \in Sendable /\ e \in Sendable
      /\ f \in Sendable /\ g \in Sendable /\ h \in Sendable
  BY ChangeSendable
<1>2. OthersChanges = {<<a, b, d>>, <<e, d>>, <<f, g, h>>}
  BY DEF OthersChanges
<1> HIDE DEF a, b, d, e, f, g, h
<1>3. <<a, b, d>> \in Seq(Sendable) /\ <<e, d>> \in Seq(Sendable) /\ <<f, g, h>> \in Seq(Sendable)
  BY <1>1
<1> QED BY <1>2, <1>3

\* SomebodyChanges, in these terms.
LEMMA SomebodyIs ==
    ASSUME TypeInv, SomebodyChanges
    PROVE  \E c \in Channels :
              /\ held[c] \in HeldSet
              /\ \/ \E sent \in Seq(Sendable) :
                       /\ held' = [held EXCEPT ![c] = Served(held[c], sent).holds]
                       /\ toClient' = toClient \o Told(c, Served(held[c], sent).done)
                 \/ \E text \in Topics :
                       /\ held' = [held EXCEPT ![c] = [held[c] EXCEPT !.topic = text]]
                       /\ toClient' = Append(toClient, Text(c, "TOPIC", text))
              /\ wanted' = [wanted EXCEPT ![c] = Nothing]
              /\ UNCHANGED <<toServer, known, selected, shell, panel, touched, stale, told,
                             answered, first, mounts, steps>>
<1>1. PICK c \in Channels :
          /\ \/ \E sent \in OthersChanges :
                   LET served == Served(held[c], sent)
                   IN  /\ served.done # <<>>
                       /\ held' = [held EXCEPT ![c] = served.holds]
                       /\ toClient' = toClient \o Told(c, served.done)
             \/ \E text \in Topics \ {held[c].topic} :
                   /\ held' = [held EXCEPT ![c].topic = text]
                   /\ toClient' = Append(toClient, Text(c, "TOPIC", text))
          /\ wanted' = [wanted EXCEPT ![c] = Nothing]
  BY DEF SomebodyChanges
<1>2. UNCHANGED <<toServer, known, selected, shell, panel, touched, stale, told,
                  answered, first, mounts, steps>>
  BY DEF SomebodyChanges
<1>3. held[c] \in HeldSet
  BY DEF TypeInv, ServerType
<1> QED BY <1>1, <1>2, <1>3, OthersSend

\* What the server tells of changes is lines of the server.
LEMMA ToldType ==
    ASSUME NEW c \in Channels, NEW cs \in Seq(Sendable)
    PROVE  Told(c, cs) \in Seq(TellLines)
<1> DEFINE x == Line(c, cs)
<1>1. x \in TellLines
  BY LineTells
<1>2. Told(c, cs) = IF cs = <<>> THEN <<>> ELSE <<x>>
  BY DEF Told
<1> HIDE DEF x
<1> QED BY <1>1, <1>2

\* A topic set is held.
LEMMA TopicHeld ==
    ASSUME NEW h \in HeldSet, NEW t \in Topics
    PROVE  /\ [h EXCEPT !.topic = t] = [modes |-> h.modes, topic |-> t, bans |-> h.bans]
           /\ [h EXCEPT !.topic = t] \in HeldSet
<1>1. /\ h = [modes |-> h.modes, topic |-> h.topic, bans |-> h.bans]
      /\ h.modes \in Kept /\ h.bans \in SUBSET {"n"}
  BY HeldIs
<1> DEFINE g == [h EXCEPT !.topic = t]
<1>2. g = [modes |-> h.modes, topic |-> t, bans |-> h.bans]
  BY <1>1
<1> HIDE DEF g
<1>3. g \in HeldSet
  BY <1>1, <1>2 DEF HeldSet
<1> QED BY <1>2, <1>3 DEF g

\* Each step keeps the server's types.
LEMMA ServerTypeStep == TypeInv /\ [Next]_vars => ServerType'
<1> SUFFICES ASSUME TypeInv, [Next]_vars PROVE ServerType'
  OBVIOUS
<1>0. /\ held \in [Channels -> HeldSet] /\ told \in [Channels -> BOOLEAN]
      /\ toClient \in Seq(TellLines)
  BY DEF TypeInv, ServerType
<1>00. \A a, b \in Seq(TellLines) : a \o b \in Seq(TellLines)
  OBVIOUS
<1>1. ASSUME UNCHANGED <<held, told, toClient>> PROVE ServerType'
  BY <1>0, <1>1 DEF ServerType
<1>2. CASE ServerReads
  <2> DEFINE m == Head(toServer)
             h == held[m.c]
             cs == Asked(m)
  <2>0. m \in AskLines /\ m.c \in Channels /\ h \in HeldSet
    BY <1>2, ServerReadIs
  <2>1. CASE m.what = "TOPIC"
    <3>1. /\ held' = [held EXCEPT ![m.c] = [h EXCEPT !.topic = m.text]]
          /\ toClient' = toClient \o <<m>> /\ told' = told
          /\ m.text \in Topics /\ m = Text(m.c, "TOPIC", m.text)
      BY <1>2, <2>1, ServerReadIs
    <3>2. m \in TellLines
      BY <2>0, <3>1, TopicAsks
    <3>3. [h EXCEPT !.topic = m.text] \in HeldSet
      BY <2>0, <3>1, TopicHeld
    <3>4. toClient' \in Seq(TellLines)
      <4> HIDE DEF m
      <4>1. <<m>> \in Seq(TellLines)
        BY <3>2
      <4> QED BY <1>0, <1>00, <3>1, <4>1
    <3> HIDE DEF m, h
    <3> QED BY <1>0, <2>0, <3>1, <3>3, <3>4 DEF ServerType
  <2>2. CASE m.what # "TOPIC"
    <3>1. /\ held' = [held EXCEPT ![m.c] = Served(h, cs).holds]
          /\ toClient' = toClient \o Answer(m.c, h, cs)
          /\ told' = [told EXCEPT ![m.c] = told[m.c] \/ cs = <<>>]
          /\ cs \in Seq(Sendable) \cup {<<Question>>}
      BY <1>2, <2>2, ServerReadIs
    <3> HIDE DEF m, h, cs
    <3>2. Served(h, cs).holds \in HeldSet /\ Answer(m.c, h, cs) \in Seq(TellLines)
      BY <2>0, <3>1, AnswerIs
    <3> QED BY <1>0, <1>00, <2>0, <3>1, <3>2 DEF ServerType
  <2> QED BY <2>1, <2>2
<1>3. CASE SomebodyChanges
  <2>1. PICK c \in Channels :
              /\ held[c] \in HeldSet
              /\ \/ \E sent \in Seq(Sendable) :
                       /\ held' = [held EXCEPT ![c] = Served(held[c], sent).holds]
                       /\ toClient' = toClient \o Told(c, Served(held[c], sent).done)
                 \/ \E text \in Topics :
                       /\ held' = [held EXCEPT ![c] = [held[c] EXCEPT !.topic = text]]
                       /\ toClient' = Append(toClient, Text(c, "TOPIC", text))
              /\ told' = told
    BY <1>3, SomebodyIs
  <2>2. CASE \E sent \in Seq(Sendable) :
                       /\ held' = [held EXCEPT ![c] = Served(held[c], sent).holds]
                       /\ toClient' = toClient \o Told(c, Served(held[c], sent).done)
    <3>1. PICK sent \in Seq(Sendable) :
                       /\ held' = [held EXCEPT ![c] = Served(held[c], sent).holds]
                       /\ toClient' = toClient \o Told(c, Served(held[c], sent).done)
      BY <2>2
    <3>2. Served(held[c], sent).holds \in HeldSet /\ Served(held[c], sent).done \in Seq(Sendable)
      BY <2>1, ServedIs
    <3>3. Told(c, Served(held[c], sent).done) \in Seq(TellLines)
      BY <3>2, ToldType
    <3> QED BY <1>0, <1>00, <2>1, <3>1, <3>2, <3>3 DEF ServerType
  <2>3. CASE \E text \in Topics :
                       /\ held' = [held EXCEPT ![c] = [held[c] EXCEPT !.topic = text]]
                       /\ toClient' = Append(toClient, Text(c, "TOPIC", text))
    <3>1. PICK text \in Topics :
                       /\ held' = [held EXCEPT ![c] = [held[c] EXCEPT !.topic = text]]
                       /\ toClient' = Append(toClient, Text(c, "TOPIC", text))
      BY <2>3
    <3>2. [held[c] EXCEPT !.topic = text] \in HeldSet /\ Text(c, "TOPIC", text) \in TellLines
      BY <2>1, TopicHeld, TopicAsks
    <3> QED BY <1>0, <2>1, <3>1, <3>2 DEF ServerType
  <2> QED BY <2>1, <2>2, <2>3
<1>4. CASE ClientReads
  <2>1. toClient' \in Seq(TellLines) /\ UNCHANGED <<held, told>>
    BY <1>4, ClientReadIs
  <2> QED BY <1>0, <2>1 DEF ServerType
<1>5. CASE Selects \/ Opens \/ Closes \/ PicksTab \/ Edits \/ Saves \/ Asks
  BY <1>1, <1>5 DEF Selects, Opens, Closes, PicksTab, Edits, Saves, Asks, server
<1>6. CASE UNCHANGED vars
  BY <1>1, <1>6 DEF vars
<1> QED BY <1>2, <1>3, <1>4, <1>5, <1>6 DEF Next

\* Each step keeps the types.
LEMMA TypeStep == TypeInv /\ [Next]_vars => TypeInv'
BY FormStep, ClientTypeStep, ServerTypeStep DEF TypeInv

\* These types are those of the model.
LEMMA TypeSuffices == TypeInv => TypeOK
<1> SUFFICES ASSUME TypeInv PROVE TypeOK
  OBVIOUS
<1>1. HeldSet \subseteq [modes : ModeStates, topic : Topics, bans : SUBSET {"n"}]
  BY DEF HeldSet, Kept
<1>2. held \in [Channels -> [modes : ModeStates, topic : Topics, bans : SUBSET {"n"}]]
  <2>1. held \in [Channels -> HeldSet]
    BY DEF TypeInv, ServerType
  <2> DEFINE S == [modes : ModeStates, topic : Topics, bans : SUBSET {"n"}]
  <2> HIDE DEF S
  <2>2. held \in [Channels -> S]
    BY <1>1, <2>1 DEF S
  <2> QED BY <2>2 DEF S
<1>3. ASSUME NEW c \in Channels
      PROVE  /\ known[c].modes \in ModeStates
             /\ known[c].topic \in Topics
             /\ known[c].bans \in Seq({"n"})
             /\ known[c].loading \in BOOLEAN
  <2>1. known[c] \in KnownSet
    BY DEF TypeInv, ClientType
  <2> QED BY <2>1, KnownIs DEF Kept
<1> QED BY <1>2, <1>3 DEF TypeOK, TypeInv, ClientType, FormInv

----------------------------------------------------------------------------
(* What is known of a channel, brought up to date by the lines under way,  *)
(* is what the server holds.                                               *)

\* What is known, `e`, of what is held.
Meets(e, h, whole) ==
    /\ e = [modes |-> e.modes, topic |-> e.topic]
    /\ e.modes \in Kept
    /\ e.topic = h.topic
    /\ Partial(e.modes, h.modes)
    /\ whole => e.modes = h.modes

SeenInv ==
    \A c \in Channels : \E e : /\ Comes("seen", c, View(known[c]), toClient, e)
                               /\ Meets(e, held[c], told[c])

\* A sequence of one.
LEMMA ComesSingle ==
    ASSUME NEW kind, NEW c, NEW base, NEW x
    PROVE  Comes(kind, c, base, <<x>>, Along(kind, c, base, x))
<1> DEFINE none == <<>>
<1>1. none \in Seq({x}) /\ Append(none, x) = <<x>>
  OBVIOUS
<1>2. Comes(kind, c, base, none, base)
  BY ComesNone
<1> HIDE DEF none
<1>3. Comes(kind, c, base, Append(none, x), Along(kind, c, base, x))
  BY <1>1, <1>2, ComesAppend
<1> QED BY <1>1, <1>3

\* All that there is is known in part.
LEMMA PartialSelf == ASSUME NEW g PROVE Partial(g, g)
BY DEF Partial

\* A topic sets the topic known, and held.
LEMMA SeenTopic ==
    ASSUME NEW c \in Channels, NEW h \in HeldSet, NEW t \in Topics, NEW e, NEW whole \in BOOLEAN,
           Meets(e, h, whole)
    PROVE  \E d : /\ Comes("seen", c, e, <<Text(c, "TOPIC", t)>>, d)
                  /\ Meets(d, [h EXCEPT !.topic = t], whole)
<1> DEFINE m == Text(c, "TOPIC", t)
           d == [e EXCEPT !.topic = t]
           g == [h EXCEPT !.topic = t]
<1>1. Along("seen", c, e, m) = d
  <2>1. Along("seen", c, e, m) = Seen(c, e, m)
    BY AlongIs
  <2>2. m.c = c /\ m.what = "TOPIC" /\ m.text = t
    BY DEF Text
  <2> HIDE DEF m
  <2> QED BY <2>1, <2>2 DEF Seen
<1>2. Comes("seen", c, e, <<m>>, d)
  <2>1. Comes("seen", c, e, <<m>>, Along("seen", c, e, m))
    BY ComesSingle
  <2> HIDE DEF m, d
  <2> QED BY <1>1, <2>1
<1>3. g = [modes |-> h.modes, topic |-> t, bans |-> h.bans]
  BY TopicHeld
<1>4. e = [modes |-> e.modes, topic |-> e.topic]
  BY DEF Meets
<1>5. d = [modes |-> e.modes, topic |-> t]
  BY <1>4
<1> HIDE DEF d, g, m
<1>6. Meets(d, g, whole)
  <2>1. d.modes = e.modes /\ d.topic = t /\ g.topic = t /\ g.modes = h.modes
    BY <1>3, <1>5
  <2>2. d = [modes |-> d.modes, topic |-> d.topic]
    BY <1>5, <2>1
  <2> QED BY <2>1, <2>2 DEF Meets
<1> QED BY <1>2, <1>6 DEF g, m

\* A line of changes.
LEMMA SeenModes ==
    ASSUME NEW c, NEW cs \in Seq(Sendable), NEW m, m \in {Line(c, cs), Whole(c, cs)},
           NEW e, e = [modes |-> e.modes, topic |-> e.topic]
    PROVE  Comes("seen", c, e, <<m>>, [modes |-> ApplyChannelModes(e.modes, cs), topic |-> e.topic])
<1> DEFINE v == ApplyChannelModes(e.modes, cs)
<1>1. m.c = c /\ m.what \in {"MODE", "324"} /\ Asked(m) = cs
  BY LineIs
<1>2. Along("seen", c, e, m) = Seen(c, e, m)
  BY AlongIs
<1>3. Seen(c, e, m) = [e EXCEPT !.modes = v]
  BY <1>1 DEF Seen, Asked
<1> HIDE DEF v
<1>4. [e EXCEPT !.modes = v] = [modes |-> v, topic |-> e.topic]
  OBVIOUS
<1>5. Comes("seen", c, e, <<m>>, Along("seen", c, e, m))
  BY ComesSingle
<1> DEFINE d == [modes |-> v, topic |-> e.topic]
<1>6. Along("seen", c, e, m) = d
  BY <1>2, <1>3, <1>4
<1> HIDE DEF d
<1>7. Comes("seen", c, e, <<m>>, d)
  BY <1>5, <1>6
<1> QED BY <1>7 DEF d, v

\* What is told of changes leaves the client with what they leave.
LEMMA SeenTold ==
    ASSUME NEW c \in Channels, NEW h \in HeldSet, NEW cs \in Seq(Sendable), NEW e,
           NEW whole \in BOOLEAN, Meets(e, h, whole)
    PROVE  \E d : /\ Comes("seen", c, e, Told(c, Served(h, cs).done), d)
                  /\ Meets(d, Served(h, cs).holds, whole)
<1> DEFINE done == Served(h, cs).done
           g == Served(h, cs).holds
           v == ApplyChannelModes(e.modes, done)
           d == [modes |-> v, topic |-> e.topic]
<1>0. e.modes \in Kept /\ Partial(e.modes, h.modes) /\ e.topic = h.topic
      /\ e = [modes |-> e.modes, topic |-> e.topic] /\ (whole => e.modes = h.modes)
  BY DEF Meets
<1>1. /\ g \in HeldSet /\ g.topic = h.topic /\ done \in Seq(Sendable)
      /\ g.modes = ApplyChannelModes(h.modes, done)
      /\ Partial(v, g.modes)
  BY <1>0, ServedIs
<1>2. v \in Kept
  BY <1>0, <1>1, AppliesKept
<1>3. Comes("seen", c, e, Told(c, done), d)
  <2>1. CASE done = <<>>
    <3>1. Told(c, done) = <<>>
      BY <2>1 DEF Told
    <3>2. v = e.modes
      BY <2>1, ApplyNone
    <3>3. d = e
      <4> HIDE DEF v
      <4> QED BY <1>0, <3>2
    <3>4. Comes("seen", c, e, <<>>, e)
      BY ComesNone
    <3> HIDE DEF d, done
    <3> QED BY <3>1, <3>3, <3>4
  <2>2. CASE done # <<>>
    <3> DEFINE m == Line(c, done)
    <3>1. Told(c, done) = <<m>>
      BY <2>2 DEF Told
    <3>2. Comes("seen", c, e, <<m>>, d)
      <4> HIDE DEF done
      <4>1. m \in {Line(c, done), Whole(c, done)}
        OBVIOUS
      <4> HIDE DEF m
      <4> QED BY <1>0, <1>1, <4>1, SeenModes
    <3> HIDE DEF m, d, done
    <3> QED BY <3>1, <3>2
  <2> QED BY <2>1, <2>2
<1>4. whole => v = g.modes
  BY <1>0, <1>1
<1> HIDE DEF v, g, done
<1>5. d.modes = v /\ d.topic = e.topic /\ d = [modes |-> d.modes, topic |-> d.topic]
  OBVIOUS
<1> HIDE DEF d
<1>6. Meets(d, g, whole)
  BY <1>0, <1>1, <1>2, <1>4, <1>5 DEF Meets
<1> QED BY <1>3, <1>6 DEF g, done

\* Whatever is answered to a line, it leaves the client with what is held.
LEMMA SeenAnswer ==
    ASSUME NEW c \in Channels, NEW h \in HeldSet, NEW cs \in Seq(Sendable) \cup {<<Question>>},
           NEW e, NEW whole \in BOOLEAN, Meets(e, h, whole)
    PROVE  \E d : /\ Comes("seen", c, e, Answer(c, h, cs), d)
                  /\ Meets(d, Served(h, cs).holds, whole \/ cs = <<>>)
<1>0. e.modes \in Kept /\ Partial(e.modes, h.modes) /\ e.topic = h.topic
      /\ e = [modes |-> e.modes, topic |-> e.topic]
  BY DEF Meets
<1>1. CASE cs = <<>>
  <2> DEFINE all == All(h)
             w == Whole(c, all)
             d == [modes |-> ApplyChannelModes(e.modes, all), topic |-> e.topic]
  <2>1. all \in Seq(Sendable) /\ ApplyChannelModes(e.modes, all) = h.modes
    BY <1>0, AllTells
  <2>2. Answer(c, h, cs) = <<w>>
    BY <1>1, AnswerIs
  <2>3. Comes("seen", c, e, <<w>>, d)
    <3> HIDE DEF all
    <3>1. w \in {Line(c, all), Whole(c, all)}
      OBVIOUS
    <3> HIDE DEF w
    <3> QED BY <1>0, <2>1, <3>1, SeenModes
  <2>4. Served(h, cs).holds = h
    <3>1. Served(h, <<>>) = [holds |-> h, done |-> <<>>]
      BY ServedNone
    <3> QED BY <1>1, <3>1
  <2>5. d = [modes |-> h.modes, topic |-> e.topic]
    BY <2>1
  <2> HIDE DEF d, w
  <2>6. d.modes = h.modes /\ d.topic = e.topic /\ d = [modes |-> d.modes, topic |-> d.topic]
    BY <2>5
  <2>7. Meets(d, h, TRUE)
    BY <1>0, <2>6, HeldIs, PartialSelf DEF Meets
  <2> QED BY <1>1, <2>2, <2>3, <2>4, <2>7 DEF Meets
<1>2. CASE cs = <<Question>>
  <2> DEFINE x == Text(c, "367", "n")
             y == Text(c, "368", "")
             bans == BansOf(c, h)
  <2>1. Answer(c, h, cs) = bans
    BY <1>2, AnswerIs
  <2>2. bans = IF h.bans = {} THEN <<y>> ELSE <<x, y>>
    BY BansAre
  <2>3. Along("seen", c, e, x) = e /\ Along("seen", c, e, y) = e
    <3>1. Along("seen", c, e, x) = Seen(c, e, x) /\ Along("seen", c, e, y) = Seen(c, e, y)
      BY AlongIs
    <3>2. x.what = "367" /\ y.what = "368"
      BY DEF Text
    <3> HIDE DEF x, y
    <3> QED BY <3>1, <3>2 DEF Seen
  <2> HIDE DEF x, y, bans
  <2>4. bans \in Seq({x, y}) /\ \A i \in 1..Len(bans) : bans[i] \in {x, y}
    <3>1. CASE h.bans = {}
      <4>1. bans = <<y>>
        BY <2>2, <3>1
      <4> QED BY <4>1
    <3>2. CASE h.bans # {}
      <4>1. bans = <<x, y>>
        BY <2>2, <3>2
      <4>2. bans \in Seq({x, y})
        BY <4>1
      <4> QED BY <4>2
    <3> QED BY <3>1, <3>2
  <2>5. \A i \in 1..Len(bans) : Along("seen", c, e, bans[i]) = e
    BY <2>3, <2>4
  <2>6. Comes("seen", c, e, bans, e)
    BY <2>4, <2>5, ComesSame
  <2>7. Served(h, cs).holds = h
    <3>1. Served(h, <<Question>>) = [holds |-> h, done |-> <<>>]
      BY ServedQuestion
    <3> QED BY <1>2, <3>1
  <2>8. cs # <<>>
    <3>1. Len(cs) = 1
      BY <1>2
    <3> QED BY <3>1
  <2> QED BY <2>1, <2>6, <2>7, <2>8
<1>3. CASE cs \in Seq(Sendable) /\ cs \notin {<<>>, <<Question>>}
  <2>1. Answer(c, h, cs) = Told(c, Served(h, cs).done)
    BY <1>3, AnswerIs
  <2>2. PICK d : /\ Comes("seen", c, e, Told(c, Served(h, cs).done), d)
                 /\ Meets(d, Served(h, cs).holds, whole)
    BY <1>3, SeenTold
  <2> QED BY <1>3, <2>1, <2>2
<1> QED BY <1>1, <1>2, <1>3

\* Lines of another channel.
LEMMA SeenOther ==
    ASSUME NEW c, NEW base, NEW S, NEW lines \in Seq(S), \A i \in 1..Len(lines) : lines[i].c # c
    PROVE  Comes("seen", c, base, lines, base)
<1>1. \A i \in 1..Len(lines) : Along("seen", c, base, lines[i]) = base
  BY AlongIs DEF Seen
<1> QED BY <1>1, ComesSame

\* An answer is about its channel.
LEMMA AnswerOf ==
    ASSUME NEW c \in Channels, NEW h \in HeldSet, NEW cs \in Seq(Sendable) \cup {<<Question>>}
    PROVE  \A i \in 1..Len(Answer(c, h, cs)) : Answer(c, h, cs)[i].c = c
<1>1. CASE cs = <<>>
  <2> DEFINE w == Whole(c, All(h))
  <2>1. Answer(c, h, cs) = <<w>> /\ w.c = c
    BY <1>1, AnswerIs DEF Whole
  <2> HIDE DEF w
  <2> QED BY <2>1
<1>2. CASE cs = <<Question>>
  <2> DEFINE x == Text(c, "367", "n")
             y == Text(c, "368", "")
  <2>1. Answer(c, h, cs) = IF h.bans = {} THEN <<y>> ELSE <<x, y>>
    <3>1. Answer(c, h, cs) = BansOf(c, h)
      BY <1>2, AnswerIs
    <3>2. BansOf(c, h) = IF h.bans = {} THEN <<y>> ELSE <<x, y>>
      BY BansAre
    <3> HIDE DEF x, y
    <3> QED BY <3>1, <3>2
  <2>2. x.c = c /\ y.c = c
    BY DEF Text
  <2> HIDE DEF x, y
  <2> QED BY <2>1, <2>2
<1>3. CASE cs \notin {<<>>, <<Question>>}
  <2> DEFINE w == Line(c, Served(h, cs).done)
  <2>1. Answer(c, h, cs) = IF Served(h, cs).done = <<>> THEN <<>> ELSE <<w>>
    BY <1>3, AnswerIs DEF Told
  <2>2. w.c = c
    BY DEF Line
  <2> HIDE DEF w
  <2> QED BY <2>1, <2>2
<1> QED BY <1>1, <1>2, <1>3

\* What is told of changes is about their channel.
LEMMA ToldOf ==
    ASSUME NEW c, NEW cs \in Seq(Sendable)
    PROVE  \A i \in 1..Len(Told(c, cs)) : Told(c, cs)[i].c = c
<1> DEFINE w == Line(c, cs)
<1>1. Told(c, cs) = IF cs = <<>> THEN <<>> ELSE <<w>>
  BY DEF Told
<1>2. w.c = c
  BY DEF Line
<1> HIDE DEF w
<1> QED BY <1>1, <1>2

\* What is known at first.
LEMMA SeenInit == Init => SeenInv
<1> SUFFICES ASSUME Init, NEW c \in Channels
             PROVE  \E e : /\ Comes("seen", c, View(known[c]), toClient, e)
                           /\ Meets(e, held[c], told[c])
  BY DEF SeenInv
<1>1. TypeInv
  BY TypeInit
<1>2. held[c] \in HeldSet /\ told[c] \in BOOLEAN /\ toClient = <<>>
  BY <1>1 DEF TypeInv, ServerType, Init
<1> DEFINE v == IF told[c] THEN held[c].modes ELSE NoModes
           e == [modes |-> v, topic |-> held[c].topic]
<1>3. View(known[c]) = e
  BY DEF Init, View
<1>4. Comes("seen", c, e, <<>>, e)
  BY ComesNone
<1>5. v \in Kept /\ Partial(v, held[c].modes) /\ (told[c] => v = held[c].modes)
  <2>1. held[c].modes \in Kept /\ NoModes \in Kept
    BY <1>2, HeldIs, NoModesKept
  <2>2. Partial(NoModes, held[c].modes)
    BY DEF Partial, NoModes
  <2> QED BY <2>1, <2>2, PartialSelf
<1> HIDE DEF v
<1>6. e.modes = v /\ e.topic = held[c].topic /\ e = [modes |-> e.modes, topic |-> e.topic]
  OBVIOUS
<1> HIDE DEF e
<1>7. Meets(e, held[c], told[c])
  BY <1>5, <1>6 DEF Meets
<1> QED BY <1>2, <1>3, <1>4, <1>7

\* What a step that leaves what is told and known of a channel leaves.
LEMMA SeenSame ==
    ASSUME SeenInv, UNCHANGED <<held, told, toClient, known>>
    PROVE  SeenInv'
BY DEF SeenInv

\* The client takes the first of the lines.
LEMMA SeenClientReads == TypeInv /\ SeenInv /\ ClientReads => SeenInv'
<1> SUFFICES ASSUME TypeInv, SeenInv, ClientReads, NEW c \in Channels
             PROVE  \E e : /\ Comes("seen", c, View(known'[c]), toClient', e)
                           /\ Meets(e, held'[c], told'[c])
  BY DEF SeenInv
<1> DEFINE m == Head(toClient)
           k == [known EXCEPT ![m.c] = New(known[m.c], m)]
<1>1. /\ toClient # <<>> /\ m \in TellLines /\ m.c \in Channels
      /\ toClient' = Tail(toClient)
      /\ Show(k, selected, shell, m.c = selected /\ m.what \in {"MODE", "324"}, <<>>)
      /\ UNCHANGED <<held, told>>
  BY ClientReadIs
<1>2. known' = k
  BY <1>1 DEF Show
<1>3. known \in [Channels -> KnownSet] /\ toClient \in Seq(TellLines)
  BY DEF TypeInv, ClientType, ServerType
<1>4. View(known'[c]) = Along("seen", c, View(known[c]), m)
  <2>1. Along("seen", c, View(known[c]), m) = Seen(c, View(known[c]), m)
    BY AlongIs
  <2>2. CASE m.c = c
    <3>1. known'[c] = New(known[c], m)
      BY <1>2, <1>3, <2>2
    <3>2. View(New(known[c], m)) = Seen(m.c, View(known[c]), m)
      BY <1>1, <1>3, NewIs
    <3> QED BY <2>1, <2>2, <3>1, <3>2
  <2>3. CASE m.c # c
    <3>1. known'[c] = known[c]
      BY <1>2, <1>3, <2>3
    <3>2. Seen(c, View(known[c]), m) = View(known[c])
      BY <2>3 DEF Seen
    <3> QED BY <2>1, <3>1, <3>2
  <2> QED BY <2>2, <2>3
<1>5. PICK e : Comes("seen", c, View(known[c]), toClient, e) /\ Meets(e, held[c], told[c])
  BY DEF SeenInv
<1>6. Comes("seen", c, Along("seen", c, View(known[c]), m), Tail(toClient), e)
  BY <1>1, <1>3, <1>5, ComesOn
<1> QED BY <1>1, <1>4, <1>5, <1>6

\* What is sent at the end of the line.
LEMMA SeenSent ==
    ASSUME TypeInv, NEW lines \in Seq(TellLines), NEW c, NEW base, NEW e, NEW d,
           Comes("seen", c, base, toClient, e), Comes("seen", c, e, lines, d)
    PROVE  Comes("seen", c, base, toClient \o lines, d)
<1>1. toClient \in Seq(TellLines)
  BY DEF TypeInv, ServerType
<1> QED BY <1>1, ComesThen

\* The server adds its answer to them.
LEMMA SeenServerReads == TypeInv /\ SeenInv /\ ServerReads => SeenInv'
<1> SUFFICES ASSUME TypeInv, SeenInv, ServerReads, NEW c \in Channels
             PROVE  \E e : /\ Comes("seen", c, View(known'[c]), toClient', e)
                           /\ Meets(e, held'[c], told'[c])
  BY DEF SeenInv
<1> DEFINE m == Head(toServer)
           h == held[m.c]
           cs == Asked(m)
           base == View(known[c])
<1>1. m \in AskLines /\ m.c \in Channels /\ h \in HeldSet /\ known' = known
  BY ServerReadIs
<1>2. held \in [Channels -> HeldSet] /\ told \in [Channels -> BOOLEAN]
  BY DEF TypeInv, ServerType
<1>3. PICK e : Comes("seen", c, base, toClient, e) /\ Meets(e, held[c], told[c])
  BY DEF SeenInv
<1>9. base = View(known'[c])
  <2>1. known'[c] = known[c]
    BY <1>1
  <2> QED BY <2>1
<1> SUFFICES \E d : Comes("seen", c, base, toClient', d) /\ Meets(d, held'[c], told'[c])
  <2> HIDE DEF base, m, h, cs
  <2> QED BY <1>9
<1>4. CASE m.what = "TOPIC"
  <2>1. /\ m.text \in Topics /\ m = Text(m.c, "TOPIC", m.text)
        /\ held' = [held EXCEPT ![m.c] = [h EXCEPT !.topic = m.text]]
        /\ toClient' = toClient \o <<m>> /\ told' = told
    BY <1>4, ServerReadIs
  <2>2. <<m>> \in Seq(TellLines)
    <3>1. m \in TellLines
      BY <1>1, <2>1, TopicAsks
    <3> HIDE DEF m
    <3> QED BY <3>1
  <2> HIDE DEF m, h, base
  <2>3. CASE m.c = c
    <3>0. told[c] \in BOOLEAN /\ held[c] \in HeldSet /\ m.text \in Topics
      BY <1>2, <2>1
    <3>1. PICK d : /\ Comes("seen", c, e, <<Text(c, "TOPIC", m.text)>>, d)
                   /\ Meets(d, [held[c] EXCEPT !.topic = m.text], told[c])
      <4>1. Meets(e, held[c], told[c])
        BY <1>3
      <4> DEFINE t == m.text
      <4>2. t \in Topics
        BY <3>0
      <4> HIDE DEF t
      <4>3. \E d : /\ Comes("seen", c, e, <<Text(c, "TOPIC", t)>>, d)
                   /\ Meets(d, [held[c] EXCEPT !.topic = t], told[c])
        BY <3>0, <4>1, <4>2, SeenTopic
      <4> QED BY <4>3 DEF t
    <3>2. <<Text(c, "TOPIC", m.text)>> = <<m>>
      BY <2>1, <2>3
    <3>3. Comes("seen", c, base, toClient', d)
      BY <1>3, <2>1, <2>2, <3>1, <3>2, SeenSent
    <3>4. held'[c] = [held[c] EXCEPT !.topic = m.text]
      BY <1>2, <2>1, <2>3 DEF h
    <3> QED BY <2>1, <3>1, <3>3, <3>4
  <2>4. CASE m.c # c
    <3>1. \A i \in 1..Len(<<m>>) : <<m>>[i].c # c
      BY <2>4
    <3>2. Comes("seen", c, e, <<m>>, e)
      BY <2>2, <3>1, SeenOther
    <3>3. Comes("seen", c, base, toClient', e)
      BY <1>3, <2>1, <2>2, <3>2, SeenSent
    <3>4. held'[c] = held[c]
      BY <1>2, <2>1, <2>4
    <3> QED BY <1>3, <2>1, <3>3, <3>4
  <2> QED BY <2>3, <2>4
<1>5. CASE m.what # "TOPIC"
  <2>1. /\ cs \in Seq(Sendable) \cup {<<Question>>}
        /\ held' = [held EXCEPT ![m.c] = Served(h, cs).holds]
        /\ toClient' = toClient \o Answer(m.c, h, cs)
        /\ told' = [told EXCEPT ![m.c] = told[m.c] \/ cs = <<>>]
    BY <1>5, ServerReadIs
  <2> HIDE DEF m, h, cs, base
  <2>2. Answer(m.c, h, cs) \in Seq(TellLines)
    BY <1>1, <2>1, AnswerIs
  <2>3. CASE m.c = c
    <3>0. told[c] \in BOOLEAN /\ h = held[c]
      BY <1>2, <2>3 DEF h
    <3>1. PICK d : /\ Comes("seen", c, e, Answer(c, h, cs), d)
                   /\ Meets(d, Served(h, cs).holds, told[c] \/ cs = <<>>)
      BY <1>1, <1>3, <2>1, <3>0, SeenAnswer
    <3>2. Comes("seen", c, base, toClient', d)
      BY <1>3, <2>1, <2>2, <2>3, <3>1, SeenSent
    <3>3. held'[c] = Served(h, cs).holds /\ told'[c] = (told[c] \/ cs = <<>>)
      BY <1>2, <2>1, <2>3
    <3> QED BY <3>1, <3>2, <3>3
  <2>4. CASE m.c # c
    <3>1. \A i \in 1..Len(Answer(m.c, h, cs)) : Answer(m.c, h, cs)[i].c = m.c
      BY <1>1, <2>1, AnswerOf
    <3>2. Comes("seen", c, e, Answer(m.c, h, cs), e)
      BY <2>2, <2>4, <3>1, SeenOther
    <3>3. Comes("seen", c, base, toClient', e)
      BY <1>3, <2>1, <2>2, <3>2, SeenSent
    <3>4. held'[c] = held[c] /\ told'[c] = told[c]
      BY <1>2, <2>1, <2>4
    <3> QED BY <1>3, <3>3, <3>4
  <2> QED BY <2>3, <2>4
<1> QED BY <1>4, <1>5

\* It adds what somebody changed.
LEMMA SeenSomebody == TypeInv /\ SeenInv /\ SomebodyChanges => SeenInv'
<1> SUFFICES ASSUME TypeInv, SeenInv, SomebodyChanges, NEW c \in Channels
             PROVE  \E e : /\ Comes("seen", c, View(known'[c]), toClient', e)
                           /\ Meets(e, held'[c], told'[c])
  BY DEF SeenInv
<1> DEFINE base == View(known[c])
<1>1. PICK b \in Channels :
              /\ held[b] \in HeldSet
              /\ \/ \E sent \in Seq(Sendable) :
                       /\ held' = [held EXCEPT ![b] = Served(held[b], sent).holds]
                       /\ toClient' = toClient \o Told(b, Served(held[b], sent).done)
                 \/ \E text \in Topics :
                       /\ held' = [held EXCEPT ![b] = [held[b] EXCEPT !.topic = text]]
                       /\ toClient' = Append(toClient, Text(b, "TOPIC", text))
              /\ UNCHANGED <<known, told>>
  BY SomebodyIs
<1>2. held \in [Channels -> HeldSet] /\ told \in [Channels -> BOOLEAN] /\ toClient \in Seq(TellLines)
  BY DEF TypeInv, ServerType
<1>3. PICK e : Comes("seen", c, base, toClient, e) /\ Meets(e, held[c], told[c])
  BY DEF SeenInv
<1>4. told[c] \in BOOLEAN /\ held[c] \in HeldSet
  BY <1>2
<1> SUFFICES \E d : Comes("seen", c, base, toClient', d) /\ Meets(d, held'[c], told[c])
  BY <1>1
<1>5. CASE \E sent \in Seq(Sendable) :
              /\ held' = [held EXCEPT ![b] = Served(held[b], sent).holds]
              /\ toClient' = toClient \o Told(b, Served(held[b], sent).done)
  <2>1. PICK sent \in Seq(Sendable) :
              /\ held' = [held EXCEPT ![b] = Served(held[b], sent).holds]
              /\ toClient' = toClient \o Told(b, Served(held[b], sent).done)
    BY <1>5
  <2> DEFINE done == Served(held[b], sent).done
  <2>2. done \in Seq(Sendable)
    BY <1>1, ServedIs
  <2>3. Told(b, done) \in Seq(TellLines) /\ \A i \in 1..Len(Told(b, done)) : Told(b, done)[i].c = b
    <3> HIDE DEF done
    <3> QED BY <2>2, ToldType, ToldOf
  <2>4. CASE b = c
    <3>1. PICK d : /\ Comes("seen", c, e, Told(c, Served(held[c], sent).done), d)
                   /\ Meets(d, Served(held[c], sent).holds, told[c])
      BY <1>3, <1>4, SeenTold
    <3> HIDE DEF base
    <3>2. Comes("seen", c, base, toClient', d)
      BY <1>3, <2>1, <2>3, <2>4, <3>1, SeenSent
    <3>3. held'[c] = Served(held[c], sent).holds
      BY <1>2, <2>1, <2>4
    <3> QED BY <3>1, <3>2, <3>3
  <2>5. CASE b # c
    <3> DEFINE lines == Told(b, done)
    <3>1. lines \in Seq(TellLines) /\ \A i \in 1..Len(lines) : lines[i].c # c
      BY <2>3, <2>5
    <3>2. toClient' = toClient \o lines
      BY <2>1
    <3> HIDE DEF lines, base
    <3>3. Comes("seen", c, e, lines, e)
      BY <3>1, SeenOther
    <3>4. Comes("seen", c, base, toClient', e)
      BY <1>3, <3>1, <3>2, <3>3, SeenSent
    <3>5. held'[c] = held[c]
      BY <1>2, <2>1, <2>5
    <3> QED BY <1>3, <3>4, <3>5
  <2> QED BY <2>4, <2>5
<1>6. CASE \E text \in Topics :
              /\ held' = [held EXCEPT ![b] = [held[b] EXCEPT !.topic = text]]
              /\ toClient' = Append(toClient, Text(b, "TOPIC", text))
  <2>1. PICK text \in Topics :
              /\ held' = [held EXCEPT ![b] = [held[b] EXCEPT !.topic = text]]
              /\ toClient' = Append(toClient, Text(b, "TOPIC", text))
    BY <1>6
  <2> DEFINE m == Text(b, "TOPIC", text)
  <2>2. m \in TellLines /\ m.c = b
    BY TopicAsks DEF Text
  <2> HIDE DEF m, base
  <2>3. <<m>> \in Seq(TellLines) /\ toClient' = toClient \o <<m>>
    BY <1>2, <2>1, <2>2 DEF m
  <2>4. CASE b = c
    <3>1. PICK d : /\ Comes("seen", c, e, <<Text(c, "TOPIC", text)>>, d)
                   /\ Meets(d, [held[c] EXCEPT !.topic = text], told[c])
      BY <1>3, <1>4, SeenTopic
    <3>2. <<Text(c, "TOPIC", text)>> = <<m>>
      BY <2>4 DEF m
    <3>3. Comes("seen", c, base, toClient', d)
      BY <1>3, <2>3, <3>1, <3>2, SeenSent
    <3>4. held'[c] = [held[c] EXCEPT !.topic = text]
      BY <1>2, <2>1, <2>4
    <3> QED BY <3>1, <3>3, <3>4
  <2>5. CASE b # c
    <3>1. \A i \in 1..Len(<<m>>) : <<m>>[i].c # c
      BY <2>2, <2>5
    <3>2. Comes("seen", c, e, <<m>>, e)
      BY <2>3, <3>1, SeenOther
    <3>3. Comes("seen", c, base, toClient', e)
      BY <1>3, <2>3, <3>2, SeenSent
    <3>4. held'[c] = held[c]
      BY <1>2, <2>1, <2>5
    <3> QED BY <1>3, <3>3, <3>4
  <2> QED BY <2>4, <2>5
<1> QED BY <1>1, <1>5, <1>6

\* Each step keeps what is known with what is held.
LEMMA SeenStep == TypeInv /\ SeenInv /\ [Next]_vars => SeenInv'
<1> SUFFICES ASSUME TypeInv, SeenInv, [Next]_vars PROVE SeenInv'
  OBVIOUS
<1>1. CASE Selects \/ Opens \/ Closes \/ PicksTab \/ Edits \/ Saves \/ Asks
  <2>1. UNCHANGED <<held, told, toClient, known>>
    BY <1>1 DEF Selects, Opens, Closes, PicksTab, Edits, Saves, Asks, server, ShowShell, Show
  <2> QED BY <2>1, SeenSame
<1>2. CASE UNCHANGED vars
  BY <1>2, SeenSame DEF vars
<1> QED BY <1>1, <1>2, SeenClientReads, SeenServerReads, SeenSomebody DEF Next

\* With no lines under way, what is known is what is held.
LEMMA SeenSuffices == TypeInv /\ SeenInv => KnownHolds
<1> SUFFICES ASSUME TypeInv, SeenInv, NEW c \in Channels, Idle(c)
             PROVE  /\ known[c].topic = held[c].topic
                    /\ known[c].modes.flags \subseteq held[c].modes.flags
                    /\ \A mode \in known[c].modes.flags \cap {"k", "l"} :
                          known[c].modes.params[mode] = held[c].modes.params[mode]
                    /\ told[c] => known[c].modes = held[c].modes
  BY DEF KnownHolds
<1>1. PICK e : Comes("seen", c, View(known[c]), toClient, e) /\ Meets(e, held[c], told[c])
  BY DEF SeenInv
<1>2. toClient \in Seq(TellLines) /\ \A i \in 1..Len(toClient) : toClient[i].c # c
  BY DEF TypeInv, ServerType, Idle
<1>3. e = View(known[c])
  <2>1. Comes("seen", c, View(known[c]), toClient, View(known[c]))
    BY <1>2, SeenOther
  <2> QED BY <1>1, <1>2, <2>1, ComesOne
<1>4. e.modes = known[c].modes /\ e.topic = known[c].topic
  BY <1>3 DEF View
<1>5. \A mode \in e.modes.flags \cap {"k", "l"} : e.modes.params[mode] = held[c].modes.params[mode]
  <2>1. "k" \in e.modes.flags => e.modes.params["k"] = held[c].modes.params["k"]
    BY <1>1 DEF Meets, Partial
  <2>2. "l" \in e.modes.flags => e.modes.params["l"] = held[c].modes.params["l"]
    BY <1>1 DEF Meets, Partial
  <2> QED BY <2>1, <2>2
<1> QED BY <1>1, <1>4, <1>5 DEF Meets, Partial

----------------------------------------------------------------------------
(* What was saved, and the lines under way to the server.                  *)

\* The lines lead to what is wanted.
Wants(c, w, base, lines) ==
    \E e \in HeldSet : /\ Comes("holds", c, base, lines, e)
                       /\ SettingsFrom(e.modes) = w.form
                       /\ e.topic = w.topic

SavedInv ==
    /\ wanted = [c \in Channels |-> wanted[c]]
    /\ \A c \in Channels : wanted[c] # Nothing => Wants(c, wanted[c], held[c], toServer)

\* The lines leave the modes and the topic of a channel.
LeavesAlone(c, lines) ==
    \A e \in HeldSet : \E d \in HeldSet :
        Comes("holds", c, e, lines, d) /\ d.modes = e.modes /\ d.topic = e.topic

\* Quiet lines leave what is wanted.
LEMMA Quietly ==
    ASSUME NEW c, NEW w, NEW base, NEW s \in Seq(AskLines), NEW lines \in Seq(AskLines),
           Wants(c, w, base, s), LeavesAlone(c, lines)
    PROVE  Wants(c, w, base, s \o lines)
<1>1. PICK e \in HeldSet : /\ Comes("holds", c, base, s, e)
                           /\ SettingsFrom(e.modes) = w.form /\ e.topic = w.topic
  BY DEF Wants
<1>2. PICK d \in HeldSet : Comes("holds", c, e, lines, d) /\ d.modes = e.modes /\ d.topic = e.topic
  BY DEF LeavesAlone
<1>3. Comes("holds", c, base, s \o lines, d)
  BY <1>1, <1>2, ComesThen
<1>4. SettingsFrom(d.modes) = w.form /\ d.topic = w.topic
  BY <1>1, <1>2
<1> QED BY <1>3, <1>4 DEF Wants

\* Lines to another channel,
LEMMA HoldsOther ==
    ASSUME NEW c, NEW base, NEW S, NEW lines \in Seq(S), \A i \in 1..Len(lines) : lines[i].c # c
    PROVE  Comes("holds", c, base, lines, base)
<1>1. \A i \in 1..Len(lines) : Along("holds", c, base, lines[i]) = base
  BY AlongIs DEF Holds
<1> QED BY <1>1, ComesSame

\* are quiet,
LEMMA QuietOther ==
    ASSUME NEW c, NEW S, NEW lines \in Seq(S), \A i \in 1..Len(lines) : lines[i].c # c
    PROVE  LeavesAlone(c, lines)
BY HoldsOther DEF LeavesAlone

\* and so are none.
LEMMA QuietNone == ASSUME NEW c PROVE LeavesAlone(c, <<>>)
BY ComesNone DEF LeavesAlone

\* A line of changes,
LEMMA HoldsLine ==
    ASSUME NEW c, NEW h, NEW cs \in Seq(Sendable) \cup {<<Question>>}
    PROVE  Comes("holds", c, h, <<Line(c, cs)>>, Served(h, cs).holds)
<1> DEFINE m == Line(c, cs)
<1>1. m.c = c /\ m.what = "MODE" /\ Asked(m) = cs
  BY LineIs
<1>2. Along("holds", c, h, m) = Holds(c, h, m)
  BY AlongIs
<1> HIDE DEF m
<1>3. Holds(c, h, m) = Served(h, cs).holds
  BY <1>1 DEF Holds, Asked
<1>4. Comes("holds", c, h, <<m>>, Along("holds", c, h, m))
  BY ComesSingle
<1> QED BY <1>2, <1>3, <1>4 DEF m

\* and one of a topic.
LEMMA HoldsTopic ==
    ASSUME NEW c, NEW h, NEW t
    PROVE  Comes("holds", c, h, <<Text(c, "TOPIC", t)>>, [h EXCEPT !.topic = t])
<1> DEFINE m == Text(c, "TOPIC", t)
           g == [h EXCEPT !.topic = t]
<1>1. m.c = c /\ m.what = "TOPIC" /\ m.text = t
  BY DEF Text
<1>2. Along("holds", c, h, m) = Holds(c, h, m)
  BY AlongIs
<1> HIDE DEF m
<1>3. Holds(c, h, m) = g
  BY <1>1 DEF Holds
<1> HIDE DEF g
<1>4. Comes("holds", c, h, <<m>>, Along("holds", c, h, m))
  BY ComesSingle
<1>5. Comes("holds", c, h, <<m>>, g)
  BY <1>2, <1>3, <1>4
<1> QED BY <1>5 DEF m, g

\* A question, a change of the ban table, or a line to another channel.
LEMMA QuietLine ==
    ASSUME NEW c, NEW b, NEW cs \in Seq(Sendable) \cup {<<Question>>},
           cs \in {<<>>, <<Question>>} \/ \E x \in Sendable : x.mode = "b" /\ cs = <<x>>
    PROVE  LeavesAlone(c, <<Line(b, cs)>>)
<1> SUFFICES ASSUME NEW e \in HeldSet
             PROVE  \E d \in HeldSet : /\ Comes("holds", c, e, <<Line(b, cs)>>, d)
                                       /\ d.modes = e.modes /\ d.topic = e.topic
  BY DEF LeavesAlone
<1>1. CASE b # c
  <2> DEFINE m == Line(b, cs)
  <2>1. m.c = b
    BY DEF Line
  <2> HIDE DEF m
  <2>2. <<m>> \in Seq({m}) /\ \A i \in 1..Len(<<m>>) : <<m>>[i].c # c
    BY <1>1, <2>1
  <2>3. Comes("holds", c, e, <<m>>, e)
    BY <2>2, HoldsOther
  <2> QED BY <2>3 DEF m
<1>2. CASE b = c
  <2>1. Comes("holds", c, e, <<Line(b, cs)>>, Served(e, cs).holds)
    BY <1>2, HoldsLine
  <2>2. CASE cs = <<>>
    <3>1. Served(e, <<>>) = [holds |-> e, done |-> <<>>]
      BY ServedNone
    <3>2. Served(e, cs).holds = e
      BY <2>2, <3>1
    <3> QED BY <2>1, <3>2
  <2>3. CASE cs = <<Question>>
    <3>1. Served(e, <<Question>>) = [holds |-> e, done |-> <<>>]
      BY ServedQuestion
    <3>2. Served(e, cs).holds = e
      BY <2>3, <3>1
    <3> QED BY <2>1, <3>2
  <2>4. CASE \E x \in Sendable : x.mode = "b" /\ cs = <<x>>
    <3>1. PICK x \in Sendable : x.mode = "b" /\ cs = <<x>>
      BY <2>4
    <3> DEFINE none == <<>>
               before == Served(e, none)
               after == Served(e, cs)
    <3>2. before = [holds |-> e, done |-> <<>>]
      BY ServedNone
    <3>3. none \in Seq(Sendable) /\ cs = Append(none, x)
      BY <3>1
    <3> HIDE DEF none
    <3>4. after = ServesOne(before, x)
      <4>1. Served(e, Append(none, x)) = ServesOne(Served(e, none), x)
        BY <3>3, ServedAppend
      <4>2. cs = Append(none, x)
        BY <3>3
      <4> QED BY <4>1, <4>2, Zenon
    <3> HIDE DEF before, after
    <3>5. before.holds = e
      BY <3>2
    <3>6. CASE Takes(e, x)
      <4>1. after.holds = Made(e, x)
        BY <3>4, <3>5, <3>6 DEF ServesOne
      <4>2. Made(e, x) \in HeldSet /\ Made(e, x).topic = e.topic
            /\ Made(e, x).modes = ApplyChange(e.modes, x)
        BY <3>6, MadeIs
      <4>3. ApplyChange(e.modes, x) = e.modes
        BY <3>1, HeldIs, ApplyIs
      <4> QED BY <2>1, <4>1, <4>2, <4>3 DEF after
    <3>7. CASE ~Takes(e, x)
      <4>1. after.holds = e
        BY <3>4, <3>5, <3>7 DEF ServesOne
      <4> QED BY <2>1, <4>1 DEF after
    <3> QED BY <3>6, <3>7
  <2> QED BY <2>2, <2>3, <2>4
<1> QED BY <1>1, <1>2

\* Rendering asks at most.
LEMMA WantsAfter ==
    ASSUME TypeInv, NEW c, NEW w, NEW base,
           NEW k, NEW s \in Channels \cup {Unselected}, NEW sh \in ShellSet, NEW replaces,
           NEW lines \in Seq(AskLines),
           Show(k, s, sh, replaces, lines), Wants(c, w, base, toServer \o lines)
    PROVE  Wants(c, w, base, toServer')
<1>1. FormInv /\ (panel # Unmounted => panel.requested \in BOOLEAN) /\ toServer \in Seq(AskLines)
  BY DEF TypeInv, ClientType
<1>2. \E asks \in BOOLEAN : Sends(s, lines, asks) /\ (asks => s \in Channels)
  BY <1>1, ShowIs, Zenon
<1>3. PICK asks \in BOOLEAN : Sends(s, lines, asks) /\ (asks => s \in Channels)
  BY <1>2
<1> DEFINE x == Question_Line(s)
           q == IF asks THEN <<x>> ELSE <<>>
<1>4. toServer' = (toServer \o lines) \o q
  BY <1>3 DEF Sends
<1>5. q \in Seq(AskLines) /\ toServer \o lines \in Seq(AskLines)
  <2>1. asks => x \in AskLines
    BY <1>3, QuestionAsks
  <2> HIDE DEF x
  <2> QED BY <1>1, <2>1
<1>6. LeavesAlone(c, q)
  <2>1. CASE asks
    <3> DEFINE cs == <<Question>>
    <3>1. cs \in Seq(Sendable) \cup {<<Question>>} /\ cs \in {<<>>, <<Question>>}
      OBVIOUS
    <3> HIDE DEF cs
    <3>2. LeavesAlone(c, <<Line(s, cs)>>)
      BY <3>1, QuietLine
    <3>3. q = <<Line(s, cs)>>
      BY <2>1 DEF cs, Question_Line
    <3> HIDE DEF q
    <3> QED BY <3>2, <3>3
  <2>2. CASE ~asks
    BY <2>2, QuietNone
  <2> QED BY <2>1, <2>2
<1> HIDE DEF q
<1> QED BY <1>4, <1>5, <1>6, Quietly

\* Nothing was saved at first.
LEMMA SavedInit == Init => SavedInv
<1> SUFFICES ASSUME Init PROVE SavedInv
  OBVIOUS
<1>1. wanted = [c \in Channels |-> Nothing]
  BY DEF Init
<1> QED BY <1>1 DEF SavedInv

\* What a step has to leave of each channel.
LEMMA SavedBy ==
    ASSUME SavedInv, wanted' = wanted,
           \A c \in Channels : Wants(c, wanted[c], held[c], toServer)
                                   => Wants(c, wanted[c], held'[c], toServer')
    PROVE  SavedInv'
<1>1. wanted' = [c \in Channels |-> wanted'[c]]
  BY DEF SavedInv
<1>2. \A c \in Channels : wanted'[c] # Nothing => Wants(c, wanted'[c], held'[c], toServer')
  BY DEF SavedInv
<1>3. \A c \in Channels : Wants(c, wanted[c], held[c], toServer)' <=> Wants(c, wanted'[c], held'[c], toServer')
  BY DEF Wants
<1> QED BY <1>1, <1>2, <1>3 DEF SavedInv

\* A render that comes with no line of its own.
LEMMA SavedShow ==
    ASSUME TypeInv, SavedInv, wanted' = wanted, held' = held,
           NEW k, NEW s \in Channels \cup {Unselected}, NEW sh \in ShellSet, NEW replaces,
           Show(k, s, sh, replaces, <<>>)
    PROVE  SavedInv'
<1> DEFINE none == <<>>
<1>1. toServer \in Seq(AskLines) /\ none \in Seq(AskLines)
  BY DEF TypeInv, ClientType
<1>2. toServer \o none = toServer
  BY <1>1
<1>3. Show(k, s, sh, replaces, none)
  OBVIOUS
<1> HIDE DEF none
<1>4. ASSUME NEW c \in Channels, Wants(c, wanted[c], held[c], toServer)
      PROVE  Wants(c, wanted[c], held'[c], toServer')
  <2> DEFINE w == wanted[c]
             base == held[c]
  <2>1. Wants(c, w, base, toServer \o none) /\ held'[c] = base
    BY <1>2, <1>4
  <2> HIDE DEF w, base
  <2>2. Wants(c, w, base, toServer')
    BY <1>1, <1>3, <2>1, WantsAfter
  <2> QED BY <2>1, <2>2 DEF w
<1> QED BY <1>4, SavedBy

\* The steps that only render.
LEMMA SavedShown ==
    TypeInv /\ SavedInv /\ (Selects \/ Opens \/ Closes \/ ClientReads) => SavedInv'
<1> SUFFICES ASSUME TypeInv, SavedInv, Selects \/ Opens \/ Closes \/ ClientReads
             PROVE  SavedInv'
  OBVIOUS
<1>0. shell \in ShellSet /\ selected \in Channels \cup {Unselected}
  BY DEF TypeInv, FormInv, ShellSet
<1>1. CASE Selects
  <2>1. PICK s \in (Channels \cup {Unselected}) \ {selected} : Show(known, s, shell, TRUE, <<>>)
    BY <1>1 DEF Selects
  <2>2. wanted' = wanted /\ held' = held
    BY <1>1 DEF Selects, server
  <2> DEFINE replaces == TRUE
  <2>3. Show(known, s, shell, replaces, <<>>)
    BY <2>1
  <2> HIDE DEF replaces
  <2> QED BY <1>0, <2>1, <2>2, <2>3, SavedShow
<1>2. CASE Opens \/ Closes
  <2>1. PICK sh \in ShellSet : ShowShell(sh)
    <3>1. CASE Opens
      BY <3>1 DEF Opens, ShellSet
    <3>2. CASE Closes
      <4> DEFINE sh == [shell EXCEPT !.open = FALSE]
      <4>1. sh \in ShellSet /\ ShowShell(sh)
        BY <1>0, <3>2 DEF Closes, ShellSet
      <4> QED BY <4>1
    <3> QED BY <1>2, <3>1, <3>2
  <2>2. wanted' = wanted /\ held' = held
    BY <1>2 DEF Opens, Closes, server
  <2> DEFINE replaces == FALSE
  <2>3. Show(known, selected, sh, replaces, <<>>)
    BY <2>1 DEF ShowShell
  <2> HIDE DEF replaces
  <2> QED BY <1>0, <2>1, <2>2, <2>3, SavedShow
<1>3. CASE ClientReads
  <2> DEFINE m == Head(toClient)
             k == [known EXCEPT ![m.c] = New(known[m.c], m)]
             replaces == m.c = selected /\ m.what \in {"MODE", "324"}
  <2>1. Show(k, selected, shell, replaces, <<>>) /\ wanted' = wanted /\ held' = held
    BY <1>3, ClientReadIs
  <2> HIDE DEF k, replaces
  <2> QED BY <1>0, <2>1, SavedShow
<1> QED BY <1>1, <1>2, <1>3

\* A tab picked asks a question, if anything.
LEMMA SavedPicks == TypeInv /\ SavedInv /\ PicksTab => SavedInv'
<1> SUFFICES ASSUME TypeInv, SavedInv, PicksTab PROVE SavedInv'
  OBVIOUS
<1>1. /\ wanted' = wanted /\ held' = held /\ toServer \in Seq(AskLines)
      /\ selected \in Channels
  BY DEF TypeInv, FormInv, ClientType, PicksTab, server
<1>2. PICK tab : toServer' = toServer \o (IF Fetches([panel EXCEPT !.tab = tab])
                                            THEN <<Question_Line(selected)>> ELSE <<>>)
  BY DEF PicksTab, Question_Line, Question
<1> DEFINE cs == <<Question>>
           x == Line(selected, cs)
<1>3. toServer' \in {toServer, toServer \o <<x>>}
  <2>1. toServer \o <<>> = toServer
    BY <1>1
  <2> QED BY <1>2, <2>1 DEF Question_Line
<1>4. CASE toServer' = toServer
  BY <1>1, <1>4, SavedBy
<1>5. CASE toServer' = toServer \o <<x>>
  <2>1. x \in AskLines
    BY <1>1, QuestionAsks DEF Question_Line
  <2>2. cs \in Seq(Sendable) \cup {<<Question>>} /\ cs \in {<<>>, <<Question>>}
    OBVIOUS
  <2> HIDE DEF cs
  <2>3. \A c : LeavesAlone(c, <<x>>)
    BY <2>2, QuietLine
  <2> HIDE DEF x
  <2>4. <<x>> \in Seq(AskLines)
    BY <2>1
  <2>5. ASSUME NEW c \in Channels, Wants(c, wanted[c], held[c], toServer)
        PROVE  Wants(c, wanted[c], held'[c], toServer')
    <3>1. Wants(c, wanted[c], held[c], toServer \o <<x>>)
      <4> DEFINE w == wanted[c]
                 base == held[c]
      <4>1. Wants(c, w, base, toServer)
        BY <2>5
      <4> HIDE DEF w, base
      <4>2. Wants(c, w, base, toServer \o <<x>>)
        BY <1>1, <2>3, <2>4, <4>1, Quietly
      <4> QED BY <4>2 DEF w, base
    <3> QED BY <1>1, <1>5, <3>1
  <2> QED BY <1>1, <2>5, SavedBy
<1> QED BY <1>3, <1>4, <1>5

\* The lines of the table and of the conversation are quiet.
LEMMA SavedAsks == TypeInv /\ SavedInv /\ Asks => SavedInv'
<1> SUFFICES ASSUME TypeInv, SavedInv, Asks PROVE SavedInv'
  OBVIOUS
<1>0. /\ shell \in ShellSet /\ toServer \in Seq(AskLines) /\ wanted' = wanted /\ held' = held
  BY DEF TypeInv, FormInv, ShellSet, ClientType, Asks, server
<1>1. selected \in Channels
  BY AskIs
<1>2. PICK cs \in Seq(Sendable) :
         /\ cs = <<>> \/ \E x \in Sendable : x.mode = "b" /\ cs = <<x>>
         /\ Show(known, selected, shell, FALSE, <<Line(selected, cs)>>)
  BY AskIs
<1> DEFINE x == Line(selected, cs)
           lines == <<x>>
           replaces == FALSE
<1>3. \A c : LeavesAlone(c, lines)
  BY <1>2, QuietLine
<1>4. lines \in Seq(AskLines) /\ Show(known, selected, shell, replaces, lines)
  <2>1. x \in AskLines
    BY <1>1, LineAsks
  <2>2. Show(known, selected, shell, replaces, lines)
    BY <1>2
  <2>3. lines \in Seq(AskLines)
    <3> HIDE DEF x
    <3> QED BY <2>1
  <2> HIDE DEF lines
  <2> QED BY <2>2, <2>3
<1> HIDE DEF x, lines, replaces
<1>5. ASSUME NEW c \in Channels, Wants(c, wanted[c], held[c], toServer)
      PROVE  Wants(c, wanted[c], held'[c], toServer')
  <2> DEFINE w == wanted[c]
             base == held[c]
  <2>1. Wants(c, w, base, toServer)
    BY <1>5
  <2>2. held'[c] = base
    BY <1>0
  <2> HIDE DEF w, base
  <2>3. Wants(c, w, base, toServer \o lines)
    BY <1>0, <1>3, <1>4, <2>1, Quietly
  <2>4. Wants(c, w, base, toServer')
    BY <1>0, <1>1, <1>4, <2>3, WantsAfter
  <2> QED BY <2>2, <2>4 DEF w
<1> QED BY <1>0, <1>5, SavedBy

\* The lines of a save are about the channel.
LEMMA LinesOf ==
    ASSUME NEW c, NEW cs \in Seq(Sendable)
    PROVE  \A i \in 1..Len(SaveLines(c, cs)) : SaveLines(c, cs)[i].c = c
<1>1. SaveLines(c, cs) = [i \in 1..Pieces(cs) |-> Line(c, Piece(cs, i))] /\ Pieces(cs) \in Nat
  BY LinesAre, PiecesAre
<1> QED BY <1>1 DEF Line

\* What is saved of a form over a channel that was known: the form.
LEMMA SaveServes ==
    ASSUME NEW c \in Channels, NEW h \in HeldSet, NEW f \in Forms, NEW t \in Topics,
           NEW cs, cs = DiffChannelModes(h.modes, f)
    PROVE  \E e \in HeldSet :
              /\ Comes("holds", c, h, SaveLines(c, cs) \o (IF t # h.topic THEN <<Text(c, "TOPIC", t)>>
                                                                    ELSE <<>>), e)
              /\ SettingsFrom(e.modes) = f
              /\ e.topic = t
<1>0. cs \in Seq(Sendable)
  BY DiffServes
<1> DEFINE g == Served(h, cs).holds
           m == Text(c, "TOPIC", t)
           last == IF t # h.topic THEN <<m>> ELSE <<>>
<1>1. g \in HeldSet /\ g.topic = h.topic /\ SettingsFrom(g.modes) = f
  BY <1>0, ServedIs, DiffServes
<1>2. Comes("holds", c, h, SaveLines(c, cs), g)
  BY <1>0, LinesServe
<1>3. SaveLines(c, cs) \in Seq(AskLines)
  BY <1>0, LinesType
<1> HIDE DEF g
<1>4. CASE t # h.topic
  <2> DEFINE e == [g EXCEPT !.topic = t]
  <2>1. Comes("holds", c, g, <<m>>, e)
    BY HoldsTopic
  <2>2. e \in HeldSet /\ e = [modes |-> g.modes, topic |-> t, bans |-> g.bans]
    BY <1>1, TopicHeld
  <2>3. m \in AskLines
    BY TopicAsks
  <2>4. last = <<m>>
    BY <1>4
  <2> HIDE DEF e, m
  <2>5. <<m>> \in Seq(AskLines)
    BY <2>3
  <2> HIDE DEF last
  <2>6. Comes("holds", c, h, SaveLines(c, cs) \o last, e)
    BY <1>2, <1>3, <2>1, <2>4, <2>5, ComesThen
  <2>7. e.modes = g.modes /\ e.topic = t
    BY <2>2
  <2> QED BY <1>1, <2>2, <2>6, <2>7 DEF last, m
<1>5. CASE t = h.topic
  <2>1. last = <<>>
    BY <1>5
  <2>2. SaveLines(c, cs) \o last = SaveLines(c, cs)
    BY <1>3, <2>1
  <2> HIDE DEF last
  <2>3. Comes("holds", c, h, SaveLines(c, cs) \o last, g)
    BY <1>2, <2>2
  <2> QED BY <1>1, <1>5, <2>3 DEF last, m
<1> QED BY <1>4, <1>5

\* A save sends what leads from what is known to the form.
LEMMA SavedSaves == TypeInv /\ SavedInv /\ Saves => SavedInv'
<1> SUFFICES ASSUME TypeInv, SavedInv, Saves PROVE SavedInv'
  OBVIOUS
<1> DEFINE sh == [shell EXCEPT !.open = FALSE]
           topic == IF TopicChanged THEN <<Text(selected, "TOPIC", panel.topic)>> ELSE <<>>
           own == SaveLines(selected, Pending)
           lines == own \o topic
           replaces == FALSE
           saved == IF Knows(selected) THEN [form |-> panel.form, topic |-> panel.topic]
                                       ELSE Nothing
<1>1. /\ selected \in Channels /\ Pending \in Seq(Sendable) /\ sh \in ShellSet
      /\ panel.form \in Forms /\ panel.topic \in Topics
      /\ own \in Seq(AskLines) /\ topic \in Seq(AskLines) /\ lines \in Seq(AskLines)
      /\ Show(known, selected, sh, replaces, lines)
  BY SaveIs
<1>2. /\ held' = held /\ wanted' = [wanted EXCEPT ![selected] = saved]
      /\ toServer \in Seq(AskLines) /\ held \in [Channels -> HeldSet]
  BY DEF Saves, server, TypeInv, ClientType, ServerType
<1>3. wanted = [c \in Channels |-> wanted[c]]
  BY DEF SavedInv
<1> HIDE DEF saved, sh, replaces
<1>4. wanted' = [c \in Channels |-> IF c = selected THEN saved ELSE wanted[c]]
  BY <1>2, <1>3
<1>5. ASSUME NEW c \in Channels, c # selected, Wants(c, wanted[c], held[c], toServer)
      PROVE  Wants(c, wanted[c], held'[c], toServer')
  <2>1. \A i \in 1..Len(own) : own[i].c # c
    BY <1>1, <1>5, LinesOf
  <2>2. \A i \in 1..Len(topic) : topic[i].c # c
    <3> DEFINE m == Text(selected, "TOPIC", panel.topic)
    <3>1. m.c = selected /\ topic = IF TopicChanged THEN <<m>> ELSE <<>>
      BY DEF Text
    <3> HIDE DEF m, topic
    <3> QED BY <1>5, <3>1
  <2> DEFINE w == wanted[c]
             base == held[c]
  <2>3. Wants(c, w, base, toServer) /\ held'[c] = base
    BY <1>2, <1>5
  <2> HIDE DEF w, base, own, topic
  <2>4. \A i \in 1..Len(lines) : lines[i].c # c
    <3>1. ASSUME NEW i \in 1..Len(lines) PROVE lines[i].c # c
      <4>1. CASE i \in 1..Len(own)
        <5>1. lines[i] = own[i]
          BY <1>1, <4>1
        <5> QED BY <2>1, <4>1, <5>1
      <4>2. CASE i \notin 1..Len(own)
        <5>1. lines[i] = topic[i - Len(own)] /\ i - Len(own) \in 1..Len(topic)
          BY <1>1, <4>2
        <5> QED BY <2>2, <5>1
      <4> QED BY <4>1, <4>2
    <3> QED BY <3>1
  <2> HIDE DEF lines
  <2>5. LeavesAlone(c, lines)
    BY <1>1, <2>4, QuietOther
  <2>6. Wants(c, w, base, toServer \o lines)
    BY <1>1, <1>2, <2>3, <2>5, Quietly
  <2>7. Wants(c, w, base, toServer')
    BY <1>1, <2>6, WantsAfter
  <2> QED BY <2>3, <2>7 DEF w
<1>6. ASSUME saved # Nothing
      PROVE  Wants(selected, saved, held'[selected], toServer')
  <2> DEFINE c == selected
             h == held[c]
  <2>1. /\ saved = [form |-> panel.form, topic |-> panel.topic]
        /\ Idle(c) /\ known[c].modes = h.modes /\ known[c].topic = h.topic
    BY <1>6 DEF saved, Knows
  <2>2. h \in HeldSet /\ held'[c] = h
    BY <1>1, <1>2
  <2>3. saved.form = panel.form /\ saved.topic = panel.topic
    BY <2>1
  <2>4. Comes("holds", c, h, toServer, h)
    <3>1. \A i \in 1..Len(toServer) : toServer[i].c # c
      BY <1>2, <2>1 DEF Idle
    <3> HIDE DEF h
    <3> QED BY <1>2, <3>1, HoldsOther
  <2> DEFINE t == panel.topic
             f == panel.form
             cs == Pending
  <2>5. cs = DiffChannelModes(h.modes, f) /\ (TopicChanged <=> t # h.topic)
    BY <2>1 DEF Pending, TopicChanged
  <2>6. topic = IF t # h.topic THEN <<Text(c, "TOPIC", t)>> ELSE <<>>
    BY <2>5
  <2>7. f \in Forms /\ t \in Topics
    BY <1>1
  <2>8. PICK e \in HeldSet :
           /\ Comes("holds", c, h, SaveLines(c, cs) \o (IF t # h.topic THEN <<Text(c, "TOPIC", t)>>
                                                                    ELSE <<>>), e)
           /\ SettingsFrom(e.modes) = f
           /\ e.topic = t
    <3> HIDE DEF h, f, t, cs
    <3> QED BY <1>1, <2>2, <2>5, <2>7, SaveServes
  <2>9. Comes("holds", c, h, lines, e)
    BY <2>6, <2>8
  <2> HIDE DEF h, lines, f, t, cs
  <2>10. Comes("holds", c, h, toServer \o lines, e)
    BY <1>1, <1>2, <2>4, <2>9, ComesThen
  <2>11. Wants(c, saved, h, toServer \o lines)
    BY <2>3, <2>8, <2>10 DEF Wants, f, t
  <2>12. Wants(c, saved, h, toServer')
    BY <1>1, <2>11, WantsAfter
  <2> QED BY <2>2, <2>12
<1>7. wanted' = [c \in Channels |-> wanted'[c]]
  BY <1>4
<1>8. ASSUME NEW c \in Channels, wanted'[c] # Nothing
      PROVE  Wants(c, wanted'[c], held'[c], toServer')
  <2>1. CASE c = selected
    <3>1. wanted'[c] = saved
      BY <1>4, <2>1
    <3> QED BY <1>6, <1>8, <2>1, <3>1
  <2>2. CASE c # selected
    <3>1. wanted'[c] = wanted[c]
      BY <1>4, <2>2
    <3>2. Wants(c, wanted[c], held[c], toServer)
      BY <1>8, <3>1 DEF SavedInv
    <3>3. Wants(c, wanted[c], held'[c], toServer')
      BY <1>5, <2>2, <3>2
    <3> QED BY <3>1, <3>3
  <2> QED BY <2>1, <2>2
<1>9. \A c \in Channels : Wants(c, wanted[c], held[c], toServer)' <=> Wants(c, wanted'[c], held'[c], toServer')
  BY DEF Wants
<1> QED BY <1>7, <1>8, <1>9 DEF SavedInv

\* The server takes the first of the lines.
LEMMA SavedServerReads == TypeInv /\ SavedInv /\ ServerReads => SavedInv'
<1> SUFFICES ASSUME TypeInv, SavedInv, ServerReads PROVE SavedInv'
  OBVIOUS
<1> DEFINE m == Head(toServer)
           h == held[m.c]
           cs == Asked(m)
<1>1. /\ toServer # <<>> /\ m \in AskLines /\ m.c \in Channels /\ h \in HeldSet
      /\ toServer' = Tail(toServer) /\ wanted' = wanted
  BY ServerReadIs
<1>2. toServer \in Seq(AskLines) /\ held \in [Channels -> HeldSet]
  BY DEF TypeInv, ClientType, ServerType
<1>3. held' = [held EXCEPT ![m.c] = Holds(m.c, h, m)]
  <2>1. CASE m.what = "TOPIC"
    <3>1. held' = [held EXCEPT ![m.c] = [h EXCEPT !.topic = m.text]]
      BY <2>1, ServerReadIs
    <3> HIDE DEF m, h
    <3>2. Holds(m.c, h, m) = [h EXCEPT !.topic = m.text]
      BY <2>1 DEF Holds
    <3> QED BY <3>1, <3>2
  <2>2. CASE m.what # "TOPIC"
    <3>1. held' = [held EXCEPT ![m.c] = Served(h, cs).holds]
      BY <2>2, ServerReadIs
    <3> HIDE DEF m, h
    <3>2. Holds(m.c, h, m) = Served(h, cs).holds
      BY <2>2 DEF Holds, Asked
    <3> QED BY <3>1, <3>2
  <2> QED BY <2>1, <2>2
<1>4. ASSUME NEW c \in Channels, Wants(c, wanted[c], held[c], toServer)
      PROVE  Wants(c, wanted[c], held'[c], toServer')
  <2> DEFINE w == wanted[c]
             base == held[c]
  <2>1. Wants(c, w, base, toServer)
    BY <1>4
  <2>2. held'[c] = Along("holds", c, base, m)
    <3>1. Along("holds", c, base, m) = Holds(c, base, m)
      BY AlongIs
    <3>2. CASE m.c = c
      BY <1>2, <1>3, <3>1, <3>2
    <3>3. CASE m.c # c
      <4>1. held'[c] = base
        BY <1>2, <1>3, <3>3
      <4> HIDE DEF m, base
      <4>2. Holds(c, base, m) = base
        BY <3>3 DEF Holds
      <4> QED BY <3>1, <4>1, <4>2
    <3> QED BY <3>2, <3>3
  <2> HIDE DEF w, base
  <2>3. PICK e \in HeldSet : /\ Comes("holds", c, base, toServer, e)
                             /\ SettingsFrom(e.modes) = w.form /\ e.topic = w.topic
    BY <2>1 DEF Wants
  <2>4. Comes("holds", c, Along("holds", c, base, m), Tail(toServer), e)
    BY <1>1, <1>2, <2>3, ComesOn
  <2>5. Comes("holds", c, held'[c], toServer', e)
    BY <1>1, <2>2, <2>4
  <2> QED BY <2>3, <2>5 DEF Wants, w
<1> QED BY <1>1, <1>4, SavedBy

\* What was saved is up once somebody changes the channel.
LEMMA SavedSomebody == TypeInv /\ SavedInv /\ SomebodyChanges => SavedInv'
<1> SUFFICES ASSUME TypeInv, SavedInv, SomebodyChanges PROVE SavedInv'
  OBVIOUS
<1>1. PICK b \in Channels :
         /\ \E g : held' = [held EXCEPT ![b] = g]
         /\ wanted' = [wanted EXCEPT ![b] = Nothing]
         /\ toServer' = toServer
  BY SomebodyIs
<1>2. held \in [Channels -> HeldSet] /\ wanted = [c \in Channels |-> wanted[c]]
  BY DEF TypeInv, ServerType, SavedInv
<1>3. wanted' = [c \in Channels |-> IF c = b THEN Nothing ELSE wanted[c]]
  BY <1>1, <1>2
<1>4. wanted' = [c \in Channels |-> wanted'[c]]
  BY <1>3
<1>5. ASSUME NEW c \in Channels, wanted'[c] # Nothing
      PROVE  Wants(c, wanted'[c], held'[c], toServer')
  <2>1. c # b /\ wanted'[c] = wanted[c]
    BY <1>3, <1>5
  <2>2. held'[c] = held[c]
    BY <1>1, <1>2, <2>1
  <2>3. Wants(c, wanted[c], held[c], toServer)
    BY <1>5, <2>1 DEF SavedInv
  <2> QED BY <1>1, <2>1, <2>2, <2>3
<1>6. \A c \in Channels : Wants(c, wanted[c], held[c], toServer)' <=> Wants(c, wanted'[c], held'[c], toServer')
  BY DEF Wants
<1> QED BY <1>4, <1>5, <1>6 DEF SavedInv

\* Each step keeps the lines with what was saved.
LEMMA SavedStep == TypeInv /\ SavedInv /\ [Next]_vars => SavedInv'
<1> SUFFICES ASSUME TypeInv, SavedInv, [Next]_vars PROVE SavedInv'
  OBVIOUS
<1>1. CASE Edits \/ UNCHANGED vars
  <2>1. UNCHANGED <<wanted, held, toServer>>
    BY <1>1 DEF Edits, server, vars
  <2> QED BY <2>1, SavedBy
<1> QED BY <1>1, SavedShown, SavedPicks, SavedAsks, SavedSaves, SavedServerReads, SavedSomebody
        DEF Next

\* With no lines under way, what was saved is what is held.
LEMMA SavedSuffices == TypeInv /\ SavedInv => SaveTakesEffect
<1> SUFFICES ASSUME TypeInv, SavedInv, NEW c \in Channels, wanted[c] # Nothing, Idle(c)
             PROVE  /\ SettingsFrom(held[c].modes) = wanted[c].form
                    /\ held[c].topic = wanted[c].topic
  BY DEF SaveTakesEffect
<1>1. PICK e \in HeldSet : /\ Comes("holds", c, held[c], toServer, e)
                           /\ SettingsFrom(e.modes) = wanted[c].form /\ e.topic = wanted[c].topic
  BY DEF SavedInv, Wants
<1>2. toServer \in Seq(AskLines) /\ \A i \in 1..Len(toServer) : toServer[i].c # c
  BY DEF TypeInv, ClientType, Idle
<1>3. Comes("holds", c, held[c], toServer, held[c])
  BY <1>2, HoldsOther
<1>4. e = held[c]
  BY <1>1, <1>2, <1>3, ComesOne
<1> QED BY <1>1, <1>4

----------------------------------------------------------------------------
(* The question of the ban tab.                                            *)

IsQuestion(m) == m.what = "MODE" /\ Asked(m) = <<Question>>

NoQuestions(lines) == \A i \in 1..Len(lines) : ~IsQuestion(lines[i])

OneQuestion(c, lines) ==
    \E i \in 1..Len(lines) : /\ lines[i] = Question_Line(c)
                             /\ \A j \in 1..Len(lines) : j # i => ~IsQuestion(lines[j])

\* The question is one.
LEMMA ThatIsQuestion == ASSUME NEW c PROVE IsQuestion(Question_Line(c)) /\ Question_Line(c).c = c
<1> DEFINE cs == <<Question>>
<1>1. cs \in Seq(Sendable) \cup {<<Question>>}
  OBVIOUS
<1> HIDE DEF cs
<1>2. Line(c, cs).what = "MODE" /\ Asked(Line(c, cs)) = cs /\ Line(c, cs).c = c
  BY <1>1, LineIs
<1> QED BY <1>2 DEF IsQuestion, Question_Line, cs

\* Changes are no question.
LEMMA ChangesAsk ==
    ASSUME NEW c, NEW cs \in Seq(Sendable) PROVE ~IsQuestion(Line(c, cs))
<1>1. Asked(Line(c, cs)) = cs
  BY LineIs
<1> SUFFICES ASSUME cs = <<Question>> PROVE FALSE
  BY <1>1 DEF IsQuestion
<1>2. Len(cs) = 1 /\ cs[1] = Question
  OBVIOUS
<1>3. cs[1] \in Sendable
  BY <1>2
<1> QED BY <1>2, <1>3, SendableIs

\* Lines without a question, together,
LEMMA NoMore ==
    ASSUME NEW S, NEW s \in Seq(S), NEW q \in Seq(S), NoQuestions(s), NoQuestions(q)
    PROVE  NoQuestions(s \o q)
<1> SUFFICES ASSUME NEW i \in 1..Len(s \o q) PROVE ~IsQuestion((s \o q)[i])
  BY DEF NoQuestions
<1>1. CASE i \in 1..Len(s)
  <2>1. (s \o q)[i] = s[i]
    BY <1>1
  <2> QED BY <1>1, <2>1 DEF NoQuestions
<1>2. CASE i \notin 1..Len(s)
  <2>1. (s \o q)[i] = q[i - Len(s)] /\ i - Len(s) \in 1..Len(q)
    BY <1>2
  <2> QED BY <2>1 DEF NoQuestions
<1> QED BY <1>1, <1>2

\* after one,
LEMMA OneMore ==
    ASSUME NEW c, NEW S, NEW s \in Seq(S), NEW q \in Seq(S), OneQuestion(c, s), NoQuestions(q)
    PROVE  OneQuestion(c, s \o q)
<1>1. PICK i \in 1..Len(s) : /\ s[i] = Question_Line(c)
                             /\ \A j \in 1..Len(s) : j # i => ~IsQuestion(s[j])
  BY DEF OneQuestion
<1>2. i \in 1..Len(s \o q) /\ (s \o q)[i] = s[i]
  OBVIOUS
<1>3. ASSUME NEW j \in 1..Len(s \o q), j # i PROVE ~IsQuestion((s \o q)[j])
  <2>1. CASE j \in 1..Len(s)
    <3>1. (s \o q)[j] = s[j]
      BY <2>1
    <3> QED BY <1>1, <1>3, <2>1, <3>1
  <2>2. CASE j \notin 1..Len(s)
    <3>1. (s \o q)[j] = q[j - Len(s)] /\ j - Len(s) \in 1..Len(q)
      BY <2>2
    <3> QED BY <3>1 DEF NoQuestions
  <2> QED BY <2>1, <2>2
<1> QED BY <1>1, <1>2, <1>3 DEF OneQuestion

\* and with one at their end.
LEMMA OneNow ==
    ASSUME NEW c \in Channels, NEW s \in Seq(AskLines), NoQuestions(s)
    PROVE  OneQuestion(c, s \o <<Question_Line(c)>>)
<1> DEFINE x == Question_Line(c)
           q == s \o <<x>>
           i == Len(s) + 1
<1>1. x \in AskLines
  BY QuestionAsks
<1> HIDE DEF x
<1>2. i \in 1..Len(q) /\ q[i] = x
  OBVIOUS
<1>3. ASSUME NEW j \in 1..Len(q), j # i PROVE ~IsQuestion(q[j])
  <2>1. j \in 1..Len(s) /\ q[j] = s[j]
    BY <1>3
  <2> QED BY <2>1 DEF NoQuestions
<1> HIDE DEF q
<1>4. OneQuestion(c, q)
  BY <1>2, <1>3 DEF OneQuestion, x
<1> QED BY <1>4 DEF q, x

\* No lines are without,
LEMMA NoNone == NoQuestions(<<>>)
<1>1. Len(<<>>) = 0
  OBVIOUS
<1> QED BY <1>1 DEF NoQuestions

\* and so is a line that is none.
LEMMA NoOther ==
    ASSUME NEW m, ~IsQuestion(m) PROVE NoQuestions(<<m>>)
<1>1. Len(<<m>>) = 1 /\ <<m>>[1] = m
  OBVIOUS
<1> QED BY <1>1 DEF NoQuestions

\* The lines after the first, where there was none,
LEMMA NoTail ==
    ASSUME NEW S, NEW s \in Seq(S), s # <<>>, NoQuestions(s)
    PROVE  ~IsQuestion(Head(s)) /\ NoQuestions(Tail(s))
<1>1. Head(s) = s[1] /\ 1 \in 1..Len(s)
  OBVIOUS
<1>2. \A i \in 1..Len(Tail(s)) : Tail(s)[i] = s[i + 1] /\ i + 1 \in 1..Len(s)
  OBVIOUS
<1> QED BY <1>1, <1>2 DEF NoQuestions

\* and where there was one.
LEMMA OneTail ==
    ASSUME NEW c, NEW S, NEW s \in Seq(S), s # <<>>, OneQuestion(c, s)
    PROVE  \/ Head(s) = Question_Line(c) /\ NoQuestions(Tail(s))
           \/ ~IsQuestion(Head(s)) /\ OneQuestion(c, Tail(s))
<1>0. Head(s) = s[1] /\ 1 \in 1..Len(s) /\ Len(Tail(s)) = Len(s) - 1
  OBVIOUS
<1>1. \A i \in 1..Len(Tail(s)) : Tail(s)[i] = s[i + 1] /\ i + 1 \in 1..Len(s)
  OBVIOUS
<1>2. PICK i \in 1..Len(s) : /\ s[i] = Question_Line(c)
                             /\ \A j \in 1..Len(s) : j # i => ~IsQuestion(s[j])
  BY DEF OneQuestion
<1>3. CASE i = 1
  <2>1. \A j \in 1..Len(Tail(s)) : ~IsQuestion(Tail(s)[j])
    <3> SUFFICES ASSUME NEW j \in 1..Len(Tail(s)) PROVE ~IsQuestion(Tail(s)[j])
      OBVIOUS
    <3>1. j + 1 # i
      BY <1>3
    <3> QED BY <1>1, <1>2, <3>1
  <2> QED BY <1>0, <1>2, <1>3, <2>1 DEF NoQuestions
<1>4. CASE i # 1
  <2> DEFINE k == i - 1
  <2>1. k \in 1..Len(Tail(s)) /\ k + 1 = i
    BY <1>0, <1>4
  <2>2. Tail(s)[k] = Question_Line(c)
    <3>1. Tail(s)[k] = s[k + 1]
      BY <1>1, <2>1
    <3> QED BY <1>2, <2>1, <3>1
  <2> HIDE DEF k
  <2>3. ASSUME NEW j \in 1..Len(Tail(s)), j # k PROVE ~IsQuestion(Tail(s)[j])
    <3>1. j + 1 # i
      BY <2>1, <2>3
    <3> QED BY <1>1, <1>2, <3>1
  <2>4. ~IsQuestion(Head(s))
    BY <1>0, <1>2, <1>4
  <2> QED BY <2>1, <2>2, <2>3, <2>4 DEF OneQuestion
<1> QED BY <1>3, <1>4

----------------------------------------------------------------------------
(* Our side of it: not asked, asked, answered.                             *)

Unasked ==
    /\ first = Unselected
    /\ panel # Unmounted => ~panel.requested
    /\ NoQuestions(toServer)

Asking ==
    /\ first \in Channels
    /\ panel # Unmounted => panel.requested
    /\ OneQuestion(first, toServer)

Done ==
    /\ first \in Channels
    /\ panel # Unmounted => panel.requested
    /\ NoQuestions(toServer)

\* What is sent besides the question, and the question, if that was not asked.
LEMMA QuestionGoes ==
    ASSUME TypeInv, NEW lines \in Seq(AskLines), NoQuestions(lines), NEW asks \in BOOLEAN,
           NEW s \in Channels \cup {Unselected}, asks => s \in Channels,
           Sends(s, lines, asks),
           panel' # Unmounted => panel'.requested = (Asked_Before \/ asks),
           asks => ~Asked_Before /\ panel' # Unmounted,
           panel = Unmounted => first = Unselected \/ panel' = Unmounted
    PROVE  /\ Unasked => Unasked' \/ Asking'
           /\ Asking => Asking'
           /\ Done => Done' /\ first' = first
<1>0. /\ toServer \in Seq(AskLines) /\ Unselected \notin Channels
      /\ panel # Unmounted => panel.requested \in BOOLEAN
  BY PanelAssumption DEF TypeInv, ClientType
<1> DEFINE x == Question_Line(s)
           q == IF asks THEN <<x>> ELSE <<>>
<1>1. /\ toServer' = (toServer \o lines) \o q
      /\ first' = IF first = Unselected /\ asks THEN s ELSE first
  BY DEF Sends
<1>2. toServer \o lines \in Seq(AskLines)
  BY <1>0
<1>3. ~asks => toServer' = toServer \o lines
  BY <1>1, <1>2
<1>4. asks => toServer' = (toServer \o lines) \o <<x>>
  BY <1>1
<1> HIDE DEF q
<1>5. ASSUME Unasked PROVE Unasked' \/ Asking'
  <2>0. first = Unselected /\ NoQuestions(toServer) /\ ~Asked_Before
    BY <1>5 DEF Unasked, Asked_Before
  <2>1. NoQuestions(toServer \o lines)
    BY <1>0, <2>0, NoMore
  <2>2. CASE asks
    <3>1. OneQuestion(s, toServer')
      <4> HIDE DEF x
      <4> QED BY <1>2, <1>4, <2>1, <2>2, OneNow DEF x
    <3>2. first' = s /\ s \in Channels /\ (panel' # Unmounted => panel'.requested)
      BY <1>1, <2>0, <2>2
    <3> QED BY <3>1, <3>2 DEF Asking
  <2>3. CASE ~asks
    <3>1. NoQuestions(toServer') /\ first' = Unselected /\ (panel' # Unmounted => ~panel'.requested)
      BY <1>1, <1>3, <2>0, <2>1, <2>3
    <3> QED BY <3>1 DEF Unasked
  <2> QED BY <2>2, <2>3
<1>6. ASSUME Asking \/ Done
      PROVE  /\ toServer' = toServer \o lines /\ first' = first
             /\ panel' # Unmounted => panel'.requested
  <2>1. first # Unselected /\ (panel # Unmounted => panel.requested)
    BY <1>0, <1>6 DEF Asking, Done
  <2>2. panel' # Unmounted => panel # Unmounted
    BY <2>1
  <2>3. panel' # Unmounted => Asked_Before
    BY <1>0, <2>1, <2>2 DEF Asked_Before
  <2>4. ~asks
    BY <2>3
  <2> QED BY <1>1, <1>3, <2>3, <2>4
<1>7. ASSUME Asking PROVE Asking'
  <2>1. OneQuestion(first, toServer \o lines)
    BY <1>0, <1>7, OneMore DEF Asking
  <2> QED BY <1>6, <1>7, <2>1 DEF Asking
<1>8. ASSUME Done PROVE Done' /\ first' = first
  <2>1. NoQuestions(toServer \o lines)
    BY <1>0, <1>8, NoMore DEF Done
  <2> QED BY <1>6, <1>8, <2>1 DEF Done
<1> QED BY <1>5, <1>7, <1>8

\* A render asks where that was not done.
LEMMA ShowAsks ==
    ASSUME TypeInv, NEW k, NEW s \in Channels \cup {Unselected}, NEW sh \in ShellSet,
           NEW replaces, NEW lines \in Seq(AskLines), NoQuestions(lines),
           Show(k, s, sh, replaces, lines),
           selected = Unselected => first = Unselected \/ s = Unselected
    PROVE  /\ Unasked => Unasked' \/ Asking'
           /\ Asking => Asking'
           /\ Done => Done' /\ first' = first
<1>1. /\ FormInv /\ (panel # Unmounted => panel.requested \in BOOLEAN)
      /\ Unselected \notin Channels
      /\ panel = Unmounted <=> selected = Unselected
  BY PanelAssumption DEF TypeInv, ClientType, FormInv
<1>2. CASE s = Unselected
  <2> DEFINE asks == FALSE
  <2>1. panel' = Unmounted /\ Sends(s, lines, asks)
    BY <1>1, <1>2, ShowIs
  <2>2. asks \in BOOLEAN /\ ~asks
    OBVIOUS
  <2> HIDE DEF asks
  <2> QED BY <2>1, <2>2, QuestionGoes
<1>3. CASE s # Unselected
  <2>1. \E asks \in BOOLEAN : Rendered(k, s, sh, asks) /\ Sends(s, lines, asks)
    BY <1>1, <1>3, ShowIs
  <2>2. PICK asks \in BOOLEAN : Rendered(k, s, sh, asks) /\ Sends(s, lines, asks)
    BY <2>1
  <2>3. panel' # Unmounted
    <3>1. ShapedPanel(panel')
      BY <2>2 DEF Rendered
    <3> QED BY <3>1 DEF ShapedPanel, Unmounted
  <2>4. panel = Unmounted => first = Unselected
    BY <1>1, <1>3
  <2>5. panel'.requested = (Asked_Before \/ asks) /\ (asks => ~Asked_Before) /\ s \in Channels
    BY <1>3, <2>2 DEF Rendered
  <2> QED BY <2>2, <2>3, <2>4, <2>5, QuestionGoes
<1> QED BY <1>2, <1>3

----------------------------------------------------------------------------
(* The server's side of it.                                                *)

Blank == [bans |-> <<>>, loading |-> FALSE]

NoLists(lines) == \A i \in 1..Len(lines) : lines[i].what \notin {"367", "368"}

Untold == NoLists(toClient) /\ \A c \in Channels : Table(known[c]) = Blank

\* The lines under way complete the table with what was answered.
Answers(c) ==
    \E s \in Seq({"n"}) :
        /\ answered[c] = [what |-> "bans", bans |-> ToSet(s)]
        /\ IsInjective(s)
        /\ Comes("tabled", c, Table(known[c]), toClient, [bans |-> s, loading |-> FALSE])

ListInv ==
    /\ mounts \in Nat
    /\ answered = [c \in Channels |-> answered[c]]
    /\ mounts = 0 => selected = Unselected /\ first = Unselected
    /\ mounts <= 1 => \/ (Unasked \/ Asking) /\ Untold
                      \/ Done /\ Answers(first)

\* Lines about no list, together,
LEMMA NoListsMore ==
    ASSUME NEW S, NEW s \in Seq(S), NEW q \in Seq(S), NoLists(s), NoLists(q)
    PROVE  NoLists(s \o q)
<1> SUFFICES ASSUME NEW i \in 1..Len(s \o q) PROVE (s \o q)[i].what \notin {"367", "368"}
  BY DEF NoLists
<1>1. CASE i \in 1..Len(s)
  <2>1. (s \o q)[i] = s[i]
    BY <1>1
  <2> QED BY <1>1, <2>1 DEF NoLists
<1>2. CASE i \notin 1..Len(s)
  <2>1. (s \o q)[i] = q[i - Len(s)] /\ i - Len(s) \in 1..Len(q)
    BY <1>2
  <2> QED BY <2>1 DEF NoLists
<1> QED BY <1>1, <1>2

\* one of them,
LEMMA NoListsOne ==
    ASSUME NEW m, m.what \notin {"367", "368"} PROVE NoLists(<<m>>)
<1>1. Len(<<m>>) = 1 /\ <<m>>[1] = m
  OBVIOUS
<1> QED BY <1>1 DEF NoLists

\* and none.
LEMMA NoListsNone == NoLists(<<>>)
<1>1. Len(<<>>) = 0
  OBVIOUS
<1> QED BY <1>1 DEF NoLists

\* Lines of no list leave the table.
LEMMA TabledOther ==
    ASSUME NEW c, NEW t, NEW lines \in Seq(TellLines),
           \A i \in 1..Len(lines) : lines[i].c = c => lines[i].what \notin {"367", "368"}
    PROVE  Comes("tabled", c, t, lines, t)
<1>1. ASSUME NEW i \in 1..Len(lines) PROVE Along("tabled", c, t, lines[i]) = t
  <2> DEFINE m == lines[i]
  <2>1. m \in TellLines
    OBVIOUS
  <2>2. m.c = c => m.what \in {"MODE", "324", "TOPIC"}
    <3>1. m.c = c => m.what \notin {"367", "368"}
      OBVIOUS
    <3> HIDE DEF m
    <3> QED BY <2>1, <3>1, TellLinesAre
  <2> HIDE DEF m
  <2>3. Along("tabled", c, t, m) = Tabled(c, t, m)
    BY AlongIs
  <2>4. Tabled(c, t, m) = t
    BY <2>2 DEF Tabled
  <2> QED BY <2>3, <2>4 DEF m
<1> QED BY <1>1, ComesSame

\* What is told of changes is about no list.
LEMMA ToldNoLists ==
    ASSUME NEW c, NEW cs \in Seq(Sendable) PROVE NoLists(Told(c, cs))
<1> DEFINE m == Line(c, cs)
<1>1. m.what = "MODE"
  BY DEF Line
<1>2. Told(c, cs) = IF cs = <<>> THEN <<>> ELSE <<m>>
  BY DEF Told
<1> HIDE DEF m
<1> QED BY <1>1, <1>2, NoListsOne, NoListsNone

\* So is what is answered to anything but the question.
LEMMA AnswerNoLists ==
    ASSUME NEW c \in Channels, NEW h \in HeldSet, NEW cs \in Seq(Sendable), cs # <<Question>>
    PROVE  NoLists(Answer(c, h, cs)) /\ Answer(c, h, cs) \in Seq(TellLines)
<1>1. CASE cs = <<>>
  <2> DEFINE m == Whole(c, All(h))
  <2>1. Answer(c, h, cs) = <<m>> /\ m.what = "324"
    BY <1>1, AnswerIs DEF Whole
  <2>2. Answer(c, h, cs) \in Seq(TellLines)
    BY AnswerIs
  <2> HIDE DEF m
  <2> QED BY <2>1, <2>2, NoListsOne
<1>2. CASE cs # <<>>
  <2>1. /\ Answer(c, h, cs) = Told(c, Served(h, cs).done) /\ Served(h, cs).done \in Seq(Sendable)
        /\ Answer(c, h, cs) \in Seq(TellLines)
    BY <1>2, AnswerIs
  <2> QED BY <2>1, ToldNoLists
<1> QED BY <1>1, <1>2

\* The answer to the question fills an empty table with what is there.
LEMMA TabledAnswer ==
    ASSUME NEW c \in Channels, NEW h \in HeldSet
    PROVE  \E s \in Seq({"n"}) :
              /\ ToSet(s) = h.bans
              /\ IsInjective(s)
              /\ Comes("tabled", c, Blank, BansOf(c, h), [bans |-> s, loading |-> FALSE])
<1> DEFINE x == Text(c, "367", "n")
           y == Text(c, "368", "")
<1>1. x.c = c /\ x.what = "367" /\ x.text = "n" /\ y.c = c /\ y.what = "368"
  BY DEF Text
<1>2. h.bans \in SUBSET {"n"} /\ BansOf(c, h) = IF h.bans = {} THEN <<y>> ELSE <<x, y>>
  BY HeldIs, BansAre
<1> HIDE DEF x, y
<1>3. \A t : Along("tabled", c, t, y) = [t EXCEPT !.loading = FALSE]
  BY <1>1, AlongIs DEF Tabled
<1>4. \A t : Along("tabled", c, t, x) = [bans |-> Append(t.bans, "n"), loading |-> TRUE]
  BY <1>1, AlongIs DEF Tabled
<1>5. CASE h.bans = {}
  <2> DEFINE s == <<>>
             e == [bans |-> s, loading |-> FALSE]
  <2>1. Along("tabled", c, Blank, y) = e
    <3>1. Along("tabled", c, Blank, y) = [Blank EXCEPT !.loading = FALSE]
      BY <1>3
    <3> QED BY <3>1 DEF Blank
  <2>2. Comes("tabled", c, Blank, <<y>>, Along("tabled", c, Blank, y))
    BY ComesSingle
  <2>3. BansOf(c, h) = <<y>>
    BY <1>2, <1>5
  <2>4. s \in Seq({"n"}) /\ ToSet(s) = h.bans /\ IsInjective(s)
    BY <1>5 DEF ToSet, IsInjective
  <2>5. Comes("tabled", c, Blank, BansOf(c, h), e)
    <3> HIDE DEF e
    <3> QED BY <2>1, <2>2, <2>3
  <2> QED BY <2>4, <2>5
<1>6. CASE h.bans # {}
  <2> DEFINE s == <<"n">>
             d == [bans |-> s, loading |-> TRUE]
             e == [bans |-> s, loading |-> FALSE]
             none == <<>>
  <2>1. Along("tabled", c, Blank, x) = d
    <3>1. Along("tabled", c, Blank, x) = [bans |-> Append(Blank.bans, "n"), loading |-> TRUE]
      BY <1>4
    <3>2. Blank.bans = <<>> /\ Append(<<>>, "n") = <<"n">>
      BY DEF Blank
    <3> QED BY <3>1, <3>2
  <2>2. Along("tabled", c, d, y) = e
    <3>1. Along("tabled", c, d, y) = [d EXCEPT !.loading = FALSE]
      BY <1>3
    <3> QED BY <3>1
  <2>3. <<x>> \in Seq({x, y}) /\ <<y>> \in Seq({x, y}) /\ <<x>> \o <<y>> = <<x, y>>
    BY PairIs
  <2>4. BansOf(c, h) = <<x, y>>
    BY <1>2, <1>6
  <2>5. s \in Seq({"n"}) /\ ToSet(s) = h.bans /\ IsInjective(s)
    <3>1. h.bans = {"n"}
      BY <1>2, <1>6
    <3>2. ToSet(s) = {"n"}
      BY DEF ToSet
    <3>3. IsInjective(s)
      BY DEF IsInjective
    <3> QED BY <3>1, <3>2, <3>3
  <2> HIDE DEF d, e, s
  <2>6. Comes("tabled", c, Blank, <<x>>, d)
    <3>1. Comes("tabled", c, Blank, <<x>>, Along("tabled", c, Blank, x))
      BY ComesSingle
    <3> QED BY <2>1, <3>1
  <2>7. Comes("tabled", c, Blank, <<x>> \o <<y>>, e)
    <3>1. Comes("tabled", c, d, <<y>>, Along("tabled", c, d, y))
      BY ComesSingle
    <3>2. Comes("tabled", c, d, <<y>>, e)
      BY <2>2, <3>1
    <3> DEFINE p == <<x>>
               q == <<y>>
    <3>3. p \in Seq({x, y}) /\ q \in Seq({x, y})
          /\ Comes("tabled", c, Blank, p, d) /\ Comes("tabled", c, d, q, e)
      BY <2>3, <2>6, <3>2
    <3> HIDE DEF p, q
    <3>4. Comes("tabled", c, Blank, p \o q, e)
      BY <3>3, ComesThen
    <3> QED BY <3>4 DEF p, q
  <2>8. Comes("tabled", c, Blank, BansOf(c, h), e)
    BY <2>3, <2>4, <2>7
  <2> QED BY <2>5, <2>8 DEF e
<1> QED BY <1>5, <1>6

\* Nothing is asked at first.
LEMMA ListInit == Init => ListInv
<1> SUFFICES ASSUME Init PROVE ListInv
  OBVIOUS
<1>1. /\ mounts = 0 /\ answered = [c \in Channels |-> Nothing]
      /\ selected = Unselected /\ first = Unselected /\ panel = Unmounted
      /\ toServer = <<>> /\ toClient = <<>>
  BY DEF Init
<1>2. Unasked
  BY <1>1, NoNone DEF Unasked
<1>3. ASSUME NEW c \in Channels PROVE Table(known[c]) = Blank
  BY DEF Init, Table, Blank
<1>4. Untold
  BY <1>1, <1>3, NoListsNone DEF Untold
<1> QED BY <1>1, <1>2, <1>4 DEF ListInv

\* Our side of each step that is not the server's.
Ours ==
    /\ Unasked => Unasked' \/ Asking'
    /\ Asking => Asking'
    /\ Done => Done' /\ first' = first

\* A tab picked.
LEMMA PicksOurs == TypeInv /\ PicksTab => Ours
<1> SUFFICES ASSUME TypeInv, PicksTab PROVE Ours
  OBVIOUS
<1>0. /\ panel # Unmounted /\ selected \in Channels /\ ShapedPanel(panel)
      /\ panel.requested \in BOOLEAN /\ toServer \in Seq(AskLines)
  BY DEF PicksTab, TypeInv, FormInv, ClientType
<1>1. PICK tab \in {"settings", "ban"} :
         LET asks == Fetches([panel EXCEPT !.tab = tab])
         IN  /\ panel' = [[panel EXCEPT !.tab = tab] EXCEPT !.requested = @ \/ asks]
             /\ toServer' = toServer \o (IF asks THEN <<Question_Line(selected)>> ELSE <<>>)
             /\ first' = IF first = Unselected /\ asks THEN selected ELSE first
  BY DEF PicksTab, Question_Line, Question
<1> DEFINE picked == [panel EXCEPT !.tab = tab]
           asks == Fetches(picked)
           none == <<>>
<1>2. picked = [openedAt |-> panel.openedAt, tab |-> tab, form |-> panel.form,
                topic |-> panel.topic, requested |-> panel.requested]
  BY <1>0 DEF ShapedPanel
<1>3. panel' = [picked EXCEPT !.requested = @ \/ asks]
  BY <1>1
<1>4. asks => ~panel.requested
  <2> HIDE DEF picked
  <2> QED BY <1>2 DEF Fetches
<1>5. asks \in BOOLEAN
  BY DEF Fetches
<1>6. Sends(selected, none, asks)
  <2>1. toServer \o none = toServer
    BY <1>0
  <2>2. toServer' = toServer \o (IF asks THEN <<Question_Line(selected)>> ELSE <<>>)
        /\ first' = IF first = Unselected /\ asks THEN selected ELSE first
    BY <1>1
  <2> HIDE DEF asks
  <2>3. toServer' = toServer \o none \o (IF asks THEN <<Question_Line(selected)>> ELSE <<>>)
    BY <2>1, <2>2
  <2> HIDE DEF none
  <2> QED BY <2>2, <2>3 DEF Sends
<1> HIDE DEF asks, picked
<1>7. panel' = [openedAt |-> panel.openedAt, tab |-> tab, form |-> panel.form,
                topic |-> panel.topic, requested |-> panel.requested \/ asks]
  BY <1>2, <1>3
<1>8. panel'.requested = (panel.requested \/ asks) /\ panel' # Unmounted
  BY <1>7 DEF Unmounted
<1>9. panel'.requested = (Asked_Before \/ asks) /\ (asks => ~Asked_Before)
  BY <1>0, <1>4, <1>8 DEF Asked_Before
<1>10. none \in Seq(AskLines) /\ NoQuestions(none)
  BY NoNone
<1> HIDE DEF none
<1> QED BY <1>0, <1>5, <1>6, <1>8, <1>9, <1>10, QuestionGoes DEF Ours

\* An edit asks nothing.
LEMMA EditsOurs == TypeInv /\ Edits => Ours
<1> SUFFICES ASSUME TypeInv, Edits PROVE Ours
  OBVIOUS
<1>0. /\ panel # Unmounted /\ ShapedPanel(panel) /\ UNCHANGED <<toServer, first>>
  BY DEF Edits, OnSettings, TypeInv, FormInv
<1>1. panel' # Unmounted /\ panel'.requested = panel.requested
  <2>1. (\E f : panel' = [panel EXCEPT !.form = f]) \/ (\E t : panel' = [panel EXCEPT !.topic = t])
    BY DEF Edits
  <2>2. CASE \E f : panel' = [panel EXCEPT !.form = f]
    <3>1. PICK f : panel' = [panel EXCEPT !.form = f]
      BY <2>2
    <3>2. panel' = [openedAt |-> panel.openedAt, tab |-> panel.tab, form |-> f,
                    topic |-> panel.topic, requested |-> panel.requested]
      BY <1>0, <3>1 DEF ShapedPanel
    <3> QED BY <3>2 DEF Unmounted
  <2>3. CASE \E t : panel' = [panel EXCEPT !.topic = t]
    <3>1. PICK t : panel' = [panel EXCEPT !.topic = t]
      BY <2>3
    <3>2. panel' = [openedAt |-> panel.openedAt, tab |-> panel.tab, form |-> panel.form,
                    topic |-> t, requested |-> panel.requested]
      BY <1>0, <3>1 DEF ShapedPanel
    <3> QED BY <3>2 DEF Unmounted
  <2> QED BY <2>1, <2>2, <2>3
<1> QED BY <1>0, <1>1 DEF Ours, Unasked, Asking, Done

\* The lines of a save are no question.
LEMMA LinesAsk ==
    ASSUME NEW c, NEW cs \in Seq(Sendable) PROVE NoQuestions(SaveLines(c, cs))
<1>1. SaveLines(c, cs) = [i \in 1..Pieces(cs) |-> Line(c, Piece(cs, i))] /\ Pieces(cs) \in Nat
      /\ \A i \in 1..Pieces(cs) : Piece(cs, i) \in Seq(Sendable)
  BY LinesAre, PiecesAre
<1>2. \A i \in 1..Pieces(cs) : ~IsQuestion(Line(c, Piece(cs, i)))
  BY <1>1, ChangesAsk
<1> QED BY <1>1, <1>2 DEF NoQuestions

\* A save asks at most what its render does.
LEMMA SavesOurs == TypeInv /\ Saves => Ours
<1> SUFFICES ASSUME TypeInv, Saves PROVE Ours
  OBVIOUS
<1> DEFINE sh == [shell EXCEPT !.open = FALSE]
           topic == IF TopicChanged THEN <<Text(selected, "TOPIC", panel.topic)>> ELSE <<>>
           own == SaveLines(selected, Pending)
           lines == own \o topic
           replaces == FALSE
<1>1. /\ selected \in Channels /\ Pending \in Seq(Sendable) /\ sh \in ShellSet
      /\ own \in Seq(AskLines) /\ topic \in Seq(AskLines) /\ lines \in Seq(AskLines)
      /\ Show(known, selected, sh, replaces, lines)
  BY SaveIs
<1>2. NoQuestions(own)
  BY <1>1, LinesAsk
<1>3. NoQuestions(topic)
  <2> DEFINE m == Text(selected, "TOPIC", panel.topic)
  <2>1. m.what = "TOPIC"
    BY DEF Text
  <2>2. topic = IF TopicChanged THEN <<m>> ELSE <<>>
    OBVIOUS
  <2> HIDE DEF m, topic
  <2>3. NoQuestions(<<m>>)
    BY <2>1, NoOther DEF IsQuestion
  <2> QED BY <2>2, <2>3, NoNone
<1>4. NoQuestions(lines)
  <2> HIDE DEF own, topic
  <2> QED BY <1>1, <1>2, <1>3, NoMore
<1>5. selected # Unselected
  BY <1>1, PanelAssumption
<1> HIDE DEF lines, sh, replaces
<1> QED BY <1>1, <1>4, <1>5, ShowAsks DEF Ours

\* So do the lines of the table and of the conversation.
LEMMA AsksOurs == TypeInv /\ Asks => Ours
<1> SUFFICES ASSUME TypeInv, Asks PROVE Ours
  OBVIOUS
<1>0. shell \in ShellSet
  BY DEF TypeInv, FormInv, ShellSet
<1>1. selected \in Channels
  BY AskIs
<1>2. PICK cs \in Seq(Sendable) : Show(known, selected, shell, FALSE, <<Line(selected, cs)>>)
  BY AskIs
<1> DEFINE x == Line(selected, cs)
           lines == <<x>>
           replaces == FALSE
<1>3. NoQuestions(lines)
  <2>1. ~IsQuestion(x)
    BY <1>2, ChangesAsk
  <2> HIDE DEF x
  <2> QED BY <2>1, NoOther
<1>4. lines \in Seq(AskLines) /\ Show(known, selected, shell, replaces, lines)
  <2>1. x \in AskLines
    BY <1>1, LineAsks
  <2>2. Show(known, selected, shell, replaces, lines)
    BY <1>2
  <2>3. lines \in Seq(AskLines)
    <3> HIDE DEF x
    <3> QED BY <2>1
  <2> HIDE DEF lines
  <2> QED BY <2>2, <2>3
<1>5. selected # Unselected
  BY <1>1, PanelAssumption
<1> HIDE DEF x, lines, replaces
<1> QED BY <1>0, <1>1, <1>3, <1>4, <1>5, ShowAsks DEF Ours

\* A render that comes with no line of its own.
LEMMA RenderOurs ==
    ASSUME TypeInv, NEW k, NEW s \in Channels \cup {Unselected}, NEW sh \in ShellSet, NEW replaces,
           Show(k, s, sh, replaces, <<>>),
           selected = Unselected => first = Unselected \/ s = Unselected
    PROVE  Ours
<1> DEFINE none == <<>>
<1>1. none \in Seq(AskLines) /\ NoQuestions(none) /\ Show(k, s, sh, replaces, none)
  BY NoNone
<1> HIDE DEF none
<1> QED BY <1>1, ShowAsks DEF Ours

\* The steps that only render.
LEMMA ShownOurs ==
    ASSUME TypeInv, ListInv, mounts' \in {0, 1}, Selects \/ Opens \/ Closes \/ ClientReads
    PROVE  Ours
<1>0. shell \in ShellSet /\ selected \in Channels \cup {Unselected}
  BY DEF TypeInv, FormInv, ShellSet
<1>1. CASE Selects
  <2>1. PICK s \in (Channels \cup {Unselected}) \ {selected} : Show(known, s, shell, TRUE, <<>>)
    BY <1>1 DEF Selects
  <2>2. mounts' = IF selected = Unselected THEN mounts + 1 ELSE mounts
    BY <1>1 DEF Selects
  <2>3. selected = Unselected => first = Unselected
    BY <2>2 DEF ListInv
  <2> DEFINE replaces == TRUE
  <2>4. Show(known, s, shell, replaces, <<>>)
    BY <2>1
  <2> HIDE DEF replaces
  <2> QED BY <1>0, <2>1, <2>3, <2>4, RenderOurs
<1>2. CASE Opens \/ Closes
  <2>1. PICK sh \in ShellSet : ShowShell(sh)
    <3>1. CASE Opens
      BY <3>1 DEF Opens, ShellSet
    <3>2. CASE Closes
      <4> DEFINE sh == [shell EXCEPT !.open = FALSE]
      <4>1. sh \in ShellSet /\ ShowShell(sh)
        BY <1>0, <3>2 DEF Closes, ShellSet
      <4> QED BY <4>1
    <3> QED BY <1>2, <3>1, <3>2
  <2> DEFINE replaces == FALSE
  <2>2. Show(known, selected, sh, replaces, <<>>)
    BY <2>1 DEF ShowShell
  <2> HIDE DEF replaces
  <2> QED BY <1>0, <2>1, <2>2, RenderOurs
<1>3. CASE ClientReads
  <2> DEFINE m == Head(toClient)
             k == [known EXCEPT ![m.c] = New(known[m.c], m)]
             replaces == m.c = selected /\ m.what \in {"MODE", "324"}
  <2>1. Show(k, selected, shell, replaces, <<>>)
    BY <1>3, ClientReadIs
  <2> HIDE DEF k, replaces
  <2> QED BY <1>0, <2>1, RenderOurs
<1> QED BY <1>1, <1>2, <1>3

\* Before the panel was mounted there is nothing to ask.
LEMMA MountsStep ==
    ASSUME TypeInv, ListInv, [Next]_vars
    PROVE  /\ mounts' \in Nat /\ mounts <= mounts'
           /\ mounts' = 0 => selected' = Unselected /\ first' = Unselected
<1>0. /\ mounts \in Nat /\ (mounts = 0 => selected = Unselected /\ first = Unselected)
      /\ panel = Unmounted <=> selected = Unselected
      /\ Unselected \notin Channels
  BY PanelAssumption DEF ListInv, TypeInv, FormInv
<1>1. CASE Selects
  <2>1. mounts' = IF selected = Unselected THEN mounts + 1 ELSE mounts
    BY <1>1 DEF Selects
  <2> QED BY <1>0, <2>1
<1>2. CASE Opens \/ Closes \/ PicksTab \/ Edits \/ Saves \/ Asks
  <2>1. mounts' = mounts /\ panel # Unmounted
    BY <1>2 DEF Opens, Closes, PicksTab, Edits, Saves, Asks, OnSettings
  <2> QED BY <1>0, <2>1
<1>3. CASE ServerReads \/ SomebodyChanges \/ UNCHANGED vars
  <2>1. UNCHANGED <<mounts, selected, first>>
    BY <1>3 DEF ServerReads, SomebodyChanges, vars
  <2> QED BY <1>0, <2>1
<1>4. CASE ClientReads
  <2>1. mounts' = mounts
    BY <1>4 DEF ClientReads
  <2>2. selected' = selected /\ (selected = Unselected => first' = first)
    BY <1>4 DEF ClientReads, Show
  <2> QED BY <1>0, <2>1, <2>2
<1> QED BY <1>1, <1>2, <1>3, <1>4 DEF Next

\* What a step of ours has to leave of the server's side.
LEMMA ListBy ==
    ASSUME TypeInv, ListInv, [Next]_vars, answered' = answered,
           mounts' \in {0, 1} => Ours,
           Untold => Untold',
           Done /\ Answers(first) /\ first' = first => Answers(first)'
    PROVE  ListInv'
<1>1. /\ mounts' \in Nat /\ mounts <= mounts'
      /\ mounts' = 0 => selected' = Unselected /\ first' = Unselected
  BY MountsStep
<1>2. answered' = [c \in Channels |-> answered'[c]]
  BY DEF ListInv
<1>3. ASSUME mounts' <= 1
      PROVE  (((Unasked \/ Asking) /\ Untold) \/ (Done /\ Answers(first)))'
  <2>1. mounts \in Nat /\ mounts <= 1 /\ mounts' \in {0, 1}
    BY <1>1, <1>3 DEF ListInv
  <2>2. Ours
    BY <2>1
  <2>3. CASE (Unasked \/ Asking) /\ Untold
    BY <2>2, <2>3 DEF Ours
  <2>4. CASE Done /\ Answers(first)
    BY <2>2, <2>4 DEF Ours
  <2> QED BY <2>1, <2>3, <2>4 DEF ListInv
<1> QED BY <1>1, <1>2, <1>3 DEF ListInv

\* The user's steps leave the server's side.
LEMMA ListOurs ==
    ASSUME TypeInv, ListInv, Selects \/ Opens \/ Closes \/ PicksTab \/ Edits \/ Saves \/ Asks
    PROVE  ListInv'
<1>1. UNCHANGED <<known, toClient, answered>>
  BY DEF Selects, Opens, Closes, PicksTab, Edits, Saves, Asks, server, ShowShell, Show
<1>2. mounts' \in {0, 1} => Ours
  BY ShownOurs, PicksOurs, EditsOurs, SavesOurs, AsksOurs
<1>3. Untold => Untold'
  BY <1>1 DEF Untold
<1>4. Done /\ Answers(first) /\ first' = first => Answers(first)'
  BY <1>1 DEF Answers
<1>5. [Next]_vars
  BY DEF Next
<1> QED BY <1>1, <1>2, <1>3, <1>4, <1>5, ListBy

\* The client takes the first of the lines.
LEMMA ListClientReads ==
    ASSUME TypeInv, ListInv, ClientReads
    PROVE  ListInv'
<1> DEFINE m == Head(toClient)
           k == [known EXCEPT ![m.c] = New(known[m.c], m)]
<1>1. /\ toClient # <<>> /\ m \in TellLines /\ m.c \in Channels
      /\ toClient' = Tail(toClient)
      /\ Show(k, selected, shell, m.c = selected /\ m.what \in {"MODE", "324"}, <<>>)
      /\ answered' = answered
  BY ClientReadIs
<1>2. known' = k
  BY <1>1 DEF Show
<1>3. known \in [Channels -> KnownSet] /\ toClient \in Seq(TellLines)
  BY DEF TypeInv, ClientType, ServerType
<1>4. ASSUME NEW c \in Channels
      PROVE  Table(known'[c]) = Tabled(c, Table(known[c]), m)
  <2>1. CASE m.c = c
    <3>1. known'[c] = New(known[c], m)
      BY <1>2, <1>3, <2>1
    <3>2. Table(New(known[c], m)) = Tabled(m.c, Table(known[c]), m)
      BY <1>1, <1>3, NewIs
    <3> QED BY <2>1, <3>1, <3>2
  <2>2. CASE m.c # c
    <3>1. known'[c] = known[c]
      BY <1>2, <1>3, <2>2
    <3>2. Tabled(c, Table(known[c]), m) = Table(known[c])
      BY <2>2 DEF Tabled
    <3> QED BY <3>1, <3>2
  <2> QED BY <2>1, <2>2
<1>5. ASSUME Untold PROVE Untold'
  <2>1. NoLists(toClient) /\ \A c \in Channels : Table(known[c]) = Blank
    BY <1>5 DEF Untold
  <2>2. Head(toClient) = toClient[1] /\ 1 \in 1..Len(toClient)
        /\ \A i \in 1..Len(Tail(toClient)) : Tail(toClient)[i] = toClient[i + 1] /\ i + 1 \in 1..Len(toClient)
    BY <1>1, <1>3
  <2>3. NoLists(toClient')
    BY <1>1, <2>1, <2>2 DEF NoLists
  <2>4. m.what \notin {"367", "368"}
    BY <2>1, <2>2 DEF NoLists
  <2> HIDE DEF m, k
  <2>5. m.what \in {"MODE", "324", "TOPIC"}
    BY <1>1, <2>4, TellLinesAre
  <2>6. \A t, c : Tabled(c, t, m) = t
    BY <2>5 DEF Tabled
  <2>7. \A c \in Channels : Table(known'[c]) = Blank
    BY <1>4, <2>1, <2>6
  <2> QED BY <2>3, <2>7 DEF Untold
<1>6. ASSUME Done, Answers(first), first' = first PROVE Answers(first)'
  <2> DEFINE c == first
             t == Table(known[c])
  <2>0. c \in Channels
    BY <1>6 DEF Done
  <2>1. PICK s \in Seq({"n"}) :
           /\ answered[c] = [what |-> "bans", bans |-> ToSet(s)]
           /\ IsInjective(s)
           /\ Comes("tabled", c, t, toClient, [bans |-> s, loading |-> FALSE])
    BY <1>6 DEF Answers
  <2> DEFINE e == [bans |-> s, loading |-> FALSE]
  <2>2. Comes("tabled", c, t, toClient, e)
    BY <2>1
  <2>3. Along("tabled", c, t, m) = Table(known'[c])
    <3>1. Along("tabled", c, t, m) = Tabled(c, t, m)
      BY AlongIs
    <3> QED BY <1>4, <2>0, <3>1
  <2> HIDE DEF e, t, m, k
  <2>4. Comes("tabled", c, Along("tabled", c, t, m), Tail(toClient), e)
    BY <1>1, <1>3, <2>2, ComesOn DEF m
  <2>5. Comes("tabled", c, Table(known'[c]), toClient', e)
    BY <1>1, <2>3, <2>4
  <2>6. Comes("tabled", first', Table(known'[first']), toClient', [bans |-> s, loading |-> FALSE])
    BY <1>6, <2>5 DEF e
  <2>7. answered'[first'] = [what |-> "bans", bans |-> ToSet(s)]
    BY <1>1, <1>6, <2>1
  <2> QED BY <2>1, <2>6, <2>7 DEF Answers
<1>7. [Next]_vars
  BY DEF Next
<1>8. mounts' \in {0, 1} => Ours
  BY ShownOurs
<1> QED BY <1>1, <1>5, <1>6, <1>7, <1>8, ListBy

\* Lines about no list are sent to the client.
LEMMA ListTold ==
    ASSUME TypeInv, NEW lines \in Seq(TellLines), NoLists(lines),
           toClient' = toClient \o lines, UNCHANGED <<known, first, answered>>
    PROVE  /\ Untold => Untold'
           /\ Done /\ Answers(first) => Answers(first)'
<1>0. toClient \in Seq(TellLines)
  BY DEF TypeInv, ServerType
<1>1. Untold => Untold'
  BY <1>0, NoListsMore DEF Untold
<1>2. ASSUME Done, Answers(first) PROVE Answers(first)'
  <2> DEFINE c == first
             t == Table(known[c])
  <2>1. PICK s \in Seq({"n"}) :
           /\ answered[c] = [what |-> "bans", bans |-> ToSet(s)]
           /\ IsInjective(s)
           /\ Comes("tabled", c, t, toClient, [bans |-> s, loading |-> FALSE])
    BY <1>2 DEF Answers
  <2> DEFINE e == [bans |-> s, loading |-> FALSE]
  <2>2. Comes("tabled", c, t, toClient, e)
    BY <2>1
  <2>3. \A i \in 1..Len(lines) : lines[i].c = c => lines[i].what \notin {"367", "368"}
    BY DEF NoLists
  <2> HIDE DEF e, t
  <2>4. Comes("tabled", c, e, lines, e)
    BY <2>3, TabledOther
  <2>5. Comes("tabled", c, t, toClient \o lines, e)
    BY <1>0, <2>2, <2>4, ComesThen
  <2>6. Comes("tabled", first', Table(known'[first']), toClient', [bans |-> s, loading |-> FALSE])
    BY <2>5 DEF e, t
  <2> QED BY <2>1, <2>6 DEF Answers
<1> QED BY <1>1, <1>2

\* What somebody changes is about no list.
LEMMA ListSomebody ==
    ASSUME TypeInv, ListInv, SomebodyChanges
    PROVE  ListInv'
<1>1. PICK b \in Channels :
         /\ held[b] \in HeldSet
         /\ \/ \E sent \in Seq(Sendable) :
                  toClient' = toClient \o Told(b, Served(held[b], sent).done)
            \/ \E text \in Topics : toClient' = Append(toClient, Text(b, "TOPIC", text))
         /\ UNCHANGED <<toServer, known, selected, panel, first, answered, mounts>>
  BY SomebodyIs
<1>2. PICK lines \in Seq(TellLines) : NoLists(lines) /\ toClient' = toClient \o lines
  <2>1. CASE \E sent \in Seq(Sendable) :
                  toClient' = toClient \o Told(b, Served(held[b], sent).done)
    <3>1. PICK sent \in Seq(Sendable) : toClient' = toClient \o Told(b, Served(held[b], sent).done)
      BY <2>1
    <3> DEFINE done == Served(held[b], sent).done
    <3>2. done \in Seq(Sendable)
      BY <1>1, ServedIs
    <3>3. Told(b, done) \in Seq(TellLines) /\ NoLists(Told(b, done))
      <4> HIDE DEF done
      <4> QED BY <3>2, ToldType, ToldNoLists
    <3> QED BY <3>1, <3>3
  <2>2. CASE \E text \in Topics : toClient' = Append(toClient, Text(b, "TOPIC", text))
    <3>1. PICK text \in Topics : toClient' = Append(toClient, Text(b, "TOPIC", text))
      BY <2>2
    <3> DEFINE m == Text(b, "TOPIC", text)
    <3>2. m \in TellLines /\ m.what = "TOPIC"
      BY TopicAsks DEF Text
    <3>3. toClient \in Seq(TellLines)
      BY DEF TypeInv, ServerType
    <3> HIDE DEF m
    <3>4. <<m>> \in Seq(TellLines) /\ Append(toClient, m) = toClient \o <<m>> /\ NoLists(<<m>>)
      BY <3>2, <3>3, NoListsOne
    <3> QED BY <3>1, <3>4 DEF m
  <2> QED BY <1>1, <2>1, <2>2
<1>3. /\ Untold => Untold'
      /\ Done /\ Answers(first) => Answers(first)'
  BY <1>1, <1>2, ListTold
<1>4. Ours
  BY <1>1 DEF Ours, Unasked, Asking, Done
<1>5. [Next]_vars
  BY DEF Next
<1> QED BY <1>1, <1>3, <1>4, <1>5, ListBy

\* The server reads a line that is no question.
LEMMA ListOtherRead ==
    ASSUME TypeInv, ListInv, ServerReads, ~IsQuestion(Head(toServer))
    PROVE  /\ Untold => Untold'
           /\ Done /\ Answers(first) => Answers(first)'
           /\ answered' = answered
<1> DEFINE m == Head(toServer)
           h == held[m.c]
           cs == Asked(m)
<1>1. m.c \in Channels /\ h \in HeldSet /\ m \in AskLines /\ UNCHANGED <<known, first>>
  BY ServerReadIs
<1>2. CASE m.what = "TOPIC"
  <2>1. /\ m.text \in Topics /\ m = Text(m.c, "TOPIC", m.text)
        /\ toClient' = toClient \o <<m>> /\ answered' = answered
    BY <1>2, ServerReadIs
  <2>2. m \in TellLines
    BY <1>1, <2>1, TopicAsks
  <2> DEFINE lines == <<m>>
  <2>3. lines \in Seq(TellLines) /\ NoLists(lines)
    <3> HIDE DEF m
    <3> QED BY <1>2, <2>2, NoListsOne
  <2>4. toClient' = toClient \o lines
    BY <2>1
  <2> HIDE DEF lines
  <2> QED BY <1>1, <2>1, <2>3, <2>4, ListTold
<1>3. CASE m.what # "TOPIC"
  <2>1. /\ m.what = "MODE" /\ cs \in Seq(Sendable) \cup {<<Question>>}
        /\ toClient' = toClient \o Answer(m.c, h, cs)
        /\ answered' = [answered EXCEPT ![m.c] =
                            IF cs = <<Question>> THEN [what |-> "bans", bans |-> h.bans]
                            ELSE answered[m.c]]
    BY <1>3, ServerReadIs
  <2>2. cs # <<Question>>
    BY <2>1 DEF IsQuestion
  <2>3. answered' = answered
    <3>1. answered = [c \in Channels |-> answered[c]]
      BY DEF ListInv
    <3>2. answered' = [answered EXCEPT ![m.c] = answered[m.c]]
      BY <2>1, <2>2
    <3> QED BY <3>1, <3>2
  <2> DEFINE lines == Answer(m.c, h, cs)
  <2>4. lines \in Seq(TellLines) /\ NoLists(lines)
    <3> HIDE DEF m, h, cs
    <3> QED BY <1>1, <2>1, <2>2, AnswerNoLists
  <2>5. toClient' = toClient \o lines
    BY <2>1
  <2> HIDE DEF lines
  <2> QED BY <1>1, <2>3, <2>4, <2>5, ListTold
<1> QED BY <1>2, <1>3

\* The server reads the question.
LEMMA ListQuestionRead ==
    ASSUME TypeInv, ListInv, ServerReads, first \in Channels, Untold,
           Head(toServer) = Question_Line(first)
    PROVE  /\ Answers(first)'
           /\ answered' = [c \in Channels |-> answered'[c]]
<1> DEFINE c == first
           m == Head(toServer)
           h == held[m.c]
           cs == Asked(m)
<1>1. m.c = c /\ m.what = "MODE" /\ cs = <<Question>>
  BY ThatIsQuestion DEF IsQuestion
<1>2. /\ h \in HeldSet /\ UNCHANGED <<known, first>>
      /\ toClient' = toClient \o Answer(m.c, h, cs)
      /\ answered' = [answered EXCEPT ![m.c] =
                          IF cs = <<Question>> THEN [what |-> "bans", bans |-> h.bans]
                          ELSE answered[m.c]]
  BY <1>1, ServerReadIs
<1>3. toClient \in Seq(TellLines) /\ answered = [b \in Channels |-> answered[b]]
  BY DEF TypeInv, ServerType, ListInv
<1>4. Answer(c, h, cs) = BansOf(c, h) /\ Answer(c, h, cs) \in Seq(TellLines)
  <2> HIDE DEF m, h, cs
  <2>1. cs \in Seq(Sendable) \cup {<<Question>>}
    BY <1>1
  <2> QED BY <1>1, <1>2, <2>1, AnswerIs
<1>5. PICK s \in Seq({"n"}) :
              /\ ToSet(s) = h.bans
              /\ IsInjective(s)
              /\ Comes("tabled", c, Blank, BansOf(c, h), [bans |-> s, loading |-> FALSE])
  <2> HIDE DEF h
  <2> QED BY <1>2, TabledAnswer
<1> DEFINE e == [bans |-> s, loading |-> FALSE]
           lines == BansOf(c, h)
<1>6. Comes("tabled", c, Blank, lines, e)
  BY <1>5
<1>7. toClient' = toClient \o lines /\ lines \in Seq(TellLines)
  BY <1>1, <1>2, <1>4
<1>8. Comes("tabled", c, Blank, toClient, Blank)
  <2>1. \A i \in 1..Len(toClient) : toClient[i].c = c => toClient[i].what \notin {"367", "368"}
    BY DEF Untold, NoLists
  <2> QED BY <1>3, <2>1, TabledOther
<1>9. Table(known[c]) = Blank
  BY DEF Untold
<1>10. answered'[c] = [what |-> "bans", bans |-> ToSet(s)]
  <2>1. answered' = [answered EXCEPT ![c] = [what |-> "bans", bans |-> h.bans]]
    BY <1>1, <1>2
  <2> HIDE DEF h
  <2> QED BY <1>3, <1>5, <2>1
<1>11. answered' = [b \in Channels |-> answered'[b]]
  BY <1>2, <1>3
<1> HIDE DEF e, lines
<1>12. Comes("tabled", c, Blank, toClient \o lines, e)
  BY <1>3, <1>6, <1>7, <1>8, ComesThen
<1>13. Comes("tabled", first', Table(known'[first']), toClient', [bans |-> s, loading |-> FALSE])
  BY <1>2, <1>7, <1>9, <1>12 DEF e
<1> QED BY <1>2, <1>5, <1>10, <1>11, <1>13 DEF Answers

\* The server answers the question once.
LEMMA ListServerReads ==
    ASSUME TypeInv, ListInv, ServerReads
    PROVE  ListInv'
<1>1. /\ toServer # <<>> /\ toServer \in Seq(AskLines) /\ toServer' = Tail(toServer)
      /\ UNCHANGED <<known, selected, panel, first, mounts>>
  BY ServerReadIs DEF TypeInv, ClientType
<1>2. CASE IsQuestion(Head(toServer)) /\ mounts <= 1
  <2>1. \/ (Unasked \/ Asking) /\ Untold
        \/ Done /\ Answers(first)
    BY <1>2 DEF ListInv
  <2>2. ~NoQuestions(toServer)
    BY <1>1, <1>2, NoTail
  <2>3. Asking /\ Untold
    BY <2>1, <2>2 DEF Unasked, Done
  <2>4. Head(toServer) = Question_Line(first) /\ NoQuestions(toServer')
    BY <1>1, <1>2, <2>3, OneTail DEF Asking
  <2>5. Answers(first)' /\ answered' = [c \in Channels |-> answered'[c]]
    BY <2>3, <2>4, ListQuestionRead DEF Asking
  <2>6. Done'
    BY <1>1, <2>3, <2>4 DEF Asking, Done
  <2> QED BY <1>1, <2>5, <2>6 DEF ListInv
<1>3. CASE ~IsQuestion(Head(toServer))
  <2>1. Ours
    <3>1. NoQuestions(toServer) => NoQuestions(toServer')
      BY <1>1, NoTail
    <3>2. OneQuestion(first, toServer) => OneQuestion(first, toServer')
      <4>1. Head(toServer) # Question_Line(first)
        BY <1>3, ThatIsQuestion
      <4> QED BY <1>1, <4>1, OneTail
    <3> QED BY <1>1, <3>1, <3>2 DEF Ours, Unasked, Asking, Done
  <2>2. [Next]_vars
    BY DEF Next
  <2> QED BY <1>3, <2>1, <2>2, ListOtherRead, ListBy
<1>4. CASE ~(mounts <= 1)
  <2>1. answered' = [c \in Channels |-> answered'[c]]
    <3>1. answered = [c \in Channels |-> answered[c]]
      BY DEF ListInv
    <3>2. answered' = answered \/ \E b, a : answered' = [answered EXCEPT ![b] = a]
      BY ServerReadIs
    <3> QED BY <3>1, <3>2
  <2> QED BY <1>1, <1>4, <2>1 DEF ListInv
<1> QED BY <1>2, <1>3, <1>4

\* Each step keeps the question with its answer.
LEMMA ListStep == TypeInv /\ ListInv /\ [Next]_vars => ListInv'
<1> SUFFICES ASSUME TypeInv, ListInv, [Next]_vars PROVE ListInv'
  OBVIOUS
<1>1. CASE UNCHANGED vars
  <2>1. Ours
    BY <1>1 DEF Ours, Unasked, Asking, Done, vars
  <2>2. (Untold => Untold') /\ (Answers(first) => Answers(first)') /\ answered' = answered
    BY <1>1 DEF Untold, Answers, vars
  <2> QED BY <2>1, <2>2, ListBy
<1> QED BY <1>1, ListOurs, ListClientReads, ListServerReads, ListSomebody DEF Next

\* With no lines under way, the table is what was answered.
LEMMA ListSuffices == TypeInv /\ ListInv => ListShown
<1> SUFFICES ASSUME TypeInv, ListInv, first # Unselected, mounts = 1, Idle(first)
             PROVE  /\ answered[first] # Nothing
                    /\ ToSet(known[first].bans) = answered[first].bans
                    /\ IsInjective(known[first].bans)
                    /\ ~known[first].loading
  BY DEF ListShown
<1>0. /\ toServer \in Seq(AskLines) /\ toClient \in Seq(TellLines)
      /\ \A i \in 1..Len(toServer) : toServer[i].c # first
      /\ \A i \in 1..Len(toClient) : toClient[i].c # first
  BY DEF TypeInv, ClientType, ServerType, Idle
<1>1. Done /\ Answers(first)
  <2>1. ~Unasked
    BY DEF Unasked
  <2>2. ~Asking
    BY <1>0, ThatIsQuestion DEF Asking, OneQuestion
  <2> QED BY <2>1, <2>2 DEF ListInv
<1> DEFINE t == Table(known[first])
<1>2. PICK s \in Seq({"n"}) :
         /\ answered[first] = [what |-> "bans", bans |-> ToSet(s)]
         /\ IsInjective(s)
         /\ Comes("tabled", first, t, toClient, [bans |-> s, loading |-> FALSE])
  BY <1>1 DEF Answers
<1> DEFINE e == [bans |-> s, loading |-> FALSE]
<1>3. Comes("tabled", first, t, toClient, e)
  BY <1>2
<1>4. e.bans = s /\ ~e.loading /\ t.bans = known[first].bans /\ t.loading = known[first].loading
  BY DEF Table
<1>5. answered[first].bans = ToSet(s) /\ answered[first] # Nothing
  BY <1>2 DEF Nothing
<1> HIDE DEF e, t
<1>6. Comes("tabled", first, t, toClient, t)
  BY <1>0, TabledOther
<1>7. t = e
  BY <1>0, <1>3, <1>6, ComesOne
<1>8. known[first].bans = s /\ ~known[first].loading
  BY <1>4, <1>7
<1> QED BY <1>2, <1>5, <1>8

----------------------------------------------------------------------------

(* The result.                                                             *)

AgreesInv == TypeInv /\ SeenInv /\ SavedInv /\ ListInv

\* The inductive invariant: the types, what is known brought up to date by
\* the lines under way, what was saved brought about by them, and the one
\* question for the ban table with its one answer.
THEOREM AgreesInductive ==
    /\ Init => AgreesInv
    /\ AgreesInv /\ [Next]_vars => AgreesInv'
    /\ AgreesInv => AgreesWithServer
<1>1. Init => AgreesInv
  BY TypeInit, SeenInit, SavedInit, ListInit DEF AgreesInv
<1>2. AgreesInv /\ [Next]_vars => AgreesInv'
  BY TypeStep, SeenStep, SavedStep, ListStep DEF AgreesInv
<1>3. AgreesInv => AgreesWithServer
  BY TypeSuffices, SeenSuffices, SavedSuffices, ListSuffices DEF AgreesInv, AgreesWithServer
<1> QED BY <1>1, <1>2, <1>3

\* For any channels, any MODES limit, and however long it goes on: once no
\* line about a channel is under way, what the client knows of it is what the
\* server holds (reduce.ts), what was saved of it took effect in however many
\* commands it was sent, and the ban table shows what was answered, once
\* (ChannelPanel.tsx).
THEOREM AlwaysAgrees == Spec => []AgreesWithServer
<1>1. Init => AgreesInv
  BY AgreesInductive
<1>2. AgreesInv /\ [Next]_vars => AgreesInv'
  BY AgreesInductive
<1>3. AgreesInv => AgreesWithServer
  BY AgreesInductive
<1> QED BY <1>1, <1>2, <1>3, PTL DEF Spec

----------------------------------------------------------------------------
(* The member list: what it is right for.                                  *)

\* What the member list is right for (see MembersAgree).
Orderly == Amid \subseteq {"JOIN", "MODE"}

----------------------------------------------------------------------------
(* Making the changes held back again, one by one.                         *)

Redoes(t, s, g) ==
    g = [d \in SUBSET DOMAIN s |-> IF d = {} THEN t ELSE Altered(g[d \ {Max(d)}], s[Max(d)])]

\* The recursion there is in a fold has a solution.
LEMMA Foldable ==
    ASSUME NEW t, NEW S, NEW s \in Seq(S)
    PROVE  \E g : Redoes(t, s, g)
<1> DEFINE Upto(k, g) == g = [d \in SUBSET (1..k) |->
                                IF d = {} THEN t ELSE Altered(g[d \ {Max(d)}], s[Max(d)])]
           G == {k \in 0..Len(s) : \E g : Upto(k, g)}
<1>1. 0 \in G
  <2> DEFINE g == [d \in SUBSET (1..0) |-> t]
  <2>1. \A d \in SUBSET (1..0) : d = {}
    OBVIOUS
  <2>2. Upto(0, g)
    BY <2>1
  <2>3. 0 \in 0..Len(s)
    <3>1. Len(s) \in Nat
      OBVIOUS
    <3> QED BY <3>1
  <2>4. \E q : Upto(0, q)
    <3> HIDE DEF Upto, g
    <3> QED BY <2>2
  <2> HIDE DEF Upto, g
  <2> QED BY <2>3, <2>4
<1>2. ASSUME NEW k \in 1..Len(s), k - 1 \in G PROVE k \in G
  <2>1. PICK g : Upto(k - 1, g)
    BY <1>2
  <2> DEFINE h == [d \in SUBSET (1..k) |-> IF k \in d THEN Altered(g[d \ {k}], s[k]) ELSE g[d]]
  <2> HIDE DEF Upto
  <2>2. ASSUME NEW d \in SUBSET (1..k)
        PROVE  h[d] = IF d = {} THEN t ELSE Altered(h[d \ {Max(d)}], s[Max(d)])
    <3>1. CASE k \in d
      <4>1. Max(d) = k
        BY <3>1, MaxIs
      <4>2. d \ {k} \in SUBSET (1..(k - 1)) /\ d \ {k} \in SUBSET (1..k)
        OBVIOUS
      <4>3. h[d \ {k}] = g[d \ {k}]
        BY <4>2
      <4> QED BY <3>1, <4>1, <4>3
    <3>2. CASE k \notin d
      <4>1. d \in SUBSET (1..(k - 1))
        BY <3>2
      <4>2. h[d] = g[d]
        BY <3>2
      <4>3. g[d] = IF d = {} THEN t ELSE Altered(g[d \ {Max(d)}], s[Max(d)])
        BY <2>1, <4>1 DEF Upto
      <4>4. CASE d = {}
        BY <4>2, <4>3, <4>4
      <4>5. CASE d # {}
        <5>1. d \ {Max(d)} \in SUBSET (1..k) /\ k \notin d \ {Max(d)}
          BY <3>2
        <5>2. h[d \ {Max(d)}] = g[d \ {Max(d)}]
          BY <5>1
        <5> QED BY <4>2, <4>3, <4>5, <5>2
      <4> QED BY <4>4, <4>5
    <3> QED BY <3>1, <3>2
  <2>3. Upto(k, h)
    <3>1. h = [d \in SUBSET (1..k) |-> h[d]]
      OBVIOUS
    <3> HIDE DEF h
    <3>2. h = [d \in SUBSET (1..k) |->
                                IF d = {} THEN t ELSE Altered(h[d \ {Max(d)}], s[Max(d)])]
      BY <2>2, <3>1
    <3> QED BY <3>2 DEF Upto
  <2> QED BY <1>2, <2>3
<1>3. Len(s) \in G
  <2>1. Len(s) \in Nat
    OBVIOUS
  <2> HIDE DEF G
  <2>2. 0..Len(s) \subseteq G
    BY <1>1, <1>2, <2>1, UpTo
  <2> QED BY <2>1, <2>2
<1>4. PICK g : Upto(Len(s), g)
  BY <1>3
<1>5. DOMAIN s = 1..Len(s)
  OBVIOUS
<1>6. Redoes(t, s, g)
  BY <1>4, <1>5 DEF Redoes
<1> QED BY <1>6

\* The changes are made one after another.
LEMMA ReplayedSteps ==
    ASSUME NEW t, NEW S, NEW s \in Seq(S)
    PROVE  \E f : /\ f = [k \in 0..Len(s) |-> f[k]]
                  /\ f[0] = t /\ f[Len(s)] = Replayed(t, s)
                  /\ \A k \in 1..Len(s) : f[k] = Altered(f[k - 1], s[k])
<1> DEFINE g == CHOOSE g : Redoes(t, s, g)
<1>1. Replayed(t, s) = g[DOMAIN s]
  BY DEF Replayed, FoldLeft, MapThenFoldSet, Redoes
<1>2. Redoes(t, s, g)
  BY Foldable
<1> HIDE DEF g
<1> DEFINE f == [k \in 0..Len(s) |-> g[1..k]]
<1>3. f[0] = t
  <2>1. 1..0 = {} /\ f[0] = g[{}]
    OBVIOUS
  <2> HIDE DEF f
  <2> QED BY <1>2, <2>1 DEF Redoes
<1>4. f[Len(s)] = Replayed(t, s)
  BY <1>1
<1>5. ASSUME NEW k \in 1..Len(s) PROVE f[k] = Altered(f[k - 1], s[k])
  <2>0. DOMAIN s = 1..Len(s) /\ Len(s) \in Nat
    OBVIOUS
  <2>1. 1..k \in SUBSET DOMAIN s /\ 1..k # {} /\ k \in 1..k
    <3> HIDE DEF f
    <3> QED BY <2>0
  <2>2. Max(1..k) = k
    BY <2>1, MaxIs
  <2>3. g[1..k] = Altered(g[(1..k) \ {k}], s[k])
    BY <1>2, <2>1, <2>2 DEF Redoes
  <2>4. (1..k) \ {k} = 1..(k - 1)
    OBVIOUS
  <2> QED BY <2>3, <2>4
<1>6. f = [k \in 0..Len(s) |-> f[k]]
  OBVIOUS
<1> HIDE DEF f
<1> QED BY <1>3, <1>4, <1>5, <1>6

LEMMA ReplayedIs ==
    ASSUME NEW t, NEW S, NEW s \in Seq(S), NEW f, f[0] = t,
           \A k \in 1..Len(s) : f[k] = Altered(f[k - 1], s[k])
    PROVE  f[Len(s)] = Replayed(t, s)
<1>1. PICK g : /\ g[0] = t /\ g[Len(s)] = Replayed(t, s)
               /\ \A k \in 1..Len(s) : g[k] = Altered(g[k - 1], s[k])
  BY ReplayedSteps
<1> DEFINE G == {k \in 0..Len(s) : f[k] = g[k]}
<1>2. Len(s) \in Nat /\ 0 \in G
  BY <1>1
<1>3. \A k \in 1..Len(s) : k - 1 \in G => k \in G
  BY <1>1
<1>4. Len(s) \in G
  <2> HIDE DEF G
  <2>1. 0..Len(s) \subseteq G
    BY <1>2, <1>3, UpTo
  <2> QED BY <1>2, <2>1
<1> QED BY <1>1, <1>4

LEMMA ReplayedNone ==
    ASSUME NEW t
    PROVE  Replayed(t, <<>>) = t
<1>1. ASSUME NEW s \in Seq(Changes), Len(s) = 0 PROVE Replayed(t, s) = t
  <2>1. PICK f : f[0] = t /\ f[Len(s)] = Replayed(t, s)
    BY ReplayedSteps
  <2> QED BY <1>1, <2>1
<1>2. <<>> \in Seq(Changes) /\ Len(<<>>) = 0
  OBVIOUS
<1> QED BY <1>1, <1>2

LEMMA ReplayedAppend ==
    ASSUME NEW t, NEW S, NEW s \in Seq(S), NEW c \in S
    PROVE  Replayed(t, Append(s, c)) = Altered(Replayed(t, s), c)
<1> DEFINE u == Append(s, c)
<1>1. u \in Seq(S) /\ Len(u) = Len(s) + 1 /\ Len(s) \in Nat /\ u[Len(s) + 1] = c
      /\ \A k \in 1..Len(s) : u[k] = s[k]
  OBVIOUS
<1> HIDE DEF u
<1>2. PICK f : /\ f[0] = t /\ f[Len(u)] = Replayed(t, u)
               /\ \A k \in 1..Len(u) : f[k] = Altered(f[k - 1], u[k])
  BY <1>1, ReplayedSteps
<1>3. \A k \in 1..Len(s) : f[k] = Altered(f[k - 1], s[k])
  BY <1>1, <1>2
<1>4. f[Len(s)] = Replayed(t, s)
  BY <1>2, <1>3, ReplayedIs
<1>5. f[Len(s) + 1] = Altered(f[Len(s)], c)
  BY <1>1, <1>2
<1> QED BY <1>1, <1>2, <1>4, <1>5 DEF u

LEMMA EntryType ==
    ASSUME NEW e \in Entries
    PROVE  /\ e.here \in BOOLEAN /\ e.prefixes \in SUBSET Modes
           /\ e = [here |-> e.here, prefixes |-> e.prefixes]
           /\ ~e.here => e = Nobody
<1>1. CASE e = Nobody
  BY <1>1 DEF Nobody
<1>2. CASE e \in [here : {TRUE}, prefixes : SUBSET Modes]
  BY <1>2
<1> QED BY <1>1, <1>2 DEF Entries

LEMMA AlteredType ==
    ASSUME NEW t \in Tables, NEW c \in Changes
    PROVE  /\ Altered(t, c) \in Tables /\ Altered(t, c)[c.nick].here
           /\ \A n \in Nicks \ {c.nick} : Altered(t, c)[n] = t[n]
<1>1. c.nick \in Nicks /\ c.mode \in Modes /\ t[c.nick] \in Entries
  BY DEF Tables, Changes
<1>2. t[c.nick].prefixes \in SUBSET Modes
  BY <1>1, EntryType
<1>3. \A p \in SUBSET Modes : [here |-> TRUE, prefixes |-> p] \in Entries
  BY DEF Entries
<1>4. \A p \in SUBSET Modes : Upsert(t, c.nick, p) \in Tables
  BY <1>1, <1>3 DEF Tables, Upsert
<1> QED BY <1>1, <1>2, <1>4 DEF Altered, Upsert, Tables

LEMMA AlteredAt ==
    ASSUME NEW t \in Tables, NEW c \in Changes
    PROVE  /\ Altered(t, c)[c.nick].here
           /\ Altered(t, c)[c.nick].prefixes = IF c.add THEN t[c.nick].prefixes \cup {c.mode}
                                              ELSE t[c.nick].prefixes \ {c.mode}
BY DEF Altered, Upsert, Tables, Changes

\* Tables are told apart by who is listed and the prefixes.
LEMMA TablesEqual ==
    ASSUME NEW t \in Tables, NEW u \in Tables,
           \A n \in Nicks : (t[n].here <=> u[n].here) /\ t[n].prefixes = u[n].prefixes
    PROVE  t = u
<1>1. ASSUME NEW n \in Nicks PROVE t[n] = u[n]
  <2>1. t[n] \in Entries /\ u[n] \in Entries
    BY DEF Tables
  <2>2. t[n].here = u[n].here
    BY <2>1, EntryType
  <2> QED BY <2>1, <2>2, EntryType
<1> QED BY <1>1 DEF Tables

\* Whoever is listed or changed is listed afterwards; a change of others
\* leaves one as one was.
LEMMA ReplayedType ==
    ASSUME NEW t \in Tables, NEW s \in Seq(Changes)
    PROVE  /\ Replayed(t, s) \in Tables
           /\ \A n \in Nicks :
                 /\ t[n].here => Replayed(t, s)[n].here
                 /\ (\E k \in 1..Len(s) : s[k].nick = n) => Replayed(t, s)[n].here
<1>1. PICK f : /\ f[0] = t /\ f[Len(s)] = Replayed(t, s)
               /\ \A k \in 1..Len(s) : f[k] = Altered(f[k - 1], s[k])
  BY ReplayedSteps
<1> DEFINE G == {k \in 0..Len(s) :
                    /\ f[k] \in Tables
                    /\ \A n \in Nicks : t[n].here \/ (\E j \in 1..k : s[j].nick = n) => f[k][n].here}
<1>2. Len(s) \in Nat /\ 0 \in G
  BY <1>1
<1>3. ASSUME NEW k \in 1..Len(s), k - 1 \in G PROVE k \in G
  <2>1. s[k] \in Changes /\ f[k] = Altered(f[k - 1], s[k]) /\ f[k - 1] \in Tables
    BY <1>1, <1>3
  <2>2. f[k] \in Tables /\ f[k][s[k].nick].here /\ \A n \in Nicks \ {s[k].nick} : f[k][n] = f[k - 1][n]
    BY <2>1, AlteredType
  <2>3. ASSUME NEW n \in Nicks, t[n].here \/ \E j \in 1..k : s[j].nick = n PROVE f[k][n].here
    <3>1. CASE s[k].nick = n
      BY <2>2, <3>1
    <3>2. CASE s[k].nick # n
      <4>1. t[n].here \/ \E j \in 1..(k - 1) : s[j].nick = n
        BY <2>3, <3>2
      <4>2. f[k - 1][n].here
        BY <1>3, <4>1
      <4> QED BY <2>2, <3>2, <4>2
    <3> QED BY <3>1, <3>2
  <2> QED BY <2>2, <2>3
<1>4. Len(s) \in G
  <2> HIDE DEF G
  <2>1. 0..Len(s) \subseteq G
    BY <1>2, <1>3, UpTo
  <2> QED BY <1>2, <2>1
<1> QED BY <1>1, <1>4

\* Somebody no change is about may as well be entered afterwards.
LEMMA ReplayedApart ==
    ASSUME NEW t \in Tables, NEW s \in Seq(Changes), NEW n \in Nicks, NEW p \in SUBSET Modes,
           \A k \in 1..Len(s) : s[k].nick # n
    PROVE  Replayed(Upsert(t, n, p), s) = Upsert(Replayed(t, s), n, p)
<1>1. PICK f : /\ f[0] = t /\ f[Len(s)] = Replayed(t, s)
               /\ \A k \in 1..Len(s) : f[k] = Altered(f[k - 1], s[k])
  BY ReplayedSteps
<1> DEFINE G == {k \in 0..Len(s) : f[k] \in Tables}
           g == [k \in 0..Len(s) |-> Upsert(f[k], n, p)]
<1>2. Len(s) \in Nat /\ 0 \in G
  BY <1>1
<1>3. ASSUME NEW k \in 1..Len(s), k - 1 \in G PROVE k \in G
  <2>1. s[k] \in Changes /\ f[k] = Altered(f[k - 1], s[k]) /\ f[k - 1] \in Tables
    BY <1>1, <1>3
  <2>2. f[k] \in Tables
    BY <2>1, AlteredType
  <2> QED BY <2>2
<1>4. 0..Len(s) \subseteq G
  <2> HIDE DEF G
  <2> QED BY <1>2, <1>3, UpTo
<1>5. g[0] = Upsert(t, n, p)
  BY <1>1
<1>6. ASSUME NEW k \in 1..Len(s) PROVE g[k] = Altered(g[k - 1], s[k])
  <2>1. k - 1 \in 0..Len(s) /\ k \in 0..Len(s)
    OBVIOUS
  <2>2. f[k - 1] \in Tables /\ s[k].nick # n /\ s[k] \in Changes
    BY <1>4, <2>1
  <2>3. g[k] = Upsert(Altered(f[k - 1], s[k]), n, p) /\ g[k - 1] = Upsert(f[k - 1], n, p)
    BY <1>1, <2>1
  <2>4. \A u \in Tables, c \in Changes :
           c.nick # n => Upsert(Altered(u, c), n, p) = Altered(Upsert(u, n, p), c)
    BY DEF Upsert, Altered, Tables, Changes
  <2> QED BY <2>2, <2>3, <2>4
<1> HIDE DEF g
<1>7. g[Len(s)] = Replayed(Upsert(t, n, p), s)
  BY <1>5, <1>6, ReplayedIs
<1> QED BY <1>1, <1>2, <1>7 DEF g

\* A change that is made again in the end may as well not have been made.
LEMMA ReplayedTwice ==
    ASSUME NEW t \in Tables, NEW s \in Seq(Changes), NEW c \in Changes
    PROVE  Altered(Replayed(Altered(t, c), s), c) = Altered(Replayed(t, s), c)
<1>1. PICK f : /\ f[0] = t /\ f[Len(s)] = Replayed(t, s)
               /\ \A k \in 1..Len(s) : f[k] = Altered(f[k - 1], s[k])
  BY ReplayedSteps
<1>2. PICK g : /\ g[0] = Altered(t, c) /\ g[Len(s)] = Replayed(Altered(t, c), s)
               /\ \A k \in 1..Len(s) : g[k] = Altered(g[k - 1], s[k])
  BY ReplayedSteps
<1> DEFINE Same(u, v) == \A n \in Nicks :
              /\ n # c.nick => u[n] = v[n]
              /\ n = c.nick => u[n].prefixes \ {c.mode} = v[n].prefixes \ {c.mode}
           G == {k \in 0..Len(s) : f[k] \in Tables /\ g[k] \in Tables /\ Same(f[k], g[k])}
<1>3. Len(s) \in Nat /\ 0 \in G
  <2>1. Altered(t, c) \in Tables /\ \A n \in Nicks \ {c.nick} : Altered(t, c)[n] = t[n]
    BY AlteredType
  <2>2. t[c.nick].prefixes \ {c.mode} = Altered(t, c)[c.nick].prefixes \ {c.mode}
    BY AlteredAt
  <2>3. Same(t, Altered(t, c))
    BY <2>1, <2>2
  <2> QED BY <1>1, <1>2, <2>1, <2>3
<1>4. ASSUME NEW k \in 1..Len(s), k - 1 \in G PROVE k \in G
  <2>1. /\ s[k] \in Changes /\ f[k] = Altered(f[k - 1], s[k]) /\ f[k - 1] \in Tables
        /\ g[k] = Altered(g[k - 1], s[k]) /\ g[k - 1] \in Tables
        /\ Same(f[k - 1], g[k - 1])
    BY <1>1, <1>2, <1>4
  <2>2. f[k] \in Tables /\ g[k] \in Tables
    BY <2>1, AlteredType
  <2>3. ASSUME NEW u \in Tables, NEW v \in Tables, NEW d \in Changes, Same(u, v), NEW n \in Nicks
        PROVE  /\ n # c.nick => Altered(u, d)[n] = Altered(v, d)[n]
               /\ n = c.nick => Altered(u, d)[n].prefixes \ {c.mode} = Altered(v, d)[n].prefixes \ {c.mode}
    <3>1. CASE n # d.nick
      <4>1. Altered(u, d)[n] = u[n] /\ Altered(v, d)[n] = v[n]
        BY <3>1, AlteredType
      <4> QED BY <2>3, <4>1
    <3>2. CASE n = d.nick /\ n = c.nick
      <4>1. ASSUME NEW w \in Tables
            PROVE  Altered(w, d)[n].prefixes = IF d.add THEN w[n].prefixes \cup {d.mode}
                                               ELSE w[n].prefixes \ {d.mode}
        BY <3>2, AlteredAt
      <4>2. u[n].prefixes \ {c.mode} = v[n].prefixes \ {c.mode}
        BY <2>3, <3>2
      <4> QED BY <3>2, <4>1, <4>2
    <3>3. CASE n = d.nick /\ n # c.nick
      BY <2>3, <3>3 DEF Altered, Upsert, Tables
    <3> QED BY <3>1, <3>2, <3>3
  <2>4. Same(f[k], g[k])
    BY <2>1, <2>3
  <2> QED BY <2>2, <2>4
<1>5. Len(s) \in G
  <2> HIDE DEF G
  <2>1. 0..Len(s) \subseteq G
    BY <1>3, <1>4, UpTo
  <2> QED BY <1>3, <2>1
<1> DEFINE a == f[Len(s)]
           b == g[Len(s)]
<1>6. a \in Tables /\ b \in Tables /\ Same(a, b)
  BY <1>5
<1> HIDE DEF a, b, G
<1>7. Altered(a, c) \in Tables /\ Altered(b, c) \in Tables
  BY <1>6, AlteredType
<1>8. ASSUME NEW n \in Nicks
      PROVE  /\ Altered(a, c)[n].here <=> Altered(b, c)[n].here
             /\ Altered(a, c)[n].prefixes = Altered(b, c)[n].prefixes
  <2>1. CASE n = c.nick
    <3>1. \A w \in Tables :
             /\ Altered(w, c)[n].here
             /\ Altered(w, c)[n].prefixes = IF c.add THEN w[n].prefixes \cup {c.mode}
                                            ELSE w[n].prefixes \ {c.mode}
      BY <2>1, AlteredAt
    <3>2. a[n].prefixes \ {c.mode} = b[n].prefixes \ {c.mode}
      BY <1>6, <2>1
    <3>3. /\ a[n].prefixes \cup {c.mode} = b[n].prefixes \cup {c.mode}
          /\ a \in Tables /\ b \in Tables
      BY <1>6, <3>2
    <3> QED BY <3>1, <3>2, <3>3
  <2>2. CASE n # c.nick
    BY <1>6, <2>2, AlteredType
  <2> QED BY <2>1, <2>2
<1>9. Altered(a, c) = Altered(b, c)
  BY <1>7, <1>8, TablesEqual
<1> QED BY <1>1, <1>2, <1>9 DEF a, b

----------------------------------------------------------------------------
(* What a client becomes by reading a line, and by reading one after       *)
(* another.                                                                *)

Client == [me |-> me, joined |-> joined, members |-> members, loading |-> namesLoading,
           pending |-> pending]

Clients == [me : Nicks, joined : BOOLEAN, members : Tables, loading : BOOLEAN, pending : Seq(Changes)]

After(st, l) ==
    [me |-> IF l.cmd = "NICK" /\ l.nick = st.me THEN l.to ELSE st.me,
     joined |-> IF l.cmd = "JOIN" THEN st.joined \/ l.nick = st.me
                ELSE IF l.cmd \in {"PART", "KICK"} THEN st.joined /\ l.nick # st.me
                ELSE st.joined,
     members |->
        IF l.cmd = "JOIN" THEN Upsert(st.members, l.nick, st.members[l.nick].prefixes)
        ELSE IF l.cmd \in {"PART", "KICK"}
             THEN IF l.nick = st.me THEN Empty ELSE Without(st.members, l.nick)
        ELSE IF l.cmd = "QUIT" THEN Without(st.members, l.nick)
        ELSE IF l.cmd = "NICK" THEN Renamed(st.members, l.nick, l.to)
        ELSE IF l.cmd = "MODE" THEN Altered(st.members, l)
        ELSE IF l.cmd = "353" THEN Over(l.list, IF st.loading THEN st.members ELSE Empty)
        ELSE IF l.cmd = "366" THEN Replayed(st.members, st.pending)
        ELSE Upsert(st.members, l.nick,
                    IF l.prefixes = {} THEN st.members[l.nick].prefixes ELSE l.prefixes),
     loading |-> IF l.cmd = "353" THEN TRUE ELSE IF l.cmd = "366" THEN FALSE ELSE st.loading,
     pending |-> IF l.cmd = "MODE" /\ st.loading THEN Append(st.pending, l)
                 ELSE IF l.cmd = "366" THEN <<>> ELSE st.pending]

\* What is true of a client whatever it has still to read.
Sound(st) ==
    /\ ~st.joined => st.members = Empty
    /\ ~st.loading => st.pending = <<>>
    /\ Len(st.pending) <= MaxPending

Path(p, s) ==
    /\ p \in [0..Len(s) -> Clients]
    /\ \A i \in 1..Len(s) : p[i] = After(p[i - 1], s[i])
    /\ \A i \in 0..Len(s) : Sound(p[i])

\* By reading s the one becomes the other.
Leads(s, a, b) == \E p : Path(p, s) /\ p[0] = a /\ p[Len(s)] = b

LEMMA LineFields ==
    ASSUME NEW l \in Lines
    PROVE  /\ l.cmd \in {"JOIN", "PART", "KICK", "QUIT", "NICK", "MODE", "353", "366", "352"}
           /\ l.cmd \in {"JOIN", "PART", "KICK", "QUIT", "NICK", "352"} => l.nick \in Nicks
           /\ l.cmd = "NICK" => l.to \in Nicks
           /\ l.cmd = "MODE" => l \in Changes
           /\ l.cmd = "353" => l.list \in Tables
           /\ l.cmd = "352" => l.prefixes \in SUBSET Modes
BY DEF Lines, Changes

LEMMA TableType ==
    /\ Empty \in Tables
    /\ \A t \in Tables, n \in Nicks : t[n].prefixes \in SUBSET Modes /\ t[n].here \in BOOLEAN
    /\ \A t \in Tables, n \in Nicks, p \in SUBSET Modes : Upsert(t, n, p) \in Tables
    /\ \A t \in Tables, n \in Nicks : Without(t, n) \in Tables
    /\ \A t \in Tables, m \in Nicks, n \in Nicks : Renamed(t, m, n) \in Tables
    /\ \A t \in Tables : \A N : Part(t, N) \in Tables
    /\ \A t \in Tables, u \in Tables : Over(t, u) \in Tables
<1>1. Nobody \in Entries /\ \A p \in SUBSET Modes : [here |-> TRUE, prefixes |-> p] \in Entries
  BY DEF Entries
<1>2. \A t \in Tables, n \in Nicks : t[n] \in Entries
  BY DEF Tables
<1>3. \A t \in Tables, n \in Nicks : t[n].prefixes \in SUBSET Modes /\ t[n].here \in BOOLEAN
  BY <1>2, EntryType
<1>4. \A t \in Tables, n \in Nicks, p \in SUBSET Modes : Upsert(t, n, p) \in Tables
  BY <1>1 DEF Tables, Upsert
<1>5. \A t \in Tables, n \in Nicks : Without(t, n) \in Tables
  BY <1>1 DEF Tables, Without
<1>6. \A t \in Tables, m \in Nicks, n \in Nicks : Renamed(t, m, n) \in Tables
  BY <1>3, <1>4, <1>5 DEF Renamed
<1>7. \A t \in Tables : \A N : Part(t, N) \in Tables
  BY <1>1 DEF Tables, Part
<1>8. \A t \in Tables, u \in Tables : Over(t, u) \in Tables
  BY DEF Tables, Over
<1>9. Empty \in Tables
  BY <1>1 DEF Tables, Empty
<1> QED BY <1>3, <1>4, <1>5, <1>6, <1>7, <1>8, <1>9

LEMMA AfterType ==
    ASSUME NEW st \in Clients, NEW l \in Lines
    PROVE  After(st, l) \in Clients
<1> DEFINE a == After(st, l)
<1>0. /\ st.me \in Nicks /\ st.joined \in BOOLEAN /\ st.members \in Tables
      /\ st.loading \in BOOLEAN /\ st.pending \in Seq(Changes)
  BY DEF Clients
<1>1. a.me \in Nicks
  BY <1>0, LineFields DEF After
<1>2. a.joined \in BOOLEAN
  BY <1>0 DEF After
<1>3. a.members \in Tables
  <2>1. CASE l.cmd = "JOIN"
    BY <1>0, <2>1, LineFields, TableType DEF After
  <2>2. CASE l.cmd \in {"PART", "KICK", "QUIT"}
    BY <1>0, <2>2, LineFields, TableType DEF After
  <2>3. CASE l.cmd = "NICK"
    BY <1>0, <2>3, LineFields, TableType DEF After
  <2>4. CASE l.cmd = "MODE"
    BY <1>0, <2>4, LineFields, AlteredType DEF After
  <2>5. CASE l.cmd = "353"
    BY <1>0, <2>5, LineFields, TableType DEF After
  <2>6. CASE l.cmd = "366"
    BY <1>0, <2>6, ReplayedType DEF After
  <2>7. CASE l.cmd = "352"
    BY <1>0, <2>7, LineFields, TableType DEF After
  <2> QED BY <2>1, <2>2, <2>3, <2>4, <2>5, <2>6, <2>7, LineFields
<1>4. a.loading \in BOOLEAN
  BY <1>0 DEF After
<1>5. a.pending \in Seq(Changes)
  BY <1>0, LineFields DEF After
<1>6. a = [me |-> a.me, joined |-> a.joined, members |-> a.members, loading |-> a.loading,
           pending |-> a.pending]
  BY DEF After
<1> HIDE DEF a
<1>7. a \in Clients
  BY <1>1, <1>2, <1>3, <1>4, <1>5, <1>6 DEF Clients
<1> QED BY <1>7 DEF a

LEMMA LeadsNone ==
    ASSUME NEW st \in Clients, Sound(st)
    PROVE  Leads(<<>>, st, st)
<1> DEFINE p == [i \in 0..0 |-> st]
<1>1. p \in [0..Len(<<>>) -> Clients] /\ p[0] = st /\ \A i \in 0..Len(<<>>) : p[i] = st
  OBVIOUS
<1>2. 1..Len(<<>>) = {}
  OBVIOUS
<1> HIDE DEF p
<1>3. Path(p, <<>>)
  BY <1>1, <1>2 DEF Path
<1>4. Len(<<>>) = 0
  OBVIOUS
<1> QED BY <1>1, <1>3, <1>4 DEF Leads

LEMMA LeadsEnds ==
    ASSUME NEW s \in Seq(Lines), NEW a, NEW b, Leads(s, a, b)
    PROVE  a \in Clients /\ b \in Clients /\ Sound(a) /\ Sound(b) /\ (s = <<>> => a = b)
<1>1. PICK p : Path(p, s) /\ p[0] = a /\ p[Len(s)] = b
  BY DEF Leads
<1>2. 0 \in 0..Len(s) /\ Len(s) \in 0..Len(s) /\ (s = <<>> => Len(s) = 0)
  OBVIOUS
<1> QED BY <1>1, <1>2 DEF Path

\* A line more at the end.
LEMMA LeadsOn ==
    ASSUME NEW s \in Seq(Lines), NEW a, NEW b, Leads(s, a, b), NEW l \in Lines, Sound(After(b, l))
    PROVE  Leads(Append(s, l), a, After(b, l))
<1>1. PICK p : Path(p, s) /\ p[0] = a /\ p[Len(s)] = b
  BY DEF Leads
<1> DEFINE u == Append(s, l)
           q == [i \in 0..(Len(s) + 1) |-> IF i = Len(s) + 1 THEN After(b, l) ELSE p[i]]
<1>2. /\ Len(s) \in Nat /\ Len(u) = Len(s) + 1 /\ u[Len(s) + 1] = l
      /\ \A i \in 1..Len(s) : u[i] = s[i]
  OBVIOUS
<1> HIDE DEF u
<1>3. b \in Clients /\ After(b, l) \in Clients
  BY LeadsEnds, AfterType
<1>4. /\ q[Len(s) + 1] = After(b, l)
      /\ \A i \in 0..Len(s) : q[i] = p[i]
      /\ q \in [0..(Len(s) + 1) -> Clients]
  BY <1>1, <1>2, <1>3 DEF Path
<1> HIDE DEF q
<1>5. ASSUME NEW i \in 1..Len(u) PROVE q[i] = After(q[i - 1], u[i])
  <2>1. CASE i = Len(s) + 1
    BY <1>1, <1>2, <1>4, <2>1
  <2>2. CASE i # Len(s) + 1
    <3>1. i \in 1..Len(s) /\ i \in 0..Len(s) /\ i - 1 \in 0..Len(s)
      BY <1>2, <2>2
    <3> QED BY <1>1, <1>2, <1>4, <3>1 DEF Path
  <2> QED BY <2>1, <2>2
<1>6. ASSUME NEW i \in 0..Len(u) PROVE Sound(q[i])
  <2>1. CASE i = Len(s) + 1
    BY <1>4, <2>1
  <2>2. CASE i # Len(s) + 1
    <3>1. i \in 0..Len(s)
      BY <1>2, <2>2
    <3> QED BY <1>1, <1>4, <3>1 DEF Path
  <2> QED BY <2>1, <2>2
<1>7. Path(q, u)
  BY <1>2, <1>4, <1>5, <1>6 DEF Path
<1>8. q[0] = a /\ q[Len(u)] = After(b, l)
  BY <1>1, <1>2, <1>4
<1> QED BY <1>7, <1>8 DEF Leads, u

\* A line less at the beginning.
LEMMA LeadsLater ==
    ASSUME NEW s \in Seq(Lines), NEW a, NEW b, Leads(s, a, b), s # <<>>
    PROVE  Leads(Tail(s), After(a, Head(s)), b)
<1>1. PICK p : Path(p, s) /\ p[0] = a /\ p[Len(s)] = b
  BY DEF Leads
<1> DEFINE u == Tail(s)
           q == [i \in 0..(Len(s) - 1) |-> p[i + 1]]
<1>2. /\ Len(s) \in Nat /\ Len(s) > 0 /\ Len(u) = Len(s) - 1 /\ Head(s) = s[1]
      /\ \A i \in 1..Len(u) : u[i] = s[i + 1]
  OBVIOUS
<1> HIDE DEF u
<1>3. /\ q \in [0..Len(u) -> Clients]
      /\ \A i \in 0..Len(u) : q[i] = p[i + 1] /\ i + 1 \in 1..Len(s)
  BY <1>1, <1>2 DEF Path
<1> HIDE DEF q
<1>4. ASSUME NEW i \in 1..Len(u) PROVE q[i] = After(q[i - 1], u[i])
  <2>1. q[i] = p[i + 1] /\ q[i - 1] = p[i] /\ i + 1 \in 1..Len(s) /\ (i + 1) - 1 = i
    <3>1. i \in 0..Len(u) /\ i - 1 \in 0..Len(u) /\ (i - 1) + 1 = i
      BY <1>2
    <3> QED BY <1>3, <3>1
  <2>2. p[i + 1] = After(p[(i + 1) - 1], s[i + 1])
    BY <1>1, <2>1 DEF Path
  <2> QED BY <1>2, <2>1, <2>2
<1>5. \A i \in 0..Len(u) : Sound(q[i])
  BY <1>1, <1>2, <1>3 DEF Path
<1>6. q[0] = After(a, Head(s)) /\ q[Len(u)] = b
  BY <1>1, <1>2, <1>3 DEF Path
<1> QED BY <1>3, <1>4, <1>5, <1>6 DEF Path, Leads, u

\* What is held back grows by the mode changes read, and by nothing else.
LEMMA LeadsPending ==
    ASSUME NEW s \in Seq(Lines), NEW a, NEW b, Leads(s, a, b)
    PROVE  Cardinality(ModesAmong(s)) \in Nat
           /\ Len(b.pending) <= Len(a.pending) + Cardinality(ModesAmong(s))
<1>1. PICK p : Path(p, s) /\ p[0] = a /\ p[Len(s)] = b
  BY DEF Leads
<1> DEFINE M(k) == {j \in 1..k : s[j].cmd = "MODE"}
           G == {k \in 0..Len(s) : /\ IsFiniteSet(M(k))
                                   /\ Len(p[k].pending) <= Len(a.pending) + Cardinality(M(k))}
<1>2. /\ Len(s) \in Nat /\ a.pending \in Seq(Changes)
      /\ \A k \in 0..Len(s) : p[k].pending \in Seq(Changes)
  <2>1. \A k \in 0..Len(s) : p[k] \in Clients
    BY <1>1 DEF Path
  <2>2. 0 \in 0..Len(s)
    OBVIOUS
  <2> QED BY <1>1, <2>1, <2>2 DEF Clients
<1>3. 0 \in G
  <2>1. M(0) = {} /\ 0 \in 0..Len(s)
    OBVIOUS
  <2>2. IsFiniteSet({}) /\ Cardinality({}) = 0
    BY FS_EmptySet
  <2>3. Len(p[0].pending) <= Len(a.pending) + 0
    BY <1>1, <1>2
  <2>4. IsFiniteSet(M(0)) /\ Cardinality(M(0)) = 0
    BY <2>1, <2>2
  <2> HIDE DEF M
  <2> QED BY <2>1, <2>3, <2>4
<1>4. ASSUME NEW k \in 1..Len(s), k - 1 \in G PROVE k \in G
  <2>1. /\ IsFiniteSet(M(k - 1)) /\ Cardinality(M(k - 1)) \in Nat /\ k \notin M(k - 1)
        /\ Len(p[k - 1].pending) <= Len(a.pending) + Cardinality(M(k - 1))
    <3>1. k - 1 \in G /\ k \notin M(k - 1)
      BY <1>4
    <3> HIDE DEF M
    <3> QED BY <3>1, FS_CardinalityType
  <2>2. p[k] = After(p[k - 1], s[k]) /\ k - 1 \in 0..Len(s) /\ k \in 0..Len(s)
    BY <1>1 DEF Path
  <2>3. CASE s[k].cmd = "MODE"
    <3>1. M(k) = M(k - 1) \cup {k}
      BY <2>3
    <3> HIDE DEF M
    <3>0. \A S : IsFiniteSet(S) /\ k \notin S => /\ IsFiniteSet(S \cup {k})
                                               /\ Cardinality(S \cup {k}) = Cardinality(S) + 1
      BY FS_AddElement
    <3>2. IsFiniteSet(M(k)) /\ Cardinality(M(k)) = Cardinality(M(k - 1)) + 1
      BY <2>1, <3>0, <3>1
    <3>3. Len(p[k].pending) <= Len(p[k - 1].pending) + 1
      <4>1. p[k].pending = IF p[k - 1].loading THEN Append(p[k - 1].pending, s[k])
                                               ELSE p[k - 1].pending
        BY <2>2, <2>3 DEF After
      <4> QED BY <1>2, <2>2, <4>1
    <3>4. Len(p[k].pending) \in Nat /\ Len(p[k - 1].pending) \in Nat /\ Len(a.pending) \in Nat
      BY <1>2, <2>2
    <3>5. Len(p[k].pending) <= Len(a.pending) + Cardinality(M(k))
      <4>1. \A x, y, z, c \in Nat : x <= y + 1 /\ y <= z + c => x <= z + (c + 1)
        OBVIOUS
      <4> QED BY <2>1, <3>2, <3>3, <3>4, <4>1
    <3> QED BY <3>2, <3>5
  <2>4. CASE s[k].cmd # "MODE"
    <3>1. M(k) = M(k - 1)
      BY <2>4
    <3>2. Len(p[k].pending) <= Len(p[k - 1].pending)
      <4>1. p[k].pending = <<>> \/ p[k].pending = p[k - 1].pending
        BY <2>2, <2>4 DEF After
      <4> QED BY <1>2, <2>2, <4>1
    <3> HIDE DEF M
    <3> QED BY <1>2, <2>1, <2>2, <3>1, <3>2
  <2> QED BY <2>3, <2>4
<1>5. Len(s) \in G
  <2> HIDE DEF G
  <2>1. 0..Len(s) \subseteq G
    BY <1>2, <1>3, <1>4, UpTo
  <2> QED BY <1>2, <2>1
<1>6. M(Len(s)) = ModesAmong(s)
  BY DEF ModesAmong
<1> HIDE DEF M
<1> QED BY <1>1, <1>5, <1>6, FS_CardinalityType

\* A list of names that is being read is being read until its end comes.
LEMMA LeadsLoading ==
    ASSUME NEW s \in Seq(Lines), NEW a, NEW b, Leads(s, a, b), a.loading,
           \A i \in 1..Len(s) : s[i].cmd # "366"
    PROVE  b.loading
<1>1. PICK p : Path(p, s) /\ p[0] = a /\ p[Len(s)] = b
  BY DEF Leads
<1> DEFINE G == {k \in 0..Len(s) : p[k].loading}
<1>2. Len(s) \in Nat /\ 0 \in G
  BY <1>1
<1>3. ASSUME NEW k \in 1..Len(s), k - 1 \in G PROVE k \in G
  <2>1. p[k] = After(p[k - 1], s[k]) /\ s[k].cmd # "366" /\ p[k - 1].loading
    BY <1>1, <1>3 DEF Path
  <2>2. p[k].loading
    BY <2>1 DEF After
  <2> QED BY <2>2
<1>4. Len(s) \in G
  <2> HIDE DEF G
  <2>1. 0..Len(s) \subseteq G
    BY <1>2, <1>3, UpTo
  <2> QED BY <1>2, <2>1
<1> QED BY <1>1, <1>4

----------------------------------------------------------------------------
(* The inductive invariant.                                                *)

\* What a client that has read everything knows of the channel. Amid a reply
\* that is what has been shown, with what is left laid over it and the mode
\* changes of the meantime made again.
Learns(st) ==
    /\ st.me = self
    /\ connection = 1 => (st.joined <=> roster[self].here)
    /\ roster[self].here => st.joined
    /\ ~streaming => ~st.loading /\ (roster[self].here => st.members = roster)
    /\ streaming => /\ roster[self].here /\ st.loading
                    /\ Replayed(Over(left, st.members), st.pending) = roster

\* Away from the server there is nothing under way.
Apart ==
    ~connected =>
       /\ news = <<>> /\ ~streaming /\ ~roster[self].here
       /\ ~namesLoading /\ Client \in Clients /\ Sound(Client)
       /\ connection = 0 => ~joined

MemberInv ==
    /\ ChannelTypeOK /\ Apart
    /\ connected => connection >= 1 /\ \E st \in Clients : Leads(news, Client, st) /\ Learns(st)

LEMMA MemberType ==
    ASSUME ChannelTypeOK
    PROVE  Client \in Clients
BY DEF ChannelTypeOK, Client, Clients

LEMMA InvInit == ChannelInit => MemberInv
<1> SUFFICES ASSUME ChannelInit PROVE MemberInv
  OBVIOUS
<1>1. Empty \in Tables /\ \A n \in Nicks : ~Empty[n].here
  BY TableType DEF Empty, Nobody
<1>2. ChannelTypeOK
  <2>1. pending \in Seq(Changes) /\ Len(pending) = 0 /\ news \in Seq(Lines)
    BY DEF ChannelInit
  <2>2. connection \in 0..Connections /\ Len(pending) <= MaxPending
    BY <2>1, ChannelAssumption DEF ChannelInit
  <2> QED BY <1>1, <2>1, <2>2 DEF ChannelInit, ChannelTypeOK
<1>3. Sound(Client)
  BY ChannelAssumption DEF ChannelInit, Sound, Client
<1> QED BY <1>1, <1>2, <1>3, MemberType DEF ChannelInit, MemberInv, Apart

\* Reading a line is what After says.
LEMMA ReadsAfter ==
    ASSUME ChannelTypeOK, ClientHears
    PROVE  /\ connected /\ news # <<>> /\ news' = Tail(news)
           /\ Head(news) \in Lines /\ UNCHANGED <<link, far>>
           /\ Client' = After(Client, Head(news))
<1> DEFINE l == Head(news)
<1>1. /\ connected /\ news # <<>> /\ news' = Tail(news) /\ UNCHANGED <<link, far>>
      /\ news \in Seq(Lines)
  BY DEF ChannelTypeOK, ClientHears, ReadsJoin, ReadsPart, ReadsKick, ReadsQuit, ReadsNick, ReadsMode,
         ReadsNames, ReadsNamesEnd, ReadsWho, Reads
<1>2. l \in Lines
  BY <1>1
<1>3. Client' = After(Client, l)
  <2>0. joined \in BOOLEAN /\ namesLoading \in BOOLEAN
    BY DEF ChannelTypeOK
  <2>1. CASE ReadsJoin
    BY <2>0, <2>1 DEF ReadsJoin, Reads, Heard, After, Client, burst
  <2>2. CASE ReadsPart
    BY <2>0, <2>2 DEF ReadsPart, Reads, Heard, After, Client, burst
  <2>3. CASE ReadsKick
    BY <2>0, <2>3 DEF ReadsKick, Reads, Heard, After, Client, burst
  <2>4. CASE ReadsQuit
    BY <2>0, <2>4 DEF ReadsQuit, Reads, Heard, After, Client, burst
  <2>5. CASE ReadsNick
    BY <2>0, <2>5 DEF ReadsNick, Reads, Heard, After, Client, burst
  <2>6. CASE ReadsMode
    BY <2>0, <2>6 DEF ReadsMode, Reads, Heard, After, Client, burst
  <2>7. CASE ReadsNames
    BY <2>0, <2>7 DEF ReadsNames, Reads, Heard, After, Client, burst
  <2>8. CASE ReadsNamesEnd
    BY <2>0, <2>8 DEF ReadsNamesEnd, Reads, Heard, After, Client, burst
  <2>9. CASE ReadsWho
    BY <2>0, <2>9 DEF ReadsWho, Reads, Heard, After, Client, burst
  <2> QED BY <2>1, <2>2, <2>3, <2>4, <2>5, <2>6, <2>7, <2>8, <2>9 DEF ClientHears
<1> QED BY <1>1, <1>2, <1>3

FarOK == self \in Nicks /\ streaming \in BOOLEAN /\ roster \in Tables /\ left \in Tables

LEMMA TypeFromParts ==
    ASSUME connected' \in BOOLEAN, connection' \in 0..Connections, FarOK',
           Client' \in Clients, Sound(Client'), news' \in Seq(Lines)
    PROVE  ChannelTypeOK'
BY DEF ChannelTypeOK, FarOK, Client, Clients, Sound

\* A line is read.
LEMMA InvReads ==
    ASSUME MemberInv, ClientHears
    PROVE  MemberInv'
<1>1. /\ connected /\ news # <<>> /\ news' = Tail(news) /\ news \in Seq(Lines)
      /\ Head(news) \in Lines /\ UNCHANGED <<link, far>>
      /\ Client' = After(Client, Head(news))
  BY ReadsAfter DEF MemberInv, ChannelTypeOK
<1>2. PICK st \in Clients : Leads(news, Client, st) /\ Learns(st)
  BY <1>1 DEF MemberInv
<1>3. Leads(news', Client', st)
  BY <1>1, <1>2, LeadsLater
<1>4. news' \in Seq(Lines)
  BY <1>1
<1>5. Client' \in Clients /\ Sound(Client')
  BY <1>3, <1>4, LeadsEnds
<1>6. ChannelTypeOK'
  <2>1. FarOK' /\ connected' \in BOOLEAN /\ connection' \in 0..Connections
    BY <1>1 DEF MemberInv, ChannelTypeOK, FarOK, link, far, reply
  <2> QED BY <1>4, <1>5, <2>1, TypeFromParts
<1>7. Learns(st)'
  BY <1>1, <1>2 DEF Learns, link, far, reply
<1> QED BY <1>1, <1>2, <1>3, <1>6, <1>7 DEF MemberInv, Apart, link

\* The server says something.
LEMMA InvTold ==
    ASSUME MemberInv, connected, UNCHANGED <<link, client>>, FarOK',
           NEW st, Leads(news, Client, st), NEW l \in Lines, news' = Append(news, l),
           Sound(After(st, l)), Learns(After(st, l))'
    PROVE  MemberInv'
<1>1. news \in Seq(Lines)
  BY DEF MemberInv, ChannelTypeOK
<1>2. Client' = Client
  BY DEF Client, client, burst
<1>3. Leads(news', Client', After(st, l)) /\ news' \in Seq(Lines)
  BY <1>1, <1>2, LeadsOn
<1>4. After(st, l) \in Clients /\ Client' \in Clients /\ Sound(Client')
  BY <1>3, LeadsEnds
<1>5. ChannelTypeOK'
  <2>1. connected' \in BOOLEAN /\ connection' \in 0..Connections
    BY DEF MemberInv, ChannelTypeOK, link
  <2> QED BY <1>3, <1>4, <2>1, TypeFromParts
<1> QED BY <1>3, <1>4, <1>5 DEF MemberInv, Apart, link

\* Or does something we are not told of.
LEMMA InvUntold ==
    ASSUME MemberInv, UNCHANGED <<link, client, news, streaming>>, FarOK',
           ~connected => ~roster'[self'].here,
           \A st \in Clients : connected /\ Learns(st) => Learns(st)'
    PROVE  MemberInv'
<1>1. Client' = Client
  BY DEF Client, client, burst
<1>2. ChannelTypeOK'
  BY DEF MemberInv, ChannelTypeOK, FarOK, client, burst, link
<1>3. Apart'
  BY <1>1 DEF MemberInv, Apart, client, burst, link
<1>4. ASSUME connected' PROVE connection' >= 1 /\ \E st \in Clients : Leads(news', Client', st) /\ Learns(st)'
  BY <1>1, <1>4 DEF MemberInv, link
<1> QED BY <1>2, <1>3, <1>4 DEF MemberInv

LEMMA InvDrops ==
    ASSUME Orderly, MemberInv, Drops
    PROVE  MemberInv'
<1>1. Client' = Client /\ ~namesLoading
  BY DEF Drops, Orderly, Client, client, burst
<1>2. PICK st \in Clients : Leads(news, Client, st) /\ connection >= 1
  BY DEF MemberInv, Drops
<1>3. Client \in Clients /\ Sound(Client)
  BY <1>2, LeadsEnds DEF MemberInv, ChannelTypeOK
<1>4. ~roster'[self'].here /\ FarOK'
  BY TableType DEF Drops, MemberInv, ChannelTypeOK, FarOK, Without, Nobody, Tables
<1>5. news' = <<>> /\ news' \in Seq(Lines) /\ ~streaming' /\ ~connected' /\ ~namesLoading'
      /\ connection' = connection
  BY <1>1 DEF Drops, client, burst
<1>6. ChannelTypeOK'
  <2>1. connected' \in BOOLEAN /\ connection' \in 0..Connections
    BY <1>5 DEF MemberInv, ChannelTypeOK, Drops
  <2> QED BY <1>1, <1>3, <1>4, <1>5, <2>1, TypeFromParts
<1> QED BY <1>1, <1>2, <1>3, <1>4, <1>5, <1>6 DEF MemberInv, Apart

LEMMA InvRegisters ==
    ASSUME MemberInv, Registers
    PROVE  MemberInv'
<1>1. /\ news = <<>> /\ ~streaming /\ ~namesLoading /\ Client \in Clients /\ Sound(Client)
      /\ connection = 0 => ~joined
  BY DEF MemberInv, Apart, Registers
<1>2. PICK n \in Nicks \ In(roster) : self' = n /\ me' = n
  BY DEF Registers
<1>3. /\ Client' = [Client EXCEPT !.me = n]
      /\ connected' = TRUE /\ connection' = connection + 1 /\ connection' \in 1..Connections
      /\ UNCHANGED <<joined, members, namesLoading, pending, news, roster, streaming, left>>
  BY <1>2, ChannelAssumption DEF Registers, Client, burst, reply, MemberInv, ChannelTypeOK
<1>4. Client' \in Clients /\ Sound(Client')
  BY <1>1, <1>2, <1>3 DEF Clients, Sound
<1>5. Leads(news', Client', Client')
  BY <1>1, <1>3, <1>4, LeadsNone
<1>6. ~roster'[self'].here
  BY <1>2, <1>3 DEF In
<1>7. Learns(Client)'
  BY <1>1, <1>2, <1>3, <1>6 DEF Learns, Client, MemberInv, ChannelTypeOK
<1>8. ChannelTypeOK'
  <2>1. FarOK' /\ news' \in Seq(Lines)
    BY <1>2, <1>3 DEF MemberInv, ChannelTypeOK, FarOK
  <2> QED BY <1>3, <1>4, <2>1, TypeFromParts
<1>9. \E st \in Clients : Leads(news', Client', st) /\ Learns(st)'
  BY <1>4, <1>5, <1>7
<1> QED BY <1>3, <1>8, <1>9 DEF MemberInv, Apart

----------------------------------------------------------------------------
(* The server's steps.                                                     *)

LEMMA OverParts ==
    ASSUME NEW t \in Tables, NEW m \in Tables, NEW N \in SUBSET In(t)
    PROVE  Over(Part(t, In(t) \ N), Over(Part(t, N), m)) = Over(t, m)
<1>1. \A n \in Nicks : n \in In(t) <=> t[n].here
  BY DEF In
<1>2. ~Nobody.here
  BY DEF Nobody
<1> QED BY <1>1, <1>2 DEF Over, Part

LEMMA OverNone ==
    ASSUME NEW t \in Tables
    PROVE  /\ Over(t, Empty) = t
           /\ \A m \in Tables : In(t) = {} => Over(t, m) = m
<1>1. \A n \in Nicks : ~t[n].here => t[n] = Nobody
  BY EntryType DEF Tables
<1>2. Over(t, Empty) = t
  BY <1>1 DEF Over, Empty, Tables
<1>3. ASSUME NEW m \in Tables, In(t) = {} PROVE Over(t, m) = m
  BY <1>3 DEF Over, In, Tables
<1> QED BY <1>2, <1>3

\* The first line of a reply replaces what is known.
LEMMA RepliesTo ==
    ASSUME NEW t \in Tables, NEW some \in SUBSET In(t), NEW st \in Clients, ~st.loading, Sound(st),
           st.joined
    PROVE  LET a == After(st, [cmd |-> "353", list |-> Part(t, some)])
           IN  /\ Sound(a) /\ a.me = st.me /\ a.joined /\ a.loading
               /\ Replayed(Over(Part(t, In(t) \ some), a.members), a.pending) = t
<1> DEFINE l == [cmd |-> "353", list |-> Part(t, some)]
           a == After(st, l)
<1>1. /\ a.me = st.me /\ a.joined = st.joined /\ a.loading = TRUE /\ a.pending = <<>>
      /\ a.members = Over(Part(t, some), Empty)
  BY DEF After, Sound
<1> HIDE DEF a
<1>2. Over(Part(t, In(t) \ some), a.members) = t
  BY <1>1, OverParts, OverNone, TableType
<1>3. Sound(a)
  BY <1>1, ChannelAssumption DEF Sound
<1>4. Replayed(Over(Part(t, In(t) \ some), a.members), a.pending) = t
  BY <1>1, <1>2, ReplayedNone
<1> QED BY <1>1, <1>3, <1>4 DEF a

LEMMA InvAsk ==
    ASSUME MemberInv, WeAsk
    PROVE  MemberInv'
<1>1. PICK st \in Clients : Leads(news, Client, st) /\ Learns(st)
  BY DEF MemberInv, WeAsk
<1>2. /\ Sound(st) /\ st.me = self /\ st.joined /\ ~st.loading /\ roster[self].here
  BY <1>1, LeadsEnds DEF Learns, WeAsk, MemberInv, ChannelTypeOK
<1>3. PICK some \in SUBSET In(roster) :
         /\ news' = news \o <<>> \o <<[cmd |-> "353", list |-> Part(roster, some)]>>
         /\ left' = Part(roster, In(roster) \ some)
  BY DEF WeAsk, BeginsReply
<1>4. roster \in Tables /\ self \in Nicks /\ news \in Seq(Lines)
  BY DEF MemberInv, ChannelTypeOK
<1>5. Part(roster, some) \in Tables /\ left' \in Tables
  BY <1>3, <1>4, TableType
<1>6. PICK l \in Lines : /\ l = [cmd |-> "353", list |-> Part(roster, some)]
                         /\ news' = Append(news, l)
  <2> DEFINE l == [cmd |-> "353", list |-> Part(roster, some)]
  <2>1. l \in Lines
    BY <1>5 DEF Lines
  <2>2. news \o <<>> = news
    BY <1>4
  <2> HIDE DEF l
  <2>3. news \o <<l>> = Append(news, l)
    BY <1>4, <2>1
  <2> QED BY <1>3, <2>1, <2>2, <2>3 DEF l
<1>7. /\ Sound(After(st, l)) /\ After(st, l).me = self /\ After(st, l).joined /\ After(st, l).loading
      /\ Replayed(Over(left', After(st, l).members), After(st, l).pending) = roster
  BY <1>2, <1>3, <1>4, <1>6, RepliesTo
<1>8. UNCHANGED <<link, client, self, roster>> /\ streaming' = TRUE /\ connected
  BY DEF WeAsk, BeginsReply
<1>9. Learns(After(st, l))'
  BY <1>2, <1>7, <1>8 DEF Learns
<1>10. FarOK'
  BY <1>4, <1>5, <1>8 DEF FarOK
<1> QED BY <1>1, <1>6, <1>7, <1>8, <1>9, <1>10, InvTold

LEMMA InvJoin ==
    ASSUME MemberInv, WeJoin
    PROVE  MemberInv'
<1>1. PICK st \in Clients : Leads(news, Client, st) /\ Learns(st)
  BY DEF MemberInv, WeJoin
<1>2. Sound(st) /\ st.me = self /\ ~st.loading
  BY <1>1, LeadsEnds DEF Learns, WeJoin, MemberInv, ChannelTypeOK
<1>3. PICK some \in SUBSET In(roster') :
         /\ news' = news \o <<[cmd |-> "JOIN", nick |-> self]>>
                                 \o <<[cmd |-> "353", list |-> Part(roster', some)]>>
         /\ left' = Part(roster', In(roster') \ some)
  BY DEF WeJoin, BeginsReply
<1>4. roster' \in Tables /\ self \in Nicks /\ news \in Seq(Lines) /\ roster'[self].here
  <2>1. roster \in Tables /\ self \in Nicks /\ news \in Seq(Lines)
    BY DEF MemberInv, ChannelTypeOK
  <2>2. PICK p \in SUBSET Modes : roster' = Upsert(roster, self, p)
    BY DEF WeJoin
  <2>3. roster'[self].here
    BY <2>1, <2>2 DEF Upsert, Tables
  <2> QED BY <2>1, <2>2, <2>3, TableType
<1>5. Part(roster', some) \in Tables /\ left' \in Tables
  BY <1>3, <1>4, TableType
<1>6. PICK j \in Lines, l \in Lines :
         /\ j = [cmd |-> "JOIN", nick |-> self]
         /\ l = [cmd |-> "353", list |-> Part(roster', some)]
         /\ news' = Append(Append(news, j), l)
  <2> DEFINE j == [cmd |-> "JOIN", nick |-> self]
             l == [cmd |-> "353", list |-> Part(roster', some)]
  <2>1. j \in Lines /\ l \in Lines
    BY <1>4, <1>5 DEF Lines
  <2>0. news' = news \o <<j>> \o <<l>>
    BY <1>3
  <2> HIDE DEF j, l
  <2>2. news \o <<j>> = Append(news, j) /\ Append(news, j) \in Seq(Lines)
    BY <1>4, <2>1
  <2>3. Append(news, j) \o <<l>> = Append(Append(news, j), l)
    BY <2>1, <2>2
  <2> QED BY <2>0, <2>1, <2>2, <2>3 DEF j, l
<1>7. PICK b \in Clients : b = After(st, j) /\ Sound(b) /\ b.me = self /\ b.joined /\ ~b.loading
  <2>1. After(st, j) \in Clients
    BY <1>6, AfterType
  <2>2. /\ After(st, j).me = self /\ After(st, j).joined /\ ~After(st, j).loading
        /\ After(st, j).pending = <<>>
    BY <1>2, <1>6 DEF After, Sound
  <2>3. Sound(After(st, j))
    BY <2>2, ChannelAssumption DEF Sound
  <2> QED BY <2>1, <2>2, <2>3
<1>8. /\ Sound(After(b, l)) /\ After(b, l).me = self /\ After(b, l).joined /\ After(b, l).loading
      /\ Replayed(Over(left', After(b, l).members), After(b, l).pending) = roster'
  BY <1>3, <1>4, <1>6, <1>7, RepliesTo
<1>9. UNCHANGED <<link, client, self>> /\ streaming' = TRUE /\ connected
  BY DEF WeJoin, BeginsReply
<1>10. Leads(news', Client', After(b, l)) /\ news' \in Seq(Lines)
  <2>1. Leads(Append(news, j), Client, b) /\ Append(news, j) \in Seq(Lines)
    BY <1>1, <1>4, <1>6, <1>7, LeadsOn
  <2>2. Client' = Client
    BY <1>9 DEF Client, client, burst
  <2>3. PICK u \in Seq(Lines) : u = Append(news, j)
    BY <2>1
  <2>4. Leads(u, Client, b) /\ Append(u, l) \in Seq(Lines)
    BY <2>1, <2>3
  <2>5. Leads(Append(u, l), Client, After(b, l))
    BY <1>8, <2>4, LeadsOn
  <2> QED BY <1>6, <2>2, <2>3, <2>4, <2>5
<1>11. Learns(After(b, l))'
  BY <1>4, <1>8, <1>9 DEF Learns
<1>12. After(b, l) \in Clients /\ Client' \in Clients /\ Sound(Client')
  BY <1>10, LeadsEnds
<1>13. ChannelTypeOK'
  <2>1. connected' \in BOOLEAN /\ connection' \in 0..Connections /\ FarOK'
    BY <1>4, <1>5, <1>9 DEF MemberInv, ChannelTypeOK, link, FarOK
  <2> QED BY <1>10, <1>12, <2>1, TypeFromParts
<1> QED BY <1>9, <1>10, <1>11, <1>12, <1>13 DEF MemberInv, Apart, link

LEMMA InvStreams ==
    ASSUME MemberInv, Streams
    PROVE  MemberInv'
<1>1. connected
  BY DEF MemberInv, Apart, Streams
<1>2. PICK st \in Clients : Leads(news, Client, st) /\ Learns(st)
  BY <1>1 DEF MemberInv
<1>3. /\ Sound(st) /\ st.me = self /\ st.joined /\ st.loading /\ roster[self].here
      /\ Replayed(Over(left, st.members), st.pending) = roster
  BY <1>2, LeadsEnds DEF Learns, Streams, MemberInv, ChannelTypeOK
<1>4. /\ roster \in Tables /\ left \in Tables /\ self \in Nicks /\ news \in Seq(Lines)
      /\ st.members \in Tables
  BY DEF MemberInv, ChannelTypeOK, Clients
<1>5. UNCHANGED <<link, client, self, roster>>
  BY DEF Streams
<1>6. ASSUME NEW next \in SUBSET In(left), left' = Part(left, In(left) \ next), UNCHANGED streaming,
             news' = Append(news, [cmd |-> "353", list |-> Part(left, next)])
      PROVE  MemberInv'
  <2>1. Part(left, next) \in Tables /\ left' \in Tables
    BY <1>4, <1>6, TableType
  <2>2. PICK l \in Lines : l = [cmd |-> "353", list |-> Part(left, next)]
    BY <2>1 DEF Lines
  <2>3. /\ After(st, l).me = self /\ After(st, l).joined = st.joined /\ After(st, l).loading = TRUE
        /\ After(st, l).pending = st.pending
        /\ After(st, l).members = Over(Part(left, next), st.members)
    BY <1>3, <2>2 DEF After
  <2>4. Over(left', After(st, l).members) = Over(left, st.members)
    BY <1>4, <1>6, <2>3, OverParts
  <2>5. Sound(After(st, l))
    BY <1>3, <2>3 DEF Sound
  <2>6. Learns(After(st, l))'
    BY <1>3, <1>5, <1>6, <2>3, <2>4 DEF Learns, Streams
  <2>7. FarOK' /\ news' = Append(news, l)
    BY <1>4, <1>5, <1>6, <2>1, <2>2 DEF FarOK, Streams
  <2> QED BY <1>1, <1>2, <1>5, <2>5, <2>6, <2>7, InvTold
<1>7. ASSUME In(left) = {}, news' = Append(news, [cmd |-> "366"]), streaming' = FALSE,
             UNCHANGED left
      PROVE  MemberInv'
  <2>1. PICK l \in Lines : l = [cmd |-> "366"]
    BY DEF Lines
  <2>2. /\ After(st, l).me = self /\ After(st, l).joined = st.joined /\ After(st, l).loading = FALSE
        /\ After(st, l).pending = <<>>
        /\ After(st, l).members = Replayed(st.members, st.pending)
    BY <1>3, <2>1 DEF After
  <2>3. After(st, l).members = roster
    BY <1>3, <1>4, <1>7, <2>2, OverNone
  <2>4. Sound(After(st, l))
    BY <1>3, <2>2, ChannelAssumption DEF Sound
  <2>5. Learns(After(st, l))'
    BY <1>3, <1>5, <1>7, <2>2, <2>3 DEF Learns
  <2>6. FarOK' /\ news' = Append(news, l)
    BY <1>4, <1>5, <1>7, <2>1 DEF FarOK
  <2> QED BY <1>1, <1>2, <1>5, <2>4, <2>5, <2>6, InvTold
<1> QED BY <1>6, <1>7 DEF Streams

LEMMA InvDescribes ==
    ASSUME MemberInv, Describes
    PROVE  MemberInv'
<1>1. PICK st \in Clients : Leads(news, Client, st) /\ Learns(st)
  BY DEF MemberInv, Describes
<1>2. /\ Sound(st) /\ st.me = self /\ st.joined /\ ~st.loading /\ roster[self].here
      /\ st.members = roster
  BY <1>1, LeadsEnds DEF Learns, Describes, MemberInv, ChannelTypeOK
<1>3. roster \in Tables /\ left \in Tables /\ self \in Nicks /\ news \in Seq(Lines)
  BY DEF MemberInv, ChannelTypeOK
<1>4. PICK n \in Nicks :
         /\ roster[n].here
         /\ news' = Append(news, [cmd |-> "352", nick |-> n, prefixes |-> roster[n].prefixes])
  BY <1>2 DEF Describes, Tells, In
<1>5. PICK l \in Lines : l = [cmd |-> "352", nick |-> n, prefixes |-> roster[n].prefixes]
  <2>1. roster[n].prefixes \in SUBSET Modes
    BY <1>3, TableType
  <2> QED BY <2>1 DEF Lines
<1>6. /\ After(st, l).me = self /\ After(st, l).joined = st.joined /\ After(st, l).loading = st.loading
      /\ After(st, l).pending = st.pending
      /\ After(st, l).members = Upsert(roster, n, roster[n].prefixes)
  BY <1>2, <1>5 DEF After
<1>7. Upsert(roster, n, roster[n].prefixes) = roster
  <2>1. roster[n] = [here |-> TRUE, prefixes |-> roster[n].prefixes]
    <3>1. roster[n] \in Entries /\ roster[n].here = TRUE
      BY <1>3, <1>4, EntryType DEF Tables
    <3> QED BY <3>1, EntryType
  <2> QED BY <1>3, <2>1 DEF Upsert, Tables
<1>8. UNCHANGED <<link, client, far>> /\ connected /\ ~streaming
  BY DEF Describes
<1>9. Sound(After(st, l))
  BY <1>2, <1>6, <1>7 DEF Sound
<1>10. Learns(After(st, l))'
  BY <1>1, <1>2, <1>6, <1>7, <1>8 DEF Learns, far, link, reply
<1>11. FarOK' /\ news' = Append(news, l)
  BY <1>3, <1>4, <1>5, <1>8 DEF FarOK, far, reply, MemberInv, ChannelTypeOK
<1> QED BY <1>1, <1>8, <1>9, <1>10, <1>11, InvTold

\* Somebody who is not there is not among those listed, nor changed.
LEMMA Newcomer ==
    ASSUME NEW st \in Clients, roster \in Tables, left \in Tables, NEW n \in Nicks, ~roster[n].here,
           Replayed(Over(left, st.members), st.pending) = roster
    PROVE  /\ left[n] = Nobody /\ st.members[n] = Nobody
           /\ Replayed(Over(left, Upsert(st.members, n, {})), st.pending) = Upsert(roster, n, {})
<1> DEFINE t == Over(left, st.members)
           s == st.pending
<1>1. st.members \in Tables /\ s \in Seq(Changes)
  BY DEF Clients
<1>2. t \in Tables
  BY <1>1, TableType
<1>3. t[n] = IF left[n].here THEN left[n] ELSE st.members[n]
  BY DEF Over
<1>4. left[n] \in Entries /\ st.members[n] \in Entries
  BY <1>1 DEF Tables
<1>5. Over(left, Upsert(st.members, n, {})) = IF left[n].here THEN t ELSE Upsert(t, n, {})
  BY <1>1 DEF Over, Upsert, Tables
<1> HIDE DEF t, s
<1>6. ~t[n].here /\ \A k \in 1..Len(s) : s[k].nick # n
  <2>1. Replayed(t, s) = roster
    BY DEF t, s
  <2> QED BY <1>1, <1>2, <2>1, ReplayedType
<1>7. ~left[n].here /\ ~st.members[n].here
  BY <1>3, <1>6
<1>8. left[n] = Nobody /\ st.members[n] = Nobody
  BY <1>4, <1>7, EntryType
<1>9. Replayed(Upsert(t, n, {}), s) = Upsert(Replayed(t, s), n, {})
  BY <1>1, <1>2, <1>6, ReplayedApart
<1> QED BY <1>5, <1>7, <1>8, <1>9 DEF t, s

LEMMA InvSomebodyJoins ==
    ASSUME MemberInv, SomebodyJoins
    PROVE  MemberInv'
<1>1. PICK n \in Nicks :
         /\ ~roster[n].here /\ n # self
         /\ roster' = Upsert(roster, n, {})
         /\ Tells([cmd |-> "JOIN", nick |-> n])
  BY DEF SomebodyJoins, In
<1>2. roster \in Tables /\ left \in Tables /\ self \in Nicks /\ news \in Seq(Lines)
      /\ streaming \in BOOLEAN
  BY DEF MemberInv, ChannelTypeOK
<1>3. UNCHANGED <<link, client, self, streaming, left>>
  BY DEF SomebodyJoins, reply
<1>4. FarOK' /\ roster'[self] = roster[self]
  <2>1. roster' \in Tables
    BY <1>1, <1>2, TableType
  <2> QED BY <1>1, <1>2, <1>3, <2>1 DEF FarOK, Upsert, Tables
<1>5. CASE roster[self].here
  <2>1. connected
    BY <1>5 DEF MemberInv, Apart
  <2>2. PICK st \in Clients : Leads(news, Client, st) /\ Learns(st)
    BY <2>1 DEF MemberInv
  <2>3. PICK l \in Lines : l = [cmd |-> "JOIN", nick |-> n] /\ news' = Append(news, l)
    BY <1>1, <1>5 DEF Tells, Lines
  <2>4. Sound(st) /\ st.me = self /\ st.joined /\ st.members \in Tables /\ st.loading \in BOOLEAN
    BY <1>2, <1>5, <2>2, LeadsEnds DEF Learns, Clients
  <2>5. /\ After(st, l).me = self /\ After(st, l).joined /\ After(st, l).loading = st.loading
        /\ After(st, l).pending = st.pending
        /\ After(st, l).members = Upsert(st.members, n, st.members[n].prefixes)
    BY <2>3, <2>4 DEF After
  <2>6. Sound(After(st, l))
    BY <2>4, <2>5 DEF Sound
  <2>7. CASE streaming
    <3>1. st.loading /\ Replayed(Over(left, st.members), st.pending) = roster
      BY <2>2, <2>7 DEF Learns
    <3>2. st.members[n] = Nobody
          /\ Replayed(Over(left, Upsert(st.members, n, {})), st.pending) = Upsert(roster, n, {})
      BY <1>1, <1>2, <3>1, Newcomer
    <3>3. st.members[n].prefixes = {}
      BY <3>2 DEF Nobody
    <3>4. Replayed(Over(left', After(st, l).members), After(st, l).pending) = roster'
      BY <1>1, <1>3, <2>5, <3>2, <3>3
    <3>5. Learns(After(st, l))'
      BY <1>3, <1>4, <1>5, <2>4, <2>5, <2>7, <3>1, <3>4 DEF Learns, link
    <3> QED BY <1>3, <1>4, <2>1, <2>2, <2>3, <2>6, <3>5, InvTold
  <2>8. CASE ~streaming
    <3>1. ~st.loading /\ st.members = roster
      BY <1>5, <2>2, <2>8 DEF Learns
    <3>2. roster[n].prefixes = {}
      <4>1. roster[n] \in Entries
        BY <1>2 DEF Tables
      <4>2. roster[n] = Nobody
        BY <1>1, <4>1, EntryType
      <4> QED BY <4>2 DEF Nobody
    <3>3. After(st, l).members = roster'
      BY <1>1, <2>5, <3>1, <3>2
    <3>4. Learns(After(st, l))'
      BY <1>3, <1>4, <1>5, <2>4, <2>5, <2>8, <3>1, <3>3 DEF Learns, link
    <3> QED BY <1>3, <1>4, <2>1, <2>2, <2>3, <2>6, <3>4, InvTold
  <2> QED BY <1>2, <2>7, <2>8
<1>6. CASE ~roster[self].here
  <2>1. UNCHANGED news
    BY <1>1, <1>6 DEF Tells
  <2>2. \A st \in Clients : Learns(st) => Learns(st)'
    BY <1>3, <1>4, <1>6 DEF Learns, link
  <2> QED BY <1>3, <1>4, <1>6, <2>1, <2>2, InvUntold
<1> QED BY <1>5, <1>6

LEMMA InvSomebodyLeaves ==
    ASSUME Orderly, MemberInv, SomebodyLeaves
    PROVE  MemberInv'
<1>1. PICK n \in Nicks, how \in {"PART", "KICK", "QUIT"} :
         /\ roster[n].here /\ (n = self => how # "QUIT")
         /\ roster' = Without(roster, n)
         /\ Tells([cmd |-> how, nick |-> n])
  BY DEF SomebodyLeaves, In
<1>2. roster \in Tables /\ left \in Tables /\ self \in Nicks /\ news \in Seq(Lines)
  BY DEF MemberInv, ChannelTypeOK
<1>3. UNCHANGED <<link, client, self, streaming, left>> /\ ~streaming
  BY DEF SomebodyLeaves, reply, May, Orderly
<1>4. FarOK' /\ (roster'[self].here <=> roster[self].here /\ n # self)
  <2>1. roster' \in Tables
    BY <1>1, <1>2, TableType
  <2>2. ~Nobody.here
    BY DEF Nobody
  <2>3. roster'[self] = IF n = self THEN Nobody ELSE roster[self]
    BY <1>1, <1>2 DEF Without, Tables
  <2> QED BY <1>2, <1>3, <2>1, <2>2, <2>3 DEF FarOK, MemberInv, ChannelTypeOK
<1>5. CASE roster[self].here
  <2>1. connected
    BY <1>5 DEF MemberInv, Apart
  <2>2. PICK st \in Clients : Leads(news, Client, st) /\ Learns(st)
    BY <2>1 DEF MemberInv
  <2>3. PICK l \in Lines : l = [cmd |-> how, nick |-> n] /\ news' = Append(news, l)
    BY <1>1, <1>5 DEF Tells, Lines
  <2>4. /\ Sound(st) /\ st.me = self /\ st.joined /\ ~st.loading /\ st.members = roster
        /\ st.pending = <<>>
    BY <1>2, <1>3, <1>5, <2>2, LeadsEnds DEF Learns, Sound
  <2>5. CASE n = self
    <3>1. /\ After(st, l).me = self /\ ~After(st, l).joined /\ ~After(st, l).loading
          /\ After(st, l).pending = <<>> /\ After(st, l).members = Empty
      BY <1>1, <2>3, <2>4, <2>5 DEF After
    <3>2. Sound(After(st, l))
      BY <3>1, ChannelAssumption DEF Sound
    <3>3. Learns(After(st, l))'
      BY <1>3, <1>4, <2>5, <3>1 DEF Learns, link
    <3> QED BY <1>3, <1>4, <2>1, <2>2, <2>3, <3>2, <3>3, InvTold
  <2>6. CASE n # self
    <3>1. /\ After(st, l).me = self /\ After(st, l).joined /\ ~After(st, l).loading
          /\ After(st, l).pending = <<>> /\ After(st, l).members = Without(roster, n)
      BY <1>1, <2>3, <2>4, <2>6 DEF After
    <3>2. Sound(After(st, l))
      BY <3>1, ChannelAssumption DEF Sound
    <3>3. Learns(After(st, l))'
      BY <1>1, <1>3, <1>4, <1>5, <2>6, <3>1 DEF Learns, link
    <3> QED BY <1>3, <1>4, <2>1, <2>2, <2>3, <3>2, <3>3, InvTold
  <2> QED BY <2>5, <2>6
<1>6. CASE ~roster[self].here
  <2>1. UNCHANGED news
    BY <1>1, <1>6 DEF Tells
  <2>2. \A st \in Clients : Learns(st) => Learns(st)'
    BY <1>3, <1>4, <1>6 DEF Learns, link
  <2> QED BY <1>3, <1>4, <1>6, <2>1, <2>2, InvUntold
<1> QED BY <1>5, <1>6

LEMMA InvSomebodyIsRenamed ==
    ASSUME Orderly, MemberInv, SomebodyIsRenamed
    PROVE  MemberInv'
<1>1. PICK m \in Nicks, n \in Nicks :
         /\ roster[m].here \/ (connected /\ m = self)
         /\ ~roster[n].here /\ n # self
         /\ roster' = Renamed(roster, m, n)
         /\ self' = IF connected /\ m = self THEN n ELSE self
         /\ IF connected /\ m = self
               THEN news' = Append(news, [cmd |-> "NICK", nick |-> m, to |-> n])
               ELSE Tells([cmd |-> "NICK", nick |-> m, to |-> n])
  BY DEF SomebodyIsRenamed, In, MemberInv, ChannelTypeOK
<1>2. roster \in Tables /\ left \in Tables /\ self \in Nicks /\ news \in Seq(Lines)
      /\ (~connected => ~roster[self].here)
  BY DEF MemberInv, ChannelTypeOK, Apart
<1>3. UNCHANGED <<link, client, streaming, left>> /\ ~streaming
  BY DEF SomebodyIsRenamed, reply, May, Orderly
<1>4. FarOK' /\ (roster'[self'].here <=> roster[self].here)
  <2>1. roster' \in Tables
    BY <1>1, <1>2, TableType
  <2>2. ~Nobody.here
    BY DEF Nobody
  <2>3. \A k \in Nicks : roster'[k].here <=>
           IF ~roster[m].here THEN roster[k].here
           ELSE k = n \/ (k # m /\ roster[k].here)
    BY <1>1, <1>2, <2>2 DEF Renamed, Upsert, Without, Tables
  <2> QED BY <1>1, <1>2, <1>3, <2>1, <2>3 DEF FarOK, MemberInv, ChannelTypeOK
<1>5. PICK l \in Lines : l = [cmd |-> "NICK", nick |-> m, to |-> n]
  BY DEF Lines
<1>6. l.cmd = "NICK" /\ l.nick = m /\ l.to = n
  BY <1>5
<1>7. Renamed(Empty, m, n) = Empty
  BY DEF Renamed, Empty, Nobody
<1>8. CASE roster[self].here \/ (connected /\ m = self)
  <2>1. connected
    BY <1>8 DEF MemberInv, Apart
  <2>2. PICK st \in Clients : Leads(news, Client, st) /\ Learns(st)
    BY <2>1 DEF MemberInv
  <2>3. news' = Append(news, l)
    BY <1>1, <1>5, <1>8 DEF Tells
  <2>4. Sound(st) /\ st.me = self /\ ~st.loading
    BY <1>2, <1>3, <2>2, LeadsEnds DEF Learns
  <2>5. /\ After(st, l).me = (IF m = self THEN n ELSE self)
        /\ After(st, l).joined = st.joined /\ After(st, l).loading = st.loading
        /\ After(st, l).pending = st.pending
        /\ After(st, l).members = Renamed(st.members, m, n)
    BY <1>6, <2>4 DEF After
  <2>6. Sound(After(st, l))
    BY <1>7, <2>4, <2>5 DEF Sound
  <2>7. Learns(After(st, l))'
    BY <1>1, <1>3, <1>4, <2>1, <2>2, <2>4, <2>5 DEF Learns, link
  <2> QED BY <1>3, <1>4, <2>1, <2>2, <2>3, <2>6, <2>7, InvTold
<1>9. CASE ~(roster[self].here \/ (connected /\ m = self))
  <2>1. UNCHANGED <<news, self>>
    BY <1>1, <1>9 DEF Tells
  <2>2. \A st \in Clients : Learns(st) => Learns(st)'
    BY <1>3, <1>4, <1>9, <2>1 DEF Learns, link
  <2> QED BY <1>3, <1>4, <1>9, <2>1, <2>2, InvUntold
<1> QED BY <1>8, <1>9

LEMMA InvModeIsSet ==
    ASSUME MemberInv, ModeIsSet
    PROVE  MemberInv'
<1>1. PICK c \in Changes :
         /\ roster[c.nick].here
         /\ roster' = Altered(roster, c)
         /\ Tells(c)
  <2>1. PICK n \in In(roster), mode \in Modes, add \in BOOLEAN :
           /\ roster' = Altered(roster, [cmd |-> "MODE", nick |-> n, mode |-> mode, add |-> add])
           /\ Tells([cmd |-> "MODE", nick |-> n, mode |-> mode, add |-> add])
    BY DEF ModeIsSet
  <2>2. [cmd |-> "MODE", nick |-> n, mode |-> mode, add |-> add] \in Changes
        /\ roster[n].here
    BY DEF Changes, In
  <2> QED BY <2>1, <2>2
<1>2. roster \in Tables /\ left \in Tables /\ self \in Nicks /\ news \in Seq(Lines)
      /\ streaming \in BOOLEAN /\ pending \in Seq(Changes)
  BY DEF MemberInv, ChannelTypeOK
<1>3. UNCHANGED <<link, client, self, streaming, left>>
      /\ (streaming => Len(pending) + Cardinality(ModesAmong(news)) < MaxPending)
  BY DEF ModeIsSet, reply
<1>4. FarOK' /\ (roster'[self].here <=> roster[self].here)
  <2>1. roster' \in Tables /\ roster'[c.nick].here
        /\ \A n \in Nicks \ {c.nick} : roster'[n] = roster[n]
    BY <1>1, <1>2, AlteredType
  <2> QED BY <1>1, <1>2, <1>3, <2>1 DEF FarOK
<1>5. CASE roster[self].here
  <2>1. connected
    BY <1>5 DEF MemberInv, Apart
  <2>2. PICK st \in Clients : Leads(news, Client, st) /\ Learns(st)
    BY <2>1 DEF MemberInv
  <2>3. PICK l \in Lines : l = c /\ l.cmd = "MODE" /\ news' = Append(news, l)
    BY <1>1, <1>5 DEF Tells, Lines, Changes
  <2>4. /\ Sound(st) /\ st.me = self /\ st.joined /\ st.members \in Tables /\ st.loading \in BOOLEAN
        /\ st.pending \in Seq(Changes)
    BY <1>2, <1>5, <2>2, LeadsEnds DEF Learns, Clients
  <2>5. /\ After(st, l).me = self /\ After(st, l).joined /\ After(st, l).loading = st.loading
        /\ After(st, l).pending = IF st.loading THEN Append(st.pending, c) ELSE st.pending
        /\ After(st, l).members = Altered(st.members, c)
    BY <2>3, <2>4 DEF After
  <2>6. CASE streaming
    <3>1. st.loading /\ Replayed(Over(left, st.members), st.pending) = roster
      BY <2>2, <2>6 DEF Learns
    <3>2. Sound(After(st, l))
      <4>1. Len(st.pending) + 1 <= MaxPending
        <5>1. Len(st.pending) <= Len(pending) + Cardinality(ModesAmong(news))
              /\ Cardinality(ModesAmong(news)) \in Nat
          BY <1>2, <2>2, LeadsPending DEF Client
        <5> QED BY <1>2, <1>3, <2>4, <2>6, <5>1, ChannelAssumption
      <4>2. Len(After(st, l).pending) = Len(st.pending) + 1
        BY <2>4, <2>5, <3>1
      <4> QED BY <2>5, <3>1, <4>1, <4>2 DEF Sound
    <3>3. Replayed(Over(left, Altered(st.members, c)), Append(st.pending, c)) = Altered(roster, c)
      <4> DEFINE t == Over(left, st.members)
      <4>1. t \in Tables
        BY <1>2, <2>4, TableType
      <4>2. Over(left, Altered(st.members, c)) = t
            \/ Over(left, Altered(st.members, c)) = Altered(t, c)
        BY <1>2, <2>4 DEF Over, Altered, Upsert, Tables, Changes
      <4> HIDE DEF t
      <4>3. /\ Replayed(t, Append(st.pending, c)) = Altered(Replayed(t, st.pending), c)
            /\ Replayed(Altered(t, c), Append(st.pending, c))
                  = Altered(Replayed(Altered(t, c), st.pending), c)
        BY <2>4, ReplayedAppend
      <4>4. Altered(Replayed(Altered(t, c), st.pending), c) = Altered(Replayed(t, st.pending), c)
        BY <2>4, <4>1, ReplayedTwice
      <4>5. Replayed(t, st.pending) = roster
        BY <3>1 DEF t
      <4> QED BY <4>2, <4>3, <4>4, <4>5
    <3>4. Replayed(Over(left', After(st, l).members), After(st, l).pending) = roster'
      BY <1>1, <1>3, <2>5, <3>1, <3>3
    <3>5. Learns(After(st, l))'
      BY <1>3, <1>4, <1>5, <2>4, <2>5, <2>6, <3>1, <3>4 DEF Learns, link
    <3> QED BY <1>3, <1>4, <2>1, <2>2, <2>3, <3>2, <3>5, InvTold
  <2>7. CASE ~streaming
    <3>1. ~st.loading /\ st.members = roster
      BY <1>5, <2>2, <2>7 DEF Learns
    <3>2. Sound(After(st, l))
      BY <2>4, <2>5, <3>1 DEF Sound
    <3>3. Learns(After(st, l))'
      BY <1>1, <1>3, <1>4, <1>5, <2>4, <2>5, <2>7, <3>1 DEF Learns, link
    <3> QED BY <1>3, <1>4, <2>1, <2>2, <2>3, <3>2, <3>3, InvTold
  <2> QED BY <1>2, <2>6, <2>7
<1>6. CASE ~roster[self].here
  <2>1. UNCHANGED news
    BY <1>1, <1>6 DEF Tells
  <2>2. \A st \in Clients : Learns(st) => Learns(st)'
    BY <1>3, <1>4, <1>6 DEF Learns, link
  <2> QED BY <1>3, <1>4, <1>6, <2>1, <2>2, InvUntold
<1> QED BY <1>5, <1>6

----------------------------------------------------------------------------
LEMMA InvNext == Orderly /\ MemberInv /\ [ChannelNext]_channelVars => MemberInv'
<1> SUFFICES ASSUME Orderly, MemberInv, [ChannelNext]_channelVars PROVE MemberInv'
  OBVIOUS
<1>1. CASE UNCHANGED channelVars
  <2>1. Client' = Client /\ UNCHANGED <<link, client, news, streaming, roster, self, left>>
    BY <1>1 DEF channelVars, client, burst, far, reply, Client
  <2>2. FarOK'
    BY <2>1 DEF FarOK, MemberInv, ChannelTypeOK
  <2>3. \A st \in Clients : Learns(st) => Learns(st)'
    BY <2>1 DEF Learns, link
  <2> QED BY <2>1, <2>2, <2>3, InvUntold DEF MemberInv, Apart
<1> QED BY <1>1, InvReads, InvDrops, InvRegisters, InvJoin, InvAsk, InvStreams, InvDescribes,
           InvSomebodyJoins, InvSomebodyLeaves, InvSomebodyIsRenamed, InvModeIsSet DEF ChannelNext

THEOREM MemberInvHolds == ASSUME Orderly PROVE ChannelSpec => []MemberInv
<1>1. MemberInv /\ [ChannelNext]_channelVars => MemberInv'
  BY InvNext
<1> QED BY <1>1, InvInit, PTL DEF ChannelSpec

\* Whatever has happened, once all is heard the client lists exactly who is
\* in the channel, with exactly their prefixes.
THEOREM MembersAlwaysAgree == ASSUME Orderly PROVE ChannelSpec => []MembersAgree
<1>1. MemberInv => MembersAgree
  <2> SUFFICES ASSUME MemberInv, Quiet, roster[self].here PROVE joined /\ members = roster
    BY DEF MembersAgree
  <2>1. news \in Seq(Lines) /\ connected
    BY DEF MemberInv, ChannelTypeOK, Quiet
  <2>2. \E st \in Clients : Learns(st) /\ (news = <<>> => st = Client)
    BY <2>1, LeadsEnds DEF MemberInv
  <2>3. PICK st \in Clients : Learns(st) /\ st = Client
    BY <2>2 DEF Quiet
  <2> QED BY <2>3 DEF Learns, Quiet, Client
<1>2. ChannelSpec => []MemberInv
  BY MemberInvHolds
<1> QED BY <1>1, <1>2, PTL

\* And what is noted of the channel beside its members is true of it.
THEOREM MarksAlwaysHold == ASSUME Orderly PROVE ChannelSpec => []MarksHold
<1>1. MemberInv => MarksHold
  <2> SUFFICES ASSUME MemberInv PROVE PartedIsEmpty /\ JoinedIsIn /\ BurstIsArriving
    BY DEF MemberInv, MarksHold
  <2>0. news \in Seq(Lines) /\ streaming \in BOOLEAN
    BY DEF MemberInv, ChannelTypeOK
  <2>1. ASSUME connected
        PROVE  \E st \in Clients : Leads(news, Client, st) /\ Learns(st) /\ Sound(Client)
                                   /\ (news = <<>> => st = Client)
    BY <2>0, <2>1, LeadsEnds DEF MemberInv
  <2>2. PartedIsEmpty
    BY <2>1 DEF PartedIsEmpty, Quiet, Sound, Client
  <2>3. JoinedIsIn
    <3> SUFFICES ASSUME Quiet, connection = 1 PROVE joined = roster[self].here
      BY DEF JoinedIsIn
    <3>1. PICK st \in Clients : Learns(st) /\ st = Client
      BY <2>1 DEF Quiet
    <3>2. joined <=> roster[self].here
      BY <3>1 DEF Learns, Client
    <3>3. joined \in BOOLEAN /\ roster[self] \in Entries
      BY DEF MemberInv, ChannelTypeOK, Tables
    <3>4. roster[self].here \in BOOLEAN
      BY <3>3, EntryType
    <3> QED BY <3>2, <3>3, <3>4
  <2>4. BurstIsArriving
    <3> SUFFICES ASSUME namesLoading \/ pending # <<>>, ~streaming,
                        \A i \in 1..Len(news) : news[i].cmd # "366"
                 PROVE  FALSE
      BY DEF BurstIsArriving
    <3>1. namesLoading
      BY <2>1 DEF MemberInv, Apart, Sound, Client
    <3>2. connected
      BY <3>1 DEF MemberInv, Apart
    <3>3. PICK st \in Clients : Leads(news, Client, st) /\ Learns(st)
      BY <2>1, <3>2
    <3>4. st.loading
      BY <2>0, <3>1, <3>3, LeadsLoading DEF Client
    <3> QED BY <3>3, <3>4 DEF Learns
  <2> QED BY <2>2, <2>3, <2>4
<1>2. ChannelSpec => []MemberInv
  BY MemberInvHolds
<1> QED BY <1>1, <1>2, PTL

=============================================================================
