------------------------------ MODULE Profiles ------------------------------
(***************************************************************************)
(* What is configured and where it is kept: the registry of client/src/    *)
(* store.ts, the settings file, the keychain beside the passwords of this  *)
(* run, and the session of each network, as packages/ui/src/app/           *)
(* Marmotter.tsx keeps them in step, over launches of the application.     *)
(*                                                                         *)
(* Of a profile its password's reference is kept, whether certificates are *)
(* checked, and whether a channel is on its automatic-join list. The shell *)
(* takes its synchronous commands one after another, in the order they     *)
(* were invoked; each may fail. A render follows a change at once.         *)
(***************************************************************************)
EXTENDS Naturals, FiniteSets, Sequences, SequencesExt

CONSTANTS
    Networks, Refs,
    Passwords,  \* what may be typed
    Acts        \* bound on what the user does in all

ASSUME ProfilesAssumption ==
    /\ "none" \notin Refs \cup Passwords
    /\ IsFiniteSet(Refs) /\ Acts \in Nat

VARIABLES
    profiles,   \* the registry's
    sessions,   \* each network's session: its profile, phase and password sent
    identity,   \* Loading until the file is read
    settings, savedSettings,
    memory,     \* the passwords typed in this run
    prompts,    \* certificates to be waved through, each with its profile
    exported,   \* a document written earlier
    calls,      \* the commands the shell has still to take
    file, keychain,
    typed,      \* the last password typed for each reference
    used,       \* the references there have been
    asked,      \* the networks the user has asked to be connected
    removed,    \* the networks the user has taken away
    freed,      \* the references of networks taken away and not brought back
    lost,       \* the networks in a file written over before it could be read
    apart,      \* what the file and the registry may differ in
    doubtful,   \* the references the keychain may hold something else for
    acts

shown == <<profiles, sessions, identity, settings, savedSettings, memory, prompts>>
kept == <<file, keychain>>
ghosts == <<typed, used, freed, asked, removed, lost, apart, doubtful>>
vars == <<shown, exported, calls, kept, ghosts, acts>>

Act == acts < Acts /\ acts' = acts + 1

None == "none"
Absent == [ref |-> None, trusts |-> FALSE, joins |-> FALSE, there |-> FALSE]
Loading == "loading"

Profile == [ref : Refs \cup {None}, trusts : BOOLEAN, joins : BOOLEAN, there : {TRUE}]

There(n) == profiles[n].there

NoSession == [of |-> Absent, phase |-> None, sent |-> None]

Blank == [nets |-> [n \in Networks |-> Absent], identity |-> None, settings |-> 0]

Loaded == identity # Loading

Contents == [nets : [Networks -> Profile \cup {Absent}], identity : {None, "named"}, settings : 0..1]

RefsOf(p) == {p.ref} \ {None}
RefsIn(nets, among) == UNION {RefsOf(nets[n]) : n \in among}

----------------------------------------------------------------------------
(* What the handlers are made of.                                          *)

Registers_KeepsLive(n, p, connect) ==
    /\ profiles' = [profiles EXCEPT ![n] = p]
    /\ sessions' = IF sessions[n].phase = "live" THEN sessions
                   ELSE [sessions EXCEPT ![n] =
          [of |-> p, phase |-> IF connect THEN "dialling" ELSE "idle", sent |-> None]]

\* addProfile(): the session there was is destroyed, and what it was still
\* waiting for is of no consequence.
Registers(n, p, connect) ==
    /\ profiles' = [profiles EXCEPT ![n] = p]
    /\ sessions' = [sessions EXCEPT ![n] =
          [of |-> p, phase |-> IF connect THEN "dialling" ELSE "idle", sent |-> None]]

\* What becomes of the calls when these sessions are destroyed.
Without(nets) ==
    LET Left(rest, c) == IF c.op = "read" /\ c.net \in nets THEN rest ELSE Append(rest, c)
    IN  FoldLeft(Left, <<>>, calls)

Write(nets, who, how) ==
    <<[op |-> "write", what |-> [nets |-> nets, identity |-> who, settings |-> how]]>>

Persist_Unnamed(nets, who) == Write(nets, who, settings')

Persist_Stale(nets, who) == Write(nets, IF who = Loading THEN None ELSE who, savedSettings)

\* persist(): before the file is read there is no name to keep.
Persist(nets, who) == Write(nets, IF who = Loading THEN None ELSE who, settings')

\* The file has still to be read: a document that is imported meanwhile gives
\* a name, and is not all that is held afterwards.
Unread == \E i \in DOMAIN calls : calls[i].op = "load"

\* The file is about to be what is held, if it was read.
Parts ==
    /\ apart' = IF Unread THEN {"file"} ELSE {}
    /\ lost' = IF Unread THEN lost \cup {n \in Networks : file.nets[n].there} ELSE lost

\* keepSecrets()
KeepSecrets_OnlyNew(p) ==
    [i \in 1..(IF p.ref # None /\ memory'[p.ref] # None /\ keychain[p.ref] = None THEN 1 ELSE 0) |->
        [op |-> "set", ref |-> p.ref, value |-> memory'[p.ref]]]

KeepSecrets(p) ==
    IF p.ref # None /\ memory'[p.ref] # None
    THEN <<[op |-> "set", ref |-> p.ref, value |-> memory'[p.ref]]>> ELSE <<>>

Forget(refs) == [i \in 1..Cardinality(refs) |-> [op |-> "forget", ref |-> SetToSeq(refs)[i]]]

----------------------------------------------------------------------------
(* The user.                                                               *)

\* One there has not been, as of randomUUID(): it is of no consequence which.
Fresh(all, known) == IF all \ known = {} THEN {} ELSE {CHOOSE x \in all \ known : TRUE}

\* The form: a password typed for a profile without one gets a reference of
\* its own, and one typed over another keeps the reference.
Types(ref) ==
    /\ ref # None
    /\ \E value \in Fresh(Passwords, {typed[ref]}) :
          /\ typed' = [typed EXCEPT ![ref] = value]
          /\ memory' = [memory EXCEPT ![ref] = value]
    /\ used' = used \cup {ref} /\ freed' = freed \ {ref}
    /\ doubtful' = doubtful \ {ref}

Untyped == UNCHANGED <<typed, memory, used, freed, doubtful>>

Known == removed \cup lost \cup
    {n \in Networks : There(n) \/ file.nets[n].there \/ \E doc \in exported : doc.nets[n].there}

\* addNetwork()
AddsNetwork(n) ==
    /\ Act /\ n \in Fresh(Networks, Known)
    /\ \E ref \in {None} \cup Fresh(Refs, used) :
          LET p == [ref |-> ref, trusts |-> FALSE, joins |-> FALSE, there |-> TRUE]
          IN  /\ Registers(n, p, TRUE)
              /\ IF ref = None THEN Untyped ELSE Types(ref)
              /\ UNCHANGED settings
              /\ calls' = Without({n}) \o KeepSecrets(p) \o Persist(profiles', identity)
    /\ asked' = asked \cup {n} /\ Parts
    /\ UNCHANGED <<identity, savedSettings, prompts, exported, kept, removed>>

\* saveNetwork(): a network that is up comes up again with the new settings.
SavesNetwork(n) ==
    /\ Act /\ There(n)
    /\ \E ref \in {None, profiles[n].ref} \cup (IF profiles[n].ref = None THEN Fresh(Refs, used) ELSE {}) :
          LET p == [profiles[n] EXCEPT !.ref = ref]
          IN  /\ Registers(n, p, sessions[n].phase # "idle")
              /\ Types(ref) \/ (ref \in {None, profiles[n].ref} /\ Untyped)
              /\ UNCHANGED settings
              /\ calls' = Without({n}) \o KeepSecrets(p) \o Persist(profiles', identity)
    /\ Parts
    /\ UNCHANGED <<identity, savedSettings, prompts, exported, kept, removed, asked>>

RemovesNetwork_Leaves(n) ==
    /\ Act /\ There(n)
    /\ profiles' = [profiles EXCEPT ![n] = Absent]
    /\ sessions' = [sessions EXCEPT ![n] = NoSession]
    /\ UNCHANGED settings
    /\ calls' = Without({n}) \o Persist(profiles', identity)
    /\ asked' = asked \ {n} /\ removed' = removed \cup {n} /\ Parts
    /\ freed' = freed \cup RefsOf(profiles[n])
    /\ UNCHANGED <<identity, savedSettings, memory, prompts, exported, kept, typed, used, doubtful>>

\* removeNetwork(): the passwords are forgotten with it.
RemovesNetwork(n) ==
    /\ Act /\ There(n)
    /\ profiles' = [profiles EXCEPT ![n] = Absent]
    /\ sessions' = [sessions EXCEPT ![n] = NoSession]
    /\ UNCHANGED settings
    /\ calls' = Without({n}) \o Persist(profiles', identity) \o Forget(RefsOf(profiles[n]))
    /\ asked' = asked \ {n} /\ removed' = removed \cup {n} /\ Parts
    /\ freed' = freed \cup RefsOf(profiles[n])
    /\ UNCHANGED <<identity, savedSettings, memory, prompts, exported, kept, typed, used, doubtful>>

TogglesAutojoin_Unsaved(n) ==
    /\ Act /\ There(n)
    /\ profiles' = [profiles EXCEPT ![n].joins = ~@]
    /\ UNCHANGED <<sessions, identity, settings, savedSettings, memory, prompts, exported, calls>>
    /\ UNCHANGED <<kept, ghosts>>

\* toggleNetworkAutojoin(): saved, and the session goes on as it is.
TogglesAutojoin(n) ==
    /\ Act /\ There(n)
    /\ profiles' = [profiles EXCEPT ![n].joins = ~@]
    /\ UNCHANGED settings
    /\ calls' = calls \o Persist(profiles', identity)
    /\ Parts
    /\ UNCHANGED <<sessions, identity, savedSettings, memory, prompts, exported, kept>>
    /\ UNCHANGED <<typed, used, freed, asked, removed, doubtful>>

\* reconnect(), from a row, a notice or the launch screen.
Reconnects(n) ==
    /\ Act /\ There(n)
    /\ Registers(n, profiles[n], TRUE)
    /\ calls' = Without({n})
    /\ asked' = asked \cup {n}
    /\ UNCHANGED <<identity, settings, savedSettings, memory, prompts, exported, kept>>
    /\ UNCHANGED <<typed, used, freed, removed, lost, apart, doubtful>>

Disconnects(n) ==
    /\ Act
    /\ sessions[n].phase \in {"dialling", "live"}
    /\ sessions' = [sessions EXCEPT ![n].phase = "idle"]
    /\ asked' = asked \ {n}
    /\ UNCHANGED <<profiles, identity, settings, savedSettings, memory, prompts, exported, calls>>
    /\ UNCHANGED <<kept, typed, used, freed, removed, lost, apart, doubtful>>

\* acceptUnverifiedCert(): registered and dialled, not saved.
Accepts ==
    \E prompt \in prompts :
       LET n == prompt.net  p == [prompt.of EXCEPT !.trusts = TRUE]
       IN  /\ Registers(n, p, TRUE)
           /\ prompts' = {}
           /\ calls' = Without({n})
           /\ asked' = asked \cup {n} /\ apart' = apart \cup {n}
           /\ freed' = freed \ RefsOf(p)
           /\ UNCHANGED <<identity, settings, savedSettings, memory, exported, kept>>
           /\ UNCHANGED <<typed, used, removed, lost, doubtful, acts>>

\* saveIdentity()
SavesIdentity ==
    /\ Act /\ Loaded
    /\ identity' = "named"
    /\ UNCHANGED settings
    /\ calls' = calls \o Persist(profiles, identity')
    /\ Parts
    /\ UNCHANGED <<profiles, sessions, savedSettings, memory, prompts, exported, kept>>
    /\ UNCHANGED <<typed, used, freed, asked, removed, doubtful>>

ChangesSettings ==
    /\ Act
    /\ settings' \in 0..1 \ {settings}
    /\ UNCHANGED <<profiles, sessions, identity, savedSettings, memory, prompts, exported, calls>>
    /\ UNCHANGED <<kept, ghosts>>

\* buildConfig()
Exports ==
    /\ Act /\ Loaded
    /\ exported' = {[nets |-> profiles, identity |-> identity, settings |-> settings]}
    /\ UNCHANGED <<shown, calls, kept, ghosts>>

ImportsConfig_ForgetsAll ==
    /\ Act
    /\ \E doc \in exported :
          LET gone == {n \in Networks : There(n) /\ ~doc.nets[n].there}
              needed == RefsIn(doc.nets, Networks)
          IN  /\ profiles' = doc.nets
              /\ sessions' = [n \in Networks |->
                    IF doc.nets[n].there THEN [NoSession EXCEPT !.of = doc.nets[n], !.phase = "idle"]
                    ELSE NoSession]
              /\ settings' = doc.settings /\ identity' = doc.identity
              /\ calls' = Without(Networks)
                    \o Forget(RefsIn(profiles, {m \in Networks : There(m)}))
                    \o Persist(doc.nets, doc.identity)
              /\ removed' = removed \cup gone
              /\ freed' = (freed \cup RefsIn(profiles, gone)) \ needed
    /\ asked' = {} /\ Parts
    /\ UNCHANGED <<savedSettings, memory, prompts, exported, kept, typed, used, doubtful>>

\* applyConfig(): nothing of it is connected, and no password it needs is
\* forgotten with the networks it leaves out.
ImportsConfig ==
    /\ Act
    /\ \E doc \in exported :
          LET gone == {n \in Networks : There(n) /\ ~doc.nets[n].there}
              needed == RefsIn(doc.nets, Networks)
          IN  /\ profiles' = doc.nets
              /\ sessions' = [n \in Networks |->
                    IF doc.nets[n].there THEN [NoSession EXCEPT !.of = doc.nets[n], !.phase = "idle"]
                    ELSE NoSession]
              /\ settings' = doc.settings /\ identity' = doc.identity
              /\ calls' = Without(Networks)
                    \o Forget(RefsIn(profiles, gone) \ needed)
                    \o Persist(doc.nets, doc.identity)
              /\ removed' = removed \cup gone
              /\ freed' = (freed \cup RefsIn(profiles, gone)) \ needed
    /\ asked' = {} /\ Parts
    /\ UNCHANGED <<savedSettings, memory, prompts, exported, kept, typed, used, doubtful>>

----------------------------------------------------------------------------
(* The network.                                                            *)

\* The password is read when the connection is there to send it on.
Connects(n) ==
    /\ sessions[n].phase = "dialling"
    /\ sessions' = [sessions EXCEPT ![n].phase = "live", ![n].sent = None]
    /\ calls' = IF sessions[n].of.ref = None THEN calls
                ELSE Append(calls, [op |-> "read", net |-> n])
    /\ UNCHANGED <<profiles, identity, settings, savedSettings, memory, prompts, exported, acts>>
    /\ UNCHANGED <<kept, ghosts>>

\* handleTlsError(): asked about, unless it was waved through already.
FailsVerification(n) ==
    /\ sessions[n].phase = "dialling" /\ ~sessions[n].of.trusts
    /\ sessions' = [sessions EXCEPT ![n].phase = "idle"]
    /\ prompts' = prompts \cup {[net |-> n, of |-> sessions[n].of]}
    /\ UNCHANGED <<profiles, identity, settings, savedSettings, memory, exported, calls, acts>>
    /\ UNCHANGED <<kept, ghosts>>

Drops(n) ==
    /\ sessions[n].phase = "live"
    /\ sessions' = [sessions EXCEPT ![n].phase = "dialling"]
    /\ calls' = Without({n})
    /\ UNCHANGED <<profiles, identity, settings, savedSettings, memory, prompts, exported, acts>>
    /\ UNCHANGED <<kept, ghosts>>

----------------------------------------------------------------------------
(* The shell.                                                              *)

\* finish(): registered, not connected, and the settings as they were.
Finish_Dials(found) ==
    /\ identity' = found.identity /\ settings' = found.settings /\ savedSettings' = found.settings
    /\ profiles' = [n \in Networks |-> IF found.nets[n].there THEN found.nets[n] ELSE profiles[n]]
    /\ sessions' = [n \in Networks |->
          IF found.nets[n].there THEN [NoSession EXCEPT !.of = found.nets[n], !.phase = "dialling"]
          ELSE sessions[n]]

Finish(found) ==
    /\ identity' = found.identity /\ settings' = found.settings /\ savedSettings' = found.settings
    /\ profiles' = [n \in Networks |-> IF found.nets[n].there THEN found.nets[n] ELSE profiles[n]]
    /\ sessions' = [n \in Networks |->
          IF found.nets[n].there THEN [NoSession EXCEPT !.of = found.nets[n], !.phase = "idle"]
          ELSE sessions[n]]

\* The effect that saves the settings, 400 ms after the last change.
SavesSettings_Early ==
    /\ savedSettings # settings
    /\ savedSettings' = settings
    /\ UNCHANGED <<profiles, sessions, identity, settings, memory, prompts, exported, kept, acts>>
    /\ calls' = calls \o Persist(profiles, identity)
    /\ apart' = {}
    /\ UNCHANGED <<typed, used, freed, asked, removed, lost, doubtful>>

SavesSettings ==
    /\ Loaded /\ savedSettings # settings
    /\ savedSettings' = settings
    /\ UNCHANGED <<profiles, sessions, identity, settings, memory, prompts, exported, kept, acts>>
    /\ calls' = calls \o Persist(profiles, identity)
    /\ Parts
    /\ UNCHANGED <<typed, used, freed, asked, removed, doubtful>>

Call(op) == calls # <<>> /\ Head(calls).op = op /\ calls' = Tail(calls)

\* prefs_read; a file that cannot be read starts blank.
Reads ==
    /\ calls # <<>> /\ Head(calls).op = "load"
    /\ \/ Finish(file) /\ UNCHANGED <<apart, lost>>
       \/ Finish(Blank) /\ apart' = {"file"} /\ lost' = lost \cup {n \in Networks : file.nets[n].there}
    /\ calls' = Tail(Without({n \in Networks : sessions'[n] # sessions[n]}))
    /\ freed' = freed \ RefsIn(profiles', Networks)
    /\ UNCHANGED <<memory, prompts, exported, kept, typed, used, asked, removed, doubtful, acts>>

\* prefs_write: renamed into place, or the file stays as it was.
Writes ==
    /\ Call("write")
    /\ \/ file' = Head(calls).what /\ UNCHANGED apart
       \/ apart' = {"file"} /\ UNCHANGED file
    /\ UNCHANGED <<shown, exported, keychain, typed, used, freed, asked, removed, lost, doubtful, acts>>

Sets ==
    /\ Call("set")
    /\ LET ref == Head(calls).ref
       IN  \/ keychain' = [keychain EXCEPT ![ref] = Head(calls).value] /\ UNCHANGED doubtful
           \/ doubtful' = doubtful \cup {ref} /\ UNCHANGED keychain
    /\ UNCHANGED <<shown, exported, file, typed, used, freed, asked, removed, lost, apart, acts>>

Forgets ==
    /\ Call("forget")
    /\ LET ref == Head(calls).ref
       IN  \/ keychain' = [keychain EXCEPT ![ref] = None] /\ UNCHANGED doubtful
           \/ doubtful' = doubtful \cup {ref} /\ UNCHANGED keychain
    /\ UNCHANGED <<shown, exported, file, typed, used, freed, asked, removed, lost, apart, acts>>

\* resolveSecret(): the keychain first, then what was typed in this run. A
\* keychain that fails to answer leaves it at that.
Resolves ==
    /\ Call("read")
    /\ LET n == Head(calls).net  ref == sessions[n].of.ref
       IN  \/ sessions' = [sessions EXCEPT ![n].sent =
                 IF keychain[ref] # None THEN keychain[ref] ELSE memory[ref]]
           \/ UNCHANGED sessions
    /\ UNCHANGED <<profiles, identity, settings, savedSettings, memory, prompts, exported>>
    /\ UNCHANGED <<kept, ghosts, acts>>

\* The application ends with calls under way, and is started again.
Quits ==
    /\ Act
    /\ profiles' = [n \in Networks |-> Absent] /\ sessions' = [n \in Networks |-> NoSession]
    /\ identity' = Loading /\ settings' = 0 /\ savedSettings' = 0
    /\ memory' = [ref \in Refs |-> None] /\ prompts' = {}
    /\ calls' = <<[op |-> "load"]>>
    /\ asked' = {} /\ apart' = {}
    /\ doubtful' = doubtful \cup
          {calls[i].ref : i \in {j \in DOMAIN calls : calls[j].op \in {"set", "forget"}}}
    /\ UNCHANGED <<exported, kept, typed, used, freed, removed, lost>>

----------------------------------------------------------------------------
Init ==
    /\ profiles = [n \in Networks |-> Absent] /\ sessions = [n \in Networks |-> NoSession]
    /\ identity = Loading /\ settings = 0 /\ savedSettings = 0
    /\ memory = [ref \in Refs |-> None] /\ prompts = {} /\ exported = {}
    /\ calls = <<[op |-> "load"]>>
    /\ file = Blank /\ keychain = [ref \in Refs |-> None]
    /\ typed = keychain /\ used = {} /\ freed = {}
    /\ asked = {} /\ removed = {} /\ lost = {} /\ apart = {} /\ doubtful = {}
    /\ acts = 0

Shell == Reads \/ Writes \/ Sets \/ Forgets \/ Resolves

User ==
    \/ \E n \in Networks :
          \/ AddsNetwork(n) \/ SavesNetwork(n) \/ RemovesNetwork(n) \/ TogglesAutojoin(n)
          \/ Reconnects(n) \/ Disconnects(n)
    \/ Accepts \/ SavesIdentity \/ ChangesSettings \/ Exports \/ ImportsConfig \/ Quits

Next ==
    \/ User \/ Shell \/ SavesSettings
    \/ \E n \in Networks : Connects(n) \/ FailsVerification(n) \/ Drops(n)

\* The shell takes its commands, and a timer fires.
Spec == Init /\ [][Next]_vars /\ WF_vars(Shell) /\ WF_vars(SavesSettings)

----------------------------------------------------------------------------
Writing == \E i \in DOMAIN calls : calls[i].op = "write"

Pending(ref) == \E i \in DOMAIN calls : calls[i].op \in {"set", "forget"} /\ calls[i].ref = ref

TypeOK ==
    /\ profiles \in [Networks -> Profile \cup {Absent}]
    /\ sessions \in [Networks -> [of : Profile \cup {Absent}, phase : {None, "idle", "dialling", "live"},
                                  sent : Passwords \cup {None}]]
    /\ identity \in {Loading, None, "named"} /\ settings \in 0..1 /\ savedSettings \in 0..1
    /\ memory \in [Refs -> Passwords \cup {None}] /\ typed \in [Refs -> Passwords \cup {None}]
    /\ keychain \in [Refs -> Passwords \cup {None}]
    /\ prompts \subseteq [net : Networks, of : Profile]
    /\ exported \subseteq Contents /\ Cardinality(exported) <= 1 /\ file \in Contents
    /\ \A i \in DOMAIN calls :
          calls[i] \in [op : {"load"}] \cup [op : {"write"}, what : Contents]
             \cup [op : {"set"}, ref : Refs, value : Passwords]
             \cup [op : {"forget"}, ref : Refs] \cup [op : {"read"}, net : Networks]
    /\ used \subseteq Refs /\ freed \subseteq Refs /\ doubtful \subseteq Refs
    /\ asked \subseteq Networks /\ removed \subseteq Networks /\ lost \subseteq Networks
    /\ apart \subseteq Networks \cup {"file"} /\ acts \in 0..Acts

\* Once everything is written the file is what is held, but for a certificate
\* waved through, and a file that could not be read or written
\* (Marmotter.tsx 785-791, 796-803).
SavedAsHeld ==
    Loaded /\ ~Writing /\ "file" \notin apart =>
       /\ file.identity = identity
       /\ \A n \in Networks \ apart : file.nets[n] = profiles[n]

\* The file loses no network that nobody took away (stored-networks.ts 4-7).
NothingLost ==
    [][\A n \in Networks :
          file.nets[n].there /\ ~file'.nets[n].there => n \in removed \cup lost]_vars

\* A network has one session, built on the profile it has but for what an
\* edit leaves to the next connection (store.ts 50-53, 3110-3118).
SessionIsCurrent ==
    \A n \in Networks :
       /\ There(n) <=> sessions[n].phase # None
       /\ There(n) => [sessions[n].of EXCEPT !.joins = profiles[n].joins] = profiles[n]

\* Nothing is dialled that nobody asked for, whether restored, imported or
\* edited (Marmotter.tsx 714-722, 1440-1444).
DialsOnlyAsked ==
    \A n \in Networks : sessions[n].phase \in {"dialling", "live"} => n \in asked

\* No password is forgotten that a network still needs (1446-1451).
ForgetsOnlyUnneeded ==
    [][Len(calls') > Len(calls) =>
          \A i \in DOMAIN calls' : \A n \in Networks :
             calls'[i].op = "forget" /\ There(n)' => profiles'[n].ref # calls'[i].ref
                \/ \E j \in DOMAIN calls : calls[j] = calls'[i]]_vars

\* The keychain keeps no password of a network that was taken away
\* (1367-1369), unless it would not let go of it.
RemovedIsForgotten ==
    \A ref \in freed \ doubtful :
       /\ keychain[ref] # None => Pending(ref)
       /\ \A n \in Networks : profiles[n].ref # ref

\* What is sent is the password last typed, in this run or before it
\* (1178-1182), unless the keychain would not take it.
SendsLastTyped ==
    \A n \in Networks :
       LET s == sessions[n]
       IN  s.phase = "live" /\ s.sent # None /\ s.of.ref \notin doubtful =>
              s.sent = typed[s.of.ref]

\* Settings that are changed get into the file (861-866).
SettingsSaved ==
    Loaded /\ settings = 1 ~> file.settings = 1 \/ settings = 0 \/ ~Loaded \/ "file" \in apart

\* The file becomes what is held.
FileIsHeld == TypeOK /\ SavedAsHeld

\* Each network has the session that was asked for.
SessionsAsAsked == SessionIsCurrent /\ DialsOnlyAsked

\* The keychain answers with what was typed last, and with nothing of a
\* network that is gone.
SecretsServe == SendsLastTyped /\ RemovedIsForgotten

\* Nothing that is still needed goes, from the file or the keychain, and what
\* is changed gets there.
NothingNeededGoes == NothingLost /\ ForgetsOnlyUnneeded /\ SettingsSaved

=============================================================================
