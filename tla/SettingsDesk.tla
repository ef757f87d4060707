---------------------------- MODULE SettingsDesk ----------------------------
(***************************************************************************)
(* The settings as the backend has saved them and as a dashboard holds     *)
(* them (frontend/src/hooks/useStagePilot.ts, usePlaybackInput.ts,         *)
(* components/usePlaybackSave.ts; PUT /settings and the narrower routes of *)
(* api/routes.py).  Most saves send ALL the settings: the copy the         *)
(* dashboard holds with one section changed.  What another save wrote and  *)
(* this copy has not seen is then put back.                                *)
(*                                                                         *)
(* Abstracted: a section's value is the number of the save that wrote it;  *)
(* the statuses, messages and errors beside the settings are left out.     *)
(***************************************************************************)
EXTENDS Naturals, Sequences, FiniteSets

CONSTANTS
    MaxSettingsSaves,   \* bound: operations begun
    MaxAtOnce   \* bound: operations under way together

ASSUME SettingsDeskAssumption == {MaxSettingsSaves, MaxAtOnce} \subseteq Nat

VARIABLES
    kept,       \* the settings the backend has saved, by section
    held,       \* settings: the dashboard's copy
    running,    \* operations under way
    chain,      \* Save of the Playback panel, or the activation at startup
    saves,      \* operations begun so far
    apart        \* no two operations overlapped and no answer was lost

deskSettingsVars == <<kept, held, running, chain, saves, apart>>

\* auth is planning_center.connection_method, input the selected MIDI input,
\* arrangement the skipped songs.
Sections == {"general", "auth", "services", "method", "midi", "input", "arrangement",
             "presentation", "lights"}

\* The buttons that test a device or list it again: one call, whose answer is a status
\* and never the settings.
Probes == {"testServices", "testPresentation", "refreshMidi", "testLights"}

\* What an operation calls, in order: all the settings (put), a route that changes
\* only its own section (direct), or GET /settings.
CallsOf(op) ==
    CASE op \in {"general", "midi"}                   -> <<"put">>
      [] op = "presentation"                          -> <<"put", "direct">>
      [] op = "services"                              -> <<"direct", "put">>
      [] op \in {"oauth", "input", "arrangement"}     -> <<"direct">>
      [] op = "lights"                                -> <<"direct", "get">>
      [] op = "source"                                -> <<"get", "put">>
      [] op = "load"                                  -> <<"get">>
      [] op \in Probes                                -> <<"probe">>
Writes(op) ==
    CASE op = "midi"   -> {"midi", "method"}
      [] op = "oauth"  -> {"auth"}
      [] op = "source" -> {"method"}
      [] op \in Probes \cup {"load"} -> {}
      [] OTHER         -> {op}
\* useSingleFlight: one operation of a key at a time.
Key(op) ==
    CASE op \in {"general", "midi"}                      -> "settings"
      [] op \in {"presentation", "testPresentation"}    -> "pp"
      [] op \in {"services", "oauth", "testServices"}   -> "pc"
      [] op \in {"input", "refreshMidi"}                -> "midi"
      [] op \in {"lights", "testLights"}                -> "lights"
      [] op \in {"arrangement", "source"}                -> "playback"
      [] op = "load"                                     -> "load"

\* Mutant: a read of the settings after a save is not kept.
Refreshes_PutOnly(op, call) == call = "put"

\* Answers that become the dashboard's copy.
Refreshes(op, call) ==
    \/ call = "put"
    \/ call = "get" /\ op # "source"
\* Answers on which the operation's next call is built.
Rebases(op, call) == <<op, call>> \in {<<"services", "direct">>, <<"source", "get">>}

NoChain == [kind |-> "none", left |-> <<>>, basis |-> [s \in Sections |-> 0]]
Call(o) == CallsOf(o.op)[o.step]
LastCall(o) == o.step = Len(CallsOf(o.op))
Claimed(op) == \E o \in running : Key(o.op) = Key(op)

SettingsInit ==
    /\ kept = [s \in Sections |-> 0] /\ held = kept
    /\ running = {} /\ saves = 0 /\ apart = TRUE
    /\ chain = NoChain

-----------------------------------------------------------------------------
\* An operation starts from the copy its handler closed over.  The value 0 stands for
\* "as it was": the activation writes what is saved.
Starting(op, basis, value, part) ==
    [op |-> op, step |-> 1, basis |-> basis, value |-> value, part |-> part,
     answer |-> <<>>]

\* One press of a panel's button.
Begin(op) ==
    /\ ~Claimed(op) /\ saves < MaxSettingsSaves /\ Cardinality(running) < MaxAtOnce
    /\ saves' = saves + 1
    /\ running' = running \cup {Starting(op, held, saves + 1, FALSE)}
    /\ apart' = (apart /\ running = {} /\ chain.kind = "none")
    /\ UNCHANGED <<kept, held, chain>>

SaveGeneralSettings   == Begin("general")  \* the PIN follows, by a route of its own
SaveMidiSettings      == Begin("midi")
SelectMidi            == Begin("input")
SavePlanningCenter    == Begin("services")
SignInOAuth           == Begin("oauth")
DisconnectOAuth       == Begin("oauth")
SaveProPresenter      == Begin("presentation")
SaveLighting          == Begin("lights")
SaveArrangement       == Begin("arrangement")
SelectSource          == Begin("source")
LoadSettings          == Begin("load")
TestPlanningCenter    == Begin("testServices")
LoadServiceTypes      == Begin("testServices")
TestProPresenter      == Begin("testPresentation")
RefreshProPresenter   == Begin("testPresentation")
RefreshMidi           == Begin("refreshMidi")
RefreshLighting       == Begin("testLights")
SendLightingTest      == Begin("testLights")

\* usePlaybackSave: method, arrangement and MIDI, those that are pending; a retry
\* leaves out the steps that succeeded.  activateConfiguredServices: the panels that
\* are enabled.
SaveSteps == {<<"source">>, <<"arrangement">>, <<"midi">>, <<"source", "arrangement">>,
              <<"source", "midi">>, <<"arrangement", "midi">>,
              <<"source", "arrangement", "midi">>}
BeginChain(kind, left) ==
    /\ chain.kind = "none" /\ saves < MaxSettingsSaves
    /\ saves' = saves + 1
    /\ chain' = [kind |-> kind, left |-> left, basis |-> held]
    /\ apart' = (apart /\ running = {})
    /\ UNCHANGED <<kept, held, running>>
PressSave == \E left \in SaveSteps : BeginChain("save", left)
Activate  == BeginChain("activate", <<"refreshMidi", "presentation", "lights", "services">>)

\* The next step; a step whose key is taken fails.  A failure ends a Save.
Continue ==
    /\ chain.left # <<>> /\ ~\E o \in running : o.part
    /\ LET op == Head(chain.left) IN
       IF Claimed(op)
       THEN /\ chain' = IF chain.kind = "save" THEN NoChain
                        ELSE [chain EXCEPT !.left = Tail(@)]
            /\ UNCHANGED running
       ELSE /\ chain' = [chain EXCEPT !.left = Tail(@)]
            /\ running' = running \cup
                   {Starting(op, chain.basis, IF chain.kind = "save" THEN saves ELSE 0, TRUE)}
    /\ UNCHANGED <<kept, held, saves, apart>>
ChainEnds ==
    /\ chain.kind # "none" /\ chain.left = <<>> /\ ~\E o \in running : o.part
    /\ chain' = NoChain
    /\ UNCHANGED <<kept, held, running, saves, apart>>

\* The backend serves a call; its routes take turns (_serialised).
Own(o, s) == IF o.value = 0 THEN o.basis[s] ELSE o.value
Content(o) == [s \in Sections |-> IF s \in Writes(o.op) THEN Own(o, s) ELSE o.basis[s]]
Changed(o) == [s \in Sections |-> IF s \in Writes(o.op) THEN Own(o, s) ELSE kept[s]]
Serves(o) ==
    /\ o \in running /\ o.answer = <<>>
    /\ kept' = CASE Call(o) = "put"    -> Content(o)
                 [] Call(o) = "direct" -> Changed(o)
                 [] OTHER              -> kept
    /\ running' = (running \ {o}) \cup {[o EXCEPT !.answer = <<kept'>>]}
    /\ UNCHANGED <<held, chain, saves, apart>>

\* The handler goes on with the answer.
Answers(o) ==
    /\ o \in running /\ o.answer # <<>>
    /\ LET reply == Head(o.answer) IN
       /\ held' = IF Refreshes(o.op, Call(o)) THEN reply ELSE held
       /\ running' = (running \ {o}) \cup
              (IF LastCall(o) THEN {}
               ELSE {[o EXCEPT !.step = @ + 1, !.answer = <<>>,
                               !.basis = IF Rebases(o.op, Call(o)) THEN reply ELSE @]})
    /\ UNCHANGED <<kept, chain, saves, apart>>

\* The call is refused, or its answer is lost: the handler shows an error and ends.
CallFails(o) ==
    /\ o \in running
    /\ running' = running \ {o}
    /\ chain' = IF o.part /\ chain.kind = "save" THEN NoChain ELSE chain
    /\ apart' = (apart /\ o.answer = <<>> /\ o.step = 1)
    /\ UNCHANGED <<kept, held, saves>>

SettingsNext ==
    \/ SaveGeneralSettings \/ SaveMidiSettings \/ SelectMidi
    \/ SavePlanningCenter \/ SignInOAuth \/ DisconnectOAuth
    \/ SaveProPresenter \/ SaveLighting \/ SaveArrangement \/ SelectSource \/ LoadSettings
    \/ TestPlanningCenter \/ LoadServiceTypes \/ TestProPresenter \/ RefreshProPresenter
    \/ RefreshMidi \/ RefreshLighting \/ SendLightingTest
    \/ PressSave \/ Activate \/ Continue \/ ChainEnds
    \/ \E o \in running : Serves(o)
    \/ \E o \in running : Answers(o)
    \/ \E o \in running : CallFails(o)

SettingsSpec == SettingsInit /\ [][SettingsNext]_deskSettingsVars

-----------------------------------------------------------------------------
(* Properties.                                                              *)

\* The sections whose saves bring the dashboard's copy up to date.  Signing in with
\* OAuth, choosing the MIDI input and skipping songs do not.
Refreshed == Sections \ {"auth", "input", "arrangement"}

\* As long as operations do not overlap and every answer comes, a save never puts
\* another section back to an earlier value, however many saves there are.
NothingIsPutBack ==
    [][apart' => \A s \in Refreshed : kept'[s] >= kept[s]]_deskSettingsVars
=============================================================================
