------------------------------ MODULE MCPanels ------------------------------
(***************************************************************************)
(* The panels of the dashboard and the tools of the repository, for TLC.   *)
(* They share no state, so a behaviour chooses a part and only that one    *)
(* moves; the others stay in one initial state.                            *)
(***************************************************************************)
EXTENDS SettingsDesk, SongPairing, AccessSwitch, LightingEditor, LayoutGrid, SetupPanels,
        Readiness, CueTool, CueLogin, VisualEditor, CueTimeline, ChatSession, Popovers

CONSTANTS t1, t2     \* the songs of the setlist

\* The songs' cues that are found: none, the cue of an ordinal, two of them, one that is
\* malformed; and in another bank or on another bus.
SomeFound ==
    {[here |-> cues, there |-> {}] : cues \in {<<>>, <<1>>, <<2, 1>>, <<Odd>>}}
       \cup {[here |-> <<>>, there |-> {n}] : n \in {1, Odd}}

VARIABLE focus

\* The setlists: in one order and in the other, with talk, a song twice, an unclear item.
SomeLists == {<<t1, Talk, t2>>, <<t2, t1>>, <<t1, t2, t1>>, <<Unclear, t1, t2>>}

Parts == {"settings", "pairing", "access", "lighting", "layout", "setup", "readiness",
          "cues", "login", "overlay", "timeline", "chat", "popovers"}

\* Of several initial states, an unchosen part has one.
PairingRests == planCount + playbackCount = 0
AccessRests == ~lanFile /\ here = "local"
LayoutRests == v1Order = <<>> /\ mode = "mobile" /\ role = "owner"
SetupRests == panel = "backend"
ReadinessRests == snapshot = CHOOSE s \in Snapshots : TRUE
CueRests ==
    /\ setlist = CHOOSE list \in Lists : TRUE
    /\ \A s \in Targets : events[s] = [here |-> <<>>, there |-> {}]
TimelineRests == scale = Max(Scales)

MCInit ==
    /\ focus \in Parts
    /\ SettingsInit /\ EditorInit /\ LoginInit /\ OverlayInit
    /\ ChatInit /\ PopoversInit
    /\ PairingInit /\ (focus = "pairing" \/ PairingRests)
    /\ AccessInit /\ (focus = "access" \/ AccessRests)
    /\ LayoutInit /\ (focus = "layout" \/ LayoutRests)
    /\ SetupInit /\ (focus = "setup" \/ SetupRests)
    /\ ReadinessInit /\ (focus = "readiness" \/ ReadinessRests)
    /\ CueInit /\ (focus = "cues" \/ CueRests)
    /\ TimelineInit /\ (focus = "timeline" \/ TimelineRests)

Moves(part, next, vars) == IF focus = part THEN next ELSE UNCHANGED vars

\* Behind a muddled save the overlay promises nothing: there it only reverts.
MCNext ==
    /\ UNCHANGED focus
    /\ Moves("settings", SettingsNext, deskSettingsVars)
    /\ Moves("pairing", PairingNext, pairingVars)
    /\ Moves("access", AccessNext, accessVars)
    /\ Moves("lighting", EditorNext, editorVars)
    /\ Moves("layout", LayoutNext, layoutVars)
    /\ Moves("setup", SetupNext, setupVars)
    /\ Moves("readiness", ReadinessNext, readinessVars)
    /\ Moves("cues", CueNext, cueVars)
    /\ Moves("login", LoginNext, loginVars)
    /\ Moves("timeline", TimelineNext, timelineVars)
    /\ Moves("chat", ChatNext, chatVars)
    /\ Moves("popovers", PopoversNext, popoverVars)
    /\ Moves("overlay", OverlayNext /\ (muddled => reverting' # reverting), overlayVars)

MCSpec ==
    MCInit /\ [][MCNext]_<<focus, deskSettingsVars, pairingVars, accessVars, editorVars,
                           layoutVars, setupVars, readinessVars, cueVars, loginVars,
                           overlayVars, timelineVars, chatVars, popoverVars>>

(***************************************************************************)
(* Properties of several parts each.                                       *)
(***************************************************************************)
\* The tool keeps what it promises, for the cue run (tools/multitracks-cues/src/cues), for the
\* commands that ask ChatGPT (src/chatgpt) and for the tokens of a login (src/auth): see
\* CueRunIsSound, AnswerIsWhole and LoginHolds.
ToolIsSound == CueRunIsSound /\ AnswerIsWhole /\ LoginHolds

\* What the page works out for itself agrees with what the backend goes by: the pairs of the
\* setlist (songPairing.ts) and the readiness (dashboardReadiness.ts): see DrawsWhatDrives
\* and PillMeansReady.
ViewsAgree == DrawsWhatDrives /\ PillMeansReady

\* What is drawn over the dashboard stays readable and goes away again: the labels of the
\* lighting timeline (LightingTimeline.tsx) and the notes under the pointer (Dashboard.tsx):
\* see LabelsKeepClear and OpensUnderPointer.
OverlaysBehave == LabelsKeepClear /\ OpensUnderPointer
=============================================================================
