------------------------------ MODULE Readiness ------------------------------
(***************************************************************************)
(* Two answers to one question, is the room ready: the pill in the header  *)
(* (dashboardReadiness.ts) and the first-launch checklist                  *)
(* (SetupChecklist.tsx).  Both are computed from the same five inputs,     *)
(* which arrive on their own: the backend's state, the settings, and the   *)
(* statuses of Playback and Presentation, each Unread until its first      *)
(* answer.  The views have no memory, so an input that has arrived stays.  *)
(* This is the view of those who may configure.                            *)
(***************************************************************************)
EXTENDS Naturals

CONSTANT Unread

VARIABLES
    snapshot,      \* the state: the plan, its load, the reported connections
    configured,    \* the settings
    playbackInfo,  \* the status of the Playback input
    presentation,  \* has the countdown timer been found?
    link           \* is the live connection up?

readinessVars == <<snapshot, configured, playbackInfo, presentation, link>>

\* Only "connected" and the rest are told apart.  The plan: none, without a song, with a
\* song of unknown length, of another day than the load's, or good.
Plans == {"none", "empty", "unmeasured", "otherDay", "good"}
Snapshots == [plan : Plans, loaded : BOOLEAN, services : BOOLEAN, midi : BOOLEAN,
              timer : BOOLEAN]
Modes == [services : {"demo", "real"}, midi : {"simulated", "real", "api"},
          timer : {"simulated", "real"}, credentials : BOOLEAN, input : BOOLEAN,
          presenting : BOOLEAN]
\* active: the Playback API drives the countdown; order: its song order is set up.
Inputs == [connected : BOOLEAN, active : BOOLEAN, order : BOOLEAN]

ReadinessInit ==
    /\ snapshot \in Snapshots
    /\ configured = Unread /\ playbackInfo = Unread /\ presentation = Unread
    /\ link = FALSE

SettingsArrive ==
    /\ configured = Unread /\ configured' \in Modes
    /\ UNCHANGED <<snapshot, playbackInfo, presentation, link>>

PlaybackArrives ==
    /\ configured # Unread /\ playbackInfo = Unread /\ playbackInfo' \in Inputs
    /\ UNCHANGED <<snapshot, configured, presentation, link>>

PresentationArrives ==
    /\ configured # Unread /\ presentation = Unread /\ presentation' \in BOOLEAN
    /\ UNCHANGED <<snapshot, configured, playbackInfo, link>>

Connects ==
    /\ configured # Unread /\ presentation # Unread /\ ~link /\ link' = TRUE
    /\ UNCHANGED <<snapshot, configured, playbackInfo, presentation>>

ReadinessNext == SettingsArrive \/ PlaybackArrives \/ PresentationArrives \/ Connects

(***************************************************************************)
(* The connection cards (buildConnectionCardViews).                        *)
(***************************************************************************)
Known == configured # Unread
Services == Known /\ configured.services = "real" /\ configured.credentials
            /\ snapshot.services

\* A live status of the input stands for the card; without one the settings choose.
Playback ==
    /\ Known /\ configured.midi # "simulated"
    /\ IF playbackInfo # Unread THEN playbackInfo.connected
       ELSE snapshot.midi /\ (configured.midi = "api" \/ configured.input)
OrderNotice == playbackInfo # Unread /\ playbackInfo.active /\ ~playbackInfo.order

HasTimer == Known /\ configured.timer = "real" /\ configured.presenting
Presents == HasTimer /\ snapshot.timer

\* Mutant: the plan of an earlier load will do.
PlanReady_Stale == Known /\ configured.services = "real"
                   /\ snapshot.plan \in {"empty", "unmeasured", "good"}

(***************************************************************************)
(* The pill: every required check (buildReadinessChecks).                  *)
(***************************************************************************)
PlanReady == Known /\ configured.services = "real" /\ snapshot.loaded
             /\ snapshot.plan \in {"empty", "unmeasured", "good"}
DurationReady == PlanReady /\ snapshot.plan = "good"
TimerFound == HasTimer => presentation = TRUE
NoOrderNotice == ~(Known /\ configured.midi # "simulated" /\ OrderNotice)

Pill == Services /\ PlanReady /\ DurationReady /\ Playback /\ Presents
        /\ TimerFound /\ NoOrderNotice /\ link

(***************************************************************************)
(* The checklist (SetupChecklist).                                         *)
(***************************************************************************)
ServicesSaved == Known /\ configured.services = "real" /\ configured.credentials
PresentationSaved == Known /\ configured.timer = "real"
ConnectionsComplete ==
    /\ link /\ snapshot.services /\ snapshot.timer /\ presentation = TRUE
    /\ IF playbackInfo # Unread THEN playbackInfo.connected
       ELSE snapshot.midi /\ Known /\ (configured.midi = "api" \/ configured.input)
ChecklistReady == ConnectionsComplete /\ ~OrderNotice /\ snapshot.loaded
                  /\ snapshot.plan \in {"otherDay", "good"}

\* The pill never says Ready while the checklist's last step is open, nor while any of the
\* three sources is simulated (dashboardReadiness.ts:323-325, SetupChecklist.tsx:59-69).
PillMeansReady == Pill => ChecklistReady /\ ServicesSaved /\ PresentationSaved
                          /\ configured.midi # "simulated"
=============================================================================
