--------------------------- MODULE PlaybackPanel ---------------------------
(***************************************************************************)
(* The Playback panel of the dashboard (hooks/usePlaybackInput.ts and      *)
(* components/PlaybackApiPanel.tsx): it polls the status of the Playback   *)
(* input, runs one operation at a time, and follows a network scan that    *)
(* goes on in the backend after the request that started it is answered.   *)
(*                                                                         *)
(* Abstracted: a status is the number of backend changes it has seen and   *)
(* whether a scan runs; saving, choosing the method, skipping songs and    *)
(* discovering the song order differ only in what they save.               *)
(***************************************************************************)
EXTENDS Naturals, FiniteSets

CONSTANTS
    MaxOperations,  \* bound: operations and cancellations asked for
    MaxMounts       \* bound: times the panel's effect runs (canConfigure changes)

ASSUME PlaybackPanelAssumption == {MaxOperations, MaxMounts} \subseteq Nat

VARIABLES
    input,          \* the backend: changes so far, and is a scan running
    mount,          \* generation
    panelStatus,    \* the status shown, or NoStatus
    revision,       \* statusRevision
    operation,      \* operation and pending
    following,      \* scanStarted is set: a scan is followed by the polls
    poll,           \* the poll under way, or idle between two
    calls,          \* operations whose answer has not come
    asked           \* operations asked for so far

panelVars == <<input, mount, panelStatus, revision, operation, following, poll, calls, asked>>

NoStatus == [changes |-> 0, scanning |-> FALSE]
Waiting == [at |-> "idle", mount |-> 0, revision |-> 0, seen |-> NoStatus]
Off == [Waiting EXCEPT !.at = "off"]
Released == operation' = "none"

PanelInit ==
    /\ input = [changes |-> 1, scanning |-> FALSE]
    /\ mount = 1 /\ panelStatus = NoStatus /\ revision = 0
    /\ operation = "none" /\ following = FALSE
    /\ poll \in {Waiting, Off} /\ calls = {} /\ asked = 0

\* A scan ends by itself: found, not found or failed.
ScanFinishes ==
    /\ input.scanning
    /\ input' = [changes |-> input.changes + 1, scanning |-> FALSE]
    /\ UNCHANGED <<mount, panelStatus, revision, operation, following, poll, calls, asked>>

\* The effect is cleaned up and runs again; a session that may not configure neither
\* polls nor operates.
Remount ==
    /\ mount < MaxMounts
    /\ mount' = mount + 1
    /\ panelStatus' = NoStatus /\ following' = FALSE /\ Released
    /\ poll' \in {Waiting, Off}
    /\ UNCHANGED <<input, revision, calls, asked>>

-----------------------------------------------------------------------------
(* run, scan and cancelScan.                                                *)

Requested(kind) == calls' = calls \cup
    {[kind |-> kind, no |-> asked + 1, mount |-> mount, answered |-> FALSE,
      seen |-> NoStatus]}

Run(kind) ==
    /\ poll.at # "off" /\ operation = "none" /\ asked < MaxOperations
    /\ (kind = "scan" => ~panelStatus.scanning)
    /\ operation' = kind /\ revision' = revision + 1
    /\ Requested(kind) /\ asked' = asked + 1
    /\ UNCHANGED <<input, mount, panelStatus, following, poll>>

\* The button that scans becomes Cancel while a scan is wanted or runs.
Cancel ==
    /\ operation = "scan" \/ panelStatus.scanning
    /\ asked < MaxOperations
    /\ Requested("cancel") /\ asked' = asked + 1
    /\ UNCHANGED <<input, mount, panelStatus, revision, operation, following, poll>>

\* The backend serves an operation, or refuses it.
Handle(c) ==
    /\ c \in calls /\ ~c.answered
    /\ input' = [changes |-> input.changes + 1,
                 scanning |-> c.kind = "scan" \/ (input.scanning /\ c.kind # "cancel")]
    /\ calls' = (calls \ {c}) \cup {[c EXCEPT !.answered = TRUE, !.seen = input']}
    /\ UNCHANGED <<mount, panelStatus, revision, operation, following, poll, asked>>

\* The answer of an operation; a scan is then followed.
Finish(c) ==
    /\ c \in calls /\ c.answered /\ c.kind # "cancel"
    /\ calls' = calls \ {c}
    /\ IF c.mount = mount
       THEN /\ revision' = revision + 1 /\ panelStatus' = c.seen
            /\ following' = (following \/ c.kind = "scan")
            /\ operation' = IF following' THEN operation ELSE "none"
       ELSE UNCHANGED <<revision, panelStatus, following, operation>>
    /\ UNCHANGED <<input, mount, poll, asked>>

\* An operation fails: refused, or not answered.
Fail(c) ==
    /\ c \in calls /\ c.kind # "cancel"
    /\ calls' = calls \ {c}
    /\ IF c.mount = mount THEN following' = FALSE /\ Released
       ELSE UNCHANGED <<following, operation>>
    /\ UNCHANGED <<input, mount, panelStatus, revision, poll, asked>>

\* The end of a cancellation, whether it went well or not.
Cancelled(c) ==
    /\ c \in calls /\ c.kind = "cancel"
    /\ calls' = calls \ {c}
    /\ IF c.mount = mount
       THEN /\ following' = FALSE /\ Released
            /\ IF c.answered THEN panelStatus' = c.seen /\ revision' = revision + 1
               ELSE UNCHANGED <<panelStatus, revision>>
       ELSE UNCHANGED <<following, operation, panelStatus, revision>>
    /\ UNCHANGED <<input, mount, poll, asked>>

-----------------------------------------------------------------------------
(* poll: one at a time, 750 ms apart.                                       *)

Ask ==
    /\ poll.at = "idle"
    /\ poll' = [at |-> "asked", mount |-> mount, revision |-> revision, seen |-> NoStatus]
    /\ UNCHANGED <<input, mount, panelStatus, revision, operation, following, calls, asked>>

Sample ==
    /\ poll.at = "asked"
    /\ poll' = [poll EXCEPT !.at = "answered", !.seen = input]
    /\ UNCHANGED <<input, mount, panelStatus, revision, operation, following, calls, asked>>

\* An answer that an operation has overtaken is dropped.
Obsolete == revision # poll.revision

\* Mutant: a scan that is over is no longer followed, but not released.
Follow_NoRelease(over) ==
    /\ following' = (following /\ ~over)
    /\ UNCHANGED operation

\* The panel stops following a scan that is over, or that it has followed for two
\* minutes, or that it cannot ask about.
Follow(over) ==
    IF following /\ over THEN following' = FALSE /\ Released
    ELSE UNCHANGED <<following, operation>>
Show ==
    /\ poll.at = "answered"
    /\ poll' = Waiting
    /\ IF Obsolete THEN UNCHANGED <<panelStatus, following, operation>>
       ELSE /\ panelStatus' = poll.seen
            /\ \/ Follow(~poll.seen.scanning)
               \/ following /\ Follow(TRUE)
    /\ UNCHANGED <<input, mount, revision, calls, asked>>

Unreachable ==
    /\ poll.at = "asked"
    /\ poll' = Waiting
    /\ IF Obsolete THEN UNCHANGED <<panelStatus, following, operation>>
       ELSE panelStatus' = NoStatus /\ Follow(operation = "scan")
    /\ UNCHANGED <<input, mount, revision, calls, asked>>

PanelNext ==
    \/ ScanFinishes \/ Remount \/ Cancel \/ Ask \/ Sample \/ Show \/ Unreachable
    \/ \E kind \in {"save", "scan"} : Run(kind)
    \/ \E c \in calls : Handle(c)
    \/ \E c \in calls : Finish(c)
    \/ \E c \in calls : Fail(c)
    \/ \E c \in calls : Cancelled(c)

\* Polls go on, scans end and requests are answered.
PanelFairness ==
    /\ WF_panelVars(ScanFinishes) /\ WF_panelVars(Ask)
    /\ WF_panelVars(Sample) /\ WF_panelVars(Show)
    /\ WF_panelVars(\E c \in calls : Handle(c) \/ Finish(c) \/ Cancelled(c))

-----------------------------------------------------------------------------
(* Properties.                                                              *)

\* The panel does not stay busy with a scan: when it is over, or cancelled, or
\* cannot be asked about, the operation is released.
ScanIsReleased == operation = "scan" ~> operation # "scan"
=============================================================================
