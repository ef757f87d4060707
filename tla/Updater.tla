------------------------------ MODULE Updater ------------------------------
(***************************************************************************)
(* Updating the desktop program from its own screen (frontend/src/hooks/   *)
(* useUpdater.ts, services/updater.ts, components/UpdateDialog.tsx and, in *)
(* the shell, prepare_for_update and restart_managed_backend): checks on a *)
(* timer, the confirmation, the download, the stop of the backend, the     *)
(* installation and the relaunch, each of which may fail.                  *)
(*                                                                         *)
(* Abstracted: there is one newer version; progress figures are left out.  *)
(***************************************************************************)
EXTENDS Naturals, FiniteSets

CONSTANTS
    MaxInstalls,  \* bound: presses of Update and Restart, or Retry
    MaxLaunches,  \* bound: launches of the program
    Windows       \* prepare_for_update may stop the backend and then give up

ASSUME UpdaterAssumption ==
    MaxInstalls \in Nat /\ MaxLaunches \in Nat /\ Windows \in BOOLEAN

VARIABLES
    launches, version, disk,   \* launches; the version that runs, and the one on the disk
    backendUp,                 \* the managed backend runs
    candidate,                 \* candidate.current
    checking, installing,      \* the refs of the same names
    updateStatus, errorOpen,   \* state.status, state.errorDialogOpen
    attempts,                  \* the calls of install, by number
    marker,                    \* the relaunch marker in localStorage
    told                       \* an error said that the backend could not be restarted

updaterVars == <<launches, version, disk, backendUp, candidate, checking, installing,
                 updateStatus, errorOpen, attempts, marker, told>>
world == <<launches, version, disk, backendUp>>

Installs == 1..MaxInstalls
Unused == [at |-> "unused", stopped |-> FALSE]

UpdaterInit ==
    /\ launches = 1 /\ version = 1 /\ disk = 1 /\ backendUp = TRUE
    /\ candidate = FALSE /\ checking = FALSE /\ installing = FALSE
    /\ updateStatus = "idle" /\ errorOpen = FALSE
    /\ attempts = [n \in Installs |-> Unused]
    /\ marker = FALSE /\ told = FALSE

\* checkForUpdate: at startup, on a timer and on focus.
Check ==
    /\ ~checking /\ ~installing
    /\ checking' = TRUE /\ updateStatus' = "checking"
    /\ UNCHANGED <<world, candidate, installing, errorOpen, attempts, marker, told>>

Checked ==
    /\ checking
    /\ checking' = FALSE
    /\ \/ /\ candidate' = (version = 1)
          /\ updateStatus' = IF version = 1 THEN "available" ELSE "current"
       \/ candidate' = FALSE /\ updateStatus' = "error"
    /\ errorOpen' = FALSE
    /\ UNCHANGED <<world, installing, attempts, marker, told>>

OpenConfirmation ==
    /\ candidate /\ updateStatus = "available"
    /\ updateStatus' = "confirmation"
    /\ UNCHANGED <<world, candidate, checking, installing, errorOpen, attempts, marker, told>>

CancelConfirmation ==
    /\ updateStatus = "confirmation" /\ ~installing
    /\ updateStatus' = "available"
    /\ UNCHANGED <<world, candidate, checking, installing, errorOpen, attempts, marker, told>>

CloseError ==
    /\ updateStatus = "error" /\ errorOpen
    /\ installing' = FALSE /\ errorOpen' = FALSE
    /\ updateStatus' = IF candidate THEN "available" ELSE "idle"
    /\ UNCHANGED <<world, candidate, checking, attempts, marker, told>>

-----------------------------------------------------------------------------
(* install; the dialog offers it on the confirmation, and after a failure.  *)

Goes(n, from, to) ==
    /\ attempts[n].at = from
    /\ attempts' = [attempts EXCEPT ![n].at = to]

\* The install location is probed, and only then is `installing` set.
Install(n) ==
    /\ updateStatus = "confirmation" \/ (updateStatus = "error" /\ errorOpen)
    /\ candidate /\ ~installing
    /\ \A m \in Installs : attempts[m].at = "unused" => n <= m
    /\ Goes(n, "unused", "probing")
    /\ UNCHANGED <<world, candidate, checking, installing, updateStatus, errorOpen, marker, told>>

Probed(n) ==
    /\ \/ /\ Goes(n, "probing", "over")
          /\ updateStatus' = "error" /\ errorOpen' = TRUE
          /\ UNCHANGED installing
       \/ /\ Goes(n, "probing", "downloading")
          /\ installing' = TRUE /\ updateStatus' = "downloading"
          /\ UNCHANGED errorOpen
    /\ UNCHANGED <<world, candidate, checking, marker, told>>

\* prepareRelaunch and the download; a progress report sets the status.
Download(n) ==
    /\ Goes(n, "downloading", "stopping")
    /\ marker' = TRUE /\ updateStatus' = "downloading"
    /\ UNCHANGED <<world, candidate, checking, installing, errorOpen, told>>

\* prepare_for_update; the stage "installing" is the signal that the backend is down.
StopBackend(n) ==
    /\ attempts[n].at = "stopping"
    /\ attempts' = [attempts EXCEPT ![n] = [at |-> "installing", stopped |-> TRUE]]
    /\ backendUp' = FALSE /\ updateStatus' = "installing"
    /\ UNCHANGED <<launches, version, disk, candidate, checking, installing, errorOpen,
                   marker, told>>

Write(n) ==
    /\ Goes(n, "installing", "relaunching")
    /\ disk' = 2 /\ updateStatus' = "restarting"
    /\ UNCHANGED <<launches, version, backendUp, candidate, checking, installing, errorOpen,
                   marker, told>>

\* A step fails: what the attempt still does is bring the backend back.
Failing(n) ==
    /\ attempts[n].at \in {"downloading", "stopping", "installing", "relaunching"}
    /\ marker' = FALSE /\ installing' = FALSE
    /\ attempts' = [attempts EXCEPT ![n].at = "recovering"]
    /\ backendUp' = (backendUp /\ ~(Windows /\ attempts[n].at = "stopping"))
    /\ UNCHANGED <<launches, version, disk, candidate, checking, updateStatus, errorOpen, told>>

\* Mutant: a restart that fails is not reported.
Recover_Quiet(n) ==
    /\ Goes(n, "recovering", "over")
    /\ updateStatus' = "error" /\ errorOpen' = TRUE
    /\ IF attempts[n].stopped THEN backendUp' \in {TRUE, backendUp} ELSE UNCHANGED backendUp
    /\ UNCHANGED <<launches, version, disk, candidate, checking, installing, marker, told>>

Recover(n) ==
    /\ Goes(n, "recovering", "over")
    /\ updateStatus' = "error" /\ errorOpen' = TRUE
    /\ IF attempts[n].stopped
       THEN \/ backendUp' = TRUE /\ UNCHANGED told
            \/ told' = TRUE /\ UNCHANGED backendUp
       ELSE UNCHANGED <<backendUp, told>>
    /\ UNCHANGED <<launches, version, disk, candidate, checking, installing, marker>>

\* The program starts again; restoreAfterRelaunch takes the marker away.
Relaunch(n) ==
    /\ attempts[n].at = "relaunching" /\ launches < MaxLaunches
    /\ launches' = launches + 1 /\ version' = disk /\ backendUp' = TRUE
    /\ candidate' = FALSE /\ checking' = FALSE /\ installing' = FALSE
    /\ updateStatus' = "idle" /\ errorOpen' = FALSE
    /\ attempts' = [m \in Installs |-> Unused]
    /\ marker' = FALSE /\ told' = FALSE
    /\ UNCHANGED disk

UpdaterNext ==
    \/ Check \/ Checked \/ OpenConfirmation \/ CancelConfirmation \/ CloseError
    \/ \E n \in Installs : Install(n)
    \/ \E n \in Installs : Probed(n)
    \/ \E n \in Installs : Download(n)
    \/ \E n \in Installs : StopBackend(n)
    \/ \E n \in Installs : Write(n)
    \/ \E n \in Installs : Failing(n)
    \/ \E n \in Installs : Recover(n)
    \/ \E n \in Installs : Relaunch(n)

UpdaterSpec == UpdaterInit /\ [][UpdaterNext]_updaterVars

\* Every call of the shell and of the network is answered, if only with an error.
Attempt(n) == \/ Probed(n) \/ Download(n) \/ StopBackend(n) \/ Write(n) \/ Failing(n)
              \/ Recover(n) \/ Relaunch(n)
UpdaterFairness ==
    /\ WF_updaterVars(Checked)
    /\ \A n \in Installs : WF_updaterVars(Attempt(n))

-----------------------------------------------------------------------------
(* Properties.                                                              *)

\* The backend that an update stopped is brought back when the update fails, or the
\* operator has been told that it could not be, whatever step failed and even when
\* two presses have started two installations.
NotLeftDown ==
    (\A n \in Installs : attempts[n].at \in {"unused", "over"}) => backendUp \/ told
=============================================================================
