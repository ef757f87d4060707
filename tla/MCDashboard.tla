----------------------------- MODULE MCDashboard -----------------------------
(***************************************************************************)
(* The parts of the frontend that must make progress, for TLC.  They share *)
(* no state, so a behaviour chooses a part and only that one moves.  The   *)
(* others rest in a state in which none of their fair actions is enabled,  *)
(* so that their fairness asks nothing.                                    *)
(***************************************************************************)
EXTENDS Cockpit, PlaybackPanel, Updater, Startup, RemoteDesk, Header

VARIABLE focus

\* The startup screen is over, and nothing fails any more.
StartupRests ==
    /\ supervisor = "ready" /\ failures = MaxFailures
    /\ query = "done" /\ listening = TRUE /\ news = <<>> /\ seen = "ready"
    /\ connected = TRUE /\ loaded = TRUE /\ retrying = FALSE /\ retries = 0
    /\ ticking = FALSE /\ phase = "complete" /\ value = 2 /\ visible = TRUE
    /\ source = "demo" /\ settings = TRUE /\ account = TRUE /\ activated = TRUE

\* A Remote browser has turned Remote Access off and is signed out.
RemoteRests ==
    /\ remote = [on |-> FALSE, autostart |-> FALSE, people |-> 1, credential |-> TRUE]
    /\ remoteStatus = <<[remote EXCEPT !.on = TRUE, !.autostart = TRUE]>>
    /\ remotePoll = [at |-> "idle", reading |-> Unknown]
    /\ task = NoTask /\ tasks = MaxTasks /\ confirm = FALSE
    /\ readings = 0 /\ warned = FALSE /\ here = "gone"

\* The gate shows no dashboard and the updater has not checked: their initial states.
MCInit ==
    /\ focus \in {"cockpit", "playback", "updater", "startup", "remote", "header"}
    /\ CockpitInit /\ UpdaterInit
    /\ PanelInit /\ (poll = Off) = (focus # "playback")
    /\ IF focus = "startup" THEN StartupInit ELSE StartupRests
    /\ IF focus = "remote" THEN RemoteDeskInit ELSE RemoteRests
    /\ HeaderInit /\ (focus = "header" \/ ~narrow)

Moves(part, next, vars) == IF focus = part THEN next ELSE UNCHANGED vars

MCNext ==
    /\ UNCHANGED focus
    /\ Moves("cockpit", CockpitNext, cockpitVars)
    /\ Moves("playback", PanelNext, panelVars)
    /\ Moves("updater", UpdaterNext, updaterVars)
    /\ Moves("startup", StartupNext, startupVars)
    /\ Moves("remote", RemoteDeskNext, remoteDeskVars)
    /\ Moves("header", HeaderNext, headerVars)

MCSpec ==
    /\ MCInit
    /\ [][MCNext]_<<focus, cockpitVars, panelVars, updaterVars, startupVars, remoteDeskVars,
                 headerVars>>
    /\ CockpitFairness /\ PanelFairness /\ UpdaterFairness
    /\ StartupFairness /\ RemoteDeskFairness /\ HeaderFairness

(***************************************************************************)
(* A property of two parts.                                                *)
(***************************************************************************)
\* What a panel shows catches up with the backend: the scan (usePlaybackInput.ts) and the
\* switch of Remote Access (useRemoteAccess.ts): see ScanIsReleased and CheckboxConverges.
ControlsSettle == ScanIsReleased /\ CheckboxConverges
=============================================================================
