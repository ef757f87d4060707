------------------------------ MODULE Startup ------------------------------
(***************************************************************************)
(* The startup screen of the desktop program (frontend/src/App.tsx,        *)
(* startup/startupProgress.ts, startup/useStartupProgress.ts): what it     *)
(* knows of the backend's supervisor, its phases, the progress loop that   *)
(* stops when it has failed or completed, the dashboard it reveals, and    *)
(* the one activation of the configured services after that.               *)
(*                                                                         *)
(* Abstracted: the progress value has the levels begun, all but done and   *)
(* complete, and time is left to fairness.                                 *)
(***************************************************************************)
EXTENDS Naturals, Sequences

CONSTANTS
    MaxFailures,  \* bound: failures of the backend
    MaxRetries    \* bound: presses of Retry Backend

ASSUME StartupAssumption == {MaxFailures, MaxRetries} \subseteq Nat

VARIABLES
    supervisor, failures,   \* the supervisor's state, and the failures so far
    query, listening, news, \* its state asked once; its events
    seen,                   \* backendSupervisor.state, or null
    connected, loaded,      \* health or live; state
    retrying, retries,      \* retryingBackend; startupAttempt
    ticking, phase, value,  \* the progress loop runs; its phase and value
    visible,                \* dashboardVisible
    source, settings, account, \* service_source; are settings and the account's status here
    activated               \* startupServicesActivated

startupVars == <<supervisor, failures, query, listening, news, seen, connected, loaded,
                 retrying, retries, ticking, phase, value, visible, source, settings,
                 account, activated>>
shell    == <<supervisor, failures, news>>
watching == <<query, listening, seen>>
loading  == <<connected, loaded>>
retry    == <<retrying, retries>>
progress == <<ticking, phase, value>>
services == <<source, settings, account, activated>>

StartupInit ==
    /\ supervisor = "starting" /\ failures = 0
    /\ query = "asked" /\ listening = FALSE /\ news = <<>> /\ seen = "null"
    /\ connected = FALSE /\ loaded = FALSE /\ retrying = FALSE /\ retries = 0
    /\ ticking = TRUE /\ phase = "initializing" /\ value = 0
    /\ visible = FALSE
    /\ source \in {"planning_center", "demo"} /\ settings = FALSE /\ account = FALSE
    /\ activated = FALSE

\* A change of an input starts the progress loop again.
Restarts == ticking' = TRUE /\ UNCHANGED <<phase, value>>

-----------------------------------------------------------------------------
(* The shell, and how the page hears of it.                                 *)

Becomes(state) ==
    /\ supervisor' = state
    /\ news' = IF listening THEN Append(news, state) ELSE news

BackendReady ==
    /\ supervisor = "starting"
    /\ Becomes("ready")
    /\ UNCHANGED <<failures, watching, loading, retry, progress, visible, services>>
BackendFails ==
    /\ supervisor \in {"starting", "ready"} /\ failures < MaxFailures
    /\ failures' = failures + 1
    /\ Becomes("failed")
    /\ UNCHANGED <<watching, loading, retry, progress, visible, services>>
\* restart_managed_backend, unless the old process does not end.
BackendStarts ==
    /\ supervisor = "stopped"
    /\ Becomes("starting")
    /\ UNCHANGED <<failures, watching, loading, retry, progress, visible, services>>

Queried ==
    /\ query = "asked"
    /\ query' = supervisor
    /\ UNCHANGED <<shell, listening, seen, loading, retry, progress, visible, services>>
Listens ==
    /\ ~listening
    /\ listening' = TRUE
    /\ UNCHANGED <<shell, query, seen, loading, retry, progress, visible, services>>

\* Mutant: the progress loop does not start again when the state changes.
Sees_NoRestart(state) ==
    /\ seen' = state
    /\ retrying' = (retrying /\ state # "ready")
    /\ UNCHANGED progress

Sees(state) ==
    /\ seen' = state
    /\ retrying' = (retrying /\ state # "ready")
    /\ IF seen' # seen \/ retrying' # retrying THEN Restarts ELSE UNCHANGED progress
QueryAnswered ==
    /\ query \notin {"asked", "done"}
    /\ query' = "done" /\ Sees(query)
    /\ UNCHANGED <<shell, listening, loading, retries, visible, services>>
Hears ==
    /\ news # <<>>
    /\ news' = Tail(news) /\ Sees(Head(news))
    /\ UNCHANGED <<supervisor, failures, query, listening, loading, retries, visible,
                   services>>

\* retryBackend and its end, offered while the startup has failed.
RetryBackend ==
    /\ ~visible /\ phase = "failed" /\ ~retrying /\ retries < MaxRetries
    /\ retries' = retries + 1 /\ retrying' = TRUE
    /\ Restarts
    /\ Becomes("stopped")
    /\ UNCHANGED <<failures, watching, loading, visible, services>>
RetryAnswered ==
    /\ retrying
    /\ retrying' = FALSE /\ Restarts
    /\ UNCHANGED <<shell, watching, loading, retries, visible, services>>

\* The first answers of the backend (useStagePilot).
Connects ==
    /\ supervisor = "ready" /\ ~connected
    /\ connected' = TRUE /\ Restarts
    /\ UNCHANGED <<shell, watching, loaded, retry, visible, services>>
Loads ==
    /\ supervisor = "ready" /\ connected /\ ~loaded
    /\ loaded' = TRUE /\ Restarts
    /\ UNCHANGED <<shell, watching, connected, retry, visible, services>>
SettingsCome ==
    /\ supervisor = "ready" /\ loaded /\ ~settings
    /\ settings' = TRUE
    /\ UNCHANGED <<shell, watching, loading, retry, progress, visible, source, account,
                   activated>>
AccountComes ==
    /\ supervisor = "ready" /\ ~account
    /\ account' = TRUE
    /\ UNCHANGED <<shell, watching, loading, retry, progress, visible, source, settings,
                   activated>>

-----------------------------------------------------------------------------
(* The progress loop, the reveal and the activation.                        *)

DerivedPhase ==
    IF ~retrying /\ seen \in {"failed", "stopped"} THEN "failed"
    ELSE IF loaded THEN "preparing-dashboard"
    ELSE IF connected THEN "loading-state"
    ELSE IF seen = "ready" THEN "backend-ready"
    ELSE "starting-backend"

\* timeBasedProgress: every phase but the last stops short of the end.
Raised(p) == IF p = "failed" THEN value
             ELSE IF p = "preparing-dashboard" THEN 2 ELSE IF value > 1 THEN value ELSE 1

Tick ==
    /\ ticking
    /\ LET p == DerivedPhase IN
       /\ \/ value' = Raised(p)
          \/ UNCHANGED value
       /\ phase' = IF p = "preparing-dashboard" /\ value' = 2 THEN "complete" ELSE p
       /\ ticking' = (phase' \notin {"failed", "complete"})
    /\ UNCHANGED <<shell, watching, loading, retry, visible, services>>

Reveal ==
    /\ ~visible /\ loaded /\ phase = "complete"
    /\ visible' = TRUE
    /\ UNCHANGED <<shell, watching, loading, retry, progress, services>>

\* After a second without a change; only once.
Ready == visible /\ settings /\ (source = "planning_center" => account)
ActivateServices ==
    /\ Ready /\ ~activated
    /\ activated' = TRUE
    /\ UNCHANGED <<shell, watching, loading, retry, progress, visible, source, settings,
                   account>>

StartupNext ==
    \/ BackendReady \/ BackendFails \/ BackendStarts \/ Queried \/ Listens \/ QueryAnswered
    \/ Hears \/ RetryBackend \/ RetryAnswered \/ Connects \/ Loads \/ SettingsCome
    \/ AccountComes \/ Tick \/ Reveal \/ ActivateServices

StartupFairness ==
    /\ WF_startupVars(Queried \/ Listens) /\ WF_startupVars(QueryAnswered \/ Hears)
    /\ WF_startupVars(BackendReady \/ Connects \/ Loads \/ SettingsCome \/ AccountComes)
    /\ WF_startupVars(RetryAnswered) /\ WF_startupVars(Reveal) /\ WF_startupVars(ActivateServices)
    /\ WF_startupVars(Tick)

-----------------------------------------------------------------------------
(* The property.                                                            *)

\* Whatever failed before, once the backend stays ready and the page knows it, the
\* startup screen ends, and the configured services are activated.
StartupEnds ==
    <>[](supervisor = "ready" /\ seen = "ready") => <>(visible /\ activated)
=============================================================================
