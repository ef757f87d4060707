----------------------------- MODULE RemoteDesk -----------------------------
(***************************************************************************)
(* The Remote Access panel (frontend/src/hooks/useRemoteAccess.ts and      *)
(* components/RemoteAccessPanel.tsx): a checkbox that shows what the       *)
(* backend says and never what was asked of it, one operation at a time, a *)
(* poll that pauses while one runs, and the warning that a credential is   *)
(* gone, given only for a run of readings.                                 *)
(*                                                                         *)
(* Abstracted: of the people only their number counts, of the link nothing.*)
(***************************************************************************)
EXTENDS Naturals

CONSTANTS
    MaxTasks,   \* bound: operations asked for
    Streak      \* CREDENTIAL_UNAVAILABLE_STREAK_THRESHOLD

ASSUME RemoteDeskAssumption == MaxTasks \in Nat /\ Streak \in Nat \ {0}

VARIABLES
    remote,       \* the backend: is Remote on, starts with the computer, the people,
                  \* and can its credential be read
    remoteStatus, \* status: what the panel knows of it, or nothing
    remotePoll,   \* the poll: idle, asked, or answered with a reading
    task, tasks,  \* the operation under way (inFlight, busy), and those asked for
    confirm,      \* confirmDisable
    readings,     \* credentialUnavailableStreak
    warned,       \* credentialWarning
    here          \* this browser is a Remote one, and still signed in

remoteDeskVars == <<remote, remoteStatus, remotePoll, task, tasks, confirm, readings, warned, here>>

Unknown == <<>>
NoTask == [kind |-> "none", step |-> 0, reading |-> Unknown]

RemoteDeskInit ==
    /\ remote = [on |-> FALSE, autostart |-> FALSE, people |-> 0, credential |-> TRUE]
    /\ remoteStatus = Unknown
    /\ remotePoll = [at |-> "idle", reading |-> Unknown]
    /\ task = NoTask /\ tasks = 0 /\ confirm = FALSE
    /\ readings = 0 /\ warned = FALSE
    /\ here \in {"local", "remote"}

Enabled == remoteStatus # Unknown /\ remoteStatus[1].on
Bootstrap == here = "local" /\ Enabled /\ remoteStatus[1].people = 0

\* The credential broker answers, or does not for a while.
CredentialChanges ==
    /\ remote' = [remote EXCEPT !.credential = ~@]
    /\ UNCHANGED <<remoteStatus, remotePoll, task, tasks, confirm, readings, warned, here>>

-----------------------------------------------------------------------------
(* poll, 2 s apart; it sends nothing while an operation runs.               *)

Poll ==
    /\ here # "gone" /\ remotePoll.at = "idle" /\ task.kind = "none"
    /\ remotePoll' = [at |-> "asked", reading |-> Unknown]
    /\ UNCHANGED <<remote, remoteStatus, task, tasks, confirm, readings, warned, here>>
PollServed ==
    /\ remotePoll.at = "asked"
    /\ remotePoll' = [at |-> "answered", reading |-> <<remote>>]
    /\ UNCHANGED <<remote, remoteStatus, task, tasks, confirm, readings, warned, here>>
\* Mutant: a reading is only taken while there is none.
PollShown_First ==
    /\ remotePoll.at = "answered"
    /\ remotePoll' = [at |-> "idle", reading |-> Unknown]
    /\ remoteStatus' = IF here = "gone" \/ remoteStatus # Unknown THEN remoteStatus
                       ELSE remotePoll.reading
    /\ UNCHANGED <<remote, task, tasks, confirm, readings, warned, here>>

PollShown ==
    /\ remotePoll.at = "answered"
    /\ remotePoll' = [at |-> "idle", reading |-> Unknown]
    /\ IF here = "gone" THEN UNCHANGED <<remoteStatus, readings, warned>>
       ELSE /\ remoteStatus' = remotePoll.reading
            /\ IF remotePoll.reading[1].credential
               THEN readings' = 0 /\ warned' = FALSE
               ELSE /\ readings' = IF readings < Streak THEN readings + 1 ELSE readings
                    /\ warned' = (warned \/ readings' = Streak)
    /\ UNCHANGED <<remote, task, tasks, confirm, here>>
PollFails ==
    /\ remotePoll.at = "asked"
    /\ remotePoll' = [at |-> "idle", reading |-> Unknown]
    /\ remoteStatus' = IF here = "gone" THEN remoteStatus ELSE Unknown
    /\ UNCHANGED <<remote, task, tasks, confirm, readings, warned, here>>

-----------------------------------------------------------------------------
(* run: the work, and then the status and the people again.                 *)

Start(kind) ==
    /\ here # "gone" /\ task.kind = "none" /\ tasks < MaxTasks
    /\ task' = [kind |-> kind, step |-> 1, reading |-> Unknown] /\ tasks' = tasks + 1
    /\ UNCHANGED <<remote, remoteStatus, remotePoll, readings, warned, here>>

RequestEnable == ~Enabled /\ Start("enable") /\ UNCHANGED confirm
RequestDisable ==
    /\ here # "gone" /\ Enabled /\ ~confirm
    /\ confirm' = TRUE
    /\ UNCHANGED <<remote, remoteStatus, remotePoll, task, tasks, readings, warned, here>>
CancelDisable ==
    /\ confirm
    /\ confirm' = FALSE
    /\ UNCHANGED <<remote, remoteStatus, remotePoll, task, tasks, readings, warned, here>>
ConfirmDisable == confirm /\ Start("disable") /\ confirm' = FALSE
AddPerson == (Bootstrap \/ (Enabled /\ remoteStatus[1].people > 0))
             /\ Start("person") /\ UNCHANGED confirm
\* A new link, a new identity, another person's role, password or account; or one's own.
ChangeLinkOrPeople == Enabled /\ Start("other") /\ UNCHANGED confirm
ChangeOwnAccount   == Enabled /\ here = "remote" /\ Start("own") /\ UNCHANGED confirm

\* Turning on or off: the backend first, and then the start with the computer.
TaskWorks ==
    /\ \/ /\ task.kind \in {"enable", "disable"} /\ task.step = 1
          /\ remote' = [remote EXCEPT !.on = (task.kind = "enable")]
          /\ task' = [task EXCEPT !.step = 2]
       \/ /\ task.kind \in {"enable", "disable"} /\ task.step = 2
          /\ remote' = [remote EXCEPT !.autostart = (task.kind = "enable")]
          /\ task' = [task EXCEPT !.step = 3]
       \/ /\ task.kind = "person" /\ task.step = 1
          /\ remote' = [remote EXCEPT !.people = 1]
          /\ task' = [task EXCEPT !.step = 3]
       \/ /\ task.kind \in {"other", "own"} /\ task.step = 1
          /\ task' = [task EXCEPT !.step = 3]
          /\ UNCHANGED remote
    /\ UNCHANGED <<remoteStatus, remotePoll, tasks, confirm, readings, warned, here>>

\* A Remote browser that turned Remote off, or changed its own account, is signed out
\* at once (selfChange).
SelfChange == task.kind \in {"disable", "own"} /\ here = "remote"
TaskSignsOut ==
    /\ task.step = 3 /\ SelfChange
    /\ here' = "gone" /\ task' = NoTask
    /\ UNCHANGED <<remote, remoteStatus, remotePoll, tasks, confirm, readings, warned>>
TaskReads ==
    /\ task.step = 3 /\ ~SelfChange
    /\ task' = [task EXCEPT !.step = 4, !.reading = <<remote>>]
    /\ UNCHANGED <<remote, remoteStatus, remotePoll, tasks, confirm, readings, warned, here>>
TaskShown ==
    /\ task.step = 4
    /\ remoteStatus' = task.reading /\ task' = NoTask
    /\ UNCHANGED <<remote, remotePoll, tasks, confirm, readings, warned, here>>
\* A step is refused or not answered: an error, and the status as it was.
TaskFails ==
    /\ task.kind # "none"
    /\ task' = NoTask
    /\ UNCHANGED <<remote, remoteStatus, remotePoll, tasks, confirm, readings, warned, here>>

RemoteDeskNext ==
    \/ CredentialChanges \/ Poll \/ PollServed \/ PollShown \/ PollFails
    \/ RequestEnable \/ RequestDisable \/ CancelDisable \/ ConfirmDisable \/ AddPerson
    \/ ChangeLinkOrPeople \/ ChangeOwnAccount \/ TaskWorks \/ TaskSignsOut \/ TaskReads \/ TaskShown \/ TaskFails

\* Polls go on, the backend answers some of them, and operations end.
RemoteDeskFairness ==
    /\ WF_remoteDeskVars(Poll) /\ SF_remoteDeskVars(PollServed) /\ WF_remoteDeskVars(PollShown)
    /\ WF_remoteDeskVars(TaskWorks \/ TaskSignsOut \/ TaskReads \/ TaskShown)

-----------------------------------------------------------------------------
(* Properties.                                                              *)

\* Whatever was lost on the way, the checkbox comes to show what the backend has: a
\* failed operation, a failed poll and a reading overtaken by an operation included.
CheckboxConverges ==
    <>[](here # "gone") => []<>(remoteStatus # Unknown /\ remoteStatus[1].on = remote.on)
=============================================================================
