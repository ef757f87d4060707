---------------------------- MODULE AccessSwitch ----------------------------
(***************************************************************************)
(* Connection Access (components/BackendSetupPanel.tsx): Host, Local       *)
(* network or Internet in one switch, over two things that change apart:   *)
(* Remote Access (RemoteDesk) and the network setting of the settings      *)
(* file.  Going to or leaving Internet saves the network setting after     *)
(* Remote Access has switched; an effect of every render decides when.     *)
(*                                                                         *)
(* The backend reports the address it listens on when the desktop shell    *)
(* gives it one (STAGEPILOT_HOST overrides the file), and then a changed   *)
(* network setting also compares equal before and after the save, so that  *)
(* no restart is asked for and the choice is held until one comes.         *)
(***************************************************************************)
EXTENDS RemoteDesk

CONSTANTS
    HostSetByShell,  \* the backend was started by the desktop shell
    MaxSaves         \* bound: saves of the settings

ASSUME AccessSwitchAssumption == HostSetByShell \in BOOLEAN /\ MaxSaves \in Nat

VARIABLES
    lanFile, lanBound,  \* lan_access in the file; other devices can connect
    savedLan,           \* lan_access of the settings copy
    chosenLan,          \* the choice not reported yet, if any
    afterRemote,        \* what to save once Remote Access has switched, if anything
    lanSave,            \* the save under way, and the network setting it carries
    lanSaves,           \* saves started
    lanFailed,          \* saveFailed
    overwritten,        \* history: another save carried the copy's setting over a held choice
    remoteError         \* useRemoteAccess has an error on show

networkVars == <<savedLan, chosenLan, lanSave, lanSaves, lanFailed, overwritten>>
accessVars == <<remoteDeskVars, lanFile, lanBound, networkVars, afterRemote, remoteError>>

Nothing == <<>>
AccessChoices == {"host", "network", "internet"}

AccessInit ==
    /\ RemoteDeskInit
    /\ lanFile \in BOOLEAN /\ lanBound = lanFile /\ savedLan = lanFile
    /\ chosenLan = Nothing /\ afterRemote = Nothing
    /\ lanSave = Nothing /\ lanSaves = 0 /\ lanFailed = FALSE /\ remoteError = FALSE
    /\ overwritten = FALSE

Reported == IF HostSetByShell THEN lanBound ELSE lanFile
ShownLan == IF chosenLan = Nothing THEN savedLan ELSE chosenLan[1]
Access == IF Enabled THEN "internet" ELSE IF ShownLan THEN "network" ELSE "host"
CheckboxBusy == task.kind \in {"enable", "disable"}

-----------------------------------------------------------------------------
(* saveLan, and the effect after every render.                             *)

\* Mutant: the choice is shown before it is known whether it can be saved.
SaveLan_ShowsFirst(lan) ==
    /\ chosenLan' = <<lan>>
    /\ IF lanSave = Nothing /\ lan # ShownLan /\ lanSaves < MaxSaves
       THEN /\ lanSave' = <<[lan |-> lan, step |-> "sent"]>> /\ lanSaves' = lanSaves + 1
            /\ lanFailed' = FALSE /\ overwritten' = FALSE
       ELSE UNCHANGED <<lanSave, lanSaves, lanFailed, overwritten>>
    /\ UNCHANGED savedLan

\* A save under way, or the setting shown already, and nothing happens.
SaveLan(lan) ==
    IF lanSave = Nothing /\ lan # ShownLan /\ lanSaves < MaxSaves
    THEN /\ lanSave' = <<[lan |-> lan, step |-> "sent"]>> /\ lanSaves' = lanSaves + 1
         /\ chosenLan' = <<lan>> /\ lanFailed' = FALSE /\ overwritten' = FALSE
         /\ UNCHANGED savedLan
    ELSE UNCHANGED networkVars

Rendered ==
    IF afterRemote = Nothing \/ CheckboxBusy' \/ confirm' THEN UNCHANGED <<afterRemote, networkVars>>
    ELSE LET due == afterRemote[1] IN
         CASE due.when = "enabled" /\ Enabled' -> afterRemote' = Nothing /\ SaveLan(due.lan)
           [] due.when = "enabled" /\ ~Enabled' ->
                /\ afterRemote' = IF remoteError' THEN Nothing ELSE afterRemote
                /\ UNCHANGED networkVars
           [] due.when = "disabled" /\ ~Enabled' -> afterRemote' = Nothing /\ SaveLan(due.lan)
           [] OTHER -> afterRemote' = Nothing /\ UNCHANGED networkVars

\* Remote Access moves on, starts an operation or fails at one, and the panel renders.
RemoteMoves ==
    /\ \/ CredentialChanges \/ Poll \/ PollServed \/ PollShown
       \/ CancelDisable \/ TaskWorks \/ TaskSignsOut \/ TaskReads \/ TaskShown
    /\ UNCHANGED <<lanFile, lanBound, remoteError>>
    /\ Rendered
RemoteStarts ==
    /\ ConfirmDisable \/ AddPerson \/ ChangeLinkOrPeople \/ ChangeOwnAccount
    /\ remoteError' = FALSE
    /\ Rendered
    /\ UNCHANGED <<lanFile, lanBound>>
RemoteErrs ==
    /\ (TaskFails \/ PollFails) /\ remoteError' = (remoteError \/ here # "gone")
    /\ Rendered
    /\ UNCHANGED <<lanFile, lanBound>>

-----------------------------------------------------------------------------
(* chooseAccess.                                                           *)

MayChoose(next) == here # "gone" /\ next # Access /\ lanSave = Nothing /\ ~CheckboxBusy

\* An operation of another kind under way makes requestEnable do nothing.
ChooseInternet ==
    /\ MayChoose("internet")
    /\ afterRemote' = <<[when |-> "enabled", lan |-> TRUE]>>
    /\ \/ task.kind = "none" /\ RequestEnable /\ remoteError' = FALSE
       \/ task.kind # "none" /\ UNCHANGED <<remoteDeskVars, remoteError>>
    /\ UNCHANGED <<lanFile, lanBound, networkVars>>

LeaveInternet(next) ==
    /\ MayChoose(next) /\ Access = "internet"
    /\ afterRemote' = <<[when |-> "disabled", lan |-> next = "network"]>>
    /\ RequestDisable
    /\ UNCHANGED <<lanFile, lanBound, networkVars, remoteError>>

ChooseNetwork(next) ==
    /\ MayChoose(next) /\ next # "internet" /\ Access # "internet" /\ lanSaves < MaxSaves
    /\ SaveLan(next = "network")
    /\ UNCHANGED <<remoteDeskVars, lanFile, lanBound, afterRemote, remoteError>>

\* Save configuration, Save PIN: every field the copy has, the network setting included,
\* also when another choice is held and on show.
SaveOther ==
    /\ here # "gone" /\ lanSave = Nothing /\ lanSaves < MaxSaves
    /\ lanSave' = <<[lan |-> savedLan, step |-> "sent"]>> /\ lanSaves' = lanSaves + 1
    /\ lanFailed' = FALSE /\ overwritten' = (chosenLan # Nothing)
    /\ UNCHANGED <<remoteDeskVars, lanFile, lanBound, savedLan, chosenLan, afterRemote, remoteError>>

-----------------------------------------------------------------------------
(* The save, and a restart of the backend with the page loaded anew.       *)

SaveWritten ==
    /\ lanSave # Nothing /\ lanSave[1].step = "sent"
    /\ lanFile' = lanSave[1].lan
    /\ lanSave' = <<[lanSave[1] EXCEPT !.step = "written"]>>
    /\ UNCHANGED <<remoteDeskVars, lanBound, savedLan, chosenLan, lanSaves, lanFailed, overwritten,
                   afterRemote, remoteError>>

SaveShown ==
    /\ lanSave # Nothing /\ lanSave[1].step = "written"
    /\ lanSave' = Nothing /\ savedLan' = Reported
    /\ chosenLan' = IF chosenLan = <<savedLan'>> THEN Nothing ELSE chosenLan
    /\ UNCHANGED <<remoteDeskVars, lanFile, lanBound, lanSaves, lanFailed, overwritten, afterRemote,
                   remoteError>>
SaveFails ==
    /\ lanSave # Nothing
    /\ lanSave' = Nothing /\ lanFailed' = TRUE /\ chosenLan' = Nothing
    /\ UNCHANGED <<remoteDeskVars, lanFile, lanBound, savedLan, lanSaves, overwritten, afterRemote, remoteError>>
BackendRestarts ==
    /\ lanSave = Nothing /\ task.kind = "none" /\ lanBound # lanFile
    /\ lanBound' = lanFile /\ savedLan' = lanFile
    /\ chosenLan' = Nothing /\ lanFailed' = FALSE /\ overwritten' = FALSE /\ afterRemote' = Nothing
    /\ UNCHANGED <<remoteDeskVars, lanFile, lanSave, lanSaves, remoteError>>

AccessNext ==
    \/ RemoteMoves \/ RemoteStarts \/ RemoteErrs \/ ChooseInternet \/ BackendRestarts
    \/ \E next \in AccessChoices : LeaveInternet(next)
    \/ \E next \in AccessChoices : ChooseNetwork(next)
    \/ SaveOther \/ SaveWritten \/ SaveShown \/ SaveFails

AccessSpec == AccessInit /\ [][AccessNext]_accessVars

-----------------------------------------------------------------------------
(* Properties.                                                             *)

\* With Remote Access off and no save under way or failed, the switch names the network
\* setting that is saved, or the one in force: what it shows is true of one of them. Except
\* after a save of something else (savePin, Save configuration) while a choice is held: that
\* save puts the old setting back (savedLan), and the switch goes on showing the choice.
ShowsNothingUntrue ==
    lanSave = Nothing /\ ~lanFailed /\ ~Enabled /\ ~overwritten =>
        ShownLan \in {lanFile, lanBound}
=============================================================================
