----------------------------- MODULE ControlDesk -----------------------------
(***************************************************************************)
(* What the operator of the fleet and an installation tell each other      *)
(* through the control plane (control-plane/src/index.ts): queued actions, *)
(* approval requests, alerts and names.  The control plane never calls an  *)
(* installation: it stores, and the installation polls.  Every handler     *)
(* writes once, so each is one step; the installation's side and the       *)
(* operator's page are processes of their own, whose requests may be lost, *)
(* answered late or repeated, and which may stop between two steps.        *)
(***************************************************************************)
EXTENDS Naturals, FiniteSets

CONSTANTS
    Sites,       \* the installations
    MaxActions   \* bound: actions ever queued, and alert occurrences forwarded

ASSUME DeskAssumption == MaxActions \in Nat /\ 0 \notin Sites

VARIABLES
    queued,      \* pending-action:<site>: the number of its action, or 0
    issued,      \* how many actions have been queued so far
    heard,       \* the site: the action it read from its status answer, or 0
    handled,     \* the site: its handler has run for the action it heard
    applied,     \* history: the actions that some handler run was for
    acks,        \* acknowledgements sent and not yet received
    approval,    \* approval:<site>: none, pending, approved or denied
    seen,        \* the site: the answer it last read of its approval request
    page,        \* the operator's page: the approvals it shows as pending
    alert,       \* alert:<site>: its status, and the occurrences it counts
    named,       \* the site has reported its device name
    label        \* the installation's label: empty, the device's, the operator's

deskVars == <<queued, issued, heard, handled, applied, acks, approval, seen, page,
              alert, named, label>>
actionVars   == <<queued, issued, heard, handled, applied, acks>>
approvalVars == <<approval, seen, page>>
nameVars     == <<alert, named, label>>

Answers == {"approved", "denied"}
Alert   == [status: {"none", "open", "acknowledged"}, count: 0..MaxActions]

DeskInit ==
    /\ queued = [s \in Sites |-> 0] /\ issued = 0
    /\ heard = [s \in Sites |-> 0] /\ handled = [s \in Sites |-> FALSE]
    /\ applied = {} /\ acks = {}
    /\ approval = [s \in Sites |-> "none"] /\ seen = [s \in Sites |-> "none"]
    /\ page = {}
    /\ alert = [s \in Sites |-> [status |-> "none", count |-> 0]]
    /\ named = [s \in Sites |-> FALSE] /\ label = [s \in Sites |-> "empty"]

-----------------------------------------------------------------------------
(* Queued actions.                                                          *)

\* adminQueueRateLimitReset: an action still pending is not queued twice.
QueueAction(s) ==
    /\ queued[s] = 0 /\ issued < MaxActions
    /\ issued' = issued + 1
    /\ queued' = [queued EXCEPT ![s] = issued + 1]
    /\ UNCHANGED <<heard, handled, applied, acks, approvalVars, nameVars>>

\* apply_pending_actions: the site's status request and its answer.
Poll(s) ==
    /\ heard[s] = 0 /\ queued[s] # 0
    /\ heard' = [heard EXCEPT ![s] = queued[s]]
    /\ handled' = [handled EXCEPT ![s] = FALSE]
    /\ UNCHANGED <<queued, issued, applied, acks, approvalVars, nameVars>>

\* ... applies the action, and only then acknowledges it.
Apply(s) ==
    /\ heard[s] # 0 /\ ~handled[s]
    /\ handled' = [handled EXCEPT ![s] = TRUE]
    /\ applied' = applied \cup {heard[s]}
    /\ UNCHANGED <<queued, issued, heard, acks, approvalVars, nameVars>>
SendAck(s) ==
    /\ heard[s] # 0 /\ handled[s]
    /\ acks' = acks \cup {<<s, heard[s]>>}
    /\ heard' = [heard EXCEPT ![s] = 0]
    /\ UNCHANGED <<queued, issued, handled, applied, approvalVars, nameVars>>

\* Mutant: an acknowledgement removes whatever is queued.
ReceiveAck_Any(s, n) ==
    /\ <<s, n>> \in acks /\ acks' = acks \ {<<s, n>>}
    /\ queued' = [queued EXCEPT ![s] = 0]
    /\ UNCHANGED <<issued, heard, handled, applied, approvalVars, nameVars>>

\* acknowledgePendingAction: removes the action of that number, if it is there.
ReceiveAck(s, n) ==
    /\ <<s, n>> \in acks
    /\ acks' = acks \ {<<s, n>>}
    /\ queued' = IF queued[s] = n THEN [queued EXCEPT ![s] = 0] ELSE queued
    /\ UNCHANGED <<issued, heard, handled, applied, approvalVars, nameVars>>
LoseAck(s, n) ==
    /\ <<s, n>> \in acks
    /\ acks' = acks \ {<<s, n>>}
    /\ UNCHANGED <<queued, issued, heard, handled, applied, approvalVars, nameVars>>

\* The site stops between two steps; it polls again when it is back.
SiteStops(s) ==
    /\ heard[s] # 0
    /\ heard' = [heard EXCEPT ![s] = 0]
    /\ UNCHANGED <<queued, issued, handled, applied, acks, approvalVars, nameVars>>

-----------------------------------------------------------------------------
(* Approval requests.                                                       *)

\* createApprovalRequest (one request per site is followed).
Ask(s) ==
    /\ approval[s] = "none"
    /\ approval' = [approval EXCEPT ![s] = "pending"]
    /\ UNCHANGED <<seen, page, actionVars, nameVars>>

\* adminListApprovalRequests, as the operator's page shows it until it reloads.
ListApprovals ==
    /\ page' = {s \in Sites : approval[s] = "pending"}
    /\ UNCHANGED <<approval, seen, actionVars, nameVars>>

\* adminDecideApprovalRequest: a request already decided is refused.
Decide(s, answer) ==
    /\ s \in page
    /\ approval[s] = "pending"
    /\ approval' = [approval EXCEPT ![s] = answer]
    /\ UNCHANGED <<seen, page, actionVars, nameVars>>

\* installationApprovalRequests.
Learn(s) ==
    /\ seen' = [seen EXCEPT ![s] = approval[s]]
    /\ UNCHANGED <<approval, page, actionVars, nameVars>>

-----------------------------------------------------------------------------
(* Alerts and names.                                                        *)

\* ingestAlert: a fresh occurrence opens the alert again.
Ingest(s) ==
    /\ alert[s].count < MaxActions
    /\ alert' = [alert EXCEPT ![s] = [status |-> "open", count |-> @.count + 1]]
    /\ UNCHANGED <<named, label, actionVars, approvalVars>>

\* adminAcknowledgeAlert: by the alert's id, whatever it counts by now.
Acknowledge(s) ==
    /\ alert[s].status # "none"
    /\ alert' = [alert EXCEPT ![s].status = "acknowledged"]
    /\ UNCHANGED <<named, label, actionVars, approvalVars>>

\* applyDeviceName: the first name a site reports labels it, if nothing does.
ReportName(s) ==
    /\ ~named[s]
    /\ named' = [named EXCEPT ![s] = TRUE]
    /\ label' = IF label[s] = "empty" THEN [label EXCEPT ![s] = "device"] ELSE label
    /\ UNCHANGED <<alert, actionVars, approvalVars>>

\* adminSetLabel: any label, and the empty one, are the operator's to give.
SetLabel(s, l) ==
    /\ label' = [label EXCEPT ![s] = l]
    /\ UNCHANGED <<alert, named, actionVars, approvalVars>>

DeskNext ==
    \/ ListApprovals
    \/ \E s \in Sites :
        \/ QueueAction(s) \/ Poll(s) \/ Apply(s) \/ SendAck(s) \/ SiteStops(s)
        \/ \E n \in 1..MaxActions : ReceiveAck(s, n) \/ LoseAck(s, n)
        \/ Ask(s) \/ Learn(s) \/ \E answer \in Answers : Decide(s, answer)
        \/ Ingest(s) \/ Acknowledge(s) \/ ReportName(s)
        \/ \E l \in {"empty", "operator"} : SetLabel(s, l)

DeskSpec == DeskInit /\ [][DeskNext]_deskVars

-----------------------------------------------------------------------------
(* Properties.                                                              *)

\* An action leaves the queue only when a run of the site's handler was for that very
\* action: an acknowledgement that is late, repeated, or answers an older action of the
\* site never suppresses one that has not been applied.  And what the operator has said
\* stands: an answer that a site has read is never replaced, from a second page that still
\* shows the request as pending, nor a label of the operator's by a name the site reports.
DeskKeepsItsWord ==
    [][\A s \in Sites :
           /\ queued[s] # 0 /\ queued'[s] # queued[s] => queued[s] \in applied
           /\ seen[s] \in Answers => approval'[s] = seen[s]
           /\ label[s] = "operator" => label'[s] # "device"]_deskVars
=============================================================================
