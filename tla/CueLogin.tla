------------------------------ MODULE CueLogin ------------------------------
(***************************************************************************)
(* The MultiTracks login of the cue tool.  Logins live in the credential   *)
(* vault, one slot for each OAuth client and organization; which of them   *)
(* is in use is said by the configuration file.  Login, organization       *)
(* choice and logout each change both, one write at a time, and may be     *)
(* interrupted between any two.  Commands run one at a time.  A slot holds *)
(* the account that logged in: a refresh renews the login of the same      *)
(* account and changes nothing here.                                       *)
(***************************************************************************)
EXTENDS Naturals

CONSTANTS Clients,        \* the OAuth clients; one of them is the built-in default
          DefaultClient,
          Organizations,
          Accounts,       \* the people who may log in
          Nobody,         \* a slot without a login, a configuration without a choice
          MaxLogins

ASSUME LoginAssumption ==
    DefaultClient \in Clients /\ Nobody \notin Clients \cup Organizations \cup Accounts

VARIABLES vault,          \* the slots
          chosen,         \* the configuration file: client and organization
          command,        \* the command that runs
          logins,         \* how many logins were begun
          switched,       \* has another client been configured?
          removed         \* a logout took the login and did not get to save

loginVars == <<vault, chosen, command, logins, switched, removed>>

Quiet == [at |-> "none", config |-> [client |-> Nobody, organization |-> Nobody],
          account |-> Nobody, organization |-> Nobody]

LoginInit ==
    /\ vault = [slot \in Clients \X (Organizations \cup {Nobody}) |-> Nobody]
    /\ chosen = [client |-> Nobody, organization |-> Nobody]
    /\ command = Quiet /\ logins = 0 /\ switched = FALSE /\ removed = FALSE

\* The client of a login; every other command needs one in the configuration.
Client(config) == IF config.client = Nobody THEN DefaultClient ELSE config.client
\* The slot of a configuration.
Slot(config) == <<Client(config), config.organization>>

(***************************************************************************)
(* Login.                                                                  *)
(***************************************************************************)
Login ==
    /\ command = Quiet /\ logins < MaxLogins
    /\ command' = [Quiet EXCEPT !.at = "browser", !.config = chosen]
    /\ logins' = logins + 1
    /\ UNCHANGED <<vault, chosen, switched, removed>>

Authorize(account) ==
    /\ command.at = "browser"
    /\ vault' = [vault EXCEPT ![Slot(command.config)] = account]
    /\ command' = [command EXCEPT !.at = "client", !.account = account]
    /\ removed' = FALSE
    /\ UNCHANGED <<chosen, logins, switched>>

SaveClient ==
    /\ command.at = "client"
    /\ chosen' = [command.config EXCEPT !.client = Client(command.config)]
    /\ command' = [command EXCEPT !.at = "organizations"]
    /\ UNCHANGED <<vault, logins, switched, removed>>

\* The account's organizations are not exposed: nothing is chosen.
NoOrganizations ==
    /\ command.at = "organizations"
    /\ command' = [command EXCEPT !.at = "reported", !.config = chosen]
    /\ UNCHANGED <<vault, chosen, logins, switched, removed>>

\* Only a login that belongs to no organization yet is given one.
Unassigned(config) == <<Client(config), Nobody>>

Select(organization) ==
    /\ command.at = "organizations"
    /\ command' = IF vault[Unassigned(chosen)] = Nobody THEN Quiet
                  ELSE [command EXCEPT !.at = "assign", !.config = chosen,
                                       !.organization = organization]
    /\ UNCHANGED <<vault, chosen, logins, switched, removed>>

Selected == [command.config EXCEPT !.organization = command.organization]

Assign ==
    /\ command.at = "assign"
    /\ vault' = [vault EXCEPT ![Slot(Selected)] = vault[Unassigned(command.config)]]
    /\ command' = [command EXCEPT !.at = "release"]
    /\ UNCHANGED <<chosen, logins, switched, removed>>

\* Mutant: the login stays where it was before it had an organization.
Release_Keeps ==
    /\ command.at = "release"
    /\ command' = [command EXCEPT !.at = "choose"]
    /\ UNCHANGED <<vault, chosen, logins, switched, removed>>

Release ==
    /\ command.at = "release"
    /\ vault' = [vault EXCEPT ![Unassigned(command.config)] = Nobody]
    /\ command' = [command EXCEPT !.at = "choose"]
    /\ UNCHANGED <<chosen, logins, switched, removed>>

SaveOrganization ==
    /\ command.at = "choose"
    /\ chosen' = Selected
    /\ command' = [command EXCEPT !.at = "reported"]
    /\ UNCHANGED <<vault, logins, switched, removed>>

(***************************************************************************)
(* Logout and configuration.                                               *)
(***************************************************************************)
Logout ==
    /\ command = Quiet /\ chosen.client # Nobody
    /\ vault' = [vault EXCEPT ![Slot(chosen)] = Nobody]
    /\ command' = [Quiet EXCEPT !.at = "logout", !.config = chosen]
    /\ removed' = TRUE
    /\ UNCHANGED <<chosen, logins, switched>>

SaveLogout ==
    /\ command.at = "logout"
    /\ chosen' = [command.config EXCEPT !.organization = Nobody]
    /\ command' = Quiet /\ removed' = FALSE
    /\ UNCHANGED <<vault, logins, switched>>

Configure(client) ==
    /\ command = Quiet
    /\ chosen' = [chosen EXCEPT !.client = client]
    /\ switched' = (switched \/ client # Client(chosen))
    /\ UNCHANGED <<vault, command, logins, removed>>

\* The command ends: it reported, it failed, was declined or interrupted.
LoginEnds ==
    /\ command # Quiet /\ command' = Quiet
    /\ UNCHANGED <<vault, chosen, logins, switched, removed>>

LoginNext ==
    \/ Login \/ SaveClient \/ NoOrganizations \/ Assign \/ Release \/ SaveOrganization
    \/ \E account \in Accounts : Authorize(account)
    \/ \E organization \in Organizations : Select(organization)
    \/ Logout \/ SaveLogout \/ LoginEnds
    \/ \E client \in Clients : Configure(client)

(***************************************************************************)
(* Properties, for as long as the client stays the same.                   *)
(***************************************************************************)
\* The organization the configuration names has a login, wherever a command was
\* interrupted, unless a logout was, after it took the login; and a login that is reported
\* is the one that every later command uses, never one that an earlier, interrupted login
\* left behind (auth/service.ts:139-168).
LoginHolds ==
    ~switched =>
        /\ ~removed /\ chosen.organization # Nobody => vault[Slot(chosen)] # Nobody
        /\ command.at = "reported" => vault[Slot(chosen)] = command.account
=============================================================================
