---------------------------- MODULE RemoteAccess ----------------------------
(***************************************************************************)
(* What the control plane promises of remote access, whatever the provider *)
(* does: no more members than the ceiling, and a route to an installation  *)
(* is only ever opened while the installation is a member and asked for it.*)
(* A route may outlive both: closing it is the provider's part.            *)
(***************************************************************************)
EXTENDS Naturals, FiniteSets

CONSTANTS Ids, Limit

VARIABLES
    members,    \* installations that are enrolled and not revoked
    wanted,     \* members whose remote access is switched on
    open        \* installations whose hostname routes to one of their tunnels

raVars == <<members, wanted, open>>

RAInit == members = {} /\ wanted = {} /\ open = {}

Join(i) ==
    /\ i \notin members
    /\ Cardinality(members) < Limit
    /\ members' = members \cup {i}
    /\ UNCHANGED <<wanted, open>>

Leave(i) ==
    /\ i \in members
    /\ members' = members \ {i}
    /\ wanted' = wanted \ {i}
    /\ UNCHANGED open

SwitchOn(i) ==
    /\ i \in members
    /\ wanted' = wanted \cup {i}
    /\ UNCHANGED <<members, open>>

SwitchOff(i) ==
    /\ i \in members
    /\ wanted' = wanted \ {i}
    /\ UNCHANGED <<members, open>>

OpenRoute(i) ==
    /\ i \in members \cap wanted
    /\ open' = open \cup {i}
    /\ UNCHANGED <<members, wanted>>

CloseRoute(i) ==
    /\ i \in open
    /\ open' = open \ {i}
    /\ UNCHANGED <<members, wanted>>

RANext == \E i \in Ids :
    Join(i) \/ Leave(i) \/ SwitchOn(i) \/ SwitchOff(i) \/ OpenRoute(i) \/ CloseRoute(i)

RASpec == RAInit /\ [][RANext]_raVars
=============================================================================
