--------------------------- MODULE MCControlPlane ---------------------------
(***************************************************************************)
(* The parts of the control plane for TLC.  Their state is disjoint (other *)
(* keys of the Durable Object's storage, and the Worker's cache), so a     *)
(* behaviour chooses a part and only that one moves; the others stay in    *)
(* one initial state.                                                      *)
(***************************************************************************)
EXTENDS TLC, ControlPlane, ControlDesk, Diagnostics, RateWindows, ReleaseBroker

VARIABLE focus

\* No operator tells these apart: downloads, generations, and sites without remote access.
Perms ==
    Permutations(Downloads) \cup Permutations(Gens) \cup Permutations(Ids \ Remote)

MCInit ==
    /\ focus \in {"registry", "desk", "diagnostics", "quotas", "releases"}
    /\ CPInit /\ DeskInit /\ DiagnosticsInit /\ BrokerInit
    /\ RateInit /\ (focus = "quotas" \/ quota = "source")

Moves(part, next, vars) == IF focus = part THEN next ELSE UNCHANGED vars

MCNext ==
    /\ UNCHANGED focus
    /\ Moves("desk", DeskNext, deskVars)
    /\ Moves("diagnostics", DiagnosticsNext, diagVars)
    /\ Moves("quotas", RateNext, rateVars)
    /\ Moves("releases", BrokerNext, brokerVars)
    /\ Moves("registry", CPNext, cpVars)

MCSpec ==
    MCInit /\ [][MCNext]_<<focus, cpVars, deskVars, diagVars, rateVars, brokerVars>>

\* What the control plane keeps within limits stays within them: the bucket of diagnostics
\* (index.ts:1678-1745), the requests of a source, and the budget of provider calls with
\* the reserve that recovery has (index.ts:1880-1990).
LimitsHold == BucketWithinCap /\ SweepsForgetNothing /\ RecoveryKeepsItsReserve
=============================================================================
