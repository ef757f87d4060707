----------------------------- MODULE RateWindows -----------------------------
(***************************************************************************)
(* The quotas of the control plane (control-plane/src/index.ts): requests  *)
(* per source address (takeReleaseRate and takeOauthRate, one algorithm),  *)
(* enrollments per source address, requests per installation, and calls to *)
(* the provider, of which a part is kept for recovery.  Each take is one   *)
(* step, because the Registry handles one request at a time.  The quotas   *)
(* share nothing, so a behaviour follows one of them, `quota`.             *)
(***************************************************************************)
EXTENDS Naturals, FiniteSets

CONSTANTS
    Sources,      \* the source addresses, after normalisation and hashing
    Exempt,       \* ENROLLMENT_EXEMPT_SOURCES
    MaxSources,   \* MAX_RELEASE_SOURCES, MAX_OAUTH_RATE_SOURCES, MAX_SOURCE_QUOTAS
    PerWindow,    \* the requests that one source, or one installation, gets
    Total, Normal,\* PROVIDER_TOTAL_BUDGET, PROVIDER_NORMAL_BUDGET
    Length,       \* the length of a window
    MaxNow        \* bound: how far the clock runs

ASSUME RateAssumption ==
    /\ Exempt \subseteq Sources
    /\ {MaxSources, PerWindow, Total, Normal, MaxNow} \subseteq Nat
    /\ Length \in Nat \ {0}
    /\ Normal <= Total

VARIABLES
    now,          \* the clock
    quota,        \* the quota that is followed
    windows,      \* the window stored for each source: release-source:<subject>,
                  \* oauth-source:<subject>, or enrollment-source:<hash>
    index,        \* release-source-index, or enrollment-source-index
    window,       \* the installation's mutationRate, or provider:budget
    recovered,    \* history: recovery calls made in the budget's window
    truth         \* history: a window for each source that nothing sweeps

rateVars == <<now, quota, windows, index, window, recovered, truth>>

NoWindow == [start |-> 0, count |-> 0, seen |-> 0]

Over(w) == now - w.start >= Length

\* Nothing stored, or a window that is over: a new one starts.
Current(w) ==
    IF w.count = 0 \/ Over(w) THEN [start |-> now, count |-> 0, seen |-> now] ELSE w
Counted(w) == [w EXCEPT !.count = @ + 1, !.seen = now]

RateInit ==
    /\ now = 0
    /\ quota \in {"source", "enrollment", "installation", "provider"}
    /\ windows = [s \in Sources |-> NoWindow] /\ index = {}
    /\ window = NoWindow /\ recovered = 0
    /\ truth = [s \in Sources |-> NoWindow]

-----------------------------------------------------------------------------
Swept(kept) == [s \in Sources |-> IF s \in index \ kept THEN NoWindow ELSE windows[s]]
Full(s, kept) == s \notin kept /\ Cardinality(kept) >= MaxSources
Admit(s, w, kept) ==
    /\ windows' = [Swept(kept) EXCEPT ![s] = Counted(w)]
    /\ index' = kept \cup {s}
    /\ truth' = [truth EXCEPT ![s] = Counted(Current(@))]
    /\ UNCHANGED <<now, quota, window, recovered>>
Refuse(kept) ==
    /\ windows' = Swept(kept)
    /\ UNCHANGED <<now, quota, index, window, recovered, truth>>

\* takeReleaseRate, takeOauthRate: windows in the index that are over are deleted
\* on the way, also by a request that is then refused, which saves no index.
Unexpired == {s \in index : windows[s].count > 0 /\ ~Over(windows[s])}
TakeSource(s) ==
    LET w == Current(Swept(Unexpired)[s]) IN
    /\ quota = "source"
    /\ IF Full(s, Unexpired) \/ w.count >= PerWindow
       THEN Refuse(Unexpired) ELSE Admit(s, w, Unexpired)

\* enroll and pruneSourceQuotas: a window starts at the first enrollment, and is
\* kept for a window's length after the latest one.  The quota is checked before
\* the index is pruned.  (Bound: an exempt source enrolls PerWindow + 1 times.)
Recent == {s \in index : windows[s].count > 0 /\ now - windows[s].seen < Length}
EnrollFrom(s) ==
    LET w == Current(windows[s]) IN
    /\ quota = "enrollment"
    /\ w.count <= PerWindow
    /\ IF s \notin Exempt /\ w.count >= PerWindow THEN Refuse(index)
       ELSE IF w.count = 0 /\ Full(s, Recent) THEN Refuse(Recent)
       ELSE Admit(s, w, Recent)

\* takeInstallationRate and takeDiagnosticsRate.
TakeInstallation ==
    LET w == Current(window) IN
    /\ quota = "installation"
    /\ w.count < PerWindow
    /\ window' = Counted(w)
    /\ UNCHANGED <<now, quota, windows, index, recovered, truth>>

\* Mutant: every lane may use the whole budget.
Ceiling_Shared(lane) == Total

\* takeProviderBudget, in the lane that the handler runs in: disable, revoke,
\* reenroll, reactivate and the reconciliation of a removal recover.
Ceiling(lane) == IF lane = "recovery" THEN Total ELSE Normal
TakeBudget(lane) ==
    LET w == Current(window) IN
    /\ quota = "provider"
    /\ w.count < Ceiling(lane)
    /\ window' = Counted(w)
    /\ recovered' = (IF w.count = 0 THEN 0 ELSE recovered)
                    + (IF lane = "recovery" THEN 1 ELSE 0)
    /\ UNCHANGED <<now, quota, windows, index, truth>>

Tick ==
    /\ now < MaxNow
    /\ now' = now + 1
    /\ UNCHANGED <<quota, windows, index, window, recovered, truth>>

RateNext ==
    \/ \E s \in Sources : TakeSource(s) \/ EnrollFrom(s)
    \/ TakeInstallation
    \/ \E lane \in {"normal", "recovery"} : TakeBudget(lane)
    \/ Tick

-----------------------------------------------------------------------------
(* Properties.                                                              *)

\* No sweep forgets what it should remember, and none remembers for ever: while
\* a source's window lasts, the stored count is the number of requests let in
\* since it began, so that a source never gets a second helping; and whatever is
\* stored is in the index that the next request sweeps, which is bounded.
SweepsForgetNothing ==
    /\ \A s \in Sources :
        truth[s].count > 0 /\ ~Over(truth[s]) => windows[s].count = truth[s].count
    /\ {s \in Sources : windows[s].count > 0} \subseteq index
    /\ Cardinality(index) <= MaxSources

\* The provider's reserve: while a window lasts, a recovery call is refused only
\* when recovery has made PROVIDER_TOTAL_BUDGET - PROVIDER_NORMAL_BUDGET calls.
RecoveryKeepsItsReserve ==
    quota = "provider" /\ window.count >= Ceiling("recovery") => recovered >= Total - Normal
=============================================================================
