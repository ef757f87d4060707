---------------------------- MODULE ControlPlane ----------------------------
(***************************************************************************)
(* The control plane's Registry (control-plane/src/index.ts): enrolled     *)
(* installations, and the tunnel and DNS record that each one has at the   *)
(* provider while its remote access is on.                                 *)
(*                                                                         *)
(* The Registry handles one request at a time (fetch chains every request  *)
(* on `serial`), so at most one request `req` is under way.  A handler is  *)
(* cut where it writes: each write to storage or to the provider is a step,*)
(* and reads with no write between them belong to the step that follows.   *)
(* Any provider call may fail, or be carried out and its answer be lost,   *)
(* and the Durable Object may be evicted between two steps: the request    *)
(* ends there, and what it wrote stays.                                    *)
(***************************************************************************)
EXTENDS Naturals, FiniteSets

CONSTANTS
    Ids,        \* the ids that generateUniqueInstallationId can draw
    Nonces,     \* the enrollment nonces that installers keep
    Gens,       \* the generations that installers choose
    Limit,      \* BETA_INSTALLATION_LIMIT
    MaxCred,    \* bound: credential rotations of one installation
    Remote,     \* bound: the installations that ever switch remote access on
    None, Foreign

ASSUME ControlPlaneAssumption ==
    /\ IsFiniteSet(Ids)
    /\ Limit \in Nat \ {0}
    /\ MaxCred \in Nat
    /\ Remote \subseteq Ids
    /\ None \notin Ids \cup Gens
    /\ Foreign \notin Gens \cup {None}

VARIABLES
    inst,       \* installation:<id> in storage
    enrolled,   \* enrollment:<nonce> in storage: the id it was given, or None
    active,     \* registry:stats.activeInstallations
    enrolling,  \* ENROLLMENT_ENABLED of the deployed configuration
    tokens,     \* tokenCache, in memory: the ids with an unexpired token
    req,        \* the request under way, or None
    tunnels,    \* at the provider: the generations of an id that have a tunnel
    routed,     \* ... whose tunnel is configured to reach the installation
    live,       \* ... whose tunnel has a connected connector
    dns,        \* at the provider: the generation in an id's DNS record
    orphans     \* history: generations that storage forgot with a tunnel still up

store    == <<inst, enrolled, active>>
provider == <<tunnels, routed, live, dns>>
cpVars   == <<inst, enrolled, active, enrolling, tokens, req,
              tunnels, routed, live, dns, orphans>>

Phases == {"disabled", "enabling", "provisioned", "revoking"}
Ops    == {"provision", "disable", "revoke", "reenroll"}
Steps  == {"look", "record", "unroute", "drop", "create", "configure", "route",
           "token", "settle", "count", "remint"}

Installation ==
    [known: BOOLEAN, phase: Phases, desired: BOOLEAN, revoked: BOOLEAN,
     gen: Gens \cup {None}, last: Gens \cup {None}, tunnel: BOOLEAN,
     confirmed: BOOLEAN, cred: Nat]
Request ==
    [op: Ops, id: Ids, pc: Steps, target: Gens \cup {None}, counted: BOOLEAN]

ASSUME NoneIsNoRequest == None \notin Request

Unknown ==
    [known |-> FALSE, phase |-> "disabled", desired |-> FALSE, revoked |-> FALSE,
     gen |-> None, last |-> None, tunnel |-> FALSE, confirmed |-> FALSE, cred |-> 0]
Enrolled == [Unknown EXCEPT !.known = TRUE]

(* What the handlers make of an installation's row.                         *)

\* provision: the first save of what is wanted from now on.
Enabled(r, g) == [r EXCEPT !.gen = g, !.desired = TRUE, !.phase = "enabling"]

\* ensureProvisioned: the save once the provider has confirmed everything.
Provisioned(r) == [r EXCEPT !.tunnel = TRUE, !.phase = "provisioned", !.confirmed = TRUE]

\* disable: the first save, before the provider is asked anything.
Leaving(r, revoke) ==
    [r EXCEPT !.desired = FALSE, !.phase = "revoking", !.revoked = @ \/ revoke]

\* disable: the last save, once nothing of the generation is left.
Cleared(r) ==
    [r EXCEPT !.phase = "disabled", !.last = r.gen, !.gen = None,
              !.tunnel = FALSE, !.confirmed = FALSE]

\* A revoked installation let back in under its own id: its generation is
\* forgotten, whatever the provider still holds of it.
Restored(r) ==
    [r EXCEPT !.revoked = FALSE, !.phase = "disabled", !.desired = FALSE,
              !.gen = None, !.tunnel = FALSE, !.confirmed = FALSE, !.cred = @ + 1]

\* providerConfirmedAt has become more than 30 s old.
Unconfirmed(r) == [r EXCEPT !.confirmed = FALSE]

CPInit ==
    /\ inst = [i \in Ids |-> Unknown]
    /\ enrolled = [n \in Nonces |-> None]
    /\ active = 0
    /\ enrolling = TRUE
    /\ tokens = {}
    /\ req = None
    /\ tunnels = [i \in Ids |-> {}]
    /\ routed  = [i \in Ids |-> {}]
    /\ live    = [i \in Ids |-> {}]
    /\ dns     = [i \in Ids |-> None]
    /\ orphans = [i \in Ids |-> {}]

Members == {i \in Ids : inst[i].known /\ ~inst[i].revoked}

-----------------------------------------------------------------------------
(* Enrollment: handlers that write storage once and never call the provider. *)

Idle == req = None

\* Whether a new or returning installation is let in: the kill switch and the
\* ceiling.  A refusal only counts itself in the statistics.
Admits == enrolling /\ active < Limit

\* enroll with a nonce never seen: a new installation.  The random id is one
\* that no installation has.
EnrollNew(n) ==
    /\ Idle /\ Admits
    /\ enrolled[n] = None
    /\ \E i \in Ids :
        /\ ~inst[i].known
        /\ inst' = [inst EXCEPT ![i] = Enrolled]
        /\ enrolled' = [enrolled EXCEPT ![n] = i]
    /\ active' = active + 1
    /\ UNCHANGED <<enrolling, tokens, req, provider, orphans>>

\* Mutant: the counter is only raised for new installations.
LetBackIn_Uncounted(i) ==
    /\ Admits /\ inst[i].cred < MaxCred
    /\ inst' = [inst EXCEPT ![i] = Restored(@)]
    /\ orphans' = [orphans EXCEPT ![i] = @ \cup ({inst[i].gen} \cap tunnels[i])]
    /\ UNCHANGED <<enrolled, active, enrolling, tokens, req, provider>>

LetBackIn(i) ==
    /\ Admits
    /\ inst[i].cred < MaxCred
    /\ inst' = [inst EXCEPT ![i] = Restored(@)]
    /\ active' = active + 1
    /\ orphans' = [orphans EXCEPT ![i] = @ \cup ({inst[i].gen} \cap tunnels[i])]
    /\ UNCHANGED <<enrolled, enrolling, tokens, req, provider>>

\* enroll replayed with the nonce of a revoked installation.
EnrollReplay(n) ==
    /\ Idle
    /\ enrolled[n] # None
    /\ inst[enrolled[n]].revoked
    /\ LetBackIn(enrolled[n])

\* reactivate, with the installation's own credential.
Reactivate(i) ==
    /\ Idle
    /\ inst[i].known /\ inst[i].revoked
    /\ LetBackIn(i)

-----------------------------------------------------------------------------
(* Requests that reach the provider.                                        *)

\* Mutant: a revoked installation's credential is still good.
Authorized_Revoked(i) == inst[i].known

Authorized(i) == inst[i].known /\ ~inst[i].revoked

Begin(op, i, counted) ==
    req' = [op |-> op, id |-> i, pc |-> "look", target |-> None, counted |-> counted]
Goto(pc, target) == req' = [req EXCEPT !.pc = pc, !.target = target]
Done == req' = None

\* cachedProvision: a token handed out less than 30 s ago is handed out again.
Cached(i) ==
    /\ inst[i].phase = "provisioned" /\ inst[i].tunnel /\ inst[i].confirmed
    /\ i \in tokens

\* provision: refused while a removal is unfinished, for another generation
\* than the current one, and for the generation removed last.
Provision(i, g) ==
    /\ Idle
    /\ i \in Remote
    /\ Authorized(i)
    /\ inst[i].phase # "revoking"
    /\ inst[i].gen \in {None, g}
    /\ ~(inst[i].gen = g /\ Cached(i))
    /\ ~(inst[i].gen = None /\ inst[i].last = g)
    /\ inst' = [inst EXCEPT ![i] = Enabled(@, g)]
    /\ Begin("provision", i, FALSE)
    /\ UNCHANGED <<enrolled, active, enrolling, tokens, provider, orphans>>

\* disable up to its first save.
StartRemoval(op, i, revoke) ==
    /\ inst' = [inst EXCEPT ![i] = Leaving(@, revoke)]
    /\ Begin(op, i, revoke /\ ~inst[i].revoked)
    /\ UNCHANGED <<enrolled, active, enrolling, tokens, provider, orphans>>

Disable(i) == Idle /\ Authorized(i) /\ StartRemoval("disable", i, FALSE)
Revoke(i)  == Idle /\ Authorized(i) /\ StartRemoval("revoke", i, TRUE)
Reenroll(i) == Idle /\ Authorized(i) /\ StartRemoval("reenroll", i, TRUE)

\* adminRevoke: any known installation not already revoked and disabled.
AdminRevoke(i) ==
    /\ Idle
    /\ inst[i].known
    /\ ~(inst[i].revoked /\ inst[i].phase = "disabled")
    /\ StartRemoval("revoke", i, TRUE)

\* reconcile: provisions what is wanted, finishes a removal that is not wanted.
Wanted(i) == inst[i].desired /\ inst[i].gen # None
ReconcileOn(i) ==
    /\ Idle
    /\ Authorized(i)
    /\ Wanted(i)
    /\ ~Cached(i)
    /\ Begin("provision", i, FALSE)
    /\ UNCHANGED <<store, enrolling, tokens, provider, orphans>>
ReconcileOff(i) ==
    /\ Idle
    /\ Authorized(i)
    /\ ~Wanted(i)
    /\ inst[i].phase # "disabled"
    /\ StartRemoval("disable", i, FALSE)

-----------------------------------------------------------------------------
(* The steps of a request.                                                  *)

At(pc) == req # None /\ req.pc = pc
Here   == req.id
Own    == inst[req.id].gen
Removing == req.op # "provision"

\* staleOwnGeneration: the record is of an older generation of this very
\* installation, its tunnel exists, and nothing is connected to it.
Stale(i, own) ==
    /\ dns[i] \in Gens \ {own}
    /\ dns[i] \in tunnels[i] \ live[i]

\* owned: the record names the current generation's tunnel.  While a removal
\* looks for it, the tunnel id kept in storage will do.
Owned(i) ==
    /\ dns[i] = inst[i].gen
    /\ inst[i].gen \in tunnels[i] \/ (Removing /\ inst[i].tunnel)

\* ensureProvisioned and disable look the tunnel and the record up and decide:
\* a record that is neither owned nor provably stale ends the request.
Look ==
    /\ At("look")
    /\ CASE Removing /\ Own = None  -> Goto("settle", None)
         [] Own # None /\ dns[Here] = None ->
              IF Removing
              THEN IF Own \in tunnels[Here] THEN Goto("unroute", Own) ELSE Goto("settle", None)
              ELSE IF Own \in tunnels[Here] THEN Goto("configure", Own) ELSE Goto("create", Own)
         [] Own # None /\ dns[Here] # None /\ Owned(Here) ->
              IF Removing THEN Goto("record", Own) ELSE Goto("configure", Own)
         [] OTHER ->
              IF Own # None /\ Stale(Here, Own) THEN Goto("record", dns[Here]) ELSE Done
    /\ UNCHANGED <<store, enrolling, tokens, provider, orphans>>

\* Mutant: a removal whose last call has no answer is taken for done.
Answer_Assumed(next) == next \/ Goto("settle", None)

\* The answer to a provider call that was carried out may still be lost.
Answer(next) == next \/ Done

\* DELETE the DNS record, and confirm that it is gone.
DeleteRecord ==
    /\ At("record")
    /\ dns' = [dns EXCEPT ![Here] = None]
    /\ Answer(IF req.target \in tunnels[Here]
              THEN Goto("unroute", req.target) ELSE Goto("settle", None))
    /\ UNCHANGED <<store, enrolling, tokens, tunnels, routed, live, orphans>>

\* configure without a hostname, then DELETE the tunnel's connections.
Unroute ==
    /\ At("unroute")
    /\ routed' = [routed EXCEPT ![Here] = @ \ {req.target}]
    /\ live' = [live EXCEPT ![Here] = @ \ {req.target}]
    /\ Answer(Goto("drop", req.target))
    /\ UNCHANGED <<store, enrolling, tokens, tunnels, dns, orphans>>

\* DELETE the tunnel; the provider refuses while a connector is connected.
\* A stale tunnel of an older generation is followed by the current one's.
DropTunnel ==
    /\ At("drop")
    /\ req.target \notin live[Here]
    /\ tunnels' = [tunnels EXCEPT ![Here] = @ \ {req.target}]
    /\ Answer(IF Removing
              THEN IF req.target # Own /\ Own \in tunnels[Here]
                   THEN Goto("unroute", Own) ELSE Goto("settle", None)
              ELSE IF Own \in tunnels[Here] THEN Goto("configure", Own) ELSE Goto("create", Own))
    /\ UNCHANGED <<store, enrolling, tokens, routed, live, dns, orphans>>

\* POST the tunnel under the generation's name, and confirm that it exists.
CreateTunnel ==
    /\ At("create")
    /\ tunnels' = [tunnels EXCEPT ![Here] = @ \cup {Own}]
    /\ Answer(Goto("configure", Own))
    /\ UNCHANGED <<store, enrolling, tokens, routed, live, dns, orphans>>

\* PUT the tunnel's ingress to the installation's port, and read it back.
Configure ==
    /\ At("configure")
    /\ routed' = [routed EXCEPT ![Here] = @ \cup {Own}]
    /\ Answer(IF dns[Here] = None THEN Goto("route", Own) ELSE Goto("token", Own))
    /\ UNCHANGED <<store, enrolling, tokens, tunnels, live, dns, orphans>>

\* POST the DNS record; a record that someone else made meanwhile is not owned.
CreateRecord ==
    /\ At("route")
    /\ dns[Here] = None
    /\ dns' = [dns EXCEPT ![Here] = Own]
    /\ Answer(Goto("token", Own))
    /\ UNCHANGED <<store, enrolling, tokens, tunnels, routed, live, orphans>>

\* GET the token and save the installation as provisioned.
Confirm ==
    /\ At("token")
    /\ Owned(Here)
    /\ inst' = [inst EXCEPT ![Here] = Provisioned(@)]
    /\ tokens' = tokens \cup {Here}
    /\ Done
    /\ UNCHANGED <<enrolled, active, enrolling, provider, orphans>>

\* disable: the provider has nothing of the generation any more.
Settle ==
    /\ At("settle")
    /\ inst' = [inst EXCEPT ![Here] = Cleared(@)]
    /\ tokens' = tokens \ {Here}
    /\ IF req.counted THEN Goto("count", None) ELSE Done
    /\ UNCHANGED <<enrolled, active, enrolling, provider, orphans>>

\* disable: only now is a newly revoked installation taken off the count.
Discount ==
    /\ At("count")
    /\ active' = IF active > 0 THEN active - 1 ELSE 0
    /\ IF req.op = "reenroll" THEN Goto("remint", None) ELSE Done
    /\ UNCHANGED <<inst, enrolled, enrolling, tokens, provider, orphans>>

\* reenroll: a new installation in place of the revoked one.
Remint ==
    /\ At("remint")
    /\ Admits
    /\ \E i \in Ids :
        /\ ~inst[i].known
        /\ inst' = [inst EXCEPT ![i] = Enrolled]
    /\ active' = active + 1
    /\ Done
    /\ UNCHANGED <<enrolled, enrolling, tokens, provider, orphans>>

RequestStep ==
    \/ Look \/ DeleteRecord \/ Unroute \/ DropTunnel \/ CreateTunnel
    \/ Configure \/ CreateRecord \/ Confirm \/ Settle \/ Discount \/ Remint

\* A provider call is refused, fails, or runs out of the provider's budget; or
\* reenroll is refused (kill switch, ceiling, no free id): 503.
Fails ==
    /\ req # None
    /\ req.pc \in Steps \ {"settle", "count"}
    /\ Done
    /\ UNCHANGED <<store, enrolling, tokens, provider, orphans>>

-----------------------------------------------------------------------------
(* The environment.                                                         *)

\* The Durable Object is evicted or redeployed: memory and the request are lost.
Evict ==
    /\ tokens' = {}
    /\ Done
    /\ enrolling' \in BOOLEAN
    /\ UNCHANGED <<store, provider, orphans>>

\* Thirty seconds pass since the provider was last confirmed.
CacheExpires(i) ==
    /\ inst[i].confirmed
    /\ inst' = [inst EXCEPT ![i] = Unconfirmed(@)]
    /\ UNCHANGED <<enrolled, active, enrolling, tokens, req, provider, orphans>>

\* The installation's connector connects to a tunnel it has a token for, or leaves.
Connect(i, g) ==
    /\ g \in tunnels[i] \ live[i]
    /\ live' = [live EXCEPT ![i] = @ \cup {g}]
    /\ UNCHANGED <<store, enrolling, tokens, req, tunnels, routed, dns, orphans>>
Disconnect(i, g) ==
    /\ g \in live[i]
    /\ live' = [live EXCEPT ![i] = @ \ {g}]
    /\ UNCHANGED <<store, enrolling, tokens, req, tunnels, routed, dns, orphans>>

\* Somebody else's record stands at the hostname.
ForeignRecord(i) ==
    /\ i \in Remote
    /\ dns[i] = None
    /\ dns' = [dns EXCEPT ![i] = Foreign]
    /\ UNCHANGED <<store, enrolling, tokens, req, tunnels, routed, live, orphans>>

CPNext ==
    \/ \E n \in Nonces : EnrollNew(n) \/ EnrollReplay(n)
    \/ \E i \in Ids :
        \/ Reactivate(i) \/ Disable(i) \/ Revoke(i) \/ Reenroll(i) \/ AdminRevoke(i)
        \/ ReconcileOn(i) \/ ReconcileOff(i) \/ CacheExpires(i) \/ ForeignRecord(i)
        \/ \E g \in Gens : Provision(i, g) \/ Connect(i, g) \/ Disconnect(i, g)
    \/ RequestStep
    \/ Fails
    \/ Evict

CPSpec == CPInit /\ [][CPNext]_cpVars

-----------------------------------------------------------------------------
(* Properties.                                                              *)

\* Every variable has its type: the registry's rows, the request, the provider.
ControlPlaneTypeOK ==
    /\ inst \in [Ids -> Installation]
    /\ enrolled \in [Nonces -> Ids \cup {None}]
    /\ active \in Nat /\ enrolling \in BOOLEAN
    /\ tokens \subseteq Ids
    /\ req \in Request \cup {None}
    /\ tunnels \in [Ids -> SUBSET Gens] /\ routed \in [Ids -> SUBSET Gens]
    /\ live \in [Ids -> SUBSET Gens] /\ orphans \in [Ids -> SUBSET Gens]
    /\ dns \in [Ids -> Gens \cup {None, Foreign}]

\* However a revocation or a provisioning was cut short, retried or undone: the counter
\* that the ceiling is checked against never falls below the number of installations
\* that are let in, so there are never more than BETA_INSTALLATION_LIMIT; every tunnel at
\* the provider carries the generation that storage has for its installation, or one that
\* a reactivation is known to have left behind; and a DNS record, made last and removed
\* first, leads to a tunnel that is configured to reach the installation.
CeilingHolds == Cardinality(Members) <= active /\ active <= Limit
NoStrayTunnel == \A i \in Ids : tunnels[i] \subseteq {inst[i].gen} \cup orphans[i]
NoDanglingRecord == \A i \in Ids : dns[i] \in Gens => dns[i] \in tunnels[i] \cap routed[i]
\* Whatever a provisioning or a removal interleaves with, all three hold together
\* (index.ts:1394, 1447).
FleetIsSound == CeilingHolds /\ NoStrayTunnel /\ NoDanglingRecord

\* When a removal saves its installation as disabled, the generation it removed
\* has no tunnel left and the hostname no record of the installation's, whatever
\* calls failed or were retried on the way.
FinishedRemovalIsClean ==
    [][\A i \in Ids :
           /\ inst[i].phase = "revoking" /\ inst[i].gen # None
           /\ inst'[i].phase = "disabled" /\ inst'[i].cred = inst[i].cred
           => inst[i].gen \notin tunnels[i] /\ dns[i] \notin Gens]_cpVars

\* Letting an installation in and opening a route to it are what RemoteAccess
\* allows and nothing else.
Promise == INSTANCE RemoteAccess WITH
    members <- Members,
    wanted  <- {i \in Members : inst[i].desired},
    open    <- {i \in Ids : dns[i] \in Gens}
\* Whatever the provider answers or fails to answer, the control plane keeps the promise of
\* remote access (index.ts:1377-1520).
ImplementsRemoteAccess == Promise!RASpec
=============================================================================
