------------------------ MODULE ControlPlane_proofs -------------------------
(***************************************************************************)
(* The control plane's invariants and its refinement of RemoteAccess, for  *)
(* any sets of installations, nonces and generations and any ceiling.      *)
(***************************************************************************)
EXTENDS ControlPlane, FiniteSetTheorems, TLAPS

-----------------------------------------------------------------------------
(* The inductive invariant.                                                 *)

\* What a provisioning request has established when it is about to take a step.
ProvisionInv ==
    req # None /\ req.op = "provision" =>
        LET i == req.id  own == inst[req.id].gen IN
        /\ inst[i].known /\ ~inst[i].revoked /\ inst[i].desired
        /\ own # None
        /\ req.pc \in Steps \ {"settle", "count", "remint"}
        /\ ~req.counted
        /\ req.pc \in {"record", "unroute", "drop"} =>
               req.target \in Gens \ {own}
        /\ req.pc = "record" => dns[i] = req.target
        /\ req.pc \in {"unroute", "drop", "create"} => dns[i] \notin Gens
        /\ req.pc \in {"configure", "route", "token"} => own \in tunnels[i]
        /\ req.pc = "configure" => dns[i] \in {own, None, Foreign}
        /\ req.pc \in {"route", "token"} => own \in routed[i]

\* What a removal has established when it is about to take a step.
RemovalInv ==
    req # None /\ req.op # "provision" =>
        LET i == req.id  own == inst[req.id].gen IN
        /\ inst[i].known
        /\ req.pc \in {"look", "record", "unroute", "drop", "settle", "count", "remint"}
        /\ req.pc \notin {"count", "remint"} =>
               inst[i].phase = "revoking" /\ ~inst[i].desired
        /\ req.pc \in {"record", "unroute", "drop"} => own # None /\ req.target \in Gens
        /\ req.pc = "record" => dns[i] = req.target
        /\ req.pc = "record" /\ req.target # own => req.target \in tunnels[i]
        /\ req.pc \in {"unroute", "drop"} => dns[i] \notin Gens
        /\ req.pc = "settle" /\ own # None => own \notin tunnels[i] /\ dns[i] \notin Gens
        /\ req.pc = "remint" => req.op = "reenroll"
        /\ req.pc \in {"count", "remint"} => req.counted
        /\ req.counted => inst[i].revoked

\* A revocation under way has taken its installation out but not yet off the count.
CountInv ==
    /\ Cardinality(Members) <= active
    /\ active <= Limit
    /\ req # None /\ req.counted /\ req.pc # "remint" => Cardinality(Members) + 1 <= active

\* An id that was never given out has an untouched row.
UnknownInv == \A i \in Ids : ~inst[i].known => inst[i] = Unknown

\* A revoked installation is never wanted.
RevokedInv == \A i \in Ids : inst[i].revoked => ~inst[i].desired

CPInv ==
    /\ ControlPlaneTypeOK
    /\ ProvisionInv
    /\ RemovalInv
    /\ CountInv
    /\ UnknownInv
    /\ RevokedInv
    /\ NoStrayTunnel
    /\ NoDanglingRecord

-----------------------------------------------------------------------------
(* What each handler does to a row, field by field.                         *)

\* The fields of a row have their types.
LEMMA RowFields ==
  ASSUME NEW r \in Installation
  PROVE  /\ r.known \in BOOLEAN /\ r.phase \in Phases /\ r.desired \in BOOLEAN
         /\ r.revoked \in BOOLEAN /\ r.gen \in Gens \cup {None}
         /\ r.last \in Gens \cup {None} /\ r.tunnel \in BOOLEAN
         /\ r.confirmed \in BOOLEAN /\ r.cred \in Nat
BY DEF Installation

\* provision switches the row on for the generation.
LEMMA RowEnabled ==
  ASSUME NEW r \in Installation, NEW g \in Gens
  PROVE  /\ Enabled(r, g) \in Installation
         /\ Enabled(r, g).known = r.known /\ Enabled(r, g).revoked = r.revoked
         /\ Enabled(r, g).desired /\ Enabled(r, g).gen = g
         /\ Enabled(r, g).phase = "enabling" /\ Enabled(r, g).cred = r.cred
BY DEF Enabled, Installation, Phases

\* Confirming changes what is known of the provider, not what is wanted.
LEMMA RowProvisioned ==
  ASSUME NEW r \in Installation
  PROVE  /\ Provisioned(r) \in Installation
         /\ Provisioned(r).known = r.known /\ Provisioned(r).revoked = r.revoked
         /\ Provisioned(r).desired = r.desired /\ Provisioned(r).gen = r.gen
         /\ Provisioned(r).phase = "provisioned" /\ Provisioned(r).cred = r.cred
BY DEF Provisioned, Installation, Phases

\* A removal starts by saying so; a revocation also takes the installation out.
LEMMA RowLeaving ==
  ASSUME NEW r \in Installation, NEW b \in BOOLEAN
  PROVE  /\ Leaving(r, b) \in Installation
         /\ Leaving(r, b).known = r.known /\ Leaving(r, b).revoked = (r.revoked \/ b)
         /\ ~Leaving(r, b).desired /\ Leaving(r, b).gen = r.gen
         /\ Leaving(r, b).phase = "revoking" /\ Leaving(r, b).cred = r.cred
BY DEF Leaving, Installation, Phases

\* A removal ends with no generation.
LEMMA RowCleared ==
  ASSUME NEW r \in Installation
  PROVE  /\ Cleared(r) \in Installation
         /\ Cleared(r).known = r.known /\ Cleared(r).revoked = r.revoked
         /\ Cleared(r).desired = r.desired /\ Cleared(r).gen = None
         /\ Cleared(r).phase = "disabled" /\ Cleared(r).cred = r.cred
BY DEF Cleared, Installation, Phases

\* Letting back in clears the revocation and rotates the credential.
LEMMA RowRestored ==
  ASSUME NEW r \in Installation
  PROVE  /\ Restored(r) \in Installation
         /\ Restored(r).known = r.known /\ ~Restored(r).revoked
         /\ ~Restored(r).desired /\ Restored(r).gen = None
         /\ Restored(r).phase = "disabled" /\ Restored(r).cred = r.cred + 1
<1>1. r.cred + 1 \in Nat
  BY DEF Installation
<1>2. \A c \in Nat :
        LET u == [r EXCEPT !.revoked = FALSE, !.phase = "disabled", !.desired = FALSE,
                           !.gen = None, !.tunnel = FALSE, !.confirmed = FALSE, !.cred = c] IN
        /\ u \in Installation /\ u.known = r.known /\ ~u.revoked /\ ~u.desired
        /\ u.gen = None /\ u.phase = "disabled" /\ u.cred = c
  BY DEF Installation, Phases
<1>3. QED
  BY <1>1, <1>2 DEF Restored

\* The passing of time changes nothing else.
LEMMA RowUnconfirmed ==
  ASSUME NEW r \in Installation
  PROVE  /\ Unconfirmed(r) \in Installation
         /\ Unconfirmed(r).known = r.known /\ Unconfirmed(r).revoked = r.revoked
         /\ Unconfirmed(r).desired = r.desired /\ Unconfirmed(r).gen = r.gen
         /\ Unconfirmed(r).phase = r.phase /\ Unconfirmed(r).cred = r.cred
BY DEF Unconfirmed, Installation

\* A new row is known, and nothing else.
LEMMA RowEnrolled ==
  /\ Enrolled \in Installation
  /\ Enrolled.known /\ ~Enrolled.revoked /\ ~Enrolled.desired
  /\ Enrolled.gen = None /\ Enrolled.phase = "disabled"
BY DEF Enrolled, Unknown, Installation, Phases

\* An untouched row.
LEMMA RowUnknown ==
  /\ Unknown \in Installation
  /\ ~Unknown.known /\ ~Unknown.revoked /\ ~Unknown.desired /\ ~Unknown.confirmed
  /\ Unknown.gen = None /\ Unknown.phase = "disabled"
BY DEF Unknown, Installation, Phases

\* Moving a request on changes where it is and what it is removing.
LEMMA RequestMoves ==
  ASSUME req \in Request, NEW pc \in Steps, NEW t \in Gens \cup {None}, Goto(pc, t)
  PROVE  /\ req' \in Request /\ req'.op = req.op /\ req'.id = req.id
         /\ req'.pc = pc /\ req'.target = t /\ req'.counted = req.counted
BY DEF Goto, Request

\* A request begins by looking.
LEMMA RequestBegins ==
  ASSUME NEW op \in Ops, NEW i \in Ids, NEW b \in BOOLEAN, Begin(op, i, b)
  PROVE  /\ req' \in Request /\ req'.op = op /\ req'.id = i
         /\ req'.pc = "look" /\ req'.target = None /\ req'.counted = b
BY DEF Begin, Request, Steps

\* The request under way, and the row it is about.
LEMMA RequestFields ==
  ASSUME ControlPlaneTypeOK, req # None
  PROVE  /\ req \in Request /\ req.op \in Ops /\ req.id \in Ids /\ req.pc \in Steps
         /\ req.target \in Gens \cup {None} /\ req.counted \in BOOLEAN
         /\ inst[req.id] \in Installation /\ inst[req.id].gen \in Gens \cup {None}
BY RowFields DEF ControlPlaneTypeOK, Request

\* A provisioning starts by saying what is wanted.
LEMMA ProvisionStarts ==
  ASSUME ControlPlaneTypeOK, NEW i \in Ids, NEW g \in Gens, Provision(i, g)
  PROVE  /\ inst[i] \in Installation
         /\ inst' \in [Ids -> Installation]
         /\ inst'[i].known = inst[i].known /\ inst'[i].revoked = inst[i].revoked
         /\ inst'[i].desired /\ inst'[i].gen = g /\ inst'[i].phase = "enabling"
         /\ \A j \in Ids \ {i} : inst'[j] = inst[j]
         /\ req' \in Request /\ req'.op = "provision" /\ req'.id = i /\ req'.pc = "look"
         /\ req'.target = None /\ ~req'.counted
<1>1. inst[i] \in Installation /\ inst' = [inst EXCEPT ![i] = Enabled(inst[i], g)]
  BY DEF ControlPlaneTypeOK, Provision
<1>2. Enabled(inst[i], g) \in Installation
  BY <1>1, RowEnabled
<1>3. /\ inst' \in [Ids -> Installation]
      /\ inst'[i] = Enabled(inst[i], g)
      /\ \A j \in Ids \ {i} : inst'[j] = inst[j]
  BY <1>1, <1>2 DEF ControlPlaneTypeOK
<1>4. /\ inst'[i].known = inst[i].known /\ inst'[i].revoked = inst[i].revoked
      /\ inst'[i].desired /\ inst'[i].gen = g /\ inst'[i].phase = "enabling"
  BY <1>1, <1>3, RowEnabled
<1>5. /\ "provision" \in Ops /\ FALSE \in BOOLEAN
      /\ Begin("provision", i, FALSE)
  BY DEF Provision, Ops
<1>6. /\ req' \in Request /\ req'.op = "provision" /\ req'.id = i /\ req'.pc = "look"
      /\ req'.target = None /\ req'.counted = FALSE
  BY ONLY <1>5, i \in Ids, RequestBegins
<1>7. QED
  BY <1>1, <1>3, <1>4, <1>6

\* Every removal starts the same way.
LEMMA RemovalStarts ==
  ASSUME ControlPlaneTypeOK, NEW op \in Ops, NEW i \in Ids, NEW b \in BOOLEAN,
         StartRemoval(op, i, b)
  PROVE  /\ inst' = [inst EXCEPT ![i] = Leaving(inst[i], b)]
         /\ inst[i] \in Installation
         /\ inst' \in [Ids -> Installation]
         /\ inst'[i] = Leaving(inst[i], b)
         /\ inst'[i].known = inst[i].known /\ inst'[i].revoked = (inst[i].revoked \/ b)
         /\ ~inst'[i].desired /\ inst'[i].gen = inst[i].gen
         /\ inst'[i].phase = "revoking" /\ inst'[i].cred = inst[i].cred
         /\ \A j \in Ids \ {i} : inst'[j] = inst[j]
         /\ req' \in Request /\ req'.op = op /\ req'.id = i /\ req'.pc = "look"
         /\ req'.counted = (b /\ ~inst[i].revoked)
         /\ UNCHANGED <<enrolled, active, enrolling, tokens, tunnels, routed, live, dns, orphans>>
<1>1. inst[i] \in Installation /\ inst[i].revoked \in BOOLEAN
  BY RowFields DEF ControlPlaneTypeOK
<1>2. inst' = [inst EXCEPT ![i] = Leaving(inst[i], b)]
  BY DEF StartRemoval
<1>3. Begin(op, i, b /\ ~inst[i].revoked)
  BY DEF StartRemoval
<1>4. (b /\ ~inst[i].revoked) \in BOOLEAN
  OBVIOUS
<1>5. /\ req' \in Request /\ req'.op = op /\ req'.id = i /\ req'.pc = "look"
      /\ req'.counted = (b /\ ~inst[i].revoked)
  BY <1>3, <1>4, RequestBegins
<1>6. /\ inst'[i] = Leaving(inst[i], b)
      /\ \A j \in Ids \ {i} : inst'[j] = inst[j]
  BY <1>2 DEF ControlPlaneTypeOK
<1>7. Leaving(inst[i], b) \in Installation
  BY <1>1, RowLeaving
<1>8. inst' \in [Ids -> Installation]
  BY <1>2, <1>7 DEF ControlPlaneTypeOK
<1>9. /\ inst'[i].known = inst[i].known /\ inst'[i].revoked = (inst[i].revoked \/ b)
      /\ ~inst'[i].desired /\ inst'[i].gen = inst[i].gen
      /\ inst'[i].phase = "revoking" /\ inst'[i].cred = inst[i].cred
  BY <1>1, <1>6, RowLeaving
<1>10. QED
  BY <1>1, <1>2, <1>5, <1>6, <1>8, <1>9 DEF StartRemoval, provider

\* A removal, whichever of the requests asked for it.
Removal(op, i, b) ==
    /\ Idle /\ inst[i].known
    /\ op = "reenroll" => b
    /\ op # "provision"
    /\ StartRemoval(op, i, b)

\* The steps of the registry, its five requests for a removal taken as one.
LEMMA NextCases ==
  ASSUME [CPNext]_cpVars
  PROVE  \/ \E n \in Nonces : EnrollNew(n) \/ EnrollReplay(n)
         \/ \E i \in Ids : Reactivate(i) \/ ReconcileOn(i) \/ CacheExpires(i) \/ ForeignRecord(i)
         \/ \E i \in Ids, g \in Gens : Provision(i, g) \/ Connect(i, g) \/ Disconnect(i, g)
         \/ \E i \in Ids, op \in Ops, b \in BOOLEAN : Removal(op, i, b)
         \/ RequestStep \/ Fails \/ Evict \/ UNCHANGED cpVars
<1>1. ASSUME NEW i \in Ids,
             Disable(i) \/ Revoke(i) \/ Reenroll(i) \/ AdminRevoke(i) \/ ReconcileOff(i)
      PROVE  \E op \in Ops, b \in BOOLEAN : Removal(op, i, b)
  <2>1. CASE Disable(i)
    <3>1. Removal("disable", i, FALSE)
      BY <2>1 DEF Disable, Removal, Authorized
    <3>2. QED
      BY <3>1 DEF Ops
  <2>2. CASE Revoke(i)
    <3>1. Removal("revoke", i, TRUE)
      BY <2>2 DEF Revoke, Removal, Authorized
    <3>2. QED
      BY <3>1 DEF Ops
  <2>3. CASE Reenroll(i)
    <3>1. Removal("reenroll", i, TRUE)
      BY <2>3 DEF Reenroll, Removal, Authorized
    <3>2. QED
      BY <3>1 DEF Ops
  <2>4. CASE AdminRevoke(i)
    <3>1. Removal("revoke", i, TRUE)
      BY <2>4 DEF AdminRevoke, Removal
    <3>2. QED
      BY <3>1 DEF Ops
  <2>5. CASE ReconcileOff(i)
    <3>1. Removal("disable", i, FALSE)
      BY <2>5 DEF ReconcileOff, Removal, Authorized
    <3>2. QED
      BY <3>1 DEF Ops
  <2>6. QED
    BY <1>1, <2>1, <2>2, <2>3, <2>4, <2>5
<1>2. QED
  BY <1>1 DEF CPNext

-----------------------------------------------------------------------------
(* Type correctness.                                                        *)

\* A step of the registry keeps every variable in its type.
LEMMA TypeStep == ASSUME CPInv, [CPNext]_cpVars
                  PROVE  ControlPlaneTypeOK'
<1>0. ControlPlaneTypeOK
  BY DEF CPInv
<1>1. ASSUME NEW n \in Nonces, EnrollNew(n)
      PROVE  ControlPlaneTypeOK'
  BY <1>1, <1>0, RowFields, ControlPlaneAssumption, NoneIsNoRequest, RowEnrolled
     DEF Done, Idle, store, provider, EnrollNew, Admits, ControlPlaneTypeOK
<1>2. ASSUME NEW n \in Nonces, EnrollReplay(n)
      PROVE  ControlPlaneTypeOK'
  BY <1>2, <1>0, RowFields, ControlPlaneAssumption, NoneIsNoRequest, RowRestored
     DEF Done, Idle, store, provider, EnrollReplay, LetBackIn, Admits,
         ControlPlaneTypeOK
<1>3. ASSUME NEW i \in Ids, Reactivate(i)
      PROVE  ControlPlaneTypeOK'
  BY <1>3, <1>0, RowFields, ControlPlaneAssumption, NoneIsNoRequest, RowRestored
     DEF Done, Idle, store, provider, Reactivate, LetBackIn, Admits,
         ControlPlaneTypeOK
<1>4. ASSUME NEW i \in Ids, NEW op \in Ops, NEW b \in BOOLEAN, Removal(op, i, b)
      PROVE  ControlPlaneTypeOK'
  BY <1>4, <1>0, RowFields, ControlPlaneAssumption, NoneIsNoRequest, RemovalStarts
     DEF Idle, Removal, Ops, ControlPlaneTypeOK
<1>5. ASSUME NEW i \in Ids, ReconcileOn(i)
      PROVE  ControlPlaneTypeOK'
  BY <1>5, <1>0, RowFields, ControlPlaneAssumption, NoneIsNoRequest, RequestBegins
     DEF Done, Idle, store, provider, ReconcileOn, Wanted, Authorized, Ops,
         ControlPlaneTypeOK
<1>6. ASSUME NEW i \in Ids, CacheExpires(i)
      PROVE  ControlPlaneTypeOK'
  BY <1>6, <1>0, RowFields, ControlPlaneAssumption, NoneIsNoRequest, RowUnconfirmed
     DEF Done, Idle, store, provider, CacheExpires, ControlPlaneTypeOK
<1>7. ASSUME NEW i \in Ids, ForeignRecord(i)
      PROVE  ControlPlaneTypeOK'
  BY <1>7, <1>0, RowFields, ControlPlaneAssumption, NoneIsNoRequest
     DEF Done, Idle, store, provider, ForeignRecord, ControlPlaneTypeOK
<1>8. ASSUME NEW i \in Ids, NEW g \in Gens, Provision(i, g)
      PROVE  ControlPlaneTypeOK'
  BY <1>8, <1>0, RowFields, ControlPlaneAssumption, NoneIsNoRequest, ProvisionStarts
     DEF Done, Idle, store, provider, Provision, Authorized, Ops, ControlPlaneTypeOK
<1>9. ASSUME NEW i \in Ids, NEW g \in Gens, Connect(i, g)
      PROVE  ControlPlaneTypeOK'
  BY <1>9, <1>0, RowFields, ControlPlaneAssumption, NoneIsNoRequest
     DEF Done, Idle, store, provider, Connect, ControlPlaneTypeOK
<1>10. ASSUME NEW i \in Ids, NEW g \in Gens, Disconnect(i, g)
      PROVE  ControlPlaneTypeOK'
  BY <1>10, <1>0, RowFields, ControlPlaneAssumption, NoneIsNoRequest
     DEF Done, Idle, store, provider, Disconnect, ControlPlaneTypeOK
<1>11. ASSUME Look
      PROVE  ControlPlaneTypeOK'
  BY <1>11, <1>0, RowFields, ControlPlaneAssumption, NoneIsNoRequest, RequestFields,
     RequestMoves
     DEF At, Here, Own, Removing, Done, Answer, store, provider, Look, Stale, Owned,
         Steps, ControlPlaneTypeOK
<1>12. ASSUME DeleteRecord
      PROVE  ControlPlaneTypeOK'
  BY <1>12, <1>0, RowFields, ControlPlaneAssumption, NoneIsNoRequest, RequestFields,
     RequestMoves
     DEF At, Here, Own, Removing, Done, Answer, store, provider, DeleteRecord,
         Steps, ControlPlaneTypeOK
<1>13. ASSUME Unroute
      PROVE  ControlPlaneTypeOK'
  BY <1>13, <1>0, RowFields, ControlPlaneAssumption, NoneIsNoRequest, RequestFields,
     RequestMoves
     DEF At, Here, Own, Removing, Done, Answer, store, provider, Unroute, Steps,
         ControlPlaneTypeOK
<1>14. ASSUME DropTunnel
      PROVE  ControlPlaneTypeOK'
  BY <1>14, <1>0, RowFields, ControlPlaneAssumption, NoneIsNoRequest, RequestFields,
     RequestMoves
     DEF At, Here, Own, Removing, Done, Answer, store, provider, DropTunnel, Steps,
         ControlPlaneTypeOK
<1>15. ASSUME CreateTunnel
      PROVE  ControlPlaneTypeOK'
  BY <1>15, <1>0, RowFields, ControlPlaneAssumption, NoneIsNoRequest, RequestFields,
     RequestMoves
     DEF At, Here, Own, Removing, Done, Answer, store, provider, CreateTunnel,
         Steps, ControlPlaneTypeOK, CPInv, ProvisionInv, RemovalInv
<1>16. ASSUME Configure
      PROVE  ControlPlaneTypeOK'
  BY <1>16, <1>0, RowFields, ControlPlaneAssumption, NoneIsNoRequest, RequestFields,
     RequestMoves
     DEF At, Here, Own, Removing, Done, Answer, store, provider, Configure, Steps,
         ControlPlaneTypeOK, CPInv, ProvisionInv, RemovalInv
<1>17. ASSUME CreateRecord
      PROVE  ControlPlaneTypeOK'
  BY <1>17, <1>0, RowFields, ControlPlaneAssumption, NoneIsNoRequest, RequestFields,
     RequestMoves
     DEF At, Here, Own, Removing, Done, Answer, store, provider, CreateRecord,
         Steps, ControlPlaneTypeOK
<1>18. ASSUME Confirm
      PROVE  ControlPlaneTypeOK'
  BY <1>18, <1>0, RowFields, ControlPlaneAssumption, NoneIsNoRequest, RequestFields,
     RequestMoves, RowProvisioned
     DEF At, Here, Own, Removing, Done, Answer, store, provider, Confirm, Owned,
         ControlPlaneTypeOK
<1>19. ASSUME Settle
      PROVE  ControlPlaneTypeOK'
  BY <1>19, <1>0, RowFields, ControlPlaneAssumption, NoneIsNoRequest, RequestFields,
     RequestMoves, RowCleared
     DEF At, Here, Own, Removing, Done, Answer, store, provider, Settle, Steps,
         ControlPlaneTypeOK
<1>20. ASSUME Discount
      PROVE  ControlPlaneTypeOK'
  BY <1>20, <1>0, RowFields, ControlPlaneAssumption, NoneIsNoRequest, RequestFields,
     RequestMoves
     DEF At, Here, Own, Removing, Done, Answer, store, provider, Discount, Steps,
         ControlPlaneTypeOK
<1>21. ASSUME Remint
      PROVE  ControlPlaneTypeOK'
  BY <1>21, <1>0, RowFields, ControlPlaneAssumption, NoneIsNoRequest, RequestFields,
     RequestMoves, RowEnrolled
     DEF At, Here, Own, Removing, Done, Answer, store, provider, Remint, Admits,
         ControlPlaneTypeOK
<1>22. ASSUME Fails
      PROVE  ControlPlaneTypeOK'
  BY <1>22, <1>0, RowFields, ControlPlaneAssumption, NoneIsNoRequest
     DEF Done, Idle, store, provider, Fails, ControlPlaneTypeOK
<1>23. ASSUME Evict
      PROVE  ControlPlaneTypeOK'
  BY <1>23, <1>0, RowFields, ControlPlaneAssumption, NoneIsNoRequest
     DEF Done, Idle, store, provider, Evict, ControlPlaneTypeOK
<1>24. CASE UNCHANGED cpVars
  BY <1>24, <1>0, RowFields, ControlPlaneAssumption, NoneIsNoRequest
     DEF cpVars, store, provider, ControlPlaneTypeOK
<1>25. QED
  BY <1>1, <1>2, <1>3, <1>4, <1>5, <1>6, <1>7, <1>8, <1>9, <1>10, <1>11, <1>12, <1>13,
     <1>14, <1>15, <1>16, <1>17, <1>18, <1>19, <1>20, <1>21, <1>22, <1>23, <1>24,
     NextCases
     DEF RequestStep

-----------------------------------------------------------------------------
(* The parts of the inductive invariant, each over one step.                *)

\* Provisioning keeps what it has established.
LEMMA ProvisionStep == ASSUME CPInv, [CPNext]_cpVars
                     PROVE  ProvisionInv'
<1>0. CPInv /\ ControlPlaneTypeOK
  BY DEF CPInv
<1>1. ASSUME NEW n \in Nonces, EnrollNew(n)
      PROVE  ProvisionInv'
  BY <1>1, <1>0, RowFields, ControlPlaneAssumption, NoneIsNoRequest, RowEnrolled
     DEF Done, Idle, store, provider, EnrollNew, Admits, CPInv, ControlPlaneTypeOK,
         ProvisionInv, Steps, NoDanglingRecord
<1>2. ASSUME NEW n \in Nonces, EnrollReplay(n)
      PROVE  ProvisionInv'
  BY <1>2, <1>0, RowFields, ControlPlaneAssumption, NoneIsNoRequest, RowRestored
     DEF Done, Idle, store, provider, EnrollReplay, LetBackIn, Admits, CPInv,
         ControlPlaneTypeOK, ProvisionInv, Steps, NoDanglingRecord
<1>3. ASSUME NEW i \in Ids, Reactivate(i)
      PROVE  ProvisionInv'
  BY <1>3, <1>0, RowFields, ControlPlaneAssumption, NoneIsNoRequest, RowRestored
     DEF Done, Idle, store, provider, Reactivate, LetBackIn, Admits, CPInv,
         ControlPlaneTypeOK, ProvisionInv, Steps, NoDanglingRecord
<1>4. ASSUME NEW i \in Ids, NEW op \in Ops, NEW b \in BOOLEAN, Removal(op, i, b)
      PROVE  ProvisionInv'
  BY <1>4, <1>0, RowFields, ControlPlaneAssumption, NoneIsNoRequest, RemovalStarts
     DEF Idle, Removal, Ops, CPInv, ControlPlaneTypeOK, ProvisionInv, Steps,
         NoDanglingRecord
<1>5. ASSUME NEW i \in Ids, ReconcileOn(i)
      PROVE  ProvisionInv'
  BY <1>5, <1>0, RowFields, ControlPlaneAssumption, NoneIsNoRequest, RequestBegins
     DEF Done, Idle, store, provider, ReconcileOn, Wanted, Authorized, Ops, CPInv,
         ControlPlaneTypeOK, ProvisionInv, Steps, NoDanglingRecord
<1>6. ASSUME NEW i \in Ids, CacheExpires(i)
      PROVE  ProvisionInv'
  BY <1>6, <1>0, RowFields, ControlPlaneAssumption, NoneIsNoRequest, RowUnconfirmed
     DEF Done, Idle, store, provider, CacheExpires, CPInv, ControlPlaneTypeOK,
         ProvisionInv, Steps, NoDanglingRecord
<1>7. ASSUME NEW i \in Ids, ForeignRecord(i)
      PROVE  ProvisionInv'
  BY <1>7, <1>0, RowFields, ControlPlaneAssumption, NoneIsNoRequest
     DEF Done, Idle, store, provider, ForeignRecord, CPInv, ControlPlaneTypeOK,
         ProvisionInv, Steps, NoDanglingRecord
<1>8. ASSUME NEW i \in Ids, NEW g \in Gens, Provision(i, g)
      PROVE  ProvisionInv'
  <2>1. /\ inst[i] \in Installation
        /\ inst' \in [Ids -> Installation]
        /\ inst'[i].known = inst[i].known /\ inst'[i].revoked = inst[i].revoked
        /\ inst'[i].desired /\ inst'[i].gen = g /\ inst'[i].phase = "enabling"
        /\ \A j \in Ids \ {i} : inst'[j] = inst[j]
        /\ req' \in Request /\ req'.op = "provision" /\ req'.id = i /\ req'.pc = "look"
        /\ req'.target = None /\ ~req'.counted
    BY <1>8, <1>0, ProvisionStarts
  <2>2. inst'[i].known /\ ~inst'[i].revoked /\ g # None
    BY <1>8, <2>1, ControlPlaneAssumption DEF Provision, Authorized
  <2>3. QED
    BY <2>1, <2>2 DEF ProvisionInv, Steps
<1>9. ASSUME NEW i \in Ids, NEW g \in Gens, Connect(i, g)
      PROVE  ProvisionInv'
  BY <1>9, <1>0, RowFields, ControlPlaneAssumption, NoneIsNoRequest
     DEF Done, Idle, store, provider, Connect, CPInv, ControlPlaneTypeOK,
         ProvisionInv, Steps, NoDanglingRecord
<1>10. ASSUME NEW i \in Ids, NEW g \in Gens, Disconnect(i, g)
      PROVE  ProvisionInv'
  BY <1>10, <1>0, RowFields, ControlPlaneAssumption, NoneIsNoRequest
     DEF Done, Idle, store, provider, Disconnect, CPInv, ControlPlaneTypeOK,
         ProvisionInv, Steps, NoDanglingRecord
<1>11. ASSUME Look
      PROVE  ProvisionInv'
  BY <1>11, <1>0, RowFields, ControlPlaneAssumption, NoneIsNoRequest, RequestFields,
     RequestMoves
     DEF At, Here, Own, Removing, Done, Answer, store, provider, Look, Stale, Owned,
         Steps, CPInv, ControlPlaneTypeOK, ProvisionInv, NoDanglingRecord
<1>12. ASSUME DeleteRecord
      PROVE  ProvisionInv'
  BY <1>12, <1>0, RowFields, ControlPlaneAssumption, NoneIsNoRequest, RequestFields,
     RequestMoves
     DEF At, Here, Own, Removing, Done, Answer, store, provider, DeleteRecord,
         Steps, CPInv, ControlPlaneTypeOK, ProvisionInv, NoDanglingRecord
<1>13. ASSUME Unroute
      PROVE  ProvisionInv'
  BY <1>13, <1>0, RowFields, ControlPlaneAssumption, NoneIsNoRequest, RequestFields,
     RequestMoves
     DEF At, Here, Own, Removing, Done, Answer, store, provider, Unroute, Steps,
         CPInv, ControlPlaneTypeOK, ProvisionInv, NoDanglingRecord
<1>14. ASSUME DropTunnel
      PROVE  ProvisionInv'
  BY <1>14, <1>0, RowFields, ControlPlaneAssumption, NoneIsNoRequest, RequestFields,
     RequestMoves
     DEF At, Here, Own, Removing, Done, Answer, store, provider, DropTunnel, Steps,
         CPInv, ControlPlaneTypeOK, ProvisionInv, NoDanglingRecord
<1>15. ASSUME CreateTunnel
      PROVE  ProvisionInv'
  BY <1>15, <1>0, RowFields, ControlPlaneAssumption, NoneIsNoRequest, RequestFields,
     RequestMoves
     DEF At, Here, Own, Removing, Done, Answer, store, provider, CreateTunnel,
         Steps, CPInv, ControlPlaneTypeOK, ProvisionInv, NoDanglingRecord
<1>16. ASSUME Configure
      PROVE  ProvisionInv'
  BY <1>16, <1>0, RowFields, ControlPlaneAssumption, NoneIsNoRequest, RequestFields,
     RequestMoves
     DEF At, Here, Own, Removing, Done, Answer, store, provider, Configure, Steps,
         CPInv, ControlPlaneTypeOK, ProvisionInv, NoDanglingRecord
<1>17. ASSUME CreateRecord
      PROVE  ProvisionInv'
  BY <1>17, <1>0, RowFields, ControlPlaneAssumption, NoneIsNoRequest, RequestFields,
     RequestMoves
     DEF At, Here, Own, Removing, Done, Answer, store, provider, CreateRecord,
         Steps, CPInv, ControlPlaneTypeOK, ProvisionInv, NoDanglingRecord
<1>18. ASSUME Confirm
      PROVE  ProvisionInv'
  BY <1>18, <1>0, RowFields, ControlPlaneAssumption, NoneIsNoRequest, RequestFields,
     RequestMoves, RowProvisioned
     DEF At, Here, Own, Removing, Done, Answer, store, provider, Confirm, Owned,
         CPInv, ControlPlaneTypeOK, ProvisionInv, Steps, NoDanglingRecord
<1>19. ASSUME Settle
      PROVE  ProvisionInv'
  BY <1>19, <1>0, RowFields, ControlPlaneAssumption, NoneIsNoRequest, RequestFields,
     RequestMoves, RowCleared
     DEF At, Here, Own, Removing, Done, Answer, store, provider, Settle, Steps,
         CPInv, ControlPlaneTypeOK, ProvisionInv, NoDanglingRecord
<1>20. ASSUME Discount
      PROVE  ProvisionInv'
  BY <1>20, <1>0, RowFields, ControlPlaneAssumption, NoneIsNoRequest, RequestFields,
     RequestMoves
     DEF At, Here, Own, Removing, Done, Answer, store, provider, Discount, Steps,
         CPInv, ControlPlaneTypeOK, ProvisionInv, NoDanglingRecord
<1>21. ASSUME Remint
      PROVE  ProvisionInv'
  BY <1>21, <1>0, RowFields, ControlPlaneAssumption, NoneIsNoRequest, RequestFields,
     RequestMoves, RowEnrolled
     DEF At, Here, Own, Removing, Done, Answer, store, provider, Remint, Admits,
         CPInv, ControlPlaneTypeOK, ProvisionInv, Steps, NoDanglingRecord
<1>22. ASSUME Fails
      PROVE  ProvisionInv'
  BY <1>22, <1>0, RowFields, ControlPlaneAssumption, NoneIsNoRequest
     DEF Done, Idle, store, provider, Fails, CPInv, ControlPlaneTypeOK,
         ProvisionInv, Steps, NoDanglingRecord
<1>23. ASSUME Evict
      PROVE  ProvisionInv'
  BY <1>23, <1>0, RowFields, ControlPlaneAssumption, NoneIsNoRequest
     DEF Done, Idle, store, provider, Evict, CPInv, ControlPlaneTypeOK,
         ProvisionInv, Steps, NoDanglingRecord
<1>24. CASE UNCHANGED cpVars
  BY <1>24, <1>0, RowFields, ControlPlaneAssumption, NoneIsNoRequest
     DEF cpVars, store, provider, CPInv, ControlPlaneTypeOK, ProvisionInv, Steps,
         NoDanglingRecord
<1>25. QED
  BY <1>1, <1>2, <1>3, <1>4, <1>5, <1>6, <1>7, <1>8, <1>9, <1>10, <1>11, <1>12, <1>13,
     <1>14, <1>15, <1>16, <1>17, <1>18, <1>19, <1>20, <1>21, <1>22, <1>23, <1>24,
     NextCases
     DEF RequestStep

\* A removal keeps what it has established.
LEMMA RemovalStep == ASSUME CPInv, [CPNext]_cpVars
                   PROVE  RemovalInv'
<1>0. CPInv /\ ControlPlaneTypeOK
  BY DEF CPInv
<1>1. ASSUME NEW n \in Nonces, EnrollNew(n)
      PROVE  RemovalInv'
  BY <1>1, <1>0, RowFields, ControlPlaneAssumption, NoneIsNoRequest, RowEnrolled
     DEF Done, Idle, store, provider, EnrollNew, Admits, CPInv, ControlPlaneTypeOK,
         RemovalInv, Steps, Owned, Ops
<1>2. ASSUME NEW n \in Nonces, EnrollReplay(n)
      PROVE  RemovalInv'
  BY <1>2, <1>0, RowFields, ControlPlaneAssumption, NoneIsNoRequest, RowRestored
     DEF Done, Idle, store, provider, EnrollReplay, LetBackIn, Admits, CPInv,
         ControlPlaneTypeOK, RemovalInv, Steps, Owned, Ops
<1>3. ASSUME NEW i \in Ids, Reactivate(i)
      PROVE  RemovalInv'
  BY <1>3, <1>0, RowFields, ControlPlaneAssumption, NoneIsNoRequest, RowRestored
     DEF Done, Idle, store, provider, Reactivate, LetBackIn, Admits, CPInv,
         ControlPlaneTypeOK, RemovalInv, Steps, Owned, Ops
<1>4. ASSUME NEW i \in Ids, NEW op \in Ops, NEW b \in BOOLEAN, Removal(op, i, b)
      PROVE  RemovalInv'
  BY <1>4, <1>0, RowFields, ControlPlaneAssumption, NoneIsNoRequest, RemovalStarts
     DEF Idle, Removal, Ops, CPInv, ControlPlaneTypeOK, RemovalInv, Steps, Owned
<1>5. ASSUME NEW i \in Ids, ReconcileOn(i)
      PROVE  RemovalInv'
  BY <1>5, <1>0, RowFields, ControlPlaneAssumption, NoneIsNoRequest, RequestBegins
     DEF Done, Idle, store, provider, ReconcileOn, Wanted, Authorized, Ops, CPInv,
         ControlPlaneTypeOK, RemovalInv, Steps, Owned
<1>6. ASSUME NEW i \in Ids, CacheExpires(i)
      PROVE  RemovalInv'
  BY <1>6, <1>0, RowFields, ControlPlaneAssumption, NoneIsNoRequest, RowUnconfirmed
     DEF Done, Idle, store, provider, CacheExpires, CPInv, ControlPlaneTypeOK,
         RemovalInv, Steps, Owned, Ops
<1>7. ASSUME NEW i \in Ids, ForeignRecord(i)
      PROVE  RemovalInv'
  BY <1>7, <1>0, RowFields, ControlPlaneAssumption, NoneIsNoRequest
     DEF Done, Idle, store, provider, ForeignRecord, CPInv, ControlPlaneTypeOK,
         RemovalInv, Steps, Owned, Ops
<1>8. ASSUME NEW i \in Ids, NEW g \in Gens, Provision(i, g)
      PROVE  RemovalInv'
  BY <1>8, <1>0, RowFields, ControlPlaneAssumption, NoneIsNoRequest, ProvisionStarts
     DEF Done, Idle, store, provider, Provision, Authorized, Ops, CPInv,
         ControlPlaneTypeOK, RemovalInv, Steps, Owned
<1>9. ASSUME NEW i \in Ids, NEW g \in Gens, Connect(i, g)
      PROVE  RemovalInv'
  BY <1>9, <1>0, RowFields, ControlPlaneAssumption, NoneIsNoRequest
     DEF Done, Idle, store, provider, Connect, CPInv, ControlPlaneTypeOK,
         RemovalInv, Steps, Owned, Ops
<1>10. ASSUME NEW i \in Ids, NEW g \in Gens, Disconnect(i, g)
      PROVE  RemovalInv'
  BY <1>10, <1>0, RowFields, ControlPlaneAssumption, NoneIsNoRequest
     DEF Done, Idle, store, provider, Disconnect, CPInv, ControlPlaneTypeOK,
         RemovalInv, Steps, Owned, Ops
<1>11. ASSUME Look
      PROVE  RemovalInv'
  BY <1>11, <1>0, RowFields, ControlPlaneAssumption, NoneIsNoRequest, RequestFields,
     RequestMoves
     DEF At, Here, Own, Removing, Done, Answer, store, provider, Look, Stale, Owned,
         Steps, CPInv, ControlPlaneTypeOK, RemovalInv, Ops
<1>12. ASSUME DeleteRecord
      PROVE  RemovalInv'
  BY <1>12, <1>0, RowFields, ControlPlaneAssumption, NoneIsNoRequest, RequestFields,
     RequestMoves
     DEF At, Here, Own, Removing, Done, Answer, store, provider, DeleteRecord,
         Steps, CPInv, ControlPlaneTypeOK, RemovalInv, Owned, Ops
<1>13. ASSUME Unroute
      PROVE  RemovalInv'
  BY <1>13, <1>0, RowFields, ControlPlaneAssumption, NoneIsNoRequest, RequestFields,
     RequestMoves
     DEF At, Here, Own, Removing, Done, Answer, store, provider, Unroute, Steps,
         CPInv, ControlPlaneTypeOK, RemovalInv, Owned, Ops
<1>14. ASSUME DropTunnel
      PROVE  RemovalInv'
  BY <1>14, <1>0, RowFields, ControlPlaneAssumption, NoneIsNoRequest, RequestFields,
     RequestMoves
     DEF At, Here, Own, Removing, Done, Answer, store, provider, DropTunnel, Steps,
         CPInv, ControlPlaneTypeOK, RemovalInv, Owned, Ops
<1>15. ASSUME CreateTunnel
      PROVE  RemovalInv'
  BY <1>15, <1>0, RowFields, ControlPlaneAssumption, NoneIsNoRequest, RequestFields,
     RequestMoves
     DEF At, Here, Own, Removing, Done, Answer, store, provider, CreateTunnel,
         Steps, CPInv, ControlPlaneTypeOK, RemovalInv, Owned, Ops
<1>16. ASSUME Configure
      PROVE  RemovalInv'
  BY <1>16, <1>0, RowFields, ControlPlaneAssumption, NoneIsNoRequest, RequestFields,
     RequestMoves
     DEF At, Here, Own, Removing, Done, Answer, store, provider, Configure, Steps,
         CPInv, ControlPlaneTypeOK, RemovalInv, Owned, Ops
<1>17. ASSUME CreateRecord
      PROVE  RemovalInv'
  BY <1>17, <1>0, RowFields, ControlPlaneAssumption, NoneIsNoRequest, RequestFields,
     RequestMoves
     DEF At, Here, Own, Removing, Done, Answer, store, provider, CreateRecord,
         Steps, CPInv, ControlPlaneTypeOK, RemovalInv, Owned, Ops
<1>18. ASSUME Confirm
      PROVE  RemovalInv'
  BY <1>18, <1>0, RowFields, ControlPlaneAssumption, NoneIsNoRequest, RequestFields,
     RequestMoves, RowProvisioned
     DEF At, Here, Own, Removing, Done, Answer, store, provider, Confirm, Owned,
         CPInv, ControlPlaneTypeOK, RemovalInv, Steps, Ops
<1>19. ASSUME Settle
      PROVE  RemovalInv'
  BY <1>19, <1>0, RowFields, ControlPlaneAssumption, NoneIsNoRequest, RequestFields,
     RequestMoves, RowCleared
     DEF At, Here, Own, Removing, Done, Answer, store, provider, Settle, Steps,
         CPInv, ControlPlaneTypeOK, RemovalInv, Owned, Ops
<1>20. ASSUME Discount
      PROVE  RemovalInv'
  BY <1>20, <1>0, RowFields, ControlPlaneAssumption, NoneIsNoRequest, RequestFields,
     RequestMoves
     DEF At, Here, Own, Removing, Done, Answer, store, provider, Discount, Steps,
         CPInv, ControlPlaneTypeOK, RemovalInv, Owned, Ops
<1>21. ASSUME Remint
      PROVE  RemovalInv'
  BY <1>21, <1>0, RowFields, ControlPlaneAssumption, NoneIsNoRequest, RequestFields,
     RequestMoves, RowEnrolled
     DEF At, Here, Own, Removing, Done, Answer, store, provider, Remint, Admits,
         CPInv, ControlPlaneTypeOK, RemovalInv, Steps, Owned, Ops
<1>22. ASSUME Fails
      PROVE  RemovalInv'
  BY <1>22, <1>0, RowFields, ControlPlaneAssumption, NoneIsNoRequest
     DEF Done, Idle, store, provider, Fails, CPInv, ControlPlaneTypeOK, RemovalInv,
         Steps, Owned, Ops
<1>23. ASSUME Evict
      PROVE  RemovalInv'
  BY <1>23, <1>0, RowFields, ControlPlaneAssumption, NoneIsNoRequest
     DEF Done, Idle, store, provider, Evict, CPInv, ControlPlaneTypeOK, RemovalInv,
         Steps, Owned, Ops
<1>24. CASE UNCHANGED cpVars
  BY <1>24, <1>0, RowFields, ControlPlaneAssumption, NoneIsNoRequest
     DEF cpVars, store, provider, CPInv, ControlPlaneTypeOK, RemovalInv, Steps,
         Owned, Ops
<1>25. QED
  BY <1>1, <1>2, <1>3, <1>4, <1>5, <1>6, <1>7, <1>8, <1>9, <1>10, <1>11, <1>12, <1>13,
     <1>14, <1>15, <1>16, <1>17, <1>18, <1>19, <1>20, <1>21, <1>22, <1>23, <1>24,
     NextCases
     DEF RequestStep

\* An id that was never given out keeps an untouched row.
LEMMA UnknownStep == ASSUME CPInv, [CPNext]_cpVars
                   PROVE  UnknownInv'
<1>0. CPInv /\ ControlPlaneTypeOK
  BY DEF CPInv
<1>1. ASSUME NEW n \in Nonces, EnrollNew(n)
      PROVE  UnknownInv'
  BY <1>1, <1>0, RowFields, ControlPlaneAssumption, NoneIsNoRequest, RowEnrolled
     DEF Done, Idle, store, provider, EnrollNew, Admits, CPInv, ControlPlaneTypeOK,
         UnknownInv, ProvisionInv, RemovalInv
<1>2. ASSUME NEW n \in Nonces, EnrollReplay(n)
      PROVE  UnknownInv'
  BY <1>2, <1>0, RowFields, ControlPlaneAssumption, NoneIsNoRequest, RowRestored,
     RowUnknown
     DEF Done, Idle, store, provider, EnrollReplay, LetBackIn, Admits, CPInv,
         ControlPlaneTypeOK, UnknownInv, ProvisionInv, RemovalInv
<1>3. ASSUME NEW i \in Ids, Reactivate(i)
      PROVE  UnknownInv'
  BY <1>3, <1>0, RowFields, ControlPlaneAssumption, NoneIsNoRequest, RowRestored,
     RowUnknown
     DEF Done, Idle, store, provider, Reactivate, LetBackIn, Admits, CPInv,
         ControlPlaneTypeOK, UnknownInv, ProvisionInv, RemovalInv
<1>4. ASSUME NEW i \in Ids, NEW op \in Ops, NEW b \in BOOLEAN, Removal(op, i, b)
      PROVE  UnknownInv'
  BY <1>4, <1>0, RowFields, ControlPlaneAssumption, NoneIsNoRequest, RemovalStarts
     DEF Idle, Removal, Ops, CPInv, ControlPlaneTypeOK, UnknownInv, ProvisionInv,
         RemovalInv
<1>5. ASSUME NEW i \in Ids, ReconcileOn(i)
      PROVE  UnknownInv'
  BY <1>5, <1>0, RowFields, ControlPlaneAssumption, NoneIsNoRequest, RequestBegins
     DEF Done, Idle, store, provider, ReconcileOn, Wanted, Authorized, Ops, CPInv,
         ControlPlaneTypeOK, UnknownInv, ProvisionInv, RemovalInv
<1>6. ASSUME NEW i \in Ids, CacheExpires(i)
      PROVE  UnknownInv'
  BY <1>6, <1>0, RowFields, ControlPlaneAssumption, NoneIsNoRequest, RowUnconfirmed,
     RowUnknown
     DEF Done, Idle, store, provider, CacheExpires, CPInv, ControlPlaneTypeOK,
         UnknownInv, ProvisionInv, RemovalInv
<1>7. ASSUME NEW i \in Ids, ForeignRecord(i)
      PROVE  UnknownInv'
  BY <1>7, <1>0, RowFields, ControlPlaneAssumption, NoneIsNoRequest
     DEF Done, Idle, store, provider, ForeignRecord, CPInv, ControlPlaneTypeOK,
         UnknownInv, ProvisionInv, RemovalInv
<1>8. ASSUME NEW i \in Ids, NEW g \in Gens, Provision(i, g)
      PROVE  UnknownInv'
  <2>1. /\ inst[i] \in Installation
        /\ inst' \in [Ids -> Installation]
        /\ inst'[i].known = inst[i].known /\ inst'[i].revoked = inst[i].revoked
        /\ inst'[i].desired /\ inst'[i].gen = g /\ inst'[i].phase = "enabling"
        /\ \A j \in Ids \ {i} : inst'[j] = inst[j]
        /\ req' \in Request /\ req'.op = "provision" /\ req'.id = i /\ req'.pc = "look"
        /\ req'.target = None /\ ~req'.counted
    BY <1>8, <1>0, ProvisionStarts
  <2>2. QED
    BY <1>8, <1>0, <2>1, NoneIsNoRequest, ControlPlaneAssumption
       DEF Provision, Authorized, provider, CPInv, UnknownInv
<1>9. ASSUME NEW i \in Ids, NEW g \in Gens, Connect(i, g)
      PROVE  UnknownInv'
  BY <1>9, <1>0, RowFields, ControlPlaneAssumption, NoneIsNoRequest
     DEF Done, Idle, store, provider, Connect, CPInv, ControlPlaneTypeOK,
         UnknownInv, ProvisionInv, RemovalInv
<1>10. ASSUME NEW i \in Ids, NEW g \in Gens, Disconnect(i, g)
      PROVE  UnknownInv'
  BY <1>10, <1>0, RowFields, ControlPlaneAssumption, NoneIsNoRequest
     DEF Done, Idle, store, provider, Disconnect, CPInv, ControlPlaneTypeOK,
         UnknownInv, ProvisionInv, RemovalInv
<1>11. ASSUME Look
      PROVE  UnknownInv'
  BY <1>11, <1>0, RowFields, ControlPlaneAssumption, NoneIsNoRequest, RequestFields,
     RequestMoves
     DEF At, Here, Own, Removing, Done, Answer, store, provider, Look, Stale, Owned,
         Steps, CPInv, ControlPlaneTypeOK, UnknownInv, ProvisionInv, RemovalInv
<1>12. ASSUME DeleteRecord
      PROVE  UnknownInv'
  BY <1>12, <1>0, RowFields, ControlPlaneAssumption, NoneIsNoRequest, RequestFields,
     RequestMoves
     DEF At, Here, Own, Removing, Done, Answer, store, provider, DeleteRecord,
         Steps, CPInv, ControlPlaneTypeOK, UnknownInv, ProvisionInv, RemovalInv
<1>13. ASSUME Unroute
      PROVE  UnknownInv'
  BY <1>13, <1>0, RowFields, ControlPlaneAssumption, NoneIsNoRequest, RequestFields,
     RequestMoves
     DEF At, Here, Own, Removing, Done, Answer, store, provider, Unroute, Steps,
         CPInv, ControlPlaneTypeOK, UnknownInv, ProvisionInv, RemovalInv
<1>14. ASSUME DropTunnel
      PROVE  UnknownInv'
  BY <1>14, <1>0, RowFields, ControlPlaneAssumption, NoneIsNoRequest, RequestFields,
     RequestMoves
     DEF At, Here, Own, Removing, Done, Answer, store, provider, DropTunnel, Steps,
         CPInv, ControlPlaneTypeOK, UnknownInv, ProvisionInv, RemovalInv
<1>15. ASSUME CreateTunnel
      PROVE  UnknownInv'
  BY <1>15, <1>0, RowFields, ControlPlaneAssumption, NoneIsNoRequest, RequestFields,
     RequestMoves
     DEF At, Here, Own, Removing, Done, Answer, store, provider, CreateTunnel,
         Steps, CPInv, ControlPlaneTypeOK, UnknownInv, ProvisionInv, RemovalInv
<1>16. ASSUME Configure
      PROVE  UnknownInv'
  BY <1>16, <1>0, RowFields, ControlPlaneAssumption, NoneIsNoRequest, RequestFields,
     RequestMoves
     DEF At, Here, Own, Removing, Done, Answer, store, provider, Configure, Steps,
         CPInv, ControlPlaneTypeOK, UnknownInv, ProvisionInv, RemovalInv
<1>17. ASSUME CreateRecord
      PROVE  UnknownInv'
  BY <1>17, <1>0, RowFields, ControlPlaneAssumption, NoneIsNoRequest, RequestFields,
     RequestMoves
     DEF At, Here, Own, Removing, Done, Answer, store, provider, CreateRecord,
         Steps, CPInv, ControlPlaneTypeOK, UnknownInv, ProvisionInv, RemovalInv
<1>18. ASSUME Confirm
      PROVE  UnknownInv'
  BY <1>18, <1>0, RowFields, ControlPlaneAssumption, NoneIsNoRequest, RequestFields,
     RequestMoves, RowProvisioned
     DEF At, Here, Own, Removing, Done, Answer, store, provider, Confirm, Owned,
         CPInv, ControlPlaneTypeOK, UnknownInv, ProvisionInv, RemovalInv
<1>19. ASSUME Settle
      PROVE  UnknownInv'
  BY <1>19, <1>0, RowFields, ControlPlaneAssumption, NoneIsNoRequest, RequestFields,
     RequestMoves, RowCleared
     DEF At, Here, Own, Removing, Done, Answer, store, provider, Settle, Steps,
         CPInv, ControlPlaneTypeOK, UnknownInv, ProvisionInv, RemovalInv
<1>20. ASSUME Discount
      PROVE  UnknownInv'
  BY <1>20, <1>0, RowFields, ControlPlaneAssumption, NoneIsNoRequest, RequestFields,
     RequestMoves
     DEF At, Here, Own, Removing, Done, Answer, store, provider, Discount, Steps,
         CPInv, ControlPlaneTypeOK, UnknownInv, ProvisionInv, RemovalInv
<1>21. ASSUME Remint
      PROVE  UnknownInv'
  BY <1>21, <1>0, RowFields, ControlPlaneAssumption, NoneIsNoRequest, RequestFields,
     RequestMoves, RowEnrolled
     DEF At, Here, Own, Removing, Done, Answer, store, provider, Remint, Admits,
         CPInv, ControlPlaneTypeOK, UnknownInv, ProvisionInv, RemovalInv
<1>22. ASSUME Fails
      PROVE  UnknownInv'
  BY <1>22, <1>0, RowFields, ControlPlaneAssumption, NoneIsNoRequest
     DEF Done, Idle, store, provider, Fails, CPInv, ControlPlaneTypeOK, UnknownInv,
         ProvisionInv, RemovalInv
<1>23. ASSUME Evict
      PROVE  UnknownInv'
  BY <1>23, <1>0, RowFields, ControlPlaneAssumption, NoneIsNoRequest
     DEF Done, Idle, store, provider, Evict, CPInv, ControlPlaneTypeOK, UnknownInv,
         ProvisionInv, RemovalInv
<1>24. CASE UNCHANGED cpVars
  BY <1>24, <1>0, RowFields, ControlPlaneAssumption, NoneIsNoRequest
     DEF cpVars, store, provider, CPInv, ControlPlaneTypeOK, UnknownInv,
         ProvisionInv, RemovalInv
<1>25. QED
  BY <1>1, <1>2, <1>3, <1>4, <1>5, <1>6, <1>7, <1>8, <1>9, <1>10, <1>11, <1>12, <1>13,
     <1>14, <1>15, <1>16, <1>17, <1>18, <1>19, <1>20, <1>21, <1>22, <1>23, <1>24,
     NextCases
     DEF RequestStep

\* A revoked installation stays unwanted.
LEMMA RevokedStep == ASSUME CPInv, [CPNext]_cpVars
                   PROVE  RevokedInv'
<1>0. CPInv /\ ControlPlaneTypeOK
  BY DEF CPInv
<1>1. ASSUME NEW n \in Nonces, EnrollNew(n)
      PROVE  RevokedInv'
  BY <1>1, <1>0, RowFields, ControlPlaneAssumption, NoneIsNoRequest, RowEnrolled
     DEF Done, Idle, store, provider, EnrollNew, Admits, CPInv, ControlPlaneTypeOK,
         RevokedInv, ProvisionInv
<1>2. ASSUME NEW n \in Nonces, EnrollReplay(n)
      PROVE  RevokedInv'
  BY <1>2, <1>0, RowFields, ControlPlaneAssumption, NoneIsNoRequest, RowRestored
     DEF Done, Idle, store, provider, EnrollReplay, LetBackIn, Admits, CPInv,
         ControlPlaneTypeOK, RevokedInv, ProvisionInv
<1>3. ASSUME NEW i \in Ids, Reactivate(i)
      PROVE  RevokedInv'
  BY <1>3, <1>0, RowFields, ControlPlaneAssumption, NoneIsNoRequest, RowRestored
     DEF Done, Idle, store, provider, Reactivate, LetBackIn, Admits, CPInv,
         ControlPlaneTypeOK, RevokedInv, ProvisionInv
<1>4. ASSUME NEW i \in Ids, NEW op \in Ops, NEW b \in BOOLEAN, Removal(op, i, b)
      PROVE  RevokedInv'
  BY <1>4, <1>0, RowFields, ControlPlaneAssumption, NoneIsNoRequest, RemovalStarts
     DEF Idle, Removal, Ops, CPInv, ControlPlaneTypeOK, RevokedInv, ProvisionInv
<1>5. ASSUME NEW i \in Ids, ReconcileOn(i)
      PROVE  RevokedInv'
  BY <1>5, <1>0, RowFields, ControlPlaneAssumption, NoneIsNoRequest, RequestBegins
     DEF Done, Idle, store, provider, ReconcileOn, Wanted, Authorized, Ops, CPInv,
         ControlPlaneTypeOK, RevokedInv, ProvisionInv
<1>6. ASSUME NEW i \in Ids, CacheExpires(i)
      PROVE  RevokedInv'
  BY <1>6, <1>0, RowFields, ControlPlaneAssumption, NoneIsNoRequest, RowUnconfirmed
     DEF Done, Idle, store, provider, CacheExpires, CPInv, ControlPlaneTypeOK,
         RevokedInv, ProvisionInv
<1>7. ASSUME NEW i \in Ids, ForeignRecord(i)
      PROVE  RevokedInv'
  BY <1>7, <1>0, RowFields, ControlPlaneAssumption, NoneIsNoRequest
     DEF Done, Idle, store, provider, ForeignRecord, CPInv, ControlPlaneTypeOK,
         RevokedInv, ProvisionInv
<1>8. ASSUME NEW i \in Ids, NEW g \in Gens, Provision(i, g)
      PROVE  RevokedInv'
  <2>1. /\ inst[i] \in Installation
        /\ inst' \in [Ids -> Installation]
        /\ inst'[i].known = inst[i].known /\ inst'[i].revoked = inst[i].revoked
        /\ inst'[i].desired /\ inst'[i].gen = g /\ inst'[i].phase = "enabling"
        /\ \A j \in Ids \ {i} : inst'[j] = inst[j]
        /\ req' \in Request /\ req'.op = "provision" /\ req'.id = i /\ req'.pc = "look"
        /\ req'.target = None /\ ~req'.counted
    BY <1>8, <1>0, ProvisionStarts
  <2>2. QED
    BY <1>8, <1>0, <2>1, NoneIsNoRequest, ControlPlaneAssumption
       DEF Provision, Authorized, provider, CPInv, RevokedInv
<1>9. ASSUME NEW i \in Ids, NEW g \in Gens, Connect(i, g)
      PROVE  RevokedInv'
  BY <1>9, <1>0, RowFields, ControlPlaneAssumption, NoneIsNoRequest
     DEF Done, Idle, store, provider, Connect, CPInv, ControlPlaneTypeOK,
         RevokedInv, ProvisionInv
<1>10. ASSUME NEW i \in Ids, NEW g \in Gens, Disconnect(i, g)
      PROVE  RevokedInv'
  BY <1>10, <1>0, RowFields, ControlPlaneAssumption, NoneIsNoRequest
     DEF Done, Idle, store, provider, Disconnect, CPInv, ControlPlaneTypeOK,
         RevokedInv, ProvisionInv
<1>11. ASSUME Look
      PROVE  RevokedInv'
  BY <1>11, <1>0, RowFields, ControlPlaneAssumption, NoneIsNoRequest, RequestFields,
     RequestMoves
     DEF At, Here, Own, Removing, Done, Answer, store, provider, Look, Stale, Owned,
         Steps, CPInv, ControlPlaneTypeOK, RevokedInv, ProvisionInv
<1>12. ASSUME DeleteRecord
      PROVE  RevokedInv'
  BY <1>12, <1>0, RowFields, ControlPlaneAssumption, NoneIsNoRequest, RequestFields,
     RequestMoves
     DEF At, Here, Own, Removing, Done, Answer, store, provider, DeleteRecord,
         Steps, CPInv, ControlPlaneTypeOK, RevokedInv, ProvisionInv
<1>13. ASSUME Unroute
      PROVE  RevokedInv'
  BY <1>13, <1>0, RowFields, ControlPlaneAssumption, NoneIsNoRequest, RequestFields,
     RequestMoves
     DEF At, Here, Own, Removing, Done, Answer, store, provider, Unroute, Steps,
         CPInv, ControlPlaneTypeOK, RevokedInv, ProvisionInv
<1>14. ASSUME DropTunnel
      PROVE  RevokedInv'
  BY <1>14, <1>0, RowFields, ControlPlaneAssumption, NoneIsNoRequest, RequestFields,
     RequestMoves
     DEF At, Here, Own, Removing, Done, Answer, store, provider, DropTunnel, Steps,
         CPInv, ControlPlaneTypeOK, RevokedInv, ProvisionInv
<1>15. ASSUME CreateTunnel
      PROVE  RevokedInv'
  BY <1>15, <1>0, RowFields, ControlPlaneAssumption, NoneIsNoRequest, RequestFields,
     RequestMoves
     DEF At, Here, Own, Removing, Done, Answer, store, provider, CreateTunnel,
         Steps, CPInv, ControlPlaneTypeOK, RevokedInv, ProvisionInv
<1>16. ASSUME Configure
      PROVE  RevokedInv'
  BY <1>16, <1>0, RowFields, ControlPlaneAssumption, NoneIsNoRequest, RequestFields,
     RequestMoves
     DEF At, Here, Own, Removing, Done, Answer, store, provider, Configure, Steps,
         CPInv, ControlPlaneTypeOK, RevokedInv, ProvisionInv
<1>17. ASSUME CreateRecord
      PROVE  RevokedInv'
  BY <1>17, <1>0, RowFields, ControlPlaneAssumption, NoneIsNoRequest, RequestFields,
     RequestMoves
     DEF At, Here, Own, Removing, Done, Answer, store, provider, CreateRecord,
         Steps, CPInv, ControlPlaneTypeOK, RevokedInv, ProvisionInv
<1>18. ASSUME Confirm
      PROVE  RevokedInv'
  BY <1>18, <1>0, RowFields, ControlPlaneAssumption, NoneIsNoRequest, RequestFields,
     RequestMoves, RowProvisioned
     DEF At, Here, Own, Removing, Done, Answer, store, provider, Confirm, Owned,
         CPInv, ControlPlaneTypeOK, RevokedInv, ProvisionInv
<1>19. ASSUME Settle
      PROVE  RevokedInv'
  BY <1>19, <1>0, RowFields, ControlPlaneAssumption, NoneIsNoRequest, RequestFields,
     RequestMoves, RowCleared
     DEF At, Here, Own, Removing, Done, Answer, store, provider, Settle, Steps,
         CPInv, ControlPlaneTypeOK, RevokedInv, ProvisionInv
<1>20. ASSUME Discount
      PROVE  RevokedInv'
  BY <1>20, <1>0, RowFields, ControlPlaneAssumption, NoneIsNoRequest, RequestFields,
     RequestMoves
     DEF At, Here, Own, Removing, Done, Answer, store, provider, Discount, Steps,
         CPInv, ControlPlaneTypeOK, RevokedInv, ProvisionInv
<1>21. ASSUME Remint
      PROVE  RevokedInv'
  BY <1>21, <1>0, RowFields, ControlPlaneAssumption, NoneIsNoRequest, RequestFields,
     RequestMoves, RowEnrolled
     DEF At, Here, Own, Removing, Done, Answer, store, provider, Remint, Admits,
         CPInv, ControlPlaneTypeOK, RevokedInv, ProvisionInv
<1>22. ASSUME Fails
      PROVE  RevokedInv'
  BY <1>22, <1>0, RowFields, ControlPlaneAssumption, NoneIsNoRequest
     DEF Done, Idle, store, provider, Fails, CPInv, ControlPlaneTypeOK, RevokedInv,
         ProvisionInv
<1>23. ASSUME Evict
      PROVE  RevokedInv'
  BY <1>23, <1>0, RowFields, ControlPlaneAssumption, NoneIsNoRequest
     DEF Done, Idle, store, provider, Evict, CPInv, ControlPlaneTypeOK, RevokedInv,
         ProvisionInv
<1>24. CASE UNCHANGED cpVars
  BY <1>24, <1>0, RowFields, ControlPlaneAssumption, NoneIsNoRequest
     DEF cpVars, store, provider, CPInv, ControlPlaneTypeOK, RevokedInv,
         ProvisionInv
<1>25. QED
  BY <1>1, <1>2, <1>3, <1>4, <1>5, <1>6, <1>7, <1>8, <1>9, <1>10, <1>11, <1>12, <1>13,
     <1>14, <1>15, <1>16, <1>17, <1>18, <1>19, <1>20, <1>21, <1>22, <1>23, <1>24,
     NextCases
     DEF RequestStep

\* A step leaves no tunnel behind unaccounted for.
LEMMA StrayStep == ASSUME CPInv, [CPNext]_cpVars
                 PROVE  NoStrayTunnel'
<1>0. CPInv /\ ControlPlaneTypeOK
  BY DEF CPInv
<1>1. ASSUME NEW n \in Nonces, EnrollNew(n)
      PROVE  NoStrayTunnel'
  BY <1>1, <1>0, RowFields, ControlPlaneAssumption, NoneIsNoRequest, RowEnrolled,
     RowUnknown
     DEF Done, Idle, store, provider, EnrollNew, Admits, CPInv, ControlPlaneTypeOK,
         NoStrayTunnel, ProvisionInv, RemovalInv, UnknownInv
<1>2. ASSUME NEW n \in Nonces, EnrollReplay(n)
      PROVE  NoStrayTunnel'
  BY <1>2, <1>0, RowFields, ControlPlaneAssumption, NoneIsNoRequest, RowRestored
     DEF Done, Idle, store, provider, EnrollReplay, LetBackIn, Admits, CPInv,
         ControlPlaneTypeOK, NoStrayTunnel, ProvisionInv, RemovalInv
<1>3. ASSUME NEW i \in Ids, Reactivate(i)
      PROVE  NoStrayTunnel'
  BY <1>3, <1>0, RowFields, ControlPlaneAssumption, NoneIsNoRequest, RowRestored
     DEF Done, Idle, store, provider, Reactivate, LetBackIn, Admits, CPInv,
         ControlPlaneTypeOK, NoStrayTunnel, ProvisionInv, RemovalInv
<1>4. ASSUME NEW i \in Ids, NEW op \in Ops, NEW b \in BOOLEAN, Removal(op, i, b)
      PROVE  NoStrayTunnel'
  BY <1>4, <1>0, RowFields, ControlPlaneAssumption, NoneIsNoRequest, RemovalStarts
     DEF Idle, Removal, Ops, CPInv, ControlPlaneTypeOK, NoStrayTunnel, ProvisionInv,
         RemovalInv
<1>5. ASSUME NEW i \in Ids, ReconcileOn(i)
      PROVE  NoStrayTunnel'
  BY <1>5, <1>0, RowFields, ControlPlaneAssumption, NoneIsNoRequest, RequestBegins
     DEF Done, Idle, store, provider, ReconcileOn, Wanted, Authorized, Ops, CPInv,
         ControlPlaneTypeOK, NoStrayTunnel, ProvisionInv, RemovalInv
<1>6. ASSUME NEW i \in Ids, CacheExpires(i)
      PROVE  NoStrayTunnel'
  BY <1>6, <1>0, RowFields, ControlPlaneAssumption, NoneIsNoRequest, RowUnconfirmed
     DEF Done, Idle, store, provider, CacheExpires, CPInv, ControlPlaneTypeOK,
         NoStrayTunnel, ProvisionInv, RemovalInv
<1>7. ASSUME NEW i \in Ids, ForeignRecord(i)
      PROVE  NoStrayTunnel'
  BY <1>7, <1>0, RowFields, ControlPlaneAssumption, NoneIsNoRequest
     DEF Done, Idle, store, provider, ForeignRecord, CPInv, ControlPlaneTypeOK,
         NoStrayTunnel, ProvisionInv, RemovalInv
<1>8. ASSUME NEW i \in Ids, NEW g \in Gens, Provision(i, g)
      PROVE  NoStrayTunnel'
  <2>1. /\ inst[i] \in Installation
        /\ inst' \in [Ids -> Installation]
        /\ inst'[i].known = inst[i].known /\ inst'[i].revoked = inst[i].revoked
        /\ inst'[i].desired /\ inst'[i].gen = g /\ inst'[i].phase = "enabling"
        /\ \A j \in Ids \ {i} : inst'[j] = inst[j]
        /\ req' \in Request /\ req'.op = "provision" /\ req'.id = i /\ req'.pc = "look"
        /\ req'.target = None /\ ~req'.counted
    BY <1>8, <1>0, ProvisionStarts
  <2>2. QED
    BY <1>8, <1>0, <2>1, NoneIsNoRequest, ControlPlaneAssumption
       DEF Provision, Authorized, provider, CPInv, NoStrayTunnel, ControlPlaneTypeOK
<1>9. ASSUME NEW i \in Ids, NEW g \in Gens, Connect(i, g)
      PROVE  NoStrayTunnel'
  BY <1>9, <1>0, RowFields, ControlPlaneAssumption, NoneIsNoRequest
     DEF Done, Idle, store, provider, Connect, CPInv, ControlPlaneTypeOK,
         NoStrayTunnel, ProvisionInv, RemovalInv
<1>10. ASSUME NEW i \in Ids, NEW g \in Gens, Disconnect(i, g)
      PROVE  NoStrayTunnel'
  BY <1>10, <1>0, RowFields, ControlPlaneAssumption, NoneIsNoRequest
     DEF Done, Idle, store, provider, Disconnect, CPInv, ControlPlaneTypeOK,
         NoStrayTunnel, ProvisionInv, RemovalInv
<1>11. ASSUME Look
      PROVE  NoStrayTunnel'
  BY <1>11, <1>0, RowFields, ControlPlaneAssumption, NoneIsNoRequest, RequestFields,
     RequestMoves
     DEF At, Here, Own, Removing, Done, Answer, store, provider, Look, Stale, Owned,
         Steps, CPInv, ControlPlaneTypeOK, NoStrayTunnel, ProvisionInv, RemovalInv
<1>12. ASSUME DeleteRecord
      PROVE  NoStrayTunnel'
  BY <1>12, <1>0, RowFields, ControlPlaneAssumption, NoneIsNoRequest, RequestFields,
     RequestMoves
     DEF At, Here, Own, Removing, Done, Answer, store, provider, DeleteRecord,
         Steps, CPInv, ControlPlaneTypeOK, NoStrayTunnel, ProvisionInv, RemovalInv
<1>13. ASSUME Unroute
      PROVE  NoStrayTunnel'
  BY <1>13, <1>0, RowFields, ControlPlaneAssumption, NoneIsNoRequest, RequestFields,
     RequestMoves
     DEF At, Here, Own, Removing, Done, Answer, store, provider, Unroute, Steps,
         CPInv, ControlPlaneTypeOK, NoStrayTunnel, ProvisionInv, RemovalInv
<1>14. ASSUME DropTunnel
      PROVE  NoStrayTunnel'
  BY <1>14, <1>0, RowFields, ControlPlaneAssumption, NoneIsNoRequest, RequestFields,
     RequestMoves
     DEF At, Here, Own, Removing, Done, Answer, store, provider, DropTunnel, Steps,
         CPInv, ControlPlaneTypeOK, NoStrayTunnel, ProvisionInv, RemovalInv
<1>15. ASSUME CreateTunnel
      PROVE  NoStrayTunnel'
  BY <1>15, <1>0, RowFields, ControlPlaneAssumption, NoneIsNoRequest, RequestFields,
     RequestMoves
     DEF At, Here, Own, Removing, Done, Answer, store, provider, CreateTunnel,
         Steps, CPInv, ControlPlaneTypeOK, NoStrayTunnel, ProvisionInv, RemovalInv
<1>16. ASSUME Configure
      PROVE  NoStrayTunnel'
  BY <1>16, <1>0, RowFields, ControlPlaneAssumption, NoneIsNoRequest, RequestFields,
     RequestMoves
     DEF At, Here, Own, Removing, Done, Answer, store, provider, Configure, Steps,
         CPInv, ControlPlaneTypeOK, NoStrayTunnel, ProvisionInv, RemovalInv
<1>17. ASSUME CreateRecord
      PROVE  NoStrayTunnel'
  BY <1>17, <1>0, RowFields, ControlPlaneAssumption, NoneIsNoRequest, RequestFields,
     RequestMoves
     DEF At, Here, Own, Removing, Done, Answer, store, provider, CreateRecord,
         Steps, CPInv, ControlPlaneTypeOK, NoStrayTunnel, ProvisionInv, RemovalInv
<1>18. ASSUME Confirm
      PROVE  NoStrayTunnel'
  BY <1>18, <1>0, RowFields, ControlPlaneAssumption, NoneIsNoRequest, RequestFields,
     RequestMoves, RowProvisioned
     DEF At, Here, Own, Removing, Done, Answer, store, provider, Confirm, Owned,
         CPInv, ControlPlaneTypeOK, NoStrayTunnel, ProvisionInv, RemovalInv
<1>19. ASSUME Settle
      PROVE  NoStrayTunnel'
  BY <1>19, <1>0, RowFields, ControlPlaneAssumption, NoneIsNoRequest, RequestFields,
     RequestMoves, RowCleared
     DEF At, Here, Own, Removing, Done, Answer, store, provider, Settle, Steps,
         CPInv, ControlPlaneTypeOK, NoStrayTunnel, ProvisionInv, RemovalInv
<1>20. ASSUME Discount
      PROVE  NoStrayTunnel'
  BY <1>20, <1>0, RowFields, ControlPlaneAssumption, NoneIsNoRequest, RequestFields,
     RequestMoves
     DEF At, Here, Own, Removing, Done, Answer, store, provider, Discount, Steps,
         CPInv, ControlPlaneTypeOK, NoStrayTunnel, ProvisionInv, RemovalInv
<1>21. ASSUME Remint
      PROVE  NoStrayTunnel'
  BY <1>21, <1>0, RowFields, ControlPlaneAssumption, NoneIsNoRequest, RequestFields,
     RequestMoves, RowEnrolled, RowUnknown
     DEF At, Here, Own, Removing, Done, Answer, store, provider, Remint, Admits,
         CPInv, ControlPlaneTypeOK, NoStrayTunnel, ProvisionInv, RemovalInv,
         UnknownInv
<1>22. ASSUME Fails
      PROVE  NoStrayTunnel'
  BY <1>22, <1>0, RowFields, ControlPlaneAssumption, NoneIsNoRequest
     DEF Done, Idle, store, provider, Fails, CPInv, ControlPlaneTypeOK,
         NoStrayTunnel, ProvisionInv, RemovalInv
<1>23. ASSUME Evict
      PROVE  NoStrayTunnel'
  BY <1>23, <1>0, RowFields, ControlPlaneAssumption, NoneIsNoRequest
     DEF Done, Idle, store, provider, Evict, CPInv, ControlPlaneTypeOK,
         NoStrayTunnel, ProvisionInv, RemovalInv
<1>24. CASE UNCHANGED cpVars
  BY <1>24, <1>0, RowFields, ControlPlaneAssumption, NoneIsNoRequest
     DEF cpVars, store, provider, CPInv, ControlPlaneTypeOK, NoStrayTunnel,
         ProvisionInv, RemovalInv
<1>25. QED
  BY <1>1, <1>2, <1>3, <1>4, <1>5, <1>6, <1>7, <1>8, <1>9, <1>10, <1>11, <1>12, <1>13,
     <1>14, <1>15, <1>16, <1>17, <1>18, <1>19, <1>20, <1>21, <1>22, <1>23, <1>24,
     NextCases
     DEF RequestStep

\* A step leaves no record without its tunnel.
LEMMA DanglingStep == ASSUME CPInv, [CPNext]_cpVars
                    PROVE  NoDanglingRecord'
<1>0. CPInv /\ ControlPlaneTypeOK
  BY DEF CPInv
<1>1. ASSUME NEW n \in Nonces, EnrollNew(n)
      PROVE  NoDanglingRecord'
  BY <1>1, <1>0, RowFields, ControlPlaneAssumption, NoneIsNoRequest, RowEnrolled
     DEF Done, Idle, store, provider, EnrollNew, Admits, CPInv, ControlPlaneTypeOK,
         NoDanglingRecord, ProvisionInv, RemovalInv
<1>2. ASSUME NEW n \in Nonces, EnrollReplay(n)
      PROVE  NoDanglingRecord'
  BY <1>2, <1>0, RowFields, ControlPlaneAssumption, NoneIsNoRequest, RowRestored
     DEF Done, Idle, store, provider, EnrollReplay, LetBackIn, Admits, CPInv,
         ControlPlaneTypeOK, NoDanglingRecord, ProvisionInv, RemovalInv
<1>3. ASSUME NEW i \in Ids, Reactivate(i)
      PROVE  NoDanglingRecord'
  BY <1>3, <1>0, RowFields, ControlPlaneAssumption, NoneIsNoRequest, RowRestored
     DEF Done, Idle, store, provider, Reactivate, LetBackIn, Admits, CPInv,
         ControlPlaneTypeOK, NoDanglingRecord, ProvisionInv, RemovalInv
<1>4. ASSUME NEW i \in Ids, NEW op \in Ops, NEW b \in BOOLEAN, Removal(op, i, b)
      PROVE  NoDanglingRecord'
  BY <1>4, <1>0, RowFields, ControlPlaneAssumption, NoneIsNoRequest, RemovalStarts
     DEF Idle, Removal, Ops, CPInv, ControlPlaneTypeOK, NoDanglingRecord,
         ProvisionInv, RemovalInv
<1>5. ASSUME NEW i \in Ids, ReconcileOn(i)
      PROVE  NoDanglingRecord'
  BY <1>5, <1>0, RowFields, ControlPlaneAssumption, NoneIsNoRequest, RequestBegins
     DEF Done, Idle, store, provider, ReconcileOn, Wanted, Authorized, Ops, CPInv,
         ControlPlaneTypeOK, NoDanglingRecord, ProvisionInv, RemovalInv
<1>6. ASSUME NEW i \in Ids, CacheExpires(i)
      PROVE  NoDanglingRecord'
  BY <1>6, <1>0, RowFields, ControlPlaneAssumption, NoneIsNoRequest, RowUnconfirmed
     DEF Done, Idle, store, provider, CacheExpires, CPInv, ControlPlaneTypeOK,
         NoDanglingRecord, ProvisionInv, RemovalInv
<1>7. ASSUME NEW i \in Ids, ForeignRecord(i)
      PROVE  NoDanglingRecord'
  BY <1>7, <1>0, RowFields, ControlPlaneAssumption, NoneIsNoRequest
     DEF Done, Idle, store, provider, ForeignRecord, CPInv, ControlPlaneTypeOK,
         NoDanglingRecord, ProvisionInv, RemovalInv
<1>8. ASSUME NEW i \in Ids, NEW g \in Gens, Provision(i, g)
      PROVE  NoDanglingRecord'
  BY <1>8, <1>0, RowFields, ControlPlaneAssumption, NoneIsNoRequest, ProvisionStarts
     DEF Done, Idle, store, provider, Provision, Authorized, Ops, CPInv,
         ControlPlaneTypeOK, NoDanglingRecord, ProvisionInv, RemovalInv
<1>9. ASSUME NEW i \in Ids, NEW g \in Gens, Connect(i, g)
      PROVE  NoDanglingRecord'
  BY <1>9, <1>0, RowFields, ControlPlaneAssumption, NoneIsNoRequest
     DEF Done, Idle, store, provider, Connect, CPInv, ControlPlaneTypeOK,
         NoDanglingRecord, ProvisionInv, RemovalInv
<1>10. ASSUME NEW i \in Ids, NEW g \in Gens, Disconnect(i, g)
      PROVE  NoDanglingRecord'
  BY <1>10, <1>0, RowFields, ControlPlaneAssumption, NoneIsNoRequest
     DEF Done, Idle, store, provider, Disconnect, CPInv, ControlPlaneTypeOK,
         NoDanglingRecord, ProvisionInv, RemovalInv
<1>11. ASSUME Look
      PROVE  NoDanglingRecord'
  BY <1>11, <1>0, RowFields, ControlPlaneAssumption, NoneIsNoRequest, RequestFields,
     RequestMoves
     DEF At, Here, Own, Removing, Done, Answer, store, provider, Look, Stale, Owned,
         Steps, CPInv, ControlPlaneTypeOK, NoDanglingRecord, ProvisionInv,
         RemovalInv
<1>12. ASSUME DeleteRecord
      PROVE  NoDanglingRecord'
  BY <1>12, <1>0, RowFields, ControlPlaneAssumption, NoneIsNoRequest, RequestFields,
     RequestMoves
     DEF At, Here, Own, Removing, Done, Answer, store, provider, DeleteRecord,
         Steps, CPInv, ControlPlaneTypeOK, NoDanglingRecord, ProvisionInv,
         RemovalInv
<1>13. ASSUME Unroute
      PROVE  NoDanglingRecord'
  BY <1>13, <1>0, RowFields, ControlPlaneAssumption, NoneIsNoRequest, RequestFields,
     RequestMoves
     DEF At, Here, Own, Removing, Done, Answer, store, provider, Unroute, Steps,
         CPInv, ControlPlaneTypeOK, NoDanglingRecord, ProvisionInv, RemovalInv
<1>14. ASSUME DropTunnel
      PROVE  NoDanglingRecord'
  BY <1>14, <1>0, RowFields, ControlPlaneAssumption, NoneIsNoRequest, RequestFields,
     RequestMoves
     DEF At, Here, Own, Removing, Done, Answer, store, provider, DropTunnel, Steps,
         CPInv, ControlPlaneTypeOK, NoDanglingRecord, ProvisionInv, RemovalInv
<1>15. ASSUME CreateTunnel
      PROVE  NoDanglingRecord'
  BY <1>15, <1>0, RowFields, ControlPlaneAssumption, NoneIsNoRequest, RequestFields,
     RequestMoves
     DEF At, Here, Own, Removing, Done, Answer, store, provider, CreateTunnel,
         Steps, CPInv, ControlPlaneTypeOK, NoDanglingRecord, ProvisionInv,
         RemovalInv
<1>16. ASSUME Configure
      PROVE  NoDanglingRecord'
  BY <1>16, <1>0, RowFields, ControlPlaneAssumption, NoneIsNoRequest, RequestFields,
     RequestMoves
     DEF At, Here, Own, Removing, Done, Answer, store, provider, Configure, Steps,
         CPInv, ControlPlaneTypeOK, NoDanglingRecord, ProvisionInv, RemovalInv
<1>17. ASSUME CreateRecord
      PROVE  NoDanglingRecord'
  BY <1>17, <1>0, RowFields, ControlPlaneAssumption, NoneIsNoRequest, RequestFields,
     RequestMoves
     DEF At, Here, Own, Removing, Done, Answer, store, provider, CreateRecord,
         Steps, CPInv, ControlPlaneTypeOK, NoDanglingRecord, ProvisionInv,
         RemovalInv
<1>18. ASSUME Confirm
      PROVE  NoDanglingRecord'
  BY <1>18, <1>0, RowFields, ControlPlaneAssumption, NoneIsNoRequest, RequestFields,
     RequestMoves, RowProvisioned
     DEF At, Here, Own, Removing, Done, Answer, store, provider, Confirm, Owned,
         CPInv, ControlPlaneTypeOK, NoDanglingRecord, ProvisionInv, RemovalInv
<1>19. ASSUME Settle
      PROVE  NoDanglingRecord'
  BY <1>19, <1>0, RowFields, ControlPlaneAssumption, NoneIsNoRequest, RequestFields,
     RequestMoves, RowCleared
     DEF At, Here, Own, Removing, Done, Answer, store, provider, Settle, Steps,
         CPInv, ControlPlaneTypeOK, NoDanglingRecord, ProvisionInv, RemovalInv
<1>20. ASSUME Discount
      PROVE  NoDanglingRecord'
  BY <1>20, <1>0, RowFields, ControlPlaneAssumption, NoneIsNoRequest, RequestFields,
     RequestMoves
     DEF At, Here, Own, Removing, Done, Answer, store, provider, Discount, Steps,
         CPInv, ControlPlaneTypeOK, NoDanglingRecord, ProvisionInv, RemovalInv
<1>21. ASSUME Remint
      PROVE  NoDanglingRecord'
  BY <1>21, <1>0, RowFields, ControlPlaneAssumption, NoneIsNoRequest, RequestFields,
     RequestMoves, RowEnrolled
     DEF At, Here, Own, Removing, Done, Answer, store, provider, Remint, Admits,
         CPInv, ControlPlaneTypeOK, NoDanglingRecord, ProvisionInv, RemovalInv
<1>22. ASSUME Fails
      PROVE  NoDanglingRecord'
  BY <1>22, <1>0, RowFields, ControlPlaneAssumption, NoneIsNoRequest
     DEF Done, Idle, store, provider, Fails, CPInv, ControlPlaneTypeOK,
         NoDanglingRecord, ProvisionInv, RemovalInv
<1>23. ASSUME Evict
      PROVE  NoDanglingRecord'
  BY <1>23, <1>0, RowFields, ControlPlaneAssumption, NoneIsNoRequest
     DEF Done, Idle, store, provider, Evict, CPInv, ControlPlaneTypeOK,
         NoDanglingRecord, ProvisionInv, RemovalInv
<1>24. CASE UNCHANGED cpVars
  BY <1>24, <1>0, RowFields, ControlPlaneAssumption, NoneIsNoRequest
     DEF cpVars, store, provider, CPInv, ControlPlaneTypeOK, NoDanglingRecord,
         ProvisionInv, RemovalInv
<1>25. QED
  BY <1>1, <1>2, <1>3, <1>4, <1>5, <1>6, <1>7, <1>8, <1>9, <1>10, <1>11, <1>12, <1>13,
     <1>14, <1>15, <1>16, <1>17, <1>18, <1>19, <1>20, <1>21, <1>22, <1>23, <1>24,
     NextCases
     DEF RequestStep

-----------------------------------------------------------------------------
(* Counting the members.                                                    *)

\* The members can be counted, and one more or one less changes the count by one.
LEMMA MembersCount ==
  /\ IsFiniteSet(Members) /\ Cardinality(Members) \in Nat
  /\ \A i \in Ids \ Members : Cardinality(Members \cup {i}) = Cardinality(Members) + 1
  /\ \A i \in Members : Cardinality(Members \ {i}) = Cardinality(Members) - 1
<1>1. IsFiniteSet(Members)
  BY ControlPlaneAssumption, FS_Subset DEF Members
<1>2. QED
  BY <1>1, FS_CardinalityType, FS_AddElement, FS_RemoveElement

\* A step that changes one row makes its installation a member or not.
LEMMA OneRow ==
  ASSUME NEW i \in Ids, \A j \in Ids \ {i} : inst'[j] = inst[j]
  PROVE  Members' = IF inst'[i].known /\ ~inst'[i].revoked THEN Members \cup {i}
                                                           ELSE Members \ {i}
BY DEF Members

\* A step that keeps who is known and who is revoked keeps the members.
LEMMA SameMembers ==
  ASSUME \A i \in Ids : inst'[i].known = inst[i].known /\ inst'[i].revoked = inst[i].revoked
  PROVE  Members' = Members
BY DEF Members

\* Whoever is let in is counted.
LEMMA JoinCounts ==
  ASSUME CPInv, Admits, NEW i \in Ids \ Members,
         \A j \in Ids \ {i} : inst'[j] = inst[j],
         inst'[i].known, ~inst'[i].revoked, active' = active + 1, req' = None
  PROVE  CountInv'
<1>1. Members' = Members \cup {i}
  BY OneRow
<1>2. Cardinality(Members') = Cardinality(Members) + 1
  BY <1>1, MembersCount
<1>3. active \in Nat /\ Limit \in Nat /\ active < Limit /\ Cardinality(Members) <= active
  BY ControlPlaneAssumption DEF CPInv, ControlPlaneTypeOK, CountInv, Admits
<1>4. active + 1 <= Limit /\ Cardinality(Members) + 1 <= active + 1
  BY <1>3, MembersCount
<1>5. QED
  BY <1>2, <1>4 DEF CountInv

\* A step that keeps the members and the count keeps the ceiling, unless the request
\* has become one that still has to count.
LEMMA KeepsCount ==
  ASSUME CPInv, Members' = Members, active' = active,
         \/ req' = None
         \/ ~req'.counted
         \/ req # None /\ req.counted /\ req.pc # "remint"
  PROVE  CountInv'
BY DEF CPInv, CountInv

\* A step keeps the count at or above the members, and within the ceiling.
LEMMA CountStep == ASSUME CPInv, [CPNext]_cpVars
                 PROVE  CountInv'
<1>0. CPInv /\ ControlPlaneTypeOK
  BY DEF CPInv
<1>1. ASSUME NEW n \in Nonces, EnrollNew(n)
      PROVE  CountInv'
  <2>1. PICK i \in Ids : ~inst[i].known /\ inst' = [inst EXCEPT ![i] = Enrolled]
    BY <1>1 DEF EnrollNew
  <2>2. /\ inst'[i].known /\ ~inst'[i].revoked /\ i \notin Members
        /\ \A j \in Ids \ {i} : inst'[j] = inst[j]
    BY <1>0, <2>1, RowEnrolled DEF ControlPlaneTypeOK, Members
  <2>3. QED
    BY <1>1, <1>0, <2>2, JoinCounts DEF EnrollNew, Idle, Done
<1>2. ASSUME NEW n \in Nonces, EnrollReplay(n)
      PROVE  CountInv'
  <2>1. /\ enrolled[n] \in Ids /\ inst[enrolled[n]].known /\ inst[enrolled[n]].revoked
        /\ inst' = [inst EXCEPT ![enrolled[n]] = Restored(inst[enrolled[n]])]
    BY <1>2, <1>0, RowUnknown DEF EnrollReplay, LetBackIn, CPInv, UnknownInv, ControlPlaneTypeOK
  <2>2. inst[enrolled[n]] \in Installation
    BY <1>0, <2>1 DEF ControlPlaneTypeOK
  <2>3. /\ inst'[enrolled[n]].known /\ ~inst'[enrolled[n]].revoked /\ enrolled[n] \notin Members
        /\ \A j \in Ids \ {enrolled[n]} : inst'[j] = inst[j]
    BY <1>0, <2>1, <2>2, RowRestored DEF ControlPlaneTypeOK, Members
  <2>4. QED
    BY <1>2, <1>0, <2>1, <2>3, JoinCounts DEF EnrollReplay, LetBackIn, Idle
<1>3. ASSUME NEW i \in Ids, Reactivate(i)
      PROVE  CountInv'
  <2>1. /\ i \in Ids /\ inst[i].known /\ inst[i].revoked
        /\ inst' = [inst EXCEPT ![i] = Restored(inst[i])]
    BY <1>3, <1>0, RowUnknown DEF Reactivate, LetBackIn, CPInv, UnknownInv, ControlPlaneTypeOK
  <2>2. inst[i] \in Installation
    BY <1>0, <2>1 DEF ControlPlaneTypeOK
  <2>3. /\ inst'[i].known /\ ~inst'[i].revoked /\ i \notin Members
        /\ \A j \in Ids \ {i} : inst'[j] = inst[j]
    BY <1>0, <2>1, <2>2, RowRestored DEF ControlPlaneTypeOK, Members
  <2>4. QED
    BY <1>3, <1>0, <2>1, <2>3, JoinCounts DEF Reactivate, LetBackIn, Idle
<1>4. ASSUME NEW i \in Ids, NEW op \in Ops, NEW b \in BOOLEAN, Removal(op, i, b)
      PROVE  CountInv'
  <2>0. /\ inst[i].known /\ inst'[i].known /\ inst'[i].revoked = (inst[i].revoked \/ b)
        /\ \A j \in Ids \ {i} : inst'[j] = inst[j]
        /\ req'.counted = (b /\ ~inst[i].revoked)
        /\ active' = active
    BY <1>4, <1>0, RemovalStarts DEF Removal
  <2>1. CASE b /\ ~inst[i].revoked
    <3>1. Members' = Members \ {i} /\ i \in Members
      BY <2>0, <2>1, OneRow DEF Members
    <3>2. Cardinality(Members') = Cardinality(Members) - 1
      BY <3>1, MembersCount
    <3>3. Cardinality(Members) <= active /\ active <= Limit
      BY <1>0 DEF CPInv, CountInv
    <3>4. Cardinality(Members) - 1 <= active /\ Cardinality(Members) - 1 + 1 <= active
      BY <1>0, <3>3, MembersCount DEF ControlPlaneTypeOK
    <3>5. QED
      BY <2>0, <3>2, <3>3, <3>4 DEF CountInv
  <2>2. CASE ~(b /\ ~inst[i].revoked)
    <3>1. Members' = Members
      BY <2>0, <2>2, OneRow DEF Members
    <3>2. QED
      BY <1>0, <2>0, <2>2, <3>1, KeepsCount
  <2>3. QED
    BY <2>1, <2>2
<1>5. ASSUME NEW i \in Ids, ReconcileOn(i)
      PROVE  CountInv'
  BY <1>5, <1>0, RowFields, ControlPlaneAssumption, NoneIsNoRequest, RequestBegins
     DEF Done, Idle, store, provider, ReconcileOn, Wanted, Authorized, Ops, CPInv,
         CountInv, Members
<1>6. ASSUME NEW i \in Ids, CacheExpires(i)
      PROVE  CountInv'
  <2>1. inst[i] \in Installation /\ inst' = [inst EXCEPT ![i] = Unconfirmed(inst[i])]
    BY <1>6, <1>0, RequestFields DEF CacheExpires, ControlPlaneTypeOK
  <2>2. Members' = Members
    BY <1>0, <2>1, RowUnconfirmed, SameMembers DEF ControlPlaneTypeOK
  <2>3. QED
    BY <1>6, <1>0, <2>2, KeepsCount DEF CacheExpires, CPInv, CountInv
<1>7. ASSUME NEW i \in Ids, ForeignRecord(i)
      PROVE  CountInv'
  BY <1>7, <1>0, RowFields, ControlPlaneAssumption, NoneIsNoRequest
     DEF Done, Idle, store, provider, ForeignRecord, CPInv, CountInv, Members
<1>8. ASSUME NEW i \in Ids, NEW g \in Gens, Provision(i, g)
      PROVE  CountInv'
  <2>1. Members' = Members
    BY <1>8, <1>0, ProvisionStarts, SameMembers
  <2>2. ~req'.counted /\ active' = active
    BY <1>8, <1>0, ProvisionStarts DEF Provision
  <2>3. QED
    BY <1>0, <2>1, <2>2, KeepsCount
<1>9. ASSUME NEW i \in Ids, NEW g \in Gens, Connect(i, g)
      PROVE  CountInv'
  BY <1>9, <1>0, RowFields, ControlPlaneAssumption, NoneIsNoRequest
     DEF Done, Idle, store, provider, Connect, CPInv, CountInv, Members
<1>10. ASSUME NEW i \in Ids, NEW g \in Gens, Disconnect(i, g)
      PROVE  CountInv'
  BY <1>10, <1>0, RowFields, ControlPlaneAssumption, NoneIsNoRequest
     DEF Done, Idle, store, provider, Disconnect, CPInv, CountInv, Members
<1>11. ASSUME Look
      PROVE  CountInv'
  BY <1>11, <1>0, RowFields, ControlPlaneAssumption, NoneIsNoRequest, RequestFields,
     RequestMoves
     DEF At, Here, Own, Removing, Done, Answer, store, provider, Look, Stale, Owned,
         Steps, CPInv, CountInv, Members
<1>12. ASSUME DeleteRecord
      PROVE  CountInv'
  BY <1>12, <1>0, RowFields, ControlPlaneAssumption, NoneIsNoRequest, RequestFields,
     RequestMoves
     DEF At, Here, Own, Removing, Done, Answer, store, provider, DeleteRecord,
         Steps, CPInv, CountInv, Members
<1>13. ASSUME Unroute
      PROVE  CountInv'
  BY <1>13, <1>0, RowFields, ControlPlaneAssumption, NoneIsNoRequest, RequestFields,
     RequestMoves
     DEF At, Here, Own, Removing, Done, Answer, store, provider, Unroute, Steps,
         CPInv, CountInv, Members
<1>14. ASSUME DropTunnel
      PROVE  CountInv'
  BY <1>14, <1>0, RowFields, ControlPlaneAssumption, NoneIsNoRequest, RequestFields,
     RequestMoves
     DEF At, Here, Own, Removing, Done, Answer, store, provider, DropTunnel, Steps,
         CPInv, CountInv, Members
<1>15. ASSUME CreateTunnel
      PROVE  CountInv'
  BY <1>15, <1>0, RowFields, ControlPlaneAssumption, NoneIsNoRequest, RequestFields,
     RequestMoves
     DEF At, Here, Own, Removing, Done, Answer, store, provider, CreateTunnel,
         Steps, CPInv, CountInv, Members
<1>16. ASSUME Configure
      PROVE  CountInv'
  BY <1>16, <1>0, RowFields, ControlPlaneAssumption, NoneIsNoRequest, RequestFields,
     RequestMoves
     DEF At, Here, Own, Removing, Done, Answer, store, provider, Configure, Steps,
         CPInv, CountInv, Members
<1>17. ASSUME CreateRecord
      PROVE  CountInv'
  BY <1>17, <1>0, RowFields, ControlPlaneAssumption, NoneIsNoRequest, RequestFields,
     RequestMoves
     DEF At, Here, Own, Removing, Done, Answer, store, provider, CreateRecord,
         Steps, CPInv, CountInv, Members
<1>18. ASSUME Confirm
      PROVE  CountInv'
  <2>1. inst[req.id] \in Installation /\ inst' = [inst EXCEPT ![req.id] = Provisioned(inst[req.id])]
    BY <1>18, <1>0, RequestFields DEF Confirm, At, Here, ControlPlaneTypeOK
  <2>2. Members' = Members
    BY <1>0, <2>1, RowProvisioned, SameMembers DEF ControlPlaneTypeOK
  <2>3. QED
    BY <1>18, <1>0, <2>2, KeepsCount DEF Confirm, Done
<1>19. ASSUME Settle
      PROVE  CountInv'
  <2>1. inst[req.id] \in Installation /\ inst' = [inst EXCEPT ![req.id] = Cleared(inst[req.id])]
    BY <1>19, <1>0, RequestFields DEF Settle, At, Here, ControlPlaneTypeOK
  <2>2. Members' = Members
    BY <1>0, <2>1, RowCleared, SameMembers DEF ControlPlaneTypeOK
  <2>3. QED
    BY <1>19, <1>0, <2>2, KeepsCount, RequestFields DEF Settle, Done, Goto, At, Request
<1>20. ASSUME Discount
      PROVE  CountInv'
  <2>1. /\ Cardinality(Members) + 1 <= active /\ active <= Limit
        /\ Members' = Members
    BY <1>20, <1>0 DEF Discount, At, CPInv, CountInv, RemovalInv, ProvisionInv, Members
  <2>2. active' = active - 1
    BY <1>20, <1>0, <2>1, MembersCount DEF Discount, ControlPlaneTypeOK
  <2>3. Cardinality(Members) <= active - 1 /\ active - 1 <= Limit
    BY <1>0, <2>1, MembersCount, ControlPlaneAssumption DEF ControlPlaneTypeOK
  <2>4. req' = None \/ req'.pc = "remint"
    BY <1>20, <1>0, RequestFields DEF Discount, At, Done, Goto, Request
  <2>5. QED
    BY <2>1, <2>2, <2>3, <2>4 DEF CountInv
<1>21. ASSUME Remint
      PROVE  CountInv'
  <2>1. PICK i \in Ids : ~inst[i].known /\ inst' = [inst EXCEPT ![i] = Enrolled]
    BY <1>21 DEF Remint
  <2>2. /\ inst'[i].known /\ ~inst'[i].revoked /\ i \notin Members
        /\ \A j \in Ids \ {i} : inst'[j] = inst[j]
    BY <1>0, <2>1, RowEnrolled DEF ControlPlaneTypeOK, Members
  <2>3. QED
    BY <1>21, <1>0, <2>2, JoinCounts DEF Remint, Idle, Done
<1>22. ASSUME Fails
      PROVE  CountInv'
  BY <1>22, <1>0, RowFields, ControlPlaneAssumption, NoneIsNoRequest
     DEF Done, Idle, store, provider, Fails, CPInv, CountInv, Members
<1>23. ASSUME Evict
      PROVE  CountInv'
  BY <1>23, <1>0, RowFields, ControlPlaneAssumption, NoneIsNoRequest
     DEF Done, Idle, store, provider, Evict, CPInv, CountInv, Members
<1>24. CASE UNCHANGED cpVars
  BY <1>24, <1>0, RowFields, ControlPlaneAssumption, NoneIsNoRequest
     DEF cpVars, store, provider, CPInv, CountInv, Members
<1>25. QED
  BY <1>1, <1>2, <1>3, <1>4, <1>5, <1>6, <1>7, <1>8, <1>9, <1>10, <1>11, <1>12, <1>13,
     <1>14, <1>15, <1>16, <1>17, <1>18, <1>19, <1>20, <1>21, <1>22, <1>23, <1>24,
     NextCases
     DEF RequestStep

-----------------------------------------------------------------------------
(* The theorems.                                                            *)

\* The inductive invariant holds of a registry that nobody has enrolled with.
LEMMA InvInit == CPInit => CPInv
<1>1. SUFFICES ASSUME CPInit PROVE CPInv
  OBVIOUS
<1>2. ControlPlaneTypeOK
  BY <1>1, RowUnknown DEF CPInit, ControlPlaneTypeOK
<1>3. Members = {}
  BY <1>1, RowUnknown DEF CPInit, Members
<1>4. CountInv
  BY <1>1, <1>3, FS_EmptySet, ControlPlaneAssumption DEF CPInit, CountInv
<1>5. ProvisionInv /\ RemovalInv
  BY <1>1 DEF CPInit, ProvisionInv, RemovalInv
<1>6. UnknownInv /\ RevokedInv
  BY <1>1, RowUnknown DEF CPInit, UnknownInv, RevokedInv
<1>7. NoStrayTunnel /\ NoDanglingRecord
  BY <1>1, ControlPlaneAssumption DEF CPInit, NoStrayTunnel, NoDanglingRecord
<1>8. QED
  BY <1>2, <1>4, <1>5, <1>6, <1>7 DEF CPInv

\* Every step keeps it.
LEMMA InvStep == CPInv /\ [CPNext]_cpVars => CPInv'
BY TypeStep, ProvisionStep, RemovalStep, CountStep, UnknownStep, RevokedStep, StrayStep,
   DanglingStep DEF CPInv

\* The inductive invariant holds of every state the registry reaches.
THEOREM RegistryInvariant == CPSpec => []CPInv
BY InvInit, InvStep, PTL DEF CPSpec

\* Every variable keeps its type, whatever fails, is retried or is evicted (index.ts:1377).
THEOREM RegistryTypes == CPSpec => []ControlPlaneTypeOK
<1>1. CPInv => ControlPlaneTypeOK
  BY DEF CPInv
<1>2. QED
  BY <1>1, RegistryInvariant, PTL

\* For every number of installations and every ceiling: the count that enrollment is
\* checked against never falls below the installations let in and never rises above the
\* ceiling, no tunnel is left that storage does not know of, and no record points at a
\* tunnel that is not routed (index.ts:1394, 1447).
THEOREM RegistryIsSound == CPSpec => []FleetIsSound
<1>1. CPInv => FleetIsSound
  BY DEF CPInv, CountInv, FleetIsSound, CeilingHolds
<1>2. QED
  BY <1>1, RegistryInvariant, PTL

-----------------------------------------------------------------------------
(* A finished removal.                                                      *)

\* What a step that saves an installation as disabled has found at the provider.
EndsClean ==
    \A i \in Ids :
       /\ inst[i].phase = "revoking" /\ inst[i].gen # None
       /\ inst'[i].phase = "disabled" /\ inst'[i].cred = inst[i].cred
       => inst[i].gen \notin tunnels[i] /\ dns[i] \notin Gens

\* Only the end of a removal that found nothing left saves its installation so.
LEMMA CleanStep == ASSUME CPInv, [CPNext]_cpVars
                   PROVE  EndsClean
<1>0. CPInv /\ ControlPlaneTypeOK
  BY DEF CPInv
<1>1. ASSUME NEW n \in Nonces, EnrollNew(n)
      PROVE  EndsClean
  BY <1>1, <1>0, RowFields, ControlPlaneAssumption, NoneIsNoRequest, RowEnrolled,
     RowUnknown
     DEF Done, Idle, store, provider, EnrollNew, Admits, EndsClean,
         ControlPlaneTypeOK, CPInv, UnknownInv
<1>2. ASSUME NEW n \in Nonces, EnrollReplay(n)
      PROVE  EndsClean
  BY <1>2, <1>0, RowFields, ControlPlaneAssumption, NoneIsNoRequest, RowRestored
     DEF Done, Idle, store, provider, EnrollReplay, LetBackIn, Admits, EndsClean,
         ControlPlaneTypeOK
<1>3. ASSUME NEW i \in Ids, Reactivate(i)
      PROVE  EndsClean
  BY <1>3, <1>0, RowFields, ControlPlaneAssumption, NoneIsNoRequest, RowRestored
     DEF Done, Idle, store, provider, Reactivate, LetBackIn, Admits, EndsClean,
         ControlPlaneTypeOK
<1>4. ASSUME NEW i \in Ids, NEW op \in Ops, NEW b \in BOOLEAN, Removal(op, i, b)
      PROVE  EndsClean
  BY <1>4, <1>0, RowFields, ControlPlaneAssumption, NoneIsNoRequest, RemovalStarts
     DEF Idle, Removal, Ops, EndsClean, ControlPlaneTypeOK
<1>5. ASSUME NEW i \in Ids, ReconcileOn(i)
      PROVE  EndsClean
  BY <1>5, <1>0, RowFields, ControlPlaneAssumption, NoneIsNoRequest, RequestBegins
     DEF Done, Idle, store, provider, ReconcileOn, Wanted, Authorized, Ops,
         EndsClean, ControlPlaneTypeOK
<1>6. ASSUME NEW i \in Ids, CacheExpires(i)
      PROVE  EndsClean
  BY <1>6, <1>0, RowFields, ControlPlaneAssumption, NoneIsNoRequest, RowUnconfirmed
     DEF Done, Idle, store, provider, CacheExpires, EndsClean, ControlPlaneTypeOK
<1>7. ASSUME NEW i \in Ids, ForeignRecord(i)
      PROVE  EndsClean
  BY <1>7, <1>0, RowFields, ControlPlaneAssumption, NoneIsNoRequest
     DEF Done, Idle, store, provider, ForeignRecord, EndsClean, ControlPlaneTypeOK
<1>8. ASSUME NEW i \in Ids, NEW g \in Gens, Provision(i, g)
      PROVE  EndsClean
  <2>1. /\ inst[i] \in Installation
        /\ inst' \in [Ids -> Installation]
        /\ inst'[i].known = inst[i].known /\ inst'[i].revoked = inst[i].revoked
        /\ inst'[i].desired /\ inst'[i].gen = g /\ inst'[i].phase = "enabling"
        /\ \A j \in Ids \ {i} : inst'[j] = inst[j]
        /\ req' \in Request /\ req'.op = "provision" /\ req'.id = i /\ req'.pc = "look"
        /\ req'.target = None /\ ~req'.counted
    BY <1>8, <1>0, ProvisionStarts
  <2>2. QED
    BY <1>0, <2>1 DEF EndsClean
<1>9. ASSUME NEW i \in Ids, NEW g \in Gens, Connect(i, g)
      PROVE  EndsClean
  BY <1>9, <1>0, RowFields, ControlPlaneAssumption, NoneIsNoRequest
     DEF Done, Idle, store, provider, Connect, EndsClean, ControlPlaneTypeOK
<1>10. ASSUME NEW i \in Ids, NEW g \in Gens, Disconnect(i, g)
      PROVE  EndsClean
  BY <1>10, <1>0, RowFields, ControlPlaneAssumption, NoneIsNoRequest
     DEF Done, Idle, store, provider, Disconnect, EndsClean, ControlPlaneTypeOK
<1>11. ASSUME Look
      PROVE  EndsClean
  BY <1>11, <1>0, RowFields, ControlPlaneAssumption, NoneIsNoRequest, RequestFields,
     RequestMoves
     DEF At, Here, Own, Removing, Done, Answer, store, provider, Look, Stale, Owned,
         Steps, EndsClean, ControlPlaneTypeOK
<1>12. ASSUME DeleteRecord
      PROVE  EndsClean
  BY <1>12, <1>0, RowFields, ControlPlaneAssumption, NoneIsNoRequest, RequestFields,
     RequestMoves
     DEF At, Here, Own, Removing, Done, Answer, store, provider, DeleteRecord,
         Steps, EndsClean, ControlPlaneTypeOK
<1>13. ASSUME Unroute
      PROVE  EndsClean
  BY <1>13, <1>0, RowFields, ControlPlaneAssumption, NoneIsNoRequest, RequestFields,
     RequestMoves
     DEF At, Here, Own, Removing, Done, Answer, store, provider, Unroute, Steps,
         EndsClean, ControlPlaneTypeOK
<1>14. ASSUME DropTunnel
      PROVE  EndsClean
  BY <1>14, <1>0, RowFields, ControlPlaneAssumption, NoneIsNoRequest, RequestFields,
     RequestMoves
     DEF At, Here, Own, Removing, Done, Answer, store, provider, DropTunnel, Steps,
         EndsClean, ControlPlaneTypeOK
<1>15. ASSUME CreateTunnel
      PROVE  EndsClean
  BY <1>15, <1>0, RowFields, ControlPlaneAssumption, NoneIsNoRequest, RequestFields,
     RequestMoves
     DEF At, Here, Own, Removing, Done, Answer, store, provider, CreateTunnel,
         Steps, EndsClean, ControlPlaneTypeOK
<1>16. ASSUME Configure
      PROVE  EndsClean
  BY <1>16, <1>0, RowFields, ControlPlaneAssumption, NoneIsNoRequest, RequestFields,
     RequestMoves
     DEF At, Here, Own, Removing, Done, Answer, store, provider, Configure, Steps,
         EndsClean, ControlPlaneTypeOK
<1>17. ASSUME CreateRecord
      PROVE  EndsClean
  BY <1>17, <1>0, RowFields, ControlPlaneAssumption, NoneIsNoRequest, RequestFields,
     RequestMoves
     DEF At, Here, Own, Removing, Done, Answer, store, provider, CreateRecord,
         Steps, EndsClean, ControlPlaneTypeOK
<1>18. ASSUME Confirm
      PROVE  EndsClean
  BY <1>18, <1>0, RowFields, ControlPlaneAssumption, NoneIsNoRequest, RequestFields,
     RequestMoves, RowProvisioned
     DEF At, Here, Own, Removing, Done, Answer, store, provider, Confirm, Owned,
         EndsClean, ControlPlaneTypeOK
<1>19. ASSUME Settle
      PROVE  EndsClean
  BY <1>19, <1>0, RowFields, ControlPlaneAssumption, NoneIsNoRequest, RequestFields,
     RequestMoves, RowCleared
     DEF At, Here, Own, Removing, Done, Answer, store, provider, Settle, Steps,
         EndsClean, ControlPlaneTypeOK, CPInv, ProvisionInv, RemovalInv
<1>20. ASSUME Discount
      PROVE  EndsClean
  BY <1>20, <1>0, RowFields, ControlPlaneAssumption, NoneIsNoRequest, RequestFields,
     RequestMoves
     DEF At, Here, Own, Removing, Done, Answer, store, provider, Discount, Steps,
         EndsClean, ControlPlaneTypeOK
<1>21. ASSUME Remint
      PROVE  EndsClean
  BY <1>21, <1>0, RowFields, ControlPlaneAssumption, NoneIsNoRequest, RequestFields,
     RequestMoves, RowEnrolled, RowUnknown
     DEF At, Here, Own, Removing, Done, Answer, store, provider, Remint, Admits,
         EndsClean, ControlPlaneTypeOK, CPInv, UnknownInv
<1>22. ASSUME Fails
      PROVE  EndsClean
  BY <1>22, <1>0, RowFields, ControlPlaneAssumption, NoneIsNoRequest
     DEF Done, Idle, store, provider, Fails, EndsClean, ControlPlaneTypeOK
<1>23. ASSUME Evict
      PROVE  EndsClean
  BY <1>23, <1>0, RowFields, ControlPlaneAssumption, NoneIsNoRequest
     DEF Done, Idle, store, provider, Evict, EndsClean, ControlPlaneTypeOK
<1>24. CASE UNCHANGED cpVars
  BY <1>24, <1>0, RowFields, ControlPlaneAssumption, NoneIsNoRequest
     DEF cpVars, store, provider, EndsClean, ControlPlaneTypeOK
<1>25. QED
  BY <1>1, <1>2, <1>3, <1>4, <1>5, <1>6, <1>7, <1>8, <1>9, <1>10, <1>11, <1>12, <1>13,
     <1>14, <1>15, <1>16, <1>17, <1>18, <1>19, <1>20, <1>21, <1>22, <1>23, <1>24,
     NextCases
     DEF RequestStep

\* A removal that is saved as disabled left neither a tunnel of its generation nor a
\* record, whatever it was interrupted by on the way (index.ts:1500-1520).
THEOREM RemovalsEndClean == CPSpec => FinishedRemovalIsClean
<1>1. CPInv /\ [CPNext]_cpVars => [EndsClean]_cpVars
  BY CleanStep
<1>2. QED
  BY <1>1, RegistryInvariant, PTL DEF CPSpec, FinishedRemovalIsClean, EndsClean

-----------------------------------------------------------------------------
(* The refinement of RemoteAccess.                                          *)

\* What the promise calls wanted and open.
Desired == {i \in Members : inst[i].desired}
Routes  == {i \in Ids : dns[i] \in Gens}

\* A step that changes one row and no record.
LEMMA RowMaps ==
  ASSUME NEW i \in Ids, \A j \in Ids \ {i} : inst'[j] = inst[j], dns' = dns
  PROVE  /\ Desired' = IF inst'[i].known /\ ~inst'[i].revoked /\ inst'[i].desired
                       THEN Desired \cup {i} ELSE Desired \ {i}
         /\ Routes' = Routes
BY DEF Desired, Routes, Members

\* A step that keeps who is a member and wants a route, and keeps the records.
LEMMA StutterMaps ==
  ASSUME \A i \in Ids : /\ inst'[i].known = inst[i].known
                        /\ inst'[i].revoked = inst[i].revoked
                        /\ inst'[i].desired = inst[i].desired
                        /\ (dns'[i] \in Gens) = (dns[i] \in Gens)
  PROVE  UNCHANGED Promise!raVars
<1>1. Members' = Members
  BY SameMembers
<1>2. Desired' = Desired
  BY <1>1 DEF Desired, Members
<1>3. Routes' = Routes
  BY DEF Routes
<1>4. QED
  BY <1>1, <1>2, <1>3 DEF Promise!raVars, Desired, Routes

\* Letting in is joining.
LEMMA JoinMaps ==
  ASSUME CPInv, Admits, NEW i \in Ids \ Members,
         \A j \in Ids \ {i} : inst'[j] = inst[j],
         inst'[i].known, ~inst'[i].revoked, ~inst'[i].desired, dns' = dns
  PROVE  Promise!Join(i)
<1>1. Members' = Members \cup {i}
  BY OneRow
<1>2. Desired' = Desired /\ Routes' = Routes
  BY RowMaps DEF Desired
<1>3. Cardinality(Members) < Limit
  BY MembersCount, ControlPlaneAssumption
     DEF CPInv, CountInv, Admits, ControlPlaneTypeOK
<1>4. Promise!Cardinality(Members) = Cardinality(Members)
  BY DEF Promise!Cardinality, Cardinality
<1>5. QED
  BY <1>1, <1>2, <1>3, <1>4 DEF Promise!Join, Desired, Routes

\* A step of the registry is a step of what it promises, or none.
LEMMA PromiseStep == ASSUME CPInv, [CPNext]_cpVars
                     PROVE  [Promise!RANext]_(Promise!raVars)
<1>0. CPInv /\ ControlPlaneTypeOK
  BY DEF CPInv
<1>1. ASSUME NEW n \in Nonces, EnrollNew(n)
      PROVE  [Promise!RANext]_(Promise!raVars)
  <2>1. PICK i \in Ids : ~inst[i].known /\ inst' = [inst EXCEPT ![i] = Enrolled]
    BY <1>1 DEF EnrollNew
  <2>2. /\ inst'[i].known /\ ~inst'[i].revoked /\ ~inst'[i].desired
        /\ i \notin Members
        /\ \A j \in Ids \ {i} : inst'[j] = inst[j]
    BY <1>0, <2>1, RowEnrolled DEF ControlPlaneTypeOK, Members
  <2>3. Promise!Join(i) /\ i \in Ids
    BY <1>1, <1>0, <2>1, <2>2, JoinMaps DEF EnrollNew, provider
  <2>4. QED
    BY <2>3 DEF Promise!RANext
<1>2. ASSUME NEW n \in Nonces, EnrollReplay(n)
      PROVE  [Promise!RANext]_(Promise!raVars)
  <2>1. /\ enrolled[n] \in Ids /\ inst[enrolled[n]].known /\ inst[enrolled[n]].revoked
        /\ inst' = [inst EXCEPT ![enrolled[n]] = Restored(inst[enrolled[n]])]
    BY <1>2, <1>0, RowUnknown DEF EnrollReplay, LetBackIn, CPInv, UnknownInv, ControlPlaneTypeOK
  <2>2. inst[enrolled[n]] \in Installation
    BY <1>0, <2>1 DEF ControlPlaneTypeOK
  <2>3. /\ inst'[enrolled[n]].known /\ ~inst'[enrolled[n]].revoked /\ ~inst'[enrolled[n]].desired
        /\ enrolled[n] \notin Members
        /\ \A j \in Ids \ {enrolled[n]} : inst'[j] = inst[j]
    BY <1>0, <2>1, <2>2, RowRestored DEF ControlPlaneTypeOK, Members
  <2>4. Promise!Join(enrolled[n]) /\ enrolled[n] \in Ids
    BY <1>2, <1>0, <2>1, <2>3, JoinMaps DEF EnrollReplay, provider, LetBackIn
  <2>5. QED
    BY <2>4 DEF Promise!RANext
<1>3. ASSUME NEW i \in Ids, Reactivate(i)
      PROVE  [Promise!RANext]_(Promise!raVars)
  <2>1. /\ i \in Ids /\ inst[i].known /\ inst[i].revoked
        /\ inst' = [inst EXCEPT ![i] = Restored(inst[i])]
    BY <1>3, <1>0, RowUnknown DEF Reactivate, LetBackIn, CPInv, UnknownInv, ControlPlaneTypeOK
  <2>2. inst[i] \in Installation
    BY <1>0, <2>1 DEF ControlPlaneTypeOK
  <2>3. /\ inst'[i].known /\ ~inst'[i].revoked /\ ~inst'[i].desired
        /\ i \notin Members
        /\ \A j \in Ids \ {i} : inst'[j] = inst[j]
    BY <1>0, <2>1, <2>2, RowRestored DEF ControlPlaneTypeOK, Members
  <2>4. Promise!Join(i) /\ i \in Ids
    BY <1>3, <1>0, <2>1, <2>3, JoinMaps DEF Reactivate, provider, LetBackIn
  <2>5. QED
    BY <2>4 DEF Promise!RANext
<1>4. ASSUME NEW i \in Ids, NEW op \in Ops, NEW b \in BOOLEAN, Removal(op, i, b)
      PROVE  [Promise!RANext]_(Promise!raVars)
  <2>1. /\ inst[i].known /\ inst'[i].known /\ inst'[i].revoked = (inst[i].revoked \/ b)
        /\ ~inst'[i].desired
        /\ \A j \in Ids \ {i} : inst'[j] = inst[j]
        /\ dns' = dns
    BY <1>4, <1>0, RemovalStarts DEF Removal
  <2>2. Desired' = Desired \ {i} /\ Routes' = Routes
    BY <2>1, RowMaps
  <2>3. CASE inst[i].revoked
    <3>1. Members' = Members /\ i \notin Members
      BY <2>1, <2>3, OneRow DEF Members
    <3>2. Desired' = Desired
      BY <2>2, <3>1 DEF Desired
    <3>3. QED
      BY <2>2, <3>1, <3>2 DEF Promise!raVars, Desired, Routes
  <2>4. CASE ~inst[i].revoked /\ b
    <3>1. Members' = Members \ {i} /\ i \in Members
      BY <2>1, <2>4, OneRow DEF Members
    <3>2. Promise!Leave(i)
      BY <2>2, <3>1 DEF Promise!Leave, Desired, Routes
    <3>3. QED
      BY <3>2 DEF Promise!RANext
  <2>5. CASE ~inst[i].revoked /\ ~b
    <3>1. Members' = Members /\ i \in Members
      BY <2>1, <2>5, OneRow DEF Members
    <3>2. Promise!SwitchOff(i)
      BY <2>2, <3>1 DEF Promise!SwitchOff, Desired, Routes
    <3>3. QED
      BY <3>2 DEF Promise!RANext
  <2>6. QED
    BY <2>3, <2>4, <2>5
<1>5. ASSUME NEW i \in Ids, ReconcileOn(i)
      PROVE  [Promise!RANext]_(Promise!raVars)
  BY <1>5, <1>0, StutterMaps, RequestBegins
     DEF Done, Idle, store, provider, ReconcileOn, Wanted, Authorized, Ops,
         ControlPlaneTypeOK
<1>6. ASSUME NEW i \in Ids, CacheExpires(i)
      PROVE  [Promise!RANext]_(Promise!raVars)
  <2>1. inst[i] \in Installation /\ inst' = [inst EXCEPT ![i] = Unconfirmed(inst[i])]
    BY <1>6, <1>0, RequestFields DEF CacheExpires, ControlPlaneTypeOK
  <2>2. \A j \in Ids : /\ inst'[j].known = inst[j].known /\ inst'[j].revoked = inst[j].revoked
                       /\ inst'[j].desired = inst[j].desired
    BY <1>0, <2>1, RowUnconfirmed DEF ControlPlaneTypeOK
  <2>3. QED
    BY <1>6, <2>2, StutterMaps DEF CacheExpires, provider
<1>7. ASSUME NEW i \in Ids, ForeignRecord(i)
      PROVE  [Promise!RANext]_(Promise!raVars)
  BY <1>7, <1>0, StutterMaps, ControlPlaneAssumption
     DEF Done, Idle, store, provider, ForeignRecord, ControlPlaneTypeOK
<1>8. ASSUME NEW i \in Ids, NEW g \in Gens, Provision(i, g)
      PROVE  [Promise!RANext]_(Promise!raVars)
  <2>1. /\ inst[i] \in Installation
        /\ inst' \in [Ids -> Installation]
        /\ inst'[i].known = inst[i].known /\ inst'[i].revoked = inst[i].revoked
        /\ inst'[i].desired /\ inst'[i].gen = g /\ inst'[i].phase = "enabling"
        /\ \A j \in Ids \ {i} : inst'[j] = inst[j]
        /\ req' \in Request /\ req'.op = "provision" /\ req'.id = i /\ req'.pc = "look"
        /\ req'.target = None /\ ~req'.counted
    BY <1>8, <1>0, ProvisionStarts
  <2>2. inst[i].known /\ ~inst[i].revoked /\ dns' = dns
    BY <1>8 DEF Provision, Authorized, provider
  <2>3. Members' = Members /\ i \in Members
    BY <2>1, <2>2, OneRow DEF Members
  <2>4. Desired' = Desired \cup {i} /\ Routes' = Routes
    BY <2>1, <2>2, RowMaps
  <2>5. Promise!SwitchOn(i)
    BY <2>3, <2>4 DEF Promise!SwitchOn, Desired, Routes
  <2>6. QED
    BY <2>5 DEF Promise!RANext
<1>9. ASSUME NEW i \in Ids, NEW g \in Gens, Connect(i, g)
      PROVE  [Promise!RANext]_(Promise!raVars)
  BY <1>9, <1>0, StutterMaps
     DEF Done, Idle, store, provider, Connect, ControlPlaneTypeOK
<1>10. ASSUME NEW i \in Ids, NEW g \in Gens, Disconnect(i, g)
      PROVE  [Promise!RANext]_(Promise!raVars)
  BY <1>10, <1>0, StutterMaps
     DEF Done, Idle, store, provider, Disconnect, ControlPlaneTypeOK
<1>11. ASSUME Look
      PROVE  [Promise!RANext]_(Promise!raVars)
  BY <1>11, <1>0, StutterMaps, RequestFields, RequestMoves
     DEF At, Here, Own, Removing, Done, Answer, store, provider, Look, Stale, Owned,
         Steps, ControlPlaneTypeOK
<1>12. ASSUME DeleteRecord
      PROVE  [Promise!RANext]_(Promise!raVars)
  <2>1. req.id \in Ids /\ dns[req.id] \in Gens
    BY <1>12, <1>0, RequestFields DEF DeleteRecord, At, CPInv, ProvisionInv, RemovalInv
  <2>2. inst' = inst /\ dns' = [dns EXCEPT ![req.id] = None]
    BY <1>12 DEF DeleteRecord, store, Here
  <2>3. Routes' = Routes \ {req.id} /\ req.id \in Routes
    BY <1>0, <2>1, <2>2, ControlPlaneAssumption DEF Routes, ControlPlaneTypeOK
  <2>4. Members' = Members /\ Desired' = Desired
    BY <2>2 DEF Members, Desired
  <2>5. PICK i \in Ids : i = req.id
    BY <2>1
  <2>6. Promise!CloseRoute(i)
    BY <2>3, <2>4, <2>5 DEF Promise!CloseRoute, Desired, Routes
  <2>7. QED
    BY <2>6 DEF Promise!RANext
<1>13. ASSUME Unroute
      PROVE  [Promise!RANext]_(Promise!raVars)
  BY <1>13, <1>0, StutterMaps, RequestFields, RequestMoves
     DEF At, Here, Own, Removing, Done, Answer, store, provider, Unroute, Steps,
         ControlPlaneTypeOK
<1>14. ASSUME DropTunnel
      PROVE  [Promise!RANext]_(Promise!raVars)
  BY <1>14, <1>0, StutterMaps, RequestFields, RequestMoves
     DEF At, Here, Own, Removing, Done, Answer, store, provider, DropTunnel, Steps,
         ControlPlaneTypeOK
<1>15. ASSUME CreateTunnel
      PROVE  [Promise!RANext]_(Promise!raVars)
  BY <1>15, <1>0, StutterMaps, RequestFields, RequestMoves
     DEF At, Here, Own, Removing, Done, Answer, store, provider, CreateTunnel,
         Steps, ControlPlaneTypeOK
<1>16. ASSUME Configure
      PROVE  [Promise!RANext]_(Promise!raVars)
  BY <1>16, <1>0, StutterMaps, RequestFields, RequestMoves
     DEF At, Here, Own, Removing, Done, Answer, store, provider, Configure, Steps,
         ControlPlaneTypeOK
<1>17. ASSUME CreateRecord
      PROVE  [Promise!RANext]_(Promise!raVars)
  <2>1. /\ req.id \in Ids /\ req.id \in Members /\ inst[req.id].desired
        /\ inst[req.id].gen \in Gens
    BY <1>17, <1>0, RequestFields DEF CreateRecord, At, CPInv, ProvisionInv, RemovalInv, Members
  <2>2. inst' = inst /\ dns' = [dns EXCEPT ![req.id] = inst[req.id].gen]
    BY <1>17 DEF CreateRecord, store, Here, Own
  <2>3. Routes' = Routes \cup {req.id}
    BY <1>0, <2>1, <2>2 DEF Routes, ControlPlaneTypeOK
  <2>4. Members' = Members /\ Desired' = Desired
    BY <2>2 DEF Members, Desired
  <2>5. PICK i \in Ids : i = req.id
    BY <2>1
  <2>6. Promise!OpenRoute(i)
    BY <2>1, <2>3, <2>4, <2>5 DEF Promise!OpenRoute, Desired, Routes
  <2>7. QED
    BY <2>6 DEF Promise!RANext
<1>18. ASSUME Confirm
      PROVE  [Promise!RANext]_(Promise!raVars)
  <2>1. inst[req.id] \in Installation /\ inst' = [inst EXCEPT ![req.id] = Provisioned(inst[req.id])]
    BY <1>18, <1>0, RequestFields DEF Confirm, At, Here, ControlPlaneTypeOK
  <2>2. \A j \in Ids : /\ inst'[j].known = inst[j].known /\ inst'[j].revoked = inst[j].revoked
                       /\ inst'[j].desired = inst[j].desired
    BY <1>0, <2>1, RowProvisioned DEF ControlPlaneTypeOK
  <2>3. QED
    BY <1>18, <2>2, StutterMaps DEF Confirm, provider
<1>19. ASSUME Settle
      PROVE  [Promise!RANext]_(Promise!raVars)
  <2>1. inst[req.id] \in Installation /\ inst' = [inst EXCEPT ![req.id] = Cleared(inst[req.id])]
    BY <1>19, <1>0, RequestFields DEF Settle, At, Here, ControlPlaneTypeOK
  <2>2. \A j \in Ids : /\ inst'[j].known = inst[j].known /\ inst'[j].revoked = inst[j].revoked
                       /\ inst'[j].desired = inst[j].desired
    BY <1>0, <2>1, RowCleared DEF ControlPlaneTypeOK
  <2>3. QED
    BY <1>19, <2>2, StutterMaps DEF Settle, provider
<1>20. ASSUME Discount
      PROVE  [Promise!RANext]_(Promise!raVars)
  BY <1>20, <1>0, StutterMaps, RequestFields, RequestMoves
     DEF At, Here, Own, Removing, Done, Answer, store, provider, Discount, Steps,
         ControlPlaneTypeOK
<1>21. ASSUME Remint
      PROVE  [Promise!RANext]_(Promise!raVars)
  <2>1. PICK i \in Ids : ~inst[i].known /\ inst' = [inst EXCEPT ![i] = Enrolled]
    BY <1>21 DEF Remint
  <2>2. /\ inst'[i].known /\ ~inst'[i].revoked /\ ~inst'[i].desired
        /\ i \notin Members
        /\ \A j \in Ids \ {i} : inst'[j] = inst[j]
    BY <1>0, <2>1, RowEnrolled DEF ControlPlaneTypeOK, Members
  <2>3. Promise!Join(i) /\ i \in Ids
    BY <1>21, <1>0, <2>1, <2>2, JoinMaps DEF Remint, provider
  <2>4. QED
    BY <2>3 DEF Promise!RANext
<1>22. ASSUME Fails
      PROVE  [Promise!RANext]_(Promise!raVars)
  BY <1>22, <1>0, StutterMaps
     DEF Done, Idle, store, provider, Fails, ControlPlaneTypeOK
<1>23. ASSUME Evict
      PROVE  [Promise!RANext]_(Promise!raVars)
  BY <1>23, <1>0, StutterMaps
     DEF Done, Idle, store, provider, Evict, ControlPlaneTypeOK
<1>24. CASE UNCHANGED cpVars
  BY <1>24, <1>0, StutterMaps
     DEF cpVars, store, provider, ControlPlaneTypeOK
<1>25. QED
  BY <1>1, <1>2, <1>3, <1>4, <1>5, <1>6, <1>7, <1>8, <1>9, <1>10, <1>11, <1>12, <1>13,
     <1>14, <1>15, <1>16, <1>17, <1>18, <1>19, <1>20, <1>21, <1>22, <1>23, <1>24,
     NextCases
     DEF RequestStep

\* The registry keeps the promise of remote access: no more members than the ceiling, and a
\* route only opened to a member that asked for it (index.ts:1377-1520).
THEOREM KeepsThePromise == CPSpec => ImplementsRemoteAccess
<1>1. CPInit => Promise!RAInit
  <2>1. SUFFICES ASSUME CPInit PROVE Promise!RAInit
    OBVIOUS
  <2>2. Members = {} /\ Desired = {} /\ Routes = {}
    BY <2>1, RowUnknown, ControlPlaneAssumption DEF CPInit, Members, Desired, Routes
  <2>3. QED
    BY <2>2 DEF Promise!RAInit, Desired, Routes
<1>2. CPInv /\ [CPNext]_cpVars => [Promise!RANext]_(Promise!raVars)
  BY PromiseStep
<1>3. QED
  BY <1>1, <1>2, RegistryInvariant, PTL DEF CPSpec, ImplementsRemoteAccess, Promise!RASpec

=============================================================================
