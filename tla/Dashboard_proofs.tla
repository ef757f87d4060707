-------------------------- MODULE Dashboard_proofs --------------------------
(***************************************************************************)
(* What the screens of a browser keep to, whatever is late, lost or        *)
(* pressed twice: the dashboard behind its sign-in, the update of the      *)
(* desktop program, the editor of the lighting cues and the switch of      *)
(* Connection Access.  They share no state.                                *)
(***************************************************************************)
EXTENDS Cockpit, Updater, LightingEditor, AccessSwitch, TLAPS

-----------------------------------------------------------------------------
(* The dashboard and its sign-in (Cockpit): the inductive invariant.        *)

States == [run : Nat, revision : Nat]
HttpRequests ==
    [kind : {"state", "panel", "act", "logout"}, of : Nat,
     answer : {"none", "ok", "401", "denied", "offline"}, state : States]

\* Every variable has its type.
CockpitTypeOK ==
    /\ backend \in [up : BOOLEAN, run : Nat, revision : Nat]
    /\ session \in BOOLEAN /\ taken \in BOOLEAN /\ signedIn \in BOOLEAN /\ generation \in Nat
    /\ login \in {"none", "asked"}
    /\ socket \in {"closed", "connecting", "open", "lost", "refused", "waiting"}
    /\ wire \in Seq(States) /\ requests \subseteq HttpRequests
    /\ shown \in States /\ panel \in {"empty", "answered", "offline"}

\* A sign-in is asked for only where none is in force; a socket that was refused and an
\* answer that says so mean that the session is over or another's, for the sign-in they
\* belong to.
GateInv ==
    /\ login = "asked" => ~signedIn
    /\ socket = "refused" => ~session \/ taken
    /\ \A r \in requests : /\ r.of <= generation
                           /\ r.answer = "401" /\ r.of = generation => ~session \/ taken

CockpitInv == CockpitTypeOK /\ GateInv /\ SignedOutShowsNothing

-----------------------------------------------------------------------------
(* Every step of the page, the network and the backend keeps it.            *)

\* The state of the backend is a state.
LEMMA SnapshotIsState ==
  ASSUME CockpitTypeOK
  PROVE  Snapshot \in States /\ NoSnapshot \in States
BY DEF CockpitTypeOK, Snapshot, NoSnapshot, States

\* A wire that carries nothing.
LEMMA EmptyWire == <<>> \in Seq(States)
OBVIOUS

\* The state that stays on the screen is no older than the one that was there.
LEMMA AppliedIsNewer ==
  ASSUME CockpitTypeOK, NEW s \in States
  PROVE  Applied(s) \in States /\ Applied(s).revision >= shown.revision
BY DEF CockpitTypeOK, States, Applied, NoSnapshot

\* What is sent belongs to the sign-in in force, and waits for its answer.
LEMMA SentRequests ==
  ASSUME CockpitTypeOK, generation' \in Nat,
         NEW kinds \in SUBSET {"state", "panel", "act", "logout"}, Send(kinds)
  PROVE  /\ requests' \subseteq HttpRequests
         /\ \A r \in requests' : r \in requests \/ (r.of = generation' /\ r.answer = "none")
BY SnapshotIsState DEF CockpitTypeOK, Send, Request, HttpRequests

\* The end of a sign-in, whatever brings it: nothing that was shown is shown any more, and
\* no answer that is still to come belongs to the next one.
LEMMA SignInEnds ==
  ASSUME CockpitInv, StopForAuth, UNCHANGED backend, session' \in BOOLEAN,
         requests' \subseteq requests
  PROVE  CockpitInv' /\ ~signedIn'
<1>1. /\ generation \in Nat /\ generation' = generation + 1 /\ requests \subseteq HttpRequests
      /\ \A r \in requests' : r.of \in Nat /\ r.of <= generation
  BY DEF CockpitInv, CockpitTypeOK, GateInv, HttpRequests, StopForAuth
<1>2. CockpitTypeOK'
  <2>1. /\ signedIn' = FALSE /\ taken' = FALSE /\ login' = "none" /\ socket' = "closed" /\ wire' = <<>>
        /\ shown' = NoSnapshot /\ panel' = "empty" /\ NoSnapshot \in States
    BY SnapshotIsState DEF StopForAuth, CockpitInv
  <2>2. wire' \in Seq(States)
    BY <2>1
  <2>3. requests' \subseteq HttpRequests /\ generation' \in Nat
    BY <1>1
  <2>4. QED
    BY <2>1, <2>2, <2>3 DEF CockpitInv, CockpitTypeOK
<1>3. GateInv'
  BY <1>1 DEF GateInv, StopForAuth
<1>4. QED
  BY <1>2, <1>3 DEF CockpitInv, SignedOutShowsNothing, StopForAuth

\* What changes neither the gate nor the session, and only adds questions of this sign-in.
LEMMA GateStays ==
  ASSUME CockpitInv, UNCHANGED <<gateVars, session, taken>>,
         socket' = "refused" => socket = "refused",
         \A r \in requests' : r \in requests \/ (r.of = generation /\ r.answer # "401")
  PROVE  GateInv'
BY DEF CockpitInv, CockpitTypeOK, GateInv, gateVars

\* A reply is the request with its answer.
LEMMA Replied ==
  ASSUME CockpitTypeOK, NEW r \in requests, NEW answer \in {"ok", "401", "denied", "offline"},
         NEW s \in States, Reply(r, answer, s)
  PROVE  /\ requests' \subseteq HttpRequests
         /\ \A q \in requests' : q \in requests \/ (q.of = r.of /\ q.answer = answer)
<1>1. r \in HttpRequests
  BY DEF CockpitTypeOK
<1>2. r = [kind |-> r.kind, of |-> r.of, answer |-> r.answer, state |-> r.state]
  BY <1>1 DEF HttpRequests
<1>3. [r EXCEPT !.answer = answer] =
          [kind |-> r.kind, of |-> r.of, answer |-> answer, state |-> r.state]
  BY <1>2
<1>4. DEFINE q == [r EXCEPT !.answer = answer]
<1>5. q = [kind |-> r.kind, of |-> r.of, answer |-> answer, state |-> r.state]
  BY <1>3
<1>6. HIDE DEF q
<1>7. [q EXCEPT !.state = s] = [kind |-> r.kind, of |-> r.of, answer |-> answer, state |-> s]
  BY <1>5
<1>8. [r EXCEPT !.answer = answer, !.state = s] =
          [kind |-> r.kind, of |-> r.of, answer |-> answer, state |-> s]
  BY <1>7 DEF q
<1>9. QED
  BY <1>1, <1>8 DEF CockpitTypeOK, Reply, HttpRequests

\* The backend changes its state, and tells the socket.
LEMMA Changed ==
  ASSUME CockpitTypeOK, Change
  PROVE  /\ backend' \in [up : BOOLEAN, run : Nat, revision : Nat]
         /\ wire' \in Seq(States) /\ (socket # "open" => wire' = wire)
<1>1. [Snapshot EXCEPT !.revision = @ + 1] = [run |-> backend.run, revision |-> backend.revision + 1]
  BY DEF Snapshot
<1>2. backend.run \in Nat /\ backend.revision \in Nat
  BY DEF CockpitTypeOK
<1>3. [Snapshot EXCEPT !.revision = @ + 1] \in States
  BY <1>1, <1>2 DEF States
<1>4. QED
  BY <1>3 DEF CockpitTypeOK, Change

\* A request is served: refused where there is no session.
LEMMA ServeStep ==
  ASSUME CockpitInv, NEW r \in requests, Serve(r)
  PROVE  CockpitInv'
<1>1. CockpitTypeOK /\ NoSnapshot \in States /\ Snapshot \in States
  BY SnapshotIsState DEF CockpitInv
<1>2. UNCHANGED <<gateVars, shown, panel>>
  BY DEF Serve
<1>3. CASE (~backend.up \/ ~session)
  <2>1. /\ Reply(r, IF backend.up THEN "401" ELSE "offline", NoSnapshot)
        /\ UNCHANGED <<backend, session, taken, socket, wire>>
    BY <1>3 DEF Serve
  <2>2. /\ requests' \subseteq HttpRequests
        /\ \A q \in requests' : q \in requests \/ (q.of = r.of /\ (q.answer = "401" => ~session))
    BY <1>1, <1>3, <2>1, Replied
  <2>3. QED
    BY <1>1, <1>2, <2>1, <2>2
       DEF gateVars, CockpitInv, CockpitTypeOK, GateInv, SignedOutShowsNothing
<1>4. CASE backend.up /\ session
  <2>1. PICK s \in States, answer \in {"ok", "401", "denied"} :
            Reply(r, answer, s) /\ (answer = "401" => taken /\ UNCHANGED taken)
    <3>1. CASE r.kind = "act" /\ Reply(r, "ok", Snapshot')
      <4>1. Change \/ UNCHANGED <<backend, wire>>
        BY <1>4, <3>1 DEF Serve, Change
      <4>2. Snapshot' \in States
        BY <1>1, <4>1, Changed DEF CockpitTypeOK, Snapshot, States
      <4>3. QED
        BY <3>1, <4>2
    <3>2. CASE taken /\ Reply(r, "401", NoSnapshot) /\ UNCHANGED taken
      BY <1>1, <3>2
    <3>3. CASE Reply(r, "denied", NoSnapshot)
      BY <1>1, <3>3
    <3>4. CASE \E s \in {Snapshot, NoSnapshot} : Reply(r, "ok", s)
      BY <1>1, <3>4
    <3>5. QED
      BY <1>4, <3>1, <3>2, <3>3, <3>4 DEF Serve
  <2>2. /\ requests' \subseteq HttpRequests
        /\ \A q \in requests' : q \in requests \/ (q.of = r.of /\ q.answer = answer)
    BY <1>1, <2>1, Replied
  <2>3. EndsSession => wire' \in Seq(States)
    BY EmptyWire DEF EndsSession
  <2>4. /\ backend' \in [up : BOOLEAN, run : Nat, revision : Nat] /\ wire' \in Seq(States)
        /\ session' \in BOOLEAN /\ taken' \in BOOLEAN /\ socket' \in {socket, "refused"}
        /\ socket' = "refused" => (~session' /\ socket # "closed") \/ socket = "refused"
        /\ ~session' \/ UNCHANGED <<session, taken>>
    BY <1>1, <1>4, <2>3, Changed DEF Serve, EndsSession, CockpitTypeOK
  <2>5. CockpitTypeOK'
    BY <1>1, <1>2, <2>2, <2>4 DEF CockpitTypeOK, gateVars
  <2>6. r.of <= generation
    BY DEF CockpitInv, GateInv
  <2>7. GateInv'
    BY <1>2, <2>1, <2>2, <2>4, <2>6 DEF gateVars, CockpitInv, GateInv
  <2>8. SignedOutShowsNothing'
    BY <1>2, <2>4 DEF gateVars, CockpitInv, SignedOutShowsNothing
  <2>9. QED
    BY <2>5, <2>7, <2>8 DEF CockpitInv
<1>5. QED
  BY <1>3, <1>4 DEF CockpitInv, CockpitTypeOK

\* The page takes an answer, which may be one for a dashboard that is no longer there.
LEMMA ReceiveStep ==
  ASSUME CockpitInv, NEW r \in requests, ReceiveEnd(r) \/ ReceiveState(r) \/ ReceivePanel(r)
  PROVE  CockpitInv'
<1>1. CockpitTypeOK /\ r \in HttpRequests /\ r.state \in States
  BY DEF CockpitInv, CockpitTypeOK, HttpRequests
<1>2. CASE ReceiveEnd(r)
  BY <1>1, <1>2, SignInEnds DEF ReceiveEnd, CockpitTypeOK
<1>3. CASE ReceiveState(r)
  <2>1. UNCHANGED gateVars /\ UNCHANGED <<backend, session, taken, socket, wire, panel>>
    BY <1>3 DEF ReceiveState
  <2>2. /\ requests' \subseteq HttpRequests
        /\ \A q \in requests' : q \in requests \/ (q.of = generation /\ q.answer = "none")
    BY <1>1, <1>3, SnapshotIsState
       DEF ReceiveState, Request, HttpRequests, CockpitTypeOK, gateVars
  <2>3. shown' \in States /\ (shown' = shown \/ signedIn)
    BY <1>1, <1>3, AppliedIsNewer DEF ReceiveState, Mounted, CockpitTypeOK
  <2>4. QED
    BY <1>1, <2>1, <2>2, <2>3
       DEF gateVars, CockpitInv, CockpitTypeOK, GateInv, SignedOutShowsNothing
<1>4. CASE ReceivePanel(r)
  BY <1>1, <1>4
     DEF ReceivePanel, Mounted, gateVars, CockpitInv, CockpitTypeOK, GateInv,
         SignedOutShowsNothing
<1>5. QED
  BY <1>2, <1>3, <1>4

\* Every step keeps the invariant.
LEMMA CockpitInvStep == CockpitInv /\ [CockpitNext]_cockpitVars => CockpitInv'
<1>1. SUFFICES ASSUME CockpitInv, [CockpitNext]_cockpitVars
               PROVE  CockpitInv'
  OBVIOUS
<1>2. CASE Crash
  BY <1>1, <1>2, SnapshotIsState, EmptyWire
     DEF Crash, gateVars, CockpitInv, CockpitTypeOK, GateInv, SignedOutShowsNothing
<1>3. CASE Boot
  BY <1>1, <1>3, SnapshotIsState, EmptyWire
     DEF Boot, gateVars, CockpitInv, CockpitTypeOK, GateInv, SignedOutShowsNothing
<1>4. CASE Publish
  <2>1. Change /\ UNCHANGED <<session, taken, gateVars, socket, requests, shown, panel>>
    BY <1>4 DEF Publish
  <2>2. CockpitTypeOK'
    BY <1>1, <2>1, Changed DEF CockpitInv, CockpitTypeOK, gateVars
  <2>3. (socket # "open" => wire' = wire) /\ (signedIn' => signedIn)
    BY <1>1, <2>1, Changed DEF CockpitInv, gateVars
  <2>4. QED
    BY <1>1, <2>1, <2>2, <2>3 DEF CockpitInv, GateInv, SignedOutShowsNothing, gateVars
<1>5. CASE EndSession
  BY <1>1, <1>5, SnapshotIsState, EmptyWire
     DEF EndSession, EndsSession, gateVars, CockpitInv, CockpitTypeOK, GateInv,
         SignedOutShowsNothing
<1>5a. CASE OtherSignIn
  BY <1>1, <1>5a, SnapshotIsState, EmptyWire
     DEF OtherSignIn, gateVars, CockpitInv, CockpitTypeOK, GateInv,
         SignedOutShowsNothing
<1>6. CASE SignIn
  BY <1>1, <1>6, SnapshotIsState, EmptyWire
     DEF SignIn, gateVars, CockpitInv, CockpitTypeOK, GateInv, SignedOutShowsNothing
<1>7. CASE Accept
  <2>1. /\ ~signedIn /\ generation' = generation + 1 /\ generation \in Nat
        /\ Send({"state", "panel"}) /\ session' = TRUE /\ taken' = FALSE /\ signedIn' = TRUE
        /\ login' = "none"
        /\ socket' = "connecting" /\ wire' = <<>> /\ shown' = NoSnapshot /\ panel' = "empty"
        /\ UNCHANGED backend
    BY <1>7, <1>1 DEF Accept, CockpitInv, CockpitTypeOK, GateInv
  <2>2. /\ requests' \subseteq HttpRequests
        /\ \A r \in requests' : r \in requests \/ (r.of = generation' /\ r.answer = "none")
    BY <1>1, <2>1, SentRequests DEF CockpitInv
  <2>3. CockpitTypeOK'
    <3>1. backend' \in [up : BOOLEAN, run : Nat, revision : Nat]
      BY <1>1, <2>1 DEF CockpitInv, CockpitTypeOK
    <3>2. generation' \in Nat
      BY <2>1
    <3>3. wire' \in Seq(States) /\ shown' \in States
      BY <1>1, <2>1, SnapshotIsState, EmptyWire DEF CockpitInv
    <3>4. QED
      BY <2>1, <2>2, <3>1, <3>2, <3>3 DEF CockpitTypeOK
  <2>4. GateInv'
    <3>1. \A r \in requests : r.of \in Nat /\ r.of <= generation
      BY <1>1 DEF CockpitInv, CockpitTypeOK, GateInv, HttpRequests
    <3>2. \A r \in requests' : r.of <= generation' /\ (r.of = generation' => r.answer # "401")
      BY <2>1, <2>2, <3>1
    <3>3. QED
      BY <2>1, <3>2 DEF GateInv
  <2>5. QED
    BY <2>1, <2>3, <2>4 DEF CockpitInv, SignedOutShowsNothing
<1>8. CASE SignInFails
  BY <1>1, <1>8, SnapshotIsState, EmptyWire
     DEF SignInFails, gateVars, CockpitInv, CockpitTypeOK, GateInv,
         SignedOutShowsNothing
<1>9. CASE Expire
  <2>1. StopForAuth /\ session' = FALSE /\ UNCHANGED <<backend, requests>>
    BY <1>9 DEF Expire
  <2>2. QED
    BY <1>1, <2>1, SignInEnds
<1>10. CASE SignOut
  <2>1. Send({"logout"}) /\ UNCHANGED gateVars
    BY <1>10 DEF SignOut
  <2>2. /\ requests' \subseteq HttpRequests
        /\ \A r \in requests' : r \in requests \/ (r.of = generation' /\ r.answer = "none")
    BY <1>1, <2>1, SentRequests DEF CockpitInv, CockpitTypeOK, gateVars
  <2>3. QED
    BY <1>1, <1>10, <2>1, <2>2, SnapshotIsState, EmptyWire
       DEF SignOut, gateVars, CockpitInv, CockpitTypeOK, GateInv,
           SignedOutShowsNothing
<1>11. CASE Opens
  <2>1. Send({"state"}) /\ UNCHANGED gateVars
    BY <1>11 DEF Opens
  <2>2. /\ requests' \subseteq HttpRequests
        /\ \A r \in requests' : r \in requests \/ (r.of = generation' /\ r.answer = "none")
    BY <1>1, <2>1, SentRequests DEF CockpitInv, CockpitTypeOK, gateVars
  <2>3. QED
    BY <1>1, <1>11, <2>1, <2>2, SnapshotIsState, EmptyWire
       DEF Opens, gateVars, CockpitInv, CockpitTypeOK, GateInv,
           SignedOutShowsNothing
<1>12. CASE Rejected
  BY <1>1, <1>12, SnapshotIsState, EmptyWire
     DEF Rejected, gateVars, CockpitInv, CockpitTypeOK, GateInv,
         SignedOutShowsNothing
<1>13. CASE Message
  <2>1. /\ socket = "open" /\ wire # <<>> /\ shown' = Applied(Head(wire)) /\ wire' = Tail(wire)
        /\ UNCHANGED <<backend, session, taken, gateVars, socket, requests, panel>>
    BY <1>13 DEF Message
  <2>2. Head(wire) \in States /\ wire' \in Seq(States)
    BY <1>1, <2>1 DEF CockpitInv, CockpitTypeOK
  <2>3. shown' \in States
    BY <1>1, <2>1, <2>2, AppliedIsNewer DEF CockpitInv
  <2>4. QED
    BY <1>1, <2>1, <2>2, <2>3
       DEF gateVars, CockpitInv, CockpitTypeOK, GateInv, SignedOutShowsNothing
<1>14. CASE ClosedForAuth
  <2>1. StopForAuth /\ UNCHANGED <<backend, session, requests>>
    BY <1>14 DEF ClosedForAuth
  <2>2. session' \in BOOLEAN
    BY <1>1, <2>1 DEF CockpitInv, CockpitTypeOK
  <2>3. QED
    BY <1>1, <2>1, <2>2, SignInEnds
<1>15. CASE AskAccess
  <2>1. CASE StopForAuth
    <3>1. UNCHANGED <<backend, session, requests>>
      BY <1>15 DEF AskAccess
    <3>2. session' \in BOOLEAN
      BY <1>1, <3>1 DEF CockpitInv, CockpitTypeOK
    <3>3. QED
      BY <1>1, <2>1, <3>1, <3>2, SignInEnds
  <2>2. CASE ~StopForAuth
    BY <1>1, <1>15, <2>2 DEF AskAccess, gateVars, CockpitInv, CockpitTypeOK, GateInv,
       SignedOutShowsNothing
  <2>3. QED
    BY <2>1, <2>2
<1>16. CASE Reconnect
  BY <1>1, <1>16, SnapshotIsState, EmptyWire
     DEF Reconnect, gateVars, CockpitInv, CockpitTypeOK, GateInv,
         SignedOutShowsNothing
<1>17. CASE Act
  <2>1. Send({"act"}) /\ UNCHANGED gateVars
    BY <1>17 DEF Act
  <2>2. /\ requests' \subseteq HttpRequests
        /\ \A r \in requests' : r \in requests \/ (r.of = generation' /\ r.answer = "none")
    BY <1>1, <2>1, SentRequests DEF CockpitInv, CockpitTypeOK, gateVars
  <2>3. QED
    BY <1>1, <1>17, <2>1, <2>2, SnapshotIsState, EmptyWire
       DEF Act, gateVars, CockpitInv, CockpitTypeOK, GateInv, SignedOutShowsNothing
<1>18. CASE Retry
  <2>1. Send({"panel"}) /\ UNCHANGED gateVars
    BY <1>18 DEF Retry
  <2>2. /\ requests' \subseteq HttpRequests
        /\ \A r \in requests' : r \in requests \/ (r.of = generation' /\ r.answer = "none")
    BY <1>1, <2>1, SentRequests DEF CockpitInv, CockpitTypeOK, gateVars
  <2>3. QED
    BY <1>1, <1>18, <2>1, <2>2, SnapshotIsState, EmptyWire
       DEF Retry, gateVars, CockpitInv, CockpitTypeOK, GateInv,
           SignedOutShowsNothing
<1>19. CASE UNCHANGED cockpitVars
  BY <1>1, <1>19
     DEF cockpitVars, gateVars, CockpitInv, CockpitTypeOK, GateInv,
         SignedOutShowsNothing
<1>20. QED
  BY <1>1, <1>2, <1>3, <1>4, <1>5, <1>5a, <1>6, <1>7, <1>8, <1>9, <1>10, <1>11, <1>12, <1>13,
     <1>14, <1>15, <1>16, <1>17, <1>18, <1>19, ServeStep, ReceiveStep
     DEF CockpitNext

\* The page has been loaded, and shows nothing yet.
LEMMA CockpitInvInit == CockpitInit => CockpitInv
<1>1. SUFFICES ASSUME CockpitInit PROVE CockpitInv
  OBVIOUS
<1>2. backend \in [up : BOOLEAN, run : Nat, revision : Nat] /\ shown \in States
  BY <1>1 DEF CockpitInit, NoSnapshot, States
<1>3. wire \in Seq(States)
  BY <1>1, EmptyWire DEF CockpitInit
<1>4. CockpitTypeOK
  BY <1>1, <1>2, <1>3 DEF CockpitInit, CockpitTypeOK
<1>5. QED
  BY <1>1, <1>4 DEF CockpitInit, CockpitInv, GateInv, SignedOutShowsNothing

\* The inductive invariant holds of every state.
THEOREM CockpitInvariant == CockpitSpec => []CockpitInv
BY CockpitInvInit, CockpitInvStep, PTL DEF CockpitSpec

\* For any number of sign-ins, requests and runs of the backend: nothing of the show is, or
\* comes back, on the screen of a browser that is not signed in (DashboardAccessGate.tsx).
THEOREM NothingShownSignedOut == CockpitSpec => []SignedOutShowsNothing
<1>1. CockpitInv => SignedOutShowsNothing
  BY DEF CockpitInv
<1>2. QED
  BY <1>1, CockpitInvariant, PTL

\* What the screen shows only becomes newer while the sign-in stands.
LEMMA ScreenStep ==
  ASSUME CockpitInv, [CockpitNext]_cockpitVars, signedIn', shown.run = shown'.run
  PROVE  shown'.revision >= shown.revision
<1>1. CockpitTypeOK /\ shown \in States /\ shown.revision \in Nat
  BY DEF CockpitInv, CockpitTypeOK, States
<1>2. CASE UNCHANGED shown
  BY <1>1, <1>2
<1>3. CASE shown' = NoSnapshot /\ ~signedIn
  BY <1>2, <1>3 DEF CockpitInv, SignedOutShowsNothing
<1>4. ASSUME NEW s \in States, shown' = Applied(s) PROVE shown'.revision >= shown.revision
  BY <1>1, <1>4, AppliedIsNewer
<1>5. CASE Message
  <2>1. Head(wire) \in States
    BY <1>1, <1>5 DEF Message, CockpitTypeOK
  <2>2. QED
    BY <1>4, <1>5, <2>1 DEF Message
<1>6. ASSUME NEW r \in requests, ReceiveState(r) PROVE shown'.revision >= shown.revision
  <2>1. r.state \in States
    BY <1>1 DEF CockpitTypeOK, HttpRequests
  <2>2. QED
    BY <1>2, <1>4, <1>6, <2>1 DEF ReceiveState
<1>7. CASE Accept
  BY <1>3, <1>7 DEF Accept, CockpitInv, GateInv
<1>8. ~StopForAuth
  BY DEF StopForAuth
<1>9. UNCHANGED shown \/ Message \/ Accept \/ \E r \in requests : ReceiveState(r)
  <2>1. CASE UNCHANGED cockpitVars
    BY <2>1 DEF cockpitVars
  <2>2. CASE \/ Crash \/ Boot \/ Publish \/ EndSession \/ OtherSignIn \/ SignIn
             \/ SignInFails \/ SignOut \/ Opens \/ Rejected \/ Reconnect \/ Act \/ Retry
    BY <2>2
       DEF Crash, Boot, Publish, EndSession, OtherSignIn, SignIn, SignInFails, SignOut,
           Opens, Rejected, Reconnect, Act, Retry
  <2>3. CASE Expire \/ ClosedForAuth \/ AskAccess
    BY <1>8, <2>3 DEF Expire, ClosedForAuth, AskAccess
  <2>4. ASSUME NEW r \in requests, Serve(r) \/ ReceiveEnd(r) \/ ReceivePanel(r)
        PROVE  UNCHANGED shown
    BY <1>8, <2>4 DEF Serve, ReceiveEnd, ReceivePanel
  <2>5. QED
    BY <2>1, <2>2, <2>3, <2>4 DEF CockpitNext
<1>10. QED
  BY <1>2, <1>5, <1>6, <1>7, <1>9

\* A step that ends a sign-in finds its session over or another's, a sign-out under way, or
\* a refusal of Planning Center's own.
LEMMA SignInStep ==
  ASSUME CockpitInv, [CockpitNext]_cockpitVars, signedIn, ~signedIn'
  PROVE  \/ ~session' \/ taken
         \/ \E r \in requests : r.kind = "logout"
         \/ \E r \in requests : r.answer = "denied" /\ r.of = generation
<1>1. CASE Expire
  BY <1>1 DEF Expire
<1>2. CASE ClosedForAuth
  BY <1>2 DEF ClosedForAuth, CockpitInv, GateInv
<1>3. CASE AskAccess
  BY <1>3 DEF AskAccess, gateVars
<1>4. ASSUME NEW r \in requests, ReceiveEnd(r)
      PROVE  \/ ~session' \/ taken
             \/ \E q \in requests : q.kind = "logout"
             \/ \E q \in requests : q.answer = "denied" /\ q.of = generation
  BY <1>4 DEF ReceiveEnd, EndsSignIn, InForce, CockpitInv, GateInv
<1>5. CASE \/ Crash \/ Boot \/ Publish \/ EndSession \/ OtherSignIn \/ SignIn
           \/ SignInFails \/ SignOut \/ Opens \/ Rejected \/ Message \/ Reconnect \/ Act \/ Retry \/ Accept
  BY <1>5
     DEF Crash, Boot, Publish, EndSession, OtherSignIn, SignIn, SignInFails, SignOut,
         Opens, Rejected, Message, Reconnect, Act, Retry, Accept, gateVars
<1>6. ASSUME NEW r \in requests, Serve(r) \/ ReceiveState(r) \/ ReceivePanel(r)
      PROVE  FALSE
  BY <1>6 DEF Serve, ReceiveState, ReceivePanel, gateVars
<1>7. CASE UNCHANGED cockpitVars
  BY <1>7 DEF cockpitVars, gateVars
<1>8. QED
  BY <1>1, <1>2, <1>3, <1>4, <1>5, <1>6, <1>7 DEF CockpitNext

\* However snapshots, answers to actions and reads of the state overtake each other, the
\* screen never goes back to an earlier state of the same run (hooks/useStagePilot.ts,
\* applyState).
THEOREM ScreenNeverGoesBack == CockpitSpec => NeverGoesBack
<1>1. CockpitInv /\ [CockpitNext]_cockpitVars =>
          [signedIn' /\ shown.run = shown'.run => shown'.revision >= shown.revision]_cockpitVars
  BY ScreenStep
<1>2. QED
  BY <1>1, CockpitInvariant, PTL DEF CockpitSpec, NeverGoesBack

\* A sign-in ends when its session is over or another's, when a sign-out is under way or
\* Planning Center refused a request of it, and never with an answer to a request of an
\* earlier one (access/accessState.ts, invalidateAccess).
THEOREM SignInsStand == CockpitSpec => SignInStands
<1>1. CockpitInv /\ [CockpitNext]_cockpitVars =>
          [signedIn /\ ~signedIn' =>
              \/ ~session' \/ taken
              \/ \E r \in requests : r.kind = "logout"
              \/ \E r \in requests : r.answer = "denied" /\ r.of = generation]_cockpitVars
  BY SignInStep
<1>2. QED
  BY <1>1, CockpitInvariant, PTL DEF CockpitSpec, SignInStands

-----------------------------------------------------------------------------
(* The update of the desktop program (Updater).                             *)

Attempts == [at : {"unused", "probing", "downloading", "stopping", "installing", "relaunching",
                   "recovering", "over"}, stopped : BOOLEAN]

\* An attempt that has stopped the backend still answers for it.
Answers(n) == attempts[n].stopped /\ attempts[n].at \in {"installing", "relaunching", "recovering"}

\* A backend that is down is one that an attempt answers for, or that the operator has been
\* told of; a platform that stops it and then gives up is another matter.
UpdaterInv ==
    /\ attempts \in [Installs -> Attempts]
    /\ ~Windows => backendUp \/ told \/ \E n \in Installs : Answers(n)

\* An attempt that goes on keeps what it has stopped.
LEMMA AttemptGoes ==
  ASSUME UpdaterInv, NEW n \in Installs, NEW from, NEW to, Goes(n, from, to)
  PROVE  /\ attempts'[n].at = to /\ attempts[n].at = from
         /\ attempts'[n].stopped = attempts[n].stopped
         /\ \A m \in Installs \ {n} : attempts'[m] = attempts[m]
BY DEF Goes, UpdaterInv, Attempts

\* One attempt goes on, and those that answer for the backend still do.
LEMMA AttemptStep ==
  ASSUME UpdaterInv, NEW n \in Installs, NEW from, NEW to, Goes(n, from, to),
         to \in {"unused", "probing", "downloading", "stopping", "installing", "relaunching",
                 "recovering", "over"},
         from \in {"installing", "relaunching", "recovering"} =>
             to \in {"installing", "relaunching", "recovering"} \/ backendUp' \/ told'
                 \/ ~attempts[n].stopped,
         backendUp => backendUp', told => told'
  PROVE  UpdaterInv'
<1>1. attempts' \in [Installs -> Attempts]
  BY DEF Goes, UpdaterInv, Attempts
<1>2. ASSUME ~Windows, ~backendUp', ~told' PROVE \E m \in Installs : Answers(m)'
  <2>1. PICK m \in Installs : Answers(m)
    BY <1>2 DEF UpdaterInv
  <2>2. CASE m = n
    BY <1>2, <2>1, <2>2, AttemptGoes DEF Answers
  <2>3. CASE m # n
    BY <2>1, <2>3, AttemptGoes DEF Answers
  <2>4. QED
    BY <2>2, <2>3
<1>3. QED
  BY <1>1, <1>2 DEF UpdaterInv

\* Every step keeps the invariant.
LEMMA UpdaterInvStep == UpdaterInv /\ [UpdaterNext]_updaterVars => UpdaterInv'
<1>1. SUFFICES ASSUME UpdaterInv, [UpdaterNext]_updaterVars
               PROVE  UpdaterInv'
  OBVIOUS
<1>2. CASE Check \/ Checked \/ OpenConfirmation \/ CancelConfirmation \/ CloseError
  <2>1. UNCHANGED <<backendUp, told, attempts>>
    BY <1>2 DEF Check, Checked, OpenConfirmation, CancelConfirmation, CloseError, world
  <2>2. QED
    BY <1>1, <2>1 DEF UpdaterInv, Answers
<1>3. ASSUME NEW n \in Installs, Install(n) \/ Probed(n) \/ Download(n) \/ Write(n)
      PROVE  UpdaterInv'
  <2>1. UNCHANGED <<backendUp, told>>
    BY <1>3 DEF Install, Probed, Download, Write, world
  <2>2. \/ Goes(n, "unused", "probing") \/ Goes(n, "probing", "over")
        \/ Goes(n, "probing", "downloading") \/ Goes(n, "downloading", "stopping")
        \/ Goes(n, "installing", "relaunching")
    BY <1>3 DEF Install, Probed, Download, Write
  <2>3. QED
    BY <1>1, <2>1, <2>2, AttemptStep
<1>4. ASSUME NEW n \in Installs, StopBackend(n)
      PROVE  UpdaterInv'
  <2>1. /\ attempts' = [attempts EXCEPT ![n] = [at |-> "installing", stopped |-> TRUE]]
        /\ attempts \in [Installs -> Attempts]
    BY <1>1, <1>4 DEF StopBackend, UpdaterInv
  <2>2. attempts' \in [Installs -> Attempts] /\ Answers(n)'
    BY <2>1 DEF Attempts, Answers
  <2>3. QED
    BY <2>2 DEF UpdaterInv
<1>5. ASSUME NEW n \in Installs, Failing(n)
      PROVE  UpdaterInv'
  <2>1. /\ Goes(n, attempts[n].at, "recovering") /\ told' = told
        /\ backendUp' = (backendUp /\ ~(Windows /\ attempts[n].at = "stopping"))
    BY <1>5 DEF Failing, Goes
  <2>2. CASE Windows
    BY <1>1, <2>1, <2>2 DEF UpdaterInv, Goes, Attempts
  <2>3. CASE ~Windows
    BY <1>1, <2>1, <2>3, AttemptStep
  <2>4. QED
    BY <2>2, <2>3
<1>6. ASSUME NEW n \in Installs, Recover(n)
      PROVE  UpdaterInv'
  <2>1. /\ Goes(n, "recovering", "over") /\ (backendUp => backendUp') /\ (told => told')
        /\ backendUp' \/ told' \/ ~attempts[n].stopped
    BY <1>6 DEF Recover
  <2>2. QED
    BY <1>1, <2>1, AttemptStep
<1>7. ASSUME NEW n \in Installs, Relaunch(n)
      PROVE  UpdaterInv'
  <2>1. attempts' = [m \in Installs |-> Unused] /\ backendUp'
    BY <1>7 DEF Relaunch
  <2>2. QED
    BY <2>1 DEF UpdaterInv, Unused, Attempts
<1>8. CASE UNCHANGED updaterVars
  BY <1>1, <1>8 DEF updaterVars, UpdaterInv, Answers
<1>9. QED
  BY <1>1, <1>2, <1>3, <1>4, <1>5, <1>6, <1>7, <1>8 DEF UpdaterNext

\* The inductive invariant holds of every state.
THEOREM UpdaterInvariant == UpdaterSpec => []UpdaterInv
<1>1. UpdaterInit => UpdaterInv
  BY DEF UpdaterInit, UpdaterInv, Unused, Attempts
<1>2. QED
  BY <1>1, UpdaterInvStep, PTL DEF UpdaterSpec

\* For any number of installations started by any number of presses: unless the platform stops
\* the backend and then gives up, a backend that an update stopped runs again when no attempt
\* is under way, or the operator has been told (hooks/useUpdater.ts, install).
THEOREM UpdatesBringItBack == UpdaterSpec => [](~Windows => NotLeftDown)
<1>1. UpdaterInv => (~Windows => NotLeftDown)
  BY DEF UpdaterInv, NotLeftDown, Answers
<1>2. QED
  BY <1>1, UpdaterInvariant, PTL

-----------------------------------------------------------------------------
(* The editor of the lighting cues (LightingEditor): the inductive          *)
(* invariant.                                                               *)

\* What an operation carries, as long as it needs it.
OpOK(op) ==
    /\ op = [f \in DOMAIN op |-> op[f]] /\ "kind" \in DOMAIN op
    /\ op.kind \in {"none", "save", "clear", "settings", "test", "press", "undo", "pads"}
    /\ op.kind # "none" => "at" \in DOMAIN op
    /\ op.kind = "save" =>
          /\ {"song", "method", "list"} \subseteq DOMAIN op
          /\ op.song \in Songs /\ op.method \in Methods /\ op.list \subseteq Cues
    /\ op.kind = "clear" =>
          {"method", "left"} \subseteq DOMAIN op /\ op.method \in Methods
    /\ op.kind = "settings" => "method" \in DOMAIN op /\ op.method \in Methods
    /\ op.kind = "press" /\ op.at \in {"sent", "fired"} =>
          /\ {"song", "method", "capture"} \subseteq DOMAIN op
          /\ op.song \in Songs /\ op.method \in Methods
    /\ op.kind = "undo" => {"song", "cue"} \subseteq DOMAIN op
    /\ op.kind # "none" /\ op.at = "read" => op.view \in LightsCopy

\* Every variable has its type.
EditorTypeOK ==
    /\ savedLights \in LightsCopy /\ heldLights \in LightsCopy
    /\ rows \in [Methods -> SUBSET Cues] /\ editedSong \in Songs /\ viewMethod \in Methods
    /\ usedCues \subseteq Cues
    /\ lanes = [l \in Lanes |-> lanes[l]] /\ \A l \in Lanes : OpOK(lanes[l])
    /\ \A x \in captured : x.song \in Songs /\ x.method \in Methods

\* While the operator waits for each operation, there is one at a time.
OneLane == calm => \A k, l \in Lanes : Idle(k) \/ Idle(l) \/ k = l

\* Operations that change none of the cues, or have not yet.
Quiet(op) ==
    \/ op.kind \in {"none", "test"}
    \/ op.kind = "press" /\ op.at \in {"sent", "fired", "fire only"}

\* A captured cue is saved; the dashboard's copy has it, and the rows if they are the song's;
\* no operation under way takes it away, and one that reads reads it.
Kept(x) == x.cue \in savedLights.cues[x.song][x.method]
Held(x) ==
    /\ x.cue \in heldLights.cues[x.song][x.method]
    /\ x.song = editedSong => x.cue \in rows[x.method]
Spared(op, x) ==
    /\ op.kind = "save" /\ op.at = "sent" /\ x.song = op.song /\ x.method = op.method =>
          x.cue \in op.list
    /\ op.kind = "clear" => x.method # op.method
    /\ op.kind = "undo" => x.cue # op.cue
    /\ op.kind # "none" /\ op.at = "read" => op.view = savedLights

\* So it is while nothing overlaps or fails; copy and rows wait for the read that follows.
CaptureInv ==
    calm => \A x \in captured :
        /\ Kept(x)
        /\ (\A l \in Lanes : Quiet(lanes[l])) => Held(x)
        /\ \A l \in Lanes : Spared(lanes[l], x)

EditorInv == EditorTypeOK /\ OneLane /\ CaptureInv

-----------------------------------------------------------------------------
(* What the steps of the editor have in common.                             *)

\* The lanes.
LEMMA LaneNames ==
  /\ "lights" \in Lanes /\ "board" \in Lanes /\ "pads" \in Lanes
  /\ \A l \in Lanes : l \in {"lights", "board", "pads"}
BY DEF Lanes

\* A new cue, as long as an identifier is left.
LEMMA NewCueIsCue == ASSUME usedCues \subseteq Cues, usedCues # Cues PROVE NewCue \in Cues
BY DEF NewCue

\* One lane gets another operation.
LEMMA LaneTakes ==
  ASSUME EditorTypeOK, NEW l \in Lanes, NEW op, lanes' = [lanes EXCEPT ![l] = op]
  PROVE  /\ lanes' = [k \in Lanes |-> lanes'[k]] /\ lanes'[l] = op
         /\ \A k \in Lanes \ {l} : lanes'[k] = lanes[k]
BY DEF EditorTypeOK

\* The lane of an operation that ends is free, and one that has been handled goes on.
LEMMA LaneEnds ==
  ASSUME EditorTypeOK, NEW l \in Lanes, Ends(l)
  PROVE  /\ lanes' = [k \in Lanes |-> lanes'[k]] /\ lanes'[l] = Free /\ lanes'[l].kind = "none"
         /\ OpOK(Free) /\ \A k \in Lanes \ {l} : lanes'[k] = lanes[k]
BY LaneTakes DEF Ends, Free, OpOK

\* The backend has handled an operation, or begun to: it keeps what it carries.
LEMMA LaneHandled ==
  ASSUME EditorTypeOK, NEW l \in Lanes, NEW at \in {"done", "fired"}, lanes[l].kind # "none",
         lanes[l].at = "sent", lanes' = [lanes EXCEPT ![l].at = at]
  PROVE  /\ lanes' = [k \in Lanes |-> lanes'[k]] /\ \A k \in Lanes \ {l} : lanes'[k] = lanes[k]
         /\ OpOK(lanes'[l]) /\ lanes'[l].kind = lanes[l].kind /\ lanes'[l].at = at
         /\ lanes[l].kind = "clear" => lanes'[l].method = lanes[l].method
         /\ lanes[l].kind = "undo" => lanes'[l].cue = lanes[l].cue
<1> DEFINE op == [lanes[l] EXCEPT !.at = at]
<1>1. OpOK(lanes[l]) /\ lanes' = [lanes EXCEPT ![l] = op]
  BY DEF EditorTypeOK
<1>2. /\ DOMAIN op = DOMAIN lanes[l] /\ op.at = at /\ op = [f \in DOMAIN op |-> op[f]]
      /\ \A f \in DOMAIN lanes[l] \ {"at"} : op[f] = lanes[l][f]
  BY <1>1 DEF OpOK
<1>3. HIDE DEF op
<1>4. op.kind = lanes[l].kind
  BY <1>1, <1>2 DEF OpOK
<1>5. OpOK(op)
  BY <1>1, <1>2, <1>4 DEF OpOK
<1>6. /\ lanes[l].kind = "clear" => op.method = lanes[l].method
      /\ lanes[l].kind = "undo" => op.cue = lanes[l].cue
  BY <1>1, <1>2 DEF OpOK
<1>7. QED
  BY <1>1, <1>2, <1>4, <1>5, <1>6, LaneTakes

\* The operation with the copy that it has read.
LEMMA LaneReads ==
  ASSUME EditorTypeOK, NEW l \in Lanes, ServeSettings(l)
  PROVE  /\ lanes' = [k \in Lanes |-> lanes'[k]] /\ \A k \in Lanes \ {l} : lanes'[k] = lanes[k]
         /\ OpOK(lanes'[l]) /\ lanes'[l].kind = lanes[l].kind /\ lanes'[l].at = "read"
         /\ lanes'[l].view = savedLights
         /\ lanes[l].kind = "clear" => lanes'[l].method = lanes[l].method
         /\ lanes[l].kind = "undo" => lanes'[l].cue = lanes[l].cue
<1> DEFINE op == WithView(lanes[l])
<1>1. OpOK(lanes[l]) /\ lanes' = [lanes EXCEPT ![l] = op] /\ savedLights \in LightsCopy
  BY DEF EditorTypeOK, ServeSettings
<1>2. /\ DOMAIN op = DOMAIN lanes[l] \cup {"at", "view"} /\ op = [f \in DOMAIN op |-> op[f]]
      /\ op.at = "read" /\ op.view = savedLights
      /\ \A f \in DOMAIN lanes[l] \ {"at", "view"} : op[f] = lanes[l][f]
  BY DEF WithView
<1>3. HIDE DEF op
<1>4. op.kind = lanes[l].kind
  BY <1>1, <1>2 DEF OpOK
<1>5. OpOK(op)
  BY <1>1, <1>2, <1>4 DEF OpOK
<1>6. /\ lanes[l].kind = "clear" => op.method = lanes[l].method
      /\ lanes[l].kind = "undo" => op.cue = lanes[l].cue
  BY <1>1, <1>2 DEF OpOK
<1>7. QED
  BY <1>1, <1>2, <1>4, <1>5, <1>6, LaneTakes

\* An operation that starts while the operator waits for each finds every lane free.
LEMMA StartKeeps ==
  ASSUME EditorInv, NEW l \in Lanes, NEW op, OpOK(op), op.kind # "none", op.at = "sent",
         Starts(l, op), UNCHANGED <<savedLights, heldLights, editedSong>>,
         captured' \subseteq captured,
         rows' \in [Methods -> SUBSET Cues],
         \A x \in captured' : /\ x.cue \in rows[x.method] /\ x.song = editedSong =>
                                     x.cue \in rows'[x.method]
                              /\ op.kind = "save" /\ x.song = op.song /\ x.method = op.method
                                     /\ (x.song = editedSong => x.cue \in rows[x.method])
                                         => x.cue \in op.list
                              /\ op.kind = "clear" => x.method # op.method
                              /\ op.kind = "undo" => x.cue # op.cue,
         viewMethod' = viewMethod, usedCues' \subseteq Cues
  PROVE  EditorInv'
<1>1. /\ lanes' = [k \in Lanes |-> lanes'[k]] /\ lanes'[l] = op
      /\ \A k \in Lanes \ {l} : lanes'[k] = lanes[k]
      /\ calm' = (calm /\ \A k \in Lanes : Idle(k))
  BY LaneTakes DEF Starts, EditorInv
<1>2. EditorTypeOK'
  BY <1>1 DEF EditorInv, EditorTypeOK
<1>3. OneLane'
  BY <1>1 DEF OneLane, Idle
<1>4. ASSUME calm', NEW x \in captured'
      PROVE  /\ Kept(x)' /\ ((\A k \in Lanes : Quiet(lanes[k])') => Held(x)')
             /\ \A k \in Lanes : Spared(lanes[k], x)'
  <2>1. x \in captured /\ calm /\ \A k \in Lanes : lanes[k].kind = "none"
    BY <1>1, <1>4 DEF Idle
  <2>2. Kept(x) /\ Held(x)
    BY <2>1 DEF EditorInv, CaptureInv, Quiet
  <2>3. Kept(x)' /\ Held(x)'
    BY <1>4, <2>2 DEF Kept, Held
  <2>4. ASSUME NEW k \in Lanes PROVE Spared(lanes[k], x)'
    <3>1. CASE k = l
      BY <1>1, <1>4, <2>2, <3>1 DEF Spared, Held
    <3>2. CASE k # l
      BY <1>1, <2>1, <3>2 DEF Spared
    <3>3. QED
      BY <3>1, <3>2
  <2>5. QED
    BY <2>3, <2>4
<1>5. CaptureInv'
  BY <1>4 DEF CaptureInv
<1>6. QED
  BY <1>2, <1>3, <1>5 DEF EditorInv

-----------------------------------------------------------------------------
(* Every step of the editor keeps its invariant.                            *)

\* A list that is saved and shown in the rows of the method on screen, and has what is
\* captured of them.
LEMMA PersistKeeps ==
  ASSUME EditorInv, NEW list \in SUBSET Cues, Persist(list), captured' \subseteq captured,
         usedCues' \subseteq Cues,
         \A x \in captured' : x.cue \in rows[viewMethod] /\ x.song = editedSong
                                  /\ x.method = viewMethod => x.cue \in list
  PROVE  EditorInv'
<1>1. PICK valid : Starts("lights", [kind |-> "save", at |-> "sent", song |-> editedSong,
                                      method |-> viewMethod, list |-> list, valid |-> valid])
  BY DEF Persist
<1> DEFINE op == [kind |-> "save", at |-> "sent", song |-> editedSong,
                  method |-> viewMethod, list |-> list, valid |-> valid]
<1>2. /\ rows' = [rows EXCEPT ![viewMethod] = list]
      /\ UNCHANGED <<savedLights, heldLights, editedSong, viewMethod>>
      /\ rows \in [Methods -> SUBSET Cues] /\ viewMethod \in Methods /\ editedSong \in Songs
      /\ \A x \in captured : x.method \in Methods
  BY DEF Persist, EditorInv, EditorTypeOK
<1>3. OpOK(op) /\ op.kind = "save" /\ op.at = "sent" /\ op.list = list /\ op.method = viewMethod
      /\ op.song = editedSong
  BY <1>2 DEF OpOK
<1>4. Starts("lights", op)
  BY <1>1
<1>5. HIDE DEF op
<1>6. rows' \in [Methods -> SUBSET Cues]
  BY <1>2
<1>7. \A x \in captured' : x.cue \in rows[x.method] /\ x.song = editedSong => x.cue \in rows'[x.method]
  BY <1>2
<1>8. QED
  BY <1>2, <1>3, <1>4, <1>6, <1>7, LaneNames, StartKeeps

\* The operator's edits of the rows.
LEMMA RowEdits ==
  ASSUME EditorInv,
         \/ AddCue \/ ChangeCue \/ ClearSong
         \/ \E c \in Cues : CommitOscCue(c) \/ RemoveCue(c)
  PROVE  EditorInv'
<1>0. /\ rows \in [Methods -> SUBSET Cues] /\ viewMethod \in Methods /\ usedCues \subseteq Cues
      /\ "midi" \in Methods /\ "osc" \in Methods
  BY DEF EditorInv, EditorTypeOK, Methods
<1>1. CASE AddCue
  <2>1. NewCue \in Cues /\ rows["midi"] \subseteq Cues
    BY <1>0, <1>1, NewCueIsCue DEF AddCue
  <2>2. /\ Persist(rows["midi"] \cup {NewCue}) /\ viewMethod = "midi"
        /\ usedCues' = usedCues \cup {NewCue} /\ captured' = captured
    BY <1>1 DEF AddCue
  <2>3. rows["midi"] \cup {NewCue} \in SUBSET Cues
    BY <2>1
  <2>4. QED
    BY <1>0, <2>1, <2>2, <2>3, PersistKeeps
<1>2. CASE ChangeCue
  BY <1>0, <1>2, PersistKeeps DEF ChangeCue
<1>3. CASE ClearSong
  <2>1. /\ Persist({}) /\ usedCues' = usedCues
        /\ captured' = Taken(editedSong, viewMethod, rows[viewMethod])
    BY <1>3 DEF ClearSong
  <2>2. QED
    BY <1>0, <2>1, PersistKeeps DEF Taken
<1>4. ASSUME NEW c \in Cues, CommitOscCue(c) PROVE EditorInv'
  <2>1. /\ Persist(rows["osc"]) /\ viewMethod = "osc" /\ UNCHANGED <<usedCues, captured>>
    BY <1>4 DEF CommitOscCue
  <2>2. QED
    BY <1>0, <2>1, PersistKeeps
<1>5. ASSUME NEW c \in Cues, RemoveCue(c) PROVE EditorInv'
  <2>1. /\ Persist(rows[viewMethod] \ {c}) /\ usedCues' = usedCues
        /\ captured' = Taken(editedSong, viewMethod, {c})
    BY <1>5 DEF RemoveCue
  <2>2. QED
    BY <1>0, <2>1, PersistKeeps DEF Taken
<1>6. QED
  BY <1>1, <1>2, <1>3, <1>4, <1>5

\* The operations that start and leave the rows alone, or clear them all.
LEMMA OtherStarts ==
  ASSUME EditorInv,
         \/ ClearAll \/ SaveMethod \/ Test \/ UndoCapture \/ SavePads
         \/ \E capture \in BOOLEAN : PressPad(capture)
  PROVE  EditorInv'
<1>0. /\ rows \in [Methods -> SUBSET Cues] /\ viewMethod \in Methods /\ usedCues \subseteq Cues
      /\ editedSong \in Songs /\ \A x \in captured : x.method \in Methods
  BY DEF EditorInv, EditorTypeOK
<1>1. CASE ClearAll
  <2> DEFINE op == [kind |-> "clear", at |-> "sent", method |-> viewMethod, left |-> Songs]
  <2>1. OpOK(op) /\ op.kind = "clear" /\ op.at = "sent" /\ op.method = viewMethod
    BY <1>0 DEF OpOK
  <2>2. /\ Starts("lights", op) /\ rows' = [rows EXCEPT ![viewMethod] = {}]
        /\ captured' = {x \in captured : x.method # viewMethod}
        /\ UNCHANGED <<savedLights, heldLights, editedSong, viewMethod, usedCues>>
    BY <1>1 DEF ClearAll
  <2>3. HIDE DEF op
  <2>4. /\ rows' \in [Methods -> SUBSET Cues]
        /\ \A x \in captured' : rows'[x.method] = rows[x.method]
    BY <1>0, <2>2
  <2>5. QED
    BY <1>0, <2>1, <2>2, <2>4, LaneNames, StartKeeps
<1>2. CASE SaveMethod
  <2> DEFINE op == [kind |-> "settings", at |-> "sent", method |-> viewMethod]
  <2>1. OpOK(op) /\ op.kind = "settings" /\ op.at = "sent"
    BY <1>0 DEF OpOK
  <2>2. /\ Starts("lights", op)
        /\ UNCHANGED <<savedLights, heldLights, rows, editedSong, viewMethod, usedCues, captured>>
    BY <1>2 DEF SaveMethod
  <2>3. HIDE DEF op
  <2>4. QED
    BY <1>0, <2>1, <2>2, LaneNames, StartKeeps
<1>3. CASE Test
  <2> DEFINE op == [kind |-> "test", at |-> "sent"]
  <2>1. OpOK(op) /\ op.kind = "test" /\ op.at = "sent"
    BY DEF OpOK
  <2>2. /\ Starts("lights", op)
        /\ UNCHANGED <<savedLights, heldLights, rows, editedSong, viewMethod, usedCues, captured>>
    BY <1>3 DEF Test
  <2>3. HIDE DEF op
  <2>4. QED
    BY <1>0, <2>1, <2>2, LaneNames, StartKeeps
<1>4. CASE UndoCapture
  <2>1. PICK u \in lastCapture :
            /\ Starts("board", [kind |-> "undo", at |-> "sent", song |-> u.song, cue |-> u.cue])
            /\ captured' = {y \in captured : y.cue # u.cue}
    BY <1>4 DEF UndoCapture
  <2> DEFINE op == [kind |-> "undo", at |-> "sent", song |-> u.song, cue |-> u.cue]
  <2>2. OpOK(op) /\ op.kind = "undo" /\ op.at = "sent" /\ op.cue = u.cue
    BY DEF OpOK
  <2>3. Starts("board", op)
    BY <2>1
  <2>4. UNCHANGED <<savedLights, heldLights, rows, editedSong, viewMethod, usedCues>>
    BY <1>4 DEF UndoCapture
  <2>5. HIDE DEF op
  <2>6. QED
    BY <1>0, <2>1, <2>2, <2>3, <2>4, LaneNames, StartKeeps
<1>5. CASE SavePads
  <2> DEFINE op == [kind |-> "pads", at |-> "sent"]
  <2>1. OpOK(op) /\ op.kind = "pads" /\ op.at = "sent"
    BY DEF OpOK
  <2>2. /\ Starts("pads", op)
        /\ UNCHANGED <<savedLights, heldLights, rows, editedSong, viewMethod, usedCues, captured>>
    BY <1>5 DEF SavePads
  <2>3. HIDE DEF op
  <2>4. QED
    BY <1>0, <2>1, <2>2, LaneNames, StartKeeps
<1>6. ASSUME NEW capture \in BOOLEAN, PressPad(capture) PROVE EditorInv'
  <2> DEFINE op == [kind |-> "press", at |-> "sent", method |-> viewMethod, song |-> editedSong,
                    capture |-> capture]
  <2>1. OpOK(op) /\ op.kind = "press" /\ op.at = "sent"
    BY <1>0 DEF OpOK
  <2>2. /\ Starts("board", op)
        /\ UNCHANGED <<savedLights, heldLights, rows, editedSong, viewMethod, usedCues, captured>>
    BY <1>6 DEF PressPad
  <2>3. HIDE DEF op
  <2>4. QED
    BY <1>0, <2>1, <2>2, LaneNames, StartKeeps
<1>7. QED
  BY <1>1, <1>2, <1>3, <1>4, <1>5, <1>6

\* What only changes the screen.
LEMMA ScreenEdits ==
  ASSUME EditorInv, AddOscCue \/ ChooseMethod \/ \E s \in Songs : SelectSong(s)
  PROVE  EditorInv'
<1>0. /\ rows \in [Methods -> SUBSET Cues] /\ viewMethod \in Methods /\ usedCues \subseteq Cues
      /\ "osc" \in Methods /\ heldLights \in LightsCopy
      /\ \A x \in captured : x.song \in Songs /\ x.method \in Methods
  BY DEF EditorInv, EditorTypeOK, Methods
<1>1. UNCHANGED <<savedLights, heldLights, lanes, captured, calm>>
  BY DEF AddOscCue, ChooseMethod, SelectSong
<1>2. /\ rows' \in [Methods -> SUBSET Cues] /\ editedSong' \in Songs /\ viewMethod' \in Methods
      /\ usedCues' \subseteq Cues
      /\ \A x \in captured : Held(x) => Held(x)'
  <2>1. CASE AddOscCue
    <3>1. /\ NewCue \in Cues /\ rows' = [rows EXCEPT !["osc"] = rows["osc"] \cup {NewCue}]
          /\ usedCues' = usedCues \cup {NewCue} /\ UNCHANGED <<editedSong, viewMethod, heldLights>>
      BY <1>0, <2>1, NewCueIsCue DEF AddOscCue
    <3>2. \A m \in Methods : rows[m] \subseteq rows'[m] /\ rows'[m] \subseteq Cues
      BY <1>0, <3>1
    <3>3. rows' \in [Methods -> SUBSET Cues]
      BY <1>0, <3>1
    <3>4. QED
      BY <1>0, <3>1, <3>2, <3>3 DEF Held, EditorInv, EditorTypeOK
  <2>2. CASE ChooseMethod
    <3>1. viewMethod' \in Methods
      BY <2>2 DEF ChooseMethod, Methods
    <3>2. QED
      BY <1>0, <2>2, <3>1 DEF ChooseMethod, Held, EditorInv, EditorTypeOK
  <2>3. ASSUME NEW s \in Songs, SelectSong(s)
        PROVE  /\ rows' \in [Methods -> SUBSET Cues] /\ editedSong' \in Songs
               /\ viewMethod' \in Methods /\ usedCues' \subseteq Cues
               /\ \A x \in captured : Held(x) => Held(x)'
    BY <1>0, <2>3 DEF SelectSong, Held, LightsCopy, CueMaps
  <2>4. QED
    BY <2>1, <2>2, <2>3
<1>3. EditorTypeOK' /\ OneLane'
  BY <1>1, <1>2 DEF EditorInv, EditorTypeOK, OneLane, Idle
<1>4. CaptureInv'
  BY <1>1, <1>2 DEF EditorInv, CaptureInv, Kept, Spared
<1>5. QED
  BY <1>3, <1>4 DEF EditorInv

\* The backend handles the operation of a lane, or the page takes its answer: nothing else is
\* under way, what is captured stays saved, and nothing is said of copy and rows yet, unless
\* the operation changes none of the cues.
LEMMA LaneKeeps ==
  ASSUME EditorInv, NEW l \in Lanes, lanes[l].kind # "none",
         lanes' = [k \in Lanes |-> lanes'[k]], \A k \in Lanes \ {l} : lanes'[k] = lanes[k],
         OpOK(lanes'[l]), editedSong' = editedSong, viewMethod' \in Methods \cup {viewMethod},
         calm' => calm,
         savedLights' \in LightsCopy, heldLights' \in LightsCopy,
         rows' \in [Methods -> SUBSET Cues], usedCues' \subseteq Cues,
         \A x \in captured' : x.song \in Songs /\ x.method \in Methods,
         \A x \in captured' : calm =>
             Kept(x)' /\ (Quiet(lanes[l])' => Held(x)') /\ Spared(lanes[l], x)'
  PROVE  EditorInv'
<1>1. EditorTypeOK'
  BY DEF EditorInv, EditorTypeOK
<1>2. calm => \A k \in Lanes \ {l} : lanes[k].kind = "none"
  BY DEF EditorInv, OneLane, Idle
<1>3. OneLane'
  BY <1>2 DEF OneLane, Idle
<1>4. ASSUME calm', NEW x \in captured'
      PROVE  /\ Kept(x)' /\ ((\A k \in Lanes : Quiet(lanes[k])') => Held(x)')
             /\ \A k \in Lanes : Spared(lanes[k], x)'
  <2>1. \A k \in Lanes \ {l} : Spared(lanes[k], x)'
    BY <1>2, <1>4 DEF Spared
  <2>2. QED
    BY <1>4, <2>1
<1>5. CaptureInv'
  BY <1>4 DEF CaptureInv
<1>6. QED
  BY <1>1, <1>3, <1>5 DEF EditorInv

\* What is captured, while the operator waits for the operation of a lane.
LEMMA WhileOneLane ==
  ASSUME EditorInv, calm, NEW l \in Lanes, lanes[l].kind # "none", NEW x \in captured
  PROVE  Kept(x) /\ Spared(lanes[l], x) /\ (Quiet(lanes[l]) => Held(x))
BY DEF EditorInv, CaptureInv, OneLane, Idle, Quiet

\* What the backend does with one operation of the "lights" key.
LEMMA LightsServed ==
  ASSUME EditorInv, ServeCues \/ ServeMethod \/ \E s \in Songs : ServeClear(s)
  PROVE  EditorInv'
<1>0. /\ "lights" \in Lanes /\ OpOK(lanes["lights"]) /\ savedLights \in LightsCopy /\ EditorTypeOK
      /\ heldLights \in LightsCopy /\ rows \in [Methods -> SUBSET Cues] /\ usedCues \subseteq Cues
      /\ \A x \in captured : x.song \in Songs /\ x.method \in Methods
  BY LaneNames DEF EditorInv, EditorTypeOK
<1> DEFINE op == lanes["lights"]
<1>1. CASE ServeCues
  <2>1. /\ op.kind = "save" /\ op.at = "sent" /\ op.song \in Songs /\ op.method \in Methods
        /\ op.list \subseteq Cues /\ savedLights' = PutCues(op.song, op.method, op.list)
        /\ lanes' = [lanes EXCEPT !["lights"].at = "done"]
        /\ UNCHANGED <<heldLights, rows, editedSong, viewMethod, calm, usedCues, captured>>
    BY <1>0, <1>1 DEF ServeCues, Answer, Handled, OpOK
  <2>2. /\ lanes' = [k \in Lanes |-> lanes'[k]]
        /\ \A k \in Lanes \ {"lights"} : lanes'[k] = lanes[k]
        /\ OpOK(lanes'["lights"]) /\ lanes'["lights"].kind = "save" /\ lanes'["lights"].at = "done"
    BY <1>0, <2>1, LaneHandled
  <2>3. /\ savedLights' \in LightsCopy
        /\ savedLights'.cues[op.song][op.method] = op.list
        /\ \A s \in Songs, m \in Methods : s # op.song \/ m # op.method =>
               savedLights'.cues[s][m] = savedLights.cues[s][m]
    BY <1>0, <2>1 DEF PutCues, LightsCopy, CueMaps
  <2>4. ASSUME NEW x \in captured, calm
        PROVE  Kept(x)' /\ ~Quiet(lanes["lights"])' /\ Spared(lanes["lights"], x)'
    <3>1. Kept(x) /\ Spared(op, x)
      BY <1>0, <2>1, <2>4, WhileOneLane
    <3>2. Kept(x)'
      BY <1>0, <2>1, <2>3, <3>1 DEF Kept, Spared
    <3>3. QED
      BY <2>2, <3>2 DEF Quiet, Spared
  <2>5. QED
    BY <1>0, <2>1, <2>2, <2>3, <2>4, LaneKeeps
<1>2. CASE ServeMethod
  <2>1. /\ op.kind = "settings" /\ op.at = "sent" /\ op.method \in Methods
        /\ savedLights' = [savedLights EXCEPT !.method = op.method]
        /\ lanes' = [lanes EXCEPT !["lights"].at = "done"]
        /\ UNCHANGED <<heldLights, rows, editedSong, viewMethod, calm, usedCues, captured>>
    BY <1>0, <1>2 DEF ServeMethod, Answer, Handled, OpOK
  <2>2. /\ lanes' = [k \in Lanes |-> lanes'[k]]
        /\ \A k \in Lanes \ {"lights"} : lanes'[k] = lanes[k]
        /\ OpOK(lanes'["lights"]) /\ lanes'["lights"].kind = "settings"
        /\ lanes'["lights"].at = "done"
    BY <1>0, <2>1, LaneHandled
  <2>3. savedLights' \in LightsCopy /\ savedLights'.cues = savedLights.cues
    BY <1>0, <2>1 DEF LightsCopy
  <2>4. ASSUME NEW x \in captured, calm
        PROVE  Kept(x)' /\ ~Quiet(lanes["lights"])' /\ Spared(lanes["lights"], x)'
    <3>1. Kept(x)
      BY <1>0, <2>1, <2>4, WhileOneLane
    <3>2. QED
      BY <2>1, <2>2, <2>3, <3>1 DEF Kept, Quiet, Spared
  <2>5. QED
    BY <1>0, <2>1, <2>2, <2>3, <2>4, LaneKeeps
<1>3. ASSUME NEW s \in Songs, ServeClear(s) PROVE EditorInv'
  <2>1. /\ op.kind = "clear" /\ op.at = "sent" /\ op.method \in Methods
        /\ savedLights' = PutCues(s, op.method, {})
        /\ UNCHANGED <<heldLights, rows, editedSong, viewMethod, calm, usedCues, captured>>
    BY <1>0, <1>3 DEF ServeClear, Answer, OpOK
  <2>2. PICK at \in {"done", "sent"} :
            lanes' = [lanes EXCEPT !["lights"].left = op.left \ {s}, !["lights"].at = at]
    BY <1>3 DEF ServeClear
  <2>3. /\ lanes' = [k \in Lanes |-> lanes'[k]]
        /\ \A k \in Lanes \ {"lights"} : lanes'[k] = lanes[k]
        /\ OpOK(lanes'["lights"]) /\ lanes'["lights"].kind = "clear"
        /\ lanes'["lights"].at # "read" /\ lanes'["lights"].method = op.method
    <3> DEFINE next == [[op EXCEPT !.left = op.left \ {s}] EXCEPT !.at = at]
    <3>1. lanes' = [lanes EXCEPT !["lights"] = next] /\ op = [f \in DOMAIN op |-> op[f]]
      BY <1>0, <2>2 DEF EditorTypeOK, OpOK
    <3>2. /\ DOMAIN next = DOMAIN op /\ next = [f \in DOMAIN next |-> next[f]] /\ next.at = at
          /\ \A f \in DOMAIN op \ {"at", "left"} : next[f] = op[f]
      BY <1>0, <2>1 DEF OpOK
    <3>3. HIDE DEF next
    <3>4. /\ {"kind", "method", "left", "at"} \subseteq DOMAIN op
          /\ next.kind = "clear" /\ next.method = op.method
      BY <1>0, <2>1, <3>2 DEF OpOK
    <3>5. OpOK(next)
      BY <2>1, <3>2, <3>4 DEF OpOK
    <3>6. QED
      BY <1>0, <2>2, <3>1, <3>2, <3>4, <3>5, LaneTakes
  <2>4. /\ savedLights' \in LightsCopy
        /\ \A t \in Songs, m \in Methods : m # op.method =>
               savedLights'.cues[t][m] = savedLights.cues[t][m]
    BY <1>0, <2>1 DEF PutCues, LightsCopy, CueMaps
  <2>5. ASSUME NEW x \in captured, calm
        PROVE  Kept(x)' /\ ~Quiet(lanes["lights"])' /\ Spared(lanes["lights"], x)'
    <3>1. Kept(x) /\ x.method # op.method
      BY <1>0, <2>1, <2>5, WhileOneLane DEF Spared
    <3>2. Kept(x)'
      BY <1>0, <2>4, <3>1 DEF Kept
    <3>3. QED
      BY <2>3, <3>1, <3>2 DEF Quiet, Spared
  <2>6. QED
    BY <1>0, <2>1, <2>3, <2>4, <2>5, LaneKeeps
<1>4. QED
  BY <1>1, <1>2, <1>3

\* What it does with one of the board, or of the pads.
LEMMA BoardServed ==
  ASSUME EditorInv, FirePad \/ AddCapture \/ ServeUndo \/ ServePads
  PROVE  EditorInv'
<1>0. /\ "board" \in Lanes /\ "pads" \in Lanes /\ OpOK(lanes["board"]) /\ savedLights \in LightsCopy
      /\ EditorTypeOK
      /\ heldLights \in LightsCopy /\ rows \in [Methods -> SUBSET Cues] /\ usedCues \subseteq Cues
      /\ \A x \in captured : x.song \in Songs /\ x.method \in Methods
  BY LaneNames DEF EditorInv, EditorTypeOK
<1> DEFINE op == lanes["board"]
<1>1. CASE FirePad
  <2>1. /\ op.kind = "press" /\ op.at = "sent" /\ lanes' = [lanes EXCEPT !["board"].at = "fired"]
        /\ UNCHANGED <<savedLights, heldLights, rows, editedSong, viewMethod, calm, usedCues,
                       captured>>
    BY <1>1 DEF FirePad, Answer
  <2>2. /\ lanes' = [k \in Lanes |-> lanes'[k]]
        /\ \A k \in Lanes \ {"board"} : lanes'[k] = lanes[k]
        /\ OpOK(lanes'["board"]) /\ lanes'["board"].kind = "press" /\ lanes'["board"].at = "fired"
    BY <1>0, <2>1, LaneHandled
  <2>3. ASSUME NEW x \in captured, calm
        PROVE  Kept(x)' /\ Held(x)' /\ Spared(lanes["board"], x)'
    <3>1. Kept(x) /\ Held(x)
      BY <1>0, <2>1, <2>3, WhileOneLane DEF Quiet
    <3>2. QED
      BY <2>1, <2>2, <3>1 DEF Kept, Held, Spared
  <2>4. QED
    BY <1>0, <2>1, <2>2, <2>3, LaneKeeps
<1>2. CASE AddCapture
  <2> DEFINE add == op.capture /\ usedCues # Cues
             next == [kind |-> "press", at |-> IF add THEN "done" ELSE "fire only",
                      song |-> op.song, cue |-> IF add THEN {NewCue} ELSE {}]
  <2>1. /\ op.kind = "press" /\ op.at = "fired" /\ op.song \in Songs /\ op.method \in Methods
        /\ lanes' = [lanes EXCEPT !["board"] = next]
        /\ UNCHANGED <<heldLights, rows, editedSong, viewMethod, calm>>
    BY <1>0, <1>2 DEF AddCapture, OpOK
  <2>2. /\ OpOK(next) /\ next.kind = "press" /\ next.at = IF add THEN "done" ELSE "fire only"
    BY DEF OpOK
  <2>3. /\ lanes' = [k \in Lanes |-> lanes'[k]] /\ lanes'["board"] = next
        /\ \A k \in Lanes \ {"board"} : lanes'[k] = lanes[k]
    <3>1. HIDE DEF next
    <3>2. QED
      BY <1>0, <2>1, LaneTakes
  <2>4. HIDE DEF next
  <2>5. CASE add
    <3>1. /\ NewCue \in Cues /\ usedCues' = usedCues \cup {NewCue}
          /\ savedLights' = [savedLights EXCEPT !.cues[op.song][op.method] = @ \cup {NewCue}]
          /\ captured' = captured \cup {[song |-> op.song, method |-> op.method, cue |-> NewCue]}
      BY <1>0, <1>2, <2>5, NewCueIsCue DEF AddCapture
    <3>2. /\ savedLights' \in LightsCopy /\ NewCue \in savedLights'.cues[op.song][op.method]
          /\ \A s \in Songs, m \in Methods : savedLights.cues[s][m] \subseteq savedLights'.cues[s][m]
      <4> DEFINE list == savedLights.cues[op.song][op.method] \cup {NewCue}
      <4>1. list \subseteq Cues
        BY <1>0, <2>1, <3>1 DEF LightsCopy, CueMaps
      <4>2. /\ savedLights' = [savedLights EXCEPT !.cues[op.song][op.method] = list]
            /\ NewCue \in list /\ savedLights.cues[op.song][op.method] \subseteq list
        BY <3>1
      <4>3. HIDE DEF list
      <4>4. QED
        BY <1>0, <2>1, <4>1, <4>2 DEF LightsCopy, CueMaps
    <3>3. \A x \in captured' : x.song \in Songs /\ x.method \in Methods
      BY <1>0, <2>1, <3>1
    <3>4. ASSUME NEW x \in captured', calm
          PROVE  Kept(x)' /\ ~Quiet(lanes["board"])' /\ Spared(lanes["board"], x)'
      <4>1. CASE x \in captured
        BY <1>0, <2>1, <3>2, <3>4, <4>1, WhileOneLane, <2>2, <2>3, <2>5
           DEF Kept, Quiet, Spared
      <4>2. CASE x \notin captured
        <5>1. x.song = op.song /\ x.method = op.method /\ x.cue = NewCue
          BY <3>1, <3>4, <4>2
        <5>2. Kept(x)'
          BY <3>2, <5>1 DEF Kept
        <5>3. QED
          BY <2>2, <2>3, <2>5, <5>2 DEF Quiet, Spared
      <4>3. QED
        BY <4>1, <4>2
    <3>5. usedCues' \subseteq Cues
      BY <1>0, <3>1
    <3>6. QED
      BY <1>0, <2>1, <2>2, <2>3, <3>2, <3>3, <3>4, <3>5, LaneKeeps
  <2>6. CASE ~add
    <3>1. UNCHANGED <<usedCues, savedLights, captured>>
      BY <1>2, <2>6 DEF AddCapture
    <3>2. ASSUME NEW x \in captured, calm
          PROVE  Kept(x)' /\ Held(x)' /\ Spared(lanes["board"], x)'
      <4>1. Kept(x) /\ Held(x)
        BY <1>0, <2>1, <3>2, WhileOneLane DEF Quiet
      <4>2. QED
        BY <2>1, <2>2, <2>3, <2>6, <3>1, <4>1 DEF Kept, Held, Spared
    <3>3. QED
      BY <1>0, <2>1, <2>2, <2>3, <3>1, <3>2, LaneKeeps
  <2>7. QED
    BY <2>5, <2>6
<1>3. CASE ServeUndo
  <2>1. /\ op.kind = "undo" /\ op.at = "sent" /\ lanes' = [lanes EXCEPT !["board"].at = "done"]
        /\ savedLights' = [savedLights EXCEPT !.cues[op.song] =
                              [m \in Methods |-> @[m] \ {op.cue}]]
        /\ UNCHANGED <<heldLights, rows, editedSong, viewMethod, calm, usedCues, captured>>
    BY <1>3 DEF ServeUndo, Answer, Handled
  <2>2. /\ lanes' = [k \in Lanes |-> lanes'[k]]
        /\ \A k \in Lanes \ {"board"} : lanes'[k] = lanes[k]
        /\ OpOK(lanes'["board"]) /\ lanes'["board"].kind = "undo" /\ lanes'["board"].at = "done"
        /\ lanes'["board"].cue = op.cue
    BY <1>0, <2>1, LaneHandled
  <2>3. /\ savedLights' \in LightsCopy
        /\ \A s \in Songs, m \in Methods :
               savedLights.cues[s][m] \ {op.cue} \subseteq savedLights'.cues[s][m]
    <3> DEFINE left == [m \in Methods |-> savedLights.cues[op.song][m] \ {op.cue}]
    <3>1. savedLights' = [savedLights EXCEPT !.cues[op.song] = left]
      BY <2>1
    <3>2. /\ savedLights'.cues = [savedLights.cues EXCEPT ![op.song] = left]
          /\ savedLights'.method = savedLights.method
          /\ savedLights' = [cues |-> savedLights'.cues, method |-> savedLights'.method]
      BY <1>0, <3>1 DEF LightsCopy
    <3>3. /\ savedLights.cues \in [Songs -> [Methods -> SUBSET Cues]]
          /\ savedLights.method \in Methods
      BY <1>0 DEF LightsCopy, CueMaps
    <3>4. op.song \in Songs => left \in [Methods -> SUBSET Cues]
      BY <3>3
    <3>5. \A m \in Methods : left[m] = savedLights.cues[op.song][m] \ {op.cue}
      OBVIOUS
    <3>6. HIDE DEF left
    <3>7. savedLights'.cues \in [Songs -> [Methods -> SUBSET Cues]]
      BY <3>2, <3>3, <3>4
    <3>8. \A s \in Songs, m \in Methods :
              savedLights.cues[s][m] \ {op.cue} \subseteq savedLights'.cues[s][m]
      BY <3>2, <3>3, <3>5
    <3>9. QED
      BY <3>2, <3>3, <3>7, <3>8 DEF LightsCopy, CueMaps
  <2>4. ASSUME NEW x \in captured, calm
        PROVE  Kept(x)' /\ ~Quiet(lanes["board"])' /\ Spared(lanes["board"], x)'
    <3>1. Kept(x) /\ x.cue # op.cue
      BY <1>0, <2>1, <2>4, WhileOneLane DEF Spared
    <3>2. Kept(x)'
      BY <1>0, <2>3, <3>1 DEF Kept
    <3>3. QED
      BY <2>2, <3>1, <3>2 DEF Quiet, Spared
  <2>5. QED
    BY <1>0, <2>1, <2>2, <2>3, <2>4, LaneKeeps
<1>4. CASE ServePads
  <2>1. /\ lanes["pads"].kind = "pads" /\ lanes["pads"].at = "sent"
        /\ lanes' = [lanes EXCEPT !["pads"].at = "done"]
        /\ UNCHANGED <<savedLights, heldLights, rows, editedSong, viewMethod, calm, usedCues,
                       captured>>
    BY <1>4 DEF ServePads, Answer, Handled
  <2>2. /\ lanes' = [k \in Lanes |-> lanes'[k]]
        /\ \A k \in Lanes \ {"pads"} : lanes'[k] = lanes[k]
        /\ OpOK(lanes'["pads"]) /\ lanes'["pads"].kind = "pads" /\ lanes'["pads"].at = "done"
    BY <1>0, <2>1, LaneHandled
  <2>3. ASSUME NEW x \in captured, calm
        PROVE  Kept(x)' /\ ~Quiet(lanes["pads"])' /\ Spared(lanes["pads"], x)'
    <3>1. Kept(x)
      BY <1>0, <2>1, <2>3, WhileOneLane
    <3>2. QED
      BY <2>1, <2>2, <3>1 DEF Kept, Quiet, Spared
  <2>4. QED
    BY <1>0, <2>1, <2>2, <2>3, LaneKeeps
<1>5. QED
  BY <1>1, <1>2, <1>3, <1>4


\* The settings are read for an operation that is done.
LEMMA SettingsServed ==
  ASSUME EditorInv, NEW l \in Lanes, ServeSettings(l)
  PROVE  EditorInv'
<1>1. /\ lanes[l].kind # "none" /\ lanes[l].at = "done"
      /\ UNCHANGED <<savedLights, heldLights, rows, editedSong, viewMethod, usedCues, captured,
                     calm>>
  BY DEF ServeSettings
<1>2. /\ lanes' = [k \in Lanes |-> lanes'[k]] /\ \A k \in Lanes \ {l} : lanes'[k] = lanes[k]
      /\ OpOK(lanes'[l]) /\ lanes'[l].kind = lanes[l].kind /\ lanes'[l].at = "read"
      /\ lanes'[l].view = savedLights
      /\ lanes[l].kind = "clear" => lanes'[l].method = lanes[l].method
      /\ lanes[l].kind = "undo" => lanes'[l].cue = lanes[l].cue
  BY LaneReads DEF EditorInv
<1>3. /\ savedLights \in LightsCopy /\ heldLights \in LightsCopy
      /\ rows \in [Methods -> SUBSET Cues] /\ usedCues \subseteq Cues
      /\ \A x \in captured : x.song \in Songs /\ x.method \in Methods
  BY DEF EditorInv, EditorTypeOK
<1>4. ASSUME NEW x \in captured, calm
      PROVE  Kept(x)' /\ (Quiet(lanes[l])' => Held(x)') /\ Spared(lanes[l], x)'
  <2>1. Kept(x) /\ Spared(lanes[l], x) /\ (Quiet(lanes[l]) => Held(x))
    BY <1>1, <1>4, WhileOneLane
  <2>2. Kept(x)' /\ (Held(x) => Held(x)')
    BY <1>1, <2>1 DEF Kept, Held
  <2>3. Quiet(lanes[l])' => Quiet(lanes[l])
    BY <1>2 DEF Quiet
  <2>4. Spared(lanes[l], x)'
    BY <1>1, <1>2, <2>1 DEF Spared
  <2>5. QED
    BY <2>1, <2>2, <2>3, <2>4
<1>5. QED
  BY <1>1, <1>2, <1>3, <1>4, LaneKeeps

\* The page takes them: copy and rows have what is captured.
LEMMA SettingsTaken ==
  ASSUME EditorInv, NEW l \in Lanes, TakeSettings(l)
  PROVE  EditorInv'
<1> DEFINE view == lanes[l].view
<1>1. /\ savedLights \in LightsCopy /\ heldLights \in LightsCopy /\ OpOK(lanes[l])
      /\ rows \in [Methods -> SUBSET Cues] /\ editedSong \in Songs /\ usedCues \subseteq Cues
      /\ \A x \in captured : x.song \in Songs /\ x.method \in Methods
  BY DEF EditorInv, EditorTypeOK
<1>2. /\ lanes[l].kind # "none" /\ lanes[l].at = "read" /\ view \in LightsCopy /\ Ends(l)
      /\ UNCHANGED <<savedLights, editedSong, usedCues, captured, calm>>
  BY <1>1 DEF TakeSettings, OpOK
<1>3. /\ heldLights' = view
      /\ viewMethod' = IF view.method # heldLights.method THEN view.method ELSE viewMethod
      /\ IF Mapless(heldLights, editedSong) /\ Mapless(view, editedSong)
           THEN rows' = rows ELSE rows' = view.cues[editedSong]
  BY DEF TakeSettings, Shows
<1>4. /\ lanes' = [k \in Lanes |-> lanes'[k]] /\ lanes'[l].kind = "none" /\ OpOK(lanes'[l])
      /\ \A k \in Lanes \ {l} : lanes'[k] = lanes[k]
  BY <1>2, LaneEnds DEF EditorInv
<1>5. HIDE DEF view
<1>6. view.cues \in [Songs -> [Methods -> SUBSET Cues]] /\ view.method \in Methods
  BY <1>2 DEF LightsCopy, CueMaps
<1>7. rows' \in [Methods -> SUBSET Cues] /\ viewMethod' \in Methods \cup {viewMethod}
  BY <1>1, <1>3, <1>6
<1>8. ASSUME NEW x \in captured, calm
      PROVE  Kept(x)' /\ (Quiet(lanes[l])' => Held(x)') /\ Spared(lanes[l], x)'
  <2>1. Kept(x) /\ view = savedLights
    BY <1>2, <1>8, WhileOneLane DEF Spared, view
  <2>2. Kept(x)'
    BY <1>2, <2>1 DEF Kept
  <2>3. x.song = editedSong => x.cue \in rows'[x.method]
    BY <1>1, <1>3, <2>1 DEF Kept, Mapless
  <2>4. Held(x)'
    BY <1>2, <1>3, <2>1, <2>3 DEF Kept, Held
  <2>5. QED
    BY <1>4, <2>2, <2>4 DEF Spared
<1>9. QED
  BY <1>1, <1>2, <1>3, <1>4, <1>7, <1>8, LaneKeeps

\* The page takes the answer of an operation that changed nothing.
LEMMA AnswerTaken ==
  ASSUME EditorInv, NEW l \in Lanes, TakeAnswer(l)
  PROVE  EditorInv'
<1>1. /\ lanes[l].kind # "none" /\ Quiet(lanes[l]) /\ Ends(l)
      /\ UNCHANGED <<savedLights, heldLights, rows, editedSong, viewMethod, usedCues, captured,
                     calm>>
  BY DEF TakeAnswer, Quiet
<1>2. /\ lanes' = [k \in Lanes |-> lanes'[k]] /\ lanes'[l].kind = "none" /\ OpOK(lanes'[l])
      /\ \A k \in Lanes \ {l} : lanes'[k] = lanes[k]
  BY <1>1, LaneEnds DEF EditorInv
<1>3. /\ savedLights \in LightsCopy /\ heldLights \in LightsCopy
      /\ rows \in [Methods -> SUBSET Cues] /\ usedCues \subseteq Cues
      /\ \A x \in captured : x.song \in Songs /\ x.method \in Methods
  BY DEF EditorInv, EditorTypeOK
<1>4. ASSUME NEW x \in captured, calm
      PROVE  Kept(x)' /\ Held(x)' /\ Spared(lanes[l], x)'
  <2>1. Kept(x) /\ Held(x)
    BY <1>1, <1>4, WhileOneLane
  <2>2. QED
    BY <1>1, <1>2, <2>1 DEF Kept, Held, Spared
<1>5. QED
  BY <1>1, <1>2, <1>3, <1>4, LaneKeeps

\* After an operation that fails, nothing is said of what is captured.
LEMMA FailureKeeps ==
  ASSUME EditorInv, NEW l \in Lanes, Fails(l)
  PROVE  EditorInv'
<1>1. /\ Ends(l) /\ calm' = FALSE
      /\ UNCHANGED <<savedLights, heldLights, rows, editedSong, viewMethod, usedCues, captured>>
  BY DEF Fails
<1>2. /\ lanes' = [k \in Lanes |-> lanes'[k]] /\ OpOK(lanes'[l])
      /\ \A k \in Lanes \ {l} : lanes'[k] = lanes[k]
  BY <1>1, LaneEnds DEF EditorInv
<1>3. EditorTypeOK'
  BY <1>1, <1>2 DEF EditorInv, EditorTypeOK
<1>4. QED
  BY <1>1, <1>3 DEF EditorInv, OneLane, CaptureInv

\* Every step of the editor keeps its invariant.
LEMMA EditorInvStep == EditorInv /\ [EditorNext]_editorVars => EditorInv'
<1> SUFFICES ASSUME EditorInv, [EditorNext]_editorVars PROVE EditorInv'
  OBVIOUS
<1>1. CASE UNCHANGED editorVars
  BY <1>1
     DEF editorVars, EditorInv, EditorTypeOK, OneLane, Idle, CaptureInv, Kept, Held, Quiet,
         Spared
<1>2. CASE EditorNext
  BY <1>2, RowEdits, OtherStarts, ScreenEdits, LightsServed, BoardServed, SettingsServed,
     SettingsTaken, AnswerTaken, FailureKeeps
     DEF EditorNext
<1>3. QED
  BY <1>1, <1>2

\* It holds before the first operation.
LEMMA EditorInvInit == EditorInit => EditorInv
<1> SUFFICES ASSUME EditorInit PROVE EditorInv
  OBVIOUS
<1> DEFINE none == [s \in Songs |-> [m \in Methods |-> {}]]
<1>1. none \in [Songs -> [Methods -> SUBSET Cues]] /\ "osc" \in Methods
  BY DEF Methods
<1>2. savedLights = [cues |-> none, method |-> "osc"] /\ heldLights = savedLights
  BY DEF EditorInit
<1>3. HIDE DEF none
<1>4. savedLights \in LightsCopy /\ heldLights \in LightsCopy
  BY <1>1, <1>2 DEF LightsCopy, CueMaps
<1>5. editedSong \in Songs /\ viewMethod \in Methods
  BY <1>1, LightingEditorAssumption DEF EditorInit
<1>6. /\ rows \in [Methods -> SUBSET Cues] /\ usedCues = {} /\ captured = {}
      /\ lanes = [l \in Lanes |-> Free]
  BY DEF EditorInit
<1>7. OpOK(Free) /\ Free.kind = "none"
  BY DEF OpOK, Free
<1>8. \A l \in Lanes : lanes[l] = Free
  BY <1>6
<1>9. EditorTypeOK
  BY <1>4, <1>5, <1>6, <1>7, <1>8 DEF EditorTypeOK
<1>10. QED
  BY <1>6, <1>7, <1>8, <1>9 DEF EditorInv, OneLane, Idle, CaptureInv

\* The panel's and the backend's copies keep pace as the invariant says, whatever the songs
\* and cues and however many operations are started (LightingSetupPanel.tsx).
THEOREM EditorInvariant == EditorSpec => []EditorInv
<1>1. QED
  BY EditorInvInit, EditorInvStep, PTL DEF EditorSpec

\* While the operator waits for each operation and none fails, a captured cue stays saved
\* until the operator takes it away: no list sent from the rows and no edit of another song
\* or method drops it (LightingSetupPanel.tsx, persistCues and capturePad).
THEOREM CapturesAlwaysStay == EditorSpec => []CapturesStay
<1>1. EditorInv => CapturesStay
  BY DEF EditorInv, CaptureInv, Kept, CapturesStay
<1>2. QED
  BY <1>1, EditorInvariant, PTL

-----------------------------------------------------------------------------
(* Connection Access (AccessSwitch): the inductive invariant.               *)

\* Between two saves a choice that is held is the file's, and is held only when the shell
\* names the address; without one the settings copy has what is in force or, unless the last
\* save failed, what the file has. A save carries the choice that is held, and has written
\* what it carries.
AccessInv ==
    /\ IF HostSetByShell THEN savedLan = lanBound ELSE ~overwritten
    /\ lanSave = Nothing =>
          /\ ~overwritten => chosenLan \in {Nothing, <<lanFile>>}
          /\ ~HostSetByShell => chosenLan = Nothing /\ (lanFailed \/ savedLan = lanFile)
    /\ lanSave # Nothing =>
          /\ lanSave = <<lanSave[1]>>
          /\ lanSave[1] = [lan |-> lanSave[1].lan, step |-> lanSave[1].step]
          /\ lanSave[1].step \in {"sent", "written"}
          /\ ~overwritten => chosenLan \in {Nothing, <<lanSave[1].lan>>}
          /\ lanSave[1].step = "written" => lanFile = lanSave[1].lan

\* What a choice, or the render after Remote Access has switched, does to the setting.
LEMMA ChoiceKeeps ==
  ASSUME AccessInv, UNCHANGED <<lanFile, lanBound>>,
         UNCHANGED networkVars \/ \E lan : SaveLan(lan)
  PROVE  AccessInv'
<1>1. CASE UNCHANGED networkVars
  BY <1>1 DEF AccessInv, networkVars
<1>2. ASSUME NEW lan, SaveLan(lan) PROVE AccessInv'
  <2>1. CASE UNCHANGED networkVars
    BY <2>1 DEF AccessInv, networkVars
  <2>2. CASE /\ lanSave' = <<[lan |-> lan, step |-> "sent"]>> /\ chosenLan' = <<lan>>
             /\ savedLan' = savedLan /\ overwritten' = FALSE
    <3>1. lanSave' # Nothing /\ lanSave'[1] = [lan |-> lan, step |-> "sent"]
      BY <2>2 DEF Nothing
    <3>2. QED
      BY <2>2, <3>1 DEF AccessInv
  <2>3. QED
    BY <1>2, <2>1, <2>2 DEF SaveLan
<1>3. QED
  BY <1>1, <1>2

\* A render chooses for itself at most once.
LEMMA RenderChooses ==
  ASSUME Rendered PROVE UNCHANGED networkVars \/ \E lan : SaveLan(lan)
BY DEF Rendered

\* Every step of the panel keeps its invariant.
LEMMA AccessInvStep == AccessInv /\ [AccessNext]_accessVars => AccessInv'
<1> SUFFICES ASSUME AccessInv, [AccessNext]_accessVars PROVE AccessInv'
  OBVIOUS
<1>1. CASE RemoteMoves \/ RemoteStarts \/ RemoteErrs
  BY <1>1, RenderChooses, ChoiceKeeps DEF RemoteMoves, RemoteStarts, RemoteErrs
<1>2. CASE ChooseInternet \/ UNCHANGED accessVars
  BY <1>2, ChoiceKeeps DEF ChooseInternet, accessVars
<1>3. ASSUME NEW next \in AccessChoices, LeaveInternet(next) \/ ChooseNetwork(next)
      PROVE  AccessInv'
  <2>1. /\ UNCHANGED <<lanFile, lanBound>>
        /\ UNCHANGED networkVars \/ SaveLan(next = "network")
    BY <1>3 DEF LeaveInternet, ChooseNetwork
  <2>2. QED
    BY <2>1, ChoiceKeeps
<1>4. CASE SaveOther
  <2>1. /\ lanSave = Nothing /\ lanSave' = <<[lan |-> savedLan, step |-> "sent"]>>
        /\ chosenLan' = chosenLan /\ overwritten' = (chosenLan # Nothing)
        /\ UNCHANGED <<lanBound, savedLan>>
    BY <1>4 DEF SaveOther
  <2>2. lanSave' # Nothing /\ lanSave'[1] = [lan |-> savedLan, step |-> "sent"]
    BY <2>1 DEF Nothing
  <2>3. QED
    BY <2>1, <2>2 DEF AccessInv
<1>5. CASE SaveWritten
  <2> DEFINE save == [lanSave[1] EXCEPT !.step = "written"]
  <2>1. /\ lanSave # Nothing /\ lanSave' = <<save>> /\ lanFile' = lanSave[1].lan
        /\ UNCHANGED <<chosenLan, overwritten, lanBound, savedLan>>
    BY <1>5 DEF SaveWritten
  <2>2. save = [lan |-> lanSave[1].lan, step |-> "written"]
    BY <2>1 DEF AccessInv
  <2>3. HIDE DEF save
  <2>4. lanSave' # Nothing /\ lanSave'[1] = save
    BY <2>1 DEF Nothing
  <2>5. QED
    BY <2>1, <2>2, <2>4 DEF AccessInv
<1>6. CASE SaveShown
  <2>1. /\ lanSave # Nothing /\ lanSave[1].step = "written" /\ lanSave' = Nothing
        /\ savedLan' = Reported /\ lanFile' = lanFile /\ lanFailed' = lanFailed
        /\ UNCHANGED <<lanBound, overwritten>>
        /\ chosenLan' = IF chosenLan = <<savedLan'>> THEN Nothing ELSE chosenLan
    BY <1>6 DEF SaveShown
  <2>2. /\ lanFile = lanSave[1].lan /\ ~overwritten => chosenLan \in {Nothing, <<lanFile>>}
        /\ savedLan' = IF HostSetByShell THEN lanBound ELSE lanFile
    BY <2>1 DEF Reported, AccessInv
  <2>3. QED
    BY <2>1, <2>2 DEF AccessInv
<1>7. CASE SaveFails \/ BackendRestarts
  BY <1>7 DEF SaveFails, BackendRestarts, AccessInv
<1>8. QED
  BY <1>1, <1>2, <1>3, <1>4, <1>5, <1>6, <1>7 DEF AccessNext

\* What the switch shows is true of the file or of what is in force, whether or not the shell
\* names the address, however saves fail and Remote Access is switched in between; a save of
\* something else while a choice is held, which puts the old setting back, is excepted
\* (components/BackendSetupPanel.tsx, saveLan and the effect after every render).
THEOREM SwitchShowsNothingUntrue == AccessSpec => []ShowsNothingUntrue
<1>1. AccessInit => AccessInv
  BY DEF AccessInit, AccessInv
<1>2. AccessInv => ShowsNothingUntrue
  BY DEF AccessInv, ShowsNothingUntrue, ShownLan
<1>3. QED
  BY <1>1, <1>2, AccessInvStep, PTL DEF AccessSpec

=============================================================================
