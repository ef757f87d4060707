------------------------------ MODULE Cockpit ------------------------------
(***************************************************************************)
(* A browser's dashboard and the backend it shows (frontend/src:           *)
(* DashboardAccessGate.tsx, access/accessState.ts, api.ts and the          *)
(* connection half of hooks/useStagePilot.ts).  The page signs in, mounts  *)
(* the dashboard, opens a WebSocket on which the backend pushes snapshots, *)
(* and reads the state and its panels over HTTP.  Answers come late and    *)
(* out of order, the backend crashes and starts again, sessions end.       *)
(*                                                                         *)
(* Abstracted: one panel stands for the five that load and retry alike,    *)
(* delays are left to fairness, and the user may do everything.            *)
(***************************************************************************)
EXTENDS Naturals, Sequences, FiniteSets

CONSTANTS
    MaxRuns,      \* bound: starts of the backend
    MaxRevision,  \* bound: state changes of one run
    MaxSignIns,   \* bound: sign-ins
    MaxRequests   \* bound: requests on their way when another is sent

ASSUME CockpitAssumption == {MaxRuns, MaxRevision, MaxSignIns, MaxRequests} \subseteq Nat

VARIABLES
    backend,      \* the backend: is it up, its start and its StateStore.revision
    session,      \* the backend knows this browser's session
    taken,        \* that session is another's, which took the place of this page's
    signedIn,     \* the gate shows the dashboard (access.authenticated)
    generation,   \* accessState.generation: it tells the sign-ins apart
    login,        \* a sign-in, or the check on loading the page, is under way
    socket,       \* the WebSocket of this dashboard
    wire,         \* snapshots sent on it and not yet received
    requests,     \* HTTP requests not yet answered to the page
    shown,        \* state: the snapshot on the screen
    panel         \* a configuration panel: empty, answered, or cannot reach StagePilot

cockpitVars == <<backend, session, taken, signedIn, generation, login, socket, wire, requests,
                 shown, panel>>
gateVars == <<signedIn, generation, login>>

NoSnapshot   == [run |-> 0, revision |-> 0]
Snapshot  == [run |-> backend.run, revision |-> backend.revision]

CockpitInit ==
    /\ backend = [up |-> TRUE, run |-> 1, revision |-> 1]
    /\ session = TRUE /\ taken = FALSE /\ signedIn = FALSE /\ generation = 0 /\ login = "none"
    /\ socket = "closed" /\ wire = <<>> /\ requests = {}
    /\ shown = NoSnapshot /\ panel = "empty"

-----------------------------------------------------------------------------
(* The backend.                                                             *)

Crash ==
    /\ backend.up
    /\ backend' = [backend EXCEPT !.up = FALSE]
    /\ socket' = (IF socket = "open" THEN "lost" ELSE socket) /\ wire' = <<>>
    /\ UNCHANGED <<session, taken, gateVars, requests, shown, panel>>

\* A new run counts its revisions from the start again.
Boot ==
    /\ ~backend.up /\ backend.run < MaxRuns
    /\ backend' = [up |-> TRUE, run |-> backend.run + 1, revision |-> 1]
    /\ UNCHANGED <<session, taken, gateVars, socket, wire, requests, shown, panel>>

Change ==
    /\ backend.up /\ backend.revision < MaxRevision
    /\ backend' = [backend EXCEPT !.revision = @ + 1]
    /\ wire' = IF socket = "open"
               THEN Append(wire, [Snapshot EXCEPT !.revision = @ + 1]) ELSE wire

Publish ==
    /\ Change
    /\ UNCHANGED <<session, taken, gateVars, socket, requests, shown, panel>>

\* The session expires, or is revoked; the stream is closed with 4401.
EndsSession ==
    /\ session' = FALSE
    /\ socket' = (IF socket = "open" THEN "refused" ELSE socket) /\ wire' = <<>>
    /\ taken' = FALSE
    /\ UNCHANGED backend
EndSession ==
    /\ backend.up /\ session
    /\ EndsSession
    /\ UNCHANGED <<gateVars, requests, shown, panel>>

\* Another page of this browser signs in as somebody else: the cookie that both send is
\* the new session's, and the old session, with the stream it opened, is over.
OtherSignIn ==
    /\ backend.up /\ signedIn /\ ~taken
    /\ session' = TRUE /\ taken' = TRUE
    /\ socket' = (IF socket = "open" THEN "refused" ELSE socket) /\ wire' = <<>>
    /\ UNCHANGED <<backend, gateVars, requests, shown, panel>>

-----------------------------------------------------------------------------
(* Signing in and out.                                                      *)

\* check and submit of the gate: the sign-in, and then GET /access.
SignIn ==
    /\ ~signedIn /\ login = "none" /\ generation < 2 * MaxSignIns - 1
    /\ login' = "asked"
    /\ UNCHANGED <<backend, session, taken, signedIn, generation, socket, wire, requests, shown,
                   panel>>

Room == Cardinality(requests) < MaxRequests
Request(kind) == [kind |-> kind, of |-> generation', answer |-> "none", state |-> NoSnapshot]
Send(kinds) == requests' = requests \cup {Request(k) : k \in kinds}

\* accept: a new generation, and the dashboard mounts: it reads the state, loads
\* its panels and connects.
Accept ==
    /\ login = "asked" /\ backend.up /\ Room
    /\ session' = TRUE /\ taken' = FALSE /\ signedIn' = TRUE /\ login' = "none"
    /\ generation' = generation + 1
    /\ Send({"state", "panel"})
    /\ socket' = "connecting" /\ wire' = <<>>
    /\ shown' = NoSnapshot /\ panel' = "empty"
    /\ UNCHANGED backend

SignInFails ==
    /\ login = "asked"
    /\ login' = "none"
    /\ UNCHANGED <<backend, session, taken, signedIn, generation, socket, wire, requests, shown,
                   panel>>

\* Mutant: any 401 ends the sign-in.
InForce_Any(expected) == TRUE

\* invalidateAccess(expected), the gate's listener and stopForAuth: nothing
\* happens unless `expected` is the sign-in in force; a sign-in under way is void.
InForce(expected) == expected = generation
StopForAuth ==
    /\ generation' = generation + 1
    /\ signedIn' = FALSE /\ taken' = FALSE /\ login' = "none"
    /\ socket' = "closed" /\ wire' = <<>>
    /\ shown' = NoSnapshot /\ panel' = "empty"

\* The timer that runs until access.expires_at.
Expire ==
    /\ signedIn
    /\ StopForAuth
    /\ session' = FALSE
    /\ UNCHANGED <<backend, requests>>

\* signOut asks the backend first.
SignOut ==
    /\ signedIn /\ Room
    /\ ~\E r \in requests : r.kind = "logout"
    /\ UNCHANGED gateVars /\ Send({"logout"})
    /\ UNCHANGED <<backend, session, taken, socket, wire, shown, panel>>

-----------------------------------------------------------------------------
(* The WebSocket: connect, onopen, onmessage, onclose.                      *)

Opens ==
    /\ socket = "connecting" /\ backend.up /\ session
    /\ Room
    /\ socket' = "open" /\ wire' = <<Snapshot>>
    /\ UNCHANGED gateVars /\ Send({"state"})
    /\ UNCHANGED <<backend, session, taken, shown, panel>>

\* Mutant: a handshake that fails is not tried again.
Rejected_GivesUp ==
    /\ socket = "connecting" /\ ~(backend.up /\ session)
    /\ socket' = "given up"
    /\ UNCHANGED <<backend, session, taken, gateVars, wire, requests, shown, panel>>

\* An HTTP refusal of the handshake looks like a lost network: code 1006.
Rejected ==
    /\ socket = "connecting" /\ ~(backend.up /\ session)
    /\ socket' = "lost"
    /\ UNCHANGED <<backend, session, taken, gateVars, wire, requests, shown, panel>>

\* Mutant: the latest answer to come is the one shown.
Applied_Latest(s) == s

\* applyState: the state with the higher revision stays.
Applied(s) == IF shown = NoSnapshot \/ s.revision >= shown.revision THEN s ELSE shown

Message ==
    /\ socket = "open" /\ wire # <<>>
    /\ shown' = Applied(Head(wire))
    /\ wire' = Tail(wire)
    /\ UNCHANGED <<backend, session, taken, gateVars, socket, requests, panel>>

\* onclose with 4401 or 4403.
ClosedForAuth ==
    /\ socket = "refused"
    /\ StopForAuth
    /\ UNCHANGED <<backend, session, requests>>

\* onclose with 1006: GET /access, and unless that says that the session is over, or is one
\* that may do other things, or cannot be asked, the delay before the next attempt.
AskAccess ==
    /\ socket = "lost"
    /\ \/ backend.up /\ (~session \/ taken) /\ StopForAuth
       \/ /\ ~backend.up \/ session
          /\ socket' = "waiting"
          /\ UNCHANGED <<taken, gateVars, wire, shown, panel>>
    /\ UNCHANGED <<backend, session, requests>>

Reconnect ==
    /\ socket = "waiting"
    /\ socket' = "connecting"
    /\ UNCHANGED <<backend, session, taken, gateVars, wire, requests, shown, panel>>

-----------------------------------------------------------------------------
(* HTTP: requestJson, and what its callers do with the answer.              *)

\* What the user asks for (dispatch, selectPlan, the test of the Planning Center access): one
\* at a time, useSingleFlight.
Act ==
    /\ signedIn /\ shown # NoSnapshot
    /\ Room
    /\ ~\E r \in requests : r.kind = "act" /\ r.of = generation
    /\ UNCHANGED gateVars /\ Send({"act"})
    /\ UNCHANGED <<backend, session, taken, socket, wire, shown, panel>>

\* retryLoads, by the timer of the panels that could not reach StagePilot, and at
\* once when the live connection is back.
Retry ==
    /\ signedIn /\ panel = "offline"
    /\ Room
    /\ UNCHANGED gateVars /\ Send({"panel"})
    /\ UNCHANGED <<backend, session, taken, socket, wire, shown, panel>>

Reply(r, answer, s) ==
    requests' = (requests \ {r}) \cup {[r EXCEPT !.answer = answer, !.state = s]}

\* The backend handles a request, or cannot be reached.  An action may change nothing,
\* and one that asks Planning Center answers with the 401 or 403 that Planning Center gives.
\* With another's session actions are forbidden (they carry the old session's token), and so
\* are the panels when that is a viewer's: a 403, which the page takes like a 401.
Serve(r) ==
    /\ r \in requests /\ r.answer = "none"
    /\ UNCHANGED <<gateVars, shown, panel>>
    /\ \/ /\ ~backend.up \/ ~session
          /\ Reply(r, IF backend.up THEN "401" ELSE "offline", NoSnapshot)
          /\ UNCHANGED <<backend, session, taken, socket, wire>>
       \/ /\ backend.up /\ session
          /\ \/ /\ r.kind = "state" /\ Reply(r, "ok", Snapshot)
                /\ UNCHANGED <<backend, session, taken, socket, wire>>
             \/ /\ r.kind = "act" /\ ~taken /\ (Change \/ UNCHANGED <<backend, wire>>)
                /\ Reply(r, "ok", Snapshot')
                /\ UNCHANGED <<session, taken, socket>>
             \/ /\ r.kind = "logout" /\ ~taken /\ EndsSession /\ Reply(r, "ok", NoSnapshot)
             \/ /\ r.kind = "panel" /\ Reply(r, "ok", NoSnapshot)
                /\ UNCHANGED <<backend, session, taken, socket, wire>>
             \/ /\ r.kind # "state" /\ taken /\ Reply(r, "401", NoSnapshot)
                /\ UNCHANGED <<backend, session, taken, socket, wire>>
             \/ /\ r.kind = "act" /\ ~taken /\ Reply(r, "denied", NoSnapshot)
                /\ UNCHANGED <<backend, session, taken, socket, wire>>

\* Mutant: an answer finds the dashboard that is on screen.
Mounted_Always(r) == TRUE

\* An answer for an earlier dashboard finds it unmounted.
Mounted(r) == signedIn /\ r.of = generation

\* The answer that the page gets ends the sign-in: any 401 or 403 to a request of that
\* sign-in, and the end of a sign-out whatever the sign-in is by now.
EndsSignIn(r) ==
    \/ r.answer \in {"401", "denied"} /\ InForce(r.of)
    \/ r.kind = "logout" /\ r.answer = "ok"
ReceiveEnd(r) ==
    /\ r \in requests /\ EndsSignIn(r)
    /\ StopForAuth
    /\ requests' = requests \ {r}
    /\ UNCHANGED <<backend, session>>

\* refresh loads the settings panel once the state has come.
ReceiveState(r) ==
    /\ r \in requests /\ r.answer # "none" /\ ~EndsSignIn(r) /\ r.kind # "panel"
    /\ UNCHANGED gateVars
    /\ IF Mounted(r) /\ r.answer = "ok" /\ r.kind \in {"state", "act"}
       THEN /\ shown' = Applied(r.state)
            /\ requests' = (requests \ {r}) \cup
                          (IF r.kind = "state" THEN {Request("panel")} ELSE {})
       ELSE requests' = requests \ {r} /\ UNCHANGED shown
    /\ UNCHANGED <<backend, session, taken, socket, wire, panel>>
ReceivePanel(r) ==
    /\ r \in requests /\ r.answer # "none" /\ ~EndsSignIn(r) /\ r.kind = "panel"
    /\ requests' = requests \ {r}
    /\ panel' = IF ~Mounted(r) THEN panel
                ELSE IF r.answer = "offline" THEN "offline" ELSE "answered"
    /\ UNCHANGED <<backend, session, taken, gateVars, socket, wire, shown>>

CockpitNext ==
    \/ Crash \/ Boot \/ Publish \/ EndSession \/ OtherSignIn
    \/ SignIn \/ Accept \/ SignInFails \/ Expire \/ SignOut
    \/ Opens \/ Rejected \/ Message \/ ClosedForAuth \/ AskAccess \/ Reconnect
    \/ Act \/ Retry
    \/ \E r \in requests : Serve(r)
    \/ \E r \in requests : ReceiveEnd(r)
    \/ \E r \in requests : ReceiveState(r)
    \/ \E r \in requests : ReceivePanel(r)

CockpitSpec == CockpitInit /\ [][CockpitNext]_cockpitVars

Received(r) == ReceiveEnd(r) \/ ReceiveState(r) \/ ReceivePanel(r)
Answered(r) == Serve(r) \/ Received(r)
Current(kind) == {r \in requests : r.kind = kind /\ r.of = generation}

\* Timers run out, and what is sent is answered, if only with an error.
CockpitFairness ==
    /\ WF_cockpitVars(Opens \/ Rejected \/ ClosedForAuth \/ AskAccess \/ Reconnect)
    /\ WF_cockpitVars(Message) /\ WF_cockpitVars(Retry)
    /\ WF_cockpitVars(\E r \in Current("panel") : Serve(r))
    /\ WF_cockpitVars(\E r \in Current("panel") : Received(r))
    /\ \A kind \in {"state", "act", "logout"} :
           WF_cockpitVars(\E r \in Current(kind) : Answered(r))
    /\ WF_cockpitVars(\E r \in requests : r.of # generation /\ Answered(r))

-----------------------------------------------------------------------------
(* Properties.                                                              *)

\* Snapshots come on the WebSocket, with the answers to actions and with reads of
\* the state, in any order: the screen never goes back to an earlier state of the
\* backend that is running.
NeverGoesBack ==
    [][signedIn' /\ shown.run = shown'.run => shown'.revision >= shown.revision]_cockpitVars

\* Nothing of the show stays, or comes back with a late answer, on the screen of a
\* browser that is not signed in, however a sign-in ended.
SignedOutShowsNothing ==
    ~signedIn => shown = NoSnapshot /\ panel = "empty" /\ socket = "closed"

\* A sign-in ends when its session is over or no longer the browser's, and never because of
\* an answer to a request of an earlier sign-in. Excepted are a sign-out that is answered
\* late, and a refusal of Planning Center's own (routes.py:295, playback.py:401) to a request
\* of this sign-in: the page takes it for the end of the session (api.ts:123).
SignInStands ==
    [][signedIn /\ ~signedIn' =>
           \/ ~session' \/ taken
           \/ \E r \in requests : r.kind = "logout"
           \/ \E r \in requests : r.answer = "denied" /\ r.of = generation]_cockpitVars

\* Once the backend stays up, the live connection comes back, and no panel keeps
\* saying that StagePilot cannot be reached.
ComesBack ==
    <>[](backend.up /\ session /\ signedIn) =>
        <>[](socket = "open" /\ panel = "answered")
=============================================================================
