----------------------------- MODULE PlaybackInput -----------------------------
(***************************************************************************)
(* The song input of the backend (plugins/playback_api/plugin.py): which   *)
(* of MIDI and the Playback API drives the timer, and the requests that    *)
(* change it while observations of Playback wait to be carried out.        *)
(*                                                                         *)
(* A change of the input holds the lifecycle lock and, from the moment it  *)
(* stops the old input until the new one is started, the dispatch lock,    *)
(* which the consumer holds for each observation.  A scan of the network   *)
(* is a task: the latest is cancelled through its own event and awaited.   *)
(* The generation of the input and the revision of the mapper are counters *)
(* that an observation is compared with; here each observation carries     *)
(* whether they have moved since it was received.                          *)
(***************************************************************************)
EXTENDS Naturals, Sequences, FiniteSets

CONSTANTS
    Callers,        \* requests that may be under way together
    Scans,          \* tasks that scan, each at most once
    MaxRequests,    \* bound: requests
    MaxObserved,    \* bound: observations and changes at Playback
    QueueBound      \* of the observations

ASSUME PlaybackAssumption ==
    /\ Callers \cap Scans = {} /\ Scans # {}
    /\ {"nobody", "consumer"} \cap (Callers \cup Scans) = {}
    /\ {MaxRequests, MaxObserved, QueueBound} \subseteq Nat

NoActor == "nobody"
Actors == Callers \cup Scans
InputMethods == {"midi", "api"}
AtRest == [at |-> "idle", job |-> "none", for |-> "midi", waits |-> NoActor]

VARIABLES
    inputChosen,        \* settings in force: the selected input
    storedChoice,  \* the same in the settings file
    inputRuns,          \* _running
    receiving,     \* _active: what the client observes counts
    client,        \* is there a client that receives?
    linked,        \* is it connected to Playback?
    midiRuns,      \* is the MIDI input started?
    midiActs,      \* is its consumer carrying out a cue?
    lifecycle,     \* the holder of _lifecycle
    dispatching,   \* the holder of _dispatch_lock
    jobs,          \* requests and scans: the await each is at
    scanTask,      \* _scan_task
    latestScan,    \* the scan whose event is _scan_cancel
    cancelled,     \* scans whose own event has been set
    observed,      \* the queue
    consumer,      \* the observation in hand, and the await it is at
    discovery,     \* "idle", "running", "cancelled", "done", "failed"
    setlistKept,   \* has the setlist stayed the same since the discovery began?
    orderValid,    \* is the saved order that of the setlist Playback has?
    order,         \* the mapper's: "unseen" since installed, "matches" or "stale"
    requests, seen,
    scansCrossed,       \* history: two requests that cancel the scan overlapped
    misled         \* history: an action was begun on what no longer held

settingsVars == <<inputChosen, storedChoice>>
inputVars == <<inputRuns, receiving, client, linked, midiRuns, midiActs>>
lockVars == <<lifecycle, dispatching, jobs, requests>>
scanVars == <<scanTask, latestScan, cancelled, scansCrossed>>
actionVars == <<observed, consumer, misled>>
orderVars == <<discovery, setlistKept, orderValid, order>>
playbackVars == <<settingsVars, inputVars, lockVars, scanVars, actionVars, orderVars, seen>>

FreshItem == [rev |-> TRUE, gen |-> TRUE, quiet |-> FALSE, same |-> TRUE]

PlaybackInit ==
    /\ inputChosen \in InputMethods /\ storedChoice = inputChosen /\ inputRuns = TRUE
    /\ receiving = (inputChosen = "api") /\ client = receiving
    /\ linked = receiving
    /\ midiRuns = (inputChosen = "midi") /\ midiActs = FALSE
    /\ lifecycle = NoActor /\ dispatching = NoActor
    /\ jobs = [a \in Actors |-> AtRest]
    /\ scanTask = NoActor /\ latestScan = NoActor /\ cancelled = {}
    /\ observed = <<>> /\ consumer = [at |-> "idle", item |-> FreshItem]
    /\ discovery = "idle" /\ setlistKept = TRUE
    /\ orderValid = TRUE /\ order = IF linked THEN "matches" ELSE "unseen"
    /\ requests = 0 /\ seen = 0 /\ scansCrossed = FALSE /\ misled = FALSE

Reaches(a, at) == jobs' = [jobs EXCEPT ![a].at = at]
Returns(a) == jobs' = [jobs EXCEPT ![a] = AtRest]

(***************************************************************************)
(* What happens to the observations that wait and the one in hand.         *)
(***************************************************************************)
Marked(i, marks) == [i EXCEPT !.rev = @ /\ "rev" \notin marks, !.gen = @ /\ "gen" \notin marks,
                              !.same = @ /\ "same" \notin marks]

\* "rev" and "gen" are what the code counts, "same" what an action depends on.
Marks(marks) ==
    /\ observed' = [i \in DOMAIN observed |-> Marked(observed[i], marks)]
    /\ consumer' = [consumer EXCEPT !.item = Marked(@, marks)]

\* The connection to Playback: _observe, discard_pending.
LinkUp ==
    /\ client /\ receiving /\ ~linked /\ linked' = TRUE /\ seen < MaxObserved
    /\ seen' = seen + 1
    /\ order' = CASE order # "stale" /\ orderValid -> "matches" [] OTHER -> "stale"
    /\ Marks({"rev", "same"})
    /\ UNCHANGED <<settingsVars, inputRuns, receiving, client, midiRuns, midiActs, lockVars, scanVars,
                   misled, discovery, setlistKept, orderValid>>

LinkDown ==
    /\ client /\ receiving /\ linked /\ linked' = FALSE
    /\ Marks({"rev", "same"})
    /\ UNCHANGED <<settingsVars, inputRuns, receiving, client, midiRuns, midiActs, lockVars, scanVars,
                   misled, orderVars, seen>>

\* The setlist is edited at Playback, or put back.  A heartbeat tells: an order that has
\* been found stale once is not trusted again.
SetlistChanges ==
    /\ seen < MaxObserved /\ seen' = seen + 1
    /\ orderValid' = ~orderValid /\ setlistKept' = FALSE
    /\ IF linked /\ receiving
       THEN order' = "stale" /\ Marks({"rev", "same"})
       ELSE UNCHANGED <<order, observed, consumer>>
    /\ UNCHANGED <<settingsVars, inputVars, lockVars, scanVars, misled, discovery>>

\* A song starts at Playback; a full queue drops what it is told.
Observes ==
    /\ linked /\ receiving /\ seen < MaxObserved /\ seen' = seen + 1
    /\ Len(observed) < QueueBound
    /\ observed' = Append(observed, [FreshItem EXCEPT !.quiet = (discovery = "running")])
    /\ UNCHANGED <<settingsVars, inputVars, lockVars, scanVars, consumer, misled, orderVars>>

(***************************************************************************)
(* The consumer, and a cue that the MIDI input carries out.                *)
(***************************************************************************)
ConsumerRests == consumer' = [at |-> "idle", item |-> FreshItem]
ConsumerUnchanged == UNCHANGED <<settingsVars, inputVars, lifecycle, jobs, requests, scanVars,
                                 orderVars, seen>>

TakesObserved ==
    /\ inputRuns /\ consumer.at = "idle" /\ observed # <<>>
    /\ consumer' = [at |-> "locking", item |-> Head(observed)] /\ observed' = Tail(observed)
    /\ UNCHANGED <<dispatching, misled>> /\ ConsumerUnchanged

\* Mutant: only the generation of the input is compared.
InForce_ByGeneration(i) == receiving /\ linked /\ i.gen

\* The generation, the ownership, then the mapper's revision and the discovery.
InForce(i) ==
    /\ receiving /\ i.gen /\ linked
    /\ ~i.quiet /\ discovery \notin {"running", "cancelled"} /\ i.rev

\* Under the dispatch lock; the state is read before the action is looked up.
ConsumerLocks ==
    /\ consumer.at = "locking" /\ dispatching = NoActor
    /\ IF InForce(consumer.item)
       THEN consumer' = [consumer EXCEPT !.at = "reading"] /\ dispatching' = "consumer"
       ELSE ConsumerRests /\ UNCHANGED dispatching
    /\ UNCHANGED <<observed, misled>> /\ ConsumerUnchanged

\* The order must still match: what follows is the reservation and the action itself.
ConsumerActs ==
    /\ consumer.at = "reading"
    /\ IF InForce(consumer.item) /\ order = "matches"
       THEN /\ consumer' = [consumer EXCEPT !.at = "acting"] /\ UNCHANGED dispatching
            /\ misled' = (misled \/ ~consumer.item.same \/ ~orderValid)
       ELSE ConsumerRests /\ dispatching' = NoActor /\ UNCHANGED misled
    /\ UNCHANGED observed /\ ConsumerUnchanged

\* A stop needs no order.
ConsumerStops ==
    /\ consumer.at = "reading" /\ InForce(consumer.item)
    /\ consumer' = [consumer EXCEPT !.at = "acting"]
    /\ UNCHANGED <<dispatching, observed, misled>> /\ ConsumerUnchanged

ActionEnds ==
    /\ consumer.at = "acting" /\ ConsumerRests /\ dispatching' = NoActor
    /\ UNCHANGED <<observed, misled>> /\ ConsumerUnchanged

\* MIDI acts only while it is the selected input, and never during a discovery.
MidiBegins ==
    /\ midiRuns /\ ~midiActs /\ inputChosen = "midi" /\ seen < MaxObserved /\ seen' = seen + 1
    /\ discovery # "running" /\ midiActs' = TRUE
    /\ UNCHANGED <<settingsVars, inputRuns, receiving, client, linked, midiRuns, lockVars, scanVars,
                   actionVars, orderVars>>

MidiEnds ==
    /\ midiActs /\ midiActs' = FALSE
    /\ UNCHANGED <<settingsVars, inputRuns, receiving, client, linked, midiRuns, lockVars, scanVars,
                   actionVars, orderVars, seen>>

(***************************************************************************)
(* Requests.                                                               *)
(***************************************************************************)
Cancelling == {"find", "cancel", "stop"}

\* A find, a cancel and the stop first cancel the scan that is going on.
FirstStep(job) == IF job \in Cancelling THEN "cancelling" ELSE "locking"

Searching == discovery \in {"running", "cancelled"}

\* There is a name left for the task that a find starts.
Idling == {s \in Scans : jobs[s].at = "idle"}
Finding == {c \in Callers : jobs[c].job = "find"}

AskInput(c, job, for) ==
    /\ jobs[c].at = "idle" /\ requests < MaxRequests /\ requests' = requests + 1
    /\ inputRuns
    /\ job = "find" => ~Searching /\ Cardinality(Idling) > Cardinality(Finding)
    /\ jobs' = [jobs EXCEPT ![c] = [at |-> FirstStep(job), job |-> job, for |-> for,
                                    waits |-> scanTask]]
    /\ IF job \in Cancelling
       THEN /\ cancelled' = cancelled \cup {latestScan}
            /\ scansCrossed' = (scansCrossed \/ \E d \in Callers : jobs[d].job \in Cancelling)
       ELSE UNCHANGED <<cancelled, scansCrossed>>
    /\ UNCHANGED <<settingsVars, inputVars, lifecycle, dispatching, scanTask, latestScan,
                   actionVars, orderVars, seen>>

Awaited(c, at) == jobs' = [jobs EXCEPT ![c].at = at, ![c].waits = NoActor]

\* The scan awaited is over.  The handle is dropped, whichever scan it is of by now.
ScanAwaited(c) ==
    /\ jobs[c].at = "cancelling"
    /\ jobs[c].waits \in Scans => jobs[jobs[c].waits].at = "over"
    /\ scanTask' = NoActor
    /\ CASE jobs[c].job = "cancel" -> Returns(c) /\ UNCHANGED discovery
         [] jobs[c].job = "stop" ->
              /\ discovery' = IF discovery = "running" THEN "cancelled" ELSE discovery
              /\ Awaited(c, "unsearching")
         [] OTHER -> Awaited(c, "locking") /\ UNCHANGED discovery
    /\ UNCHANGED <<settingsVars, inputVars, lifecycle, dispatching, requests, latestScan, cancelled,
                   scansCrossed, actionVars, setlistKept, orderValid, order, seen>>

\* The discovery that the stop cancelled has restored what it could.
DiscoveryAwaited(c) ==
    /\ jobs[c].at = "unsearching" /\ discovery # "cancelled" /\ Reaches(c, "locking")
    /\ UNCHANGED <<settingsVars, inputVars, lifecycle, dispatching, requests, scanVars, actionVars,
                   orderVars, seen>>

MayLock(a) == jobs[a].at = "locking" /\ lifecycle = NoActor

\* The lock is taken and given back without an await in between.
StartScan(c) ==
    /\ MayLock(c) /\ jobs[c].job = "find"
    /\ \E s \in Scans :
          /\ jobs[s].at = "idle"
          /\ jobs' = [jobs EXCEPT ![c] = AtRest,
                                  ![s] = [AtRest EXCEPT !.at = "scanning", !.job = "adopt",
                                                        !.for = "api"]]
          /\ scanTask' = s /\ latestScan' = s
    /\ UNCHANGED <<settingsVars, inputVars, lifecycle, dispatching, requests, cancelled,
                   scansCrossed, actionVars, orderVars, seen>>

\* Mutant: the skips change under the revision of before.
SkipMarks_Kept == {"same"}

\* set_skips
SkipMarks == {"rev", "same"}

\* save_arrangement; an action that has been begun is not told.
SaveSkips(c) ==
    /\ MayLock(c) /\ jobs[c].job = "skips" /\ Returns(c)
    /\ IF Searching THEN UNCHANGED <<observed, consumer>> ELSE Marks(SkipMarks)
    /\ UNCHANGED <<settingsVars, inputVars, lifecycle, dispatching, requests, scanVars, misled,
                   orderVars, seen>>

\* save_settings, and the adoption of a scan's one find: the file, then _reconfigure.
ScanRefused(a) == Searching \/ a \in cancelled

\* A save of the same input may change nothing of it, or be for MIDI to take over.
SaveInput(a) ==
    /\ MayLock(a) /\ jobs[a].job \in {"save", "adopt"}
    /\ \/ /\ ScanRefused(a) \/ jobs[a].for = inputChosen
          /\ (IF a \in Scans THEN Reaches(a, "over") ELSE Returns(a))
          /\ UNCHANGED <<storedChoice, lifecycle>>
       \/ /\ ~ScanRefused(a) /\ storedChoice' = jobs[a].for
          /\ lifecycle' = a /\ Reaches(a, "quieting")
    /\ UNCHANGED <<inputChosen, inputVars, dispatching, requests, scanVars, actionVars, orderVars, seen>>

BeginStop(c) ==
    /\ MayLock(c) /\ jobs[c].job = "stop" /\ inputRuns' = FALSE
    /\ lifecycle' = c /\ Reaches(c, "quieting")
    /\ UNCHANGED <<settingsVars, receiving, client, linked, midiRuns, midiActs, dispatching,
                   requests, scanVars, actionVars, orderVars, seen>>

BeginDiscovery(c) ==
    /\ MayLock(c) /\ jobs[c].job = "discover"
    /\ IF Searching \/ ~receiving \/ ~linked
       THEN Returns(c) /\ UNCHANGED lifecycle
       ELSE lifecycle' = c /\ Reaches(c, "quieting")
    /\ UNCHANGED <<settingsVars, inputVars, dispatching, requests, scanVars, actionVars, orderVars,
                   seen>>

\* Mutant: the old input is stopped while an observation is carried out.
NothingActs_Assumed == TRUE

\* The dispatch lock: no observation is being carried out.
NothingActs == dispatching = NoActor

\* set_discovery, under both locks; both are given up at once.
Discovers(c) ==
    /\ jobs[c].at = "quieting" /\ jobs[c].job = "discover" /\ NothingActs
    /\ discovery' = "running" /\ setlistKept' = TRUE
    /\ Marks({"rev"}) /\ lifecycle' = NoActor /\ Reaches(c, "walking")
    /\ UNCHANGED <<settingsVars, inputVars, dispatching, requests, scanVars, misled, orderValid,
                   order, seen>>

\* _stop_selected up to its first await.
Quiets(a) ==
    /\ jobs[a].at = "quieting" /\ jobs[a].job # "discover" /\ NothingActs
    /\ dispatching' = a /\ receiving' = FALSE
    /\ Marks({"rev", "gen", "same"}) /\ Reaches(a, "stopping")
    /\ UNCHANGED <<settingsVars, inputRuns, client, linked, midiRuns, midiActs, lifecycle, requests,
                   scanVars, misled, orderVars, seen>>

\* The client and the MIDI input have ended, with the cue it was carrying out.
InputStops(a) ==
    /\ jobs[a].at = "stopping" /\ ~midiActs
    /\ client' = FALSE /\ linked' = FALSE /\ midiRuns' = FALSE /\ observed' = <<>>
    /\ Reaches(a, "stopped")
    /\ UNCHANGED <<settingsVars, inputRuns, receiving, midiActs, lifecycle, dispatching, requests,
                   scanVars, consumer, misled, orderVars, seen>>

\* The new input is started; opening the MIDI library may fail.
InputStarts(a) ==
    /\ jobs[a].at = "stopped"
    /\ IF jobs[a].job = "stop" THEN UNCHANGED <<inputChosen, receiving, client, midiRuns>>
       ELSE /\ inputChosen' = storedChoice
            /\ receiving' = (inputRuns /\ inputChosen' = "api") /\ client' = receiving'
            /\ midiRuns' \in {FALSE, inputRuns /\ inputChosen' = "midi"}
    /\ lifecycle' = NoActor /\ dispatching' = NoActor
    /\ IF a \in Scans THEN Reaches(a, "over") ELSE Returns(a)
    /\ UNCHANGED <<storedChoice, inputRuns, linked, midiActs, requests, scanTask, latestScan, cancelled, scansCrossed,
                   actionVars, orderVars, seen>>

\* The network has been searched: one Playback, or none, or several to choose from.
ScanReports(s) ==
    /\ jobs[s].at = "scanning"
    /\ \/ s \notin cancelled /\ Reaches(s, "locking")
       \/ Reaches(s, "over")
    /\ UNCHANGED <<settingsVars, inputVars, lifecycle, dispatching, requests, scanTask, latestScan, cancelled,
                   scansCrossed, actionVars, orderVars, seen>>

(***************************************************************************)
(* discover_song_order: every step compares the version of the setlist.    *)
(***************************************************************************)
WalkEnds(c, result) ==
    /\ discovery' = result /\ Returns(c) /\ Marks({"rev"})
    /\ UNCHANGED <<settingsVars, inputVars, lifecycle, dispatching, requests, scanVars, misled,
                   seen, setlistKept>>

\* The order is saved and installed, and Playback's songs skipped before are forgotten.
WalkSucceeds(c) ==
    /\ jobs[c].at = "walking" /\ discovery = "running" /\ linked /\ receiving /\ setlistKept
    /\ orderValid' = TRUE /\ order' = "matches" /\ WalkEnds(c, "done")

WalkFails(c) ==
    /\ jobs[c].at = "walking"
    /\ WalkEnds(c, "failed") /\ UNCHANGED <<orderValid, order>>

Continues(a) ==
    \/ ScanAwaited(a) \/ DiscoveryAwaited(a) \/ StartScan(a) \/ SaveSkips(a) \/ SaveInput(a)
    \/ BeginStop(a) \/ BeginDiscovery(a) \/ Discovers(a) \/ Quiets(a) \/ InputStops(a)
    \/ InputStarts(a) \/ ScanReports(a) \/ WalkSucceeds(a) \/ WalkFails(a)

Consumes == TakesObserved \/ ConsumerLocks \/ ConsumerActs \/ ConsumerStops \/ ActionEnds

PlaybackNext ==
    \/ LinkUp \/ LinkDown \/ SetlistChanges \/ Observes
    \/ Consumes \/ MidiBegins \/ MidiEnds
    \/ \E c \in Callers : \/ \E job \in {"find", "cancel", "skips", "discover", "stop"} :
                                AskInput(c, job, "midi")
                          \/ \E for \in InputMethods : AskInput(c, "save", for)
    \/ \E a \in Actors : Continues(a)

PlaybackSpec == PlaybackInit /\ [][PlaybackNext]_playbackVars

(***************************************************************************)
(* Properties.                                                             *)
(***************************************************************************)
\* From the moment the old input has stopped until the new one starts, and after that,
\* nothing of the old one is being carried out; MIDI and the API never run together; and
\* the input in force is the one saved, when no change is under way.
InputsDontOverlap ==
    /\ \A a \in Actors : jobs[a].at = "stopped" => ~midiActs /\ consumer.at # "acting"
    /\ ~(midiRuns /\ client) /\ (client => inputChosen = "api") /\ (midiRuns => inputChosen = "midi")
    /\ consumer.at = "acting" => client
    /\ lifecycle = NoActor => inputChosen = storedChoice

\* A start is begun only on a song that was observed in the connection, the order and the
\* skips that are in force; and nothing is carried out while the order is discovered.
ObservedInForce ==
    /\ ~misled
    /\ discovery = "running" => consumer.at # "acting" /\ ~midiActs

\* A scan whose event is set begins no change any more; and unless a find and another
\* request that cancels overlapped, none is going on that the next one could not await.
CancelledScansEnd ==
    /\ \A s \in Scans : s \in cancelled => jobs[s].at # "quieting" \/ lifecycle = s
    /\ ~scansCrossed => \A s \in Scans : jobs[s].at \notin {"idle", "over"} => scanTask = s

\* The input, its observations and its scans are never at odds.
PlaybackIsSound == InputsDontOverlap /\ ObservedInForce /\ CancelledScansEnd
=============================================================================
