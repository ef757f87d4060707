--------------------------- MODULE LightsTimeline ---------------------------
(* The lighting output (plugins/lights/plugin.py): the task that sends a       *)
(* song's cues, the timer events that cancel and start it, and the connection  *)
(* they share with settings saves, the connection monitor and the panel.       *)
(* Everything runs on one event loop: a task runs from one await to the next,  *)
(* which is one step here, and only the connection is guarded by a lock.       *)
EXTENDS Naturals, Sequences, FiniteSets

CONSTANTS
    Publishers,   \* who publishes timer commands: "action" (the holder of the action
                  \* lock) and "loader" (the rollover in the refresh task)
    Savers,       \* requests that save the lighting settings
    Background,   \* other tasks that connect: the monitor, and requests of the panel
    Offers,       \* the connection settings a save may bring
    Timelines,    \* identities of timeline tasks
    NoTimeline,
    NoSettings

ASSUME ActorsAssumption == Publishers \subseteq {"action", "loader"}

ASSUME TimelinesAssumption == Timelines \subseteq Nat /\ NoTimeline \notin Timelines

Settings == [enabled : BOOLEAN, method : {"midi", "osc"}, cues : BOOLEAN]

ASSUME OffersAssumption ==
    /\ Offers \subseteq Settings /\ \A o \in Offers : ~ o.cues
    /\ NoSettings \notin Settings

VARIABLES
    lights,   \* the plugin's attributes and its suspended coroutines
    due,      \* the report each publisher's command is still to bring
    saved,    \* the settings in the settings file
    wanted    \* did the last timer event ask for a timeline?

vars == <<lights, due, saved, wanted>>

Workers == (Publishers \X {"event", "report"})
           \cup (Savers \X {"save"})
           \cup (Background \X {"task"})

\* A coroutine: what for, the await it is suspended at, the timeline whose end it
\* waits for, and the settings it has still to use.
Worker == [job    : {"none", "begin", "cancel", "save", "listing", "reopen", "close", "check"},
           at     : {"idle", "cancelling", "probing", "waiting", "closing", "opening",
                     "failing", "opened", "closed", "listing"},
           victim : Timelines \cup {NoTimeline},
           with   : Settings \cup {NoSettings}]

Idle == [job |-> "none", at |-> "idle", victim |-> NoTimeline, with |-> NoSettings]

Plugin == [timelines : [Timelines -> {"none", "running", "cancelling"}],
           task      : Timelines \cup {NoTimeline},     \* _timeline_task
           outputs   : SUBSET {"midi", "osc"},           \* _port and _osc_output, open
           settings  : Settings,                         \* _settings
           lock      : Seq(Workers),                     \* _operation_lock, its holder first
           work      : [Workers -> Worker]]

Running(s) == {i \in Timelines : s.timelines[i] = "running"}

\* The tasks that are none now and that nobody waits for.
Spare(s) == {i \in Timelines : /\ s.timelines[i] = "none"
                               /\ \A w \in Workers : s.work[w].victim # i}

-----------------------------------------------------------------------------
(* What a coroutine does between two awaits, as functions of the plugin `s`.  *)
(* Those that may go on in several ways return the set of outcomes.           *)

Finish(s, w)     == [s EXCEPT !.work[w] = Idle]
AwaitAt(s, w, a) == [s EXCEPT !.work[w].at = a]
Release(s)       == [s EXCEPT !.lock = Tail(@)]

OutputReady(s) == s.settings.method \in s.outputs

\* The end of _on_timer_started and _on_timer_repositioned.
Starts(s, w) == {[Finish(s, w) EXCEPT !.timelines[i] = "running", !.task = i] :
                    i \in {j \in Spare(s) : \A k \in Spare(s) : j <= k}}

\* Mutant: only the saved method's output is closed.
Closing_OwnMethod(s, w) == AwaitAt([s EXCEPT !.outputs = @ \ {s.settings.method}], w, "closing")

\* _close_port_locked: the handles are dropped and a thread closes what was open.
Closing(s, w) == AwaitAt([s EXCEPT !.outputs = {}], w, "closing")

\* Waiting for the operation lock; a free one is taken without a suspension.
Queues(s, w) == AwaitAt([s EXCEPT !.lock = Append(@, w)], w, "waiting")
Holds(s, w)  == [s EXCEPT !.lock = <<w>>]

\* The lock block of _connect and _connect_osc.
Opens(s, w) == IF s.outputs = {} THEN AwaitAt(s, w, "opening") ELSE Closing(s, w)

TakesToOpen(s, w) == IF s.lock = <<>> THEN Opens(Holds(s, w), w) ELSE Queues(s, w)

\* _connect up to its first suspension: MIDI lists the outputs, OSC takes the lock.
Connect(s, w) ==
    LET c == [s EXCEPT !.work[w].with = s.settings]
    IN  IF ~ s.settings.enabled THEN Finish(s, w)
        ELSE IF s.settings.method = "midi" THEN AwaitAt(c, w, "probing")
        ELSE TakesToOpen(c, w)

\* The outputs are closed: reconfigure assigns the settings and connects, the monitor
\* releases the lock and reports, a connection opens its output.
Closed(s, w) ==
    LET job == s.work[w].job
    IN  IF job = "save"
          THEN Connect([Release(s) EXCEPT !.settings = s.work[w].with, !.work[w].job = "check"], w)
        ELSE IF job \in {"reopen", "close"} THEN AwaitAt(Release(s), w, "closed")
        ELSE AwaitAt(s, w, "opening")

\* The lock was granted; the same without the wait.
Enters(s, w) == IF s.outputs = {} THEN Closed(s, w) ELSE Closing(s, w)
Takes(s, w)  == IF s.lock = <<>> THEN Enters(Holds(s, w), w) ELSE Queues(s, w)

\* What follows _cancel_timeline.  A song may have no cues for the saved method, or
\* none in the time that is left.
Proceeds(s, w) ==
    CASE s.work[w].job = "cancel" -> {Finish(s, w)}
      [] s.work[w].job = "save"   -> {Takes(s, w)}
      [] s.work[w].job = "begin"  ->
           {Finish(s, w)} \cup (IF ~ s.settings.enabled THEN {}
                                ELSE IF OutputReady(s) THEN Starts(s, w)
                                ELSE {Connect(s, w)})

\* Mutant: the handle is dropped and the task left running.
Cancels_Forgets(s, w) == Proceeds([s EXCEPT !.task = NoTimeline], w)

\* _cancel_timeline: the handle is dropped, a running task is cancelled and awaited.
Cancels(s, w) ==
    LET c == [s EXCEPT !.task = NoTimeline]
    IN  IF s.task \in Running(s)
          THEN {[c EXCEPT !.timelines[s.task] = "cancelling",
                          !.work[w].at = "cancelling", !.work[w].victim = s.task]}
          ELSE Proceeds(c, w)

\* Mutant: a timer start does not cancel what is running.
Handles_NoRestart(s, w, job, with) ==
    LET b == [s EXCEPT !.work[w] = [Idle EXCEPT !.job = job, !.with = with]]
    IN  IF job = "begin" THEN Proceeds(b, w) ELSE Cancels(b, w)

\* Every handler, and reconfigure, begins by cancelling the timeline.
Handles(s, w, job, with) ==
    Cancels([s EXCEPT !.work[w] = [Idle EXCEPT !.job = job, !.with = with]], w)

-----------------------------------------------------------------------------
(* Timer events.  A publisher's commands follow each other: it waits for every *)
(* handler, and so for the report that the presentation output's handler       *)
(* publishes in its turn.                                                      *)

\* SONG_STARTED or SONG_RESTARTED; a stop or reset request; TIMER_RESUMED or
\* TIMER_SEEKED with the countdown running; the same without.
Commands(p) == IF p = "loader" THEN {"stop"} ELSE {"song", "stop", "move", "hold"}

Quiet(p) == /\ lights.work[<<p, "event">>].at = "idle"
            /\ lights.work[<<p, "report">>].at = "idle"
            /\ due[p] = "none"

\* Mutant: a reposition, too, waits for a report.
Command_AlwaysReport(p, e) ==
    /\ Quiet(p)
    /\ lights' \in Handles(lights, <<p, "event">>, IF e = "move" THEN "begin" ELSE "cancel",
                           NoSettings)
    /\ due' = [due EXCEPT ![p] = e]
    /\ wanted' = (e = "move")
    /\ UNCHANGED saved

Command(p, e) ==
    /\ Quiet(p)
    /\ lights' \in Handles(lights, <<p, "event">>, IF e = "move" THEN "begin" ELSE "cancel",
                           NoSettings)
    /\ due' = [due EXCEPT ![p] = IF e \in {"song", "stop"} THEN e ELSE "none"]
    /\ wanted' = (e = "move")
    /\ UNCHANGED saved

\* TIMER_STARTED ...
ReportStarted(p) == /\ due[p] = "song"
                    /\ lights' \in Handles(lights, <<p, "report">>, "begin", NoSettings)
                    /\ due' = [due EXCEPT ![p] = "none"]
                    /\ wanted' = TRUE
                    /\ UNCHANGED saved

\* ... TIMER_STOPPED or TIMER_FAILED ...
ReportStopped(p) == /\ due[p] # "none"
                    /\ lights' \in Handles(lights, <<p, "report">>, "cancel", NoSettings)
                    /\ due' = [due EXCEPT ![p] = "none"]
                    /\ wanted' = FALSE
                    /\ UNCHANGED saved

\* ... or no output that reports.
NoReport(p) == /\ due[p] # "none"
               /\ due' = [due EXCEPT ![p] = "none"]
               /\ UNCHANGED <<lights, saved, wanted>>

-----------------------------------------------------------------------------
(* Settings, the monitor, the panel                                            *)

\* POST /lights/settings: the file first, with the cue maps it has, then reconfigure.
SaveSettings(v, o) ==
    LET w   == <<v, "save">>
        new == [o EXCEPT !.cues = saved.cues]
    IN  /\ lights.work[w].at = "idle"
        /\ saved' = new
        /\ lights' \in Handles(lights, w, "save", new)
        /\ UNCHANGED <<due, wanted>>

\* A capture, its undo or a cue-map save: the file and, without an await, the plugin.
EditCues == /\ ~ saved.cues
            /\ saved' = [saved EXCEPT !.cues = TRUE]
            /\ lights' = [lights EXCEPT !.settings.cues = TRUE]
            /\ UNCHANGED <<due, wanted>>

LightsOnly == UNCHANGED <<due, saved, wanted>>

\* _supervise_connection
MonitorWakes(b) == LET w == <<b, "task">>
                IN  /\ lights.work[w].at = "idle"
                    /\ lights.settings.enabled /\ lights.settings.method = "midi"
                    /\ lights' = [lights EXCEPT !.work[w].job = "listing", !.work[w].at = "listing"]
                    /\ LightsOnly

\* The list failed or shows a healthy connection; the configured output is missing
\* or ambiguous; it is there and the port is not open.
Listed(w) == /\ lights.work[w].at = "listing"
             /\ \/ lights' = Finish(lights, w)
                \/ lights' = Takes([lights EXCEPT !.work[w].job = "close"], w)
                \/ /\ "midi" \notin lights.outputs
                   /\ lights' = Takes([lights EXCEPT !.work[w].job = "reopen"], w)
             /\ LightsOnly

MonitorReported(w) ==
    /\ lights.work[w].at = "closed"
    /\ lights' = IF lights.work[w].job = "close" THEN Finish(lights, w)
                 ELSE Connect([lights EXCEPT !.work[w].job = "check"], w)
    /\ LightsOnly

\* A refresh of the panel, a test cue or a pad finds the output closed.
PanelConnects(b) == LET w == <<b, "task">>
                 IN  /\ lights.work[w].at = "idle"
                     /\ lights.settings.enabled /\ ~ OutputReady(lights)
                     /\ lights' = Connect([lights EXCEPT !.work[w].job = "check"], w)
                     /\ LightsOnly

-----------------------------------------------------------------------------
(* Resuming after an await                                                     *)

\* The cancelled timeline has ended.
Cancelled(w) ==
    /\ lights.work[w].at = "cancelling"
    /\ lights.timelines[lights.work[w].victim] = "none"
    /\ lights' \in Proceeds([lights EXCEPT !.work[w].victim = NoTimeline], w)
    /\ LightsOnly

\* The MIDI outputs are listed and the configured one is among them once, or not.
Probed(w) == /\ lights.work[w].at = "probing"
             /\ lights' \in {Finish(lights, w), TakesToOpen(lights, w)}
             /\ LightsOnly

LockGranted(w) == /\ lights.work[w].at = "waiting"
                  /\ lights.lock # <<>> /\ Head(lights.lock) = w
                  /\ lights' = Enters(lights, w)
                  /\ LightsOnly

OutputsClosed(w) == /\ lights.work[w].at = "closing"
                    /\ lights' = Closed(lights, w)
                    /\ LightsOnly

Opened(w) == /\ lights.work[w].at = "opening"
             /\ lights' = Release([lights EXCEPT !.outputs = @ \cup {lights.work[w].with.method},
                                                 !.work[w].at = "opened", !.work[w].with = NoSettings])
             /\ LightsOnly

\* The error is reported under the lock.
OpenFails(w) == /\ lights.work[w].at = "opening"
                /\ lights' = AwaitAt(lights, w, "failing")
                /\ LightsOnly

\* Mutant: a failed open is tried again under the same lock, without an end.
Failed_TriesAgain(w) == /\ lights.work[w].at = "failing"
                        /\ lights' = AwaitAt(lights, w, "opening")
                        /\ LightsOnly

Failed(w) == /\ lights.work[w].at = "failing"
             /\ lights' = Finish(Release(lights), w)
             /\ LightsOnly

\* _connect returns True: a timer start goes on to its timeline.
Connected(w) == /\ lights.work[w].at = "opened"
                /\ \/ lights' = Finish(lights, w)
                   \/ lights.work[w].job = "begin" /\ lights' \in Starts(lights, w)
                /\ LightsOnly

Resume(w) == \/ Cancelled(w) \/ Probed(w) \/ LockGranted(w) \/ OutputsClosed(w) \/ Opened(w)
             \/ OpenFails(w) \/ Failed(w) \/ Connected(w) \/ Listed(w) \/ MonitorReported(w)

-----------------------------------------------------------------------------
(* The timeline tasks and the MIDI port                                        *)

\* The last cue is sent, or one could not be.
TimelineEnds(i) == /\ lights.timelines[i] = "running"
                   /\ lights' = [lights EXCEPT !.timelines[i] = "none"]
                   /\ LightsOnly

\* A cancelled timeline first turns off the note it has on.
CancelCompletes(i) == /\ lights.timelines[i] = "cancelling"
                      /\ lights' = [lights EXCEPT !.timelines[i] = "none"]
                      /\ LightsOnly

PortLost == /\ "midi" \in lights.outputs
            /\ lights' = [lights EXCEPT !.outputs = @ \ {"midi"}]
            /\ LightsOnly

-----------------------------------------------------------------------------
Init == \E first \in Offers :
          /\ lights = [timelines |-> [i \in Timelines |-> "none"], task |-> NoTimeline,
                       outputs |-> {}, settings |-> first, lock |-> <<>>,
                       work |-> [w \in Workers |-> Idle]]
          /\ due = [p \in Publishers |-> "none"]
          /\ saved = first
          /\ wanted = FALSE

Next == \/ \E p \in Publishers : \/ \E e \in Commands(p) : Command(p, e)
                                 \/ ReportStarted(p) \/ ReportStopped(p) \/ NoReport(p)
        \/ \E v \in Savers, o \in Offers : SaveSettings(v, o)
        \/ EditCues
        \/ \E b \in Background : MonitorWakes(b) \/ PanelConnects(b)
        \/ \E w \in Workers : Resume(w)
        \/ \E i \in Timelines : TimelineEnds(i) \/ CancelCompletes(i)
        \/ PortLost

Spec == Init /\ [][Next]_vars

\* The event loop runs what is ready, asyncio.Lock is first come, first served, and
\* the threads that list, open and close outputs and send a note off return.
FairSpec == /\ Spec
            /\ \A w \in Workers : WF_vars(Resume(w))
            /\ \A i \in Timelines : WF_vars(CancelCompletes(i))

-----------------------------------------------------------------------------
(* Properties *)

TypeOK == /\ lights \in Plugin
          /\ due \in [Publishers -> {"none", "song", "stop"}]
          /\ saved \in Settings
          /\ wanted \in BOOLEAN

\* The plugin can always cancel what is sending cues: no timeline runs but the one
\* its handle names, however starts, stops, saves and connections overlap.
OneTimeline == Running(lights) \subseteq {lights.task}

\* "StagePilot never sends both": at no time are a MIDI port and an OSC socket open.
NeverBoth == Cardinality(lights.outputs) <= 1

\* When every command is handled and the last one stopped the countdown or changed
\* the song, no cue is waiting to be sent (_on_timer_stopped, _on_song_event).
OnlyWantedTimelines ==
    (\A w \in Workers : lights.work[w].at = "idle") /\ (\A p \in Publishers : due[p] = "none")
        /\ ~ wanted => Running(lights) = {}

\* Every handler returns, so that the publication waiting for it goes on.
HandlersFinish ==
    \A w \in Workers : lights.work[w].at # "idle" ~> lights.work[w].at = "idle"

NoSaveUnderWay == \A v \in Savers : lights.work[<<v, "save">>].job # "save"

\* "Only the saved method fires", "a cue added mid-song takes effect at the next timer
\* start": the plugin works with the settings in the file.
SavedSettingsInForce == NoSaveUnderWay => lights.settings = saved
=============================================================================
