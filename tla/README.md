# StagePilot in TLA+

StagePilot runs a church stage during a service. It loads the day's plan from
Planning Center, follows the service song by song on actions from a dashboard,
a MIDI pedal or Playback, and drives a countdown in ProPresenter and lighting
cues. Around that core there are a dashboard in the browser, a desktop shell, a
control plane that gives installations an address on the Internet, and an
offline tool for cues. This directory holds a model of the program: TLA+
modules, TLC configurations that check them on small instances, and theorems
checked by TLAPS. Paths below are relative to `src/backend/src/stagepilot/`
unless they begin with another part of the repository.

Contents: [the system](#the-system), [modules](#modules) and how they
[correspond to the code](#correspondence), [runs](#runs), [properties](#properties),
[bounds](#bounds), [fairness](#fairness), [disagreements](#disagreements),
[proofs](#proofs), [what is not modelled](#not-modelled), [plan](#plan).

## The system

The backend is one Python process with one asyncio event loop. Code between two
suspension points (`await`s that really suspend) is atomic; everything else
interleaves. Two facts decide where that is:

* `StateStore.snapshot` and `mutate` (`core/state.py`) hold a lock without an
  `await` inside it, so they never suspend: a run of them is one step.
* `EventBus.publish` (`core/event_bus.py`) runs every subscriber as a task and
  waits for all of them, so its caller is suspended, with whatever local
  variables and locks it has, until the slowest handler is done.

The dashboard is JavaScript and has the same rule: a handler runs to its first
`await`. The control plane is a Cloudflare Durable Object that handles one request
at a time, and may be evicted between two of its writes.

| Part | State it keeps | What it does, and with whom |
|---|---|---|
| State service (`services/state_service.py`, `models/state.py`) | the plan on show, cursor, playing label, up next, timer, load state; the pending start position; the action lock | takes actions one at a time under the lock, publishes song and timer events, handles the reports of the output and the announcements of Planning Center without the lock |
| Planning Center refresh (`plugins/planning_center/plugin.py`, `core/plan_cache.py`) | the refresh task, pending requests, the last-known-good plan on disk | finds the day's or next plan, publishes `SERVICE_LOAD_CHANGED` and `SERVICE_LOADED`; restored from the cache at start |
| ProPresenter output (`plugins/propresenter`) | operation lock, timer identifier, connection | answers song and timer events with started, stopped or failed reports after HTTP requests to the device |
| Lighting output (`plugins/lights`) | timeline task, ports | starts and cancels a timeline of cues on timer events |
| Playback input (`plugins/playback_api`) | selected input, two locks, scan task, song order, bounded queue | turns Playback's heartbeats and events into actions |
| MIDI input (`plugins/midi_playback`) | connection identifier, held notes, debounce times, bounded queue | turns notes into actions |
| Plugin manager, source switching (`core/plugin.py`, `services/*_source.py`, `services/startup_activation.py`) | plugins, their health, lifecycle and reconcile locks | starts, stops and replaces the above while the program runs |
| Song lengths (`services/planning_center_lengths.py`) | undo records on disk, one job | writes measured lengths into the plan and puts them back |
| Settings and API (`api/`, `core/settings.py`) | sessions, the settings file | exposes state, actions and the saves of the panels |
| Dashboard (`frontend/src`) | a copy of state and settings, drafts, layouts, timers | shows and edits all of this over HTTP and a WebSocket |
| Desktop shell (`desktop`) | the backend's process, updates | starts, stops and updates the backend |
| Control plane (`control-plane/src/index.ts`) | installations, quotas, actions, bundles; at its provider: tunnels, routes, DNS records | enrols installations and gives them an address; takes their alerts and diagnostics; hands out releases |
| Cue tool (`tools/multitracks-cues`) | a plan, a proposal, tokens, stored conversations | adds missing cues to the songs of a setlist; asks ChatGPT in a browser |
| Visual editor (`frontend/dev-editor`) | an element's description, inverses of its saves | edits the frontend's source from the page while developing |

What is hard in it: the plan is replaced without the action lock, at any
suspension point of an action; an action holds the lock while another system's
HTTP requests are under way; reports come back as events through the service
that is waiting for them; the calendar day changes during a service; inputs are
switched and plugins replaced while their messages are queued and their starts
are retried; a browser's copy of the settings is saved back whole, behind other
saves; answers come late, after a restart or a new sign-in; a provider carries
out a call and its answer is lost; a multi-write handler is stopped half way.
`PROJECT.json` lists each hazard at its line with the property that covers it.

What makes each part correct:

* State service: cursor, labels and pending position always describe songs of
  the plan on show, follow songs and not positions across reloads, and Start
  next plays what the screen announces; every action is answered.
* Planning Center: when no refresh runs, the load state describes the plan on show.
* Lights: at most one timeline runs, and none after a stop.
* Playback and MIDI: only the selected input acts, nothing queued under an
  earlier connection acts, a held key acts once, whoever waits is answered.
* Plugin manager: nothing runs or is reported that is not registered; the last
  save of a source is the one in force.
* Song lengths: what StagePilot overwrote can be given back.
* Dashboard: it shows nothing untrue and nothing old, loses no edit, puts
  nothing back, and comes to rest - with the exceptions listed below.
* Control plane: no more members than the ceiling; no route, tunnel or record
  that nobody asked for; its limits are limits; its queue loses no action.
* Cue tool: no second cue by its own hand, no answer to another question, no lost login.

## Modules

The core of the backend:

* `ServiceState` - the service part of `ApplicationState` and the mutations
  `StateService` applies to it, as operators on a record: selecting a song, the
  labels, matching songs across a reload (`_safe_match`), loading a plan, the
  load state, the timer. Each is one atomic run of store calls.
* `StageState` - `StateService` at run time. Variables: `st` (the record),
  `pending` (`_pending_start_index`), `req` and `queue` (calls and the FIFO
  action lock), `act` (where the holder of the lock is suspended, with the
  local variables it will use afterwards), `cmd` (timer commands on their way
  to the output), `ldr` (the refresh task, with the locals of `_refresh_once`),
  `cache` (the plan on disk), `today`. `MCStageState` gives songs, plans and
  calls to TLC, `StageState_proofs` holds the proofs.
* `LightsTimeline` - the lighting output. Variables: `lights` (the plugin's
  attributes: timeline tasks and the handle to one of them, the open outputs, the
  settings in force, the operation lock with its waiters, and the coroutines
  suspended in the plugin), `due` (the output's report each command is still to
  bring), `saved` (the settings file), `wanted` (whether the last timer event
  asked for a timeline; only properties read it). With `MCLightsTimeline` and
  `LightsTimeline_proofs`.

`StageState` and `LightsTimeline` meet at the event bus: `LightsTimeline` takes
the commands that `cmd` of `StageState` stands for, from the same two publishers,
and the reports that answer them. They are checked apart; each lets the other do
whatever order of events the bus allows.

The other parts of the backend, which `MCBackend` composes with `StageState`:

* `MidiInput` - the supervisor that opens and watches the selected input,
  selections and saves, the callback that queues messages, the consumer, the stop.
* `PlaybackInput` - which of MIDI and the Playback API drives the timer: the two
  locks, scans, saves, skips, the discovery of the order, the queue and its consumer.
* `PluginLifecycle` - registration, the switch of the Services source, the retry
  of plugins that did not start, health probes, the shutdown.
* `LengthUndo` - the length job with its saved records, and its undo.

The control plane, composed by `MCControlPlane`:

* `ControlPlane` - enrolment, provisioning, removal, revocation and return of
  installations, one provider call or write at a time; it implements the abstract
  `RemoteAccess`, which says what is promised: a bounded membership, and a route
  opened only for a member that wants one.
* `ControlDesk` - queued actions, approval requests, alerts and names, with the
  installation's poll (`remote_beta_control.py`) and the operator's page.
* `RateWindows` - the quotas per source and installation, and the provider's budget.
* `Diagnostics` - bundles in the bucket, their rows and the running total.
* `ReleaseBroker` - the cached release and the downloads of its assets.

The dashboard. `MCDashboard` composes what must make progress:

* `Cockpit` - sign-in, WebSocket, requests with late answers, a session that another
  page replaces, a backend that restarts.
* `PlaybackPanel`, `RemoteDesk` - panels that poll and run one operation at a time.
* `Updater`, `Startup` - the update of the desktop program, the startup screen.
* `Header` - the row of connection cards and the queue of notices.

`MCPanels` composes what edits and draws:

* `SettingsDesk` - every save of settings, from the page's copy, over the routes.
* `SetupPanels` - the held changes of a setup panel.
* `AccessSwitch` - Host, Local network or Internet in one switch, on top of `RemoteDesk`.
* `LightingEditor`, `CueTimeline` - the cue rows, board and timeline; its drawing.
* `LayoutGrid` - the dashboard's widgets and what is stored of them.
* `Readiness`, `SongPairing` - two answers the page computes for itself.
* `Popovers` - notes and cards under the pointer.

The tools, in `MCPanels` too: `CueTool` (plan, proposal, apply, verify), `CueLogin`
(tokens and organizations), `ChatSession` (the browser conversation),
`VisualEditor` (the development overlay).

The parts that one MC module composes share no state. Its variable `focus`
chooses the part that a behaviour moves; the others stay in one initial state,
which for liveness is a state in which none of their fair actions is enabled. So a
run explores the sum of its parts and not their product, and nothing is lost by it:
a step of one part reads and changes nothing of another.

## Correspondence

`PROJECT.json` maps every definition to the lines it translates, and the comment
at the head of each module says what it abstracts. This section explains the
modules where the mapping is not one handler to one action.

### How StageState corresponds to the code

An action of the code is a TLA+ action up to the event it publishes, and a
further one for what it does when the publication returns:

| Code | Actions |
|---|---|
| `dispatch`, `dispatch_song_position`, `resume_timer_at`, ... | `Call`, then the operation when the lock is free |
| `_start_next`, `_start_song_position` | `StartNext` / `StartAt` up to `SONG_SELECTED`, `StartUntimed` / `StartTimed` up to `SONG_STARTED`, `CommandDone` |
| `_restart_current` | `Restart`, `CommandDone` |
| `_previous`, `_next` | `Previous` / `NextSong`, `Navigated` |
| `_stop_timer`, `stop_timer_at` | `StopTimer`, `StopTimerAt`, `CommandDone` |
| `_apply_position` | `ApplyPosition`, `StopConsumers`, `CommandDone` |
| `_reset_position` | `Reset`, `ResetDone` |
| `_reload_plan`, `_on_reload_requested` | `Reload`, `ReloadRefused` |
| `clear_service`, `clear_timer` | `ClearService`, `ClearTimer` |
| `_handle_service_loaded` | in `ProjectPlan` and `LoaderStart` |
| `_handle_service_load_changed` | `AnnounceStop`, `Announce` |
| `_handle_timer_started`, `_stopped`, `_failed` | `ReportStarted`, `ReportStopped`, `ReportFailed` |
| `_run_scheduled_refresh`, `_refresh_once`, `_apply_result` | `RefreshOnce`, `FoundPlan`, `FoundNothing`, `FoundSeveral`, `FetchFails`, `FetchSuperseded`, `ProjectPlan`, `RefreshEnds` |
| `PlanningCenterPlugin.start`, `stop` | `LoaderStart`, `LoaderStop` |

Abstractions, each of which keeps what the properties tell apart:

* Positions count from one, zero is `None`.
* Seconds left on the countdown are "none", "zero" or "some". A report that
  stops a running timer freezes it at either of the last two.
* A song is an identifier, a title and whether it has a duration.
* The output is what it reports: started, stopped, failed, or nothing (it is
  absent, its plugin is off, or the event has no report).
* The lock is handed over and the first half of the operation runs in one step;
  what happens between the two in the code commutes with the handover.
* `clear_timer` may come at any time: its callers check that no countdown runs
  before they await the removal of the output, so a start may come in between.
  `clear_service` comes while the Services plugin is off, as `_swap` calls it.
* Requests to refresh that arrive during a refresh are one flag; a superseded
  selection and a superseded reload lead to another round in the same way.
* A save of the cache happens or fails whole.
* Each plan has a date; the lookahead window reaches the last modelled day.

### How LightsTimeline corresponds to the code

A coroutine of the plugin is a record in `lights.work`: its job and the `await`
it is suspended at. What it does from one `await` to the next is an operator on
the plugin's record, so that a lock that is free, an output that is already
closed or a timeline that is not running is passed without a step of its own, as
on the event loop.

| Code | Operators and actions |
|---|---|
| `_on_song_event`, `_on_timer_stopped` | `Handles` with the job "cancel", from `Command` and `ReportStopped` |
| `_on_timer_started`, `_on_timer_repositioned` | `Handles` with "begin", from `ReportStarted` and `Command`; `Proceeds`, `Starts`, `Connected` |
| `_cancel_timeline` | `Cancels`, `Cancelled`, `CancelCompletes` |
| `_run_timeline`, `_send_pulse` | `TimelineEnds`, `CancelCompletes`, `PortLost` |
| `_connect`, `_connect_osc` | `Connect`, `Probed`, `TakesToOpen`, `LockGranted`, `Closing`, `Opened`, `OpenFails`, `Failed`, `Connected` |
| `reconfigure`, the settings route | `SaveSettings`, `Takes`, `Closed` |
| the capture, undo and cue-map routes with `replace_cue_map` | `EditCues` |
| `_supervise_connection` | `MonitorWakes`, `Listed`, `MonitorReported` |
| `_refresh_connection`, `test_cue`, `test_osc_cue` | `PanelConnects` |

A cue map is one bit, set by the one edit of a behaviour; which cues a song has is left open,
so a timer start may end without a timeline. A refused connection ends the
coroutine at once, without the publication that reports it. Timeline identities
are reused when nobody waits for them: one can run while another is being
cancelled.

### How MidiInput corresponds to the code

| Code (`plugins/midi_playback/plugin.py`) | Operators and actions |
|---|---|
| `_supervise_connection` | `Supervise`: `Looks`, `Listed`, `OpenFails`, `Opened`, `Checks`, `Checked`, `PortCloses`, one for each of its awaits in a worker thread |
| `select_input` | `AskToSelect`, `SelectListed`, `SelectNone` |
| `reconfigure` | `SaveMidi` |
| the callback and `_offer_message` | `Plays`, `Press`, `LetGo` with `Offer` |
| `_consume_messages`, `_process_message` | `Consume`: `TakeNote`, `Stale`, `Duplicate`, `CuePublished`, `CueDispatched` |
| `simulate_cue` | `Simulate` |
| `stop`, the drain of the queue | `StopMidi`, `TakeStopping`, `Drain`, `StopEnds` |

Selections and saves are serialised by the routes' reconcile lock, so one of them
is under way at a time. There is one cue on one note: other notes and channels have
entries of their own in the same tables and do not read this one. Nothing
subscribes to `MIDI_NOTE_RECEIVED`, so its publication returns at once.

### How PlaybackInput corresponds to the code

| Code (`plugins/playback_api`) | Operators and actions |
|---|---|
| `find`, `cancel_scan`, `save_settings`, `save_arrangement`, `discover_song_order`, `stop` | `AskInput` with the job, then `Continues`: `Cancelling`, `Awaited`, `MayLock`, `SaveInput`, `SaveSkips`, `BeginDiscovery`, `DiscoveryAwaited`, `Returns` |
| `_scan` | `StartScan`, `ScanRefused`, `ScanReports` |
| `_reconfigure`, `_stop_selected`, `_start_selected` | `Quiets`, `NothingActs`, `InputStops`, `InputStarts` |
| `_observe`, `_put` | `Observes` |
| `_consume`, `PlaybackMapper.dispatch` | `Consumes`: `TakesObserved`, `ConsumerLocks`, `ConsumerActs`, `ConsumerStops`, `ActionEnds` |
| the walk of the song order | `WalkSucceeds`, `WalkFails` |
| `ArbitratedDispatcher._dispatch` for MIDI | `MidiBegins`, `MidiEnds` |

The input's generation and the mapper's revision are counters that an observation
is compared with. Only equality is ever asked, so each observation carries whether
they have moved since it was received, and the counters themselves are left out.

### How PluginLifecycle corresponds to the code

| Code (`core/plugin.py` and `services/`) | Operators and actions |
|---|---|
| `register`, `start_all` | `LifecycleInit` |
| `ServiceSourceController.sync`, `_swap`, `_forget` | `Switch`, `Unregister` |
| `remove`, `_remove_locked` | `RemovePlugin`, `RemoveStopped`, `Deleted` |
| `add`, `_add_locked` | `Add`, `AddStarted`, `AddEnds` |
| `restart_failed` in `StartupActivationService.run` | `RetryBegins`, `RetryNext`, `RetryStopped`, `RetryStarts`, `RetryStarted`, `RetryEnds` |
| `health`, `_plugin_health` | `ProbeAsks`, `ProbeAnswered`, `ProbeForgotten` |
| `stop_all` in the lifespan | `Shutdown`, `StopAll` |

A plugin that did not start is "half" there: what it began is only released by its
`stop`. Whether a start or a stop succeeds is left open.

### How ControlPlane corresponds to the code

The Registry chains its requests, so there is one request, `req`, and between two
of its steps only the provider, the connector, time and an eviction move.

| Code (`control-plane/src/index.ts`) | Operators and actions |
|---|---|
| `enroll`, `reactivate` | `EnrollNew`, `EnrollReplay`, `Reactivate` |
| `provision`, `ensureProvisioned` | `Provision`; `Look`, `DropTunnel`, `CreateTunnel`, `Configure`, `CreateRecord`, `Confirm` |
| `disable`, `adminRevoke` | `Disable`, `Revoke`, `AdminRevoke`; `DeleteRecord`, `Unroute`, `DropTunnel`, `Settle`, `Discount` |
| `reenroll` | `Reenroll`, `Remint` |
| `reconcile` | `ReconcileOn`, `ReconcileOff` |
| `cachedProvision` | `Cached`, `CacheExpires` |
| a provider call that fails, or is carried out and unanswered; an eviction | `Fails` with `Answer`; `Evict` |
| the connector, a record made by others | `Connect`, `Disconnect`; `ForeignRecord` |

The refinement mapping to `RemoteAccess`: `members` are the rows that are known and
not revoked, `wanted` those of them with `desired`, and `open` the installations
whose DNS record names one of their own generations.

### What the other modules leave out

* `ControlDesk`: an action, a request or an alert is its number; names are who gave them.
* `RateWindows`: a behaviour follows one of the three kinds of quota.
* `Diagnostics`: sizes in units; a bundle's content is left out.
* `ReleaseBroker`: an asset's number is its identity and its content; GitHub is external.
  Its requests overlap, which is wider than the code: `Registry.fetch` lets one in at a
  time (`index.ts:507-517`). What holds of overlapping requests holds of those.
* `Cockpit`: one panel stands for the five that load and retry alike. A 401 and a 403 of
  the session, the close codes 4401 and 4403 and a changed capability end the sign-in by
  the same call, and are one: the session is over, or another's (`OtherSignIn`). A 401 or 403 that is Planning
  Center's own (`routes.py:295-311`) is an answer apart, "denied".
* `SettingsDesk`: a section's value is the number of the save that wrote it.
* `SetupPanels`: the method, two fields and the secret; the four panels differ in when a
  draft follows a new copy, and all four rules are modelled. Of Lighting the first field
  stands for those of OSC and the second for those of MIDI: only the chosen method's are
  on show, counted and checked, and while OSC is chosen a save sends the copy's MIDI.
* `LightingEditor`: a cue is its identifier. `CueTimeline` has the times and pixels.
* `LayoutGrid`: a list is the reading order of its widgets. The tablet's list is left
  out, for no width selects it.
* `LengthUndo`: a length that two hands gave alike is the same length, as it is for the code.
* `CueTool`: a setlist is a sequence of songs, talk and unclear items; the events of a
  song are those at the cue's channel and note, `here` in the bank and on the bus where the
  tool writes, `there` elsewhere. Elsewhere the planner counts only the ordinal it looks
  for and what is malformed (`planner.ts:128-153`), and so does the model.
* `ChatSession`: a text is its length; the page is external and takes its own time. A turn
  that is empty or only thinks reads as nothing, as the question, or, by the extractor's
  other strategies, as an answer of before (`response-extractor.ts:45-70`).
* `VisualEditor`: one source line of elements whose text or colour class is as long as
  its number, so that a save moves what is behind it. A text may be emptied; a JSX text
  (`Plain`) that is empty is no segment any more, and one with white space (`Loose`) is
  shown without it. An element has one text and its class names one colour.
* `Popovers`, `Header`: places and sizes in pixels are left out; a timer fires whenever
  the browser comes to it.

## Runs

| Run | Question | Result |
|---|---|---|
| `backend` | Every action against reloads of the same day's plan; and beside it the two inputs, the plugins and the length job | hold; 2.4 million states, 2.0 of them of the state service |
| `rollover` | The same across midnight, with archived plans, failures, restarts from the cache | hold; 4.1 million states |
| `live` | Is every call answered, with two callers and a refresh? | holds under fairness; 199,000 states |
| `lights_output` | One publisher's commands and reports, with a save of any settings, the monitor or the panel connecting, a lost port and a cue edit | hold, `HandlersFinish` under fairness; 434,000 states |
| `control_plane` | The five parts of the control plane: calls that fail or take effect unseen, evictions, lost acknowledgements, late downloads; and the refinement to `RemoteAccess` | hold; 1.3 million states up to symmetry |
| `panels` | The dashboard's editors and the tools | hold; 3.3 million states |
| `dashboard` | Connection, sign-in, polling panels, update, startup, header: what is shown, and that each comes to rest | hold, four of them under fairness; 491,000 states |
| `started_label` | Does the playing label name the started song? | violated |
| `reset_reload` | Is the first song up next after a reset? | violated |
| `rollover_start` | Is there no countdown without a plan? | violated |
| `lights_stop` | With a rollover's stop, is every timeline wanted? | violated |
| `lights_saved` | With a save and a cue edit, are the saved settings in force? | violated |

Of the state service, `backend` checks `TypeOK`, `UpNextIsPending` and the two action
properties; `CursorInPlan`, `LabelInPlan` and `LoadDescribesPlan` are checked in `rollover`,
whose plans change in more ways.

## Properties

State service (`backend`, `rollover`, `live`):

* `CursorInPlan`, `LabelInPlan` - no derived field outlives or contradicts its plan;
* `UpNextIsPending` - the label the operator reads is what Start next will play;
* `LoadDescribesPlan` - at rest, the load state is about the plan on show;
* `StartPlaysUpNext`, `ReloadFollowsSongs` - what a start and a reload may never do;
* `CallsAnswered` - every call returns.

Lights (`lights_output`): `OneTimeline` (no timeline runs that a stop could not
cancel), `NeverBoth` (the MIDI port and the OSC socket are never open together),
`OnlyWantedTimelines`, `HandlersFinish`.

Control plane (`control_plane`):

* `FleetIsSound` - the ceiling holds, and no tunnel or record is left that no row knows of;
* `FinishedRemovalIsClean` - an installation saved as disabled has nothing left at the
  provider, whatever failed and was tried again on the way;
* `ImplementsRemoteAccess` - the refinement;
* `DeskKeepsItsWord` - an action leaves the queue only when it was applied, an answer of
  the operator stands, and so does a label;
* `LimitsHold` - the bucket's cap is real, no sweep of a quota gives a second helping, and
  recovery has its reserve of provider calls;
* `WithdrawnIsNotServed` - what is withdrawn is served at most a cache's life longer.

Dashboard (`dashboard`): `NeverGoesBack` (the screen and a running backend's
revisions), `SignedOutShowsNothing`, `SignInStands`, `NotLeftDown` (a failed update
does not leave the backend stopped unsaid); under fairness `ComesBack`,
`ControlsSettle` (a scan is released, a checkbox converges), `StartupEnds`,
`HeaderSettles`.

Panels (`panels`):

* `NothingIsPutBack` - a save of the whole settings puts no other section back, as
  long as operations do not overlap;
* `NoEditLost` - a held value goes only when it is typed over, discarded or saved, but for
  one of the lighting method that is not on show;
* `ShowsNothingUntrue` - the access switch names the setting that is saved or in force,
  unless another save went out over a choice that is held;
* `CapturesStay` - a captured cue survives every edit that sends a whole list;
* `WholeLayoutSurvives` - a complete layout comes back as it was left;
* `ViewsAgree` - the pairs drawn are those that drive the timer, and Ready is ready;
* `OverlaysBehave` - labels keep clear of markers; nothing is open but what is pointed at;
* `ToolIsSound` - the cue tool's `CueRunIsSound`, `AnswerIsWhole` and `LoginHolds`;
* `RevertRestores` - a revert of the visual editor that ran to its end restores the source,
  but for the cases of `muddled` below;

Inputs, plugins and lengths (`backend`):

* `CanBeGivenBack` - a length that StagePilot put into the plan can be given back;
* `MidiIsSound` - connected means heard, ports are closed, a note is held only while its
  key is down, a press makes one action, and nobody waits for a simulated cue in vain;
* `PlaybackIsSound` - the two inputs never overlap, a start is begun only on a song seen
  in the connection, order and skips in force, and cancelled scans end;
* `PluginsAgree` - one source is registered, nothing runs that is not registered, none is
  reported as running that does not run, and the last save wins.

Several properties have an exception written into them, as a history variable or a
condition (`calm`, `apart`, `~switched`, `crossed`, `reselected`, `missed`, `late`,
`muddled`, `overlapped`, `scansCrossed`, `overwritten`, `~torn`, `~Offered`, "denied",
"earlier", `Complete`). Each one is a case in which the code really
does not keep the promise; the model has the case, and the list of
[disagreements](#disagreements) names it.

## Bounds

`backend` uses two plans of one day over four songs: one song stays and
moves, one is replaced by a song of the same title and a new identifier, one is
untimed, one is dropped - every case of `_safe_match` but a duplicate within one
plan, which it treats as no match. `rollover` uses a plan on each of two days,
the second with an untimed song, and one midnight. The safety runs have one caller: the lock is FIFO and an
operation reads nothing of the waiting calls, so a second caller adds no step
that a new call of the first does not; `live`, where waiting is the question, has
two. `Calls` is every operation with positions from the first to one beyond the plan;
in `live` it is one call for each way of suspending. `MaxDay` bounds the clock.

The other parts in `backend`: one MIDI input, which can be unplugged, deselected and
selected again, with two connections, selections and messages (`MaxOpens`,
`MaxSelections`, `MaxNotes`) and a queue of `Capacity`; two requests and two scans, two
observations and a queue of one (`Callers`, `Scans`, `MaxRequests`, `MaxObserved`,
`QueueBound`); two switches of the source (`MaxSwitches`: the retry holds the first
plugin while the second replaces it); a plan of two songs with two measured lengths, one that
someone types, and two previews (`N`, `Given`, `Measured`, `Typed`, `MaxPreviews`: one that is
carried out and one that has become stale).

`lights_output` has the publisher of actions alone, because with the rollover's stop
`OnlyWantedTimelines` does not hold. It has one save at a time, of a disabled, a MIDI
or an OSC connection, and one background task, which is the monitor or a request of
the panel each time it starts: both only connect, and whatever two of them do to each
other a save and a timer event do as well. One publisher has one command at a time,
with at most its event and its report being handled, so the coroutines are few and
every interleaving of them is explored.

`control_plane`: three ids against a ceiling of two, so that the ceiling is met with
one installation outside; two generations, so that one can be stale while the next is
made; one installation that uses remote access (`Remote`), because two only share the
token cache and the budget, which `RateWindows` has; one credential rotation
(`MaxCred`). Two queued actions and alerts (`MaxActions`: a late answer to the first
meets the second). Three bundles of one or two units against a cap of three, swept one
at a time (`Bundles`, `MaxSize`, `Cap`, `SweepBatch`). Three sources, one exempt, for
an index of two (`Sources`, `Exempt`, `MaxSources`), two windows of length two within
`MaxNow`, and budgets `PerWindow`, `Total`, `Normal` that differ by one or two. Two
downloads, two files of which one is a manifest, two assets and one redirect
(`Downloads`, `MaxAssets`, `MaxRedirects`), with a cache that lives for one of
`MaxClock` ticks. Downloads, generations and the ids without remote access are
symmetric: no definition chooses or orders among them, and every property of the run is
an invariant or an action property.

`dashboard`: two runs of the backend with two revisions each (`MaxRuns`,
`MaxRevision`), two sign-ins, two requests on their way (`MaxRequests`: one late, one
new), two operations and mounts of a panel, two installs and launches, one failure and
one retry of the startup, two tasks and a streak of two readings (`Streak`), four
resizes and two notices. `Windows` is FALSE: on Windows, `prepare_for_update` may stop
the backend and then give up, and `NotLeftDown` does not hold.

`panels`: two saves, two at once (`MaxSettingsSaves`, `MaxAtOnce`); three songs on
either side of a pairing (`MaxSongs`); two cues in two songs with two edits; three
widgets, among them the two with rules of their own; one panel save besides the draft
and the copy (`MaxPanelSaves`); setlists of two songs in either order, with talk, a
song twice and an unclear item (`MaxItems`: three at most), cues found of each kind
(`Found`: none, one, two, a malformed one, and elsewhere one of the first ordinal or a
malformed one), two runs of the tool and one change by others (`MaxRuns`, `MaxRearranged`); two clients, organizations and accounts with three logins
(`MaxLogins`: one complete, one interrupted, one after it); two elements, a JSX text and a string,
with texts of no, one or two units, of which the longest has white space, and two saves
(`LineOf`, `Plain`, `Lengths`, `Loose`, `MaxElementSaves`; once muddled, the editor only
reverts, because nothing is promised any more); four markers of which two have long names, at two scales
(`Scales`: labels collide, and do not); three questions of at most two units
(`MaxAsks`, `MaxLength`, `Threshold`); two rows with notes and three visits
(`MaxHover`). `HostSetByShell` is TRUE, as the desktop shell always
has it (`desktop/src-tauri/src/lib.rs:829`), with two saves (`MaxSaves`: a choice, and
another save over it); the theorem has both values.

In each of them the question takes one actor that is late and one that is new, and
the bound lets both come.

## Fairness

`StageState`'s `FairSpec` assumes weak fairness of the operation at the head of the
lock's queue and of its continuation (the event loop runs ready tasks), of each
publisher's answer by the output (ProPresenter requests have a timeout and every
path reports or returns) and of the refresh task's steps (so do Planning
Center's requests). Calls, stops, switches and midnight need not happen.

`LightsTimeline`'s assumes that every suspended coroutine resumes (the lock is
first come, first served and the backend threads return) and that a cancelled
timeline ends; nobody has to send, save or lose anything.

In `MCDashboard`, `CockpitFairness`, `PanelFairness`, `UpdaterFairness`,
`StartupFairness`, `RemoteDeskFairness` and `HeaderFairness` assume three things:
a timer that was set fires, a request is answered, if only with an error (the page's
requests end with the connection, the shell's with their process), and a poll goes on.
One assumes more: `SF(PollServed)` in `RemoteDeskFairness` is that of the polls that are
tried again and again, some succeed, without which a checkbox could not follow the
backend. None else assumes that anything succeeds, and none that a person acts or that a
session lasts; `ComesBack` and `StartupEnds` say from when on the backend stays up instead.

The control plane, the panels, the inputs and the plugins are checked for safety only. Their handlers end at an
eviction, a failure or a closed page at any step, and nothing has to try again.

## Disagreements

Five runs are expected to be violated; each refutes a sentence of the repository.

* `started_label`: `_start_next` reads the song, publishes `SONG_SELECTED`, and
  labels by position when that returns; a reload handled in between has moved
  the songs. The countdown and the cues are those of the song read before, the
  screen names another. `models/state.py:192` says the label is "the song
  actually started".
* `reset_reload`: `_reset_position` sets the pending position first and the
  cursor after the timer reset returns; a reload in between follows the old
  cursor, so a later song is up next after the reset. The test at
  `src/backend/tests/test_state_service.py:771` names the contract.
* `rollover_start`: a rollover stops a countdown that is running, but one whose
  start is on its way to the output starts after the plan is gone. See
  `src/docs/configuration.md:166`.
* `lights_stop`: a timer event handler cancels the old timeline, waits for a
  connection and starts its own. The stop of a date rollover comes from the
  refresh task, not under the action lock; handled during that wait it finds no
  timeline, which then starts on a stopped timer. See `src/docs/lights.md:86`.
* `lights_saved`: a save reads the cue maps of the file, writes it, and waits for
  the cancelled timeline and the lock before it assigns the settings. A capture
  during that wait reaches file and plugin and is then overwritten in the plugin,
  which goes on without the cue that the file has. Two overlapping saves are
  applied out of order in the same way. See `src/docs/lights.md:138`.

In the first three `CursorInPlan` and `LabelInPlan` still hold: what is on show is
consistent, it is not what the action promised.

The others were met while modelling. The model has them and a property excepts them,
or they lie just outside of one; no run is spent on them.

Backend:

* Two overlapping finds, or a find and a cancel, while a scan is awaited drop the handle
  of a running scan, which can no longer be cancelled and may still adopt its address
  (`playback_api/plugin.py:665-692`; `scansCrossed`).
* `restart_failed`, without the lifecycle lock, can start a plugin again that was just
  removed or replaced (`core/plugin.py:169`; `overlapped`), against the docstring of
  `replace`.
* A plugin removed during its probe makes the whole health request fail
  (`core/plugin.py:205`), against the comment on one failed probe.
* MIDI: an input deselected and selected again before the supervisor looks is reported
  as connected while all its messages are stale (330-352, 505-516; `reselected`). A
  release dropped on overflow leaves its note held, so that the next press is ignored
  (`missed`). A simulated cue releases a latch that a hand still holds. A plugin restart
  after a live selection goes back to `_settings.input_name`.
* Playback: skips saved while a start waits for the action lock are not applied to it;
  `RESTART_CURRENT`, decided from a snapshot, may restart another song
  (`mapping.py:139-147`).
* Settings: a lighting cue map is written without `_cue_map_lock` (`routes.py:1157`).
  A changed address that compares equal to the one before reports no restart.
* Lengths: an edit between the look and the PATCH is overwritten (`crossed`).
* Planning Center's authentication path is for the OAuth routes to change, but the
  settings route changes it too (`api/routes.py:724-728`).

Control plane (`control-plane/src/index.ts`):

* `activeInstallations` is not accurate after a removal that failed behind its first
  save: the retry never counts it down (266, 1447). A revoked installation is not cut
  off while its tunnel's connector runs (85).
* A rate limit reset that is queued again while the first is applied and not yet
  acknowledged is taken for acknowledged; an alert is acknowledged for an occurrence the
  operator has not seen.
* A replaced asset answers 503 until the cached release expires (300 s).
* A sweep before an upload refused over the cap is not saved in the running total.
* `pcoOauthExchange` checks `codeVerifier.length` twice and `redirectUri.length` never (1219).

Dashboard (`frontend/src`):

* A desktop layout that loses the hidden events widget on Fit or Compact fails to parse
  at the next load, so that the hidden choice is reset (`DashboardGrid.tsx:143-170`,
  against `DashboardGrid.eventsHidden.test.tsx:65`). A viewer's list without the manual
  controls is rejected in the same way. `docs/dashboard-layout.md` says that Reset asks.
* The access switch can show a network setting that is neither saved nor in force: under
  the shell a choice is held until the restart, and saving the PIN or the configuration
  meanwhile sends the old setting, while the switch goes on showing the choice
  (`BackendSetupPanel.tsx:278-295`, against 278, "so it can never show something untrue";
  `overwritten`).
* A value typed for MIDI is lost without a question when Lighting is set back to OSC and
  left: only the shown method's changes are counted (`LightingSetupPanel.tsx:401-404`,
  `Dashboard.tsx:825-829`; `~Offered`).
* A 401 or 403 of Planning Center, passed on to an act of the operator (`routes.py:295-311`,
  `playback.py:401-405`), signs the browser out, for `api.ts:123` takes it for the end of
  the session ("denied").
* A lighting edit made before a capture is read sends the list without it; one typed
  during its own save is overwritten when that lands; a failed cue save leaves its
  optimistic rows; saving one OSC row fails while another has no address; an unsaved OSC
  row is lost when the settings are fetched.
* Settings saves under different keys put each other's sections back when they overlap
  (`apart`). A settings change wipes unsaved MIDI and Services drafts. A save of the
  secret alone that fails leaves "All changes saved".
* A backend that restarted with a lower revision leaves the dashboard frozen
  (`useStagePilot.test.tsx:416`). The late answer of a sign-out ends a newer sign-in.
* An update on Windows can leave the backend down; two presses install twice.
* A remote switch whose autostart fails stays on without it. The late answer to a
  cancelled scan releases another operation.
* Three notices at once drop the first, the error (`Dashboard.tsx:730`, against 728). A
  hovered row that leaves the page keeps its widget warm (142).
* "Logs sent" stays for a later error (`GlobalErrorListener`).

Tools:

* Cue tool: a cue of another ordinal on another bus or in another bank is not counted, so
  that a song that moved gets a second cue beside the old one (`planner.ts:128-153`); an
  exact cue hides a conflicting one beside it (134); a song whose cues are edited between the
  reading and the write gets one anyway (`crossed`). A proposal for exactly one missing cue in a longer setlist never matches its
  digest (`runner.ts:41`, `proposals.ts:54`); its expiry is never checked (README 43);
  edits between confirmation and apply are not noticed; the verifier's `duplicated` can
  never count.
* ChatGPT commands: an error of the question is swallowed; a page that shows the question
  after the second poll gets the previous answer (`late`); an answer that does not begin
  within eleven polls prints the question, and one that stays empty or thinks prints an
  earlier answer ("earlier", `response-extractor.ts:45-70`); a conversation whose address
  comes late is not stored.
* Agent: after ten tool steps the history has a question without an answer.
* Logins: choosing an organization after a login under one fails; an interrupted choice
  and a logout leave a login; another OAuth client keeps the organization (`switched`).
* Visual editor: a hot reload between the two requests of one save loses the colour; a
  token save behind an element save is not inverted; a JSX text that is emptied cannot be
  put back, because it is no text any more (`source.ts:203`), and the rest of the inverses
  is forgotten with it; white space that the panel does not show is not put back (91, 212);
  of several colours of one kind in a class only one is (264-271). All against
  `overlay.ts:69`, "inverse operations for saved edits" (`muddled`).

## Proofs

Eight modules hold proofs, each checked by TLAPS for every value of the constants that
satisfies the `ASSUME`s of the module it extends. A safety property of a run that a
theorem states is shown on a small instance by the run and in general by the theorem:

| Module | Theorems about properties of the runs |
|---|---|
| `StageState_proofs` | `TypeCorrect`, `CursorAlwaysInPlan`, `LabelAlwaysInPlan`, `UpNextAlwaysPending`, `LoadAlwaysDescribesPlan` (invariants), `StartAlwaysPlaysUpNext`, `ReloadAlwaysFollowsSongs` (steps) |
| `LightsTimeline_proofs` | `TypeCorrect`, `AlwaysOneTimeline`, `NeverBothOutputs`, `ActionsLeaveNothing` |
| `ControlPlane_proofs` | `RegistryIsSound` (`FleetIsSound`), `RemovalsEndClean` (a step), `KeepsThePromise` (the refinement of `RemoteAccess`) |
| `ControlPlaneParts_proofs` | `WithdrawnIsNeverServed`, `LimitsAlwaysHold` (invariants), `WordIsKept` (steps) |
| `PlaybackInput_proofs` | `PlaybackStaysSound`, `MidiStaysSound` (of `MidiSpec`, the MIDI input by itself) |
| `BackendParts_proofs` | `PluginsAlwaysAgree`, `LengthsCanBeGivenBack` |
| `Dashboard_proofs` | `NothingShownSignedOut`, `UpdatesBringItBack`, `CapturesAlwaysStay`, `SwitchShowsNothingUntrue` (invariants), `ScreenNeverGoesBack`, `SignInsStand` (steps) |
| `Panels_proofs` | `ToolIsAlwaysSound`, `ViewsAlwaysAgree`, `OverlaysAlwaysBehave`, `RevertAlwaysRestores` (invariants), `SavesPutNothingBack`, `EditsAreKept`, `LayoutComesBack` (steps) |

Every proof has the same argument: an inductive invariant, which TLC checked on an instance
before it was proved, that holds initially (`...Init`), is preserved by each action (one
lemma or step per action, `...Step`) and implies the property. A theorem about steps uses
the invariant in the state before the step. Where the parts of a composition move one at a
time, each part's invariant is proved of its own steps and then of the composition
(`LimitsInvariant`, `PanelsInvariant`, `PanelsKeepEdits`). Below: what each invariant adds to the property
and why the property is not inductive without it.

### The state service (`StageState_proofs`)

For all songs, plans, clients, calls and days that satisfy the assumptions (plans are
sequences of songs and have a date, a song is timed or not, the markers are not among the
values they mark, `MaxDay` is positive, calls are requests).

The inductive invariant `IInv` has three parts. `LockInv`: who is suspended
where, with a call that explains it - without it `StartTimed` could be taken for
an operation that never selected a song, and `Moving` would not say which
actions may leave the label behind. `ServiceInv`: the types of the record with
`CursorInPlan`, `LabelInPlan` and `UpNextIsPending` - the match across a reload
reads old cursor and label, so each needs the others' ranges. `RefreshInv`: the
refresh task's locals, in particular that it holds a plan when it projects one.
`StartTimed` preserves `LabelInPlan` although its position is stale, because
`SetLabels` checks the position against the plan now on show - the proof shows
where the code depends on that check. `SafeMatchById` (a song that is in both
plans once, under its identifier, is found) carries `ReloadAlwaysFollowsSongs`.

`LoadDescribesPlan` speaks of a refresh task at rest, so `LoadInv` follows the task
through its steps. `LoaderInv` says what it may be about to announce: a report after which
nothing more comes describes the plan that is left once it is applied (`PlanAfter`), and a
task about to fetch knows the date of the plan on show, or that none is. `ClearInv` keeps
`clear_service`, which empties the plan without the task's knowledge, out of the queue while
the task runs. `ActionsKeepPlan` says that the other actions change neither.

### The lights (`LightsTimeline_proofs`)

For any savers, background tasks, offers and timelines (a publisher is the action holder or
the rollover, timelines are numbers, an offer is a connection without cue maps).
`ActionsLeaveNothing` is `OnlyWantedTimelines` when the rollover's stop does not
take part; the run `lights_stop` shows that it fails with it.

A coroutine runs through several operators before it is suspended again, so the
proof is by operator: each takes a plugin that is good but for the coroutine that
runs (`Ready`) to a good one. Good means: the holder of the lock is at its head
and has closed the outputs whenever it is suspended inside; whoever is going to
open or assign has settings for it; and no timeline runs while a handler is on its
way to start one. The last needs `Publishing`: one handler at a time is on such a
way, because the action holder's next command waits for its event, and the report
of a song start comes only when the song event did not start a timeline itself.

### The control plane (`ControlPlane_proofs`, `ControlPlaneParts_proofs`)

For any installations, nonces, generations and any ceiling. `CPInv` says what a request has
established before each of its provider calls. `ProvisionInv`: it deletes only tunnels of
another generation than its row's, deletes a tunnel only after the record that pointed at it,
and creates a record only to a tunnel it has configured. `RemovalInv`: the phase keeps
everybody else out, and `settle` is reached only when tunnel and record are gone - a call
that took effect unseen leaves the state one step further than the request knows, which the
next attempt's first look repairs. `CountInv` allows the counter to be one too high between
the revocation's write and its decrement, never too low. An unknown identifier has an
untouched row, a revoked one is never wanted. `KeepsThePromise` maps members, wanted and open
routes to `RemoteAccess`: enrolment and revocation map to its joins and leaves, the creation
and deletion of a record to the opening and closing of a route, every other step to a stutter.

`BrokerInv` relates three clocks: what a cache entry names was public until at most
`CacheTime` before the entry expires, and what a request has chosen was public after the
request came or at most that long before. Without the first, a request that finds an entry filled
by an earlier one could not be bounded. It is proved of overlapping requests, too.

`DeskInv`: an acknowledgement on its way, and a site about to send one, name an action that a
run of the handler was for; an answer that a site has read is the one that was given. The
first is what makes a late acknowledgement harmless: it names its own action.

`DiagnosticsInv` follows the running total through an upload: unless an upload has stopped
between the bucket and the total, what has metadata is counted, by `used` or by the upload's
own copy of the total, and what is in the bucket has metadata or is just being uploaded. The
cap is checked against the copy, so the copy has to count everything at that moment.
`RateInv`: what is stored of a source is its window, or nothing once that is over, and is in
the index; and calls that do not recover stop at `Normal` beside those that do (`ReserveIsLeft`).

### Inputs, plugins and lengths (`PlaybackInput_proofs`, `BackendParts_proofs`)

`PlaybackInv`: who holds the lifecycle and the dispatch lock and what a change of the input
has established at each of its awaits (`ChangeInv`: nothing is received while it stops the
old input; nothing runs once it has); what an observation depends on has changed only if the
mapper's revision has (`ItemsInv`), which is why comparing revisions is enough; `OneScan`
says that two requests that cancel a scan do not overlap unless `scansCrossed`.
`PlaybackAssumption` says that callers, scans and the other actors are different names.

`MidiInv` (for any inputs, capacity of the queue and number of connections, selections and
messages) has five parts beside the types and `NobodyWaitsInVain`. `WatcherInv`: the port that
is open is the supervisor's, and its messages count only while it is watched. `HeardInv`: what
is watched under the selected name is listened to, and nothing else is reported as connected -
unless the selection changed while the supervisor was on its way. `NotesInv`: what comes from a
device names a connection that was made. `LatchInv`: while the key is up, a release from the
present connection is queued behind every press from it, and one is queued for a press that is
latched or about to be, so a note that is held with nothing queued has its key down. `SpareInv`
carries `OnePerPress`: what the queue may still cost in actions depends on the note being held
or free when the consumer comes to it, and a dropped or stale message changes which. Two
functions over positions, one for each case, bound it, related only from one position to the
next; `spare` covers them at the head. Taking a message shifts them; only a press of a key
that was up raises them, by at most the one that it adds to `spare`; so no sum over the
queue has to be computed.

`LifecycleInv`: registry and switch agree at every step whatever overlaps (`RegistryInv`,
`SwitchInv`), and the parts of `PluginsAgree` that carry `overlapped` rest on `ApartInv`:
unless the retry and a switch had the same plugin in hand, each name's status, what its object
is and who has it in hand agree. A retry that keeps an object past its removal breaks
`HeldInv` first, which is where `overlapped` is set.

`LengthInv`: a length that somebody typed is not newer than the last typed one (`AgeInv`); a
record made over a person's length holds that length (`PendingInv`); an update has its
record in the file before it writes and can take it back (`UpdateInv`); a restore works on the
records as they are (`RestoreInv`). They are needed because a PATCH whose answer is lost
leaves either length in the plan: the record must be right for both.
`LengthAssumption` keeps the lengths that persons type and those that are measured apart, as the
model does to tell them from each other; `NoneIsNoRecord` and `NoneIsNoRequest` (control
plane) only keep a marker out of the values it marks.

### The dashboard (`Dashboard_proofs`)

`CockpitInv` adds to `SignedOutShowsNothing` that an answer `401` to a request of the present
sign-in, and a socket that was refused, mean that the session is over or another's (`taken`,
`GateInv`); answers are told apart by the sign-in they were asked in. `UpdaterInv` adds who answers for a stopped backend: an
installation that stopped it and is still installing, relaunching or recovering, which the
property reads only when none is left. On Windows `prepare_for_update` may stop the backend and then
give up, so `UpdatesBringItBack` is about the other systems, as the run is.
`EditorInv`: while the operator waits, one operation is under way, the dashboard's copy and the
rows hold the captured cues, and no operation that is under way takes one away or carries a
list without it. `AccessInv`: unless `overwritten`, a choice that is held
is what the file has, or what the save under way will write, and the settings copy has what
is in force where the shell names the address, what the file has elsewhere. `SwitchShowsNothingUntrue`
holds for both; without the exception the first fails, which is the disagreement above.

### Panels and tools (`Panels_proofs`)

`SettingsInv` (while operations do not overlap and every answer comes): the copy of the
settings that an operation goes by has what is saved but for what the operation itself writes
(`BasisInv`), the copy that the rest of a Save goes by likewise (`ChainInv`), and the
dashboard's copy has what is saved but for what is written and not read back (`HeldInv`). The
property is about one save; the invariant has to say from which reading each copy came.
`SetupTypeOK` carries only types: that a held value stays follows from each step, by the rule
each panel has for a new copy (`SyncedType`), and a panel left without a question has no
change that it counts. `LayoutInv`: what is stored is the layout, and
the mobile list always has every widget - the desktop list may lose one, which the property
excepts. That a usual order exists for any finite set of widgets is `UsualIsComplete`.

`CueInv`: the shape of a run by its phase (`CueShape`), what the plan says of the events as
they are read (`PlanInv`), the one item a write is for (`ItemInv`), and that what was done so
far is as it was asked (`DoneInv`). No second cue is created because a create is planned only
for a song that was read without events here and without this ordinal elsewhere
(`CreatesNew`), is one call without a retry, and the item's own reading is what it goes by.
`found` is what people left of a song, which the tool may add one cue to and no more.
`ChatInv` says which turn of the conversation the page can show at
each step of the poll, and that a settled reading is of a whole answer unless the page showed
the question late; what is read of an earlier turn is an answer (`EarlierType`). `LoginInv` follows the account of a login through the slot of no
organization to the slot of the chosen one.

`PairingInv`: in front of both positions as many songs are kept on the one side as on the
other, or one side is at its end (`InStep`), and the lines drawn so far pair the songs of equal
rank. `PillAsksMore` needs no invariant: the two computations are compared for every state.

`LabelsOf(labels, S)` is what placing the markers of S, the earliest first, makes of the
labels, for any set of markers: on every row no label reaches the next. `KeepsClear` then
looks at what clipping adds. `PopoversInv`: a timer runs only where the pointer or the focus
is, and the count of rows under the pointer is right unless a row left the page.

`OverlayInv` carries `RevertRestores`: unless muddled, the inverses kept lead from the source
back to the original (`Leads`), each undoing the files it was recorded for, in which it finds
a text (`Kept`). `OverlayHolds` is that until the editor is muddled, and then nothing. An inverse names a
column, and columns move with every save; that it still finds its element is
`EditIsUndone`: an element's column depends on what stands before it only (`ColumnsAreLocal`)
and no two share one (`ColumnsIncrease`), so an edit leaves the edited element at its column,
and, undone in the opposite order, every inverse meets the very files it was recorded for.

Induction. The library's induction theorems take an operator, which the provers cannot
instantiate. For a set they need none: `SmallestSet` (finite sets are well founded under
inclusion, from `FS_StrictSubsetOrderingWellFounded`) gives `LeastNumber` and `Induction`
over a set of numbers. By them the recursive functions exist and are what they should be
(`ColumnsOf`, `Stack`), and so do sums over bundles. It takes recursion that is a
function, or a set's size, not a fold over a sequence; so `SongPairing` numbers the kept songs
(`Nth`) where the code counts through the two lists, `CueTimeline` stacks markers by recursion
over the set of placed ones, and `VisualEditor` has one function from an element to its column.

Writing `DoneInv` showed that `SuccessIsReal` spoke of the last item only, because the reading
of an item overwrites what the job has chosen; the model now keeps what was asked apart
(`asked`), and the property is about all of it.

Assumptions that these proofs need and the code justifies: the markers (`NoJob`, `Nobody`,
`Blank`, talk and unclear items) are not among the values they mark; markers and widgets are
finitely many; each class that the original line has is a colour of the palette.

### Only model-checked

* Liveness: `CallsAnswered`, `HandlersFinish`, `ComesBack`, `ControlsSettle`, `StartupEnds`,
  `HeaderSettles` - fairness and ENABLED are out of the prover's reach.
* The runs that end in a disagreement: each shows a trace.

Every other property of a passing run is stated by a theorem.

## Not modelled

* The Demo plugin: its reports are among the answers that `StageState` allows.
* Alerts, rate anomalies and logging: observers that feed nothing back. The file lock:
  the operating system's.
* Parsing and validation of settings and requests, paging, PIN and password handling,
  signatures, cosign, markup and styles, the Rust of the desktop shell (windows,
  processes, credentials): no protocol between actors.
* Of modelled parts: the waiting callers and `reconfigure` of Planning Center
  (`planning_center/plugin.py:266, 319`), the device and the retries of ProPresenter
  (`propresenter/plugin.py:232, 265`), `start` and `stop` of the lights, the two-second
  reservation between the inputs, channels and velocities of MIDI, the processes and
  sessions of the remote connector, and the plan cache's file handling.

Hazards that no property covers yet, besides those: an error of the output reported while
a reset is published is overwritten with STOPPED (`state_service.py:431`); the source
switch checks for a running countdown and then awaits the removal of the old plugin
(`service_source.py:112`); a rejected action withdraws the reservation under its key, the
two-second window starts before the wait for the action lock, and two clocks decide
when Playback takes over (`playback_api/arbiter.py:212, 101, 67`); the plan cache is
written to a temporary file and renamed (`core/plan_cache.py:73`).

## Plan

1. `PlanningCenterRefresh` - the scheduler with its waiting callers, selections and
   `reconfigure`; an abstract specification (every request is served by a round that
   began after it) that it implements.
2. `ProPresenterTimer` - the operation lock, retries, the device's own state, and the
   order of reports; theorem: agreement of device and report at rest.
