----------------------------- MODULE StageState -----------------------------
(***************************************************************************)
(* StateService at run time: the actions of the stage surfaces (dashboard, *)
(* MIDI, Playback), serialised by the action lock, interleaved with        *)
(* Planning Center's refresh task, which changes the plan without that     *)
(* lock, and with the presentation output, which answers timer commands    *)
(* while the publisher of the command waits.                               *)
(*                                                                         *)
(* A step runs from one suspension point of the event loop to the next.    *)
(* EventBus.publish suspends its caller until every subscriber is done;    *)
(* StateStore calls never suspend.  So an action is one step up to the     *)
(* publication of its event, and a further step for what it does after.    *)
(***************************************************************************)
EXTENDS ServiceState

CONSTANTS
    Clients,    \* callers of dispatch and its siblings, each with one call at a time
    NoRequest,
    Calls,      \* bound: the calls clients make, a subset of Requests
    MaxDay      \* bound: the last day the clock reaches

ASSUME MaxDayAssumption == MaxDay \in Nat \ {0}

VARIABLES
    st,         \* the service part of ApplicationState
    pending,    \* StateService._pending_start_index
    req,        \* the call each client waits on
    queue,      \* clients in the order they asked for the action lock; its head holds it
    act,        \* where the holder of the lock is suspended, and its local variables
    cmd,        \* the timer command each publisher waits on
    ldr,        \* the Planning Center refresh task
    cache,      \* the last-known-good plan on disk
    today

vars == <<st, pending, req, queue, act, cmd, ldr, cache, today>>

Days == 1 .. MaxDay

\* Operations without an argument, with a song position, and with a time position;
\* `left` says whether the position leaves time on the current song.
PlainOps == {"start_next", "restart", "previous", "next", "stop", "reload",
             "reload_if_idle", "reset", "clear_service"}
TimeOps == {"resume_at", "seek", "stop_at"}

Request(op, arg, left) == [op |-> op, arg |-> arg, left |-> left]

Requests == [op   : PlainOps \cup {"start_at"} \cup TimeOps,
             arg  : Nat,
             left : Left]

ASSUME CallsAssumption == Calls \subseteq Requests /\ NoRequest \notin Calls

Free == [at |-> "free", index |-> 0, song |-> NoSong]

Holder == [at    : {"free", "selected", "commanding", "emptied"},
           index : Nat,
           song  : Songs \cup {NoSong}]

Publishers == {"action", "loader"}

\* A timer command travels to the presentation output and is done when the output
\* has reported, or stayed silent.
Commands == {"none", "start", "stop", "reset", "reposition", "done"}

LoaderAt == {"off", "idle", "announcing", "stopping", "fetching", "projecting", "looping"}

Loader == [at    : LoaderAt,
           msg   : [status : LoadStatus, date : Nat, stale : BOOLEAN],
           then  : LoaderAt,        \* where it goes on after announcing msg
           day   : Nat,             \* search_date
           prev  : Nat,             \* previous_plan_date, 0 for None
           cand  : Nat,             \* the date of the candidates on show, 0 for none
           found : Plans \cup {NoPlan},
           again : BOOLEAN]         \* _pending_reload

IdleLoader == [at |-> "idle", msg |-> NoLoad, then |-> "idle", day |-> 0, prev |-> 0,
               cand |-> 0, found |-> NoPlan, again |-> FALSE]

OffLoader == [IdleLoader EXCEPT !.at = "off"]

-----------------------------------------------------------------------------
(* Calls and the action lock *)

Call(c, r) ==
    /\ req[c] = NoRequest
    /\ r.op = "clear_service" => ldr.at = "off"
    /\ req' = [req EXCEPT ![c] = r]
    /\ queue' = Append(queue, c)
    /\ UNCHANGED <<st, pending, act, cmd, ldr, cache, today>>

\* The first step of an operation: c is given the lock and runs.
Takes(c, op) == /\ act.at = "free"
                /\ queue # <<>> /\ c = Head(queue)
                /\ req[c].op = op

\* The call returns and the lock passes on.
Return == /\ req' = [req EXCEPT ![Head(queue)] = NoRequest]
          /\ queue' = Tail(queue)
          /\ act' = Free

Hold(at, i, song) == /\ act' = [at |-> at, index |-> i, song |-> song]
                     /\ UNCHANGED <<req, queue>>

\* The holder publishes a timer command and waits for it to be handled.
Command(kind) == cmd' = [cmd EXCEPT !["action"] = kind]

NoCommand == UNCHANGED cmd

Elsewhere == UNCHANGED <<ldr, cache, today>>

Reject == Return /\ UNCHANGED <<st, pending, cmd>> /\ Elsewhere

PlanSongs == SongsOf(st.plan)

Timed(song) == song # NoSong /\ song.timed

-----------------------------------------------------------------------------
(* Starting songs *)

\* _start_next and _start_song_position up to the SONG_SELECTED publication.
Select(i) == /\ st' = SelectSong(st, i)
             /\ Hold("selected", i, PlanSongs[i])
             /\ UNCHANGED <<pending, cmd>> /\ Elsewhere

\* Mutant: Start next follows the cursor instead of the pending position.
StartNext_AfterCursor(c) ==
    /\ Takes(c, "start_next")
    /\ IF st.cursor + 1 \in DOMAIN PlanSongs THEN Select(st.cursor + 1) ELSE Reject

StartNext(c) == /\ Takes(c, "start_next")
                /\ IF pending \in DOMAIN PlanSongs THEN Select(pending) ELSE Reject

StartAt(c) == /\ Takes(c, "start_at")
              /\ IF req[c].arg \in DOMAIN PlanSongs THEN Select(req[c].arg) ELSE Reject

Starting == /\ act.at = "selected"
            /\ req[Head(queue)].op \in {"start_next", "start_at"}

\* The selected song has no duration: it is next again and the timer shows an error.
StartUntimed == /\ Starting /\ ~ act.song.timed
                /\ pending' = act.index
                /\ st' = TimerFailed(KeepLabels(st, pending'))
                /\ Return /\ NoCommand /\ Elsewhere

\* Labels move and SONG_STARTED is published, both for the position and the song
\* read before the suspension.
StartTimed == /\ Starting /\ act.song.timed
              /\ pending' = act.index + 1
              /\ st' = SetLabels(st, act.index, pending')
              /\ Command("start") /\ Hold("commanding", act.index, act.song)
              /\ Elsewhere

\* _restart_current
Restart(c) ==
    /\ Takes(c, "restart")
    /\ \/ st.current = NoSong /\ Reject
       \/ /\ st.current # NoSong /\ ~ Timed(st.current)
          /\ st' = TimerFailed(st)
          /\ Return /\ UNCHANGED <<pending, cmd>> /\ Elsewhere
       \/ /\ Timed(st.current)
          /\ st' = SetLabels(st, st.cursor, pending)
          /\ Command("start") /\ Hold("commanding", st.cursor, st.current)
          /\ UNCHANGED pending /\ Elsewhere

-----------------------------------------------------------------------------
(* Moving the cursor *)

Navigate(i) == /\ pending' = i
               /\ st' = SelectSong(st, i)
               /\ Hold("selected", i, PlanSongs[i])
               /\ NoCommand /\ Elsewhere

\* _previous
Previous(c) == /\ Takes(c, "previous")
               /\ IF PlanSongs # <<>> /\ st.cursor > 1 THEN Navigate(st.cursor - 1) ELSE Reject

\* _next
NextSong(c) == /\ Takes(c, "next")
               /\ IF st.cursor + 1 \in DOMAIN PlanSongs THEN Navigate(st.cursor + 1) ELSE Reject

\* Mutant: the labels are not refreshed after Previous and Next.
Navigated_KeepsUpNext == /\ act.at = "selected"
                         /\ req[Head(queue)].op \in {"previous", "next"}
                         /\ Return /\ UNCHANGED <<st, pending, cmd>> /\ Elsewhere

Navigated == /\ act.at = "selected"
             /\ req[Head(queue)].op \in {"previous", "next"}
             /\ st' = KeepLabels(st, pending)
             /\ Return /\ UNCHANGED <<pending, cmd>> /\ Elsewhere

-----------------------------------------------------------------------------
(* The countdown *)

\* _stop_timer, and stop_timer_at when there is no timed current song
StopTimer(c) == /\ \/ Takes(c, "stop")
                   \/ Takes(c, "stop_at") /\ ~ Timed(st.current)
                /\ Command("stop") /\ Hold("commanding", 0, NoSong)
                /\ UNCHANGED <<st, pending>> /\ Elsewhere

\* stop_timer_at
StopTimerAt(c) == /\ Takes(c, "stop_at") /\ Timed(st.current)
                  /\ st' = [st EXCEPT !.timer = Timer("stopped", req[c].left)]
                  /\ Command("stop") /\ Hold("commanding", 0, NoSong)
                  /\ UNCHANGED pending /\ Elsewhere

\* _apply_position, for resume_timer_at and seek_timer
ApplyPosition(c) ==
    /\ Takes(c, "resume_at") \/ Takes(c, "seek")
    /\ IF ~ Timed(st.current) \/ st.timer.status = "error"
         THEN Reject
         ELSE /\ st' = Repositioned(st, req[c].left, req[c].op = "resume_at")
              /\ Command("reposition") /\ Hold("commanding", 0, NoSong)
              /\ UNCHANGED pending /\ Elsewhere

\* A resume with nothing left to count goes on to stop every consumer.
MustStop == req[Head(queue)].op = "resume_at" /\ req[Head(queue)].left # "some"

StopConsumers == /\ act.at = "commanding" /\ cmd["action"] = "done" /\ MustStop
                 /\ Command("stop") /\ Hold("emptied", 0, NoSong)
                 /\ UNCHANGED <<st, pending>> /\ Elsewhere

-----------------------------------------------------------------------------
(* Reset, reload, forget *)

\* _reset_position up to TIMER_RESET_REQUESTED
Reset(c) == /\ Takes(c, "reset")
            /\ pending' = 1
            /\ Command("reset") /\ Hold("commanding", 0, NoSong)
            /\ UNCHANGED st /\ Elsewhere

IsReset == req[Head(queue)].op = "reset"

\* ... and after it
ResetDone == /\ act.at = "commanding" /\ cmd["action"] = "done" /\ IsReset
             /\ st' = ResetState(st, pending)
             /\ cmd' = [cmd EXCEPT !["action"] = "none"]
             /\ Return /\ UNCHANGED pending /\ Elsewhere

\* Mutant: a resume that had to stop every consumer never returns.
CommandDone_NotEmptied == /\ cmd["action"] = "done"
                          /\ act.at = "commanding" /\ ~ MustStop /\ ~ IsReset
                          /\ cmd' = [cmd EXCEPT !["action"] = "none"]
                          /\ Return /\ UNCHANGED <<st, pending>> /\ Elsewhere

\* The publication of a command was the operation's last act.
CommandDone == /\ cmd["action"] = "done"
               /\ \/ act.at = "commanding" /\ ~ MustStop /\ ~ IsReset
                  \/ act.at = "emptied"
               /\ cmd' = [cmd EXCEPT !["action"] = "none"]
               /\ Return /\ UNCHANGED <<st, pending>> /\ Elsewhere

\* A running refresh is asked to run again, an idle one is started.
AskRefresh(l) ==
    CASE l.at = "off"  -> l
      [] l.at = "idle" -> [l EXCEPT !.at = "looping", !.again = TRUE]
      [] OTHER         -> [l EXCEPT !.again = TRUE]

\* _reload_plan, with the refusal of _handle_action for the lengths updater, and
\* PlanningCenterPlugin._on_reload_requested.
Reload(c) ==
    /\ \/ Takes(c, "reload")
       \/ Takes(c, "reload_if_idle") /\ st.timer.status # "running"
    /\ ldr' = AskRefresh(ldr)
    /\ Return /\ UNCHANGED <<st, pending, cmd, cache, today>>

ReloadRefused(c) == /\ Takes(c, "reload_if_idle") /\ st.timer.status = "running"
                    /\ Reject

\* clear_service: the Services source was switched; its plugin is off.
ClearService(c) == /\ Takes(c, "clear_service")
                   /\ pending' = 1
                   /\ st' = EmptyState
                   /\ Return /\ NoCommand /\ Elsewhere

\* clear_timer: the presentation output was switched; this one takes no lock.
ClearTimer == /\ st' = [st EXCEPT !.timer = Timer("idle", "none")]
              /\ UNCHANGED <<pending, req, queue, act, cmd, ldr, cache, today>>

-----------------------------------------------------------------------------
(* The presentation output *)

\* The output's answer to the command publisher p waits on.
Answer(p, kinds) == /\ cmd[p] \in kinds
                    /\ cmd' = [cmd EXCEPT ![p] = "done"]
                    /\ UNCHANGED <<pending, req, queue, act, ldr, cache, today>>

ReportStarted(p) == Answer(p, {"start"}) /\ st' = TimerStarted(st)

ReportStopped(p) == /\ Answer(p, {"stop", "reset"})
                    /\ \E t \in FrozenTimers(st) : st' = [st EXCEPT !.timer = t]

ReportFailed(p) == Answer(p, {"start", "stop", "reset"}) /\ st' = TimerFailed(st)

\* Repositioning reports nothing; neither does an absent output.
Silent(p) == Answer(p, {"start", "stop", "reset", "reposition"}) /\ UNCHANGED st

Output == \E p \in Publishers : ReportStarted(p) \/ ReportStopped(p) \/ ReportFailed(p) \/ Silent(p)

-----------------------------------------------------------------------------
(* The Planning Center refresh task *)

LoaderOnly == UNCHANGED <<pending, req, queue, act, cache, today>>

\* Publish SERVICE_LOAD_CHANGED and go on at `then` when it is handled.
Announcing(l, msg, then) == [l EXCEPT !.at = "announcing", !.msg = msg, !.then = then]

\* The last announcement of _refresh_once, whose local variables end with it.
Concluding(l, msg) == Announcing([IdleLoader EXCEPT !.again = l.again], msg, "looping")

\* _handle_service_load_changed stops a running countdown before a rollover ...
AnnounceStop == /\ ldr.at = "announcing"
                /\ IsRollover(st, ldr.msg) /\ st.timer.status = "running"
                /\ cmd' = [cmd EXCEPT !["loader"] = "stop"]
                /\ ldr' = [ldr EXCEPT !.at = "stopping"]
                /\ UNCHANGED st /\ LoaderOnly

\* ... and applies the load state.
Announce == /\ \/ /\ ldr.at = "announcing"
                  /\ ~ (IsRollover(st, ldr.msg) /\ st.timer.status = "running")
               \/ ldr.at = "stopping" /\ cmd["loader"] = "done"
            /\ st' = LoadChanged(st, ldr.msg)
            /\ pending' = IF Invalidates(st, ldr.msg) THEN 1 ELSE pending
            /\ cmd' = [cmd EXCEPT !["loader"] = "none"]
            /\ ldr' = [ldr EXCEPT !.at = ldr.then, !.msg = NoLoad]
            /\ UNCHANGED <<req, queue, act, cache, today>>

\* The head of _refresh_once, for the next round of _run_scheduled_refresh.
ActionableDate(s, day) == IF s.plan = NoPlan \/ s.plan.date < day THEN 0 ELSE s.plan.date

RetainedDate(l) == IF l.prev # 0 THEN l.prev ELSE IF l.cand # 0 THEN l.cand ELSE l.day

RefreshOnce ==
    LET l == [ldr EXCEPT !.again = FALSE, !.day = today, !.found = NoPlan,
                !.prev = ActionableDate(st, today),
                !.cand = IF st.load.status = "ambiguous" /\ st.load.date >= today
                           THEN st.load.date ELSE 0]
    IN  /\ ldr.at = "looping" /\ ldr.again
        /\ ldr' = Announcing(l, LoadMsg("loading", RetainedDate(l), l.prev # 0), "fetching")
        /\ UNCHANGED <<st, cmd>> /\ LoaderOnly

RefreshEnds == /\ ldr.at = "looping" /\ ~ ldr.again
               /\ ldr' = IdleLoader
               /\ UNCHANGED <<st, cmd>> /\ LoaderOnly

Fetched(msg) == /\ ldr.at = "fetching"
                /\ ldr' = Concluding(ldr, msg)
                /\ UNCHANGED <<st, cmd>> /\ LoaderOnly

FoundPlan(p) ==
    /\ ldr.at = "fetching" /\ p.date >= ldr.day
    /\ LET l == [ldr EXCEPT !.found = p]
       IN  ldr' = IF ldr.prev # 0 /\ ldr.prev # p.date
                    THEN Announcing(l, LoadMsg("loading", p.date, FALSE), "projecting")
                    ELSE [l EXCEPT !.at = "projecting"]
    /\ UNCHANGED <<st, cmd>> /\ LoaderOnly

\* The service type of the retained plan may have been archived meanwhile.
FoundNothing == \E active \in BOOLEAN :
    LET retained == ldr.prev # 0 /\ active
    IN  Fetched(LoadMsg("not_found", IF retained THEN ldr.prev ELSE ldr.day, retained))

FoundSeveral == \E d \in ldr.day .. MaxDay :
    Fetched(LoadMsg("ambiguous", d, d = ldr.prev))

\* An error keeps the candidates on show when a selection was being resolved.
Failures(l) == {"error"} \cup (IF l.cand # 0 THEN {"ambiguous"} ELSE {})

FetchFails == \E status \in Failures(ldr) :
    Fetched(LoadMsg(status, RetainedDate(ldr), ldr.prev # 0))

\* A Planning Center error of a superseded request is not published.
FetchSuperseded == /\ ldr.at = "fetching" /\ ldr.again
                   /\ ldr' = [IdleLoader EXCEPT !.at = "looping", !.again = TRUE]
                   /\ UNCHANGED <<st, cmd>> /\ LoaderOnly

\* SERVICE_LOADED is handled (_handle_service_loaded, which takes no lock), then
\* _apply_result announces success and saves the plan (which may fail), or fails the
\* projection check.
ProjectPlan ==
    /\ ldr.at = "projecting"
    /\ pending' = FollowPending(st, pending, ldr.found)
    /\ st' = LoadPlan(st, pending', ldr.found)
    /\ LET day == ldr.found.date
       IN  \/ /\ ldr' = Concluding(ldr, LoadMsg("loaded", day, FALSE))
              /\ cache' \in {ldr.found, cache}
           \/ /\ \E status \in Failures(ldr) :
                    ldr' = Concluding(ldr, LoadMsg(status, day, TRUE))
              /\ UNCHANGED cache
    /\ UNCHANGED <<req, queue, act, cmd, today>>

\* A plan selection, a settings save or the startup pass asks for a refresh without
\* going through an action.
RequestRefresh == /\ ldr.at # "off"
                  /\ ldr' = AskRefresh(ldr)
                  /\ UNCHANGED <<st, cmd>> /\ LoaderOnly

\* PlanningCenterPlugin.start: an unexpired cached plan is shown, stale, before
\* the first refresh.  A switch of the Services source clears before it starts one.
LoaderStart ==
    /\ ldr.at = "off"
    /\ \A c \in Clients : req[c] # NoRequest => req[c].op # "clear_service"
    /\ LET l == [OffLoader EXCEPT !.again = TRUE]
       IN  IF cache # NoPlan /\ cache.date >= today
             THEN /\ pending' = FollowPending(st, pending, cache)
                  /\ st' = LoadPlan(st, pending', cache)
                  /\ ldr' = Announcing(l, LoadMsg("loading", cache.date, TRUE), "looping")
             ELSE /\ ldr' = [l EXCEPT !.at = "looping"]
                  /\ UNCHANGED <<st, pending>>
    /\ UNCHANGED <<req, queue, act, cmd, cache, today>>

\* PlanningCenterPlugin.stop cancels the refresh wherever it is suspended.
LoaderStop == /\ ldr.at # "off"
              /\ ldr' = OffLoader
              /\ cmd' = [cmd EXCEPT !["loader"] = "none"]
              /\ UNCHANGED st /\ LoaderOnly

Midnight == /\ today < MaxDay
            /\ today' = today + 1
            /\ UNCHANGED <<st, pending, req, queue, act, cmd, ldr, cache>>

-----------------------------------------------------------------------------
Init == /\ st = EmptyState
        /\ pending = 1
        /\ req = [c \in Clients |-> NoRequest]
        /\ queue = <<>>
        /\ act = Free
        /\ cmd = [p \in Publishers |-> "none"]
        /\ ldr = OffLoader
        /\ cache \in Plans \cup {NoPlan}
        /\ today = 1

Operation(c) == \/ StartNext(c) \/ StartAt(c) \/ Restart(c) \/ Previous(c) \/ NextSong(c)
                \/ StopTimer(c) \/ StopTimerAt(c) \/ ApplyPosition(c) \/ Reset(c)
                \/ Reload(c) \/ ReloadRefused(c) \/ ClearService(c)

Continuation == StartUntimed \/ StartTimed \/ Navigated \/ StopConsumers \/ ResetDone \/ CommandDone

Refresh == \/ AnnounceStop \/ Announce \/ RefreshOnce \/ RefreshEnds
           \/ (\E p \in Plans : FoundPlan(p)) \/ FoundNothing \/ FoundSeveral
           \/ FetchFails \/ FetchSuperseded \/ ProjectPlan

Next == \/ \E c \in Clients, r \in Calls : Call(c, r)
        \/ \E c \in Clients : Operation(c)
        \/ Continuation \/ Output \/ Refresh
        \/ ClearTimer \/ RequestRefresh \/ LoaderStart \/ LoaderStop \/ Midnight

Spec == Init /\ [][Next]_vars

\* The output answers (its HTTP calls time out), the refresh task's requests end, and
\* the event loop runs whatever is ready; nobody has to call, stop or clear anything.
Fairness == /\ WF_vars(\E c \in Clients : Operation(c))
            /\ WF_vars(Continuation)
            /\ \A p \in Publishers : WF_vars(ReportStarted(p) \/ ReportStopped(p)
                                             \/ ReportFailed(p) \/ Silent(p))
            /\ WF_vars(Refresh)

FairSpec == Spec /\ Fairness

-----------------------------------------------------------------------------
(* Properties *)

TypeOK == /\ st \in State
          /\ pending \in Nat \ {0}
          /\ req \in [Clients -> Calls \cup {NoRequest}]
          /\ queue \in Seq(Clients)
          /\ act \in Holder
          /\ cmd \in [Publishers -> Commands]
          /\ ldr \in Loader
          /\ cache \in Plans \cup {NoPlan}
          /\ today \in Days

\* The cursor is a position of the plan on show, and the current and next songs are
\* the plan's songs there, whatever reloads and rollovers interleave with actions
\* (state_service.py reads all of them as one: _restart_current, _apply_position,
\* _safe_match would raise or time the wrong song otherwise).
CursorInPlan == /\ st.cursor \in 0 .. Len(PlanSongs)
                /\ st.current = SongAt(PlanSongs, st.cursor)
                /\ st.next = SongAt(PlanSongs, st.cursor + 1)

\* The same for the song reported as playing (_set_labels).
LabelInPlan == /\ st.playing \in 0 .. Len(PlanSongs)
               /\ st.sounding = SongAt(PlanSongs, st.playing)

\* The holder of the lock has moved `pending` but not yet the label for it.
Moving == act.at # "free" /\ req[Head(queue)].op \in {"previous", "next", "reset"}

\* "Up next is always the song at _pending_start_index" (_set_labels): outside the
\* suspension of an action that is moving it, for every interleaving with the
\* refresh task, which writes both without the action lock.
UpNextIsPending == ~ Moving => st.upNext = SongAt(PlanSongs, pending)

\* When no refresh is under way, the load state on show describes the plan on show:
\* same date, stale exactly when the last refresh did not load it, no plan after a
\* refresh that found none to keep.
LoadDescribesPlan ==
    ldr.at = "idle" =>
        /\ st.plan # NoPlan => /\ st.load.date = st.plan.date
                               /\ st.load.stale <=> st.load.status # "loaded"
        /\ st.plan = NoPlan => ~ st.load.stale /\ st.load.status # "loaded"

\* Start next plays the song the screen shows as up next, and is refused only when
\* it shows none (models/state.py: up_next_song is "the song the next Start next
\* will play").
StartPlaysUpNext ==
    [][act.at = "free" /\ queue # <<>> /\ req[Head(queue)].op = "start_next" =>
           /\ act'.at = "selected" => act'.song = st.upNext
           /\ Len(queue') < Len(queue) => st.upNext = NoSong]_vars

\* A song of the plan on show that is still there, under its id and once, in the
\* plan that replaces it.
Survives(song) == /\ song # NoSong /\ st'.plan # NoPlan
                  /\ Cardinality({i \in DOMAIN st'.plan.songs :
                                    st'.plan.songs[i].id = song.id}) = 1

\* The song itself, whatever else a reload changed about it.
Versions(song) == {s \in Songs : s.id = song.id}

\* A reload follows songs, not positions: the cursor, the playing label and, unless
\* the cursor's song is gone, what Start next will play stay with their songs.
ReloadFollowsSongs ==
    [][st'.plan # st.plan =>
           /\ Survives(st.current) => st'.current \in Versions(st.current)
           /\ Survives(st.sounding) => st'.sounding \in Versions(st.sounding)
           /\ Survives(st.upNext) /\ st'.cursor # 0 /\ ~ Moving
                => st'.upNext \in Versions(st.upNext)]_vars

\* Every call of an action is answered: the lock is never held for good.
CallsAnswered == \A c \in Clients : req[c] # NoRequest ~> req[c] = NoRequest

-----------------------------------------------------------------------------
(* What a comment or a test says and an interleaving with a reload breaks *)

\* The playing label names the song that was started (models/state.py: "the song
\* actually started (its timer, ProPresenter and lights ran)").
StartedSongIsLabelled ==
    [][cmd["action"] # "start" /\ cmd'["action"] = "start" => st'.sounding = act'.song]_vars

\* After a reset, the first song of the plan is up next.
ResetPointsAtFirst ==
    [][act.at # "free" /\ IsReset /\ act'.at = "free" => st'.upNext = SongAt(PlanSongs, 1)]_vars

\* Clearing the plan at a date rollover leaves no countdown running.
NoCountdownWithoutPlan == st.plan = NoPlan => st.timer.status # "running"
=============================================================================
