---------------------------- MODULE ServiceState ----------------------------
(***************************************************************************)
(* The part of ApplicationState (models/state.py) that StateService keeps  *)
(* about the service in progress, and the mutations services/              *)
(* state_service.py applies to it.  Every operator here is one             *)
(* StateStore.mutate call, or a run of them without a suspension point     *)
(* between: the store's lock has no await inside it, so on the event loop  *)
(* such a run is one atomic step.                                          *)
(*                                                                         *)
(* Positions are one-based and 0 stands for Python's None; the code counts *)
(* from zero.  `pending` (the code's _pending_start_index) is the position *)
(* the next Start next will play, one past the end after the final song.   *)
(***************************************************************************)
EXTENDS Integers, Sequences, FiniteSets

CONSTANTS
    Songs,      \* the songs plans are made of: records with id, title, timed
    Plans,      \* the plans Planning Center can return: records with date, songs
    NoSong, NoPlan

ASSUME SongsAssumption ==
    /\ \A s \in Songs : s.timed \in BOOLEAN
    /\ NoSong \notin Songs

ASSUME PlansAssumption ==
    /\ \A p \in Plans : p.date \in Nat /\ p.songs \in Seq(Songs)
    /\ NoPlan \notin Plans

TimerStatus == {"idle", "running", "stopped", "error"}

\* What is left on the countdown, as far as the code tells cases apart: nothing
\* recorded (a Python None), zero seconds, or some positive number of them.
Left == {"none", "zero", "some"}

Timer(status, left) == [status |-> status, left |-> left]

LoadStatus == {"idle", "loading", "loaded", "not_found", "ambiguous", "error"}

\* A date of 0 is a load state without a target date.
LoadMsg(status, date, stale) == [status |-> status, date |-> date, stale |-> stale]

NoLoad == LoadMsg("idle", 0, FALSE)

State == [plan     : Plans \cup {NoPlan},
          cursor   : Nat,                       \* current_song_index
          current  : Songs \cup {NoSong},       \* current_song
          next     : Songs \cup {NoSong},       \* next_song
          playing  : Nat,                       \* playing_song_index
          sounding : Songs \cup {NoSong},       \* playing_song
          upNext   : Songs \cup {NoSong},       \* up_next_song
          timer    : [status : TimerStatus, left : Left],
          load     : [status : LoadStatus, date : Nat, stale : BOOLEAN]]

EmptyState == [plan |-> NoPlan, cursor |-> 0, current |-> NoSong, next |-> NoSong,
               playing |-> 0, sounding |-> NoSong, upNext |-> NoSong,
               timer |-> Timer("idle", "none"), load |-> NoLoad]

SongsOf(plan) == IF plan = NoPlan THEN <<>> ELSE plan.songs

SongAt(songs, i) == IF i \in 1 .. Len(songs) THEN songs[i] ELSE NoSong

-----------------------------------------------------------------------------
(* Labels and the cursor *)

\* _set_labels with playing = i; KeepLabels is the call without an argument.
SetLabels(s, i, pending) ==
    LET songs == SongsOf(s.plan)
        p     == IF i \in 1 .. Len(songs) THEN i ELSE 0
    IN  [s EXCEPT !.playing = p,
                  !.sounding = SongAt(songs, p),
                  !.upNext = SongAt(songs, pending)]

KeepLabels(s, pending) == SetLabels(s, s.playing, pending)

\* The mutation of _select_song; its callers pass a position of the plan.
SelectSong(s, i) ==
    LET songs == SongsOf(s.plan)
    IN  [s EXCEPT !.timer = IF s.timer.status = "stopped" /\ i # s.cursor
                              THEN Timer("stopped", "none") ELSE @,
                  !.cursor = i,
                  !.current = SongAt(songs, i),
                  !.next = SongAt(songs, i + 1)]

\* The mutation in _reset_position and the label refresh that follows it.
ResetState(s, pending) ==
    SetLabels([s EXCEPT !.cursor = 0,
                        !.current = NoSong,
                        !.next = SongAt(SongsOf(s.plan), 1),
                        !.timer = Timer("stopped", "none")], 0, pending)

-----------------------------------------------------------------------------
(* Following a song across a plan reload *)

IsOnly(S) == \E j \in S : S = {j}

\* _safe_match: the position in the incoming songs of the song at position i of
\* the old ones, by unique id, else by a title unique in both; 0 for no match.
SafeMatch(old, i, new) ==
    LET byId     == {j \in DOMAIN new : new[j].id = old[i].id}
        byTitle  == {j \in DOMAIN new : new[j].title = old[i].title}
        oldTitle == {j \in DOMAIN old : old[j].title = old[i].title}
    IN  IF i \notin DOMAIN old THEN 0
        ELSE IF IsOnly(byId) THEN CHOOSE j \in byId : TRUE
        ELSE IF IsOnly(byTitle) /\ IsOnly(oldTitle) THEN CHOOSE j \in byTitle : TRUE
        ELSE 0

\* Mutant: what Start next plays stays behind the cursor's song.
FollowPending_AfterCursor(s, pending, incoming) ==
    SafeMatch(SongsOf(s.plan), s.cursor, incoming.songs) + 1

\* Mutant: None is left where the first position was meant.
FollowPending_None(s, pending, incoming) ==
    SafeMatch(SongsOf(s.plan), pending, incoming.songs)

\* The pending position after a reload: the song it stood for when that can be
\* found, else the one after the cursor, else the first.
FollowPending(s, pending, incoming) ==
    LET old    == SongsOf(s.plan)
        cursor == SafeMatch(old, s.cursor, incoming.songs)
        target == SafeMatch(old, pending, incoming.songs)
    IN  IF cursor = 0 THEN 1 ELSE IF target # 0 THEN target ELSE cursor + 1

\* _handle_service_loaded; pending is the value FollowPending computed.
LoadPlan(s, pending, incoming) ==
    LET old    == SongsOf(s.plan)
        cursor == SafeMatch(old, s.cursor, incoming.songs)
    IN  SetLabels([s EXCEPT !.plan = incoming,
                            !.cursor = cursor,
                            !.current = SongAt(incoming.songs, cursor),
                            !.next = SongAt(incoming.songs, cursor + 1)],
                  SafeMatch(old, s.playing, incoming.songs), pending)

-----------------------------------------------------------------------------
(* The load state *)

\* Does this load state belong to another date than the plan on show?
IsRollover(s, msg) == s.plan # NoPlan /\ s.plan.date # msg.date

\* Mutant: an archived service keeps its plan.
Invalidates_DateOnly(s, msg) == IsRollover(s, msg)

\* The condition under which _handle_service_load_changed forgets the plan.
Invalidates(s, msg) ==
    \/ IsRollover(s, msg)
    \/ s.plan # NoPlan /\ msg.status = "not_found" /\ ~ msg.stale

\* Mutant: the cursor survives the plan.
LoadChanged_KeepsCursor(s, msg) ==
    IF Invalidates(s, msg)
      THEN [s EXCEPT !.plan = NoPlan, !.playing = 0, !.sounding = NoSong, !.upNext = NoSong,
                     !.timer = Timer("stopped", "none"), !.load = msg]
      ELSE [s EXCEPT !.load = msg]

\* Mutant: the playing label survives the plan.
LoadChanged_KeepsLabel(s, msg) ==
    IF Invalidates(s, msg)
      THEN [EmptyState EXCEPT !.playing = s.playing, !.sounding = s.sounding, !.load = msg]
      ELSE [s EXCEPT !.load = msg]

\* The mutation of _handle_service_load_changed.
LoadChanged(s, msg) ==
    IF Invalidates(s, msg)
      THEN [EmptyState EXCEPT !.timer = Timer("stopped", "none"), !.load = msg]
      ELSE [s EXCEPT !.load = msg]

-----------------------------------------------------------------------------
(* The countdown as the presentation output reports it *)

\* _handle_timer_started
TimerStarted(s) == [s EXCEPT !.timer = Timer("running", "some")]

\* _handle_timer_stopped on a report without a position (the outputs send none):
\* a running countdown freezes at whatever time has passed, a stopped one keeps
\* what it has, any other forgets.
FrozenTimers(s) ==
    CASE s.timer.status = "running" -> {Timer("stopped", l) : l \in {"zero", "some"}}
      [] s.timer.status = "stopped" -> {s.timer}
      [] OTHER -> {Timer("stopped", "none")}

\* _set_timer_error
TimerFailed(s) == [s EXCEPT !.timer = Timer("error", "none")]

\* The mutation of _apply_position: the countdown runs on from a position with
\* time left if it is resumed or was running, and is frozen there otherwise.
Repositioned(s, left, resume) ==
    IF left = "some" /\ (resume \/ s.timer.status = "running")
      THEN [s EXCEPT !.timer = Timer("running", "some")]
      ELSE [s EXCEPT !.timer = Timer("stopped", left)]
=============================================================================
