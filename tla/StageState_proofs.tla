-------------------------- MODULE StageState_proofs --------------------------
(***************************************************************************)
(* Theorems about StageState for every set of clients, songs and plans and *)
(* every bound on the days: the types, and that the cursor, the playing    *)
(* label and the up-next label are the plan's songs where the indices say. *)
(***************************************************************************)
EXTENDS StageState, FiniteSetTheorems, TLAPS

USE DEF LoadMsg, Timer

Song0 == Songs \cup {NoSong}
Plan0 == Plans \cup {NoPlan}

\* The parts of CursorInPlan, LabelInPlan and UpNextIsPending, of any state.
CursorOK(s) == /\ s.cursor \in 0 .. Len(SongsOf(s.plan))
               /\ s.current = SongAt(SongsOf(s.plan), s.cursor)
               /\ s.next = SongAt(SongsOf(s.plan), s.cursor + 1)

LabelOK(s) == /\ s.playing \in 0 .. Len(SongsOf(s.plan))
              /\ s.sounding = SongAt(SongsOf(s.plan), s.playing)

UpNextOK(s, p) == s.upNext = SongAt(SongsOf(s.plan), p)

-----------------------------------------------------------------------------
(* What the mutations return *)

\* The songs of a plan are a sequence of songs.
LEMMA SongsOfType == ASSUME NEW plan \in Plan0 PROVE SongsOf(plan) \in Seq(Songs)
BY PlansAssumption DEF SongsOf, Plan0

\* songAt: the song at a position, and none outside the plan.
LEMMA SongAtType ==
    ASSUME NEW songs \in Seq(Songs), NEW i \in Int
    PROVE  /\ SongAt(songs, i) \in Song0
           /\ i \in 1 .. Len(songs) => SongAt(songs, i) = songs[i] /\ songs[i] \in Songs
           /\ i \notin 1 .. Len(songs) => SongAt(songs, i) = NoSong
BY DEF SongAt, Song0

\* A match is a position of the incoming songs, or none.
LEMMA SafeMatchRange ==
    ASSUME NEW old \in Seq(Songs), NEW i \in Nat, NEW new \in Seq(Songs)
    PROVE  SafeMatch(old, i, new) \in 0 .. Len(new)
<1> DEFINE byId    == {j \in DOMAIN new : new[j].id = old[i].id}
           byTitle == {j \in DOMAIN new : new[j].title = old[i].title}
<1>1. ASSUME NEW S \in SUBSET DOMAIN new, IsOnly(S)
      PROVE  (CHOOSE j \in S : TRUE) \in 0 .. Len(new)
  <2>1. PICK k \in S : S = {k}
    BY <1>1 DEF IsOnly
  <2>2. (CHOOSE j \in S : TRUE) \in S
    BY <2>1
  <2>3. QED
    BY <2>2
<1>2. IsOnly(byId) => (CHOOSE j \in byId : TRUE) \in 0 .. Len(new)
  BY <1>1
<1>3. IsOnly(byTitle) => (CHOOSE j \in byTitle : TRUE) \in 0 .. Len(new)
  BY <1>1
<1>4. QED
  BY <1>2, <1>3 DEF SafeMatch

\* Refreshing the labels keeps the cursor and makes both labels right.
LEMMA SetLabelsLemma ==
    ASSUME NEW s \in State, NEW i \in Nat, NEW p \in Nat
    PROVE  LET t == SetLabels(s, i, p)
           IN  /\ t \in State
               /\ LabelOK(t) /\ UpNextOK(t, p)
               /\ CursorOK(s) => CursorOK(t)
<1> DEFINE t == SetLabels(s, i, p)
           songs == SongsOf(s.plan)
           k == IF i \in 1 .. Len(songs) THEN i ELSE 0
<1>1. songs \in Seq(Songs)
  BY SongsOfType DEF State, Plan0
<1>2. k \in 0 .. Len(songs) /\ k \in Nat
  BY <1>1
<1>3. SongAt(songs, k) \in Song0 /\ SongAt(songs, p) \in Song0
  BY <1>1, <1>2, SongAtType
<1>4. t = [s EXCEPT !.playing = k, !.sounding = SongAt(songs, k), !.upNext = SongAt(songs, p)]
  BY DEF SetLabels
<1> HIDE DEF k
<1>5. /\ t.plan = s.plan /\ t.cursor = s.cursor /\ t.current = s.current /\ t.next = s.next
      /\ t.playing = k /\ t.sounding = SongAt(songs, k) /\ t.upNext = SongAt(songs, p)
  BY <1>4 DEF State
<1>6. t \in State
  BY <1>2, <1>3, <1>4 DEF State, Song0
<1>7. QED
  BY <1>2, <1>5, <1>6 DEF LabelOK, UpNextOK, CursorOK

\* Selecting a position of the plan puts the cursor there and leaves the labels.
LEMMA SelectSongLemma ==
    ASSUME NEW s \in State, NEW i \in 1 .. Len(SongsOf(s.plan))
    PROVE  LET t == SelectSong(s, i)
           IN  /\ t \in State
               /\ CursorOK(t)
               /\ LabelOK(s) => LabelOK(t)
               /\ \A p : UpNextOK(s, p) => UpNextOK(t, p)
<1> DEFINE songs == SongsOf(s.plan)
           tm == IF s.timer.status = "stopped" /\ i # s.cursor
                   THEN Timer("stopped", "none") ELSE s.timer
           t == SelectSong(s, i)
<1>1. songs \in Seq(Songs)
  BY SongsOfType DEF State, Plan0
<1>2. tm \in [status : TimerStatus, left : Left]
  BY DEF State, TimerStatus, Left
<1>3. SongAt(songs, i) \in Song0 /\ SongAt(songs, i + 1) \in Song0 /\ i \in Nat
  BY <1>1, SongAtType
<1>4. t = [s EXCEPT !.timer = tm, !.cursor = i, !.current = SongAt(songs, i),
                    !.next = SongAt(songs, i + 1)]
  BY DEF SelectSong
<1> HIDE DEF tm
<1>5. t \in State
  BY <1>2, <1>3, <1>4 DEF State, Song0
<1>6. /\ t.plan = s.plan /\ t.playing = s.playing /\ t.sounding = s.sounding
      /\ t.upNext = s.upNext /\ t.cursor = i
      /\ t.current = SongAt(songs, i) /\ t.next = SongAt(songs, i + 1)
  BY <1>4 DEF State
<1>7. QED
  BY <1>1, <1>3, <1>5, <1>6 DEF LabelOK, UpNextOK, CursorOK

\* A reset puts cursor, label and up-next back in the plan, whatever was pending.
LEMMA ResetStateLemma ==
    ASSUME NEW s \in State, NEW p \in Nat
    PROVE  LET t == ResetState(s, p)
           IN  t \in State /\ CursorOK(t) /\ LabelOK(t) /\ UpNextOK(t, p)
<1> DEFINE songs == SongsOf(s.plan)
           u == [s EXCEPT !.cursor = 0, !.current = NoSong, !.next = SongAt(songs, 1),
                          !.timer = Timer("stopped", "none")]
<1>1. songs \in Seq(Songs)
  BY SongsOfType DEF State, Plan0
<1>2. SongAt(songs, 1) \in Song0 /\ SongAt(songs, 0) = NoSong
  BY <1>1, SongAtType
<1>3. u \in State
  BY <1>2 DEF State, Song0, TimerStatus, Left
<1>4. u.plan = s.plan /\ u.cursor = 0 /\ u.current = NoSong /\ u.next = SongAt(songs, 1)
  BY DEF State
<1>5. CursorOK(u)
  BY <1>1, <1>2, <1>4 DEF CursorOK
<1>6. ResetState(s, p) = SetLabels(u, 0, p)
  BY DEF ResetState
<1>7. QED
  BY <1>3, <1>5, <1>6, SetLabelsLemma

\* The place that up-next is given in the incoming plan is a position.
LEMMA FollowPendingLemma ==
    ASSUME NEW s \in State, NEW p \in Nat, NEW incoming \in Plans
    PROVE  FollowPending(s, p, incoming) \in Nat \ {0}
<1>1. SongsOf(s.plan) \in Seq(Songs) /\ incoming.songs \in Seq(Songs) /\ s.cursor \in Nat
  BY SongsOfType, PlansAssumption DEF State, Plan0
<1>2. /\ SafeMatch(SongsOf(s.plan), s.cursor, incoming.songs) \in 0 .. Len(incoming.songs)
      /\ SafeMatch(SongsOf(s.plan), p, incoming.songs) \in 0 .. Len(incoming.songs)
  BY <1>1, SafeMatchRange
<1>3. QED
  BY <1>1, <1>2 DEF FollowPending

\* A reload leaves every index in the new plan and every song where its index says.
LEMMA LoadPlanLemma ==
    ASSUME NEW s \in State, NEW p \in Nat, NEW incoming \in Plans
    PROVE  LET t == LoadPlan(s, p, incoming)
           IN  t \in State /\ CursorOK(t) /\ LabelOK(t) /\ UpNextOK(t, p) /\ t.plan = incoming
<1> DEFINE new == incoming.songs
           k == SafeMatch(SongsOf(s.plan), s.cursor, new)
           m == SafeMatch(SongsOf(s.plan), s.playing, new)
           u == [s EXCEPT !.plan = incoming, !.cursor = k, !.current = SongAt(new, k),
                          !.next = SongAt(new, k + 1)]
<1>1. SongsOf(s.plan) \in Seq(Songs) /\ new \in Seq(Songs) /\ s.cursor \in Nat /\ s.playing \in Nat
  BY SongsOfType, PlansAssumption DEF State, Plan0
<1>2. k \in 0 .. Len(new) /\ m \in 0 .. Len(new)
  BY <1>1, SafeMatchRange
<1>3. LoadPlan(s, p, incoming) = SetLabels(u, m, p)
  BY DEF LoadPlan
<1> HIDE DEF k, m
<1>4. SongAt(new, k) \in Song0 /\ SongAt(new, k + 1) \in Song0 /\ k \in Nat /\ m \in Nat
  BY <1>1, <1>2, SongAtType
<1>5. u \in State
  BY <1>4 DEF State, Song0
<1>6. u.plan = incoming /\ u.cursor = k /\ u.current = SongAt(new, k) /\ u.next = SongAt(new, k + 1)
  BY DEF State
<1>7. SongsOf(u.plan) = new
  BY <1>6, PlansAssumption DEF SongsOf
<1>8. CursorOK(u)
  BY <1>2, <1>6, <1>7 DEF CursorOK
<1> HIDE DEF u
<1>9. SetLabels(u, m, p).plan = incoming
  BY <1>5, <1>6 DEF SetLabels, State
<1>10. QED
  BY <1>3, <1>4, <1>5, <1>8, <1>9, SetLabelsLemma

\* The state of a service that has just started.
LEMMA EmptyStateType == EmptyState \in State
BY DEF EmptyState, NoLoad, State, TimerStatus, Left, LoadStatus

\* It has its cursor, label and up-next in its (empty) plan.
LEMMA EmptyStateOK ==
    /\ EmptyState \in State
    /\ CursorOK(EmptyState) /\ LabelOK(EmptyState) /\ UpNextOK(EmptyState, 1)
<1>1. SongsOf(EmptyState.plan) = <<>>
  BY DEF EmptyState, SongsOf
<1>2. Len(<<>>) = 0 /\ \A i \in {0, 1} : SongAt(<<>>, i) = NoSong
  BY DEF SongAt
<1>3. QED
  BY <1>1, <1>2, EmptyStateType DEF EmptyState, CursorOK, LabelOK, UpNextOK

\* A report of the loader leaves cursor, label and up-next in the plan.
LEMMA LoadChangedLemma ==
    ASSUME NEW s \in State, NEW p,
           NEW msg \in [status : LoadStatus, date : Nat, stale : BOOLEAN]
    PROVE  LET t == LoadChanged(s, msg)
               q == IF Invalidates(s, msg) THEN 1 ELSE p
           IN  /\ t \in State
               /\ CursorOK(s) => CursorOK(t)
               /\ LabelOK(s) => LabelOK(t)
               /\ UpNextOK(s, p) => UpNextOK(t, q)
<1> DEFINE t == LoadChanged(s, msg)
<1>1. CASE Invalidates(s, msg)
  <2>1. t = [EmptyState EXCEPT !.timer = Timer("stopped", "none"), !.load = msg]
    BY <1>1 DEF LoadChanged
  <2>2. t \in State
    <3>1. Timer("stopped", "none") \in [status : TimerStatus, left : Left]
      BY DEF TimerStatus, Left
    <3>2. [EmptyState EXCEPT !.timer = Timer("stopped", "none"), !.load = msg] \in State
      BY <3>1, EmptyStateType DEF State
    <3>3. QED
      BY <2>1, <3>2
  <2>3. /\ SongsOf(t.plan) = <<>> /\ t.cursor = 0 /\ t.playing = 0
        /\ t.current = NoSong /\ t.next = NoSong /\ t.sounding = NoSong /\ t.upNext = NoSong
    BY <2>1 DEF EmptyState, SongsOf
  <2>4. Len(<<>>) = 0 /\ \A i \in {0, 1} : SongAt(<<>>, i) = NoSong
    BY DEF SongAt
  <2>5. QED
    BY <1>1, <2>2, <2>3, <2>4 DEF CursorOK, LabelOK, UpNextOK
<1>2. CASE ~ Invalidates(s, msg)
  <2>1. t = [s EXCEPT !.load = msg]
    BY <1>2 DEF LoadChanged
  <2>2. t \in State
    BY <2>1 DEF State
  <2>3. /\ t.plan = s.plan /\ t.cursor = s.cursor /\ t.playing = s.playing
        /\ t.current = s.current /\ t.next = s.next /\ t.sounding = s.sounding
        /\ t.upNext = s.upNext
    BY <2>1 DEF State
  <2>4. QED
    BY <1>2, <2>2, <2>3 DEF CursorOK, LabelOK, UpNextOK
<1>3. QED
  BY <1>1, <1>2

\* A mutation of the countdown alone.
LEMMA TimerLemma ==
    ASSUME NEW s \in State, NEW tm \in [status : TimerStatus, left : Left]
    PROVE  LET t == [s EXCEPT !.timer = tm]
           IN  /\ t \in State
               /\ CursorOK(s) => CursorOK(t)
               /\ LabelOK(s) => LabelOK(t)
               /\ \A p : UpNextOK(s, p) => UpNextOK(t, p)
BY DEF State, CursorOK, LabelOK, UpNextOK

-----------------------------------------------------------------------------
(* The action lock *)

\* The operations that wait for a timer command: all but Previous and Next, and the
\* second one only to stop what a resume found empty.
WaitsFor(at, op) == op \notin {"previous", "next"} /\ (at = "emptied" => op = "resume_at")

\* A client in the queue waits on a call, no client is there twice, and the lock is
\* held only by the client at the head.
LockInv == /\ req \in [Clients -> Calls \cup {NoRequest}]
           /\ queue \in Seq(Clients)
           /\ act \in Holder
           /\ \A i \in DOMAIN queue : req[queue[i]] # NoRequest
           /\ \A i, j \in DOMAIN queue : queue[i] = queue[j] => i = j
           /\ act.at # "free" => queue # <<>>
           /\ act.at = "selected" => act.index # 0
           /\ act.at \in {"commanding", "emptied"} => WaitsFor(act.at, req[Head(queue)].op)

\* A call waits for the lock, and nothing of the operation that has it changes.
LEMMA CallLock ==
    ASSUME LockInv, NEW c \in Clients, NEW r \in Calls, Call(c, r)
    PROVE  LockInv' /\ (Moving' <=> Moving)
<1>1. req[c] = NoRequest /\ req' = [req EXCEPT ![c] = r] /\ queue' = Append(queue, c) /\ act' = act
  BY DEF Call
<1>2. r # NoRequest
  BY CallsAssumption
<1>3. \A i \in DOMAIN queue : queue[i] # c
  BY <1>1 DEF LockInv
<1>4. /\ queue' \in Seq(Clients) /\ Len(queue') = Len(queue) + 1
      /\ \A i \in 1 .. Len(queue) : queue'[i] = queue[i]
      /\ queue'[Len(queue) + 1] = c
  BY <1>1 DEF LockInv
<1>5. req' \in [Clients -> Calls \cup {NoRequest}]
  BY <1>1 DEF LockInv
<1>6. \A i \in DOMAIN queue' : req'[queue'[i]] # NoRequest
  BY <1>1, <1>2, <1>3, <1>4 DEF LockInv
<1>7. \A i, j \in DOMAIN queue' : queue'[i] = queue'[j] => i = j
  BY <1>3, <1>4 DEF LockInv
<1>8. act.at # "free" => Head(queue') = Head(queue) /\ req'[Head(queue)] = req[Head(queue)]
  BY <1>1, <1>3, <1>4 DEF LockInv
<1>9. QED
  BY <1>1, <1>4, <1>5, <1>6, <1>7, <1>8 DEF LockInv, Moving

\* The operation that returns gives the lock to the next in line.
LEMMA ReturnLock ==
    ASSUME LockInv, queue # <<>>, Return
    PROVE  LockInv' /\ ~ Moving'
<1>1. /\ req' = [req EXCEPT ![Head(queue)] = NoRequest]
      /\ queue' = Tail(queue) /\ act' = Free
  BY DEF Return
<1>2. /\ queue' \in Seq(Clients) /\ Len(queue') = Len(queue) - 1
      /\ \A i \in 1 .. Len(queue') : queue'[i] = queue[i + 1]
      /\ Head(queue) = queue[1] /\ 1 \in DOMAIN queue
  BY <1>1 DEF LockInv
<1>3. req' \in [Clients -> Calls \cup {NoRequest}]
  BY <1>1, <1>2 DEF LockInv
<1>4. \A i \in DOMAIN queue' : queue'[i] # Head(queue)
  <2>1. SUFFICES ASSUME NEW i \in 1 .. Len(queue') PROVE queue[i + 1] # queue[1]
    BY <1>2
  <2>2. i + 1 \in DOMAIN queue /\ i + 1 # 1
    BY <1>2 DEF LockInv
  <2>3. QED
    BY <1>2, <2>2 DEF LockInv
<1>5. \A i \in DOMAIN queue' : req'[queue'[i]] # NoRequest
  BY <1>1, <1>2, <1>4 DEF LockInv
<1>6. \A i, j \in DOMAIN queue' : queue'[i] = queue'[j] => i = j
  <2>1. SUFFICES ASSUME NEW i \in 1 .. Len(queue'), NEW j \in 1 .. Len(queue'),
                        queue[i + 1] = queue[j + 1]
                 PROVE  i = j
    BY <1>2
  <2>2. i + 1 \in DOMAIN queue /\ j + 1 \in DOMAIN queue
    BY <1>2 DEF LockInv
  <2>3. i + 1 = j + 1
    BY <2>1, <2>2 DEF LockInv
  <2>4. QED
    BY <2>3
<1>7. act' \in Holder /\ act'.at = "free"
  BY <1>1 DEF Free, Holder
<1>8. QED
  BY <1>2, <1>3, <1>5, <1>6, <1>7 DEF LockInv, Moving

\* One that waits for a command keeps the lock.
LEMMA HoldLock ==
    ASSUME LockInv, queue # <<>>, NEW at \in {"selected", "commanding", "emptied"},
           NEW i \in Nat, at = "selected" => i # 0, NEW song \in Song0, Hold(at, i, song),
           at # "selected" => WaitsFor(at, req[Head(queue)].op)
    PROVE  /\ LockInv'
           /\ Moving' <=> req[Head(queue)].op \in {"previous", "next", "reset"}
<1>1. act' = [at |-> at, index |-> i, song |-> song] /\ UNCHANGED <<req, queue>>
  BY DEF Hold
<1>2. act' \in Holder /\ act'.at = at /\ act'.index = i
  BY <1>1 DEF Holder, Song0
<1>3. QED
  BY <1>1, <1>2 DEF LockInv, Moving

\* Steps that touch neither calls nor lock.
LEMMA SameLock ==
    ASSUME LockInv, UNCHANGED <<req, queue, act>>
    PROVE  LockInv' /\ (Moving' <=> Moving)
BY DEF LockInv, Moving

-----------------------------------------------------------------------------
(* The invariant *)

\* The service state is well typed and consistent.
ServiceInv == /\ st \in State /\ pending \in Nat \ {0}
              /\ CursorOK(st) /\ LabelOK(st)
              /\ ~ Moving => UpNextOK(st, pending)

\* The refresh task has a plan to project whenever it is about to.
RefreshInv == /\ cmd \in [Publishers -> Commands]
              /\ ldr \in Loader
              /\ cache \in Plan0
              /\ today \in Days
              /\ \/ ldr.at = "projecting"
                 \/ ldr.at \in {"announcing", "stopping"} /\ ldr.then = "projecting"
                 => ldr.found \in Plans

IInv == LockInv /\ ServiceInv /\ RefreshInv

\* The invariant holds when the service starts.
LEMMA InitIInv == Init => IInv
<1> SUFFICES ASSUME Init PROVE IInv
  OBVIOUS
<1>1. LockInv
  BY DEF Init, LockInv, Free, Holder
<1>2. ServiceInv
  BY EmptyStateOK DEF Init, ServiceInv
<1>3. RefreshInv
  <2>1. OffLoader \in Loader /\ OffLoader.at = "off"
    BY DEF OffLoader, IdleLoader, NoLoad, Loader, LoaderAt, LoadStatus
  <2>2. cmd \in [Publishers -> Commands] /\ today \in Days
    BY MaxDayAssumption DEF Init, Commands, Publishers, Days
  <2>3. QED
    BY <2>1, <2>2 DEF Init, RefreshInv, Plan0
<1>4. QED
  BY <1>1, <1>2, <1>3 DEF IInv

-----------------------------------------------------------------------------
(* Every step preserves it *)

\* A step of the lock's holder that leaves the refresh task alone.
LEMMA RefreshAlone ==
    ASSUME RefreshInv, UNCHANGED <<ldr, cache, today>>, cmd' \in [Publishers -> Commands]
    PROVE  RefreshInv'
BY DEF RefreshInv

\* One more command to an output.
LEMMA CommandType ==
    ASSUME RefreshInv, NEW p \in Publishers, NEW k \in Commands
    PROVE  [cmd EXCEPT ![p] = k] \in [Publishers -> Commands]
BY DEF RefreshInv

\* What the invariant gives a step about the plan on show.
LEMMA PlanFacts ==
    ASSUME ServiceInv
    PROVE  /\ PlanSongs \in Seq(Songs)
           /\ \A i \in DOMAIN PlanSongs : i \in 1 .. Len(SongsOf(st.plan)) /\ PlanSongs[i] \in Song0
           /\ st.current \in Song0 /\ st.cursor \in Nat /\ st.playing \in Nat
<1>1. PlanSongs \in Seq(Songs)
  BY SongsOfType DEF ServiceInv, State, Plan0, PlanSongs
<1>2. QED
  BY <1>1 DEF PlanSongs, ServiceInv, State, Song0

\* Taking the lock: nobody held it, and the up-next label is right.
LEMMA TakesFacts ==
    ASSUME IInv, NEW c, NEW op, Takes(c, op)
    PROVE  /\ queue # <<>> /\ c = Head(queue) /\ req[Head(queue)].op = op
           /\ act.at = "free" /\ ~ Moving /\ UpNextOK(st, pending)
BY DEF IInv, Takes, ServiceInv, Moving

\* An operation that finds no song returns and changes nothing.
LEMMA RejectStep ==
    ASSUME IInv, queue # <<>>, UpNextOK(st, pending), Reject
    PROVE  IInv'
<1>1. LockInv' /\ ~ Moving'
  BY ReturnLock DEF IInv, Reject
<1>2. RefreshInv'
  BY RefreshAlone DEF IInv, Reject, Elsewhere, RefreshInv
<1>3. ServiceInv'
  BY DEF IInv, ServiceInv, Reject, CursorOK, LabelOK, UpNextOK
<1>4. QED
  BY <1>1, <1>2, <1>3 DEF IInv

\* A song is selected, and its commands are sent before the state is set.
LEMMA SelectStep ==
    ASSUME IInv, queue # <<>>, UpNextOK(st, pending), NEW i \in DOMAIN PlanSongs, Select(i)
    PROVE  IInv'
<1>1. i \in Nat \ {0} /\ i \in 1 .. Len(SongsOf(st.plan)) /\ PlanSongs[i] \in Song0
  BY PlanFacts DEF IInv
<1>2. LockInv'
  BY <1>1, HoldLock DEF IInv, Select
<1>3. RefreshInv'
  BY RefreshAlone DEF IInv, Select, Elsewhere, RefreshInv
<1>4. st' = SelectSong(st, i) /\ pending' = pending
  BY DEF Select
<1>5. st' \in State /\ CursorOK(st') /\ LabelOK(st') /\ UpNextOK(st', pending')
  BY <1>1, <1>4, SelectSongLemma DEF IInv, ServiceInv
<1>6. ServiceInv'
  BY <1>4, <1>5 DEF IInv, ServiceInv
<1>7. QED
  BY <1>2, <1>3, <1>6 DEF IInv

\* Previous and next, while the commands are on their way.
LEMMA NavigateStep ==
    ASSUME IInv, queue # <<>>, req[Head(queue)].op \in {"previous", "next"},
           NEW i \in DOMAIN PlanSongs, Navigate(i)
    PROVE  IInv'
<1>1. i \in Nat \ {0} /\ i \in 1 .. Len(SongsOf(st.plan)) /\ PlanSongs[i] \in Song0
  BY PlanFacts DEF IInv
<1>2. LockInv' /\ Moving'
  BY <1>1, HoldLock DEF IInv, Navigate
<1>3. RefreshInv'
  BY RefreshAlone DEF IInv, Navigate, Elsewhere, RefreshInv, NoCommand
<1>4. st' = SelectSong(st, i) /\ pending' = i
  BY DEF Navigate
<1>5. st' \in State /\ CursorOK(st') /\ LabelOK(st')
  BY <1>1, <1>4, SelectSongLemma DEF IInv, ServiceInv
<1>6. ServiceInv'
  BY <1>1, <1>2, <1>4, <1>5 DEF ServiceInv
<1>7. QED
  BY <1>2, <1>3, <1>6 DEF IInv

\* The holder changes st, leaving the plan and labels consistent, and returns ...
LEMMA ReturnStep ==
    ASSUME IInv, queue # <<>>, Return, Elsewhere, cmd' \in [Publishers -> Commands],
           st' \in State, pending' \in Nat \ {0},
           CursorOK(st'), LabelOK(st'), UpNextOK(st', pending')
    PROVE  IInv'
<1>1. LockInv'
  BY ReturnLock DEF IInv
<1>2. RefreshInv'
  BY RefreshAlone DEF IInv, Elsewhere
<1>3. QED
  BY <1>1, <1>2 DEF IInv, ServiceInv

\* ... or goes on to wait for a timer command.
LEMMA WaitStep ==
    ASSUME IInv, queue # <<>>, Elsewhere, NEW k \in Commands, Command(k),
           NEW at \in {"commanding", "emptied"}, NEW i \in Nat, NEW song \in Song0,
           Hold(at, i, song),
           st' \in State, pending' \in Nat \ {0},
           CursorOK(st'), LabelOK(st'),
           WaitsFor(at, req[Head(queue)].op),
           UpNextOK(st', pending') \/ req[Head(queue)].op = "reset"
    PROVE  IInv'
<1>1. LockInv' /\ (Moving' <=> req[Head(queue)].op \in {"previous", "next", "reset"})
  BY HoldLock DEF IInv
<1>2. RefreshInv'
  BY RefreshAlone, CommandType DEF IInv, Elsewhere, Command, Publishers
<1>3. QED
  BY <1>1, <1>2 DEF IInv, ServiceInv

\* Mutations of the timer alone leave the rest of the service state as it was.
LEMMA TimerStep ==
    ASSUME ServiceInv, NEW tm \in [status : TimerStatus, left : Left],
           st' = [st EXCEPT !.timer = tm], pending' = pending
    PROVE  /\ st' \in State /\ pending' \in Nat \ {0} /\ CursorOK(st') /\ LabelOK(st')
           /\ UpNextOK(st, pending) => UpNextOK(st', pending')
BY TimerLemma DEF ServiceInv

\* The values a timer is set to.
LEMMA TimerValues ==
    /\ \A status \in TimerStatus, left \in Left :
           Timer(status, left) \in [status : TimerStatus, left : Left]
    /\ {"idle", "running", "stopped", "error"} \subseteq TimerStatus
    /\ {"none", "zero", "some"} \subseteq Left
BY DEF TimerStatus, Left

\* Asking for a refresh at most wakes the refresh task.
LEMMA AskRefreshLemma ==
    ASSUME NEW l \in Loader
    PROVE  /\ AskRefresh(l) \in Loader
           /\ AskRefresh(l).found = l.found /\ AskRefresh(l).then = l.then
           /\ AskRefresh(l).at \in {l.at, "looping"}
<1>1. CASE l.at = "off"
  BY <1>1 DEF AskRefresh
<1>2. CASE l.at = "idle"
  <2>1. AskRefresh(l) = [l EXCEPT !.at = "looping", !.again = TRUE]
    BY <1>2 DEF AskRefresh
  <2>2. QED
    BY <2>1 DEF Loader, LoaderAt
<1>3. CASE l.at # "off" /\ l.at # "idle"
  <2>1. AskRefresh(l) = [l EXCEPT !.again = TRUE]
    BY <1>3 DEF AskRefresh
  <2>2. QED
    BY <2>1 DEF Loader, LoaderAt
<1>4. QED
  BY <1>1, <1>2, <1>3

\* Every operation of a client keeps the invariant.
LEMMA OperationStep ==
    ASSUME IInv, NEW c \in Clients, Operation(c)
    PROVE  IInv'
<1>0. /\ ServiceInv /\ RefreshInv /\ LockInv
      /\ cmd \in [Publishers -> Commands]
      /\ st \in State /\ pending \in Nat \ {0} /\ CursorOK(st) /\ LabelOK(st)
      /\ NoSong \in Song0 /\ 0 \in Nat
      /\ {"none", "start", "stop", "reset", "reposition"} \subseteq Commands
  BY DEF IInv, ServiceInv, RefreshInv, Song0, Commands
<1>1. CASE StartNext(c)
  BY <1>1, TakesFacts, SelectStep, RejectStep DEF StartNext
<1>2. CASE StartAt(c)
  BY <1>2, TakesFacts, SelectStep, RejectStep DEF StartAt
<1>3. CASE Restart(c)
  <2>0. /\ queue # <<>> /\ req[Head(queue)].op = "restart" /\ UpNextOK(st, pending)
    BY <1>3, TakesFacts DEF Restart
  <2>1. CASE Reject
    BY <2>0, <2>1, RejectStep
  <2>2. CASE st' = TimerFailed(st) /\ Return /\ UNCHANGED <<pending, cmd>> /\ Elsewhere
    <3>1. /\ st' \in State /\ pending' \in Nat \ {0} /\ CursorOK(st') /\ LabelOK(st')
          /\ UpNextOK(st', pending')
      BY <1>0, <2>0, <2>2, TimerStep, TimerValues DEF TimerFailed
    <3>2. QED
      BY <1>0, <2>0, <2>2, <3>1, ReturnStep
  <2>3. CASE /\ st' = SetLabels(st, st.cursor, pending) /\ Command("start")
             /\ Hold("commanding", st.cursor, st.current) /\ UNCHANGED pending /\ Elsewhere
    <3>1. st.cursor \in Nat /\ st.current \in Song0
      BY <1>0, PlanFacts
    <3>2. /\ st' \in State /\ pending' \in Nat \ {0} /\ CursorOK(st') /\ LabelOK(st')
          /\ UpNextOK(st', pending')
      BY <1>0, <2>3, <3>1, SetLabelsLemma
    <3>3. QED
      BY <1>0, <2>0, <2>3, <3>1, <3>2, WaitStep DEF WaitsFor
  <2>4. QED
    BY <1>3, <2>1, <2>2, <2>3 DEF Restart
<1>4. CASE Previous(c)
  <2>1. /\ queue # <<>> /\ req[Head(queue)].op = "previous" /\ UpNextOK(st, pending)
    BY <1>4, TakesFacts DEF Previous
  <2>2. st.cursor > 1 => st.cursor - 1 \in DOMAIN PlanSongs
    BY <1>0, PlanFacts DEF CursorOK, PlanSongs
  <2>3. QED
    BY <1>4, <2>1, <2>2, NavigateStep, RejectStep DEF Previous
<1>5. CASE NextSong(c)
  <2>1. /\ queue # <<>> /\ req[Head(queue)].op = "next" /\ UpNextOK(st, pending)
    BY <1>5, TakesFacts DEF NextSong
  <2>2. QED
    BY <1>5, <2>1, NavigateStep, RejectStep DEF NextSong
<1>6. CASE StopTimer(c)
  <2>1. /\ queue # <<>> /\ UpNextOK(st, pending) /\ WaitsFor("commanding", req[Head(queue)].op)
    BY <1>6, TakesFacts DEF StopTimer, WaitsFor
  <2>2. QED
    BY <1>0, <1>6, <2>1, WaitStep DEF StopTimer
<1>7. CASE StopTimerAt(c)
  <2>1. /\ queue # <<>> /\ UpNextOK(st, pending) /\ req[Head(queue)] \in Requests
        /\ req[c] = req[Head(queue)] /\ WaitsFor("commanding", req[c].op)
    <3>1. /\ queue # <<>> /\ UpNextOK(st, pending) /\ c = Head(queue)
          /\ WaitsFor("commanding", req[c].op)
      BY <1>7, TakesFacts DEF StopTimerAt, WaitsFor
    <3>2. queue[1] = Head(queue) /\ 1 \in DOMAIN queue
      BY <3>1 DEF IInv, LockInv
    <3>3. QED
      BY <3>1, <3>2, CallsAssumption DEF IInv, LockInv
  <2>2. Timer("stopped", req[c].left) \in [status : TimerStatus, left : Left]
    BY <2>1, TimerValues DEF Requests
  <2>3. /\ st' \in State /\ pending' \in Nat \ {0} /\ CursorOK(st') /\ LabelOK(st')
        /\ UpNextOK(st', pending')
    BY <1>0, <1>7, <2>1, <2>2, TimerStep DEF StopTimerAt
  <2>4. QED
    BY <1>0, <1>7, <2>1, <2>3, WaitStep DEF StopTimerAt
<1>8. CASE ApplyPosition(c)
  <2>1. /\ queue # <<>> /\ UpNextOK(st, pending) /\ req[Head(queue)] \in Requests
        /\ req[c] = req[Head(queue)] /\ WaitsFor("commanding", req[c].op)
    <3>1. /\ queue # <<>> /\ UpNextOK(st, pending) /\ c = Head(queue)
          /\ WaitsFor("commanding", req[c].op)
      BY <1>8, TakesFacts DEF ApplyPosition, WaitsFor
    <3>2. queue[1] = Head(queue) /\ 1 \in DOMAIN queue
      BY <3>1 DEF IInv, LockInv
    <3>3. QED
      BY <3>1, <3>2, CallsAssumption DEF IInv, LockInv
  <2>2. CASE Reject
    BY <2>1, <2>2, RejectStep
  <2>3. CASE /\ st' = Repositioned(st, req[c].left, req[c].op = "resume_at")
             /\ Command("reposition") /\ Hold("commanding", 0, NoSong)
             /\ UNCHANGED pending /\ Elsewhere
    <3>1. Timer("stopped", req[c].left) \in [status : TimerStatus, left : Left]
      BY <2>1, TimerValues DEF Requests
    <3>2. \E tm \in [status : TimerStatus, left : Left] : st' = [st EXCEPT !.timer = tm]
      BY <2>3, <3>1, TimerValues DEF Repositioned
    <3>3. /\ st' \in State /\ pending' \in Nat \ {0} /\ CursorOK(st') /\ LabelOK(st')
          /\ UpNextOK(st', pending')
      BY <1>0, <2>1, <2>3, <3>2, TimerStep
    <3>4. QED
      BY <1>0, <2>1, <2>3, <3>3, WaitStep
  <2>4. QED
    BY <1>8, <2>2, <2>3 DEF ApplyPosition
<1>9. CASE Reset(c)
  <2>1. /\ queue # <<>> /\ req[Head(queue)].op = "reset"
    BY <1>9, TakesFacts DEF Reset
  <2>2. QED
    BY <1>0, <1>9, <2>1, WaitStep DEF Reset, WaitsFor
<1>10. CASE Reload(c)
  <2>1. /\ queue # <<>> /\ UpNextOK(st, pending)
    BY <1>10, TakesFacts DEF Reload
  <2>2. LockInv'
    BY <1>0, <1>10, <2>1, ReturnLock DEF Reload
  <2>3. RefreshInv'
    <3>1. ldr' = AskRefresh(ldr) /\ cmd' = cmd /\ cache' = cache /\ today' = today
      BY <1>10 DEF Reload
    <3>2. /\ ldr' \in Loader /\ ldr'.found = ldr.found /\ ldr'.then = ldr.then
          /\ ldr'.at \in {ldr.at, "looping"}
      BY <1>0, <3>1, AskRefreshLemma DEF RefreshInv
    <3>3. QED
      BY <1>0, <3>1, <3>2 DEF RefreshInv
  <2>4. ServiceInv'
    BY <1>0, <1>10, <2>1 DEF Reload, ServiceInv
  <2>5. QED
    BY <1>0, <1>10, <2>2, <2>3, <2>4 DEF Reload, IInv
<1>11. CASE ReloadRefused(c)
  BY <1>11, TakesFacts, RejectStep DEF ReloadRefused
<1>12. CASE ClearService(c)
  <2>1. queue # <<>>
    BY <1>12, TakesFacts DEF ClearService
  <2>2. st' = EmptyState /\ pending' = 1 /\ cmd' = cmd
    BY <1>12 DEF ClearService, NoCommand
  <2>3. st' \in State /\ CursorOK(st') /\ LabelOK(st') /\ UpNextOK(st', pending')
    BY <2>2, EmptyStateOK
  <2>4. QED
    BY <1>0, <1>12, <2>1, <2>2, <2>3, ReturnStep DEF ClearService
<1>13. QED
  BY <1>1, <1>2, <1>3, <1>4, <1>5, <1>6, <1>7, <1>8, <1>9, <1>10, <1>11, <1>12 DEF Operation

\* So does an operation that goes on after its command.
LEMMA ContinuationStep ==
    ASSUME IInv, Continuation
    PROVE  IInv'
<1>0. /\ ServiceInv /\ RefreshInv /\ LockInv
      /\ cmd \in [Publishers -> Commands]
      /\ st \in State /\ pending \in Nat \ {0} /\ CursorOK(st) /\ LabelOK(st)
      /\ act.index \in Nat /\ act.song \in Song0 /\ NoSong \in Song0 /\ 0 \in Nat
      /\ "none" \in Commands /\ "start" \in Commands /\ "stop" \in Commands
  BY DEF IInv, ServiceInv, RefreshInv, LockInv, Holder, Song0, Commands
<1>1. act.at # "free" => queue # <<>>
  BY <1>0 DEF LockInv
<1>2. CASE StartUntimed
  <2>1. queue # <<>> /\ act.index \in Nat \ {0}
    BY <1>0, <1>1, <1>2 DEF StartUntimed, Starting, LockInv
  <2>2. DEFINE t == KeepLabels(st, pending')
  <2>3. pending' = act.index /\ st' = [t EXCEPT !.timer = Timer("error", "none")]
    BY <1>2 DEF StartUntimed, TimerFailed
  <2>4. t \in State /\ LabelOK(t) /\ UpNextOK(t, pending') /\ CursorOK(t)
    BY <1>0, <2>1, <2>3, PlanFacts, SetLabelsLemma DEF KeepLabels
  <2> HIDE DEF t
  <2>5. st' \in State /\ CursorOK(st') /\ LabelOK(st') /\ UpNextOK(st', pending')
    BY <2>3, <2>4, TimerLemma, TimerValues
  <2>6. QED
    BY <1>0, <1>2, <2>1, <2>3, <2>5, ReturnStep DEF StartUntimed, NoCommand
<1>3. CASE StartTimed
  <2>1. /\ queue # <<>> /\ pending' = act.index + 1 /\ st' = SetLabels(st, act.index, pending')
        /\ WaitsFor("commanding", req[Head(queue)].op)
    BY <1>0, <1>1, <1>3 DEF StartTimed, Starting, WaitsFor
  <2>2. st' \in State /\ CursorOK(st') /\ LabelOK(st') /\ UpNextOK(st', pending')
    BY <1>0, <2>1, SetLabelsLemma
  <2>3. QED
    BY <1>0, <1>3, <2>1, <2>2, WaitStep DEF StartTimed
<1>4. CASE Navigated
  <2>1. queue # <<>> /\ pending' = pending /\ cmd' = cmd /\ st' = SetLabels(st, st.playing, pending)
    BY <1>0, <1>1, <1>4 DEF Navigated, KeepLabels
  <2>2. st' \in State /\ CursorOK(st') /\ LabelOK(st') /\ UpNextOK(st', pending')
    BY <1>0, <2>1, PlanFacts, SetLabelsLemma
  <2>3. QED
    BY <1>0, <1>4, <2>1, <2>2, ReturnStep DEF Navigated
<1>5. CASE StopConsumers
  <2>1. /\ queue # <<>> /\ req[Head(queue)].op = "resume_at" /\ ~ Moving
        /\ UNCHANGED <<st, pending>> /\ WaitsFor("emptied", req[Head(queue)].op)
    BY <1>0, <1>1, <1>5 DEF StopConsumers, MustStop, Moving, WaitsFor
  <2>2. UpNextOK(st', pending')
    BY <1>0, <2>1 DEF ServiceInv
  <2>3. QED
    BY <1>0, <1>5, <2>1, <2>2, WaitStep DEF StopConsumers
<1>6. CASE ResetDone
  <2>1. queue # <<>> /\ pending' = pending /\ st' = ResetState(st, pending)
    BY <1>0, <1>1, <1>6 DEF ResetDone
  <2>2. st' \in State /\ CursorOK(st') /\ LabelOK(st') /\ UpNextOK(st', pending')
    BY <1>0, <2>1, ResetStateLemma
  <2>3. cmd' \in [Publishers -> Commands]
    BY <1>0, <1>6, CommandType DEF ResetDone, Publishers
  <2>4. QED
    BY <1>0, <1>6, <2>1, <2>2, <2>3, ReturnStep DEF ResetDone
<1>7. CASE CommandDone
  <2>1. queue # <<>> /\ UNCHANGED <<st, pending>>
    BY <1>0, <1>1, <1>7 DEF CommandDone
  <2>2. cmd' \in [Publishers -> Commands]
    BY <1>0, <1>7, CommandType DEF CommandDone, Publishers
  <2>3. UpNextOK(st, pending)
    \* no operation that moves `pending` ends here
    BY <1>0, <1>7 DEF CommandDone, ServiceInv, Moving, IsReset, LockInv, WaitsFor
  <2>4. QED
    BY <1>0, <1>7, <2>1, <2>2, <2>3, ReturnStep DEF CommandDone
<1>8. QED
  BY <1>2, <1>3, <1>4, <1>5, <1>6, <1>7 DEF Continuation

\* A step of the output or of the refresh task that leaves the lock alone.
LEMMA UnlockedStep ==
    ASSUME IInv, UNCHANGED <<req, queue, act>>, RefreshInv',
           st' \in State, pending' \in Nat \ {0}, CursorOK(st'), LabelOK(st'),
           UpNextOK(st, pending) => UpNextOK(st', pending')
    PROVE  IInv'
BY SameLock DEF IInv, ServiceInv

\* A timer that is stopped keeps a value of its type.
LEMMA FrozenType ==
    ASSUME ServiceInv, NEW t \in FrozenTimers(st)
    PROVE  t \in [status : TimerStatus, left : Left]
BY DEF FrozenTimers, ServiceInv, State, TimerStatus, Left

\* So do the reports of the outputs.
LEMMA OutputStep ==
    ASSUME IInv, NEW p \in Publishers,
           ReportStarted(p) \/ ReportStopped(p) \/ ReportFailed(p) \/ Silent(p)
    PROVE  IInv'
<1>0. ServiceInv /\ RefreshInv
  BY DEF IInv
<1>1. /\ cmd' = [cmd EXCEPT ![p] = "done"]
      /\ UNCHANGED <<pending, req, queue, act, ldr, cache, today>>
  BY DEF ReportStarted, ReportStopped, ReportFailed, Silent, Answer
<1>2. RefreshInv'
  BY <1>0, <1>1, RefreshAlone, CommandType DEF Commands
<1>3. \/ UNCHANGED st
      \/ \E tm \in [status : TimerStatus, left : Left] : st' = [st EXCEPT !.timer = tm]
  BY <1>0, FrozenType, TimerValues
     DEF ReportStarted, ReportStopped, ReportFailed, Silent, TimerStarted, TimerFailed
<1>4. CASE UNCHANGED st
  BY <1>0, <1>1, <1>2, <1>4, UnlockedStep DEF ServiceInv
<1>5. CASE \E tm \in [status : TimerStatus, left : Left] : st' = [st EXCEPT !.timer = tm]
  BY <1>0, <1>1, <1>2, <1>5, UnlockedStep, TimerStep
<1>6. QED
  BY <1>3, <1>4, <1>5

\* The refresh task's record stays well typed, with a plan wherever one is needed.
LoaderOK(l) == /\ l \in Loader
               /\ \/ l.at = "projecting"
                  \/ l.at \in {"announcing", "stopping"} /\ l.then = "projecting"
                  => l.found \in Plans

\* The steps of the loader and the states it reports.
LEMMA LoaderStates ==
    /\ {"off", "idle", "announcing", "stopping", "fetching", "projecting", "looping"} = LoaderAt
    /\ {"idle", "loading", "loaded", "not_found", "ambiguous", "error"} = LoadStatus
    /\ NoLoad \in [status : LoadStatus, date : Nat, stale : BOOLEAN]
    /\ LoaderOK(IdleLoader) /\ LoaderOK(OffLoader)
    /\ IdleLoader.then = "idle" /\ OffLoader.then = "idle"
BY DEF LoaderAt, LoadStatus, NoLoad, IdleLoader, OffLoader, Loader, LoaderOK

\* A loader that reports and goes on.
LEMMA AnnouncingType ==
    ASSUME NEW l \in Loader, NEW msg \in [status : LoadStatus, date : Nat, stale : BOOLEAN],
           NEW then \in LoaderAt, then = "projecting" => l.found \in Plans
    PROVE  LoaderOK(Announcing(l, msg, then))
BY LoaderStates DEF Announcing, Loader, LoaderOK

\* A loader that reports and is done.
LEMMA ConcludingType ==
    ASSUME NEW l \in Loader, NEW msg \in [status : LoadStatus, date : Nat, stale : BOOLEAN]
    PROVE  LoaderOK(Concluding(l, msg))
<1>1. [IdleLoader EXCEPT !.again = l.again] \in Loader
  BY LoaderStates DEF Loader, LoaderOK
<1>2. QED
  BY <1>1, LoaderStates, AnnouncingType DEF Concluding

\* What a loader reports.
LEMMA MsgType ==
    ASSUME NEW status \in LoadStatus, NEW d \in Nat, NEW stale \in BOOLEAN
    PROVE  LoadMsg(status, d, stale) \in [status : LoadStatus, date : Nat, stale : BOOLEAN]
OBVIOUS

\* Steps of the refresh task that change nothing but its own record.
LEMMA LoaderOnlyStep ==
    ASSUME IInv, UNCHANGED <<st, cmd>>, LoaderOnly, LoaderOK(ldr')
    PROVE  IInv'
<1>1. RefreshInv'
  BY DEF IInv, RefreshInv, LoaderOnly, LoaderOK
<1>2. QED
  BY <1>1, UnlockedStep DEF IInv, ServiceInv, LoaderOnly

\* A plan that is projected, by the refresh task or from the cache.
LEMMA LoadStep ==
    ASSUME IInv, NEW plan \in Plans, UNCHANGED <<req, queue, act, cmd, today>>,
           pending' = FollowPending(st, pending, plan), st' = LoadPlan(st, pending', plan),
           LoaderOK(ldr'), cache' \in Plan0
    PROVE  IInv'
<1>1. st \in State /\ pending \in Nat
  BY DEF IInv, ServiceInv
<1>2. pending' \in Nat \ {0}
  BY <1>1, FollowPendingLemma
<1>3. st' \in State /\ CursorOK(st') /\ LabelOK(st') /\ UpNextOK(st', pending')
  BY <1>1, <1>2, LoadPlanLemma
<1>4. RefreshInv'
  BY DEF IInv, RefreshInv, LoaderOK
<1>5. QED
  BY <1>2, <1>3, <1>4, UnlockedStep

\* Every step of the loader keeps the invariant.
LEMMA RefreshStep ==
    ASSUME IInv, Refresh
    PROVE  IInv'
<1>0. /\ ServiceInv /\ RefreshInv /\ ldr \in Loader /\ LoaderOK(ldr)
      /\ ldr.prev \in Nat /\ ldr.cand \in Nat /\ ldr.day \in Nat /\ today \in Nat
      /\ ldr.msg \in [status : LoadStatus, date : Nat, stale : BOOLEAN]
      /\ ldr.then \in LoaderAt /\ ldr.again \in BOOLEAN
      /\ cmd \in [Publishers -> Commands]
      /\ {"none", "stop"} \subseteq Commands
  BY DEF IInv, RefreshInv, Loader, LoaderOK, Days, Commands
<1>1. CASE AnnounceStop
  <2>1. LoaderOK(ldr')
    BY <1>0, <1>1 DEF AnnounceStop, LoaderOK, Loader, LoaderAt
  <2>2. RefreshInv'
    BY <1>0, <1>1, <2>1, CommandType
       DEF AnnounceStop, RefreshInv, LoaderOK, LoaderOnly, Publishers
  <2>3. QED
    BY <1>0, <1>1, <2>2, UnlockedStep DEF AnnounceStop, LoaderOnly, ServiceInv
<1>2. CASE Announce
  <2>1. /\ st' = LoadChanged(st, ldr.msg)
        /\ pending' = IF Invalidates(st, ldr.msg) THEN 1 ELSE pending
        /\ cmd' = [cmd EXCEPT !["loader"] = "none"]
        /\ ldr' = [ldr EXCEPT !.at = ldr.then, !.msg = NoLoad]
        /\ UNCHANGED <<req, queue, act, cache, today>>
        /\ ldr.at \in {"announcing", "stopping"}
    BY <1>2 DEF Announce
  <2>2. ldr' \in Loader /\ ldr'.at = ldr.then /\ ldr'.then = ldr.then /\ ldr'.found = ldr.found
    BY <1>0, <2>1, LoaderStates DEF Loader
  <2>3. LoaderOK(ldr')
    BY <1>0, <2>1, <2>2 DEF LoaderOK
  <2>4. RefreshInv'
    BY <1>0, <2>1, <2>3, CommandType DEF RefreshInv, LoaderOK, Publishers
  <2>5. /\ st' \in State /\ pending' \in Nat \ {0} /\ CursorOK(st') /\ LabelOK(st')
        /\ UpNextOK(st, pending) => UpNextOK(st', pending')
    BY <1>0, <2>1, LoadChangedLemma DEF ServiceInv
  <2>6. QED
    BY <2>1, <2>4, <2>5, UnlockedStep
<1>3. CASE RefreshOnce
  <2> DEFINE l == [ldr EXCEPT !.again = FALSE, !.day = today, !.found = NoPlan,
                !.prev = ActionableDate(st, today),
                !.cand = IF st.load.status = "ambiguous" /\ st.load.date >= today
                           THEN st.load.date ELSE 0]
  <2>1. ActionableDate(st, today) \in Nat /\ st.load.date \in Nat
    BY <1>0, PlansAssumption DEF ActionableDate, ServiceInv, State
  <2>2. l \in Loader
    BY <1>0, <2>1 DEF Loader
  <2>3. RetainedDate(l) \in Nat
    BY <2>2 DEF RetainedDate, Loader
  <2>4. ldr' = Announcing(l, LoadMsg("loading", RetainedDate(l), l.prev # 0), "fetching")
    BY <1>3 DEF RefreshOnce
  <2> HIDE DEF l
  <2>5. LoaderOK(ldr')
    BY <2>2, <2>3, <2>4, LoaderStates, MsgType, AnnouncingType
  <2>6. QED
    BY <1>3, <2>5, LoaderOnlyStep DEF RefreshOnce
<1>4. CASE RefreshEnds
  BY <1>4, LoaderStates, LoaderOnlyStep DEF RefreshEnds
<1>5. ASSUME NEW msg \in [status : LoadStatus, date : Nat, stale : BOOLEAN], Fetched(msg)
      PROVE  IInv'
  BY <1>0, <1>5, ConcludingType, LoaderOnlyStep DEF Fetched
<1>6. ASSUME NEW p \in Plans, FoundPlan(p) PROVE IInv'
  <2> DEFINE l == [ldr EXCEPT !.found = p]
  <2>1. l \in Loader /\ l.found = p
    BY <1>0 DEF Loader
  <2>2. p.date \in Nat
    BY PlansAssumption
  <2>3. LoadMsg("loading", p.date, FALSE) \in [status : LoadStatus, date : Nat, stale : BOOLEAN]
    BY <2>2, MsgType, LoaderStates
  <2>4. LoaderOK(Announcing(l, LoadMsg("loading", p.date, FALSE), "projecting"))
    BY <2>1, <2>3, LoaderStates, AnnouncingType
  <2>5. LoaderOK([l EXCEPT !.at = "projecting"])
    BY <2>1 DEF LoaderOK, Loader, LoaderAt
  <2>6. LoaderOK(ldr')
    BY <1>6, <2>4, <2>5 DEF FoundPlan
  <2>7. QED
    BY <1>6, <2>6, LoaderOnlyStep DEF FoundPlan
<1>7. CASE FoundNothing
  <2>1. PICK active \in BOOLEAN :
          Fetched(LoadMsg("not_found", IF ldr.prev # 0 /\ active THEN ldr.prev ELSE ldr.day,
                          ldr.prev # 0 /\ active))
    BY <1>7 DEF FoundNothing
  <2>2. QED
    BY <1>0, <1>5, <2>1, LoaderStates, MsgType
<1>8. CASE FoundSeveral
  <2>1. PICK d \in ldr.day .. MaxDay : Fetched(LoadMsg("ambiguous", d, d = ldr.prev))
    BY <1>8 DEF FoundSeveral
  <2>2. d \in Nat
    BY <1>0, MaxDayAssumption
  <2>3. QED
    BY <1>5, <2>1, <2>2, LoaderStates, MsgType
<1>9. Failures(ldr) \subseteq LoadStatus
  BY DEF Failures, LoadStatus
<1>10. CASE FetchFails
  <2>1. RetainedDate(ldr) \in Nat
    BY <1>0 DEF RetainedDate
  <2>2. PICK status \in Failures(ldr) : Fetched(LoadMsg(status, RetainedDate(ldr), ldr.prev # 0))
    BY <1>10 DEF FetchFails
  <2>3. QED
    BY <1>5, <1>9, <2>1, <2>2, MsgType
<1>11. CASE FetchSuperseded
  <2>1. LoaderOK([IdleLoader EXCEPT !.at = "looping", !.again = TRUE])
    BY LoaderStates DEF LoaderOK, Loader
  <2>2. QED
    BY <1>11, <2>1, LoaderOnlyStep DEF FetchSuperseded
<1>12. CASE ProjectPlan
  <2>1. ldr.found \in Plans
    BY <1>0, <1>12 DEF ProjectPlan, LoaderOK
  <2>2. ldr.found.date \in Nat
    BY <2>1, PlansAssumption
  <2>3. LoaderOK(ldr')
    <3>1. CASE ldr' = Concluding(ldr, LoadMsg("loaded", ldr.found.date, FALSE))
      BY <1>0, <2>2, <3>1, LoaderStates, MsgType, ConcludingType
    <3>2. ASSUME NEW status \in Failures(ldr),
                 ldr' = Concluding(ldr, LoadMsg(status, ldr.found.date, TRUE))
          PROVE  LoaderOK(ldr')
      BY <1>0, <1>9, <2>2, <3>2, MsgType, ConcludingType
    <3>3. QED
      BY <1>12, <3>1, <3>2 DEF ProjectPlan
  <2>4. cache' \in Plan0
    BY <1>0, <1>12, <2>1 DEF ProjectPlan, RefreshInv, Plan0
  <2>5. QED
    BY <1>12, <2>1, <2>3, <2>4, LoadStep DEF ProjectPlan
<1>13. QED
  BY <1>1, <1>2, <1>3, <1>4, <1>6, <1>7, <1>8, <1>10, <1>11, <1>12 DEF Refresh

\* Steps of nobody above: the source switch, the plugin's start and stop, the clock.
LEMMA OtherStep ==
    ASSUME IInv, ClearTimer \/ RequestRefresh \/ LoaderStart \/ LoaderStop \/ Midnight
    PROVE  IInv'
<1>0. /\ ServiceInv /\ RefreshInv /\ ldr \in Loader /\ LoaderOK(ldr)
      /\ cmd \in [Publishers -> Commands] /\ "none" \in Commands
  BY DEF IInv, RefreshInv, LoaderOK, Commands
<1>1. CASE ClearTimer
  <2>1. RefreshInv'
    BY <1>0, <1>1 DEF ClearTimer, RefreshInv
  <2>2. QED
    BY <1>0, <1>1, <2>1, TimerValues, TimerStep, UnlockedStep DEF ClearTimer
<1>2. CASE RequestRefresh
  <2>1. LoaderOK(AskRefresh(ldr))
    BY <1>0, AskRefreshLemma DEF LoaderOK
  <2>2. QED
    BY <1>2, <2>1, LoaderOnlyStep DEF RequestRefresh
<1>3. CASE LoaderStart
  <2> DEFINE l == [OffLoader EXCEPT !.again = TRUE]
  <2>1. l \in Loader
    BY LoaderStates DEF LoaderOK, Loader
  <2>2. LoaderOK([l EXCEPT !.at = "looping"])
    BY LoaderStates DEF LoaderOK, Loader
  <2>3. CASE cache # NoPlan /\ cache.date >= today
    <3>1. cache \in Plans /\ cache.date \in Nat
      BY <1>0, <2>3, PlansAssumption DEF RefreshInv, Plan0
    <3>2. LoaderOK(Announcing(l, LoadMsg("loading", cache.date, TRUE), "looping"))
      BY <2>1, <3>1, LoaderStates, MsgType, AnnouncingType
    <3>3. QED
      BY <1>0, <1>3, <2>3, <3>1, <3>2, LoadStep DEF LoaderStart, RefreshInv
  <2>4. CASE ~ (cache # NoPlan /\ cache.date >= today)
    <3>1. RefreshInv'
      BY <1>0, <1>3, <2>2, <2>4 DEF LoaderStart, RefreshInv, LoaderOK
    <3>2. QED
      BY <1>0, <1>3, <2>4, <3>1, UnlockedStep DEF LoaderStart, ServiceInv
  <2>5. QED
    BY <2>3, <2>4
<1>4. CASE LoaderStop
  <2>1. RefreshInv'
    BY <1>0, <1>4, LoaderStates, CommandType
       DEF LoaderStop, LoaderOnly, RefreshInv, LoaderOK, Publishers
  <2>2. QED
    BY <1>0, <1>4, <2>1, UnlockedStep DEF LoaderStop, LoaderOnly, ServiceInv
<1>5. CASE Midnight
  <2>1. RefreshInv'
    BY <1>0, <1>5, MaxDayAssumption DEF Midnight, RefreshInv, Days
  <2>2. QED
    BY <1>0, <1>5, <2>1, UnlockedStep DEF Midnight, ServiceInv
<1>6. QED
  BY <1>1, <1>2, <1>3, <1>4, <1>5

\* So does every step of the service.
LEMMA NextIInv == IInv /\ [Next]_vars => IInv'
<1> SUFFICES ASSUME IInv, [Next]_vars PROVE IInv'
  OBVIOUS
<1>1. ASSUME NEW c \in Clients, NEW r \in Calls, Call(c, r) PROVE IInv'
  <2>1. LockInv' /\ (Moving' <=> Moving)
    BY <1>1, CallLock DEF IInv
  <2>2. UNCHANGED <<st, pending, cmd, ldr, cache, today>>
    BY <1>1 DEF Call
  <2>3. QED
    BY <2>1, <2>2 DEF IInv, ServiceInv, RefreshInv
<1>2. ASSUME NEW c \in Clients, Operation(c) PROVE IInv'
  BY <1>2, OperationStep
<1>3. CASE Output
  BY <1>3, OutputStep DEF Output
<1>4. CASE UNCHANGED vars
  BY <1>4 DEF vars, IInv, LockInv, ServiceInv, RefreshInv, Moving
<1>5. QED
  BY <1>1, <1>2, <1>3, <1>4, ContinuationStep, RefreshStep, OtherStep DEF Next

-----------------------------------------------------------------------------
(* Theorems *)

\* The invariant behind the theorems holds in every behaviour.
THEOREM Invariance == Spec => []IInv
BY InitIInv, NextIInv, PTL DEF Spec

\* Every variable keeps its type, in particular every position is a natural number and
\* the pending position is at least the first.
THEOREM TypeCorrect == Spec => []TypeOK
<1>1. IInv => TypeOK
  BY DEF IInv, LockInv, ServiceInv, RefreshInv, TypeOK, Plan0
<1>2. QED
  BY <1>1, Invariance, PTL

\* Cursor, current song and next song always describe the plan on show.
THEOREM CursorAlwaysInPlan == Spec => []CursorInPlan
<1>1. IInv => CursorInPlan
  BY DEF IInv, ServiceInv, CursorOK, CursorInPlan, PlanSongs
<1>2. QED
  BY <1>1, Invariance, PTL

\* The song labelled as playing is always the plan's song at the playing position.
THEOREM LabelAlwaysInPlan == Spec => []LabelInPlan
<1>1. IInv => LabelInPlan
  BY DEF IInv, ServiceInv, LabelOK, LabelInPlan, PlanSongs
<1>2. QED
  BY <1>1, Invariance, PTL

\* What the screen shows as up next is what Start next would play, unless the holder of
\* the action lock is in the middle of moving it.
THEOREM UpNextAlwaysPending == Spec => []UpNextIsPending
<1>1. IInv => UpNextIsPending
  BY DEF IInv, ServiceInv, UpNextOK, UpNextIsPending, PlanSongs
<1>2. QED
  BY <1>1, Invariance, PTL

\* Start next plays what is shown as up next, and is refused only if nothing is.
THEOREM StartAlwaysPlaysUpNext == Spec => StartPlaysUpNext
<1> DEFINE A == act.at = "free" /\ queue # <<>> /\ req[Head(queue)].op = "start_next" =>
                  /\ act'.at = "selected" => act'.song = st.upNext
                  /\ Len(queue') < Len(queue) => st.upNext = NoSong
<1>1. IInv /\ [Next]_vars => [A]_vars
  <2> SUFFICES ASSUME IInv, Next, act.at = "free", queue # <<>>,
                      req[Head(queue)].op = "start_next"
               PROVE  /\ act'.at = "selected" => act'.song = st.upNext
                      /\ Len(queue') < Len(queue) => st.upNext = NoSong
    OBVIOUS
  <2>0. /\ st.upNext = SongAt(PlanSongs, pending) /\ PlanSongs \in Seq(Songs)
        /\ pending \in Nat /\ queue \in Seq(Clients)
    BY PlanFacts DEF IInv, ServiceInv, LockInv, UpNextOK, Moving, PlanSongs
  <2>1. CASE UNCHANGED <<act, queue>>
    BY <2>0, <2>1
  <2>2. ASSUME NEW c \in Clients, NEW r \in Calls, Call(c, r)
        PROVE  act' = act /\ Len(queue') = Len(queue) + 1
    BY <2>0, <2>2 DEF Call
  <2>3. ASSUME NEW c \in Clients, StartNext(c)
        PROVE  /\ act'.at = "selected" => act'.song = st.upNext
               /\ Len(queue') < Len(queue) => st.upNext = NoSong
    <3>1. CASE pending \in DOMAIN PlanSongs /\ Select(pending)
      BY <2>0, <3>1 DEF Select, Hold, SongAt
    <3>2. CASE pending \notin DOMAIN PlanSongs /\ Reject
      BY <2>0, <3>2 DEF Reject, Return, Free, SongAt
    <3>3. QED
      BY <2>3, <3>1, <3>2 DEF StartNext
  <2>4. ASSUME NEW c \in Clients, Operation(c)
        PROVE  StartNext(c)
    <3>1. \A op : Takes(c, op) => op = "start_next"
      BY DEF Takes
    <3>2. QED
      BY <2>4, <3>1 DEF Operation, StartAt, Restart, Previous, NextSong, StopTimer, StopTimerAt,
         ApplyPosition, Reset, Reload, ReloadRefused, ClearService
  <2>6. ~ Continuation
    BY DEF Continuation, StartUntimed, StartTimed, Starting, Navigated, StopConsumers,
       ResetDone, CommandDone
  <2>7. Output \/ Refresh \/ ClearTimer \/ RequestRefresh \/ LoaderStart \/ LoaderStop \/ Midnight
        => UNCHANGED <<act, queue>>
    BY DEF Output, ReportStarted, ReportStopped, ReportFailed, Silent, Answer,
       Refresh, AnnounceStop, Announce, RefreshOnce, RefreshEnds, FoundPlan, FoundNothing,
       FoundSeveral, FetchFails, Fetched, FetchSuperseded, ProjectPlan, LoaderOnly,
       ClearTimer, RequestRefresh, LoaderStart, LoaderStop, Midnight
  <2>8. QED
    BY <2>1, <2>2, <2>3, <2>4, <2>6, <2>7 DEF Next
<1>2. QED
  BY <1>1, Invariance, PTL DEF Spec, StartPlaysUpNext

\* The songs with a song's id, among those of a plan.
WithId(song, songs) == {i \in DOMAIN songs : songs[i].id = song.id}

\* _safe_match finds a song whose id is in the incoming plan once.
LEMMA SafeMatchById ==
    ASSUME NEW old \in Seq(Songs), NEW i \in DOMAIN old, NEW new \in Seq(Songs),
           Cardinality(WithId(old[i], new)) = 1
    PROVE  LET k == SafeMatch(old, i, new)
           IN  k \in 1 .. Len(new) /\ SongAt(new, k) \in Versions(old[i])
<1> DEFINE S == {j \in DOMAIN new : new[j].id = old[i].id}
<1>1. S = WithId(old[i], new) /\ S \subseteq 1 .. Len(new)
  BY DEF WithId
<1>2. IsFiniteSet(S)
  BY <1>1, FS_Interval, FS_Subset
<1>3. PICK j : S = {j}
  BY <1>1, <1>2, FS_Singleton
<1>4. IsOnly(S) /\ (CHOOSE k \in S : TRUE) = j
  BY <1>3 DEF IsOnly
<1>5. SafeMatch(old, i, new) = j
  BY <1>4 DEF SafeMatch
<1>6. j \in 1 .. Len(new) /\ new[j] \in Versions(old[i])
  BY <1>1, <1>3 DEF Versions
<1>7. QED
  BY <1>5, <1>6 DEF SongAt

\* A reload keeps the cursor, the playing label and the pending position on songs that
\* the incoming plan has, under their ids and once.
LEMMA LoadPlanFollows ==
    ASSUME ServiceInv, NEW plan \in Plans, NEW q, q = FollowPending(st, pending, plan),
           NEW t, t = LoadPlan(st, q, plan)
    PROVE  /\ st.current # NoSong /\ Cardinality(WithId(st.current, plan.songs)) = 1
                => t.current \in Versions(st.current)
           /\ st.sounding # NoSong /\ Cardinality(WithId(st.sounding, plan.songs)) = 1
                => t.sounding \in Versions(st.sounding)
           /\ UpNextOK(st, pending) /\ st.upNext # NoSong /\ t.cursor # 0
                /\ Cardinality(WithId(st.upNext, plan.songs)) = 1
                => t.upNext \in Versions(st.upNext)
<1> DEFINE old == SongsOf(st.plan)
           new == plan.songs
           k == SafeMatch(old, st.cursor, new)
           m == SafeMatch(old, st.playing, new)
           n == SafeMatch(old, pending, new)
<1> HIDE DEF k, m, n
<1>1. old \in Seq(Songs) /\ new \in Seq(Songs) /\ st \in State /\ pending \in Nat /\ q \in Nat
  BY SongsOfType, PlansAssumption, FollowPendingLemma DEF ServiceInv, State, Plan0
<1>2. k \in 0 .. Len(new) /\ m \in 0 .. Len(new)
  BY <1>1, SafeMatchRange DEF State, k, m
<1>3. /\ t.cursor = k /\ t.current = SongAt(new, k)
      /\ t.sounding = SongAt(new, m) /\ t.upNext = SongAt(new, q)
  <2> DEFINE u == [st EXCEPT !.plan = plan, !.cursor = k, !.current = SongAt(new, k),
                             !.next = SongAt(new, k + 1)]
             p == IF m \in 1 .. Len(SongsOf(u.plan)) THEN m ELSE 0
  <2>1. t = SetLabels(u, m, q)
    BY DEF LoadPlan, k, m
  <2>2. u.plan = plan /\ SongsOf(u.plan) = new
    BY <1>1, PlansAssumption DEF State, SongsOf
  <2>3. p = m
    BY <1>2, <2>2
  <2>4. t = [u EXCEPT !.playing = p, !.sounding = SongAt(new, p), !.upNext = SongAt(new, q)]
    BY <2>1, <2>2 DEF SetLabels
  <2> HIDE DEF p
  <2>5. QED
    BY <1>1, <2>3, <2>4 DEF State
<1>4. \A i \in Nat : SongAt(old, i) # NoSong => i \in DOMAIN old /\ SongAt(old, i) = old[i]
  BY <1>1 DEF SongAt
<1>5. /\ st.current = SongAt(old, st.cursor) /\ st.cursor \in Nat
      /\ st.sounding = SongAt(old, st.playing) /\ st.playing \in Nat
  BY <1>1 DEF ServiceInv, CursorOK, LabelOK, State
<1>6. st.current # NoSong /\ Cardinality(WithId(st.current, new)) = 1
        => t.current \in Versions(st.current)
  BY <1>1, <1>3, <1>4, <1>5, SafeMatchById DEF k
<1>7. st.sounding # NoSong /\ Cardinality(WithId(st.sounding, new)) = 1
        => t.sounding \in Versions(st.sounding)
  BY <1>1, <1>3, <1>4, <1>5, SafeMatchById DEF m
<1>8. ASSUME UpNextOK(st, pending), st.upNext # NoSong, t.cursor # 0,
             Cardinality(WithId(st.upNext, new)) = 1
      PROVE  t.upNext \in Versions(st.upNext)
  <2>1. pending \in DOMAIN old /\ st.upNext = old[pending]
    BY <1>1, <1>4, <1>8 DEF UpNextOK
  <2>2. n \in 1 .. Len(new) /\ SongAt(new, n) \in Versions(st.upNext)
    BY <1>1, <1>8, <2>1, SafeMatchById DEF n
  <2>3. q = n
    BY <1>3, <1>8, <2>2 DEF FollowPending, k, n
  <2>4. QED
    BY <1>3, <2>2, <2>3
<1>9. QED
  BY <1>6, <1>7, <1>8

\* The mutations of cursor, labels and countdown leave the plan and its load state alone.
LEMMA PlanKept ==
    ASSUME NEW s \in State, NEW i, NEW p
    PROVE  /\ SetLabels(s, i, p).plan = s.plan /\ SetLabels(s, i, p).load = s.load
           /\ SelectSong(s, i).plan = s.plan /\ SelectSong(s, i).load = s.load
           /\ \A tm : [s EXCEPT !.timer = tm].plan = s.plan
                        /\ [s EXCEPT !.timer = tm].load = s.load
           /\ \A l, b : Repositioned(s, l, b).plan = s.plan
                          /\ Repositioned(s, l, b).load = s.load
           /\ TimerFailed(s).plan = s.plan /\ TimerFailed(s).load = s.load
           /\ TimerStarted(s).plan = s.plan /\ TimerStarted(s).load = s.load
<1>1. SetLabels(s, i, p).plan = s.plan /\ SetLabels(s, i, p).load = s.load
  BY DEF SetLabels, State
<1>2. SelectSong(s, i).plan = s.plan /\ SelectSong(s, i).load = s.load
  BY DEF SelectSong, State
<1>3. \A tm : [s EXCEPT !.timer = tm].plan = s.plan /\ [s EXCEPT !.timer = tm].load = s.load
  BY DEF State
<1>4. QED
  BY <1>1, <1>2, <1>3 DEF Repositioned, TimerFailed, TimerStarted

\* So does every step of an action, of the outputs and of their switch; only a switch of
\* the Services source clears both.
LEMMA ActionsKeepPlan ==
    ASSUME IInv,
           \/ \E c \in Clients : Operation(c) /\ ~ ClearService(c)
           \/ Continuation \/ Output \/ ClearTimer
    PROVE  st'.plan = st.plan /\ st'.load = st.load
<1> DEFINE Same(t) == t.plan = st.plan /\ t.load = st.load
<1>0. /\ \A i : Same(SelectSong(st, i))
      /\ \A i, p : Same(SetLabels(st, i, p))
      /\ \A l, b : Same(Repositioned(st, l, b)) /\ \A tm : Same([st EXCEPT !.timer = tm])
      /\ Same(TimerFailed(st)) /\ Same(TimerStarted(st)) /\ Same(st)
      /\ st \in State /\ ServiceInv
  BY PlanKept DEF IInv, ServiceInv
<1>1. ASSUME NEW c \in Clients, Operation(c), ~ ClearService(c) PROVE Same(st')
  <2>1. CASE StartNext(c) \/ StartAt(c) \/ Previous(c) \/ NextSong(c)
    <3>1. UNCHANGED st \/ \E i : st' = SelectSong(st, i)
      BY <2>1, Zenon DEF StartNext, StartAt, Previous, NextSong, Select, Navigate, Reject
    <3>2. QED
      BY <1>0, <3>1
  <2>2. CASE Restart(c)
    <3>1. \/ UNCHANGED st
          \/ st' = TimerFailed(st)
          \/ st' = SetLabels(st, st.cursor, pending)
      BY <2>2, Zenon DEF Restart, Reject
    <3>2. QED
      BY <1>0, <3>1
  <2>3. CASE StopTimerAt(c)
    <3>1. st' = [st EXCEPT !.timer = Timer("stopped", req[c].left)]
      BY <2>3, Zenon DEF StopTimerAt
    <3>2. QED
      BY <1>0, <3>1
  <2>4. CASE ApplyPosition(c)
    <3>1. UNCHANGED st \/ st' = Repositioned(st, req[c].left, req[c].op = "resume_at")
      BY <2>4, Zenon DEF ApplyPosition, Reject
    <3>2. QED
      BY <1>0, <3>1
  <2>5. CASE StopTimer(c) \/ Reset(c) \/ Reload(c) \/ ReloadRefused(c)
    BY <2>5 DEF StopTimer, Reset, Reload, ReloadRefused, Reject
  <2>6. QED
    BY <1>1, <2>1, <2>2, <2>3, <2>4, <2>5 DEF Operation
<1>2. CASE Continuation
  <2>1. CASE StartUntimed
    <3>1. KeepLabels(st, pending') \in State /\ Same(KeepLabels(st, pending'))
      <4>1. act.index \in Nat
        BY DEF IInv, LockInv, Holder
      <4>2. QED
        BY <1>0, <2>1, <4>1, PlanFacts, SetLabelsLemma DEF StartUntimed, KeepLabels
    <3>2. QED
      BY <2>1, <3>1, PlanKept DEF StartUntimed
  <2>2. CASE StartTimed \/ Navigated
    BY <1>0, <2>2 DEF StartTimed, Navigated, KeepLabels
  <2>3. CASE StopConsumers \/ CommandDone
    BY <2>3 DEF StopConsumers, CommandDone
  <2>4. CASE ResetDone
    <3> DEFINE u == [st EXCEPT !.cursor = 0, !.current = NoSong,
                               !.next = SongAt(SongsOf(st.plan), 1),
                               !.timer = Timer("stopped", "none")]
    <3>1. Same(u) /\ st' = SetLabels(u, 0, pending)
      BY <1>0, <2>4 DEF ResetDone, ResetState, State
    <3>2. SetLabels(u, 0, pending).plan = u.plan /\ SetLabels(u, 0, pending).load = u.load
      BY <1>0 DEF SetLabels, State
    <3>3. QED
      BY <3>1, <3>2
  <2>5. QED
    BY <1>2, <2>1, <2>2, <2>3, <2>4 DEF Continuation
<1>3. CASE Output
  <2>1. \/ UNCHANGED st
        \/ st' = TimerStarted(st)
        \/ st' = TimerFailed(st)
        \/ \E tm : st' = [st EXCEPT !.timer = tm]
    BY <1>3, Zenon DEF Output, ReportStarted, ReportStopped, ReportFailed, Silent
  <2>2. QED
    BY <1>0, <2>1
<1>4. CASE ClearTimer
  BY <1>0, <1>4 DEF ClearTimer
<1>5. QED
  BY <1>1, <1>2, <1>3, <1>4

\* A reload follows songs, not positions.
THEOREM ReloadAlwaysFollowsSongs == Spec => ReloadFollowsSongs
<1> DEFINE A == st'.plan # st.plan =>
                  /\ Survives(st.current) => st'.current \in Versions(st.current)
                  /\ Survives(st.sounding) => st'.sounding \in Versions(st.sounding)
                  /\ Survives(st.upNext) /\ st'.cursor # 0 /\ ~ Moving
                       => st'.upNext \in Versions(st.upNext)
<1>1. IInv /\ [Next]_vars => [A]_vars
  <2> SUFFICES ASSUME IInv, Next PROVE A
    OBVIOUS
  <2>0. ServiceInv /\ st \in State /\ (~ Moving => UpNextOK(st, pending))
    BY DEF IInv, ServiceInv
  <2>1. CASE st'.plan = st.plan
    BY <2>1
  <2>2. CASE st'.plan = NoPlan
    BY <2>2 DEF Survives
  <2>3. ASSUME NEW plan \in Plans, pending' = FollowPending(st, pending, plan),
               st' = LoadPlan(st, pending', plan)
        PROVE  A
    <3>1. pending \in Nat /\ pending' \in Nat
      BY <2>0, <2>3, FollowPendingLemma DEF ServiceInv
    <3>2. st'.plan = plan
      BY <2>0, <2>3, <3>1, LoadPlanLemma
    <3>3. \A song : Survives(song) => song # NoSong /\ Cardinality(WithId(song, plan.songs)) = 1
      BY <3>2 DEF Survives, WithId
    <3>4. QED
      BY <2>0, <2>3, <3>3, LoadPlanFollows
  <2>4. CASE UNCHANGED st
    BY <2>4
  <2>5. ASSUME NEW c \in Clients, Operation(c) PROVE st'.plan = st.plan \/ st'.plan = NoPlan
    <3>1. CASE ClearService(c)
      BY <3>1 DEF ClearService, EmptyState
    <3>2. CASE ~ ClearService(c)
      BY <2>5, <3>2, ActionsKeepPlan
    <3>3. QED
      BY <3>1, <3>2
  <2>6. CASE Continuation \/ Output \/ ClearTimer
    BY <2>6, ActionsKeepPlan
  <2>7. ASSUME Announce PROVE st'.plan = st.plan \/ st'.plan = NoPlan
    <3>1. st' = LoadChanged(st, ldr.msg)
      BY <2>7, Zenon DEF Announce
    <3>2. CASE Invalidates(st, ldr.msg)
      <4>1. st' = [EmptyState EXCEPT !.timer = Timer("stopped", "none"), !.load = ldr.msg]
        BY <3>1, <3>2, Zenon DEF LoadChanged
      <4>2. QED
        BY <4>1 DEF EmptyState
    <3>3. CASE ~ Invalidates(st, ldr.msg)
      <4>1. st' = [st EXCEPT !.load = ldr.msg]
        BY <3>1, <3>3, Zenon DEF LoadChanged
      <4>2. QED
        BY <2>0, <4>1 DEF State
    <3>4. QED
      BY <3>2, <3>3
  <2>8. CASE ProjectPlan
    <3>1. ldr.found \in Plans
      BY <2>8 DEF IInv, RefreshInv, ProjectPlan
    <3>2. QED
      BY <2>3, <2>8, <3>1 DEF ProjectPlan
  <2>9. CASE LoaderStart
    <3>1. CASE UNCHANGED st
      BY <2>4, <3>1
    <3>2. CASE ~ UNCHANGED st
      <4>1. /\ cache # NoPlan /\ pending' = FollowPending(st, pending, cache)
            /\ st' = LoadPlan(st, pending', cache)
        BY <2>9, <3>2 DEF LoaderStart
      <4>2. cache \in Plans
        BY <4>1 DEF IInv, RefreshInv, Plan0
      <4>3. QED
        BY <2>3, <4>1, <4>2
    <3>3. QED
      BY <3>1, <3>2
  <2>10. CASE Refresh \/ RequestRefresh \/ LoaderStop \/ Midnight
    <3>1. UNCHANGED st \/ Announce \/ ProjectPlan
      BY <2>10, Zenon DEF Refresh, AnnounceStop, RefreshOnce, RefreshEnds, FoundPlan,
         FoundNothing, FoundSeveral, FetchFails, Fetched, FetchSuperseded, RequestRefresh,
         LoaderStop, Midnight
    <3>2. QED
      BY <2>1, <2>2, <2>4, <2>7, <2>8, <3>1
  <2>11. ASSUME NEW c \in Clients, NEW r \in Calls, Call(c, r) PROVE A
    BY <2>4, <2>11 DEF Call
  <2>12. QED
    BY <2>1, <2>2, <2>5, <2>6, <2>9, <2>10, <2>11 DEF Next
<1>2. QED
  BY <1>1, Invariance, PTL DEF Spec, ReloadFollowsSongs

-----------------------------------------------------------------------------
(* The load state and the plan on show                                      *)

\* The plan that is left once a report of the loader is applied.
PlanAfter(plan, msg) ==
    IF plan # NoPlan /\ (plan.date # msg.date \/ (msg.status = "not_found" /\ ~ msg.stale))
      THEN NoPlan ELSE plan

\* LoadDescribesPlan, of a load state and a plan.
Describes(plan, load) ==
    /\ plan # NoPlan => load.date = plan.date /\ (load.stale <=> load.status # "loaded")
    /\ plan = NoPlan => ~ load.stale /\ load.status # "loaded"

\* The refresh knows the date of the plan on show, or none is on show; the days it may
\* fall back on are its own or later.
ReadyToFetch(plan, l) ==
    /\ l.day # 0 /\ (l.cand = 0 \/ l.cand >= l.day)
    /\ l.prev = 0 => plan = NoPlan
    /\ l.prev # 0 => plan # NoPlan /\ plan.date = l.prev

Reporting(l) == l.at \in {"announcing", "stopping"}

\* What a loader that is done has put on show, and what one that reports is about to.
LoaderInv(plan, load, l) ==
    /\ l.at = "idle" \/ (l.at = "looping" /\ ~ l.again) => Describes(plan, load)
    /\ Reporting(l) => l.then \in {"fetching", "projecting", "looping"}
    /\ Reporting(l) /\ l.then = "looping" => Describes(PlanAfter(plan, l.msg), l.msg)
    /\ Reporting(l) /\ l.then = "fetching" => ReadyToFetch(PlanAfter(plan, l.msg), l)
    /\ l.at = "fetching" => ReadyToFetch(plan, l)

\* The plan is not cleared by an action while a refresh may change it.
ClearInv ==
    ldr.at # "off" => \A c \in Clients : req[c] # NoRequest => req[c].op # "clear_service"

LoadInv == LoaderInv(st.plan, st.load, ldr) /\ ClearInv

\* A report of the loader, as it is applied.
LEMMA LoadChangedPlan ==
    ASSUME NEW s \in State, NEW msg \in [status : LoadStatus, date : Nat, stale : BOOLEAN]
    PROVE  LoadChanged(s, msg).plan = PlanAfter(s.plan, msg) /\ LoadChanged(s, msg).load = msg
<1>1. CASE Invalidates(s, msg)
  <2>1. LoadChanged(s, msg) = [EmptyState EXCEPT !.timer = Timer("stopped", "none"), !.load = msg]
    BY <1>1 DEF LoadChanged
  <2>2. PlanAfter(s.plan, msg) = NoPlan
    BY <1>1 DEF Invalidates, IsRollover, PlanAfter
  <2>3. QED
    BY <2>1, <2>2 DEF EmptyState
<1>2. CASE ~ Invalidates(s, msg)
  <2>1. LoadChanged(s, msg) = [s EXCEPT !.load = msg]
    BY <1>2 DEF LoadChanged
  <2>2. PlanAfter(s.plan, msg) = s.plan
    BY <1>2 DEF Invalidates, IsRollover, PlanAfter
  <2>3. QED
    BY <2>1, <2>2 DEF State
<1>3. QED
  BY <1>1, <1>2

\* A loader that reports keeps everything else.
LEMMA AnnouncingFields ==
    ASSUME NEW l \in Loader, NEW msg, NEW then
    PROVE  LET a == Announcing(l, msg, then)
           IN  /\ a.at = "announcing" /\ a.msg = msg /\ a.then = then
               /\ a.day = l.day /\ a.prev = l.prev /\ a.cand = l.cand /\ a.found = l.found
BY DEF Announcing, Loader

\* One that reports and is done.
LEMMA ConcludingFields ==
    ASSUME NEW l \in Loader, NEW msg
    PROVE  LET a == Concluding(l, msg)
           IN  a.at = "announcing" /\ a.msg = msg /\ a.then = "looping"
<1>1. [IdleLoader EXCEPT !.again = l.again] \in Loader
  BY LoaderStates DEF Loader, LoaderOK
<1>2. QED
  BY <1>1, AnnouncingFields DEF Concluding

\* Asking a loader for another round promises nothing new of this one.
LEMMA AskKeeps ==
    ASSUME NEW plan, NEW load, NEW l \in Loader, LoaderInv(plan, load, l)
    PROVE  LoaderInv(plan, load, AskRefresh(l)) /\ (AskRefresh(l).at = "off" <=> l.at = "off")
<1>1. CASE l.at = "off"
  BY <1>1 DEF AskRefresh
<1>2. CASE l.at = "idle"
  <2>1. AskRefresh(l).at = "looping" /\ AskRefresh(l).again = TRUE
    BY <1>2 DEF AskRefresh, Loader
  <2>2. QED
    BY <1>2, <2>1 DEF LoaderInv, Reporting
<1>3. CASE l.at # "off" /\ l.at # "idle"
  <2> DEFINE a == AskRefresh(l)
  <2>1. /\ a.at = l.at /\ a.again = TRUE /\ a.msg = l.msg /\ a.then = l.then
        /\ a.day = l.day /\ a.prev = l.prev /\ a.cand = l.cand
    BY <1>3 DEF AskRefresh, Loader
  <2> HIDE DEF a
  <2>2. QED
    BY <1>3, <2>1 DEF LoaderInv, Reporting, ReadyToFetch, a
<1>4. QED
  BY <1>1, <1>2, <1>3

\* Steps of the actions and of the outputs leave plan and loader alone.
LEMMA LoadAlone ==
    ASSUME IInv, LoadInv, st'.plan = st.plan, st'.load = st.load, ldr' = ldr,
           req' = req \/ req' = [req EXCEPT ![Head(queue)] = NoRequest]
    PROVE  LoadInv'
<1>1. \A c \in Clients : req'[c] = req[c] \/ req'[c] = NoRequest
  BY DEF IInv, LockInv
<1>2. QED
  BY <1>1 DEF LoadInv, ClearInv

\* The refresh moves on, and no action clears the plan meanwhile.
LEMMA LoaderMoves ==
    ASSUME LoadInv, ldr.at # "off", req' = req, LoaderInv(st'.plan, st'.load, ldr')
    PROVE  LoadInv'
BY DEF LoadInv, ClearInv

\* The steps of the action lock.
LEMMA LoadOperation ==
    ASSUME IInv, LoadInv, NEW c \in Clients, Operation(c)
    PROVE  LoadInv'
<1>0. ldr \in Loader
  BY DEF IInv, RefreshInv
<1>1. CASE Reload(c)
  <2>1. /\ ldr' = AskRefresh(ldr) /\ st' = st
        /\ req' = [req EXCEPT ![Head(queue)] = NoRequest]
    BY <1>1 DEF Reload, Return
  <2>2. LoaderInv(st.plan, st.load, ldr') /\ (ldr'.at = "off" <=> ldr.at = "off")
    BY <1>0, <2>1, AskKeeps DEF LoadInv
  <2>3. \A k \in Clients : req'[k] = req[k] \/ req'[k] = NoRequest
    BY <2>1 DEF IInv, LockInv
  <2>4. QED
    BY <2>1, <2>2, <2>3 DEF LoadInv, ClearInv
<1>2. CASE ClearService(c)
  <2>1. /\ queue # <<>> /\ c = Head(queue) /\ req[c].op = "clear_service" /\ ldr' = ldr
    BY <1>2 DEF ClearService, Takes, Elsewhere
  <2>2. req[c] # NoRequest
    BY <2>1 DEF IInv, LockInv
  <2>3. ldr.at = "off"
    BY <2>1, <2>2 DEF LoadInv, ClearInv
  <2>4. QED
    BY <2>1, <2>3 DEF LoadInv, LoaderInv, Reporting, ClearInv
<1>3. CASE ~ Reload(c) /\ ~ ClearService(c)
  <2>1. ldr' = ldr /\ (req' = req \/ req' = [req EXCEPT ![Head(queue)] = NoRequest])
    BY <1>3, Zenon
       DEF Operation, StartNext, StartAt, Restart, Previous, NextSong, StopTimer, StopTimerAt,
           ApplyPosition, Reset, ReloadRefused, Select, Navigate, Reject, Return, Hold, Elsewhere
  <2>2. QED
    BY <1>3, <2>1, ActionsKeepPlan, LoadAlone
<1>4. QED
  BY <1>1, <1>2, <1>3

\* The steps of the refresh task.
LEMMA LoadRefresh ==
    ASSUME IInv, LoadInv, Refresh
    PROVE  LoadInv'
<1>0. /\ st \in State /\ ldr \in Loader /\ LoaderInv(st.plan, st.load, ldr)
      /\ ldr.prev \in Nat /\ ldr.cand \in Nat /\ ldr.day \in Nat /\ today \in Nat /\ today # 0
      /\ ldr.msg \in [status : LoadStatus, date : Nat, stale : BOOLEAN]
      /\ st.plan \in Plan0 /\ st.load.date \in Nat
  BY DEF IInv, ServiceInv, RefreshInv, LoadInv, Loader, Days, State, Plan0
<1>1. CASE AnnounceStop
  <2>1. /\ ldr.at = "announcing" /\ ldr' = [ldr EXCEPT !.at = "stopping"] /\ st' = st /\ req' = req
    BY <1>1 DEF AnnounceStop, LoaderOnly
  <2>2. /\ ldr'.at = "stopping" /\ ldr'.msg = ldr.msg /\ ldr'.then = ldr.then
        /\ ldr'.day = ldr.day /\ ldr'.prev = ldr.prev /\ ldr'.cand = ldr.cand
    BY <1>0, <2>1 DEF Loader
  <2>3. LoaderInv(st.plan, st.load, ldr')
    BY <1>0, <2>1, <2>2 DEF LoaderInv, Reporting, ReadyToFetch
  <2>4. QED
    BY <2>1, <2>3, LoaderMoves
<1>2. CASE Announce
  <2>1. /\ Reporting(ldr) /\ st' = LoadChanged(st, ldr.msg) /\ req' = req
        /\ ldr' = [ldr EXCEPT !.at = ldr.then, !.msg = NoLoad]
    BY <1>2 DEF Announce, Reporting
  <2>2. st'.plan = PlanAfter(st.plan, ldr.msg) /\ st'.load = ldr.msg
    BY <1>0, <2>1, LoadChangedPlan
  <2>3. /\ ldr'.at = ldr.then /\ ldr'.day = ldr.day /\ ldr'.prev = ldr.prev
        /\ ldr'.cand = ldr.cand
    BY <1>0, <2>1 DEF Loader
  <2>4. LoaderInv(st'.plan, st'.load, ldr')
    BY <1>0, <2>1, <2>2, <2>3 DEF LoaderInv, Reporting, ReadyToFetch
  <2>5. ldr.at # "off"
    BY <2>1 DEF Reporting
  <2>6. QED
    BY <2>1, <2>4, <2>5, LoaderMoves
<1>3. CASE RefreshOnce
  <2> DEFINE prev == ActionableDate(st, today)
             cand == IF st.load.status = "ambiguous" /\ st.load.date >= today
                       THEN st.load.date ELSE 0
             l == [ldr EXCEPT !.again = FALSE, !.day = today, !.found = NoPlan,
                              !.prev = prev, !.cand = cand]
             msg == LoadMsg("loading", RetainedDate(l), l.prev # 0)
  <2>1. /\ ldr.at = "looping" /\ ldr' = Announcing(l, msg, "fetching") /\ st' = st /\ req' = req
    BY <1>3 DEF RefreshOnce, LoaderOnly
  <2>2. /\ prev \in Nat /\ (prev = 0 => st.plan = NoPlan \/ st.plan.date < today)
        /\ prev # 0 => st.plan # NoPlan /\ st.plan.date = prev
    BY <1>0, PlansAssumption DEF ActionableDate, Plan0
  <2>3. cand \in Nat /\ (cand = 0 \/ cand >= today)
    BY <1>0
  <2> HIDE DEF prev, cand
  <2>4. l \in Loader /\ l.prev = prev /\ l.cand = cand /\ l.day = today
    BY <1>0, <2>2, <2>3 DEF Loader, Plan0
  <2> HIDE DEF l
  <2>5. /\ msg.status = "loading" /\ msg.date = RetainedDate(l)
    OBVIOUS
  <2> HIDE DEF msg
  <2>6. ReadyToFetch(PlanAfter(st.plan, msg), l)
    <3>1. CASE prev = 0
      <4>1. msg.date >= today
        BY <1>0, <2>3, <2>4, <2>5, <3>1 DEF RetainedDate
      <4>2. PlanAfter(st.plan, msg) = NoPlan
        BY <1>0, <2>2, <3>1, <4>1, PlansAssumption DEF PlanAfter, Plan0
      <4>3. QED
        BY <1>0, <2>3, <2>4, <3>1, <4>2 DEF ReadyToFetch
    <3>2. CASE prev # 0
      <4>1. msg.date = st.plan.date /\ PlanAfter(st.plan, msg) = st.plan
        BY <2>2, <2>4, <2>5, <3>2 DEF RetainedDate, PlanAfter
      <4>2. QED
        BY <1>0, <2>2, <2>3, <2>4, <3>2, <4>1 DEF ReadyToFetch
    <3>3. QED
      BY <3>1, <3>2
  <2>7. /\ ldr'.at = "announcing" /\ ldr'.msg = msg /\ ldr'.then = "fetching"
        /\ ldr'.day = l.day /\ ldr'.prev = l.prev /\ ldr'.cand = l.cand
    BY <2>1, <2>4, AnnouncingFields
  <2>8. LoaderInv(st.plan, st.load, ldr')
    BY <2>6, <2>7 DEF LoaderInv, Reporting, ReadyToFetch
  <2>9. QED
    BY <2>1, <2>8, LoaderMoves
<1>4. CASE RefreshEnds
  <2>1. ldr.at = "looping" /\ ~ ldr.again /\ ldr' = IdleLoader /\ st' = st /\ req' = req
    BY <1>4 DEF RefreshEnds, LoaderOnly
  <2>2. ldr'.at = "idle" /\ Describes(st.plan, st.load)
    BY <1>0, <2>1 DEF IdleLoader, LoaderInv
  <2>3. LoaderInv(st.plan, st.load, ldr')
    BY <2>2 DEF LoaderInv, Reporting
  <2>4. QED
    BY <2>1, <2>3, LoaderMoves
<1>5. ASSUME NEW msg, Fetched(msg), Describes(PlanAfter(st.plan, msg), msg)
      PROVE  LoadInv'
  <2>1. ldr.at = "fetching" /\ ldr' = Concluding(ldr, msg) /\ st' = st /\ req' = req
    BY <1>5 DEF Fetched, LoaderOnly
  <2>2. ldr'.at = "announcing" /\ ldr'.msg = msg /\ ldr'.then = "looping"
    BY <1>0, <2>1, ConcludingFields
  <2>3. LoaderInv(st.plan, st.load, ldr')
    BY <1>5, <2>2 DEF LoaderInv, Reporting
  <2>4. QED
    BY <2>1, <2>3, LoaderMoves
<1>6. ldr.at = "fetching" => ReadyToFetch(st.plan, ldr)
  BY <1>0 DEF LoaderInv
<1>7. ASSUME NEW p \in Plans, FoundPlan(p) PROVE LoadInv'
  <2> DEFINE l == [ldr EXCEPT !.found = p]
  <2>1. /\ l \in Loader /\ ldr.at = "fetching" /\ st' = st /\ req' = req
        /\ \/ ldr' = Announcing(l, LoadMsg("loading", p.date, FALSE), "projecting")
           \/ ldr' = [l EXCEPT !.at = "projecting"]
    BY <1>0, <1>7 DEF FoundPlan, Loader, LoaderOnly
  <2>2. CASE ldr' = Announcing(l, LoadMsg("loading", p.date, FALSE), "projecting")
    <3>1. ldr'.at = "announcing" /\ ldr'.then = "projecting"
      BY <2>1, <2>2, AnnouncingFields
    <3>2. LoaderInv(st.plan, st.load, ldr')
      BY <3>1 DEF LoaderInv, Reporting
    <3>3. QED
      BY <2>1, <3>2, LoaderMoves
  <2>3. CASE ldr' = [l EXCEPT !.at = "projecting"]
    <3>1. ldr'.at = "projecting"
      BY <2>1, <2>3 DEF Loader
    <3>2. LoaderInv(st.plan, st.load, ldr')
      BY <3>1 DEF LoaderInv, Reporting
    <3>3. QED
      BY <2>1, <3>2, LoaderMoves
  <2>4. QED
    BY <2>1, <2>2, <2>3
<1>8. CASE FoundNothing
  <2>1. PICK active \in BOOLEAN :
          Fetched(LoadMsg("not_found", IF ldr.prev # 0 /\ active THEN ldr.prev ELSE ldr.day,
                          ldr.prev # 0 /\ active))
    BY <1>8 DEF FoundNothing
  <2> DEFINE msg == LoadMsg("not_found", IF ldr.prev # 0 /\ active THEN ldr.prev ELSE ldr.day,
                            ldr.prev # 0 /\ active)
  <2>2. ReadyToFetch(st.plan, ldr)
    BY <1>6, <2>1 DEF Fetched
  <2>3. /\ msg.status = "not_found" /\ (msg.stale <=> ldr.prev # 0 /\ active)
        /\ msg.stale => msg.date = ldr.prev
    OBVIOUS
  <2> HIDE DEF msg
  <2>4. Describes(PlanAfter(st.plan, msg), msg)
    BY <2>2, <2>3 DEF ReadyToFetch, PlanAfter, Describes
  <2>5. QED
    BY <1>5, <2>1, <2>4 DEF msg
<1>9. CASE FoundSeveral
  <2>1. PICK d \in ldr.day .. MaxDay : Fetched(LoadMsg("ambiguous", d, d = ldr.prev))
    BY <1>9 DEF FoundSeveral
  <2> DEFINE msg == LoadMsg("ambiguous", d, d = ldr.prev)
  <2>2. ReadyToFetch(st.plan, ldr) /\ d \in Nat /\ d # 0
    BY <1>0, <1>6, <2>1, MaxDayAssumption DEF Fetched, ReadyToFetch
  <2>3. msg.status = "ambiguous" /\ msg.date = d /\ (msg.stale <=> d = ldr.prev)
    OBVIOUS
  <2> HIDE DEF msg
  <2>4. Describes(PlanAfter(st.plan, msg), msg)
    BY <2>2, <2>3 DEF ReadyToFetch, PlanAfter, Describes
  <2>5. QED
    BY <1>5, <2>1, <2>4 DEF msg
<1>10. Failures(ldr) \subseteq {"error", "ambiguous"}
  BY DEF Failures
<1>11. CASE FetchFails
  <2>1. PICK status \in Failures(ldr) : Fetched(LoadMsg(status, RetainedDate(ldr), ldr.prev # 0))
    BY <1>11 DEF FetchFails
  <2> DEFINE msg == LoadMsg(status, RetainedDate(ldr), ldr.prev # 0)
  <2>2. ReadyToFetch(st.plan, ldr)
    BY <1>6, <2>1 DEF Fetched
  <2>3. /\ msg.status \in {"error", "ambiguous"} /\ (msg.stale <=> ldr.prev # 0)
        /\ ldr.prev # 0 => msg.date = ldr.prev
    BY <1>10 DEF RetainedDate
  <2> HIDE DEF msg
  <2>4. Describes(PlanAfter(st.plan, msg), msg)
    BY <2>2, <2>3 DEF ReadyToFetch, PlanAfter, Describes
  <2>5. QED
    BY <1>5, <2>1, <2>4 DEF msg
<1>12. CASE FetchSuperseded
  <2>1. /\ ldr.at = "fetching" /\ ldr' = [IdleLoader EXCEPT !.at = "looping", !.again = TRUE]
        /\ st' = st /\ req' = req
    BY <1>12 DEF FetchSuperseded, LoaderOnly
  <2>2. ldr'.at = "looping" /\ ldr'.again = TRUE
    BY <2>1 DEF IdleLoader
  <2>3. LoaderInv(st.plan, st.load, ldr')
    BY <2>2 DEF LoaderInv, Reporting
  <2>4. QED
    BY <2>1, <2>3, LoaderMoves
<1>13. CASE ProjectPlan
  <2>1. /\ ldr.at = "projecting" /\ ldr.found \in Plans /\ req' = req
        /\ pending' = FollowPending(st, pending, ldr.found)
        /\ st' = LoadPlan(st, pending', ldr.found)
    BY <1>13 DEF ProjectPlan, IInv, RefreshInv
  <2>2. st'.plan = ldr.found /\ ldr.found # NoPlan
    <3>1. pending \in Nat /\ pending' \in Nat
      BY <1>0, <2>1, FollowPendingLemma DEF IInv, ServiceInv
    <3>2. QED
      BY <1>0, <2>1, <3>1, LoadPlanLemma, PlansAssumption
  <2>3. PICK msg : /\ ldr' = Concluding(ldr, msg) /\ msg.date = ldr.found.date
                   /\ msg.status # "not_found" /\ (msg.stale <=> msg.status # "loaded")
    <3>1. CASE ldr' = Concluding(ldr, LoadMsg("loaded", ldr.found.date, FALSE))
      BY <3>1
    <3>2. ASSUME NEW status \in Failures(ldr),
                 ldr' = Concluding(ldr, LoadMsg(status, ldr.found.date, TRUE))
          PROVE  \E msg : /\ ldr' = Concluding(ldr, msg) /\ msg.date = ldr.found.date
                          /\ msg.status # "not_found" /\ (msg.stale <=> msg.status # "loaded")
      BY <1>10, <3>2
    <3>3. QED
      BY <1>13, <3>1, <3>2 DEF ProjectPlan
  <2>4. Describes(PlanAfter(st'.plan, msg), msg)
    BY <2>2, <2>3 DEF PlanAfter, Describes
  <2>5. ldr'.at = "announcing" /\ ldr'.msg = msg /\ ldr'.then = "looping"
    BY <1>0, <2>3, ConcludingFields
  <2>6. LoaderInv(st'.plan, st'.load, ldr')
    BY <2>4, <2>5 DEF LoaderInv, Reporting
  <2>7. QED
    BY <2>1, <2>6, LoaderMoves
<1>14. QED
  BY <1>1, <1>2, <1>3, <1>4, <1>7, <1>8, <1>9, <1>11, <1>12, <1>13 DEF Refresh

\* The plugin's start and stop, and a request to refresh.
LEMMA LoadOther ==
    ASSUME IInv, LoadInv, RequestRefresh \/ LoaderStart \/ LoaderStop \/ Midnight
    PROVE  LoadInv'
<1>0. /\ st \in State /\ ldr \in Loader /\ LoaderInv(st.plan, st.load, ldr)
  BY DEF IInv, ServiceInv, RefreshInv, LoadInv
<1>1. CASE RequestRefresh
  <2>1. ldr.at # "off" /\ ldr' = AskRefresh(ldr) /\ st' = st /\ req' = req
    BY <1>1 DEF RequestRefresh, LoaderOnly
  <2>2. QED
    BY <1>0, <2>1, AskKeeps, LoaderMoves
<1>2. CASE LoaderStart
  <2> DEFINE l == [OffLoader EXCEPT !.again = TRUE]
  <2>1. /\ \A c \in Clients : req[c] # NoRequest => req[c].op # "clear_service"
        /\ req' = req /\ l \in Loader
    BY <1>2, LoaderStates DEF LoaderStart, LoaderOK, Loader
  <2>2. CASE cache # NoPlan /\ cache.date >= today
    <3>1. /\ cache \in Plans /\ pending' = FollowPending(st, pending, cache)
          /\ st' = LoadPlan(st, pending', cache)
          /\ ldr' = Announcing(l, LoadMsg("loading", cache.date, TRUE), "looping")
      BY <1>2, <2>2 DEF LoaderStart, IInv, RefreshInv, Plan0
    <3>2. pending \in Nat /\ pending' \in Nat
      BY <1>0, <3>1, FollowPendingLemma DEF IInv, ServiceInv
    <3>3. st'.plan = cache
      BY <1>0, <3>1, <3>2, LoadPlanLemma
    <3>4. /\ ldr'.at = "announcing" /\ ldr'.then = "looping"
          /\ ldr'.msg = LoadMsg("loading", cache.date, TRUE)
      BY <2>1, <3>1, AnnouncingFields
    <3>5. LoaderInv(st'.plan, st'.load, ldr')
      BY <2>2, <3>3, <3>4 DEF LoaderInv, Reporting, PlanAfter, Describes
    <3>6. QED
      BY <2>1, <3>5 DEF LoadInv, ClearInv
  <2>3. CASE ~ (cache # NoPlan /\ cache.date >= today)
    <3>1. ldr' = [l EXCEPT !.at = "looping"] /\ st' = st
      BY <1>2, <2>3 DEF LoaderStart
    <3>2. ldr'.at = "looping" /\ ldr'.again = TRUE
      BY <3>1 DEF OffLoader, IdleLoader
    <3>3. LoaderInv(st'.plan, st'.load, ldr')
      BY <3>2 DEF LoaderInv, Reporting
    <3>4. QED
      BY <2>1, <3>3 DEF LoadInv, ClearInv
  <2>4. QED
    BY <2>2, <2>3
<1>3. CASE LoaderStop
  <2>1. ldr'.at = "off"
    BY <1>3 DEF LoaderStop, OffLoader, IdleLoader
  <2>2. QED
    BY <2>1 DEF LoadInv, LoaderInv, Reporting, ClearInv
<1>4. CASE Midnight
  BY <1>4, LoadAlone DEF Midnight
<1>5. QED
  BY <1>1, <1>2, <1>3, <1>4

\* Every step keeps what is known of the load state.
LEMMA NextLoadInv == IInv /\ LoadInv /\ [Next]_vars => LoadInv'
<1> SUFFICES ASSUME IInv, LoadInv, [Next]_vars PROVE LoadInv'
  OBVIOUS
<1>1. ASSUME NEW c \in Clients, NEW r \in Calls, Call(c, r) PROVE LoadInv'
  <2>1. /\ req' = [req EXCEPT ![c] = r] /\ st' = st /\ ldr' = ldr
        /\ r.op = "clear_service" => ldr.at = "off"
    BY <1>1 DEF Call
  <2>2. req'[c] = r /\ \A k \in Clients \ {c} : req'[k] = req[k]
    BY <2>1 DEF IInv, LockInv
  <2>3. QED
    BY <2>1, <2>2 DEF LoadInv, ClearInv
<1>2. CASE Continuation
  <2>1. ldr' = ldr /\ (req' = req \/ req' = [req EXCEPT ![Head(queue)] = NoRequest])
    BY <1>2, Zenon
       DEF Continuation, StartUntimed, StartTimed, Navigated, StopConsumers, ResetDone,
           CommandDone, Return, Hold, Elsewhere
  <2>2. QED
    BY <1>2, <2>1, ActionsKeepPlan, LoadAlone
<1>3. CASE Output \/ ClearTimer
  <2>1. ldr' = ldr /\ req' = req
    BY <1>3, Zenon
       DEF Output, ReportStarted, ReportStopped, ReportFailed, Silent, Answer, ClearTimer
  <2>2. QED
    BY <1>3, <2>1, ActionsKeepPlan, LoadAlone
<1>4. CASE UNCHANGED vars
  BY <1>4, LoadAlone DEF vars
<1>5. QED
  BY <1>1, <1>2, <1>3, <1>4, LoadOperation, LoadRefresh, LoadOther DEF Next

\* Once no refresh is under way, the load state on show describes the plan on show, whatever
\* the refresh found, whatever failed or superseded it, and whatever the operator did
\* meanwhile (state_service.py, _handle_service_load_changed).
THEOREM LoadAlwaysDescribesPlan == Spec => []LoadDescribesPlan
<1>1. Init => LoadInv
  BY DEF Init, LoadInv, LoaderInv, Reporting, ClearInv, OffLoader, IdleLoader
<1>2. LoadInv => LoadDescribesPlan
  BY DEF LoadInv, LoaderInv, Describes, LoadDescribesPlan
<1>3. QED
  BY <1>1, <1>2, Invariance, NextLoadInv, PTL DEF Spec
=============================================================================
