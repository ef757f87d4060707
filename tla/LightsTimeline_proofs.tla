------------------------ MODULE LightsTimeline_proofs ------------------------
(* Proofs about LightsTimeline.  A coroutine runs on through several operators *)
(* before it is suspended: they are proved one by one to take a plugin that is *)
(* good but for that coroutine (Ready) to a good one, and the steps follow.    *)
EXTENDS LightsTimeline, FiniteSetTheorems, TLAPS

\* Suspended inside the lock.
Holding == {"closing", "opening", "failing"}

\* The holder of the lock is at its head and has closed the outputs.
HoldsLock(s, v) == s.lock # <<>> /\ Head(s.lock) = v /\ s.outputs = {}

OutputsOK(s) == s.outputs = {} \/ \E m \in {"midi", "osc"} : s.outputs = {m}

\* Whoever goes on to assign or to use settings has some.
NeedsSettings(r) == \/ r.at \in {"probing", "opening"}
                    \/ r.at \in {"waiting", "closing"} /\ r.job \notin {"reopen", "close"}
                    \/ r.job = "save"

WorkerOK(r) == /\ NeedsSettings(r) => r.with \in Settings
               /\ r.at = "idle" => r.job = "none"
               /\ r.at = "cancelling" => r.job \in {"begin", "cancel", "save"}
               /\ r.at \in {"probing", "opening", "failing"} => r.job # "save"

\* Types; no two outputs; no timeline without its handle; the coroutines in order, and
\* nothing running while one is to start a timeline.  Good but for the coroutine w: ...
GoodBut(s, w) ==
    /\ s \in Plugin
    /\ OutputsOK(s)
    /\ Running(s) \subseteq {s.task}
    /\ \A v \in Workers \ {w} : /\ WorkerOK(s.work[v])
                                /\ s.work[v].at \in Holding => HoldsLock(s, v)
                                /\ s.work[v].job = "begin" => Running(s) = {}

\* ... and for all of them.
Good(s) ==
    /\ s \in Plugin
    /\ OutputsOK(s)
    /\ Running(s) \subseteq {s.task}
    /\ \A v \in Workers : /\ WorkerOK(s.work[v])
                          /\ s.work[v].at \in Holding => HoldsLock(s, v)
                          /\ s.work[v].job = "begin" => Running(s) = {}

\* w may run on.
Ready(s, w) == GoodBut(s, w) /\ (s.work[w].job = "begin" => Running(s) = {})

\* From s to t only w moved; it did not become the start of a timeline, and only
\* such a start touched the timelines.
Moved(s, t, w) == /\ \A v \in Workers \ {w} : t.work[v] = s.work[v]
                  /\ t.work[w].job \in {s.work[w].job, "none", "check"}
                  /\ s.work[w].job = "begin" \/ t.timelines = s.timelines

\* A coroutine that has ended owes nothing.
LEMMA IdleWorker == Idle \in Worker /\ WorkerOK(Idle) /\ Idle.at = "idle" /\ Idle.job = "none"
  BY DEF Idle, Worker, WorkerOK, NeedsSettings

\* Whoever queues up leaves the holder of the lock where it is.
LEMMA AppendKeepsHead ==
    ASSUME NEW q \in Seq(Workers), NEW w \in Workers
    PROVE  /\ Append(q, w) \in Seq(Workers) /\ Append(q, w) # <<>>
           /\ q # <<>> => Head(Append(q, w)) = Head(q)
<1>1. Append(q, w) \in Seq(Workers)
  OBVIOUS
<1>2. Len(Append(q, w)) = Len(q) + 1 /\ Len(q) \in Nat
  OBVIOUS
<1>3. Append(q, w) # <<>>
  BY <1>2
<1>4. ASSUME q # <<>>
      PROVE  Head(Append(q, w)) = Head(q)
  <2>1. Len(q) > 0
    BY <1>2, <1>4
  <2>2. Append(q, w)[1] = q[1]
    BY <2>1
  <2>3. QED
    BY <1>1, <1>3, <1>4, <2>2
<1>5. QED
  BY <1>1, <1>3, <1>4

-----------------------------------------------------------------------------
(* What w may change before it is suspended again *)

\* The connection, ...
LEMMA ReadyChange ==
    ASSUME NEW s, NEW w \in Workers, Ready(s, w), NEW t \in Plugin, OutputsOK(t),
           t.timelines = s.timelines, t.task = s.task, t.work = s.work,
           \A v \in Workers \ {w} : s.work[v].at \in Holding => HoldsLock(t, v)
    PROVE  Ready(t, w)
<1>1. Running(t) = Running(s)
  BY DEF Running
<1>2. QED
  BY <1>1 DEF Ready, GoodBut

\* s with another record for w.
WithWork(s, w, r) == [s EXCEPT !.work[w] = r]

\* ... and its own record, ...
LEMMA ReadyWith ==
    ASSUME NEW s, NEW w \in Workers, Ready(s, w), NEW r \in Worker,
           r.job = "begin" => s.work[w].job = "begin",
           NEW t, t = WithWork(s, w, r)
    PROVE  /\ Ready(t, w) /\ t.work[w] = r /\ \A v \in Workers \ {w} : t.work[v] = s.work[v]
           /\ t.lock = s.lock /\ t.outputs = s.outputs /\ t.settings = s.settings
           /\ t.timelines = s.timelines /\ t.task = s.task
<1>1. s \in Plugin
  BY DEF Ready, GoodBut
<1>2. t \in Plugin
  BY <1>1 DEF WithWork, Plugin
<1>3. /\ t.work[w] = r /\ \A v \in Workers \ {w} : t.work[v] = s.work[v]
      /\ t.lock = s.lock /\ t.outputs = s.outputs /\ t.settings = s.settings
      /\ t.timelines = s.timelines /\ t.task = s.task
  BY <1>1 DEF WithWork, Plugin
<1>4. Running(t) = Running(s)
  BY <1>3 DEF Running
<1>5. Ready(t, w)
  BY <1>2, <1>3, <1>4 DEF Ready, GoodBut, OutputsOK, HoldsLock
<1>6. QED
  BY <1>3, <1>5

\* ... after which it is suspended in order.
LEMMA Settled ==
    ASSUME NEW s, NEW w \in Workers, Ready(s, w), WorkerOK(s.work[w]),
           s.work[w].at \in Holding => HoldsLock(s, w)
    PROVE  Good(s)
  BY DEF Good, Ready, GoodBut

\* The coroutine ends.
LEMMA FinishGood ==
    ASSUME NEW s, NEW w \in Workers, Ready(s, w)
    PROVE  Good(Finish(s, w)) /\ Moved(s, Finish(s, w), w)
<1>0. Finish(s, w) = WithWork(s, w, Idle)
  BY DEF Finish, WithWork
<1>1. /\ Ready(Finish(s, w), w) /\ Finish(s, w).work[w] = Idle
      /\ \A v \in Workers \ {w} : Finish(s, w).work[v] = s.work[v]
      /\ Finish(s, w).timelines = s.timelines
  BY <1>0, IdleWorker, ReadyWith
<1>2. "idle" \notin Holding
  BY DEF Holding
<1>3. QED
  BY <1>1, <1>2, IdleWorker, Settled DEF Moved

\* It reaches its next await.
LEMMA AwaitGood ==
    ASSUME NEW s, NEW w \in Workers, Ready(s, w),
           NEW a \in {"probing", "waiting", "closing", "opening", "failing", "opened", "closed"},
           a \in Holding => HoldsLock(s, w),
           \/ s.work[w].with \in Settings
           \/ s.work[w].job \in {"reopen", "close"} /\ a \notin {"probing", "opening"}
           \/ s.work[w].job # "save" /\ a \in {"opened", "closed"},
           a \in {"probing", "opening", "failing"} => s.work[w].job # "save"
    PROVE  Good(AwaitAt(s, w, a)) /\ Moved(s, AwaitAt(s, w, a), w)
<1> DEFINE r == [s.work[w] EXCEPT !.at = a]
           t == AwaitAt(s, w, a)
<1>1. s \in Plugin /\ s.work[w] \in Worker
  BY DEF Ready, GoodBut, Plugin
<1>2. r \in Worker /\ r.at = a /\ r.job = s.work[w].job /\ r.with = s.work[w].with
  BY <1>1 DEF Worker
<1>3. WorkerOK(r)
  BY <1>2 DEF WorkerOK, NeedsSettings
<1>4. t = WithWork(s, w, r)
  BY <1>1 DEF AwaitAt, WithWork, Plugin
<1> HIDE DEF r, t
<1>5. /\ Ready(t, w) /\ t.work[w] = r /\ t.lock = s.lock /\ t.outputs = s.outputs
      /\ t.timelines = s.timelines
      /\ \A v \in Workers \ {w} : t.work[v] = s.work[v]
  BY <1>2, <1>4, ReadyWith
<1>6. HoldsLock(s, w) => HoldsLock(t, w)
  BY <1>5 DEF HoldsLock
<1>7. Good(t) /\ Moved(s, t, w)
  BY <1>2, <1>3, <1>5, <1>6, Settled DEF Moved
<1>8. QED
  BY <1>7 DEF t

-----------------------------------------------------------------------------
(* The lock and the connection *)

\* The coroutine w holds the lock, or none does: the others are out of it.
LEMMA OthersOut ==
    ASSUME NEW s, NEW w \in Workers, GoodBut(s, w), s.lock = <<>> \/ Head(s.lock) = w
    PROVE  \A v \in Workers \ {w} : s.work[v].at \notin Holding
  BY DEF GoodBut, HoldsLock

\* The coroutine w holds the lock.
AtHead(s, w) == s.lock # <<>> /\ Head(s.lock) = w

\* It has settings to go on with, or needs none.
Usable(r) == r.with \in Settings \/ r.job \in {"reopen", "close"}

\* _close_port_locked, under the lock.
LEMMA ClosingGood ==
    ASSUME NEW s, NEW w \in Workers, Ready(s, w), Usable(s.work[w]), AtHead(s, w)
    PROVE  Good(Closing(s, w)) /\ Moved(s, Closing(s, w), w)
<1> DEFINE t == [s EXCEPT !.outputs = {}]
<1>1. s \in Plugin /\ \A v \in Workers \ {w} : s.work[v].at \notin Holding
  BY OthersOut DEF Ready, GoodBut, AtHead
<1>2. /\ t \in Plugin /\ t.timelines = s.timelines /\ t.task = s.task /\ t.work = s.work
      /\ t.lock = s.lock /\ t.outputs = {}
  BY <1>1 DEF Plugin
<1>3. Closing(s, w) = AwaitAt(t, w, "closing")
  BY DEF Closing
<1> HIDE DEF t
<1>4. Ready(t, w)
  BY <1>1, <1>2, ReadyChange DEF OutputsOK
<1>5. HoldsLock(t, w)
  BY <1>2 DEF HoldsLock, AtHead
<1>6. Good(AwaitAt(t, w, "closing")) /\ Moved(t, AwaitAt(t, w, "closing"), w)
  BY <1>2, <1>4, <1>5, AwaitGood DEF Usable
<1>7. QED
  BY <1>2, <1>3, <1>6 DEF Moved

\* The lock block of a connection.
LEMMA OpensGood ==
    ASSUME NEW s, NEW w \in Workers, Ready(s, w), s.work[w].with \in Settings,
           s.work[w].job # "save", AtHead(s, w)
    PROVE  Good(Opens(s, w)) /\ Moved(s, Opens(s, w), w)
<1>1. CASE s.outputs = {}
  BY <1>1, AwaitGood DEF Opens, AtHead, HoldsLock
<1>2. CASE s.outputs # {}
  BY <1>2, ClosingGood DEF Opens, Usable
<1>3. QED
  BY <1>1, <1>2

\* Waiting for the lock.
LEMMA QueuesGood ==
    ASSUME NEW s, NEW w \in Workers, Ready(s, w), Usable(s.work[w])
    PROVE  Good(Queues(s, w)) /\ Moved(s, Queues(s, w), w)
<1> DEFINE t == [s EXCEPT !.lock = Append(@, w)]
<1>1. s \in Plugin /\ OutputsOK(s)
  BY DEF Ready, GoodBut
<1>2. s.lock \in Seq(Workers)
  BY <1>1 DEF Plugin
<1>3. /\ Append(s.lock, w) \in Seq(Workers) /\ Append(s.lock, w) # <<>>
      /\ s.lock # <<>> => Head(Append(s.lock, w)) = Head(s.lock)
  BY <1>2, AppendKeepsHead
<1>4. /\ t \in Plugin /\ t.timelines = s.timelines /\ t.task = s.task /\ t.work = s.work
      /\ t.lock = Append(s.lock, w) /\ t.outputs = s.outputs
  BY <1>1, <1>3 DEF Plugin
<1>5. Queues(s, w) = AwaitAt(t, w, "waiting")
  BY DEF Queues
<1> HIDE DEF t
<1>6. \A v \in Workers \ {w} : s.work[v].at \in Holding => HoldsLock(t, v)
  BY <1>3, <1>4 DEF Ready, GoodBut, HoldsLock
<1>7. Ready(t, w)
  BY <1>1, <1>4, <1>6, ReadyChange DEF OutputsOK
<1>8. "waiting" \notin Holding
  BY DEF Holding
<1>9. Good(AwaitAt(t, w, "waiting")) /\ Moved(t, AwaitAt(t, w, "waiting"), w)
  BY <1>4, <1>7, <1>8, AwaitGood DEF Usable
<1>10. QED
  BY <1>4, <1>5, <1>9 DEF Moved

\* A free lock is taken.
LEMMA HoldsReady ==
    ASSUME NEW s, NEW w \in Workers, Ready(s, w), s.lock = <<>>
    PROVE  /\ Ready(Holds(s, w), w) /\ AtHead(Holds(s, w), w)
           /\ Holds(s, w).work = s.work /\ Holds(s, w).outputs = s.outputs
           /\ Holds(s, w).timelines = s.timelines
<1>1. s \in Plugin /\ OutputsOK(s) /\ \A v \in Workers \ {w} : s.work[v].at \notin Holding
  BY OthersOut DEF Ready, GoodBut
<1>2. <<w>> \in Seq(Workers) /\ <<w>> # <<>> /\ Head(<<w>>) = w
  OBVIOUS
<1>3. /\ Holds(s, w) \in Plugin
      /\ Holds(s, w).lock = <<w>> /\ Holds(s, w).work = s.work /\ Holds(s, w).task = s.task
      /\ Holds(s, w).outputs = s.outputs /\ Holds(s, w).timelines = s.timelines
  BY <1>1, <1>2 DEF Holds, Plugin
<1>4. Ready(Holds(s, w), w)
  BY <1>1, <1>3, ReadyChange DEF OutputsOK
<1>5. QED
  BY <1>2, <1>3, <1>4 DEF AtHead

\* The holder lets go of the lock.
LEMMA ReleaseReady ==
    ASSUME NEW s, NEW w \in Workers, Ready(s, w), AtHead(s, w)
    PROVE  /\ Ready(Release(s), w) /\ Release(s).work = s.work /\ Release(s).outputs = s.outputs
           /\ Release(s).settings = s.settings /\ Release(s).timelines = s.timelines
<1>1. s \in Plugin /\ OutputsOK(s) /\ \A v \in Workers \ {w} : s.work[v].at \notin Holding
  BY OthersOut DEF Ready, GoodBut, AtHead
<1>2. s.lock \in Seq(Workers)
  BY <1>1 DEF Plugin
<1>3. Tail(s.lock) \in Seq(Workers)
  BY <1>2 DEF AtHead
<1>4. /\ Release(s) \in Plugin /\ Release(s).work = s.work /\ Release(s).task = s.task
      /\ Release(s).outputs = s.outputs /\ Release(s).timelines = s.timelines
      /\ Release(s).settings = s.settings
  BY <1>1, <1>3 DEF Release, Plugin
<1>5. Ready(Release(s), w)
  BY <1>1, <1>4, ReadyChange DEF OutputsOK
<1>6. QED
  BY <1>4, <1>5

\* A connection takes the lock or waits for it.
LEMMA TakesToOpenGood ==
    ASSUME NEW s, NEW w \in Workers, Ready(s, w), s.work[w].with \in Settings,
           s.work[w].job # "save"
    PROVE  Good(TakesToOpen(s, w)) /\ Moved(s, TakesToOpen(s, w), w)
<1>1. CASE s.lock = <<>>
  <2>1. Good(TakesToOpen(s, w)) /\ Moved(Holds(s, w), TakesToOpen(s, w), w)
    BY <1>1, HoldsReady, OpensGood DEF TakesToOpen
  <2>2. QED
    BY <1>1, <2>1, HoldsReady DEF Moved
<1>2. CASE s.lock # <<>>
  BY <1>2, QueuesGood DEF TakesToOpen, Usable
<1>3. QED
  BY <1>1, <1>2

\* _connect up to its first suspension.
LEMMA ConnectGood ==
    ASSUME NEW s, NEW w \in Workers, Ready(s, w), s.work[w].job # "save"
    PROVE  Good(Connect(s, w)) /\ Moved(s, Connect(s, w), w)
<1> DEFINE c == [s EXCEPT !.work[w].with = s.settings]
           r == [s.work[w] EXCEPT !.with = s.settings]
<1>1. s \in Plugin /\ s.settings \in Settings /\ s.work[w] \in Worker
  BY DEF Ready, GoodBut, Plugin
<1>2. r \in Worker /\ r.job = s.work[w].job /\ r.with = s.settings
  BY <1>1 DEF Worker
<1>3. c = WithWork(s, w, r)
  BY <1>1 DEF WithWork, Plugin
<1>4. Connect(s, w) = IF ~ s.settings.enabled THEN Finish(s, w)
                      ELSE IF s.settings.method = "midi" THEN AwaitAt(c, w, "probing")
                      ELSE TakesToOpen(c, w)
  BY DEF Connect
<1> HIDE DEF c, r
<1>5. /\ Ready(c, w) /\ c.work[w] = r /\ c.timelines = s.timelines
      /\ \A v \in Workers \ {w} : c.work[v] = s.work[v]
  BY <1>2, <1>3, ReadyWith
<1>6. "probing" \notin Holding
  BY DEF Holding
<1>7. Good(AwaitAt(c, w, "probing")) /\ Moved(c, AwaitAt(c, w, "probing"), w)
  BY <1>1, <1>2, <1>5, <1>6, AwaitGood
<1>8. Good(TakesToOpen(c, w)) /\ Moved(c, TakesToOpen(c, w), w)
  BY <1>1, <1>2, <1>5, TakesToOpenGood
<1>9. QED
  BY <1>2, <1>4, <1>5, <1>7, <1>8, FinishGood DEF Moved

-----------------------------------------------------------------------------
(* What follows the lock, and the timelines *)

\* The outputs are closed under the lock of w.
LEMMA ClosedGood ==
    ASSUME NEW s, NEW w \in Workers, Ready(s, w), AtHead(s, w), s.outputs = {},
           s.work[w].with \in Settings \/ s.work[w].job \in {"reopen", "close"}
    PROVE  Good(Closed(s, w)) /\ Moved(s, Closed(s, w), w)
<1>1. /\ Ready(Release(s), w) /\ Release(s).work = s.work /\ Release(s).outputs = s.outputs
      /\ Release(s).settings = s.settings /\ Release(s).timelines = s.timelines
  BY ReleaseReady
<1>2. CASE s.work[w].job = "save"
  <2> DEFINE u == [Release(s) EXCEPT !.settings = s.work[w].with]
             r == [s.work[w] EXCEPT !.job = "check"]
             t == [Release(s) EXCEPT !.settings = s.work[w].with, !.work[w].job = "check"]
  <2>1. Release(s) \in Plugin /\ s.work[w] \in Worker /\ s.work[w].with \in Settings
    BY <1>1, <1>2 DEF Ready, GoodBut, Plugin
  <2>2. r \in Worker /\ r.job = "check"
    BY <2>1 DEF Worker
  <2>3. /\ u \in Plugin /\ u.timelines = Release(s).timelines /\ u.task = Release(s).task
        /\ u.work = Release(s).work /\ u.outputs = Release(s).outputs
        /\ u.lock = Release(s).lock
    BY <2>1 DEF Plugin
  <2>4. t = WithWork(u, w, r)
    BY <1>1, <2>1 DEF WithWork, Plugin
  <2>5. Closed(s, w) = Connect(t, w)
    BY <1>2 DEF Closed
  <2> HIDE DEF u, r, t
  <2>6. Ready(u, w)
    BY <1>1, <2>3, ReadyChange DEF Ready, GoodBut, OutputsOK, HoldsLock
  <2>7. /\ Ready(t, w) /\ t.work[w] = r /\ t.timelines = s.timelines
        /\ \A v \in Workers \ {w} : t.work[v] = s.work[v]
    BY <1>1, <2>2, <2>3, <2>4, <2>6, ReadyWith
  <2>8. Good(Connect(t, w)) /\ Moved(t, Connect(t, w), w)
    BY <2>2, <2>7, ConnectGood
  <2>9. QED
    BY <2>2, <2>5, <2>7, <2>8 DEF Moved
<1>3. CASE s.work[w].job \in {"reopen", "close"}
  <2>1. "closed" \notin Holding
    BY DEF Holding
  <2>2. Closed(s, w) = AwaitAt(Release(s), w, "closed")
    BY <1>3 DEF Closed
  <2>3. Good(AwaitAt(Release(s), w, "closed")) /\ Moved(Release(s), AwaitAt(Release(s), w, "closed"), w)
    BY <1>1, <1>3, <2>1, AwaitGood
  <2>4. QED
    BY <1>1, <2>2, <2>3 DEF Moved
<1>4. CASE s.work[w].job \notin {"save", "reopen", "close"}
  <2>1. Closed(s, w) = AwaitAt(s, w, "opening")
    BY <1>4 DEF Closed
  <2>2. HoldsLock(s, w) /\ s.work[w].with \in Settings
    BY <1>4 DEF AtHead, HoldsLock
  <2>3. QED
    BY <1>4, <2>1, <2>2, AwaitGood
<1>5. QED
  BY <1>2, <1>3, <1>4

\* The lock was granted.
LEMMA EntersGood ==
    ASSUME NEW s, NEW w \in Workers, Ready(s, w), AtHead(s, w), Usable(s.work[w])
    PROVE  Good(Enters(s, w)) /\ Moved(s, Enters(s, w), w)
<1>1. CASE s.outputs = {}
  BY <1>1, ClosedGood DEF Enters, Usable
<1>2. CASE s.outputs # {}
  BY <1>2, ClosingGood DEF Enters
<1>3. QED
  BY <1>1, <1>2

\* The lock is taken or waited for.
LEMMA TakesGood ==
    ASSUME NEW s, NEW w \in Workers, Ready(s, w), Usable(s.work[w])
    PROVE  Good(Takes(s, w)) /\ Moved(s, Takes(s, w), w)
<1>1. CASE s.lock = <<>>
  <2>1. Good(Takes(s, w)) /\ Moved(Holds(s, w), Takes(s, w), w)
    BY <1>1, HoldsReady, EntersGood DEF Takes
  <2>2. QED
    BY <1>1, <2>1, HoldsReady DEF Moved
<1>2. CASE s.lock # <<>>
  BY <1>2, QueuesGood DEF Takes
<1>3. QED
  BY <1>1, <1>2

\* Nobody else is starting a timeline.
Alone(s, w) == \A v \in Workers \ {w} : s.work[v].job # "begin"

\* A handler that is alone in starting one starts its timeline.
LEMMA StartsGood ==
    ASSUME NEW s, NEW w \in Workers, Ready(s, w), s.work[w].job = "begin", Alone(s, w),
           NEW t \in Starts(s, w)
    PROVE  Good(t) /\ Moved(s, t, w)
<1> DEFINE f == Finish(s, w)
<1>1. Good(f) /\ Moved(s, f, w)
  BY FinishGood
<1>2. PICK i \in Spare(s) : t = [f EXCEPT !.timelines[i] = "running", !.task = i]
  BY DEF Starts
<1>3. i \in Timelines
  BY <1>2 DEF Spare
<1>4. f.timelines = s.timelines /\ f.work[w] = Idle
  BY DEF Finish, Ready, GoodBut, Plugin
<1> HIDE DEF f
<1>5. f \in Plugin
  BY <1>1 DEF Good
<1>6. /\ t \in Plugin /\ t.work = f.work /\ t.outputs = f.outputs /\ t.lock = f.lock
      /\ t.task = i /\ t.timelines = [f.timelines EXCEPT ![i] = "running"]
  BY <1>2, <1>3, <1>5 DEF Plugin
<1>7. Running(s) = {}
  BY DEF Ready
<1>8. Running(t) \subseteq {t.task}
  BY <1>3, <1>4, <1>6, <1>7 DEF Running
<1>9. \A v \in Workers : t.work[v].job # "begin"
  BY <1>1, <1>4, <1>6, IdleWorker DEF Alone, Moved
<1>10. Good(t)
  BY <1>1, <1>6, <1>8, <1>9 DEF Good, OutputsOK, HoldsLock
<1>11. QED
  BY <1>1, <1>6, <1>10 DEF Moved

\* A handler, or a save, that is about to go on after _cancel_timeline.
Handler(s, w) == /\ s.work[w].job \in {"begin", "cancel", "save"}
                 /\ s.work[w].job = "save" => s.work[w].with \in Settings
                 /\ s.work[w].job = "begin" => Alone(s, w)

\* What follows _cancel_timeline.
LEMMA ProceedsGood ==
    ASSUME NEW s, NEW w \in Workers, Ready(s, w), Handler(s, w), NEW t \in Proceeds(s, w)
    PROVE  Good(t) /\ Moved(s, t, w)
<1>1. CASE s.work[w].job = "cancel"
  BY <1>1, FinishGood DEF Proceeds
<1>2. CASE s.work[w].job = "save"
  BY <1>2, TakesGood DEF Proceeds, Handler, Usable
<1>3. CASE s.work[w].job = "begin"
  <2>1. t = Finish(s, w) \/ t \in Starts(s, w) \/ t = Connect(s, w)
    BY <1>3 DEF Proceeds
  <2>2. QED
    BY <1>3, <2>1, FinishGood, StartsGood, ConnectGood DEF Handler
<1>4. QED
  BY <1>1, <1>2, <1>3 DEF Handler

\* _cancel_timeline leaves nothing running, unless its handler goes on to start.
LEMMA CancelsGood ==
    ASSUME NEW s, NEW w \in Workers, GoodBut(s, w), Handler(s, w), NEW t \in Cancels(s, w)
    PROVE  /\ Good(t) /\ \A v \in Workers \ {w} : t.work[v] = s.work[v]
           /\ t.work[w].job \in {s.work[w].job, "none", "check"}
           /\ s.work[w].job = "begin" \/ Running(t) = {}
<1> DEFINE c == [s EXCEPT !.task = NoTimeline]
<1>1. s \in Plugin /\ Running(s) \subseteq {s.task} /\ s.work[w] \in Worker
  BY DEF GoodBut, Plugin
<1>2. /\ c \in Plugin /\ c.timelines = s.timelines /\ c.work = s.work /\ c.lock = s.lock
      /\ c.outputs = s.outputs /\ c.settings = s.settings /\ c.task = NoTimeline
  BY <1>1 DEF Plugin
<1>3. CASE s.task \in Running(s)
  <2> DEFINE r == [s.work[w] EXCEPT !.at = "cancelling", !.victim = s.task]
  <2>1. t = [c EXCEPT !.timelines[s.task] = "cancelling",
                      !.work[w].at = "cancelling", !.work[w].victim = s.task]
    BY <1>3 DEF Cancels
  <2>2. s.task \in Timelines
    BY <1>3 DEF Running
  <2>3. r \in Worker /\ r.at = "cancelling" /\ r.job = s.work[w].job /\ r.with = s.work[w].with
    BY <1>1, <2>2 DEF Worker
  <2>4. WorkerOK(r)
    BY <2>3 DEF WorkerOK, NeedsSettings, Handler
  <2> HIDE DEF c
  <2>5. /\ t.timelines = [s.timelines EXCEPT ![s.task] = "cancelling"] /\ t.task = NoTimeline
        /\ t.lock = s.lock /\ t.outputs = s.outputs /\ t.work = [s.work EXCEPT ![w] = r]
        /\ t \in Plugin
    BY <1>1, <1>2, <2>1, <2>2, <2>3 DEF Plugin
  <2>6. t.work[w] = r /\ \A v \in Workers \ {w} : t.work[v] = s.work[v]
    BY <1>1, <2>5 DEF Plugin
  <2> HIDE DEF r
  <2>7. Running(t) = {}
    BY <1>1, <2>2, <2>5 DEF Running, Plugin
  <2>8. "cancelling" \notin Holding
    BY DEF Holding
  <2>9. Good(t)
    BY <2>3, <2>4, <2>5, <2>6, <2>7, <2>8 DEF Good, GoodBut, OutputsOK, HoldsLock
  <2>10. QED
    BY <2>3, <2>6, <2>7, <2>9
<1>4. CASE s.task \notin Running(s)
  <2>1. t \in Proceeds(c, w)
    BY <1>4 DEF Cancels
  <2> HIDE DEF c
  <2>2. Running(s) = {} /\ Running(c) = {}
    BY <1>1, <1>2, <1>4 DEF Running
  <2>3. Ready(c, w) /\ Handler(c, w)
    BY <1>2, <2>2 DEF Ready, GoodBut, OutputsOK, HoldsLock, Handler, Alone
  <2>4. Good(t) /\ Moved(c, t, w)
    BY <2>1, <2>3, ProceedsGood
  <2>5. t.timelines = c.timelines => Running(t) = {}
    BY <2>2 DEF Running
  <2>6. QED
    BY <1>2, <2>4, <2>5 DEF Moved
<1>5. QED
  BY <1>3, <1>4

\* Every handler leaves a good plugin behind.
LEMMA HandlesGood ==
    ASSUME NEW s, Good(s), NEW w \in Workers, NEW job \in {"begin", "cancel", "save"},
           NEW with \in Settings \cup {NoSettings}, job = "save" => with \in Settings,
           job = "begin" => Alone(s, w), NEW t \in Handles(s, w, job, with)
    PROVE  /\ Good(t) /\ \A v \in Workers \ {w} : t.work[v] = s.work[v]
           /\ t.work[w].job \in {job, "none", "check"}
           /\ job = "begin" \/ Running(t) = {}
<1> DEFINE r == [Idle EXCEPT !.job = job, !.with = with]
           b == [s EXCEPT !.work[w] = r]
<1>1. s \in Plugin
  BY DEF Good
<1>2. r \in Worker /\ r.job = job /\ r.with = with
  BY DEF Idle, Worker
<1>3. t \in Cancels(b, w)
  BY DEF Handles
<1>4. /\ b \in Plugin /\ b.work[w] = r /\ \A v \in Workers \ {w} : b.work[v] = s.work[v]
      /\ b.lock = s.lock /\ b.outputs = s.outputs /\ b.timelines = s.timelines
      /\ b.task = s.task
  BY <1>1, <1>2 DEF Plugin
<1> HIDE DEF r, b
<1>5. Running(b) = Running(s)
  BY <1>4 DEF Running
<1>6. GoodBut(b, w)
  BY <1>4, <1>5 DEF Good, GoodBut, OutputsOK, HoldsLock
<1>7. Handler(b, w)
  BY <1>2, <1>4 DEF Handler, Alone
<1>8. QED
  BY <1>2, <1>3, <1>4, <1>6, <1>7, CancelsGood

-----------------------------------------------------------------------------
(* The steps *)

\* Who starts timelines: one handler of the action holder at a time, which for a song
\* is that of the report.
Publishing(s, d) ==
    /\ \A w \in Workers : s.work[w].job = "begin" => w \in {<<"action", "event">>, <<"action", "report">>}
    /\ \A p \in Publishers :
         /\ d[p] \in {"none", "song", "stop"}
         /\ d[p] = "song" => p = "action"
         /\ d[p] # "none" => s.work[<<p, "report">>].at = "idle"
         /\ s.work[<<p, "event">>].job = "begin" => /\ d[p] = "none"
                                                  /\ s.work[<<p, "report">>].job # "begin"

IInv == /\ Good(lights)
        /\ due \in [Publishers -> {"none", "song", "stop"}]
        /\ saved \in Settings
        /\ wanted \in BOOLEAN
        /\ Publishing(lights, due)

\* From s to t at most w moved, and it was not made the start of a timeline.
Kept(s, t, w) == /\ \A v \in Workers \ {w} : t.work[v] = s.work[v]
                 /\ t.work[w].job = "begin" => s.work[w].job = "begin"

\* A coroutine that moves without becoming a start of a timeline changes nothing in who starts.
LEMMA PublishingKept ==
    ASSUME NEW s, NEW d, Publishing(s, d), NEW t, NEW w \in Workers, Kept(s, t, w),
           s.work[w].at # "idle" \/ \A p \in Publishers : w # <<p, "report">>
    PROVE  Publishing(t, d)
<1>1. \A p \in Publishers : <<p, "event">> \in Workers /\ <<p, "report">> \in Workers
  BY DEF Workers
<1>2. \A v \in Workers : t.work[v].job = "begin" => s.work[v].job = "begin"
  BY DEF Kept
<1>3. \A p \in Publishers : d[p] # "none" => t.work[<<p, "report">>].at = "idle"
  BY <1>1 DEF Kept, Publishing
<1>4. QED
  BY <1>1, <1>2, <1>3 DEF Publishing

\* In a good plugin every coroutine may run on.
LEMMA GoodReady ==
    ASSUME NEW s, Good(s), NEW w \in Workers
    PROVE  Ready(s, w)
  BY DEF Good, Ready, GoodBut

\* Whoever is to start a timeline is alone in it.
LEMMA BeginnerAlone ==
    ASSUME NEW s, NEW d, Publishing(s, d), NEW w \in Workers, s.work[w].job = "begin"
    PROVE  Alone(s, w)
<1>1. ASSUME NEW v \in Workers \ {w}, s.work[v].job = "begin"
      PROVE  FALSE
  <2>1. \/ w = <<"action", "event">> /\ v = <<"action", "report">>
        \/ v = <<"action", "event">> /\ w = <<"action", "report">>
    BY <1>1 DEF Publishing
  <2>2. "action" \in Publishers
    BY <2>1 DEF Workers
  <2>3. QED
    BY <1>1, <2>1, <2>2 DEF Publishing
<1>2. QED
  BY <1>1 DEF Alone

\* A resuming coroutine leaves a good plugin, and starts a timeline only if that was
\* its job.
LEMMA ResumeGood ==
    ASSUME Good(lights), Publishing(lights, due), NEW w \in Workers, Resume(w)
    PROVE  /\ Good(lights') /\ Kept(lights, lights', w) /\ lights.work[w].at # "idle"
           /\ lights.work[w].job = "begin" \/ lights'.timelines = lights.timelines
           /\ due' = due /\ saved' = saved /\ wanted' = wanted
<1>1. /\ Ready(lights, w) /\ WorkerOK(lights.work[w]) /\ lights \in Plugin
      /\ lights.work[w] \in Worker
      /\ lights.work[w].at \in Holding => HoldsLock(lights, w)
  BY GoodReady DEF Good, Plugin
<1>2. ASSUME NEW t, Good(t), Moved(lights, t, w)
      PROVE  Good(t) /\ Kept(lights, t, w) /\ (lights.work[w].job = "begin" \/ t.timelines = lights.timelines)
  BY <1>2 DEF Moved, Kept
<1>3. ASSUME NEW r \in Worker, r.job = "begin" => lights.work[w].job = "begin",
             NEW t, Good(t), Moved(WithWork(lights, w, r), t, w)
      PROVE  /\ Good(t) /\ Kept(lights, t, w)
             /\ r.job = "begin" \/ t.timelines = lights.timelines
  BY <1>1, <1>3, ReadyWith DEF Moved, Kept
<1>4. CASE Cancelled(w)
  <2> DEFINE r == [lights.work[w] EXCEPT !.victim = NoTimeline]
             b == [lights EXCEPT !.work[w].victim = NoTimeline]
  <2>1. r \in Worker /\ r.job = lights.work[w].job /\ r.with = lights.work[w].with
    BY <1>1 DEF Worker
  <2>2. b = WithWork(lights, w, r)
    BY <1>1 DEF WithWork, Plugin
  <2>3. lights' \in Proceeds(b, w) /\ lights.work[w].at = "cancelling" /\ LightsOnly
    BY <1>4 DEF Cancelled
  <2> HIDE DEF r, b
  <2>4. Ready(b, w) /\ b.work[w] = r /\ \A v \in Workers \ {w} : b.work[v] = lights.work[v]
    BY <1>1, <2>1, <2>2, ReadyWith
  <2>5. Handler(b, w)
    BY <1>1, <2>1, <2>3, <2>4, BeginnerAlone DEF Handler, WorkerOK, NeedsSettings, Alone
  <2>6. Good(lights') /\ Moved(b, lights', w)
    BY <2>3, <2>4, <2>5, ProceedsGood
  <2>7. QED
    BY <1>3, <2>1, <2>2, <2>3, <2>6 DEF LightsOnly
<1>5. CASE Probed(w)
  <2>1. lights.work[w].with \in Settings /\ lights.work[w].job # "save"
    BY <1>1, <1>5 DEF Probed, WorkerOK, NeedsSettings
  <2>2. QED
    BY <1>1, <1>2, <1>5, <2>1, FinishGood, TakesToOpenGood DEF Probed, LightsOnly
<1>6. CASE LockGranted(w)
  <2>1. Usable(lights.work[w]) /\ AtHead(lights, w)
    BY <1>1, <1>6 DEF LockGranted, WorkerOK, NeedsSettings, Usable, AtHead
  <2>2. QED
    BY <1>1, <1>2, <1>6, <2>1, EntersGood DEF LockGranted, LightsOnly
<1>7. CASE OutputsClosed(w)
  <2>1. /\ AtHead(lights, w) /\ lights.outputs = {}
        /\ lights.work[w].with \in Settings \/ lights.work[w].job \in {"reopen", "close"}
    BY <1>1, <1>7 DEF OutputsClosed, Holding, HoldsLock, AtHead, WorkerOK, NeedsSettings
  <2>2. QED
    BY <1>1, <1>2, <1>7, <2>1, ClosedGood DEF OutputsClosed, LightsOnly
<1>8. CASE Opened(w)
  <2> DEFINE m == lights.work[w].with.method
             o == [lights EXCEPT !.outputs = {m}]
             r == [lights.work[w] EXCEPT !.at = "opened", !.with = NoSettings]
             t == [lights EXCEPT !.outputs = @ \cup {m}, !.work[w].at = "opened",
                                 !.work[w].with = NoSettings]
  <2>1. /\ AtHead(lights, w) /\ lights.outputs = {} /\ lights.work[w].with \in Settings
        /\ lights.work[w].job # "save" /\ lights.work[w].at = "opening"
    BY <1>1, <1>8 DEF Opened, Holding, HoldsLock, AtHead, WorkerOK, NeedsSettings
  <2>2. m \in {"midi", "osc"}
    BY <2>1 DEF Settings
  <2>3. r \in Worker /\ r.job = lights.work[w].job /\ r.at = "opened"
    BY <1>1 DEF Worker
  <2>4. /\ o \in Plugin /\ o.timelines = lights.timelines /\ o.task = lights.task
        /\ o.work = lights.work /\ o.lock = lights.lock /\ o.outputs = {m}
    BY <1>1, <2>2 DEF Plugin
  <2>5. t = WithWork(o, w, r)
    BY <1>1, <2>1 DEF WithWork, Plugin
  <2>6. lights' = Release(t) /\ LightsOnly
    BY <1>8 DEF Opened
  <2>7. \A v \in Workers \ {w} : lights.work[v].at \notin Holding
    BY <1>1, <2>1, OthersOut DEF Ready, AtHead
  <2> HIDE DEF m, o, r, t
  <2>8. Ready(o, w)
    BY <1>1, <2>2, <2>4, <2>7, ReadyChange DEF OutputsOK
  <2>9. /\ Ready(t, w) /\ t.work[w] = r /\ t.lock = lights.lock /\ t.timelines = lights.timelines
        /\ \A v \in Workers \ {w} : t.work[v] = lights.work[v]
    BY <2>3, <2>4, <2>5, <2>8, ReadyWith
  <2>10. /\ Ready(lights', w) /\ lights'.work = t.work /\ lights'.timelines = t.timelines
    BY <2>1, <2>6, <2>9, ReleaseReady DEF AtHead
  <2>11. WorkerOK(r) /\ "opened" \notin Holding
    BY <2>1, <2>3 DEF WorkerOK, NeedsSettings, Holding
  <2>12. Good(lights')
    BY <2>3, <2>9, <2>10, <2>11, Settled
  <2>13. QED
    BY <2>1, <2>3, <2>6, <2>9, <2>10, <2>12 DEF Kept, LightsOnly
<1>9. CASE OpenFails(w)
  <2>1. /\ HoldsLock(lights, w) /\ lights.work[w].with \in Settings
        /\ lights.work[w].job # "save" /\ lights.work[w].at = "opening"
    BY <1>1, <1>9 DEF OpenFails, Holding, WorkerOK, NeedsSettings
  <2>2. QED
    BY <1>1, <1>2, <1>9, <2>1, AwaitGood DEF OpenFails, LightsOnly
<1>10. CASE Failed(w)
  <2>1. AtHead(lights, w)
    BY <1>1, <1>10 DEF Failed, Holding, HoldsLock, AtHead
  <2>2. /\ Ready(Release(lights), w) /\ Release(lights).work = lights.work
        /\ Release(lights).timelines = lights.timelines
    BY <1>1, <2>1, ReleaseReady
  <2>3. Good(Finish(Release(lights), w)) /\ Moved(Release(lights), Finish(Release(lights), w), w)
    BY <2>2, FinishGood
  <2>4. QED
    BY <1>10, <2>2, <2>3 DEF Failed, LightsOnly, Moved, Kept
<1>11. CASE Connected(w)
  <2>1. CASE lights' = Finish(lights, w)
    BY <1>1, <1>2, <1>11, <2>1, FinishGood DEF Connected, LightsOnly
  <2>2. CASE lights.work[w].job = "begin" /\ lights' \in Starts(lights, w)
    BY <1>1, <1>2, <1>11, <2>2, BeginnerAlone, StartsGood DEF Connected, LightsOnly
  <2>3. QED
    BY <1>11, <2>1, <2>2 DEF Connected
<1>12. CASE Listed(w)
  <2>1. CASE lights' = Finish(lights, w)
    BY <1>1, <1>2, <1>12, <2>1, FinishGood DEF Listed, LightsOnly
  <2>2. ASSUME NEW j \in {"reopen", "close"}, lights' = Takes([lights EXCEPT !.work[w].job = j], w)
        PROVE  /\ Good(lights') /\ Kept(lights, lights', w)
               /\ lights'.timelines = lights.timelines
    <3> DEFINE r == [lights.work[w] EXCEPT !.job = j]
               b == [lights EXCEPT !.work[w].job = j]
    <3>1. r \in Worker /\ r.job = j
      BY <1>1, <2>2 DEF Worker
    <3>2. b = WithWork(lights, w, r)
      BY <1>1 DEF WithWork, Plugin
    <3>3. lights' = Takes(b, w)
      BY <2>2
    <3> HIDE DEF r, b
    <3>4. Ready(b, w) /\ b.work[w] = r
      BY <1>1, <3>1, <3>2, ReadyWith
    <3>5. Good(lights') /\ Moved(b, lights', w)
      BY <3>1, <3>3, <3>4, TakesGood DEF Usable
    <3>6. QED
      BY <1>3, <3>1, <3>2, <3>5
  <2>3. QED
    BY <1>12, <2>1, <2>2 DEF Listed, LightsOnly
<1>13. CASE MonitorReported(w)
  <2> DEFINE r == [lights.work[w] EXCEPT !.job = "check"]
             b == [lights EXCEPT !.work[w].job = "check"]
  <2>1. r \in Worker /\ r.job = "check"
    BY <1>1 DEF Worker
  <2>2. b = WithWork(lights, w, r)
    BY <1>1 DEF WithWork, Plugin
  <2>3. lights' = Finish(lights, w) \/ lights' = Connect(b, w)
    BY <1>13 DEF MonitorReported
  <2> HIDE DEF r, b
  <2>4. Ready(b, w) /\ b.work[w] = r
    BY <1>1, <2>1, <2>2, ReadyWith
  <2>5. CASE lights' = Finish(lights, w)
    BY <1>1, <1>2, <1>13, <2>5, FinishGood DEF MonitorReported, LightsOnly
  <2>6. CASE lights' = Connect(b, w)
    <3>1. Good(lights') /\ Moved(b, lights', w)
      BY <2>1, <2>4, <2>6, ConnectGood
    <3>2. QED
      BY <1>3, <1>13, <2>1, <2>2, <3>1 DEF MonitorReported, LightsOnly
  <2>7. QED
    BY <2>3, <2>5, <2>6
<1>14. QED
  BY <1>4, <1>5, <1>6, <1>7, <1>8, <1>9, <1>10, <1>11, <1>12, <1>13 DEF Resume

\* No handler is to start a timeline, and none runs.
Stopped(s) == Running(s) = {} /\ \A w \in Workers : s.work[w].job # "begin"

\* An idle coroutine is not to start a timeline.
LEMMA IdleNoBegin ==
    ASSUME NEW s, Good(s), NEW w \in Workers, s.work[w].at = "idle"
    PROVE  s.work[w].job # "begin"
  BY DEF Good, WorkerOK

\* A publisher's command.
LEMMA CommandGood ==
    ASSUME IInv, NEW p \in Publishers, NEW e \in Commands(p), Command(p, e)
    PROVE  /\ IInv'
           /\ wanted' = (e = "move")
           /\ p = "action" /\ ~ wanted' => Stopped(lights')
<1> DEFINE w == <<p, "event">>
           r == <<p, "report">>
           job == IF e = "move" THEN "begin" ELSE "cancel"
<1>1. /\ w \in Workers /\ r \in Workers /\ w # r
      /\ \A q \in Publishers : /\ <<q, "event">> \in Workers /\ <<q, "report">> \in Workers
                               /\ <<q, "report">> # w /\ (q # p => <<q, "event">> # w)
  BY DEF Workers
<1>2. /\ Quiet(p) /\ lights' \in Handles(lights, w, job, NoSettings)
      /\ due' = [due EXCEPT ![p] = IF e \in {"song", "stop"} THEN e ELSE "none"]
      /\ wanted' = (e = "move") /\ saved' = saved
  BY DEF Command
<1>3. /\ Good(lights) /\ due \in [Publishers -> {"none", "song", "stop"}]
      /\ Publishing(lights, due) /\ saved \in Settings
  BY DEF IInv
<1>4. /\ p = "action" \/ p = "loader"
      /\ e \in {"song", "stop", "move", "hold"} /\ (e # "stop" => p = "action")
  BY ActorsAssumption DEF Commands
<1>5. lights.work[w].job # "begin" /\ lights.work[r].job # "begin" /\ lights.work[r].at = "idle"
  BY <1>1, <1>2, <1>3, IdleNoBegin DEF Quiet
<1>6. p = "action" => \A v \in Workers : lights.work[v].job # "begin"
  BY <1>1, <1>3, <1>5 DEF Publishing
<1> HIDE DEF w, r
<1>7. job \in {"begin", "cancel"} /\ (job = "begin" => Alone(lights, w))
  BY <1>4, <1>6 DEF Alone
<1> HIDE DEF job
<1>8. /\ Good(lights') /\ \A v \in Workers \ {w} : lights'.work[v] = lights.work[v]
      /\ lights'.work[w].job \in {job, "none", "check"}
      /\ job = "begin" \/ Running(lights') = {}
  BY <1>1, <1>2, <1>3, <1>7, HandlesGood
<1>9. \A q \in Publishers : due'[q] = IF q = p THEN IF e \in {"song", "stop"} THEN e ELSE "none"
                                     ELSE due[q]
  BY <1>2, <1>3
<1>10. lights'.work[w].job = "begin" => p = "action" /\ due'[p] = "none"
  BY <1>4, <1>8, <1>9 DEF job
<1>11. due' \in [Publishers -> {"none", "song", "stop"}]
  BY <1>2, <1>3
<1>12. Publishing(lights', due')
  <2>1. \A v \in Workers : lights'.work[v].job = "begin" =>
                             v \in {<<"action", "event">>, <<"action", "report">>}
    BY <1>3, <1>8, <1>10 DEF Publishing, w
  <2>2. ASSUME NEW q \in Publishers, due'[q] = "song"
        PROVE  q = "action"
    BY <1>3, <1>4, <1>9, <2>2 DEF Publishing
  <2>3. ASSUME NEW q \in Publishers, due'[q] # "none"
        PROVE  lights'.work[<<q, "report">>].at = "idle"
    BY <1>1, <1>3, <1>5, <1>8, <1>9, <2>3 DEF Publishing, r
  <2>4. ASSUME NEW q \in Publishers, lights'.work[<<q, "event">>].job = "begin"
        PROVE  due'[q] = "none" /\ lights'.work[<<q, "report">>].job # "begin"
    <3>1. CASE q = p
      BY <1>1, <1>5, <1>8, <1>10, <2>4, <3>1 DEF w, r
    <3>2. CASE q # p
      BY <1>1, <1>3, <1>8, <1>9, <2>4, <3>2 DEF Publishing
    <3>3. QED
      BY <3>1, <3>2
  <2>5. QED
    BY <1>11, <2>1, <2>2, <2>3, <2>4 DEF Publishing
<1>13. wanted' \in BOOLEAN
  BY <1>2
<1>14. p = "action" /\ ~ wanted' => Stopped(lights')
  BY <1>2, <1>6, <1>8 DEF Stopped, job
<1>15. QED
  BY <1>2, <1>3, <1>8, <1>11, <1>12, <1>13, <1>14 DEF IInv

\* The report that answers it.
LEMMA ReportGood ==
    ASSUME IInv, NEW p \in Publishers, ReportStarted(p) \/ ReportStopped(p)
    PROVE  IInv' /\ (p = "action" /\ ~ wanted' => Stopped(lights'))
<1> DEFINE r == <<p, "report">>
<1>1. /\ r \in Workers
      /\ \A q \in Publishers : /\ <<q, "event">> \in Workers /\ <<q, "report">> \in Workers
                               /\ <<q, "event">> # r /\ (q # p => <<q, "report">> # r)
  BY DEF Workers
<1>2. /\ Good(lights) /\ due \in [Publishers -> {"none", "song", "stop"}]
      /\ Publishing(lights, due) /\ saved \in Settings
  BY DEF IInv
<1>3. due[p] # "none" /\ due' = [due EXCEPT ![p] = "none"] /\ saved' = saved
  BY DEF ReportStarted, ReportStopped
<1>4. lights.work[r].at = "idle" /\ lights.work[<<p, "event">>].job # "begin"
  BY <1>1, <1>2, <1>3 DEF Publishing
<1>5. lights.work[r].job # "begin"
  BY <1>1, <1>2, <1>4, IdleNoBegin
<1>6. p = "action" => \A v \in Workers : lights.work[v].job # "begin"
  BY <1>1, <1>2, <1>4, <1>5 DEF Publishing
<1> HIDE DEF r
<1>7. PICK job \in {"begin", "cancel"} :
        /\ lights' \in Handles(lights, r, job, NoSettings)
        /\ job = "begin" => p = "action"
        /\ wanted' = (job = "begin")
  <2>1. CASE ReportStarted(p)
    BY <1>2, <2>1 DEF ReportStarted, Publishing, r
  <2>2. CASE ReportStopped(p)
    BY <2>2 DEF ReportStopped, r
  <2>3. QED
    BY <2>1, <2>2
<1>8. job = "begin" => Alone(lights, r)
  BY <1>6, <1>7 DEF Alone
<1>9. /\ Good(lights') /\ \A v \in Workers \ {r} : lights'.work[v] = lights.work[v]
      /\ lights'.work[r].job \in {job, "none", "check"}
      /\ job = "begin" \/ Running(lights') = {}
  BY <1>1, <1>2, <1>7, <1>8, HandlesGood
<1>10. /\ due' \in [Publishers -> {"none", "song", "stop"}]
       /\ \A q \in Publishers : due'[q] = IF q = p THEN "none" ELSE due[q]
  BY <1>2, <1>3
<1>11. Publishing(lights', due')
  <2>1. \A v \in Workers : lights'.work[v].job = "begin" =>
                             v \in {<<"action", "event">>, <<"action", "report">>}
    BY <1>2, <1>7, <1>9 DEF Publishing, r
  <2>2. ASSUME NEW q \in Publishers
        PROVE  /\ due'[q] = "song" => q = "action"
               /\ due'[q] # "none" => lights'.work[<<q, "report">>].at = "idle"
    BY <1>1, <1>2, <1>9, <1>10 DEF Publishing
  <2>3. ASSUME NEW q \in Publishers, lights'.work[<<q, "event">>].job = "begin"
        PROVE  due'[q] = "none" /\ lights'.work[<<q, "report">>].job # "begin"
    <3>1. lights.work[<<q, "event">>].job = "begin" /\ q # p
      BY <1>1, <1>4, <1>9, <2>3
    <3>2. QED
      BY <1>1, <1>2, <1>9, <1>10, <3>1 DEF Publishing
  <2>4. QED
    BY <1>10, <2>1, <2>2, <2>3 DEF Publishing
<1>12. p = "action" /\ ~ wanted' => Stopped(lights')
  BY <1>6, <1>7, <1>9 DEF Stopped
<1>13. wanted' \in BOOLEAN
  BY <1>7
<1>14. QED
  BY <1>2, <1>3, <1>9, <1>10, <1>11, <1>12, <1>13 DEF IInv

\* The other steps start nothing but for a handler that was to.
Calm(s, t) == \/ \E w \in Workers : s.work[w].job = "begin"
              \/ Running(t) \subseteq Running(s) /\ \A w \in Workers : t.work[w].job # "begin"

\* No report comes.
LEMMA NoReportGood ==
    ASSUME IInv, NEW p \in Publishers, NoReport(p)
    PROVE  IInv' /\ wanted' = wanted /\ Calm(lights, lights')
<1>1. lights' = lights /\ saved' = saved /\ wanted' = wanted /\ due' = [due EXCEPT ![p] = "none"]
  BY DEF NoReport
<1>2. due' \in [Publishers -> {"none", "song", "stop"}]
      /\ \A q \in Publishers : due'[q] = IF q = p THEN "none" ELSE due[q]
  BY <1>1 DEF IInv
<1>3. Publishing(lights, due')
  BY <1>2 DEF IInv, Publishing
<1>4. QED
  BY <1>1, <1>2, <1>3 DEF IInv, Calm

\* A settings save.
LEMMA SaveGood ==
    ASSUME IInv, NEW v \in Savers, NEW o \in Offers, SaveSettings(v, o)
    PROVE  IInv' /\ wanted' = wanted /\ Calm(lights, lights')
<1> DEFINE w == <<v, "save">>
           new == [o EXCEPT !.cues = saved.cues]
<1>1. w \in Workers /\ \A p \in Publishers : w # <<p, "report">>
  BY DEF Workers
<1>2. new \in Settings
  BY OffersAssumption DEF IInv, Settings
<1>3. /\ lights' \in Handles(lights, w, "save", new) /\ saved' = new /\ due' = due
      /\ wanted' = wanted
  BY DEF SaveSettings
<1> HIDE DEF w, new
<1>4. /\ Good(lights') /\ \A u \in Workers \ {w} : lights'.work[u] = lights.work[u]
      /\ lights'.work[w].job \in {"save", "none", "check"} /\ Running(lights') = {}
  BY <1>1, <1>2, <1>3, HandlesGood DEF IInv
<1>5. Kept(lights, lights', w)
  BY <1>4 DEF Kept
<1>6. Publishing(lights', due)
  BY <1>1, <1>5, PublishingKept DEF IInv
<1>7. Calm(lights, lights')
  BY <1>4 DEF Calm
<1>8. QED
  BY <1>2, <1>3, <1>4, <1>6, <1>7 DEF IInv

\* A step that leaves the coroutines alone.
LEMMA SameWork ==
    ASSUME NEW s, Good(s), NEW t \in Plugin, t.work = s.work, t.lock = s.lock,
           t.outputs \subseteq s.outputs, t.task = s.task, Running(t) \subseteq Running(s)
    PROVE  Good(t) /\ Calm(s, t) /\ \A d : Publishing(s, d) => Publishing(t, d)
<1>1. OutputsOK(t)
  BY DEF Good, OutputsOK
<1>2. s.outputs = {} => t.outputs = {}
  OBVIOUS
<1>3. Good(t)
  BY <1>1, <1>2 DEF Good, HoldsLock
<1>4. QED
  BY <1>3 DEF Calm, Publishing

\* A cue edit.
LEMMA EditGood ==
    ASSUME IInv, EditCues
    PROVE  IInv' /\ wanted' = wanted /\ Calm(lights, lights')
<1>1. /\ saved' = [saved EXCEPT !.cues = TRUE] /\ lights' = [lights EXCEPT !.settings.cues = TRUE]
      /\ due' = due /\ wanted' = wanted
  BY DEF EditCues
<1>2. lights \in Plugin /\ lights.settings \in Settings /\ saved' \in Settings
  BY <1>1 DEF IInv, Good, Plugin, Settings
<1>3. [lights.settings EXCEPT !.cues = TRUE] \in Settings
  BY <1>2 DEF Settings
<1>4. /\ lights' \in Plugin /\ lights'.work = lights.work /\ lights'.lock = lights.lock
      /\ lights'.outputs = lights.outputs /\ lights'.task = lights.task
      /\ lights'.timelines = lights.timelines
  BY <1>1, <1>2, <1>3 DEF Plugin
<1>5. Running(lights') = Running(lights)
  BY <1>4 DEF Running
<1>6. QED
  BY <1>1, <1>2, <1>4, <1>5, SameWork DEF IInv

\* A timeline ends.
LEMMA TimelineGood ==
    ASSUME IInv, NEW i \in Timelines, TimelineEnds(i) \/ CancelCompletes(i)
    PROVE  IInv' /\ wanted' = wanted /\ Calm(lights, lights')
<1>1. lights' = [lights EXCEPT !.timelines[i] = "none"] /\ due' = due /\ saved' = saved /\ wanted' = wanted
  BY DEF TimelineEnds, CancelCompletes, LightsOnly
<1>2. lights \in Plugin
  BY DEF IInv, Good
<1>3. /\ lights' \in Plugin /\ lights'.work = lights.work /\ lights'.lock = lights.lock
      /\ lights'.outputs = lights.outputs /\ lights'.task = lights.task
      /\ lights'.timelines = [lights.timelines EXCEPT ![i] = "none"]
  BY <1>1, <1>2 DEF Plugin
<1>4. Running(lights') \subseteq Running(lights)
  BY <1>2, <1>3 DEF Running, Plugin
<1>5. QED
  BY <1>1, <1>3, <1>4, SameWork DEF IInv

\* The MIDI port is lost.
LEMMA PortGood ==
    ASSUME IInv, PortLost
    PROVE  IInv' /\ wanted' = wanted /\ Calm(lights, lights')
<1>1. lights' = [lights EXCEPT !.outputs = @ \ {"midi"}] /\ due' = due /\ saved' = saved /\ wanted' = wanted
  BY DEF PortLost, LightsOnly
<1>2. lights \in Plugin
  BY DEF IInv, Good
<1>3. /\ lights' \in Plugin /\ lights'.work = lights.work /\ lights'.lock = lights.lock
      /\ lights'.outputs = lights.outputs \ {"midi"} /\ lights'.task = lights.task
      /\ lights'.timelines = lights.timelines
  BY <1>1, <1>2 DEF Plugin
<1>4. Running(lights') = Running(lights)
  BY <1>3 DEF Running
<1>5. QED
  BY <1>1, <1>3, <1>4, SameWork DEF IInv

\* The monitor or the panel begins.
LEMMA BackgroundGood ==
    ASSUME IInv, NEW b \in Background, MonitorWakes(b) \/ PanelConnects(b)
    PROVE  IInv' /\ wanted' = wanted /\ Calm(lights, lights')
<1> DEFINE w == <<b, "task">>
<1>1. w \in Workers /\ \A p \in Publishers : w # <<p, "report">>
  BY DEF Workers
<1>2. /\ Good(lights) /\ lights \in Plugin /\ lights.work[w] \in Worker
      /\ lights.work[w].at = "idle" /\ lights.work[w].job = "none" /\ Ready(lights, w)
  BY <1>1, GoodReady DEF IInv, Good, Plugin, MonitorWakes, PanelConnects, WorkerOK
<1>3. due' = due /\ saved' = saved /\ wanted' = wanted
  BY DEF MonitorWakes, PanelConnects, LightsOnly
<1>4. /\ Good(lights') /\ Kept(lights, lights', w) /\ lights'.timelines = lights.timelines
      /\ lights'.work[w].job # "begin"
  <2>1. CASE MonitorWakes(b)
    <3> DEFINE r == [lights.work[w] EXCEPT !.job = "listing", !.at = "listing"]
    <3>1. lights' = [lights EXCEPT !.work[w].job = "listing", !.work[w].at = "listing"]
      BY <2>1 DEF MonitorWakes
    <3>2. r \in Worker /\ r.job = "listing" /\ r.at = "listing"
      BY <1>2 DEF Worker
    <3> HIDE DEF w
    <3>3. lights' = WithWork(lights, w, r)
      <4>1. lights' = [lights EXCEPT !.work = [lights.work EXCEPT ![w] = r]]
        BY <1>1, <1>2, <3>1 DEF Plugin
      <4>2. QED
        BY <4>1 DEF WithWork
    <3> HIDE DEF r
    <3>4. WorkerOK(r) /\ "listing" \notin Holding
      BY <3>2 DEF WorkerOK, NeedsSettings, Holding
    <3>5. /\ Ready(lights', w) /\ lights'.work[w] = r /\ lights'.timelines = lights.timelines
          /\ \A v \in Workers \ {w} : lights'.work[v] = lights.work[v]
      BY <1>1, <1>2, <3>2, <3>3, ReadyWith
    <3>6. Good(lights')
      BY <1>1, <3>2, <3>4, <3>5, Settled
    <3>7. QED
      BY <3>2, <3>5, <3>6 DEF Kept
  <2>2. CASE PanelConnects(b)
    <3> DEFINE r == [lights.work[w] EXCEPT !.job = "check"]
               c == [lights EXCEPT !.work[w].job = "check"]
    <3>1. lights' = Connect(c, w)
      BY <2>2 DEF PanelConnects
    <3>2. r \in Worker /\ r.job = "check"
      BY <1>2 DEF Worker
    <3>3. c = WithWork(lights, w, r)
      BY <1>2 DEF WithWork, Plugin
    <3> HIDE DEF r, c, w
    <3>4. /\ Ready(c, w) /\ c.work[w] = r /\ c.timelines = lights.timelines
          /\ \A v \in Workers \ {w} : c.work[v] = lights.work[v]
      BY <1>1, <1>2, <3>2, <3>3, ReadyWith
    <3>5. Good(lights') /\ Moved(c, lights', w)
      BY <1>1, <3>1, <3>2, <3>4, ConnectGood
    <3>6. QED
      BY <3>2, <3>4, <3>5 DEF Kept, Moved
  <2>3. QED
    BY <2>1, <2>2
<1> HIDE DEF w
<1>5. Publishing(lights', due)
  BY <1>1, <1>4, PublishingKept DEF IInv
<1>6. Calm(lights, lights')
  BY <1>4 DEF Kept, Calm, Running
<1>7. QED
  BY <1>3, <1>4, <1>5, <1>6 DEF IInv

\* A coroutine resumes.
LEMMA ResumeKeeps ==
    ASSUME IInv, NEW w \in Workers, Resume(w)
    PROVE  IInv' /\ wanted' = wanted /\ Calm(lights, lights')
<1>1. /\ Good(lights') /\ Kept(lights, lights', w) /\ lights.work[w].at # "idle"
      /\ lights.work[w].job = "begin" \/ lights'.timelines = lights.timelines
      /\ due' = due /\ saved' = saved /\ wanted' = wanted
  BY ResumeGood DEF IInv
<1>2. Publishing(lights', due)
  BY <1>1, PublishingKept DEF IInv
<1>3. Calm(lights, lights')
  BY <1>1 DEF Kept, Calm, Running
<1>4. QED
  BY <1>1, <1>2, <1>3 DEF IInv

\* What is not wanted neither runs nor begins.
Unwanted == ~ wanted => Stopped(lights)

\* Every step keeps the invariant, and, unless the rollover publishes too, Unwanted.
LEMMA NextKeeps ==
    ASSUME IInv, Next
    PROVE  IInv' /\ (Publishers = {"action"} /\ Unwanted => Unwanted')
<1>1. ASSUME wanted' = wanted, Calm(lights, lights'), Unwanted
      PROVE  Unwanted'
  BY <1>1 DEF Calm, Unwanted, Stopped
<1>2. CASE \E p \in Publishers, e \in {"song", "stop", "move", "hold"} : e \in Commands(p) /\ Command(p, e)
  BY <1>2, CommandGood DEF Unwanted
<1>3. CASE \E p \in Publishers : ReportStarted(p) \/ ReportStopped(p)
  BY <1>3, ReportGood DEF Unwanted
<1>4. CASE \E p \in Publishers : NoReport(p)
  BY <1>1, <1>4, NoReportGood
<1>5. CASE \E v \in Savers, o \in Offers : SaveSettings(v, o)
  BY <1>1, <1>5, SaveGood
<1>6. CASE EditCues
  BY <1>1, <1>6, EditGood
<1>7. CASE \E b \in Background : MonitorWakes(b) \/ PanelConnects(b)
  BY <1>1, <1>7, BackgroundGood
<1>8. CASE \E w \in Workers : Resume(w)
  BY <1>1, <1>8, ResumeKeeps
<1>9. CASE \E i \in Timelines : TimelineEnds(i) \/ CancelCompletes(i)
  BY <1>1, <1>9, TimelineGood
<1>10. CASE PortLost
  BY <1>1, <1>10, PortGood
<1>11. \A p \in Publishers : Commands(p) \subseteq {"song", "stop", "move", "hold"}
  BY DEF Commands
<1>12. QED
  BY <1>2, <1>3, <1>4, <1>5, <1>6, <1>7, <1>8, <1>9, <1>10, <1>11 DEF Next

\* The initial states.
LEMMA InitGood ==
    ASSUME Init
    PROVE  IInv /\ Unwanted
<1>1. PICK first \in Offers :
        /\ lights = [timelines |-> [i \in Timelines |-> "none"], task |-> NoTimeline,
                     outputs |-> {}, settings |-> first, lock |-> <<>>,
                     work |-> [w \in Workers |-> Idle]]
        /\ due = [p \in Publishers |-> "none"] /\ saved = first /\ wanted = FALSE
  BY DEF Init
<1>2. first \in Settings
  BY OffersAssumption
<1>3. lights \in Plugin
  BY <1>1, <1>2, IdleWorker DEF Plugin
<1>4. Running(lights) = {} /\ OutputsOK(lights)
  BY <1>1 DEF Running, OutputsOK
<1>5. \A w \in Workers : lights.work[w] = Idle
  BY <1>1
<1>6. Good(lights)
  BY <1>3, <1>4, <1>5, IdleWorker DEF Good, Holding
<1>7. Publishing(lights, due)
  BY <1>1, <1>5, IdleWorker DEF Publishing, Workers
<1>8. Unwanted
  BY <1>4, <1>5, IdleWorker DEF Unwanted, Stopped
<1>9. QED
  BY <1>1, <1>2, <1>6, <1>7, <1>8 DEF IInv

\* Stuttering.
LEMMA StutterKeeps ==
    ASSUME IInv, UNCHANGED vars
    PROVE  IInv' /\ (Unwanted => Unwanted')
<1>1. lights' = lights /\ due' = due /\ saved' = saved /\ wanted' = wanted
  BY DEF vars
<1>2. QED
  BY <1>1 DEF IInv, Unwanted

\* The inductive invariant holds: it is what the theorems below follow from.
THEOREM InvariantHolds == Spec => []IInv
<1>1. Init => IInv
  BY InitGood
<1>2. IInv /\ [Next]_vars => IInv'
  BY NextKeeps, StutterKeeps
<1>3. QED
  BY <1>1, <1>2, PTL DEF Spec

-----------------------------------------------------------------------------
(* The theorems *)

\* Type correctness: among other things every coroutine that goes on to assign or to
\* open something has settings to use, and the lock's queue is never emptied by one
\* that does not hold it.
THEOREM TypeCorrect == Spec => []TypeOK
<1>1. IInv => TypeOK
  BY DEF IInv, Good, TypeOK
<1>2. QED
  BY <1>1, InvariantHolds, PTL

\* However many saves, panels and monitors connect between the cancel and the start of
\* a timer event handler: no timeline runs that the handle does not name.
THEOREM AlwaysOneTimeline == Spec => []OneTimeline
<1>1. IInv => OneTimeline
  BY DEF IInv, Good, OneTimeline
<1>2. QED
  BY <1>1, InvariantHolds, PTL

\* The MIDI port and the OSC socket are never open together, although a connection
\* chooses its method before it waits for the lock.
THEOREM NeverBothOutputs == Spec => []NeverBoth
<1>1. IInv => NeverBoth
  <2>1. SUFFICES ASSUME OutputsOK(lights) PROVE NeverBoth
    BY DEF IInv, Good
  <2>2. Cardinality({}) = 0 /\ Cardinality({"midi"}) = 1 /\ Cardinality({"osc"}) = 1
    BY FS_EmptySet, FS_Singleton
  <2>3. QED
    BY <2>1, <2>2 DEF OutputsOK, NeverBoth
<1>2. QED
  BY <1>1, InvariantHolds, PTL

\* Without the rollover's stop, which is not under the action lock, a stop or a change
\* of the song leaves no timeline that runs or is going to.
THEOREM ActionsLeaveNothing ==
    ASSUME Publishers = {"action"}
    PROVE  Spec => []OnlyWantedTimelines
<1>1. Init => IInv /\ Unwanted
  BY InitGood
<1>2. IInv /\ Unwanted /\ [Next]_vars => IInv' /\ Unwanted'
  BY NextKeeps, StutterKeeps
<1>3. Unwanted => OnlyWantedTimelines
  BY DEF Unwanted, Stopped, OnlyWantedTimelines
<1>4. QED
  BY <1>1, <1>2, <1>3, PTL DEF Spec
=============================================================================
