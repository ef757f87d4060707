------------------------ MODULE PlaybackInput_proofs ------------------------
(***************************************************************************)
(* The two inputs that hear the band.  The input of the songs, its         *)
(* observations and its scans are never at odds, for any number of         *)
(* requests and scans under way together; the MIDI input acts on each key  *)
(* once and listens to one port, for any number of inputs and any size of  *)
(* its queue.                                                              *)
(***************************************************************************)
EXTENDS PlaybackInput, MidiInput, FiniteSetTheorems, TLAPS

-----------------------------------------------------------------------------
(* The inductive invariant.                                                 *)

Items == [rev : BOOLEAN, gen : BOOLEAN, quiet : BOOLEAN, same : BOOLEAN]
Holding == {"quieting", "stopping", "stopped"}
CallerJobs ==
    [at : {"idle", "cancelling", "unsearching", "locking", "walking"} \cup Holding,
     job : {"none", "find", "cancel", "skips", "discover", "stop", "save"},
     for : InputMethods, waits : Scans \cup {NoActor}]
ScanJobs ==
    [at : {"idle", "scanning", "locking", "over"} \cup Holding, job : {"none", "adopt"},
     for : InputMethods, waits : {NoActor}]

\* A caller that is idle has no job, only one with a job that cancels waits for a scan, and
\* only one that stops the input for a discovery.
JobsTypeOK ==
    /\ jobs \in [Actors -> CallerJobs \cup ScanJobs]
    /\ \A c \in Callers : jobs[c] \in CallerJobs
    /\ \A s \in Scans : jobs[s] \in ScanJobs
    /\ \A c \in Callers : /\ jobs[c].at = "idle" => jobs[c].job = "none"
                          /\ jobs[c].at = "cancelling" => jobs[c].job \in Cancelling
                          /\ jobs[c].at = "unsearching" => jobs[c].job = "stop"

FlagsTypeOK ==
    /\ inputRuns \in BOOLEAN /\ receiving \in BOOLEAN /\ client \in BOOLEAN
    /\ linked \in BOOLEAN /\ midiRuns \in BOOLEAN /\ midiActs \in BOOLEAN
    /\ orderValid \in BOOLEAN /\ scansCrossed \in BOOLEAN /\ misled \in BOOLEAN

QueueTypeOK ==
    /\ observed \in Seq(Items)
    /\ consumer \in [at : {"idle", "locking", "reading", "acting"}, item : Items]

\* Every variable has its type.
PlaybackTypeOK ==
    /\ inputChosen \in InputMethods /\ storedChoice \in InputMethods
    /\ lifecycle \in Actors \cup {NoActor} /\ dispatching \in Actors \cup {NoActor, "consumer"}
    /\ scanTask \in Scans \cup {NoActor} /\ latestScan \in Scans \cup {NoActor}
    /\ discovery \in {"idle", "running", "cancelled", "done", "failed"}
    /\ order \in {"unseen", "matches", "stale"}
    /\ FlagsTypeOK /\ JobsTypeOK /\ QueueTypeOK

\* Who holds which lock can be read off the await it is at.
LifecycleHeld ==
    /\ \A a \in Actors : jobs[a].at \in Holding => lifecycle = a
    /\ lifecycle # NoActor => jobs[lifecycle].at \in Holding
DispatchHeld ==
    /\ \A a \in Actors : jobs[a].at \in {"stopping", "stopped"} => dispatching = a
    /\ dispatching \in Actors => jobs[dispatching].at \in {"stopping", "stopped"}
    /\ consumer.at \in {"reading", "acting"} <=> dispatching = "consumer"

\* One input runs, the one that is chosen.
RunningInput ==
    /\ client => inputChosen = "api"
    /\ midiRuns => inputChosen = "midi"
    /\ linked \/ receiving => client
    /\ midiActs => midiRuns
    /\ consumer.at = "acting" => client

\* What a change of the input has established at each await.
ChangeInv ==
    \A a \in Actors :
        /\ jobs[a].at \in {"stopping", "stopped"} => ~receiving
        /\ jobs[a].at = "stopped" => ~client /\ ~midiRuns
        /\ jobs[a].at = "quieting" /\ jobs[a].job = "discover" => inputChosen = "api"

\* The chosen input is the stored one, but while a save or an adoption holds the lock.
ChosenInv ==
    (lifecycle = NoActor \/ jobs[lifecycle].job \notin {"save", "adopt"})
        => inputChosen = storedChoice

\* What an action depends on has moved only if the mapper's revision has.
ItemsInv ==
    /\ \A i \in DOMAIN observed : observed[i].rev => observed[i].same
    /\ consumer.item.rev => consumer.item.same
OrderInv == order = "matches" /\ linked /\ receiving => orderValid

\* Unless two requests that cancel the scan overlapped: there is one of them, and it waits
\* for the only scan that is going on.
OneScan ==
    ~scansCrossed =>
        /\ \A c, d \in Callers :
              jobs[c].job \in Cancelling /\ jobs[d].job \in Cancelling => c = d
        /\ \A c \in Callers :
              /\ jobs[c].at = "cancelling" => jobs[c].waits = scanTask
              /\ jobs[c].at = "locking" /\ jobs[c].job = "find" => scanTask = NoActor
        /\ \A s \in Scans : jobs[s].at \notin {"idle", "over"} => scanTask = s

PlaybackInv ==
    /\ PlaybackTypeOK /\ LifecycleHeld /\ DispatchHeld /\ RunningInput /\ ChangeInv
    /\ ChosenInv /\ ItemsInv /\ OrderInv /\ OneScan /\ ObservedInForce

-----------------------------------------------------------------------------
(* Facts about the constants and the operators.                             *)

\* Nobody and the consumer are not actors, and a scan is no request.
LEMMA Names ==
  /\ NoActor \notin Actors /\ "consumer" \notin Actors /\ NoActor # "consumer"
  /\ Callers \cap Scans = {}
  /\ Actors = Callers \cup Scans
BY PlaybackAssumption DEF NoActor, Actors

\* What has just been observed is in force.
LEMMA FreshIsItem == FreshItem \in Items /\ FreshItem.rev = TRUE /\ FreshItem.same = TRUE
BY DEF FreshItem, Items

\* A mark sets back what it names and nothing else.
LEMMA MarkedItem ==
  ASSUME NEW i \in Items, NEW marks
  PROVE  /\ Marked(i, marks) \in Items
         /\ Marked(i, marks).rev = (i.rev /\ "rev" \notin marks)
         /\ Marked(i, marks).same = (i.same /\ "same" \notin marks)
BY DEF Marked, Items

\* The observations that are marked stay as many, and in their order.
LEMMA MarksKeep ==
  ASSUME PlaybackTypeOK, NEW marks, Marks(marks)
  PROVE  /\ observed' \in Seq(Items) /\ DOMAIN observed' = DOMAIN observed
         /\ \A i \in DOMAIN observed : observed[i] \in Items /\ observed'[i] = Marked(observed[i], marks)
         /\ consumer' \in [at : {"idle", "locking", "reading", "acting"}, item : Items]
         /\ consumer'.at = consumer.at /\ consumer'.item = Marked(consumer.item, marks)
<1>1. /\ observed \in Seq(Items)
      /\ \A i \in DOMAIN observed : observed[i] \in Items
      /\ consumer \in [at : {"idle", "locking", "reading", "acting"}, item : Items]
  BY DEF PlaybackTypeOK, QueueTypeOK
<1>2. \A i \in DOMAIN observed : Marked(observed[i], marks) \in Items
  BY <1>1, MarkedItem
<1>3. observed' = [i \in DOMAIN observed |-> Marked(observed[i], marks)]
  BY DEF Marks
<1>4. DOMAIN observed = 1..Len(observed) /\ Len(observed) \in Nat
  BY <1>1
<1>5. observed' \in Seq(Items)
  <2>1. observed' \in [1..Len(observed) -> Items]
    BY <1>2, <1>3, <1>4
  <2>2. QED
    BY <2>1, <1>4
<1>6. Marked(consumer.item, marks) \in Items
  BY <1>1, MarkedItem
<1>7. consumer' = [consumer EXCEPT !.item = Marked(consumer.item, marks)]
  BY DEF Marks
<1>8. QED
  BY <1>1, <1>3, <1>5, <1>6, <1>7

\* An observation whose dependence is marked has its revision marked too.
LEMMA MarksKeepItems ==
  ASSUME PlaybackTypeOK, ItemsInv, NEW marks, "same" \in marks => "rev" \in marks, Marks(marks)
  PROVE  ItemsInv'
<1>1. \A i \in DOMAIN observed :
          /\ observed'[i].rev = (observed[i].rev /\ "rev" \notin marks)
          /\ observed'[i].same = (observed[i].same /\ "same" \notin marks)
  BY MarksKeep, MarkedItem
<1>2. /\ consumer'.item.rev = (consumer.item.rev /\ "rev" \notin marks)
      /\ consumer'.item.same = (consumer.item.same /\ "same" \notin marks)
  BY MarksKeep, MarkedItem DEF PlaybackTypeOK, QueueTypeOK
<1>3. QED
  BY <1>1, <1>2, MarksKeep DEF ItemsInv

-----------------------------------------------------------------------------
(* What a step does to the record of whoever takes it.                      *)

\* An actor that comes to the next await keeps its job.
LEMMA JobGoesOn ==
  ASSUME PlaybackTypeOK, NEW a \in Actors, NEW at, Reaches(a, at)
  PROVE  /\ DOMAIN jobs' = Actors /\ \A b \in Actors \ {a} : jobs'[b] = jobs[b]
         /\ jobs'[a] = [at |-> at, job |-> jobs[a].job, for |-> jobs[a].for, waits |-> jobs[a].waits]
         /\ jobs'[a].at = at /\ jobs'[a].job = jobs[a].job /\ jobs'[a].waits = jobs[a].waits
<1>1. jobs[a] \in CallerJobs \cup ScanJobs
  BY DEF PlaybackTypeOK, JobsTypeOK
<1>2. jobs[a] = [at |-> jobs[a].at, job |-> jobs[a].job, for |-> jobs[a].for, waits |-> jobs[a].waits]
  BY <1>1 DEF CallerJobs, ScanJobs
<1>3. jobs' = [jobs EXCEPT ![a] = [jobs[a] EXCEPT !.at = at]] /\ DOMAIN jobs = Actors
  BY DEF Reaches, PlaybackTypeOK, JobsTypeOK
<1>4. [jobs[a] EXCEPT !.at = at] =
          [at |-> at, job |-> jobs[a].job, for |-> jobs[a].for, waits |-> jobs[a].waits]
  BY <1>2
<1>5. QED
  BY <1>3, <1>4

\* One that returns is at rest.
LEMMA JobReturns ==
  ASSUME PlaybackTypeOK, NEW a \in Actors, Returns(a)
  PROVE  /\ DOMAIN jobs' = Actors /\ \A b \in Actors \ {a} : jobs'[b] = jobs[b]
         /\ jobs'[a] = AtRest /\ jobs'[a].at = "idle" /\ jobs'[a].job = "none"
BY DEF Returns, AtRest, PlaybackTypeOK, JobsTypeOK

\* One whose scan has been awaited no longer waits.
LEMMA JobAwaited ==
  ASSUME PlaybackTypeOK, NEW c \in Callers, NEW at, Awaited(c, at)
  PROVE  /\ DOMAIN jobs' = Actors /\ \A b \in Actors \ {c} : jobs'[b] = jobs[b]
         /\ jobs'[c] = [at |-> at, job |-> jobs[c].job, for |-> jobs[c].for, waits |-> NoActor]
         /\ jobs'[c].at = at /\ jobs'[c].job = jobs[c].job
<1>1. jobs[c] \in CallerJobs
  BY DEF PlaybackTypeOK, JobsTypeOK
<1>2. jobs[c] = [at |-> jobs[c].at, job |-> jobs[c].job, for |-> jobs[c].for, waits |-> jobs[c].waits]
  BY <1>1 DEF CallerJobs
<1>3. /\ jobs' = [jobs EXCEPT ![c] = [[jobs[c] EXCEPT !.at = at] EXCEPT !.waits = NoActor]]
      /\ DOMAIN jobs = Actors /\ c \in Actors
  BY DEF Awaited, PlaybackTypeOK, JobsTypeOK, Actors
<1>4. DEFINE r == [jobs[c] EXCEPT !.at = at]
<1>5. r = [at |-> at, job |-> jobs[c].job, for |-> jobs[c].for, waits |-> jobs[c].waits]
  BY <1>2
<1>6. jobs' = [jobs EXCEPT ![c] = [r EXCEPT !.waits = NoActor]]
  BY <1>3
<1>7. HIDE DEF r
<1>8. [r EXCEPT !.waits = NoActor] =
          [at |-> at, job |-> jobs[c].job, for |-> jobs[c].for, waits |-> NoActor]
  BY <1>5
<1>9. QED
  BY <1>3, <1>6, <1>8

\* The request that starts a scan is at rest, and the scan is on its way.
LEMMA JobStarts ==
  ASSUME PlaybackTypeOK, NEW c \in Callers, NEW s \in Scans,
         jobs' = [jobs EXCEPT ![c] = AtRest,
                              ![s] = [AtRest EXCEPT !.at = "scanning", !.job = "adopt", !.for = "api"]]
  PROVE  /\ DOMAIN jobs' = Actors /\ \A b \in Actors \ {c, s} : jobs'[b] = jobs[b]
         /\ jobs'[c] = AtRest /\ jobs'[c].at = "idle" /\ jobs'[c].job = "none"
         /\ jobs'[s] = [at |-> "scanning", job |-> "adopt", for |-> "api", waits |-> NoActor]
         /\ jobs'[s].at = "scanning" /\ jobs'[s].job = "adopt"
BY Names DEF AtRest, PlaybackTypeOK, JobsTypeOK

\* Who acts is a caller or a scan, and has the record of one.
LEMMA ActorKinds ==
  ASSUME PlaybackTypeOK, NEW a \in Actors
  PROVE  \/ a \in Callers /\ a \notin Scans /\ jobs[a] \in CallerJobs
         \/ a \in Scans /\ a \notin Callers /\ jobs[a] \in ScanJobs
BY Names DEF PlaybackTypeOK, JobsTypeOK

\* Only a caller waits for a scan or a discovery, and has a job of its own.
LEMMA WhoseJob ==
  ASSUME PlaybackTypeOK, NEW a \in Actors
  PROVE  /\ jobs[a].at \in {"cancelling", "unsearching", "walking"} => a \in Callers
         /\ jobs[a].job \in {"find", "cancel", "skips", "discover", "stop", "save"} => a \in Callers
         /\ jobs[a].at = "scanning" => a \in Scans
BY ActorKinds DEF CallerJobs, ScanJobs, Holding

\* One record changes, and it stays that of its actor: for a caller, and for a scan.
LEMMA CallerMoves ==
  ASSUME PlaybackTypeOK, NEW c \in Callers, NEW r \in CallerJobs,
         DOMAIN jobs' = Actors, jobs' = [b \in Actors |-> jobs'[b]],
         \A b \in Actors \ {c} : jobs'[b] = jobs[b], jobs'[c] = r,
         r.at = "idle" => r.job = "none", r.at = "cancelling" => r.job \in Cancelling,
         r.at = "unsearching" => r.job = "stop"
  PROVE  JobsTypeOK'
BY Names DEF PlaybackTypeOK, JobsTypeOK

\* A scan that is given a record of a scan.
LEMMA ScanMoves ==
  ASSUME PlaybackTypeOK, NEW s \in Scans, NEW r \in ScanJobs,
         DOMAIN jobs' = Actors, jobs' = [b \in Actors |-> jobs'[b]],
         \A b \in Actors \ {s} : jobs'[b] = jobs[b], jobs'[s] = r
  PROVE  JobsTypeOK'
BY Names DEF PlaybackTypeOK, JobsTypeOK

\* A caller that comes to an await of callers.
LEMMA CallerGoesOn ==
  ASSUME PlaybackTypeOK, NEW c \in Callers, NEW at \in {"locking", "walking"} \cup Holding,
         Reaches(c, at)
  PROVE  JobsTypeOK'
<1>1. c \in Actors /\ jobs[c] \in CallerJobs
  BY Names DEF PlaybackTypeOK, JobsTypeOK
<1>2. [at |-> at, job |-> jobs[c].job, for |-> jobs[c].for, waits |-> jobs[c].waits] \in CallerJobs
  BY <1>1 DEF CallerJobs
<1>3. jobs' = [b \in Actors |-> jobs'[b]]
  BY DEF PlaybackTypeOK, JobsTypeOK, Reaches
<1>4. QED
  BY <1>1, <1>2, <1>3, JobGoesOn, CallerMoves DEF Holding

\* A scan that comes to an await of scans.
LEMMA ScanGoesOn ==
  ASSUME PlaybackTypeOK, NEW s \in Scans, NEW at \in {"locking", "over"} \cup Holding, Reaches(s, at)
  PROVE  JobsTypeOK'
<1>1. s \in Actors /\ jobs[s] \in ScanJobs
  BY Names DEF PlaybackTypeOK, JobsTypeOK
<1>2. [at |-> at, job |-> jobs[s].job, for |-> jobs[s].for, waits |-> jobs[s].waits] \in ScanJobs
  BY <1>1 DEF ScanJobs
<1>3. jobs' = [b \in Actors |-> jobs'[b]]
  BY DEF PlaybackTypeOK, JobsTypeOK, Reaches
<1>4. QED
  BY <1>1, <1>2, <1>3, JobGoesOn, ScanMoves

\* An actor that comes to an await of both.
LEMMA ActorGoesOn ==
  ASSUME PlaybackTypeOK, NEW a \in Actors, NEW at \in {"locking"} \cup Holding, Reaches(a, at)
  PROVE  JobsTypeOK'
BY CallerGoesOn, ScanGoesOn, Names

\* A caller whose request has been answered.
LEMMA CallerReturns ==
  ASSUME PlaybackTypeOK, NEW c \in Callers, Returns(c)
  PROVE  JobsTypeOK'
<1>1. c \in Actors /\ AtRest \in CallerJobs /\ AtRest.job = "none" /\ AtRest.at = "idle"
  BY Names DEF AtRest, CallerJobs, InputMethods
<1>2. jobs' = [b \in Actors |-> jobs'[b]]
  BY DEF PlaybackTypeOK, JobsTypeOK, Returns
<1>3. QED
  BY <1>1, <1>2, JobReturns, CallerMoves

\* A caller whose scan has been awaited.
LEMMA CallerAwaited ==
  ASSUME PlaybackTypeOK, NEW c \in Callers, NEW at \in {"unsearching", "locking"}, Awaited(c, at),
         at = "unsearching" => jobs[c].job = "stop"
  PROVE  JobsTypeOK'
<1>1. c \in Actors /\ jobs[c] \in CallerJobs
  BY Names DEF PlaybackTypeOK, JobsTypeOK
<1>2. [at |-> at, job |-> jobs[c].job, for |-> jobs[c].for, waits |-> NoActor] \in CallerJobs
  BY <1>1 DEF CallerJobs
<1>3. jobs' = [b \in Actors |-> jobs'[b]]
  BY DEF PlaybackTypeOK, JobsTypeOK, Awaited
<1>4. QED
  BY <1>1, <1>2, <1>3, JobAwaited, CallerMoves

-----------------------------------------------------------------------------
(* Types.                                                                   *)

\* A record stays that of its actor.
LEMMA JobsTypeStep == ASSUME PlaybackInv, [PlaybackNext]_playbackVars
                    PROVE  JobsTypeOK'
<1>0. PlaybackInv /\ PlaybackTypeOK
  BY DEF PlaybackInv
<1>1. ASSUME LinkUp
      PROVE  JobsTypeOK'
  BY <1>1, <1>0, Names
     DEF LinkUp, settingsVars, inputVars, lockVars, scanVars, actionVars, orderVars,
         PlaybackTypeOK, JobsTypeOK, Holding
<1>2. ASSUME LinkDown
      PROVE  JobsTypeOK'
  BY <1>2, <1>0, Names
     DEF LinkDown, settingsVars, inputVars, lockVars, scanVars, actionVars,
         orderVars, PlaybackTypeOK, JobsTypeOK, Holding
<1>3. ASSUME SetlistChanges
      PROVE  JobsTypeOK'
  BY <1>3, <1>0, Names
     DEF SetlistChanges, settingsVars, inputVars, lockVars, scanVars, actionVars,
         orderVars, PlaybackTypeOK, JobsTypeOK, Holding
<1>4. ASSUME Observes
      PROVE  JobsTypeOK'
  BY <1>4, <1>0, Names
     DEF Observes, settingsVars, inputVars, lockVars, scanVars, actionVars,
         orderVars, PlaybackTypeOK, JobsTypeOK, Holding
<1>5. ASSUME TakesObserved
      PROVE  JobsTypeOK'
  BY <1>5, <1>0, Names
     DEF TakesObserved, ConsumerUnchanged, settingsVars, inputVars, lockVars,
         scanVars, actionVars, orderVars, PlaybackTypeOK, JobsTypeOK, Holding
<1>6. ASSUME ConsumerLocks
      PROVE  JobsTypeOK'
  BY <1>6, <1>0, Names
     DEF ConsumerLocks, ConsumerUnchanged, ConsumerRests, settingsVars, inputVars,
         lockVars, scanVars, actionVars, orderVars, PlaybackTypeOK, JobsTypeOK,
         Holding
<1>7. ASSUME ConsumerActs
      PROVE  JobsTypeOK'
  BY <1>7, <1>0, Names
     DEF ConsumerActs, ConsumerUnchanged, ConsumerRests, settingsVars, inputVars,
         lockVars, scanVars, actionVars, orderVars, PlaybackTypeOK, JobsTypeOK,
         Holding
<1>8. ASSUME ConsumerStops
      PROVE  JobsTypeOK'
  BY <1>8, <1>0, Names
     DEF ConsumerStops, ConsumerUnchanged, settingsVars, inputVars, lockVars,
         scanVars, actionVars, orderVars, PlaybackTypeOK, JobsTypeOK, Holding
<1>9. ASSUME ActionEnds
      PROVE  JobsTypeOK'
  BY <1>9, <1>0, Names
     DEF ActionEnds, ConsumerUnchanged, ConsumerRests, settingsVars, inputVars,
         lockVars, scanVars, actionVars, orderVars, PlaybackTypeOK, JobsTypeOK,
         Holding
<1>10. ASSUME MidiBegins
      PROVE  JobsTypeOK'
  BY <1>10, <1>0, Names
     DEF MidiBegins, settingsVars, inputVars, lockVars, scanVars, actionVars,
         orderVars, PlaybackTypeOK, JobsTypeOK, Holding
<1>11. ASSUME MidiEnds
      PROVE  JobsTypeOK'
  BY <1>11, <1>0, Names
     DEF MidiEnds, settingsVars, inputVars, lockVars, scanVars, actionVars,
         orderVars, PlaybackTypeOK, JobsTypeOK, Holding
<1>12. ASSUME NEW c \in Callers, NEW job \in {"find", "cancel", "skips", "discover", "stop", "save"},
              NEW for \in InputMethods, AskInput(c, job, for)
      PROVE  JobsTypeOK'
  <2>1. c \in Actors /\ scanTask \in Scans \cup {NoActor}
    BY <1>0, Names DEF PlaybackTypeOK
  <2>2. [at |-> FirstStep(job), job |-> job, for |-> for, waits |-> scanTask] \in CallerJobs
    BY <1>12, <2>1 DEF CallerJobs, FirstStep
  <2>3. jobs' = [jobs EXCEPT ![c] = [at |-> FirstStep(job), job |-> job, for |-> for,
                                     waits |-> scanTask]]
    BY <1>12 DEF AskInput
  <2>4. FirstStep(job) # "idle" /\ (FirstStep(job) = "cancelling" => job \in Cancelling)
    BY DEF FirstStep
  <2>7. FirstStep(job) # "unsearching"
    BY DEF FirstStep
  <2>5. /\ DOMAIN jobs' = Actors /\ jobs' = [b \in Actors |-> jobs'[b]]
        /\ \A b \in Actors \ {c} : jobs'[b] = jobs[b]
        /\ jobs'[c] = [at |-> FirstStep(job), job |-> job, for |-> for, waits |-> scanTask]
    BY <1>0, <2>1, <2>3 DEF PlaybackTypeOK, JobsTypeOK
  <2>6. QED
    BY <1>12, <1>0, <2>2, <2>4, <2>5, <2>7, CallerMoves
<1>13. ASSUME NEW a \in Actors, ScanAwaited(a)
      PROVE  JobsTypeOK'
  BY <1>13, <1>0, Names, WhoseJob, CallerReturns, CallerAwaited
     DEF ScanAwaited, settingsVars, inputVars, lockVars, scanVars, actionVars,
         orderVars, PlaybackTypeOK, JobsTypeOK, Holding
<1>14. ASSUME NEW a \in Actors, DiscoveryAwaited(a)
      PROVE  JobsTypeOK'
  BY <1>14, <1>0, Names, WhoseJob, CallerGoesOn
     DEF DiscoveryAwaited, settingsVars, inputVars, lockVars, scanVars, actionVars,
         orderVars, PlaybackTypeOK, JobsTypeOK, Holding
<1>15. ASSUME NEW a \in Actors, StartScan(a)
      PROVE  JobsTypeOK'
  <2>1. a \in Callers
    BY <1>15, <1>0, WhoseJob DEF StartScan
  <2>2. PICK s \in Scans :
            jobs' = [jobs EXCEPT ![a] = AtRest,
                                 ![s] = [AtRest EXCEPT !.at = "scanning", !.job = "adopt", !.for = "api"]]
    BY <1>15 DEF StartScan
  <2>3. /\ AtRest \in CallerJobs
        /\ [at |-> "scanning", job |-> "adopt", for |-> "api", waits |-> NoActor] \in ScanJobs
    BY DEF AtRest, CallerJobs, ScanJobs, InputMethods
  <2>4. jobs' = [b \in Actors |-> jobs'[b]]
    BY <1>0, <2>2 DEF PlaybackTypeOK, JobsTypeOK
  <2>5. /\ \A b \in Actors \ {a, s} : jobs'[b] = jobs[b]
        /\ jobs'[a] = AtRest /\ jobs'[a].at = "idle" /\ jobs'[a].job = "none"
        /\ jobs'[s] = [at |-> "scanning", job |-> "adopt", for |-> "api", waits |-> NoActor]
    BY <1>0, <2>1, <2>2, JobStarts
  <2>6. QED
    BY <1>0, <2>1, <2>3, <2>4, <2>5, Names DEF PlaybackTypeOK, JobsTypeOK
<1>16. ASSUME NEW a \in Actors, SaveSkips(a)
      PROVE  JobsTypeOK'
  BY <1>16, <1>0, Names, WhoseJob, CallerReturns
     DEF SaveSkips, MayLock, SkipMarks, settingsVars, inputVars, lockVars, scanVars,
         actionVars, orderVars, PlaybackTypeOK, JobsTypeOK, Holding
<1>17. ASSUME NEW a \in Actors, SaveInput(a)
      PROVE  JobsTypeOK'
  BY <1>17, <1>0, Names, ActorKinds, ActorGoesOn, ScanGoesOn, CallerReturns
     DEF SaveInput, MayLock, settingsVars, inputVars, lockVars, scanVars,
         actionVars, orderVars, PlaybackTypeOK, JobsTypeOK, Holding
<1>18. ASSUME NEW a \in Actors, BeginStop(a)
      PROVE  JobsTypeOK'
  BY <1>18, <1>0, Names, WhoseJob, ActorGoesOn
     DEF BeginStop, MayLock, settingsVars, inputVars, lockVars, scanVars,
         actionVars, orderVars, PlaybackTypeOK, JobsTypeOK, Holding
<1>19. ASSUME NEW a \in Actors, BeginDiscovery(a)
      PROVE  JobsTypeOK'
  BY <1>19, <1>0, Names, WhoseJob, CallerReturns, ActorGoesOn
     DEF BeginDiscovery, MayLock, settingsVars, inputVars, lockVars, scanVars,
         actionVars, orderVars, PlaybackTypeOK, JobsTypeOK, Holding
<1>20. ASSUME NEW a \in Actors, Discovers(a)
      PROVE  JobsTypeOK'
  BY <1>20, <1>0, Names, WhoseJob, CallerGoesOn
     DEF Discovers, NothingActs, settingsVars, inputVars, lockVars, scanVars,
         actionVars, orderVars, PlaybackTypeOK, JobsTypeOK, Holding
<1>21. ASSUME NEW a \in Actors, Quiets(a)
      PROVE  JobsTypeOK'
  BY <1>21, <1>0, Names, ActorGoesOn
     DEF Quiets, NothingActs, settingsVars, inputVars, lockVars, scanVars,
         actionVars, orderVars, PlaybackTypeOK, JobsTypeOK, Holding
<1>22. ASSUME NEW a \in Actors, InputStops(a)
      PROVE  JobsTypeOK'
  BY <1>22, <1>0, Names, ActorGoesOn
     DEF InputStops, settingsVars, inputVars, lockVars, scanVars, actionVars,
         orderVars, PlaybackTypeOK, JobsTypeOK, Holding
<1>23. ASSUME NEW a \in Actors, InputStarts(a)
      PROVE  JobsTypeOK'
  BY <1>23, <1>0, Names, ActorKinds, ScanGoesOn, CallerReturns
     DEF InputStarts, settingsVars, inputVars, lockVars, scanVars, actionVars,
         orderVars, PlaybackTypeOK, JobsTypeOK, Holding
<1>24. ASSUME NEW a \in Actors, ScanReports(a)
      PROVE  JobsTypeOK'
  BY <1>24, <1>0, Names, WhoseJob, ScanGoesOn
     DEF ScanReports, settingsVars, inputVars, lockVars, scanVars, actionVars,
         orderVars, PlaybackTypeOK, JobsTypeOK, Holding
<1>25. ASSUME NEW a \in Actors, WalkSucceeds(a)
      PROVE  JobsTypeOK'
  BY <1>25, <1>0, Names, WhoseJob, CallerReturns
     DEF WalkSucceeds, WalkEnds, settingsVars, inputVars, lockVars, scanVars,
         actionVars, orderVars, PlaybackTypeOK, JobsTypeOK, Holding
<1>26. ASSUME NEW a \in Actors, WalkFails(a)
      PROVE  JobsTypeOK'
  BY <1>26, <1>0, Names, WhoseJob, CallerReturns
     DEF WalkFails, WalkEnds, settingsVars, inputVars, lockVars, scanVars,
         actionVars, orderVars, PlaybackTypeOK, JobsTypeOK, Holding
<1>27. CASE UNCHANGED playbackVars
  BY <1>27, <1>0, Names
     DEF playbackVars, settingsVars, inputVars, lockVars, scanVars, actionVars,
         orderVars, PlaybackTypeOK, JobsTypeOK, Holding
<1>28. QED
  BY <1>1, <1>2, <1>3, <1>4, <1>5, <1>6, <1>7, <1>8, <1>9, <1>10, <1>11, <1>12, <1>13,
     <1>14, <1>15, <1>16, <1>17, <1>18, <1>19, <1>20, <1>21, <1>22, <1>23, <1>24, <1>25,
     <1>26, <1>27
     DEF PlaybackNext, Continues, Consumes, InputMethods

\* Of the flags.
LEMMA FlagsStep == ASSUME PlaybackInv, [PlaybackNext]_playbackVars
                 PROVE  FlagsTypeOK'
<1>0. PlaybackInv /\ PlaybackTypeOK
  BY DEF PlaybackInv
<1>1. ASSUME LinkUp
      PROVE  FlagsTypeOK'
  BY <1>1, <1>0, Names
     DEF LinkUp, settingsVars, inputVars, lockVars, scanVars, actionVars, orderVars,
         PlaybackTypeOK, FlagsTypeOK
<1>2. ASSUME LinkDown
      PROVE  FlagsTypeOK'
  BY <1>2, <1>0, Names
     DEF LinkDown, settingsVars, inputVars, lockVars, scanVars, actionVars,
         orderVars, PlaybackTypeOK, FlagsTypeOK
<1>3. ASSUME SetlistChanges
      PROVE  FlagsTypeOK'
  BY <1>3, <1>0, Names
     DEF SetlistChanges, settingsVars, inputVars, lockVars, scanVars, actionVars,
         orderVars, PlaybackTypeOK, FlagsTypeOK
<1>4. ASSUME Observes
      PROVE  FlagsTypeOK'
  BY <1>4, <1>0, Names
     DEF Observes, settingsVars, inputVars, lockVars, scanVars, actionVars,
         orderVars, PlaybackTypeOK, FlagsTypeOK
<1>5. ASSUME TakesObserved
      PROVE  FlagsTypeOK'
  BY <1>5, <1>0, Names
     DEF TakesObserved, ConsumerUnchanged, settingsVars, inputVars, lockVars,
         scanVars, actionVars, orderVars, PlaybackTypeOK, FlagsTypeOK
<1>6. ASSUME ConsumerLocks
      PROVE  FlagsTypeOK'
  BY <1>6, <1>0, Names
     DEF ConsumerLocks, ConsumerUnchanged, ConsumerRests, settingsVars, inputVars,
         lockVars, scanVars, actionVars, orderVars, PlaybackTypeOK, FlagsTypeOK
<1>7. ASSUME ConsumerActs
      PROVE  FlagsTypeOK'
  BY <1>7, <1>0, Names
     DEF ConsumerActs, ConsumerUnchanged, ConsumerRests, settingsVars, inputVars,
         lockVars, scanVars, actionVars, orderVars, PlaybackTypeOK, FlagsTypeOK
<1>8. ASSUME ConsumerStops
      PROVE  FlagsTypeOK'
  BY <1>8, <1>0, Names
     DEF ConsumerStops, ConsumerUnchanged, settingsVars, inputVars, lockVars,
         scanVars, actionVars, orderVars, PlaybackTypeOK, FlagsTypeOK
<1>9. ASSUME ActionEnds
      PROVE  FlagsTypeOK'
  BY <1>9, <1>0, Names
     DEF ActionEnds, ConsumerUnchanged, ConsumerRests, settingsVars, inputVars,
         lockVars, scanVars, actionVars, orderVars, PlaybackTypeOK, FlagsTypeOK
<1>10. ASSUME MidiBegins
      PROVE  FlagsTypeOK'
  BY <1>10, <1>0, Names
     DEF MidiBegins, settingsVars, inputVars, lockVars, scanVars, actionVars,
         orderVars, PlaybackTypeOK, FlagsTypeOK
<1>11. ASSUME MidiEnds
      PROVE  FlagsTypeOK'
  BY <1>11, <1>0, Names
     DEF MidiEnds, settingsVars, inputVars, lockVars, scanVars, actionVars,
         orderVars, PlaybackTypeOK, FlagsTypeOK
<1>12. ASSUME NEW c \in Callers, NEW job \in {"find", "cancel", "skips", "discover", "stop", "save"},
              NEW for \in InputMethods, AskInput(c, job, for)
      PROVE  FlagsTypeOK'
  BY <1>12, <1>0, Names
     DEF AskInput, FirstStep, settingsVars, inputVars, lockVars, scanVars,
         actionVars, orderVars, PlaybackTypeOK, FlagsTypeOK
<1>13. ASSUME NEW a \in Actors, ScanAwaited(a)
      PROVE  FlagsTypeOK'
  BY <1>13, <1>0, Names
     DEF ScanAwaited, settingsVars, inputVars, lockVars, scanVars, actionVars,
         orderVars, PlaybackTypeOK, FlagsTypeOK
<1>14. ASSUME NEW a \in Actors, DiscoveryAwaited(a)
      PROVE  FlagsTypeOK'
  BY <1>14, <1>0, Names
     DEF DiscoveryAwaited, settingsVars, inputVars, lockVars, scanVars, actionVars,
         orderVars, PlaybackTypeOK, FlagsTypeOK
<1>15. ASSUME NEW a \in Actors, StartScan(a)
      PROVE  FlagsTypeOK'
  BY <1>15, <1>0, Names
     DEF StartScan, MayLock, settingsVars, inputVars, lockVars, scanVars,
         actionVars, orderVars, PlaybackTypeOK, FlagsTypeOK
<1>16. ASSUME NEW a \in Actors, SaveSkips(a)
      PROVE  FlagsTypeOK'
  BY <1>16, <1>0, Names
     DEF SaveSkips, MayLock, SkipMarks, settingsVars, inputVars, lockVars, scanVars,
         actionVars, orderVars, PlaybackTypeOK, FlagsTypeOK
<1>17. ASSUME NEW a \in Actors, SaveInput(a)
      PROVE  FlagsTypeOK'
  BY <1>17, <1>0, Names
     DEF SaveInput, MayLock, settingsVars, inputVars, lockVars, scanVars,
         actionVars, orderVars, PlaybackTypeOK, FlagsTypeOK
<1>18. ASSUME NEW a \in Actors, BeginStop(a)
      PROVE  FlagsTypeOK'
  BY <1>18, <1>0, Names
     DEF BeginStop, MayLock, settingsVars, inputVars, lockVars, scanVars,
         actionVars, orderVars, PlaybackTypeOK, FlagsTypeOK
<1>19. ASSUME NEW a \in Actors, BeginDiscovery(a)
      PROVE  FlagsTypeOK'
  BY <1>19, <1>0, Names
     DEF BeginDiscovery, MayLock, settingsVars, inputVars, lockVars, scanVars,
         actionVars, orderVars, PlaybackTypeOK, FlagsTypeOK
<1>20. ASSUME NEW a \in Actors, Discovers(a)
      PROVE  FlagsTypeOK'
  BY <1>20, <1>0, Names
     DEF Discovers, NothingActs, settingsVars, inputVars, lockVars, scanVars,
         actionVars, orderVars, PlaybackTypeOK, FlagsTypeOK
<1>21. ASSUME NEW a \in Actors, Quiets(a)
      PROVE  FlagsTypeOK'
  BY <1>21, <1>0, Names
     DEF Quiets, NothingActs, settingsVars, inputVars, lockVars, scanVars,
         actionVars, orderVars, PlaybackTypeOK, FlagsTypeOK
<1>22. ASSUME NEW a \in Actors, InputStops(a)
      PROVE  FlagsTypeOK'
  BY <1>22, <1>0, Names
     DEF InputStops, settingsVars, inputVars, lockVars, scanVars, actionVars,
         orderVars, PlaybackTypeOK, FlagsTypeOK
<1>23. ASSUME NEW a \in Actors, InputStarts(a)
      PROVE  FlagsTypeOK'
  BY <1>23, <1>0, Names
     DEF InputStarts, settingsVars, inputVars, lockVars, scanVars, actionVars,
         orderVars, PlaybackTypeOK, FlagsTypeOK
<1>24. ASSUME NEW a \in Actors, ScanReports(a)
      PROVE  FlagsTypeOK'
  BY <1>24, <1>0, Names
     DEF ScanReports, settingsVars, inputVars, lockVars, scanVars, actionVars,
         orderVars, PlaybackTypeOK, FlagsTypeOK
<1>25. ASSUME NEW a \in Actors, WalkSucceeds(a)
      PROVE  FlagsTypeOK'
  BY <1>25, <1>0, Names
     DEF WalkSucceeds, WalkEnds, settingsVars, inputVars, lockVars, scanVars,
         actionVars, orderVars, PlaybackTypeOK, FlagsTypeOK
<1>26. ASSUME NEW a \in Actors, WalkFails(a)
      PROVE  FlagsTypeOK'
  BY <1>26, <1>0, Names
     DEF WalkFails, WalkEnds, settingsVars, inputVars, lockVars, scanVars,
         actionVars, orderVars, PlaybackTypeOK, FlagsTypeOK
<1>27. CASE UNCHANGED playbackVars
  BY <1>27, <1>0, Names
     DEF playbackVars, settingsVars, inputVars, lockVars, scanVars, actionVars,
         orderVars, PlaybackTypeOK, FlagsTypeOK
<1>28. QED
  BY <1>1, <1>2, <1>3, <1>4, <1>5, <1>6, <1>7, <1>8, <1>9, <1>10, <1>11, <1>12, <1>13,
     <1>14, <1>15, <1>16, <1>17, <1>18, <1>19, <1>20, <1>21, <1>22, <1>23, <1>24, <1>25,
     <1>26, <1>27
     DEF PlaybackNext, Continues, Consumes, InputMethods

\* Of the observations.
LEMMA QueueStep == ASSUME PlaybackInv, [PlaybackNext]_playbackVars
                 PROVE  QueueTypeOK'
<1>0. PlaybackInv /\ PlaybackTypeOK
  BY DEF PlaybackInv
<1>1. ASSUME LinkUp
      PROVE  QueueTypeOK'
  BY <1>1, <1>0, Names, FreshIsItem, MarksKeep
     DEF LinkUp, settingsVars, inputVars, lockVars, scanVars, actionVars, orderVars,
         PlaybackTypeOK, QueueTypeOK, Items
<1>2. ASSUME LinkDown
      PROVE  QueueTypeOK'
  BY <1>2, <1>0, Names, FreshIsItem, MarksKeep
     DEF LinkDown, settingsVars, inputVars, lockVars, scanVars, actionVars,
         orderVars, PlaybackTypeOK, QueueTypeOK, Items
<1>3. ASSUME SetlistChanges
      PROVE  QueueTypeOK'
  BY <1>3, <1>0, Names, FreshIsItem, MarksKeep
     DEF SetlistChanges, settingsVars, inputVars, lockVars, scanVars, actionVars,
         orderVars, PlaybackTypeOK, QueueTypeOK, Items
<1>4. ASSUME Observes
      PROVE  QueueTypeOK'
  <2>1. [FreshItem EXCEPT !.quiet = (discovery = "running")] \in Items
    BY DEF FreshItem, Items
  <2>2. QED
    BY <1>4, <1>0, <2>1 DEF Observes, PlaybackTypeOK, QueueTypeOK
<1>5. ASSUME TakesObserved
      PROVE  QueueTypeOK'
  <2>1. Head(observed) \in Items /\ Tail(observed) \in Seq(Items)
    BY <1>5, <1>0 DEF TakesObserved, PlaybackTypeOK, QueueTypeOK
  <2>2. QED
    BY <1>5, <2>1 DEF TakesObserved, QueueTypeOK
<1>6. ASSUME ConsumerLocks
      PROVE  QueueTypeOK'
  BY <1>6, <1>0, Names, FreshIsItem
     DEF ConsumerLocks, ConsumerUnchanged, ConsumerRests, settingsVars, inputVars,
         lockVars, scanVars, actionVars, orderVars, PlaybackTypeOK, QueueTypeOK,
         Items
<1>7. ASSUME ConsumerActs
      PROVE  QueueTypeOK'
  BY <1>7, <1>0, Names, FreshIsItem
     DEF ConsumerActs, ConsumerUnchanged, ConsumerRests, settingsVars, inputVars,
         lockVars, scanVars, actionVars, orderVars, PlaybackTypeOK, QueueTypeOK,
         Items
<1>8. ASSUME ConsumerStops
      PROVE  QueueTypeOK'
  BY <1>8, <1>0, Names, FreshIsItem
     DEF ConsumerStops, ConsumerUnchanged, settingsVars, inputVars, lockVars,
         scanVars, actionVars, orderVars, PlaybackTypeOK, QueueTypeOK, Items
<1>9. ASSUME ActionEnds
      PROVE  QueueTypeOK'
  BY <1>9, <1>0, Names, FreshIsItem
     DEF ActionEnds, ConsumerUnchanged, ConsumerRests, settingsVars, inputVars,
         lockVars, scanVars, actionVars, orderVars, PlaybackTypeOK, QueueTypeOK,
         Items
<1>10. ASSUME MidiBegins
      PROVE  QueueTypeOK'
  BY <1>10, <1>0, Names, FreshIsItem
     DEF MidiBegins, settingsVars, inputVars, lockVars, scanVars, actionVars,
         orderVars, PlaybackTypeOK, QueueTypeOK, Items
<1>11. ASSUME MidiEnds
      PROVE  QueueTypeOK'
  BY <1>11, <1>0, Names, FreshIsItem
     DEF MidiEnds, settingsVars, inputVars, lockVars, scanVars, actionVars,
         orderVars, PlaybackTypeOK, QueueTypeOK, Items
<1>12. ASSUME NEW c \in Callers, NEW job \in {"find", "cancel", "skips", "discover", "stop", "save"},
              NEW for \in InputMethods, AskInput(c, job, for)
      PROVE  QueueTypeOK'
  BY <1>12, <1>0, Names, FreshIsItem
     DEF AskInput, FirstStep, settingsVars, inputVars, lockVars, scanVars,
         actionVars, orderVars, PlaybackTypeOK, QueueTypeOK, Items
<1>13. ASSUME NEW a \in Actors, ScanAwaited(a)
      PROVE  QueueTypeOK'
  BY <1>13, <1>0, Names, FreshIsItem
     DEF ScanAwaited, settingsVars, inputVars, lockVars, scanVars, actionVars,
         orderVars, PlaybackTypeOK, QueueTypeOK, Items
<1>14. ASSUME NEW a \in Actors, DiscoveryAwaited(a)
      PROVE  QueueTypeOK'
  BY <1>14, <1>0, Names, FreshIsItem
     DEF DiscoveryAwaited, settingsVars, inputVars, lockVars, scanVars, actionVars,
         orderVars, PlaybackTypeOK, QueueTypeOK, Items
<1>15. ASSUME NEW a \in Actors, StartScan(a)
      PROVE  QueueTypeOK'
  BY <1>15, <1>0, Names, FreshIsItem
     DEF StartScan, MayLock, settingsVars, inputVars, lockVars, scanVars,
         actionVars, orderVars, PlaybackTypeOK, QueueTypeOK, Items
<1>16. ASSUME NEW a \in Actors, SaveSkips(a)
      PROVE  QueueTypeOK'
  BY <1>16, <1>0, Names, FreshIsItem, MarksKeep
     DEF SaveSkips, MayLock, SkipMarks, settingsVars, inputVars, lockVars, scanVars,
         actionVars, orderVars, PlaybackTypeOK, QueueTypeOK, Items
<1>17. ASSUME NEW a \in Actors, SaveInput(a)
      PROVE  QueueTypeOK'
  BY <1>17, <1>0, Names, FreshIsItem
     DEF SaveInput, MayLock, settingsVars, inputVars, lockVars, scanVars,
         actionVars, orderVars, PlaybackTypeOK, QueueTypeOK, Items
<1>18. ASSUME NEW a \in Actors, BeginStop(a)
      PROVE  QueueTypeOK'
  BY <1>18, <1>0, Names, FreshIsItem
     DEF BeginStop, MayLock, settingsVars, inputVars, lockVars, scanVars,
         actionVars, orderVars, PlaybackTypeOK, QueueTypeOK, Items
<1>19. ASSUME NEW a \in Actors, BeginDiscovery(a)
      PROVE  QueueTypeOK'
  BY <1>19, <1>0, Names, FreshIsItem
     DEF BeginDiscovery, MayLock, settingsVars, inputVars, lockVars, scanVars,
         actionVars, orderVars, PlaybackTypeOK, QueueTypeOK, Items
<1>20. ASSUME NEW a \in Actors, Discovers(a)
      PROVE  QueueTypeOK'
  BY <1>20, <1>0, Names, FreshIsItem, MarksKeep
     DEF Discovers, NothingActs, settingsVars, inputVars, lockVars, scanVars,
         actionVars, orderVars, PlaybackTypeOK, QueueTypeOK, Items
<1>21. ASSUME NEW a \in Actors, Quiets(a)
      PROVE  QueueTypeOK'
  BY <1>21, <1>0, Names, FreshIsItem, MarksKeep
     DEF Quiets, NothingActs, settingsVars, inputVars, lockVars, scanVars,
         actionVars, orderVars, PlaybackTypeOK, QueueTypeOK, Items
<1>22. ASSUME NEW a \in Actors, InputStops(a)
      PROVE  QueueTypeOK'
  BY <1>22, <1>0, Names, FreshIsItem
     DEF InputStops, settingsVars, inputVars, lockVars, scanVars, actionVars,
         orderVars, PlaybackTypeOK, QueueTypeOK, Items
<1>23. ASSUME NEW a \in Actors, InputStarts(a)
      PROVE  QueueTypeOK'
  BY <1>23, <1>0, Names, FreshIsItem
     DEF InputStarts, settingsVars, inputVars, lockVars, scanVars, actionVars,
         orderVars, PlaybackTypeOK, QueueTypeOK, Items
<1>24. ASSUME NEW a \in Actors, ScanReports(a)
      PROVE  QueueTypeOK'
  BY <1>24, <1>0, Names, FreshIsItem
     DEF ScanReports, settingsVars, inputVars, lockVars, scanVars, actionVars,
         orderVars, PlaybackTypeOK, QueueTypeOK, Items
<1>25. ASSUME NEW a \in Actors, WalkSucceeds(a)
      PROVE  QueueTypeOK'
  BY <1>25, <1>0, Names, FreshIsItem, MarksKeep
     DEF WalkSucceeds, WalkEnds, settingsVars, inputVars, lockVars, scanVars,
         actionVars, orderVars, PlaybackTypeOK, QueueTypeOK, Items
<1>26. ASSUME NEW a \in Actors, WalkFails(a)
      PROVE  QueueTypeOK'
  BY <1>26, <1>0, Names, FreshIsItem, MarksKeep
     DEF WalkFails, WalkEnds, settingsVars, inputVars, lockVars, scanVars,
         actionVars, orderVars, PlaybackTypeOK, QueueTypeOK, Items
<1>27. CASE UNCHANGED playbackVars
  BY <1>27, <1>0, Names, FreshIsItem
     DEF playbackVars, settingsVars, inputVars, lockVars, scanVars, actionVars,
         orderVars, PlaybackTypeOK, QueueTypeOK, Items
<1>28. QED
  BY <1>1, <1>2, <1>3, <1>4, <1>5, <1>6, <1>7, <1>8, <1>9, <1>10, <1>11, <1>12, <1>13,
     <1>14, <1>15, <1>16, <1>17, <1>18, <1>19, <1>20, <1>21, <1>22, <1>23, <1>24, <1>25,
     <1>26, <1>27
     DEF PlaybackNext, Continues, Consumes, InputMethods

\* Every variable keeps its type.
LEMMA TypeStep == ASSUME PlaybackInv, [PlaybackNext]_playbackVars
                PROVE  PlaybackTypeOK'
<1>0. PlaybackInv /\ PlaybackTypeOK /\ JobsTypeOK' /\ FlagsTypeOK' /\ QueueTypeOK'
  BY JobsTypeStep, FlagsStep, QueueStep DEF PlaybackInv
<1>1. ASSUME LinkUp
      PROVE  PlaybackTypeOK'
  BY <1>1, <1>0, Names
     DEF LinkUp, settingsVars, inputVars, lockVars, scanVars, actionVars, orderVars,
         PlaybackTypeOK, InputMethods
<1>2. ASSUME LinkDown
      PROVE  PlaybackTypeOK'
  BY <1>2, <1>0, Names
     DEF LinkDown, settingsVars, inputVars, lockVars, scanVars, actionVars,
         orderVars, PlaybackTypeOK, InputMethods
<1>3. ASSUME SetlistChanges
      PROVE  PlaybackTypeOK'
  BY <1>3, <1>0, Names
     DEF SetlistChanges, settingsVars, inputVars, lockVars, scanVars, actionVars,
         orderVars, PlaybackTypeOK, InputMethods
<1>4. ASSUME Observes
      PROVE  PlaybackTypeOK'
  BY <1>4, <1>0, Names
     DEF Observes, settingsVars, inputVars, lockVars, scanVars, actionVars,
         orderVars, PlaybackTypeOK, InputMethods
<1>5. ASSUME TakesObserved
      PROVE  PlaybackTypeOK'
  BY <1>5, <1>0, Names
     DEF TakesObserved, ConsumerUnchanged, settingsVars, inputVars, lockVars,
         scanVars, actionVars, orderVars, PlaybackTypeOK, InputMethods
<1>6. ASSUME ConsumerLocks
      PROVE  PlaybackTypeOK'
  BY <1>6, <1>0, Names
     DEF ConsumerLocks, ConsumerUnchanged, ConsumerRests, settingsVars, inputVars,
         lockVars, scanVars, actionVars, orderVars, PlaybackTypeOK, InputMethods
<1>7. ASSUME ConsumerActs
      PROVE  PlaybackTypeOK'
  BY <1>7, <1>0, Names
     DEF ConsumerActs, ConsumerUnchanged, ConsumerRests, settingsVars, inputVars,
         lockVars, scanVars, actionVars, orderVars, PlaybackTypeOK, InputMethods
<1>8. ASSUME ConsumerStops
      PROVE  PlaybackTypeOK'
  BY <1>8, <1>0, Names
     DEF ConsumerStops, ConsumerUnchanged, settingsVars, inputVars, lockVars,
         scanVars, actionVars, orderVars, PlaybackTypeOK, InputMethods
<1>9. ASSUME ActionEnds
      PROVE  PlaybackTypeOK'
  BY <1>9, <1>0, Names
     DEF ActionEnds, ConsumerUnchanged, ConsumerRests, settingsVars, inputVars,
         lockVars, scanVars, actionVars, orderVars, PlaybackTypeOK, InputMethods
<1>10. ASSUME MidiBegins
      PROVE  PlaybackTypeOK'
  BY <1>10, <1>0, Names
     DEF MidiBegins, settingsVars, inputVars, lockVars, scanVars, actionVars,
         orderVars, PlaybackTypeOK, InputMethods
<1>11. ASSUME MidiEnds
      PROVE  PlaybackTypeOK'
  BY <1>11, <1>0, Names
     DEF MidiEnds, settingsVars, inputVars, lockVars, scanVars, actionVars,
         orderVars, PlaybackTypeOK, InputMethods
<1>12. ASSUME NEW c \in Callers, NEW job \in {"find", "cancel", "skips", "discover", "stop", "save"},
              NEW for \in InputMethods, AskInput(c, job, for)
      PROVE  PlaybackTypeOK'
  BY <1>12, <1>0, Names
     DEF AskInput, FirstStep, settingsVars, inputVars, lockVars, scanVars,
         actionVars, orderVars, PlaybackTypeOK, InputMethods
<1>13. ASSUME NEW a \in Actors, ScanAwaited(a)
      PROVE  PlaybackTypeOK'
  BY <1>13, <1>0, Names
     DEF ScanAwaited, settingsVars, inputVars, lockVars, scanVars, actionVars,
         orderVars, PlaybackTypeOK, InputMethods
<1>14. ASSUME NEW a \in Actors, DiscoveryAwaited(a)
      PROVE  PlaybackTypeOK'
  BY <1>14, <1>0, Names
     DEF DiscoveryAwaited, settingsVars, inputVars, lockVars, scanVars, actionVars,
         orderVars, PlaybackTypeOK, InputMethods
<1>15. ASSUME NEW a \in Actors, StartScan(a)
      PROVE  PlaybackTypeOK'
  BY <1>15, <1>0, Names
     DEF StartScan, MayLock, settingsVars, inputVars, lockVars, scanVars,
         actionVars, orderVars, PlaybackTypeOK, InputMethods
<1>16. ASSUME NEW a \in Actors, SaveSkips(a)
      PROVE  PlaybackTypeOK'
  BY <1>16, <1>0, Names
     DEF SaveSkips, MayLock, SkipMarks, settingsVars, inputVars, lockVars, scanVars,
         actionVars, orderVars, PlaybackTypeOK, InputMethods
<1>17. ASSUME NEW a \in Actors, SaveInput(a)
      PROVE  PlaybackTypeOK'
  BY <1>17, <1>0, Names, ActorKinds
     DEF SaveInput, MayLock, settingsVars, inputVars, lockVars, scanVars,
         actionVars, orderVars, PlaybackTypeOK, InputMethods, CallerJobs, ScanJobs
<1>18. ASSUME NEW a \in Actors, BeginStop(a)
      PROVE  PlaybackTypeOK'
  BY <1>18, <1>0, Names
     DEF BeginStop, MayLock, settingsVars, inputVars, lockVars, scanVars,
         actionVars, orderVars, PlaybackTypeOK, InputMethods
<1>19. ASSUME NEW a \in Actors, BeginDiscovery(a)
      PROVE  PlaybackTypeOK'
  BY <1>19, <1>0, Names
     DEF BeginDiscovery, MayLock, settingsVars, inputVars, lockVars, scanVars,
         actionVars, orderVars, PlaybackTypeOK, InputMethods
<1>20. ASSUME NEW a \in Actors, Discovers(a)
      PROVE  PlaybackTypeOK'
  BY <1>20, <1>0, Names
     DEF Discovers, NothingActs, settingsVars, inputVars, lockVars, scanVars,
         actionVars, orderVars, PlaybackTypeOK, InputMethods
<1>21. ASSUME NEW a \in Actors, Quiets(a)
      PROVE  PlaybackTypeOK'
  BY <1>21, <1>0, Names
     DEF Quiets, NothingActs, settingsVars, inputVars, lockVars, scanVars,
         actionVars, orderVars, PlaybackTypeOK, InputMethods
<1>22. ASSUME NEW a \in Actors, InputStops(a)
      PROVE  PlaybackTypeOK'
  BY <1>22, <1>0, Names
     DEF InputStops, settingsVars, inputVars, lockVars, scanVars, actionVars,
         orderVars, PlaybackTypeOK, InputMethods
<1>23. ASSUME NEW a \in Actors, InputStarts(a)
      PROVE  PlaybackTypeOK'
  BY <1>23, <1>0, Names
     DEF InputStarts, settingsVars, inputVars, lockVars, scanVars, actionVars,
         orderVars, PlaybackTypeOK, InputMethods
<1>24. ASSUME NEW a \in Actors, ScanReports(a)
      PROVE  PlaybackTypeOK'
  BY <1>24, <1>0, Names
     DEF ScanReports, settingsVars, inputVars, lockVars, scanVars, actionVars,
         orderVars, PlaybackTypeOK, InputMethods
<1>25. ASSUME NEW a \in Actors, WalkSucceeds(a)
      PROVE  PlaybackTypeOK'
  BY <1>25, <1>0, Names
     DEF WalkSucceeds, WalkEnds, settingsVars, inputVars, lockVars, scanVars,
         actionVars, orderVars, PlaybackTypeOK, InputMethods
<1>26. ASSUME NEW a \in Actors, WalkFails(a)
      PROVE  PlaybackTypeOK'
  BY <1>26, <1>0, Names
     DEF WalkFails, WalkEnds, settingsVars, inputVars, lockVars, scanVars,
         actionVars, orderVars, PlaybackTypeOK, InputMethods
<1>27. CASE UNCHANGED playbackVars
  BY <1>27, <1>0, Names
     DEF playbackVars, settingsVars, inputVars, lockVars, scanVars, actionVars,
         orderVars, PlaybackTypeOK, InputMethods
<1>28. QED
  BY <1>1, <1>2, <1>3, <1>4, <1>5, <1>6, <1>7, <1>8, <1>9, <1>10, <1>11, <1>12, <1>13,
     <1>14, <1>15, <1>16, <1>17, <1>18, <1>19, <1>20, <1>21, <1>22, <1>23, <1>24, <1>25,
     <1>26, <1>27
     DEF PlaybackNext, Continues, Consumes, InputMethods

-----------------------------------------------------------------------------
(* What every step preserves.                                               *)

\* The actor comes to the await, with the job; the others stay where they are.
StepTo(a, at, job) ==
    /\ jobs'[a].at = at /\ jobs'[a].job = job
    /\ \A b \in Actors \ {a} : jobs'[b] = jobs[b]

\* An actor that comes to the next await, as a step.
LEMMA GoesTo ==
  ASSUME PlaybackTypeOK, NEW a \in Actors, NEW at, Reaches(a, at)
  PROVE  StepTo(a, at, jobs[a].job)
BY JobGoesOn DEF StepTo

\* An actor that returns, as a step.
LEMMA ReturnsTo ==
  ASSUME PlaybackTypeOK, NEW a \in Actors, Returns(a)
  PROVE  StepTo(a, "idle", "none")
BY JobReturns DEF StepTo

\* Only a job that cancels waits for the scan.
LEMMA CancellingJob ==
  ASSUME PlaybackTypeOK, NEW c \in Callers
  PROVE  jobs[c].at = "cancelling" => jobs[c].job \in Cancelling
BY DEF PlaybackTypeOK, JobsTypeOK

\* Where each step leaves who takes it.
LEMMA ScanAwaitedEffect ==
  ASSUME PlaybackTypeOK, NEW a \in Actors, ScanAwaited(a)
  PROVE  /\ a \in Callers /\ jobs[a].at = "cancelling" /\ jobs[a].job \in Cancelling
         /\ \/ jobs[a].job = "cancel" /\ StepTo(a, "idle", "none")
            \/ jobs[a].job = "stop" /\ StepTo(a, "unsearching", "stop")
            \/ jobs[a].job \notin {"cancel", "stop"} /\ StepTo(a, "locking", jobs[a].job)
BY WhoseJob, ReturnsTo, JobAwaited, CancellingJob
   DEF ScanAwaited, StepTo

\* The stop goes on to the lock.
LEMMA DiscoveryAwaitedEffect ==
  ASSUME PlaybackTypeOK, NEW a \in Actors, DiscoveryAwaited(a)
  PROVE  /\ a \in Callers /\ jobs[a].at = "unsearching" /\ jobs[a].job = "stop"
         /\ StepTo(a, "locking", "stop")
BY WhoseJob, GoesTo
   DEF DiscoveryAwaited, PlaybackTypeOK, JobsTypeOK

\* The request is answered, and the scan has begun.
LEMMA StartScanEffect ==
  ASSUME PlaybackTypeOK, NEW a \in Actors, StartScan(a)
  PROVE  /\ a \in Callers /\ jobs[a].at = "locking" /\ jobs[a].job = "find"
         /\ lifecycle = NoActor
         /\ jobs'[a].at = "idle" /\ jobs'[a].job = "none"
         /\ \E s \in Scans : /\ jobs[s].at = "idle" /\ s # a
                             /\ jobs'[s].at = "scanning" /\ jobs'[s].job = "adopt"
                             /\ \A b \in Actors \ {a, s} : jobs'[b] = jobs[b]
                             /\ scanTask' = s
<1>1. /\ a \in Callers /\ jobs[a].at = "locking" /\ jobs[a].job = "find" /\ lifecycle = NoActor
  BY WhoseJob DEF StartScan, MayLock
<1>2. PICK s \in Scans :
          /\ jobs[s].at = "idle" /\ scanTask' = s
          /\ jobs' = [jobs EXCEPT ![a] = AtRest,
                                  ![s] = [AtRest EXCEPT !.at = "scanning", !.job = "adopt", !.for = "api"]]
  BY DEF StartScan
<1>3. QED
  BY <1>1, <1>2, JobStarts, Names

\* The skips are saved under the lock, and the request is answered.
LEMMA SaveSkipsEffect ==
  ASSUME PlaybackTypeOK, NEW a \in Actors, SaveSkips(a)
  PROVE  a \in Callers /\ jobs[a].at = "locking" /\ jobs[a].job = "skips" /\ StepTo(a, "idle", "none")
BY WhoseJob, ReturnsTo
   DEF SaveSkips, MayLock

\* A save is refused, or the lock is held for the change.
LEMMA SaveInputEffect ==
  ASSUME PlaybackTypeOK, NEW a \in Actors, SaveInput(a)
  PROVE  /\ jobs[a].at = "locking" /\ jobs[a].job \in {"save", "adopt"} /\ lifecycle = NoActor
         /\ \/ /\ StepTo(a, "idle", "none") \/ StepTo(a, "over", jobs[a].job)
               /\ UNCHANGED <<storedChoice, lifecycle>>
            \/ StepTo(a, "quieting", jobs[a].job) /\ lifecycle' = a
BY GoesTo, ReturnsTo
   DEF SaveInput, MayLock

\* The stop holds the lock.
LEMMA BeginStopEffect ==
  ASSUME PlaybackTypeOK, NEW a \in Actors, BeginStop(a)
  PROVE  /\ a \in Callers /\ jobs[a].at = "locking" /\ jobs[a].job = "stop" /\ lifecycle = NoActor
         /\ StepTo(a, "quieting", "stop") /\ lifecycle' = a
BY WhoseJob, GoesTo
   DEF BeginStop, MayLock

\* A discovery is refused, or holds the lock.
LEMMA BeginDiscoveryEffect ==
  ASSUME PlaybackTypeOK, NEW a \in Actors, BeginDiscovery(a)
  PROVE  /\ a \in Callers /\ jobs[a].at = "locking" /\ jobs[a].job = "discover" /\ lifecycle = NoActor
         /\ \/ StepTo(a, "idle", "none") /\ UNCHANGED lifecycle
            \/ StepTo(a, "quieting", "discover") /\ lifecycle' = a /\ receiving /\ linked
BY WhoseJob, GoesTo, ReturnsTo
   DEF BeginDiscovery, MayLock

\* The discovery gives the lock up and walks.
LEMMA DiscoversEffect ==
  ASSUME PlaybackTypeOK, NEW a \in Actors, Discovers(a)
  PROVE  /\ a \in Callers /\ jobs[a].at = "quieting" /\ jobs[a].job = "discover"
         /\ dispatching = NoActor /\ StepTo(a, "walking", "discover") /\ lifecycle' = NoActor
BY WhoseJob, GoesTo
   DEF Discovers, NothingActs

\* The change holds the dispatch lock as well.
LEMMA QuietsEffect ==
  ASSUME PlaybackTypeOK, NEW a \in Actors, Quiets(a)
  PROVE  /\ jobs[a].at = "quieting" /\ jobs[a].job # "discover"
         /\ dispatching = NoActor /\ StepTo(a, "stopping", jobs[a].job) /\ dispatching' = a
BY GoesTo
   DEF Quiets, NothingActs

\* The change goes on, with nothing of the old input left.
LEMMA InputStopsEffect ==
  ASSUME PlaybackTypeOK, NEW a \in Actors, InputStops(a)
  PROVE  jobs[a].at = "stopping" /\ StepTo(a, "stopped", jobs[a].job)
BY GoesTo
   DEF InputStops

\* The change is over, and both locks are free.
LEMMA InputStartsEffect ==
  ASSUME PlaybackTypeOK, NEW a \in Actors, InputStarts(a)
  PROVE  /\ jobs[a].at = "stopped" /\ lifecycle' = NoActor /\ dispatching' = NoActor
         /\ StepTo(a, "over", jobs[a].job) \/ StepTo(a, "idle", "none")
BY GoesTo, ReturnsTo
   DEF InputStarts

\* The scan asks for the lock, or is over.
LEMMA ScanReportsEffect ==
  ASSUME PlaybackTypeOK, NEW a \in Actors, ScanReports(a)
  PROVE  /\ a \in Scans /\ jobs[a].at = "scanning"
         /\ StepTo(a, "locking", jobs[a].job) \/ StepTo(a, "over", jobs[a].job)
BY WhoseJob, GoesTo
   DEF ScanReports

\* The discovery is over.
LEMMA WalkSucceedsEffect ==
  ASSUME PlaybackTypeOK, NEW a \in Actors, WalkSucceeds(a)
  PROVE  a \in Callers /\ jobs[a].at = "walking" /\ StepTo(a, "idle", "none")
BY WhoseJob, ReturnsTo
   DEF WalkSucceeds, WalkEnds

\* The discovery is over, without a result.
LEMMA WalkFailsEffect ==
  ASSUME PlaybackTypeOK, NEW a \in Actors, WalkFails(a)
  PROVE  a \in Callers /\ jobs[a].at = "walking" /\ StepTo(a, "idle", "none")
BY WhoseJob, ReturnsTo
   DEF WalkFails, WalkEnds

\* The request is at its first await.
LEMMA AskInputEffect ==
  ASSUME PlaybackTypeOK, NEW c \in Callers, NEW job, NEW for, AskInput(c, job, for)
  PROVE  /\ jobs[c].at = "idle" /\ StepTo(c, FirstStep(job), job) /\ c \in Actors
         /\ jobs'[c].waits = scanTask
BY Names DEF AskInput, StepTo, PlaybackTypeOK, JobsTypeOK

\* The lifecycle lock is held by who is at an await under it.
LEMMA LifecycleStep == ASSUME PlaybackInv, [PlaybackNext]_playbackVars
                     PROVE  LifecycleHeld'
<1>0. PlaybackInv /\ PlaybackTypeOK
  BY DEF PlaybackInv
<1>1. ASSUME LinkUp
      PROVE  LifecycleHeld'
  BY <1>1, <1>0, Names
     DEF LinkUp, settingsVars, inputVars, lockVars, scanVars, actionVars, orderVars,
         StepTo, PlaybackInv, LifecycleHeld, Holding, PlaybackTypeOK
<1>2. ASSUME LinkDown
      PROVE  LifecycleHeld'
  BY <1>2, <1>0, Names
     DEF LinkDown, settingsVars, inputVars, lockVars, scanVars, actionVars,
         orderVars, StepTo, PlaybackInv, LifecycleHeld, Holding, PlaybackTypeOK
<1>3. ASSUME SetlistChanges
      PROVE  LifecycleHeld'
  BY <1>3, <1>0, Names
     DEF SetlistChanges, settingsVars, inputVars, lockVars, scanVars, actionVars,
         orderVars, StepTo, PlaybackInv, LifecycleHeld, Holding, PlaybackTypeOK
<1>4. ASSUME Observes
      PROVE  LifecycleHeld'
  BY <1>4, <1>0, Names
     DEF Observes, settingsVars, inputVars, lockVars, scanVars, actionVars,
         orderVars, StepTo, PlaybackInv, LifecycleHeld, Holding, PlaybackTypeOK
<1>5. ASSUME TakesObserved
      PROVE  LifecycleHeld'
  BY <1>5, <1>0, Names
     DEF TakesObserved, ConsumerUnchanged, settingsVars, inputVars, lockVars,
         scanVars, actionVars, orderVars, StepTo, PlaybackInv, LifecycleHeld,
         Holding, PlaybackTypeOK
<1>6. ASSUME ConsumerLocks
      PROVE  LifecycleHeld'
  BY <1>6, <1>0, Names
     DEF ConsumerLocks, ConsumerUnchanged, ConsumerRests, settingsVars, inputVars,
         lockVars, scanVars, actionVars, orderVars, StepTo, PlaybackInv,
         LifecycleHeld, Holding, PlaybackTypeOK
<1>7. ASSUME ConsumerActs
      PROVE  LifecycleHeld'
  BY <1>7, <1>0, Names
     DEF ConsumerActs, ConsumerUnchanged, ConsumerRests, settingsVars, inputVars,
         lockVars, scanVars, actionVars, orderVars, StepTo, PlaybackInv,
         LifecycleHeld, Holding, PlaybackTypeOK
<1>8. ASSUME ConsumerStops
      PROVE  LifecycleHeld'
  BY <1>8, <1>0, Names
     DEF ConsumerStops, ConsumerUnchanged, settingsVars, inputVars, lockVars,
         scanVars, actionVars, orderVars, StepTo, PlaybackInv, LifecycleHeld,
         Holding, PlaybackTypeOK
<1>9. ASSUME ActionEnds
      PROVE  LifecycleHeld'
  BY <1>9, <1>0, Names
     DEF ActionEnds, ConsumerUnchanged, ConsumerRests, settingsVars, inputVars,
         lockVars, scanVars, actionVars, orderVars, StepTo, PlaybackInv,
         LifecycleHeld, Holding, PlaybackTypeOK
<1>10. ASSUME MidiBegins
      PROVE  LifecycleHeld'
  BY <1>10, <1>0, Names
     DEF MidiBegins, settingsVars, inputVars, lockVars, scanVars, actionVars,
         orderVars, StepTo, PlaybackInv, LifecycleHeld, Holding, PlaybackTypeOK
<1>11. ASSUME MidiEnds
      PROVE  LifecycleHeld'
  BY <1>11, <1>0, Names
     DEF MidiEnds, settingsVars, inputVars, lockVars, scanVars, actionVars,
         orderVars, StepTo, PlaybackInv, LifecycleHeld, Holding, PlaybackTypeOK
<1>12. ASSUME NEW c \in Callers, NEW job \in {"find", "cancel", "skips", "discover", "stop", "save"},
              NEW for \in InputMethods, AskInput(c, job, for)
      PROVE  LifecycleHeld'
  BY <1>12, <1>0, Names, AskInputEffect
     DEF AskInput, FirstStep, settingsVars, inputVars, lockVars, scanVars,
         actionVars, orderVars, StepTo, PlaybackInv, LifecycleHeld, Holding,
         PlaybackTypeOK
<1>13. ASSUME NEW a \in Actors, ScanAwaited(a)
      PROVE  LifecycleHeld'
  BY <1>13, <1>0, Names, ScanAwaitedEffect
     DEF ScanAwaited, settingsVars, inputVars, lockVars, scanVars, actionVars,
         orderVars, StepTo, PlaybackInv, LifecycleHeld, Holding, PlaybackTypeOK
<1>14. ASSUME NEW a \in Actors, DiscoveryAwaited(a)
      PROVE  LifecycleHeld'
  BY <1>14, <1>0, Names, DiscoveryAwaitedEffect
     DEF DiscoveryAwaited, settingsVars, inputVars, lockVars, scanVars, actionVars,
         orderVars, StepTo, PlaybackInv, LifecycleHeld, Holding, PlaybackTypeOK
<1>15. ASSUME NEW a \in Actors, StartScan(a)
      PROVE  LifecycleHeld'
  <2>1. PICK s \in Scans :
            /\ jobs[s].at = "idle" /\ s # a /\ jobs'[s].at = "scanning" /\ jobs'[s].job = "adopt"
            /\ \A b \in Actors \ {a, s} : jobs'[b] = jobs[b]
            /\ scanTask' = s
    BY <1>15, <1>0, StartScanEffect
  <2>2. /\ a \in Callers /\ jobs[a].at = "locking" /\ jobs[a].job = "find" /\ lifecycle = NoActor
        /\ jobs'[a].at = "idle" /\ jobs'[a].job = "none" /\ s \in Actors
        /\ UNCHANGED <<settingsVars, inputVars, lifecycle, dispatching, requests, cancelled,
                       scansCrossed, actionVars, orderVars, seen>>
    BY <1>15, <1>0, <2>1, StartScanEffect, Names DEF StartScan
  <2>3. QED
    BY <1>0, <2>1, <2>2, Names
       DEF settingsVars, inputVars, actionVars, orderVars, PlaybackInv,
           LifecycleHeld, Holding, PlaybackTypeOK
<1>16. ASSUME NEW a \in Actors, SaveSkips(a)
      PROVE  LifecycleHeld'
  BY <1>16, <1>0, Names, SaveSkipsEffect
     DEF SaveSkips, MayLock, SkipMarks, settingsVars, inputVars, lockVars, scanVars,
         actionVars, orderVars, StepTo, PlaybackInv, LifecycleHeld, Holding,
         PlaybackTypeOK
<1>17. ASSUME NEW a \in Actors, SaveInput(a)
      PROVE  LifecycleHeld'
  BY <1>17, <1>0, Names, SaveInputEffect
     DEF SaveInput, MayLock, settingsVars, inputVars, lockVars, scanVars,
         actionVars, orderVars, StepTo, PlaybackInv, LifecycleHeld, Holding,
         PlaybackTypeOK
<1>18. ASSUME NEW a \in Actors, BeginStop(a)
      PROVE  LifecycleHeld'
  BY <1>18, <1>0, Names, BeginStopEffect
     DEF BeginStop, MayLock, settingsVars, inputVars, lockVars, scanVars,
         actionVars, orderVars, StepTo, PlaybackInv, LifecycleHeld, Holding,
         PlaybackTypeOK
<1>19. ASSUME NEW a \in Actors, BeginDiscovery(a)
      PROVE  LifecycleHeld'
  BY <1>19, <1>0, Names, BeginDiscoveryEffect
     DEF BeginDiscovery, MayLock, settingsVars, inputVars, lockVars, scanVars,
         actionVars, orderVars, StepTo, PlaybackInv, LifecycleHeld, Holding,
         PlaybackTypeOK
<1>20. ASSUME NEW a \in Actors, Discovers(a)
      PROVE  LifecycleHeld'
  BY <1>20, <1>0, Names, DiscoversEffect
     DEF Discovers, NothingActs, settingsVars, inputVars, lockVars, scanVars,
         actionVars, orderVars, StepTo, PlaybackInv, LifecycleHeld, Holding,
         PlaybackTypeOK
<1>21. ASSUME NEW a \in Actors, Quiets(a)
      PROVE  LifecycleHeld'
  BY <1>21, <1>0, Names, QuietsEffect
     DEF Quiets, NothingActs, settingsVars, inputVars, lockVars, scanVars,
         actionVars, orderVars, StepTo, PlaybackInv, LifecycleHeld, Holding,
         PlaybackTypeOK
<1>22. ASSUME NEW a \in Actors, InputStops(a)
      PROVE  LifecycleHeld'
  BY <1>22, <1>0, Names, InputStopsEffect
     DEF InputStops, settingsVars, inputVars, lockVars, scanVars, actionVars,
         orderVars, StepTo, PlaybackInv, LifecycleHeld, Holding, PlaybackTypeOK
<1>23. ASSUME NEW a \in Actors, InputStarts(a)
      PROVE  LifecycleHeld'
  BY <1>23, <1>0, Names, InputStartsEffect
     DEF InputStarts, settingsVars, inputVars, lockVars, scanVars, actionVars,
         orderVars, StepTo, PlaybackInv, LifecycleHeld, Holding, PlaybackTypeOK
<1>24. ASSUME NEW a \in Actors, ScanReports(a)
      PROVE  LifecycleHeld'
  BY <1>24, <1>0, Names, ScanReportsEffect
     DEF ScanReports, settingsVars, inputVars, lockVars, scanVars, actionVars,
         orderVars, StepTo, PlaybackInv, LifecycleHeld, Holding, PlaybackTypeOK
<1>25. ASSUME NEW a \in Actors, WalkSucceeds(a)
      PROVE  LifecycleHeld'
  BY <1>25, <1>0, Names, WalkSucceedsEffect
     DEF WalkSucceeds, WalkEnds, settingsVars, inputVars, lockVars, scanVars,
         actionVars, orderVars, StepTo, PlaybackInv, LifecycleHeld, Holding,
         PlaybackTypeOK
<1>26. ASSUME NEW a \in Actors, WalkFails(a)
      PROVE  LifecycleHeld'
  BY <1>26, <1>0, Names, WalkFailsEffect
     DEF WalkFails, WalkEnds, settingsVars, inputVars, lockVars, scanVars,
         actionVars, orderVars, StepTo, PlaybackInv, LifecycleHeld, Holding,
         PlaybackTypeOK
<1>27. CASE UNCHANGED playbackVars
  BY <1>27, <1>0, Names
     DEF playbackVars, settingsVars, inputVars, lockVars, scanVars, actionVars,
         orderVars, StepTo, PlaybackInv, LifecycleHeld, Holding, PlaybackTypeOK
<1>28. QED
  BY <1>1, <1>2, <1>3, <1>4, <1>5, <1>6, <1>7, <1>8, <1>9, <1>10, <1>11, <1>12, <1>13,
     <1>14, <1>15, <1>16, <1>17, <1>18, <1>19, <1>20, <1>21, <1>22, <1>23, <1>24, <1>25,
     <1>26, <1>27
     DEF PlaybackNext, Continues, Consumes, InputMethods

\* The dispatch lock is.
LEMMA DispatchStep == ASSUME PlaybackInv, [PlaybackNext]_playbackVars
                    PROVE  DispatchHeld'
<1>0. PlaybackInv /\ PlaybackTypeOK /\ consumer \in [at : {"idle", "locking", "reading", "acting"}, item : Items]
  BY  DEF PlaybackInv, PlaybackTypeOK, QueueTypeOK
<1>1. ASSUME LinkUp
      PROVE  DispatchHeld'
  BY <1>1, <1>0, Names, MarksKeep
     DEF LinkUp, settingsVars, inputVars, lockVars, scanVars, actionVars, orderVars,
         StepTo, PlaybackInv, DispatchHeld
<1>2. ASSUME LinkDown
      PROVE  DispatchHeld'
  BY <1>2, <1>0, Names, MarksKeep
     DEF LinkDown, settingsVars, inputVars, lockVars, scanVars, actionVars,
         orderVars, StepTo, PlaybackInv, DispatchHeld
<1>3. ASSUME SetlistChanges
      PROVE  DispatchHeld'
  BY <1>3, <1>0, Names, MarksKeep
     DEF SetlistChanges, settingsVars, inputVars, lockVars, scanVars, actionVars,
         orderVars, StepTo, PlaybackInv, DispatchHeld
<1>4. ASSUME Observes
      PROVE  DispatchHeld'
  BY <1>4, <1>0, Names
     DEF Observes, settingsVars, inputVars, lockVars, scanVars, actionVars,
         orderVars, StepTo, PlaybackInv, DispatchHeld
<1>5. ASSUME TakesObserved
      PROVE  DispatchHeld'
  BY <1>5, <1>0, Names
     DEF TakesObserved, ConsumerUnchanged, settingsVars, inputVars, lockVars,
         scanVars, actionVars, orderVars, StepTo, PlaybackInv, DispatchHeld
<1>6. ASSUME ConsumerLocks
      PROVE  DispatchHeld'
  BY <1>6, <1>0, Names
     DEF ConsumerLocks, ConsumerUnchanged, ConsumerRests, settingsVars, inputVars,
         lockVars, scanVars, actionVars, orderVars, StepTo, PlaybackInv,
         DispatchHeld
<1>7. ASSUME ConsumerActs
      PROVE  DispatchHeld'
  BY <1>7, <1>0, Names
     DEF ConsumerActs, ConsumerUnchanged, ConsumerRests, settingsVars, inputVars,
         lockVars, scanVars, actionVars, orderVars, StepTo, PlaybackInv,
         DispatchHeld
<1>8. ASSUME ConsumerStops
      PROVE  DispatchHeld'
  BY <1>8, <1>0, Names
     DEF ConsumerStops, ConsumerUnchanged, settingsVars, inputVars, lockVars,
         scanVars, actionVars, orderVars, StepTo, PlaybackInv, DispatchHeld
<1>9. ASSUME ActionEnds
      PROVE  DispatchHeld'
  BY <1>9, <1>0, Names
     DEF ActionEnds, ConsumerUnchanged, ConsumerRests, settingsVars, inputVars,
         lockVars, scanVars, actionVars, orderVars, StepTo, PlaybackInv,
         DispatchHeld
<1>10. ASSUME MidiBegins
      PROVE  DispatchHeld'
  BY <1>10, <1>0, Names
     DEF MidiBegins, settingsVars, inputVars, lockVars, scanVars, actionVars,
         orderVars, StepTo, PlaybackInv, DispatchHeld
<1>11. ASSUME MidiEnds
      PROVE  DispatchHeld'
  BY <1>11, <1>0, Names
     DEF MidiEnds, settingsVars, inputVars, lockVars, scanVars, actionVars,
         orderVars, StepTo, PlaybackInv, DispatchHeld
<1>12. ASSUME NEW c \in Callers, NEW job \in {"find", "cancel", "skips", "discover", "stop", "save"},
              NEW for \in InputMethods, AskInput(c, job, for)
      PROVE  DispatchHeld'
  BY <1>12, <1>0, Names, AskInputEffect
     DEF AskInput, FirstStep, settingsVars, inputVars, lockVars, scanVars,
         actionVars, orderVars, StepTo, PlaybackInv, DispatchHeld
<1>13. ASSUME NEW a \in Actors, ScanAwaited(a)
      PROVE  DispatchHeld'
  BY <1>13, <1>0, Names, ScanAwaitedEffect
     DEF ScanAwaited, settingsVars, inputVars, lockVars, scanVars, actionVars,
         orderVars, StepTo, PlaybackInv, DispatchHeld
<1>14. ASSUME NEW a \in Actors, DiscoveryAwaited(a)
      PROVE  DispatchHeld'
  BY <1>14, <1>0, Names, DiscoveryAwaitedEffect
     DEF DiscoveryAwaited, settingsVars, inputVars, lockVars, scanVars, actionVars,
         orderVars, StepTo, PlaybackInv, DispatchHeld
<1>15. ASSUME NEW a \in Actors, StartScan(a)
      PROVE  DispatchHeld'
  <2>1. PICK s \in Scans :
            /\ jobs[s].at = "idle" /\ s # a /\ jobs'[s].at = "scanning" /\ jobs'[s].job = "adopt"
            /\ \A b \in Actors \ {a, s} : jobs'[b] = jobs[b]
            /\ scanTask' = s
    BY <1>15, <1>0, StartScanEffect
  <2>2. /\ a \in Callers /\ jobs[a].at = "locking" /\ jobs[a].job = "find" /\ lifecycle = NoActor
        /\ jobs'[a].at = "idle" /\ jobs'[a].job = "none" /\ s \in Actors
        /\ UNCHANGED <<settingsVars, inputVars, lifecycle, dispatching, requests, cancelled,
                       scansCrossed, actionVars, orderVars, seen>>
    BY <1>15, <1>0, <2>1, StartScanEffect, Names DEF StartScan
  <2>3. QED
    BY <1>0, <2>1, <2>2, Names
       DEF settingsVars, inputVars, actionVars, orderVars, PlaybackInv, DispatchHeld
<1>16. ASSUME NEW a \in Actors, SaveSkips(a)
      PROVE  DispatchHeld'
  BY <1>16, <1>0, Names, SaveSkipsEffect, MarksKeep
     DEF SaveSkips, MayLock, SkipMarks, settingsVars, inputVars, lockVars, scanVars,
         actionVars, orderVars, StepTo, PlaybackInv, DispatchHeld
<1>17. ASSUME NEW a \in Actors, SaveInput(a)
      PROVE  DispatchHeld'
  BY <1>17, <1>0, Names, SaveInputEffect
     DEF SaveInput, MayLock, settingsVars, inputVars, lockVars, scanVars,
         actionVars, orderVars, StepTo, PlaybackInv, DispatchHeld
<1>18. ASSUME NEW a \in Actors, BeginStop(a)
      PROVE  DispatchHeld'
  BY <1>18, <1>0, Names, BeginStopEffect
     DEF BeginStop, MayLock, settingsVars, inputVars, lockVars, scanVars,
         actionVars, orderVars, StepTo, PlaybackInv, DispatchHeld
<1>19. ASSUME NEW a \in Actors, BeginDiscovery(a)
      PROVE  DispatchHeld'
  BY <1>19, <1>0, Names, BeginDiscoveryEffect
     DEF BeginDiscovery, MayLock, settingsVars, inputVars, lockVars, scanVars,
         actionVars, orderVars, StepTo, PlaybackInv, DispatchHeld
<1>20. ASSUME NEW a \in Actors, Discovers(a)
      PROVE  DispatchHeld'
  BY <1>20, <1>0, Names, DiscoversEffect, MarksKeep
     DEF Discovers, NothingActs, settingsVars, inputVars, lockVars, scanVars,
         actionVars, orderVars, StepTo, PlaybackInv, DispatchHeld
<1>21. ASSUME NEW a \in Actors, Quiets(a)
      PROVE  DispatchHeld'
  BY <1>21, <1>0, Names, QuietsEffect, MarksKeep
     DEF Quiets, NothingActs, settingsVars, inputVars, lockVars, scanVars,
         actionVars, orderVars, StepTo, PlaybackInv, DispatchHeld
<1>22. ASSUME NEW a \in Actors, InputStops(a)
      PROVE  DispatchHeld'
  BY <1>22, <1>0, Names, InputStopsEffect
     DEF InputStops, settingsVars, inputVars, lockVars, scanVars, actionVars,
         orderVars, StepTo, PlaybackInv, DispatchHeld
<1>23. ASSUME NEW a \in Actors, InputStarts(a)
      PROVE  DispatchHeld'
  BY <1>23, <1>0, Names, InputStartsEffect
     DEF InputStarts, settingsVars, inputVars, lockVars, scanVars, actionVars,
         orderVars, StepTo, PlaybackInv, DispatchHeld
<1>24. ASSUME NEW a \in Actors, ScanReports(a)
      PROVE  DispatchHeld'
  BY <1>24, <1>0, Names, ScanReportsEffect
     DEF ScanReports, settingsVars, inputVars, lockVars, scanVars, actionVars,
         orderVars, StepTo, PlaybackInv, DispatchHeld
<1>25. ASSUME NEW a \in Actors, WalkSucceeds(a)
      PROVE  DispatchHeld'
  BY <1>25, <1>0, Names, WalkSucceedsEffect, MarksKeep
     DEF WalkSucceeds, WalkEnds, settingsVars, inputVars, lockVars, scanVars,
         actionVars, orderVars, StepTo, PlaybackInv, DispatchHeld
<1>26. ASSUME NEW a \in Actors, WalkFails(a)
      PROVE  DispatchHeld'
  BY <1>26, <1>0, Names, WalkFailsEffect, MarksKeep
     DEF WalkFails, WalkEnds, settingsVars, inputVars, lockVars, scanVars,
         actionVars, orderVars, StepTo, PlaybackInv, DispatchHeld
<1>27. CASE UNCHANGED playbackVars
  BY <1>27, <1>0, Names
     DEF playbackVars, settingsVars, inputVars, lockVars, scanVars, actionVars,
         orderVars, StepTo, PlaybackInv, DispatchHeld
<1>28. QED
  BY <1>1, <1>2, <1>3, <1>4, <1>5, <1>6, <1>7, <1>8, <1>9, <1>10, <1>11, <1>12, <1>13,
     <1>14, <1>15, <1>16, <1>17, <1>18, <1>19, <1>20, <1>21, <1>22, <1>23, <1>24, <1>25,
     <1>26, <1>27
     DEF PlaybackNext, Continues, Consumes, InputMethods

\* The input that runs is the chosen one.
LEMMA RunningStep == ASSUME PlaybackInv, [PlaybackNext]_playbackVars
                   PROVE  RunningInput'
<1>0. PlaybackInv /\ PlaybackTypeOK /\ consumer \in [at : {"idle", "locking", "reading", "acting"}, item : Items] /\ inputChosen \in InputMethods /\ FlagsTypeOK
  BY  DEF PlaybackInv, PlaybackTypeOK, QueueTypeOK
<1>1. ASSUME LinkUp
      PROVE  RunningInput'
  BY <1>1, <1>0, Names, MarksKeep
     DEF LinkUp, settingsVars, inputVars, lockVars, scanVars, actionVars, orderVars,
         StepTo, PlaybackInv, RunningInput, ChangeInv, DispatchHeld, InForce,
         InputMethods
<1>2. ASSUME LinkDown
      PROVE  RunningInput'
  BY <1>2, <1>0, Names, MarksKeep
     DEF LinkDown, settingsVars, inputVars, lockVars, scanVars, actionVars,
         orderVars, StepTo, PlaybackInv, RunningInput, ChangeInv, DispatchHeld,
         InForce, InputMethods
<1>3. ASSUME SetlistChanges
      PROVE  RunningInput'
  BY <1>3, <1>0, Names, MarksKeep
     DEF SetlistChanges, settingsVars, inputVars, lockVars, scanVars, actionVars,
         orderVars, StepTo, PlaybackInv, RunningInput, ChangeInv, DispatchHeld,
         InForce, InputMethods
<1>4. ASSUME Observes
      PROVE  RunningInput'
  BY <1>4, <1>0, Names
     DEF Observes, settingsVars, inputVars, lockVars, scanVars, actionVars,
         orderVars, StepTo, PlaybackInv, RunningInput, ChangeInv, DispatchHeld,
         InForce, InputMethods
<1>5. ASSUME TakesObserved
      PROVE  RunningInput'
  BY <1>5, <1>0, Names
     DEF TakesObserved, ConsumerUnchanged, settingsVars, inputVars, lockVars,
         scanVars, actionVars, orderVars, StepTo, PlaybackInv, RunningInput,
         ChangeInv, DispatchHeld, InForce, InputMethods
<1>6. ASSUME ConsumerLocks
      PROVE  RunningInput'
  BY <1>6, <1>0, Names
     DEF ConsumerLocks, ConsumerUnchanged, ConsumerRests, settingsVars, inputVars,
         lockVars, scanVars, actionVars, orderVars, StepTo, PlaybackInv,
         RunningInput, ChangeInv, DispatchHeld, InForce, InputMethods
<1>7. ASSUME ConsumerActs
      PROVE  RunningInput'
  BY <1>7, <1>0, Names
     DEF ConsumerActs, ConsumerUnchanged, ConsumerRests, settingsVars, inputVars,
         lockVars, scanVars, actionVars, orderVars, StepTo, PlaybackInv,
         RunningInput, ChangeInv, DispatchHeld, InForce, InputMethods
<1>8. ASSUME ConsumerStops
      PROVE  RunningInput'
  BY <1>8, <1>0, Names
     DEF ConsumerStops, ConsumerUnchanged, settingsVars, inputVars, lockVars,
         scanVars, actionVars, orderVars, StepTo, PlaybackInv, RunningInput,
         ChangeInv, DispatchHeld, InForce, InputMethods
<1>9. ASSUME ActionEnds
      PROVE  RunningInput'
  BY <1>9, <1>0, Names
     DEF ActionEnds, ConsumerUnchanged, ConsumerRests, settingsVars, inputVars,
         lockVars, scanVars, actionVars, orderVars, StepTo, PlaybackInv,
         RunningInput, ChangeInv, DispatchHeld, InForce, InputMethods
<1>10. ASSUME MidiBegins
      PROVE  RunningInput'
  BY <1>10, <1>0, Names
     DEF MidiBegins, settingsVars, inputVars, lockVars, scanVars, actionVars,
         orderVars, StepTo, PlaybackInv, RunningInput, ChangeInv, DispatchHeld,
         InForce, InputMethods
<1>11. ASSUME MidiEnds
      PROVE  RunningInput'
  BY <1>11, <1>0, Names
     DEF MidiEnds, settingsVars, inputVars, lockVars, scanVars, actionVars,
         orderVars, StepTo, PlaybackInv, RunningInput, ChangeInv, DispatchHeld,
         InForce, InputMethods
<1>12. ASSUME NEW c \in Callers, NEW job \in {"find", "cancel", "skips", "discover", "stop", "save"},
              NEW for \in InputMethods, AskInput(c, job, for)
      PROVE  RunningInput'
  BY <1>12, <1>0, Names, AskInputEffect
     DEF AskInput, FirstStep, settingsVars, inputVars, lockVars, scanVars,
         actionVars, orderVars, StepTo, PlaybackInv, RunningInput, ChangeInv,
         DispatchHeld, InForce, InputMethods
<1>13. ASSUME NEW a \in Actors, ScanAwaited(a)
      PROVE  RunningInput'
  BY <1>13, <1>0, Names, ScanAwaitedEffect
     DEF ScanAwaited, settingsVars, inputVars, lockVars, scanVars, actionVars,
         orderVars, StepTo, PlaybackInv, RunningInput, ChangeInv, DispatchHeld,
         InForce, InputMethods
<1>14. ASSUME NEW a \in Actors, DiscoveryAwaited(a)
      PROVE  RunningInput'
  BY <1>14, <1>0, Names, DiscoveryAwaitedEffect
     DEF DiscoveryAwaited, settingsVars, inputVars, lockVars, scanVars, actionVars,
         orderVars, StepTo, PlaybackInv, RunningInput, ChangeInv, DispatchHeld,
         InForce, InputMethods
<1>15. ASSUME NEW a \in Actors, StartScan(a)
      PROVE  RunningInput'
  <2>1. PICK s \in Scans :
            /\ jobs[s].at = "idle" /\ s # a /\ jobs'[s].at = "scanning" /\ jobs'[s].job = "adopt"
            /\ \A b \in Actors \ {a, s} : jobs'[b] = jobs[b]
            /\ scanTask' = s
    BY <1>15, <1>0, StartScanEffect
  <2>2. /\ a \in Callers /\ jobs[a].at = "locking" /\ jobs[a].job = "find" /\ lifecycle = NoActor
        /\ jobs'[a].at = "idle" /\ jobs'[a].job = "none" /\ s \in Actors
        /\ UNCHANGED <<settingsVars, inputVars, lifecycle, dispatching, requests, cancelled,
                       scansCrossed, actionVars, orderVars, seen>>
    BY <1>15, <1>0, <2>1, StartScanEffect, Names DEF StartScan
  <2>3. QED
    BY <1>0, <2>1, <2>2, Names
       DEF settingsVars, inputVars, actionVars, orderVars, PlaybackInv,
           RunningInput, ChangeInv, DispatchHeld, InForce, InputMethods
<1>16. ASSUME NEW a \in Actors, SaveSkips(a)
      PROVE  RunningInput'
  BY <1>16, <1>0, Names, SaveSkipsEffect, MarksKeep
     DEF SaveSkips, MayLock, SkipMarks, settingsVars, inputVars, lockVars, scanVars,
         actionVars, orderVars, StepTo, PlaybackInv, RunningInput, ChangeInv,
         DispatchHeld, InForce, InputMethods
<1>17. ASSUME NEW a \in Actors, SaveInput(a)
      PROVE  RunningInput'
  BY <1>17, <1>0, Names, SaveInputEffect
     DEF SaveInput, MayLock, settingsVars, inputVars, lockVars, scanVars,
         actionVars, orderVars, StepTo, PlaybackInv, RunningInput, ChangeInv,
         DispatchHeld, InForce, InputMethods
<1>18. ASSUME NEW a \in Actors, BeginStop(a)
      PROVE  RunningInput'
  BY <1>18, <1>0, Names, BeginStopEffect
     DEF BeginStop, MayLock, settingsVars, inputVars, lockVars, scanVars,
         actionVars, orderVars, StepTo, PlaybackInv, RunningInput, ChangeInv,
         DispatchHeld, InForce, InputMethods
<1>19. ASSUME NEW a \in Actors, BeginDiscovery(a)
      PROVE  RunningInput'
  BY <1>19, <1>0, Names, BeginDiscoveryEffect
     DEF BeginDiscovery, MayLock, settingsVars, inputVars, lockVars, scanVars,
         actionVars, orderVars, StepTo, PlaybackInv, RunningInput, ChangeInv,
         DispatchHeld, InForce, InputMethods
<1>20. ASSUME NEW a \in Actors, Discovers(a)
      PROVE  RunningInput'
  BY <1>20, <1>0, Names, DiscoversEffect, MarksKeep
     DEF Discovers, NothingActs, settingsVars, inputVars, lockVars, scanVars,
         actionVars, orderVars, StepTo, PlaybackInv, RunningInput, ChangeInv,
         DispatchHeld, InForce, InputMethods
<1>21. ASSUME NEW a \in Actors, Quiets(a)
      PROVE  RunningInput'
  BY <1>21, <1>0, Names, QuietsEffect, MarksKeep
     DEF Quiets, NothingActs, settingsVars, inputVars, lockVars, scanVars,
         actionVars, orderVars, StepTo, PlaybackInv, RunningInput, ChangeInv,
         DispatchHeld, InForce, InputMethods
<1>22. ASSUME NEW a \in Actors, InputStops(a)
      PROVE  RunningInput'
  BY <1>22, <1>0, Names, InputStopsEffect
     DEF InputStops, settingsVars, inputVars, lockVars, scanVars, actionVars,
         orderVars, StepTo, PlaybackInv, RunningInput, ChangeInv, DispatchHeld,
         InForce, InputMethods
<1>23. ASSUME NEW a \in Actors, InputStarts(a)
      PROVE  RunningInput'
  BY <1>23, <1>0, Names, InputStartsEffect
     DEF InputStarts, settingsVars, inputVars, lockVars, scanVars, actionVars,
         orderVars, StepTo, PlaybackInv, RunningInput, ChangeInv, DispatchHeld,
         InForce, InputMethods
<1>24. ASSUME NEW a \in Actors, ScanReports(a)
      PROVE  RunningInput'
  BY <1>24, <1>0, Names, ScanReportsEffect
     DEF ScanReports, settingsVars, inputVars, lockVars, scanVars, actionVars,
         orderVars, StepTo, PlaybackInv, RunningInput, ChangeInv, DispatchHeld,
         InForce, InputMethods
<1>25. ASSUME NEW a \in Actors, WalkSucceeds(a)
      PROVE  RunningInput'
  BY <1>25, <1>0, Names, WalkSucceedsEffect, MarksKeep
     DEF WalkSucceeds, WalkEnds, settingsVars, inputVars, lockVars, scanVars,
         actionVars, orderVars, StepTo, PlaybackInv, RunningInput, ChangeInv,
         DispatchHeld, InForce, InputMethods
<1>26. ASSUME NEW a \in Actors, WalkFails(a)
      PROVE  RunningInput'
  BY <1>26, <1>0, Names, WalkFailsEffect, MarksKeep
     DEF WalkFails, WalkEnds, settingsVars, inputVars, lockVars, scanVars,
         actionVars, orderVars, StepTo, PlaybackInv, RunningInput, ChangeInv,
         DispatchHeld, InForce, InputMethods
<1>27. CASE UNCHANGED playbackVars
  BY <1>27, <1>0, Names
     DEF playbackVars, settingsVars, inputVars, lockVars, scanVars, actionVars,
         orderVars, StepTo, PlaybackInv, RunningInput, ChangeInv, DispatchHeld,
         InForce, InputMethods
<1>28. QED
  BY <1>1, <1>2, <1>3, <1>4, <1>5, <1>6, <1>7, <1>8, <1>9, <1>10, <1>11, <1>12, <1>13,
     <1>14, <1>15, <1>16, <1>17, <1>18, <1>19, <1>20, <1>21, <1>22, <1>23, <1>24, <1>25,
     <1>26, <1>27
     DEF PlaybackNext, Continues, Consumes, InputMethods

\* What a change has established stays so.
LEMMA ChangeStep == ASSUME PlaybackInv, [PlaybackNext]_playbackVars
                  PROVE  ChangeInv'
<1>0. PlaybackInv /\ PlaybackTypeOK
  BY DEF PlaybackInv
<1>1. ASSUME LinkUp
      PROVE  ChangeInv'
  BY <1>1, <1>0, Names
     DEF LinkUp, settingsVars, inputVars, lockVars, scanVars, actionVars, orderVars,
         StepTo, PlaybackInv, ChangeInv, RunningInput, LifecycleHeld, DispatchHeld,
         Holding
<1>2. ASSUME LinkDown
      PROVE  ChangeInv'
  BY <1>2, <1>0, Names
     DEF LinkDown, settingsVars, inputVars, lockVars, scanVars, actionVars,
         orderVars, StepTo, PlaybackInv, ChangeInv, RunningInput, LifecycleHeld,
         DispatchHeld, Holding
<1>3. ASSUME SetlistChanges
      PROVE  ChangeInv'
  BY <1>3, <1>0, Names
     DEF SetlistChanges, settingsVars, inputVars, lockVars, scanVars, actionVars,
         orderVars, StepTo, PlaybackInv, ChangeInv, RunningInput, LifecycleHeld,
         DispatchHeld, Holding
<1>4. ASSUME Observes
      PROVE  ChangeInv'
  BY <1>4, <1>0, Names
     DEF Observes, settingsVars, inputVars, lockVars, scanVars, actionVars,
         orderVars, StepTo, PlaybackInv, ChangeInv, RunningInput, LifecycleHeld,
         DispatchHeld, Holding
<1>5. ASSUME TakesObserved
      PROVE  ChangeInv'
  BY <1>5, <1>0, Names
     DEF TakesObserved, ConsumerUnchanged, settingsVars, inputVars, lockVars,
         scanVars, actionVars, orderVars, StepTo, PlaybackInv, ChangeInv,
         RunningInput, LifecycleHeld, DispatchHeld, Holding
<1>6. ASSUME ConsumerLocks
      PROVE  ChangeInv'
  BY <1>6, <1>0, Names
     DEF ConsumerLocks, ConsumerUnchanged, ConsumerRests, settingsVars, inputVars,
         lockVars, scanVars, actionVars, orderVars, StepTo, PlaybackInv, ChangeInv,
         RunningInput, LifecycleHeld, DispatchHeld, Holding
<1>7. ASSUME ConsumerActs
      PROVE  ChangeInv'
  BY <1>7, <1>0, Names
     DEF ConsumerActs, ConsumerUnchanged, ConsumerRests, settingsVars, inputVars,
         lockVars, scanVars, actionVars, orderVars, StepTo, PlaybackInv, ChangeInv,
         RunningInput, LifecycleHeld, DispatchHeld, Holding
<1>8. ASSUME ConsumerStops
      PROVE  ChangeInv'
  BY <1>8, <1>0, Names
     DEF ConsumerStops, ConsumerUnchanged, settingsVars, inputVars, lockVars,
         scanVars, actionVars, orderVars, StepTo, PlaybackInv, ChangeInv,
         RunningInput, LifecycleHeld, DispatchHeld, Holding
<1>9. ASSUME ActionEnds
      PROVE  ChangeInv'
  BY <1>9, <1>0, Names
     DEF ActionEnds, ConsumerUnchanged, ConsumerRests, settingsVars, inputVars,
         lockVars, scanVars, actionVars, orderVars, StepTo, PlaybackInv, ChangeInv,
         RunningInput, LifecycleHeld, DispatchHeld, Holding
<1>10. ASSUME MidiBegins
      PROVE  ChangeInv'
  BY <1>10, <1>0, Names
     DEF MidiBegins, settingsVars, inputVars, lockVars, scanVars, actionVars,
         orderVars, StepTo, PlaybackInv, ChangeInv, RunningInput, LifecycleHeld,
         DispatchHeld, Holding
<1>11. ASSUME MidiEnds
      PROVE  ChangeInv'
  BY <1>11, <1>0, Names
     DEF MidiEnds, settingsVars, inputVars, lockVars, scanVars, actionVars,
         orderVars, StepTo, PlaybackInv, ChangeInv, RunningInput, LifecycleHeld,
         DispatchHeld, Holding
<1>12. ASSUME NEW c \in Callers, NEW job \in {"find", "cancel", "skips", "discover", "stop", "save"},
              NEW for \in InputMethods, AskInput(c, job, for)
      PROVE  ChangeInv'
  BY <1>12, <1>0, Names, AskInputEffect
     DEF AskInput, FirstStep, settingsVars, inputVars, lockVars, scanVars,
         actionVars, orderVars, StepTo, PlaybackInv, ChangeInv, RunningInput,
         LifecycleHeld, DispatchHeld, Holding
<1>13. ASSUME NEW a \in Actors, ScanAwaited(a)
      PROVE  ChangeInv'
  BY <1>13, <1>0, Names, ScanAwaitedEffect
     DEF ScanAwaited, settingsVars, inputVars, lockVars, scanVars, actionVars,
         orderVars, StepTo, PlaybackInv, ChangeInv, RunningInput, LifecycleHeld,
         DispatchHeld, Holding
<1>14. ASSUME NEW a \in Actors, DiscoveryAwaited(a)
      PROVE  ChangeInv'
  BY <1>14, <1>0, Names, DiscoveryAwaitedEffect
     DEF DiscoveryAwaited, settingsVars, inputVars, lockVars, scanVars, actionVars,
         orderVars, StepTo, PlaybackInv, ChangeInv, RunningInput, LifecycleHeld,
         DispatchHeld, Holding
<1>15. ASSUME NEW a \in Actors, StartScan(a)
      PROVE  ChangeInv'
  <2>1. PICK s \in Scans :
            /\ jobs[s].at = "idle" /\ s # a /\ jobs'[s].at = "scanning" /\ jobs'[s].job = "adopt"
            /\ \A b \in Actors \ {a, s} : jobs'[b] = jobs[b]
            /\ scanTask' = s
    BY <1>15, <1>0, StartScanEffect
  <2>2. /\ a \in Callers /\ jobs[a].at = "locking" /\ jobs[a].job = "find" /\ lifecycle = NoActor
        /\ jobs'[a].at = "idle" /\ jobs'[a].job = "none" /\ s \in Actors
        /\ UNCHANGED <<settingsVars, inputVars, lifecycle, dispatching, requests, cancelled,
                       scansCrossed, actionVars, orderVars, seen>>
    BY <1>15, <1>0, <2>1, StartScanEffect, Names DEF StartScan
  <2>3. QED
    BY <1>0, <2>1, <2>2, Names
       DEF settingsVars, inputVars, actionVars, orderVars, PlaybackInv, ChangeInv,
           RunningInput, LifecycleHeld, DispatchHeld, Holding
<1>16. ASSUME NEW a \in Actors, SaveSkips(a)
      PROVE  ChangeInv'
  BY <1>16, <1>0, Names, SaveSkipsEffect
     DEF SaveSkips, MayLock, SkipMarks, settingsVars, inputVars, lockVars, scanVars,
         actionVars, orderVars, StepTo, PlaybackInv, ChangeInv, RunningInput,
         LifecycleHeld, DispatchHeld, Holding
<1>17. ASSUME NEW a \in Actors, SaveInput(a)
      PROVE  ChangeInv'
  BY <1>17, <1>0, Names, SaveInputEffect
     DEF SaveInput, MayLock, settingsVars, inputVars, lockVars, scanVars,
         actionVars, orderVars, StepTo, PlaybackInv, ChangeInv, RunningInput,
         LifecycleHeld, DispatchHeld, Holding
<1>18. ASSUME NEW a \in Actors, BeginStop(a)
      PROVE  ChangeInv'
  BY <1>18, <1>0, Names, BeginStopEffect
     DEF BeginStop, MayLock, settingsVars, inputVars, lockVars, scanVars,
         actionVars, orderVars, StepTo, PlaybackInv, ChangeInv, RunningInput,
         LifecycleHeld, DispatchHeld, Holding
<1>19. ASSUME NEW a \in Actors, BeginDiscovery(a)
      PROVE  ChangeInv'
  BY <1>19, <1>0, Names, BeginDiscoveryEffect
     DEF BeginDiscovery, MayLock, settingsVars, inputVars, lockVars, scanVars,
         actionVars, orderVars, StepTo, PlaybackInv, ChangeInv, RunningInput,
         LifecycleHeld, DispatchHeld, Holding
<1>20. ASSUME NEW a \in Actors, Discovers(a)
      PROVE  ChangeInv'
  BY <1>20, <1>0, Names, DiscoversEffect
     DEF Discovers, NothingActs, settingsVars, inputVars, lockVars, scanVars,
         actionVars, orderVars, StepTo, PlaybackInv, ChangeInv, RunningInput,
         LifecycleHeld, DispatchHeld, Holding
<1>21. ASSUME NEW a \in Actors, Quiets(a)
      PROVE  ChangeInv'
  BY <1>21, <1>0, Names, QuietsEffect
     DEF Quiets, NothingActs, settingsVars, inputVars, lockVars, scanVars,
         actionVars, orderVars, StepTo, PlaybackInv, ChangeInv, RunningInput,
         LifecycleHeld, DispatchHeld, Holding
<1>22. ASSUME NEW a \in Actors, InputStops(a)
      PROVE  ChangeInv'
  BY <1>22, <1>0, Names, InputStopsEffect
     DEF InputStops, settingsVars, inputVars, lockVars, scanVars, actionVars,
         orderVars, StepTo, PlaybackInv, ChangeInv, RunningInput, LifecycleHeld,
         DispatchHeld, Holding
<1>23. ASSUME NEW a \in Actors, InputStarts(a)
      PROVE  ChangeInv'
  BY <1>23, <1>0, Names, InputStartsEffect
     DEF InputStarts, settingsVars, inputVars, lockVars, scanVars, actionVars,
         orderVars, StepTo, PlaybackInv, ChangeInv, RunningInput, LifecycleHeld,
         DispatchHeld, Holding
<1>24. ASSUME NEW a \in Actors, ScanReports(a)
      PROVE  ChangeInv'
  BY <1>24, <1>0, Names, ScanReportsEffect
     DEF ScanReports, settingsVars, inputVars, lockVars, scanVars, actionVars,
         orderVars, StepTo, PlaybackInv, ChangeInv, RunningInput, LifecycleHeld,
         DispatchHeld, Holding
<1>25. ASSUME NEW a \in Actors, WalkSucceeds(a)
      PROVE  ChangeInv'
  BY <1>25, <1>0, Names, WalkSucceedsEffect
     DEF WalkSucceeds, WalkEnds, settingsVars, inputVars, lockVars, scanVars,
         actionVars, orderVars, StepTo, PlaybackInv, ChangeInv, RunningInput,
         LifecycleHeld, DispatchHeld, Holding
<1>26. ASSUME NEW a \in Actors, WalkFails(a)
      PROVE  ChangeInv'
  BY <1>26, <1>0, Names, WalkFailsEffect
     DEF WalkFails, WalkEnds, settingsVars, inputVars, lockVars, scanVars,
         actionVars, orderVars, StepTo, PlaybackInv, ChangeInv, RunningInput,
         LifecycleHeld, DispatchHeld, Holding
<1>27. CASE UNCHANGED playbackVars
  BY <1>27, <1>0, Names
     DEF playbackVars, settingsVars, inputVars, lockVars, scanVars, actionVars,
         orderVars, StepTo, PlaybackInv, ChangeInv, RunningInput, LifecycleHeld,
         DispatchHeld, Holding
<1>28. QED
  BY <1>1, <1>2, <1>3, <1>4, <1>5, <1>6, <1>7, <1>8, <1>9, <1>10, <1>11, <1>12, <1>13,
     <1>14, <1>15, <1>16, <1>17, <1>18, <1>19, <1>20, <1>21, <1>22, <1>23, <1>24, <1>25,
     <1>26, <1>27
     DEF PlaybackNext, Continues, Consumes, InputMethods

\* The chosen input is the stored one.
LEMMA ChosenStep == ASSUME PlaybackInv, [PlaybackNext]_playbackVars
                  PROVE  ChosenInv'
<1>0. PlaybackInv /\ PlaybackTypeOK
  BY DEF PlaybackInv
<1>1. ASSUME LinkUp
      PROVE  ChosenInv'
  BY <1>1, <1>0, Names
     DEF LinkUp, settingsVars, inputVars, lockVars, scanVars, actionVars, orderVars,
         StepTo, PlaybackInv, ChosenInv, LifecycleHeld, Holding, PlaybackTypeOK
<1>2. ASSUME LinkDown
      PROVE  ChosenInv'
  BY <1>2, <1>0, Names
     DEF LinkDown, settingsVars, inputVars, lockVars, scanVars, actionVars,
         orderVars, StepTo, PlaybackInv, ChosenInv, LifecycleHeld, Holding,
         PlaybackTypeOK
<1>3. ASSUME SetlistChanges
      PROVE  ChosenInv'
  BY <1>3, <1>0, Names
     DEF SetlistChanges, settingsVars, inputVars, lockVars, scanVars, actionVars,
         orderVars, StepTo, PlaybackInv, ChosenInv, LifecycleHeld, Holding,
         PlaybackTypeOK
<1>4. ASSUME Observes
      PROVE  ChosenInv'
  BY <1>4, <1>0, Names
     DEF Observes, settingsVars, inputVars, lockVars, scanVars, actionVars,
         orderVars, StepTo, PlaybackInv, ChosenInv, LifecycleHeld, Holding,
         PlaybackTypeOK
<1>5. ASSUME TakesObserved
      PROVE  ChosenInv'
  BY <1>5, <1>0, Names
     DEF TakesObserved, ConsumerUnchanged, settingsVars, inputVars, lockVars,
         scanVars, actionVars, orderVars, StepTo, PlaybackInv, ChosenInv,
         LifecycleHeld, Holding, PlaybackTypeOK
<1>6. ASSUME ConsumerLocks
      PROVE  ChosenInv'
  BY <1>6, <1>0, Names
     DEF ConsumerLocks, ConsumerUnchanged, ConsumerRests, settingsVars, inputVars,
         lockVars, scanVars, actionVars, orderVars, StepTo, PlaybackInv, ChosenInv,
         LifecycleHeld, Holding, PlaybackTypeOK
<1>7. ASSUME ConsumerActs
      PROVE  ChosenInv'
  BY <1>7, <1>0, Names
     DEF ConsumerActs, ConsumerUnchanged, ConsumerRests, settingsVars, inputVars,
         lockVars, scanVars, actionVars, orderVars, StepTo, PlaybackInv, ChosenInv,
         LifecycleHeld, Holding, PlaybackTypeOK
<1>8. ASSUME ConsumerStops
      PROVE  ChosenInv'
  BY <1>8, <1>0, Names
     DEF ConsumerStops, ConsumerUnchanged, settingsVars, inputVars, lockVars,
         scanVars, actionVars, orderVars, StepTo, PlaybackInv, ChosenInv,
         LifecycleHeld, Holding, PlaybackTypeOK
<1>9. ASSUME ActionEnds
      PROVE  ChosenInv'
  BY <1>9, <1>0, Names
     DEF ActionEnds, ConsumerUnchanged, ConsumerRests, settingsVars, inputVars,
         lockVars, scanVars, actionVars, orderVars, StepTo, PlaybackInv, ChosenInv,
         LifecycleHeld, Holding, PlaybackTypeOK
<1>10. ASSUME MidiBegins
      PROVE  ChosenInv'
  BY <1>10, <1>0, Names
     DEF MidiBegins, settingsVars, inputVars, lockVars, scanVars, actionVars,
         orderVars, StepTo, PlaybackInv, ChosenInv, LifecycleHeld, Holding,
         PlaybackTypeOK
<1>11. ASSUME MidiEnds
      PROVE  ChosenInv'
  BY <1>11, <1>0, Names
     DEF MidiEnds, settingsVars, inputVars, lockVars, scanVars, actionVars,
         orderVars, StepTo, PlaybackInv, ChosenInv, LifecycleHeld, Holding,
         PlaybackTypeOK
<1>12. ASSUME NEW c \in Callers, NEW job \in {"find", "cancel", "skips", "discover", "stop", "save"},
              NEW for \in InputMethods, AskInput(c, job, for)
      PROVE  ChosenInv'
  BY <1>12, <1>0, Names, AskInputEffect
     DEF AskInput, FirstStep, settingsVars, inputVars, lockVars, scanVars,
         actionVars, orderVars, StepTo, PlaybackInv, ChosenInv, LifecycleHeld,
         Holding, PlaybackTypeOK
<1>13. ASSUME NEW a \in Actors, ScanAwaited(a)
      PROVE  ChosenInv'
  BY <1>13, <1>0, Names, ScanAwaitedEffect
     DEF ScanAwaited, settingsVars, inputVars, lockVars, scanVars, actionVars,
         orderVars, StepTo, PlaybackInv, ChosenInv, LifecycleHeld, Holding,
         PlaybackTypeOK
<1>14. ASSUME NEW a \in Actors, DiscoveryAwaited(a)
      PROVE  ChosenInv'
  BY <1>14, <1>0, Names, DiscoveryAwaitedEffect
     DEF DiscoveryAwaited, settingsVars, inputVars, lockVars, scanVars, actionVars,
         orderVars, StepTo, PlaybackInv, ChosenInv, LifecycleHeld, Holding,
         PlaybackTypeOK
<1>15. ASSUME NEW a \in Actors, StartScan(a)
      PROVE  ChosenInv'
  <2>1. PICK s \in Scans :
            /\ jobs[s].at = "idle" /\ s # a /\ jobs'[s].at = "scanning" /\ jobs'[s].job = "adopt"
            /\ \A b \in Actors \ {a, s} : jobs'[b] = jobs[b]
            /\ scanTask' = s
    BY <1>15, <1>0, StartScanEffect
  <2>2. /\ a \in Callers /\ jobs[a].at = "locking" /\ jobs[a].job = "find" /\ lifecycle = NoActor
        /\ jobs'[a].at = "idle" /\ jobs'[a].job = "none" /\ s \in Actors
        /\ UNCHANGED <<settingsVars, inputVars, lifecycle, dispatching, requests, cancelled,
                       scansCrossed, actionVars, orderVars, seen>>
    BY <1>15, <1>0, <2>1, StartScanEffect, Names DEF StartScan
  <2>3. QED
    BY <1>0, <2>1, <2>2, Names
       DEF settingsVars, inputVars, actionVars, orderVars, PlaybackInv, ChosenInv,
           LifecycleHeld, Holding, PlaybackTypeOK
<1>16. ASSUME NEW a \in Actors, SaveSkips(a)
      PROVE  ChosenInv'
  BY <1>16, <1>0, Names, SaveSkipsEffect
     DEF SaveSkips, MayLock, SkipMarks, settingsVars, inputVars, lockVars, scanVars,
         actionVars, orderVars, StepTo, PlaybackInv, ChosenInv, LifecycleHeld,
         Holding, PlaybackTypeOK
<1>17. ASSUME NEW a \in Actors, SaveInput(a)
      PROVE  ChosenInv'
  BY <1>17, <1>0, Names, SaveInputEffect
     DEF SaveInput, MayLock, settingsVars, inputVars, lockVars, scanVars,
         actionVars, orderVars, StepTo, PlaybackInv, ChosenInv, LifecycleHeld,
         Holding, PlaybackTypeOK
<1>18. ASSUME NEW a \in Actors, BeginStop(a)
      PROVE  ChosenInv'
  BY <1>18, <1>0, Names, BeginStopEffect
     DEF BeginStop, MayLock, settingsVars, inputVars, lockVars, scanVars,
         actionVars, orderVars, StepTo, PlaybackInv, ChosenInv, LifecycleHeld,
         Holding, PlaybackTypeOK
<1>19. ASSUME NEW a \in Actors, BeginDiscovery(a)
      PROVE  ChosenInv'
  BY <1>19, <1>0, Names, BeginDiscoveryEffect
     DEF BeginDiscovery, MayLock, settingsVars, inputVars, lockVars, scanVars,
         actionVars, orderVars, StepTo, PlaybackInv, ChosenInv, LifecycleHeld,
         Holding, PlaybackTypeOK
<1>20. ASSUME NEW a \in Actors, Discovers(a)
      PROVE  ChosenInv'
  BY <1>20, <1>0, Names, DiscoversEffect
     DEF Discovers, NothingActs, settingsVars, inputVars, lockVars, scanVars,
         actionVars, orderVars, StepTo, PlaybackInv, ChosenInv, LifecycleHeld,
         Holding, PlaybackTypeOK
<1>21. ASSUME NEW a \in Actors, Quiets(a)
      PROVE  ChosenInv'
  BY <1>21, <1>0, Names, QuietsEffect
     DEF Quiets, NothingActs, settingsVars, inputVars, lockVars, scanVars,
         actionVars, orderVars, StepTo, PlaybackInv, ChosenInv, LifecycleHeld,
         Holding, PlaybackTypeOK
<1>22. ASSUME NEW a \in Actors, InputStops(a)
      PROVE  ChosenInv'
  BY <1>22, <1>0, Names, InputStopsEffect
     DEF InputStops, settingsVars, inputVars, lockVars, scanVars, actionVars,
         orderVars, StepTo, PlaybackInv, ChosenInv, LifecycleHeld, Holding,
         PlaybackTypeOK
<1>23. ASSUME NEW a \in Actors, InputStarts(a)
      PROVE  ChosenInv'
  BY <1>23, <1>0, Names, InputStartsEffect
     DEF InputStarts, settingsVars, inputVars, lockVars, scanVars, actionVars,
         orderVars, StepTo, PlaybackInv, ChosenInv, LifecycleHeld, Holding,
         PlaybackTypeOK
<1>24. ASSUME NEW a \in Actors, ScanReports(a)
      PROVE  ChosenInv'
  BY <1>24, <1>0, Names, ScanReportsEffect
     DEF ScanReports, settingsVars, inputVars, lockVars, scanVars, actionVars,
         orderVars, StepTo, PlaybackInv, ChosenInv, LifecycleHeld, Holding,
         PlaybackTypeOK
<1>25. ASSUME NEW a \in Actors, WalkSucceeds(a)
      PROVE  ChosenInv'
  BY <1>25, <1>0, Names, WalkSucceedsEffect
     DEF WalkSucceeds, WalkEnds, settingsVars, inputVars, lockVars, scanVars,
         actionVars, orderVars, StepTo, PlaybackInv, ChosenInv, LifecycleHeld,
         Holding, PlaybackTypeOK
<1>26. ASSUME NEW a \in Actors, WalkFails(a)
      PROVE  ChosenInv'
  BY <1>26, <1>0, Names, WalkFailsEffect
     DEF WalkFails, WalkEnds, settingsVars, inputVars, lockVars, scanVars,
         actionVars, orderVars, StepTo, PlaybackInv, ChosenInv, LifecycleHeld,
         Holding, PlaybackTypeOK
<1>27. CASE UNCHANGED playbackVars
  BY <1>27, <1>0, Names
     DEF playbackVars, settingsVars, inputVars, lockVars, scanVars, actionVars,
         orderVars, StepTo, PlaybackInv, ChosenInv, LifecycleHeld, Holding,
         PlaybackTypeOK
<1>28. QED
  BY <1>1, <1>2, <1>3, <1>4, <1>5, <1>6, <1>7, <1>8, <1>9, <1>10, <1>11, <1>12, <1>13,
     <1>14, <1>15, <1>16, <1>17, <1>18, <1>19, <1>20, <1>21, <1>22, <1>23, <1>24, <1>25,
     <1>26, <1>27
     DEF PlaybackNext, Continues, Consumes, InputMethods

\* No observation outlives what it depends on.
LEMMA ItemsStep == ASSUME PlaybackInv, [PlaybackNext]_playbackVars
                 PROVE  ItemsInv'
<1>0. PlaybackInv /\ PlaybackTypeOK
  BY DEF PlaybackInv
<1>1. ASSUME LinkUp
      PROVE  ItemsInv'
  BY <1>1, <1>0, Names, FreshIsItem, MarksKeepItems
     DEF LinkUp, settingsVars, inputVars, lockVars, scanVars, actionVars, orderVars,
         StepTo, PlaybackInv, ItemsInv, QueueTypeOK, PlaybackTypeOK
<1>2. ASSUME LinkDown
      PROVE  ItemsInv'
  BY <1>2, <1>0, Names, FreshIsItem, MarksKeepItems
     DEF LinkDown, settingsVars, inputVars, lockVars, scanVars, actionVars,
         orderVars, StepTo, PlaybackInv, ItemsInv, QueueTypeOK, PlaybackTypeOK
<1>3. ASSUME SetlistChanges
      PROVE  ItemsInv'
  BY <1>3, <1>0, Names, FreshIsItem, MarksKeepItems
     DEF SetlistChanges, settingsVars, inputVars, lockVars, scanVars, actionVars,
         orderVars, StepTo, PlaybackInv, ItemsInv, QueueTypeOK, PlaybackTypeOK
<1>4. ASSUME Observes
      PROVE  ItemsInv'
  BY <1>4, <1>0, Names, FreshIsItem
     DEF Observes, settingsVars, inputVars, lockVars, scanVars, actionVars,
         orderVars, StepTo, PlaybackInv, ItemsInv, QueueTypeOK, PlaybackTypeOK
<1>5. ASSUME TakesObserved
      PROVE  ItemsInv'
  BY <1>5, <1>0, Names, FreshIsItem
     DEF TakesObserved, ConsumerUnchanged, settingsVars, inputVars, lockVars,
         scanVars, actionVars, orderVars, StepTo, PlaybackInv, ItemsInv,
         QueueTypeOK, PlaybackTypeOK
<1>6. ASSUME ConsumerLocks
      PROVE  ItemsInv'
  BY <1>6, <1>0, Names, FreshIsItem
     DEF ConsumerLocks, ConsumerUnchanged, ConsumerRests, settingsVars, inputVars,
         lockVars, scanVars, actionVars, orderVars, StepTo, PlaybackInv, ItemsInv,
         QueueTypeOK, PlaybackTypeOK
<1>7. ASSUME ConsumerActs
      PROVE  ItemsInv'
  BY <1>7, <1>0, Names, FreshIsItem
     DEF ConsumerActs, ConsumerUnchanged, ConsumerRests, settingsVars, inputVars,
         lockVars, scanVars, actionVars, orderVars, StepTo, PlaybackInv, ItemsInv,
         QueueTypeOK, PlaybackTypeOK
<1>8. ASSUME ConsumerStops
      PROVE  ItemsInv'
  BY <1>8, <1>0, Names, FreshIsItem
     DEF ConsumerStops, ConsumerUnchanged, settingsVars, inputVars, lockVars,
         scanVars, actionVars, orderVars, StepTo, PlaybackInv, ItemsInv,
         QueueTypeOK, PlaybackTypeOK
<1>9. ASSUME ActionEnds
      PROVE  ItemsInv'
  BY <1>9, <1>0, Names, FreshIsItem
     DEF ActionEnds, ConsumerUnchanged, ConsumerRests, settingsVars, inputVars,
         lockVars, scanVars, actionVars, orderVars, StepTo, PlaybackInv, ItemsInv,
         QueueTypeOK, PlaybackTypeOK
<1>10. ASSUME MidiBegins
      PROVE  ItemsInv'
  BY <1>10, <1>0, Names, FreshIsItem
     DEF MidiBegins, settingsVars, inputVars, lockVars, scanVars, actionVars,
         orderVars, StepTo, PlaybackInv, ItemsInv, QueueTypeOK, PlaybackTypeOK
<1>11. ASSUME MidiEnds
      PROVE  ItemsInv'
  BY <1>11, <1>0, Names, FreshIsItem
     DEF MidiEnds, settingsVars, inputVars, lockVars, scanVars, actionVars,
         orderVars, StepTo, PlaybackInv, ItemsInv, QueueTypeOK, PlaybackTypeOK
<1>12. ASSUME NEW c \in Callers, NEW job \in {"find", "cancel", "skips", "discover", "stop", "save"},
              NEW for \in InputMethods, AskInput(c, job, for)
      PROVE  ItemsInv'
  BY <1>12, <1>0, Names, FreshIsItem, AskInputEffect
     DEF AskInput, FirstStep, settingsVars, inputVars, lockVars, scanVars,
         actionVars, orderVars, StepTo, PlaybackInv, ItemsInv, QueueTypeOK,
         PlaybackTypeOK
<1>13. ASSUME NEW a \in Actors, ScanAwaited(a)
      PROVE  ItemsInv'
  BY <1>13, <1>0, Names, FreshIsItem, ScanAwaitedEffect
     DEF ScanAwaited, settingsVars, inputVars, lockVars, scanVars, actionVars,
         orderVars, StepTo, PlaybackInv, ItemsInv, QueueTypeOK, PlaybackTypeOK
<1>14. ASSUME NEW a \in Actors, DiscoveryAwaited(a)
      PROVE  ItemsInv'
  BY <1>14, <1>0, Names, FreshIsItem, DiscoveryAwaitedEffect
     DEF DiscoveryAwaited, settingsVars, inputVars, lockVars, scanVars, actionVars,
         orderVars, StepTo, PlaybackInv, ItemsInv, QueueTypeOK, PlaybackTypeOK
<1>15. ASSUME NEW a \in Actors, StartScan(a)
      PROVE  ItemsInv'
  <2>1. PICK s \in Scans :
            /\ jobs[s].at = "idle" /\ s # a /\ jobs'[s].at = "scanning" /\ jobs'[s].job = "adopt"
            /\ \A b \in Actors \ {a, s} : jobs'[b] = jobs[b]
            /\ scanTask' = s
    BY <1>15, <1>0, StartScanEffect
  <2>2. /\ a \in Callers /\ jobs[a].at = "locking" /\ jobs[a].job = "find" /\ lifecycle = NoActor
        /\ jobs'[a].at = "idle" /\ jobs'[a].job = "none" /\ s \in Actors
        /\ UNCHANGED <<settingsVars, inputVars, lifecycle, dispatching, requests, cancelled,
                       scansCrossed, actionVars, orderVars, seen>>
    BY <1>15, <1>0, <2>1, StartScanEffect, Names DEF StartScan
  <2>3. QED
    BY <1>0, <2>1, <2>2, Names
       DEF settingsVars, inputVars, actionVars, orderVars, PlaybackInv, ItemsInv,
           QueueTypeOK, PlaybackTypeOK
<1>16. ASSUME NEW a \in Actors, SaveSkips(a)
      PROVE  ItemsInv'
  BY <1>16, <1>0, Names, FreshIsItem, SaveSkipsEffect, MarksKeepItems
     DEF SaveSkips, MayLock, SkipMarks, settingsVars, inputVars, lockVars, scanVars,
         actionVars, orderVars, StepTo, PlaybackInv, ItemsInv, QueueTypeOK,
         PlaybackTypeOK
<1>17. ASSUME NEW a \in Actors, SaveInput(a)
      PROVE  ItemsInv'
  BY <1>17, <1>0, Names, FreshIsItem, SaveInputEffect
     DEF SaveInput, MayLock, settingsVars, inputVars, lockVars, scanVars,
         actionVars, orderVars, StepTo, PlaybackInv, ItemsInv, QueueTypeOK,
         PlaybackTypeOK
<1>18. ASSUME NEW a \in Actors, BeginStop(a)
      PROVE  ItemsInv'
  BY <1>18, <1>0, Names, FreshIsItem, BeginStopEffect
     DEF BeginStop, MayLock, settingsVars, inputVars, lockVars, scanVars,
         actionVars, orderVars, StepTo, PlaybackInv, ItemsInv, QueueTypeOK,
         PlaybackTypeOK
<1>19. ASSUME NEW a \in Actors, BeginDiscovery(a)
      PROVE  ItemsInv'
  BY <1>19, <1>0, Names, FreshIsItem, BeginDiscoveryEffect
     DEF BeginDiscovery, MayLock, settingsVars, inputVars, lockVars, scanVars,
         actionVars, orderVars, StepTo, PlaybackInv, ItemsInv, QueueTypeOK,
         PlaybackTypeOK
<1>20. ASSUME NEW a \in Actors, Discovers(a)
      PROVE  ItemsInv'
  BY <1>20, <1>0, Names, FreshIsItem, DiscoversEffect, MarksKeepItems
     DEF Discovers, NothingActs, settingsVars, inputVars, lockVars, scanVars,
         actionVars, orderVars, StepTo, PlaybackInv, ItemsInv, QueueTypeOK,
         PlaybackTypeOK
<1>21. ASSUME NEW a \in Actors, Quiets(a)
      PROVE  ItemsInv'
  BY <1>21, <1>0, Names, FreshIsItem, QuietsEffect, MarksKeepItems
     DEF Quiets, NothingActs, settingsVars, inputVars, lockVars, scanVars,
         actionVars, orderVars, StepTo, PlaybackInv, ItemsInv, QueueTypeOK,
         PlaybackTypeOK
<1>22. ASSUME NEW a \in Actors, InputStops(a)
      PROVE  ItemsInv'
  BY <1>22, <1>0, Names, FreshIsItem, InputStopsEffect
     DEF InputStops, settingsVars, inputVars, lockVars, scanVars, actionVars,
         orderVars, StepTo, PlaybackInv, ItemsInv, QueueTypeOK, PlaybackTypeOK
<1>23. ASSUME NEW a \in Actors, InputStarts(a)
      PROVE  ItemsInv'
  BY <1>23, <1>0, Names, FreshIsItem, InputStartsEffect
     DEF InputStarts, settingsVars, inputVars, lockVars, scanVars, actionVars,
         orderVars, StepTo, PlaybackInv, ItemsInv, QueueTypeOK, PlaybackTypeOK
<1>24. ASSUME NEW a \in Actors, ScanReports(a)
      PROVE  ItemsInv'
  BY <1>24, <1>0, Names, FreshIsItem, ScanReportsEffect
     DEF ScanReports, settingsVars, inputVars, lockVars, scanVars, actionVars,
         orderVars, StepTo, PlaybackInv, ItemsInv, QueueTypeOK, PlaybackTypeOK
<1>25. ASSUME NEW a \in Actors, WalkSucceeds(a)
      PROVE  ItemsInv'
  BY <1>25, <1>0, Names, FreshIsItem, WalkSucceedsEffect, MarksKeepItems
     DEF WalkSucceeds, WalkEnds, settingsVars, inputVars, lockVars, scanVars,
         actionVars, orderVars, StepTo, PlaybackInv, ItemsInv, QueueTypeOK,
         PlaybackTypeOK
<1>26. ASSUME NEW a \in Actors, WalkFails(a)
      PROVE  ItemsInv'
  BY <1>26, <1>0, Names, FreshIsItem, WalkFailsEffect, MarksKeepItems
     DEF WalkFails, WalkEnds, settingsVars, inputVars, lockVars, scanVars,
         actionVars, orderVars, StepTo, PlaybackInv, ItemsInv, QueueTypeOK,
         PlaybackTypeOK
<1>27. CASE UNCHANGED playbackVars
  BY <1>27, <1>0, Names, FreshIsItem
     DEF playbackVars, settingsVars, inputVars, lockVars, scanVars, actionVars,
         orderVars, StepTo, PlaybackInv, ItemsInv, QueueTypeOK, PlaybackTypeOK
<1>28. QED
  BY <1>1, <1>2, <1>3, <1>4, <1>5, <1>6, <1>7, <1>8, <1>9, <1>10, <1>11, <1>12, <1>13,
     <1>14, <1>15, <1>16, <1>17, <1>18, <1>19, <1>20, <1>21, <1>22, <1>23, <1>24, <1>25,
     <1>26, <1>27
     DEF PlaybackNext, Continues, Consumes, InputMethods

\* The order is trusted while it is valid.
LEMMA OrderStep == ASSUME PlaybackInv, [PlaybackNext]_playbackVars
                 PROVE  OrderInv'
<1>0. PlaybackInv /\ PlaybackTypeOK
  BY DEF PlaybackInv
<1>1. ASSUME LinkUp
      PROVE  OrderInv'
  BY <1>1, <1>0, Names
     DEF LinkUp, settingsVars, inputVars, lockVars, scanVars, actionVars, orderVars,
         StepTo, PlaybackInv, OrderInv, ChangeInv, RunningInput
<1>2. ASSUME LinkDown
      PROVE  OrderInv'
  BY <1>2, <1>0, Names
     DEF LinkDown, settingsVars, inputVars, lockVars, scanVars, actionVars,
         orderVars, StepTo, PlaybackInv, OrderInv, ChangeInv, RunningInput
<1>3. ASSUME SetlistChanges
      PROVE  OrderInv'
  BY <1>3, <1>0, Names
     DEF SetlistChanges, settingsVars, inputVars, lockVars, scanVars, actionVars,
         orderVars, StepTo, PlaybackInv, OrderInv, ChangeInv, RunningInput
<1>4. ASSUME Observes
      PROVE  OrderInv'
  BY <1>4, <1>0, Names
     DEF Observes, settingsVars, inputVars, lockVars, scanVars, actionVars,
         orderVars, StepTo, PlaybackInv, OrderInv, ChangeInv, RunningInput
<1>5. ASSUME TakesObserved
      PROVE  OrderInv'
  BY <1>5, <1>0, Names
     DEF TakesObserved, ConsumerUnchanged, settingsVars, inputVars, lockVars,
         scanVars, actionVars, orderVars, StepTo, PlaybackInv, OrderInv, ChangeInv,
         RunningInput
<1>6. ASSUME ConsumerLocks
      PROVE  OrderInv'
  BY <1>6, <1>0, Names
     DEF ConsumerLocks, ConsumerUnchanged, ConsumerRests, settingsVars, inputVars,
         lockVars, scanVars, actionVars, orderVars, StepTo, PlaybackInv, OrderInv,
         ChangeInv, RunningInput
<1>7. ASSUME ConsumerActs
      PROVE  OrderInv'
  BY <1>7, <1>0, Names
     DEF ConsumerActs, ConsumerUnchanged, ConsumerRests, settingsVars, inputVars,
         lockVars, scanVars, actionVars, orderVars, StepTo, PlaybackInv, OrderInv,
         ChangeInv, RunningInput
<1>8. ASSUME ConsumerStops
      PROVE  OrderInv'
  BY <1>8, <1>0, Names
     DEF ConsumerStops, ConsumerUnchanged, settingsVars, inputVars, lockVars,
         scanVars, actionVars, orderVars, StepTo, PlaybackInv, OrderInv, ChangeInv,
         RunningInput
<1>9. ASSUME ActionEnds
      PROVE  OrderInv'
  BY <1>9, <1>0, Names
     DEF ActionEnds, ConsumerUnchanged, ConsumerRests, settingsVars, inputVars,
         lockVars, scanVars, actionVars, orderVars, StepTo, PlaybackInv, OrderInv,
         ChangeInv, RunningInput
<1>10. ASSUME MidiBegins
      PROVE  OrderInv'
  BY <1>10, <1>0, Names
     DEF MidiBegins, settingsVars, inputVars, lockVars, scanVars, actionVars,
         orderVars, StepTo, PlaybackInv, OrderInv, ChangeInv, RunningInput
<1>11. ASSUME MidiEnds
      PROVE  OrderInv'
  BY <1>11, <1>0, Names
     DEF MidiEnds, settingsVars, inputVars, lockVars, scanVars, actionVars,
         orderVars, StepTo, PlaybackInv, OrderInv, ChangeInv, RunningInput
<1>12. ASSUME NEW c \in Callers, NEW job \in {"find", "cancel", "skips", "discover", "stop", "save"},
              NEW for \in InputMethods, AskInput(c, job, for)
      PROVE  OrderInv'
  BY <1>12, <1>0, Names, AskInputEffect
     DEF AskInput, FirstStep, settingsVars, inputVars, lockVars, scanVars,
         actionVars, orderVars, StepTo, PlaybackInv, OrderInv, ChangeInv,
         RunningInput
<1>13. ASSUME NEW a \in Actors, ScanAwaited(a)
      PROVE  OrderInv'
  BY <1>13, <1>0, Names, ScanAwaitedEffect
     DEF ScanAwaited, settingsVars, inputVars, lockVars, scanVars, actionVars,
         orderVars, StepTo, PlaybackInv, OrderInv, ChangeInv, RunningInput
<1>14. ASSUME NEW a \in Actors, DiscoveryAwaited(a)
      PROVE  OrderInv'
  BY <1>14, <1>0, Names, DiscoveryAwaitedEffect
     DEF DiscoveryAwaited, settingsVars, inputVars, lockVars, scanVars, actionVars,
         orderVars, StepTo, PlaybackInv, OrderInv, ChangeInv, RunningInput
<1>15. ASSUME NEW a \in Actors, StartScan(a)
      PROVE  OrderInv'
  <2>1. PICK s \in Scans :
            /\ jobs[s].at = "idle" /\ s # a /\ jobs'[s].at = "scanning" /\ jobs'[s].job = "adopt"
            /\ \A b \in Actors \ {a, s} : jobs'[b] = jobs[b]
            /\ scanTask' = s
    BY <1>15, <1>0, StartScanEffect
  <2>2. /\ a \in Callers /\ jobs[a].at = "locking" /\ jobs[a].job = "find" /\ lifecycle = NoActor
        /\ jobs'[a].at = "idle" /\ jobs'[a].job = "none" /\ s \in Actors
        /\ UNCHANGED <<settingsVars, inputVars, lifecycle, dispatching, requests, cancelled,
                       scansCrossed, actionVars, orderVars, seen>>
    BY <1>15, <1>0, <2>1, StartScanEffect, Names DEF StartScan
  <2>3. QED
    BY <1>0, <2>1, <2>2, Names
       DEF settingsVars, inputVars, actionVars, orderVars, PlaybackInv, OrderInv,
           ChangeInv, RunningInput
<1>16. ASSUME NEW a \in Actors, SaveSkips(a)
      PROVE  OrderInv'
  BY <1>16, <1>0, Names, SaveSkipsEffect
     DEF SaveSkips, MayLock, SkipMarks, settingsVars, inputVars, lockVars, scanVars,
         actionVars, orderVars, StepTo, PlaybackInv, OrderInv, ChangeInv,
         RunningInput
<1>17. ASSUME NEW a \in Actors, SaveInput(a)
      PROVE  OrderInv'
  BY <1>17, <1>0, Names, SaveInputEffect
     DEF SaveInput, MayLock, settingsVars, inputVars, lockVars, scanVars,
         actionVars, orderVars, StepTo, PlaybackInv, OrderInv, ChangeInv,
         RunningInput
<1>18. ASSUME NEW a \in Actors, BeginStop(a)
      PROVE  OrderInv'
  BY <1>18, <1>0, Names, BeginStopEffect
     DEF BeginStop, MayLock, settingsVars, inputVars, lockVars, scanVars,
         actionVars, orderVars, StepTo, PlaybackInv, OrderInv, ChangeInv,
         RunningInput
<1>19. ASSUME NEW a \in Actors, BeginDiscovery(a)
      PROVE  OrderInv'
  BY <1>19, <1>0, Names, BeginDiscoveryEffect
     DEF BeginDiscovery, MayLock, settingsVars, inputVars, lockVars, scanVars,
         actionVars, orderVars, StepTo, PlaybackInv, OrderInv, ChangeInv,
         RunningInput
<1>20. ASSUME NEW a \in Actors, Discovers(a)
      PROVE  OrderInv'
  BY <1>20, <1>0, Names, DiscoversEffect
     DEF Discovers, NothingActs, settingsVars, inputVars, lockVars, scanVars,
         actionVars, orderVars, StepTo, PlaybackInv, OrderInv, ChangeInv,
         RunningInput
<1>21. ASSUME NEW a \in Actors, Quiets(a)
      PROVE  OrderInv'
  BY <1>21, <1>0, Names, QuietsEffect
     DEF Quiets, NothingActs, settingsVars, inputVars, lockVars, scanVars,
         actionVars, orderVars, StepTo, PlaybackInv, OrderInv, ChangeInv,
         RunningInput
<1>22. ASSUME NEW a \in Actors, InputStops(a)
      PROVE  OrderInv'
  BY <1>22, <1>0, Names, InputStopsEffect
     DEF InputStops, settingsVars, inputVars, lockVars, scanVars, actionVars,
         orderVars, StepTo, PlaybackInv, OrderInv, ChangeInv, RunningInput
<1>23. ASSUME NEW a \in Actors, InputStarts(a)
      PROVE  OrderInv'
  BY <1>23, <1>0, Names, InputStartsEffect
     DEF InputStarts, settingsVars, inputVars, lockVars, scanVars, actionVars,
         orderVars, StepTo, PlaybackInv, OrderInv, ChangeInv, RunningInput
<1>24. ASSUME NEW a \in Actors, ScanReports(a)
      PROVE  OrderInv'
  BY <1>24, <1>0, Names, ScanReportsEffect
     DEF ScanReports, settingsVars, inputVars, lockVars, scanVars, actionVars,
         orderVars, StepTo, PlaybackInv, OrderInv, ChangeInv, RunningInput
<1>25. ASSUME NEW a \in Actors, WalkSucceeds(a)
      PROVE  OrderInv'
  BY <1>25, <1>0, Names, WalkSucceedsEffect
     DEF WalkSucceeds, WalkEnds, settingsVars, inputVars, lockVars, scanVars,
         actionVars, orderVars, StepTo, PlaybackInv, OrderInv, ChangeInv,
         RunningInput
<1>26. ASSUME NEW a \in Actors, WalkFails(a)
      PROVE  OrderInv'
  BY <1>26, <1>0, Names, WalkFailsEffect
     DEF WalkFails, WalkEnds, settingsVars, inputVars, lockVars, scanVars,
         actionVars, orderVars, StepTo, PlaybackInv, OrderInv, ChangeInv,
         RunningInput
<1>27. CASE UNCHANGED playbackVars
  BY <1>27, <1>0, Names
     DEF playbackVars, settingsVars, inputVars, lockVars, scanVars, actionVars,
         orderVars, StepTo, PlaybackInv, OrderInv, ChangeInv, RunningInput
<1>28. QED
  BY <1>1, <1>2, <1>3, <1>4, <1>5, <1>6, <1>7, <1>8, <1>9, <1>10, <1>11, <1>12, <1>13,
     <1>14, <1>15, <1>16, <1>17, <1>18, <1>19, <1>20, <1>21, <1>22, <1>23, <1>24, <1>25,
     <1>26, <1>27
     DEF PlaybackNext, Continues, Consumes, InputMethods

\* Whoever goes on with a scan or a request that it has already begun.
LEMMA OneScanKept ==
  ASSUME PlaybackInv, NEW a \in Actors, NEW at, NEW job, StepTo(a, at, job),
         UNCHANGED <<scanTask, scansCrossed>>, job \in Cancelling => job = jobs[a].job,
         at # "cancelling", ~(at = "locking" /\ job = "find"),
         at \notin {"idle", "over"} => jobs[a].at \notin {"idle", "over"}
  PROVE  OneScan'
<1>1. SUFFICES ASSUME ~scansCrossed
               PROVE  /\ \A c, d \in Callers :
                            jobs'[c].job \in Cancelling /\ jobs'[d].job \in Cancelling => c = d
                      /\ \A c \in Callers :
                            /\ jobs'[c].at = "cancelling" => jobs'[c].waits = scanTask
                            /\ jobs'[c].at = "locking" /\ jobs'[c].job = "find" => scanTask = NoActor
                      /\ \A s \in Scans : jobs'[s].at \notin {"idle", "over"} => scanTask = s
  BY DEF OneScan
<1>2. /\ \A b \in Actors \ {a} : jobs'[b] = jobs[b]
      /\ jobs'[a].at = at /\ jobs'[a].job = job
  BY DEF StepTo
<1>3. \A c \in Callers : jobs'[c].job \in Cancelling => jobs[c].job \in Cancelling
  BY <1>2, Names
<1>4. OneScan
  BY DEF PlaybackInv
<1>5. \A c \in Callers : jobs'[c].at = "cancelling" => jobs'[c].waits = scanTask
  BY <1>1, <1>2, <1>4, Names DEF OneScan
<1>6. \A c \in Callers : jobs'[c].at = "locking" /\ jobs'[c].job = "find" => scanTask = NoActor
  BY <1>1, <1>2, <1>4, Names DEF OneScan
<1>7. \A s \in Scans : jobs'[s].at \notin {"idle", "over"} => scanTask = s
  BY <1>1, <1>2, <1>4, Names DEF OneScan
<1>8. QED
  BY <1>1, <1>3, <1>4, <1>5, <1>6, <1>7 DEF OneScan

\* There is one scan to wait for.
LEMMA OneScanStep == ASSUME PlaybackInv, [PlaybackNext]_playbackVars
                   PROVE  OneScan'
<1>0. PlaybackInv /\ PlaybackTypeOK
  BY DEF PlaybackInv
<1>1. ASSUME LinkUp
      PROVE  OneScan'
  BY <1>1, <1>0, Names
     DEF LinkUp, settingsVars, inputVars, lockVars, scanVars, actionVars, orderVars,
         StepTo, PlaybackInv, OneScan, Cancelling, FirstStep
<1>2. ASSUME LinkDown
      PROVE  OneScan'
  BY <1>2, <1>0, Names
     DEF LinkDown, settingsVars, inputVars, lockVars, scanVars, actionVars,
         orderVars, StepTo, PlaybackInv, OneScan, Cancelling, FirstStep
<1>3. ASSUME SetlistChanges
      PROVE  OneScan'
  BY <1>3, <1>0, Names
     DEF SetlistChanges, settingsVars, inputVars, lockVars, scanVars, actionVars,
         orderVars, StepTo, PlaybackInv, OneScan, Cancelling, FirstStep
<1>4. ASSUME Observes
      PROVE  OneScan'
  BY <1>4, <1>0, Names
     DEF Observes, settingsVars, inputVars, lockVars, scanVars, actionVars,
         orderVars, StepTo, PlaybackInv, OneScan, Cancelling, FirstStep
<1>5. ASSUME TakesObserved
      PROVE  OneScan'
  BY <1>5, <1>0, Names
     DEF TakesObserved, ConsumerUnchanged, settingsVars, inputVars, lockVars,
         scanVars, actionVars, orderVars, StepTo, PlaybackInv, OneScan, Cancelling,
         FirstStep
<1>6. ASSUME ConsumerLocks
      PROVE  OneScan'
  BY <1>6, <1>0, Names
     DEF ConsumerLocks, ConsumerUnchanged, ConsumerRests, settingsVars, inputVars,
         lockVars, scanVars, actionVars, orderVars, StepTo, PlaybackInv, OneScan,
         Cancelling, FirstStep
<1>7. ASSUME ConsumerActs
      PROVE  OneScan'
  BY <1>7, <1>0, Names
     DEF ConsumerActs, ConsumerUnchanged, ConsumerRests, settingsVars, inputVars,
         lockVars, scanVars, actionVars, orderVars, StepTo, PlaybackInv, OneScan,
         Cancelling, FirstStep
<1>8. ASSUME ConsumerStops
      PROVE  OneScan'
  BY <1>8, <1>0, Names
     DEF ConsumerStops, ConsumerUnchanged, settingsVars, inputVars, lockVars,
         scanVars, actionVars, orderVars, StepTo, PlaybackInv, OneScan, Cancelling,
         FirstStep
<1>9. ASSUME ActionEnds
      PROVE  OneScan'
  BY <1>9, <1>0, Names
     DEF ActionEnds, ConsumerUnchanged, ConsumerRests, settingsVars, inputVars,
         lockVars, scanVars, actionVars, orderVars, StepTo, PlaybackInv, OneScan,
         Cancelling, FirstStep
<1>10. ASSUME MidiBegins
      PROVE  OneScan'
  BY <1>10, <1>0, Names
     DEF MidiBegins, settingsVars, inputVars, lockVars, scanVars, actionVars,
         orderVars, StepTo, PlaybackInv, OneScan, Cancelling, FirstStep
<1>11. ASSUME MidiEnds
      PROVE  OneScan'
  BY <1>11, <1>0, Names
     DEF MidiEnds, settingsVars, inputVars, lockVars, scanVars, actionVars,
         orderVars, StepTo, PlaybackInv, OneScan, Cancelling, FirstStep
<1>12. ASSUME NEW c \in Callers, NEW job \in {"find", "cancel", "skips", "discover", "stop", "save"},
              NEW for \in InputMethods, AskInput(c, job, for)
      PROVE  OneScan'
  <2>1. SUFFICES ASSUME ~scansCrossed'
                 PROVE  /\ \A b, d \in Callers :
                            jobs'[b].job \in Cancelling /\ jobs'[d].job \in Cancelling => b = d
                        /\ \A b \in Callers :
                              /\ jobs'[b].at = "cancelling" => jobs'[b].waits = scanTask'
                              /\ jobs'[b].at = "locking" /\ jobs'[b].job = "find" => scanTask' = NoActor
                        /\ \A s \in Scans : jobs'[s].at \notin {"idle", "over"} => scanTask' = s
    BY DEF OneScan
  <2>2. /\ c \in Actors /\ c \notin Scans /\ scanTask' = scanTask /\ jobs'[c].waits = scanTask
        /\ jobs'[c].at = FirstStep(job) /\ jobs'[c].job = job
        /\ \A b \in Actors \ {c} : jobs'[b] = jobs[b]
    BY <1>12, <1>0, AskInputEffect, Names DEF AskInput, StepTo
  <2>3. ~scansCrossed /\ (job \in Cancelling => \A d \in Callers : jobs[d].job \notin Cancelling)
    BY <1>12, <2>1 DEF AskInput
  <2>4. OneScan
    BY <1>0 DEF PlaybackInv
  <2>5. \A s \in Scans : jobs'[s].at \notin {"idle", "over"} => scanTask' = s
    BY <2>2, <2>3, <2>4, Names DEF OneScan
  <2>6. CASE job \in Cancelling
    BY <2>2, <2>3, <2>4, <2>5, <2>6, Names DEF OneScan, FirstStep
  <2>7. CASE job \notin Cancelling
    <3>1. jobs'[c].at = "locking" /\ job # "find"
      BY <2>2, <2>7 DEF FirstStep, Cancelling
    <3>2. QED
      BY <2>2, <2>3, <2>4, <2>5, <2>7, <3>1, Names DEF OneScan
  <2>8. QED
    BY <2>6, <2>7
<1>13. ASSUME NEW a \in Actors, ScanAwaited(a)
      PROVE  OneScan'
  <2>1. SUFFICES ASSUME ~scansCrossed'
                 PROVE  /\ \A b, d \in Callers :
                            jobs'[b].job \in Cancelling /\ jobs'[d].job \in Cancelling => b = d
                        /\ \A b \in Callers :
                              /\ jobs'[b].at = "cancelling" => jobs'[b].waits = scanTask'
                              /\ jobs'[b].at = "locking" /\ jobs'[b].job = "find" => scanTask' = NoActor
                        /\ \A s \in Scans : jobs'[s].at \notin {"idle", "over"} => scanTask' = s
    BY DEF OneScan
  <2>2. /\ a \in Callers /\ jobs[a].at = "cancelling" /\ jobs[a].job \in Cancelling
        /\ jobs'[a].at # "cancelling" /\ (jobs'[a].job \in Cancelling => jobs'[a].job = jobs[a].job)
        /\ \A b \in Actors \ {a} : jobs'[b] = jobs[b]
    BY <1>13, <1>0, ScanAwaitedEffect DEF StepTo, Cancelling
  <2>3. /\ scanTask' = NoActor /\ ~scansCrossed
        /\ jobs[a].waits \in Scans => jobs[jobs[a].waits].at = "over"
    BY <1>13, <2>1 DEF ScanAwaited
  <2>4. OneScan
    BY <1>0 DEF PlaybackInv
  <2>5. \A s \in Scans : jobs[s].at \in {"idle", "over"}
    BY <2>2, <2>3, <2>4 DEF OneScan
  <2>6. \A b \in Callers : jobs'[b].job \in Cancelling => b = a
    BY <2>2, <2>3, <2>4, Names DEF OneScan
  <2>7. \A b \in Callers : jobs'[b].at # "cancelling"
    BY <1>0, <2>2, <2>3, <2>4, CancellingJob, Names DEF OneScan
  <2>8. \A s \in Scans : jobs'[s] = jobs[s]
    BY <2>2, Names
  <2>9. QED
    BY <2>3, <2>5, <2>6, <2>7, <2>8
<1>14. ASSUME NEW a \in Actors, DiscoveryAwaited(a)
      PROVE  OneScan'
  BY <1>14, <1>0, Names, DiscoveryAwaitedEffect
     DEF DiscoveryAwaited, settingsVars, inputVars, lockVars, scanVars, actionVars,
         orderVars, StepTo, PlaybackInv, OneScan, Cancelling, FirstStep
<1>15. ASSUME NEW a \in Actors, StartScan(a)
      PROVE  OneScan'
  <2>1. SUFFICES ASSUME ~scansCrossed'
                 PROVE  /\ \A b, d \in Callers :
                            jobs'[b].job \in Cancelling /\ jobs'[d].job \in Cancelling => b = d
                        /\ \A b \in Callers :
                              /\ jobs'[b].at = "cancelling" => jobs'[b].waits = scanTask'
                              /\ jobs'[b].at = "locking" /\ jobs'[b].job = "find" => scanTask' = NoActor
                        /\ \A t \in Scans : jobs'[t].at \notin {"idle", "over"} => scanTask' = t
    BY DEF OneScan
  <2>2. PICK s \in Scans :
            /\ jobs[s].at = "idle" /\ s # a /\ jobs'[s].at = "scanning" /\ jobs'[s].job = "adopt"
            /\ \A b \in Actors \ {a, s} : jobs'[b] = jobs[b]
            /\ scanTask' = s
    BY <1>15, <1>0, StartScanEffect
  <2>3. /\ a \in Callers /\ jobs[a].at = "locking" /\ jobs[a].job = "find" /\ ~scansCrossed
        /\ jobs'[a].at = "idle" /\ jobs'[a].job = "none"
    BY <1>15, <1>0, <2>1, StartScanEffect DEF StartScan
  <2>4. OneScan
    BY <1>0 DEF PlaybackInv
  <2>5. \A t \in Scans \ {s} : jobs'[t].at \in {"idle", "over"}
    BY <2>2, <2>3, <2>4, Names DEF OneScan
  <2>6. \A b \in Callers : jobs'[b].job \notin Cancelling
    BY <2>2, <2>3, <2>4, Names DEF OneScan, Cancelling
  <2>7. \A b \in Callers : jobs'[b].at # "cancelling" /\ jobs'[b].job # "find"
    BY <1>0, <2>2, <2>3, <2>4, <2>6, CancellingJob, Names DEF Cancelling
  <2>8. QED
    BY <2>2, <2>5, <2>6, <2>7
<1>16. ASSUME NEW a \in Actors, SaveSkips(a)
      PROVE  OneScan'
  BY <1>16, <1>0, Names, SaveSkipsEffect
     DEF SaveSkips, MayLock, SkipMarks, settingsVars, inputVars, lockVars, scanVars,
         actionVars, orderVars, StepTo, PlaybackInv, OneScan, Cancelling, FirstStep
<1>17. ASSUME NEW a \in Actors, SaveInput(a)
      PROVE  OneScan'
  BY <1>17, <1>0, Names, SaveInputEffect
     DEF SaveInput, MayLock, settingsVars, inputVars, lockVars, scanVars,
         actionVars, orderVars, StepTo, PlaybackInv, OneScan, Cancelling, FirstStep
<1>18. ASSUME NEW a \in Actors, BeginStop(a)
      PROVE  OneScan'
  BY <1>18, <1>0, OneScanKept, BeginStopEffect DEF BeginStop, Cancelling, scanVars
<1>19. ASSUME NEW a \in Actors, BeginDiscovery(a)
      PROVE  OneScan'
  BY <1>19, <1>0, Names, BeginDiscoveryEffect
     DEF BeginDiscovery, MayLock, settingsVars, inputVars, lockVars, scanVars,
         actionVars, orderVars, StepTo, PlaybackInv, OneScan, Cancelling, FirstStep
<1>20. ASSUME NEW a \in Actors, Discovers(a)
      PROVE  OneScan'
  BY <1>20, <1>0, Names, DiscoversEffect
     DEF Discovers, NothingActs, settingsVars, inputVars, lockVars, scanVars,
         actionVars, orderVars, StepTo, PlaybackInv, OneScan, Cancelling, FirstStep
<1>21. ASSUME NEW a \in Actors, Quiets(a)
      PROVE  OneScan'
  BY <1>21, <1>0, OneScanKept, QuietsEffect DEF Quiets, Cancelling, scanVars
<1>22. ASSUME NEW a \in Actors, InputStops(a)
      PROVE  OneScan'
  BY <1>22, <1>0, OneScanKept, InputStopsEffect DEF InputStops, Cancelling, scanVars
<1>23. ASSUME NEW a \in Actors, InputStarts(a)
      PROVE  OneScan'
  BY <1>23, <1>0, OneScanKept, InputStartsEffect DEF InputStarts, Cancelling, scanVars
<1>24. ASSUME NEW a \in Actors, ScanReports(a)
      PROVE  OneScan'
  BY <1>24, <1>0, Names, ScanReportsEffect
     DEF ScanReports, settingsVars, inputVars, lockVars, scanVars, actionVars,
         orderVars, StepTo, PlaybackInv, OneScan, Cancelling, FirstStep
<1>25. ASSUME NEW a \in Actors, WalkSucceeds(a)
      PROVE  OneScan'
  BY <1>25, <1>0, Names, WalkSucceedsEffect
     DEF WalkSucceeds, WalkEnds, settingsVars, inputVars, lockVars, scanVars,
         actionVars, orderVars, StepTo, PlaybackInv, OneScan, Cancelling, FirstStep
<1>26. ASSUME NEW a \in Actors, WalkFails(a)
      PROVE  OneScan'
  BY <1>26, <1>0, Names, WalkFailsEffect
     DEF WalkFails, WalkEnds, settingsVars, inputVars, lockVars, scanVars,
         actionVars, orderVars, StepTo, PlaybackInv, OneScan, Cancelling, FirstStep
<1>27. CASE UNCHANGED playbackVars
  BY <1>27, <1>0, Names
     DEF playbackVars, settingsVars, inputVars, lockVars, scanVars, actionVars,
         orderVars, StepTo, PlaybackInv, OneScan, Cancelling, FirstStep
<1>28. QED
  BY <1>1, <1>2, <1>3, <1>4, <1>5, <1>6, <1>7, <1>8, <1>9, <1>10, <1>11, <1>12, <1>13,
     <1>14, <1>15, <1>16, <1>17, <1>18, <1>19, <1>20, <1>21, <1>22, <1>23, <1>24, <1>25,
     <1>26, <1>27
     DEF PlaybackNext, Continues, Consumes, InputMethods

\* Actions are begun on what holds.
LEMMA InForceStep == ASSUME PlaybackInv, [PlaybackNext]_playbackVars
                   PROVE  ObservedInForce'
<1>0. PlaybackInv /\ PlaybackTypeOK /\ consumer \in [at : {"idle", "locking", "reading", "acting"}, item : Items]
  BY  DEF PlaybackInv, PlaybackTypeOK, QueueTypeOK
<1>1. ASSUME LinkUp
      PROVE  ObservedInForce'
  BY <1>1, <1>0, Names, MarksKeep
     DEF LinkUp, settingsVars, inputVars, lockVars, scanVars, actionVars, orderVars,
         StepTo, PlaybackInv, ObservedInForce, InForce, ItemsInv, OrderInv,
         RunningInput, DispatchHeld, ChangeInv, InputMethods
<1>2. ASSUME LinkDown
      PROVE  ObservedInForce'
  BY <1>2, <1>0, Names, MarksKeep
     DEF LinkDown, settingsVars, inputVars, lockVars, scanVars, actionVars,
         orderVars, StepTo, PlaybackInv, ObservedInForce, InForce, ItemsInv,
         OrderInv, RunningInput, DispatchHeld, ChangeInv, InputMethods
<1>3. ASSUME SetlistChanges
      PROVE  ObservedInForce'
  BY <1>3, <1>0, Names, MarksKeep
     DEF SetlistChanges, settingsVars, inputVars, lockVars, scanVars, actionVars,
         orderVars, StepTo, PlaybackInv, ObservedInForce, InForce, ItemsInv,
         OrderInv, RunningInput, DispatchHeld, ChangeInv, InputMethods
<1>4. ASSUME Observes
      PROVE  ObservedInForce'
  BY <1>4, <1>0, Names
     DEF Observes, settingsVars, inputVars, lockVars, scanVars, actionVars,
         orderVars, StepTo, PlaybackInv, ObservedInForce, InForce, ItemsInv,
         OrderInv, RunningInput, DispatchHeld, ChangeInv, InputMethods
<1>5. ASSUME TakesObserved
      PROVE  ObservedInForce'
  BY <1>5, <1>0, Names
     DEF TakesObserved, ConsumerUnchanged, settingsVars, inputVars, lockVars,
         scanVars, actionVars, orderVars, StepTo, PlaybackInv, ObservedInForce,
         InForce, ItemsInv, OrderInv, RunningInput, DispatchHeld, ChangeInv,
         InputMethods
<1>6. ASSUME ConsumerLocks
      PROVE  ObservedInForce'
  BY <1>6, <1>0, Names
     DEF ConsumerLocks, ConsumerUnchanged, ConsumerRests, settingsVars, inputVars,
         lockVars, scanVars, actionVars, orderVars, StepTo, PlaybackInv,
         ObservedInForce, InForce, ItemsInv, OrderInv, RunningInput, DispatchHeld,
         ChangeInv, InputMethods
<1>7. ASSUME ConsumerActs
      PROVE  ObservedInForce'
  <2>1. CASE InForce(consumer.item) /\ order = "matches"
    <3>1. consumer.item.same /\ orderValid
      BY <1>0, <2>1 DEF InForce, PlaybackInv, ItemsInv, OrderInv
    <3>2. misled' = (misled \/ ~consumer.item.same \/ ~orderValid)
      BY <1>7, <2>1 DEF ConsumerActs
    <3>3. discovery' # "running"
      BY <1>7, <2>1 DEF ConsumerActs, ConsumerUnchanged, InForce, orderVars
    <3>4. QED
      BY <1>0, <3>1, <3>2, <3>3 DEF PlaybackInv, ObservedInForce
  <2>2. CASE ~(InForce(consumer.item) /\ order = "matches")
    BY <1>7, <1>0, <2>2
       DEF ConsumerActs, ConsumerUnchanged, ConsumerRests, PlaybackInv, ObservedInForce, inputVars,
           orderVars
  <2>3. QED
    BY <2>1, <2>2
<1>8. ASSUME ConsumerStops
      PROVE  ObservedInForce'
  BY <1>8, <1>0, Names
     DEF ConsumerStops, ConsumerUnchanged, settingsVars, inputVars, lockVars,
         scanVars, actionVars, orderVars, StepTo, PlaybackInv, ObservedInForce,
         InForce, ItemsInv, OrderInv, RunningInput, DispatchHeld, ChangeInv,
         InputMethods
<1>9. ASSUME ActionEnds
      PROVE  ObservedInForce'
  BY <1>9, <1>0, Names
     DEF ActionEnds, ConsumerUnchanged, ConsumerRests, settingsVars, inputVars,
         lockVars, scanVars, actionVars, orderVars, StepTo, PlaybackInv,
         ObservedInForce, InForce, ItemsInv, OrderInv, RunningInput, DispatchHeld,
         ChangeInv, InputMethods
<1>10. ASSUME MidiBegins
      PROVE  ObservedInForce'
  BY <1>10, <1>0, Names
     DEF MidiBegins, settingsVars, inputVars, lockVars, scanVars, actionVars,
         orderVars, StepTo, PlaybackInv, ObservedInForce, InForce, ItemsInv,
         OrderInv, RunningInput, DispatchHeld, ChangeInv, InputMethods
<1>11. ASSUME MidiEnds
      PROVE  ObservedInForce'
  BY <1>11, <1>0, Names
     DEF MidiEnds, settingsVars, inputVars, lockVars, scanVars, actionVars,
         orderVars, StepTo, PlaybackInv, ObservedInForce, InForce, ItemsInv,
         OrderInv, RunningInput, DispatchHeld, ChangeInv, InputMethods
<1>12. ASSUME NEW c \in Callers, NEW job \in {"find", "cancel", "skips", "discover", "stop", "save"},
              NEW for \in InputMethods, AskInput(c, job, for)
      PROVE  ObservedInForce'
  BY <1>12, <1>0, Names, AskInputEffect
     DEF AskInput, FirstStep, settingsVars, inputVars, lockVars, scanVars,
         actionVars, orderVars, StepTo, PlaybackInv, ObservedInForce, InForce,
         ItemsInv, OrderInv, RunningInput, DispatchHeld, ChangeInv, InputMethods
<1>13. ASSUME NEW a \in Actors, ScanAwaited(a)
      PROVE  ObservedInForce'
  BY <1>13, <1>0, Names, ScanAwaitedEffect
     DEF ScanAwaited, settingsVars, inputVars, lockVars, scanVars, actionVars,
         orderVars, StepTo, PlaybackInv, ObservedInForce, InForce, ItemsInv,
         OrderInv, RunningInput, DispatchHeld, ChangeInv, InputMethods
<1>14. ASSUME NEW a \in Actors, DiscoveryAwaited(a)
      PROVE  ObservedInForce'
  BY <1>14, <1>0, Names, DiscoveryAwaitedEffect
     DEF DiscoveryAwaited, settingsVars, inputVars, lockVars, scanVars, actionVars,
         orderVars, StepTo, PlaybackInv, ObservedInForce, InForce, ItemsInv,
         OrderInv, RunningInput, DispatchHeld, ChangeInv, InputMethods
<1>15. ASSUME NEW a \in Actors, StartScan(a)
      PROVE  ObservedInForce'
  <2>1. PICK s \in Scans :
            /\ jobs[s].at = "idle" /\ s # a /\ jobs'[s].at = "scanning" /\ jobs'[s].job = "adopt"
            /\ \A b \in Actors \ {a, s} : jobs'[b] = jobs[b]
            /\ scanTask' = s
    BY <1>15, <1>0, StartScanEffect
  <2>2. /\ a \in Callers /\ jobs[a].at = "locking" /\ jobs[a].job = "find" /\ lifecycle = NoActor
        /\ jobs'[a].at = "idle" /\ jobs'[a].job = "none" /\ s \in Actors
        /\ UNCHANGED <<settingsVars, inputVars, lifecycle, dispatching, requests, cancelled,
                       scansCrossed, actionVars, orderVars, seen>>
    BY <1>15, <1>0, <2>1, StartScanEffect, Names DEF StartScan
  <2>3. QED
    BY <1>0, <2>1, <2>2, Names
       DEF settingsVars, inputVars, actionVars, orderVars, PlaybackInv,
           ObservedInForce, InForce, ItemsInv, OrderInv, RunningInput, DispatchHeld,
           ChangeInv, InputMethods
<1>16. ASSUME NEW a \in Actors, SaveSkips(a)
      PROVE  ObservedInForce'
  BY <1>16, <1>0, Names, SaveSkipsEffect, MarksKeep
     DEF SaveSkips, MayLock, SkipMarks, settingsVars, inputVars, lockVars, scanVars,
         actionVars, orderVars, StepTo, PlaybackInv, ObservedInForce, InForce,
         ItemsInv, OrderInv, RunningInput, DispatchHeld, ChangeInv, InputMethods
<1>17. ASSUME NEW a \in Actors, SaveInput(a)
      PROVE  ObservedInForce'
  BY <1>17, <1>0, Names, SaveInputEffect
     DEF SaveInput, MayLock, settingsVars, inputVars, lockVars, scanVars,
         actionVars, orderVars, StepTo, PlaybackInv, ObservedInForce, InForce,
         ItemsInv, OrderInv, RunningInput, DispatchHeld, ChangeInv, InputMethods
<1>18. ASSUME NEW a \in Actors, BeginStop(a)
      PROVE  ObservedInForce'
  BY <1>18, <1>0, Names, BeginStopEffect
     DEF BeginStop, MayLock, settingsVars, inputVars, lockVars, scanVars,
         actionVars, orderVars, StepTo, PlaybackInv, ObservedInForce, InForce,
         ItemsInv, OrderInv, RunningInput, DispatchHeld, ChangeInv, InputMethods
<1>19. ASSUME NEW a \in Actors, BeginDiscovery(a)
      PROVE  ObservedInForce'
  BY <1>19, <1>0, Names, BeginDiscoveryEffect
     DEF BeginDiscovery, MayLock, settingsVars, inputVars, lockVars, scanVars,
         actionVars, orderVars, StepTo, PlaybackInv, ObservedInForce, InForce,
         ItemsInv, OrderInv, RunningInput, DispatchHeld, ChangeInv, InputMethods
<1>20. ASSUME NEW a \in Actors, Discovers(a)
      PROVE  ObservedInForce'
  BY <1>20, <1>0, Names, DiscoversEffect, MarksKeep
     DEF Discovers, NothingActs, settingsVars, inputVars, lockVars, scanVars,
         actionVars, orderVars, StepTo, PlaybackInv, ObservedInForce, InForce,
         ItemsInv, OrderInv, RunningInput, DispatchHeld, ChangeInv, InputMethods
<1>21. ASSUME NEW a \in Actors, Quiets(a)
      PROVE  ObservedInForce'
  BY <1>21, <1>0, Names, QuietsEffect, MarksKeep
     DEF Quiets, NothingActs, settingsVars, inputVars, lockVars, scanVars,
         actionVars, orderVars, StepTo, PlaybackInv, ObservedInForce, InForce,
         ItemsInv, OrderInv, RunningInput, DispatchHeld, ChangeInv, InputMethods
<1>22. ASSUME NEW a \in Actors, InputStops(a)
      PROVE  ObservedInForce'
  BY <1>22, <1>0, Names, InputStopsEffect
     DEF InputStops, settingsVars, inputVars, lockVars, scanVars, actionVars,
         orderVars, StepTo, PlaybackInv, ObservedInForce, InForce, ItemsInv,
         OrderInv, RunningInput, DispatchHeld, ChangeInv, InputMethods
<1>23. ASSUME NEW a \in Actors, InputStarts(a)
      PROVE  ObservedInForce'
  BY <1>23, <1>0, Names, InputStartsEffect
     DEF InputStarts, settingsVars, inputVars, lockVars, scanVars, actionVars,
         orderVars, StepTo, PlaybackInv, ObservedInForce, InForce, ItemsInv,
         OrderInv, RunningInput, DispatchHeld, ChangeInv, InputMethods
<1>24. ASSUME NEW a \in Actors, ScanReports(a)
      PROVE  ObservedInForce'
  BY <1>24, <1>0, Names, ScanReportsEffect
     DEF ScanReports, settingsVars, inputVars, lockVars, scanVars, actionVars,
         orderVars, StepTo, PlaybackInv, ObservedInForce, InForce, ItemsInv,
         OrderInv, RunningInput, DispatchHeld, ChangeInv, InputMethods
<1>25. ASSUME NEW a \in Actors, WalkSucceeds(a)
      PROVE  ObservedInForce'
  BY <1>25, <1>0, Names, WalkSucceedsEffect, MarksKeep
     DEF WalkSucceeds, WalkEnds, settingsVars, inputVars, lockVars, scanVars,
         actionVars, orderVars, StepTo, PlaybackInv, ObservedInForce, InForce,
         ItemsInv, OrderInv, RunningInput, DispatchHeld, ChangeInv, InputMethods
<1>26. ASSUME NEW a \in Actors, WalkFails(a)
      PROVE  ObservedInForce'
  BY <1>26, <1>0, Names, WalkFailsEffect, MarksKeep
     DEF WalkFails, WalkEnds, settingsVars, inputVars, lockVars, scanVars,
         actionVars, orderVars, StepTo, PlaybackInv, ObservedInForce, InForce,
         ItemsInv, OrderInv, RunningInput, DispatchHeld, ChangeInv, InputMethods
<1>27. CASE UNCHANGED playbackVars
  BY <1>27, <1>0, Names
     DEF playbackVars, settingsVars, inputVars, lockVars, scanVars, actionVars,
         orderVars, StepTo, PlaybackInv, ObservedInForce, InForce, ItemsInv,
         OrderInv, RunningInput, DispatchHeld, ChangeInv, InputMethods
<1>28. QED
  BY <1>1, <1>2, <1>3, <1>4, <1>5, <1>6, <1>7, <1>8, <1>9, <1>10, <1>11, <1>12, <1>13,
     <1>14, <1>15, <1>16, <1>17, <1>18, <1>19, <1>20, <1>21, <1>22, <1>23, <1>24, <1>25,
     <1>26, <1>27
     DEF PlaybackNext, Continues, Consumes, InputMethods

-----------------------------------------------------------------------------
(* The theorems.                                                            *)

\* The program starts with the input of the settings, and nothing under way.
LEMMA PlaybackInvInit == PlaybackInit => PlaybackInv
<1>1. SUFFICES ASSUME PlaybackInit PROVE PlaybackInv
  OBVIOUS
<1>2. /\ inputChosen \in InputMethods /\ storedChoice = inputChosen /\ inputRuns = TRUE
      /\ receiving = (inputChosen = "api") /\ client = receiving /\ linked = receiving
      /\ midiRuns = (inputChosen = "midi") /\ midiActs = FALSE
      /\ orderValid = TRUE /\ scansCrossed = FALSE /\ misled = FALSE
  BY <1>1 DEF PlaybackInit
<1>3. /\ lifecycle = NoActor /\ dispatching = NoActor
      /\ scanTask = NoActor /\ latestScan = NoActor
      /\ observed = <<>> /\ consumer = [at |-> "idle", item |-> FreshItem]
      /\ discovery = "idle" /\ order \in {"matches", "unseen"}
  BY <1>1 DEF PlaybackInit
<1>4. jobs = [a \in Actors |-> AtRest]
  BY <1>1 DEF PlaybackInit
<1>5. \A a \in Actors : jobs[a].at = "idle" /\ jobs[a].job = "none"
  BY <1>4 DEF AtRest
<1>6. FlagsTypeOK
  BY <1>2 DEF FlagsTypeOK
<1>7. JobsTypeOK
  <2>1. AtRest \in CallerJobs /\ AtRest \in ScanJobs
    BY DEF AtRest, CallerJobs, ScanJobs, InputMethods
  <2>2. QED
    BY <1>4, <1>5, <2>1, Names DEF JobsTypeOK
<1>8. QueueTypeOK
  BY <1>3, FreshIsItem DEF QueueTypeOK
<1>9. PlaybackTypeOK
  BY <1>2, <1>3, <1>6, <1>7, <1>8 DEF PlaybackTypeOK
<1>10. LifecycleHeld /\ DispatchHeld /\ ChangeInv
  BY <1>3, <1>5, Names DEF LifecycleHeld, DispatchHeld, ChangeInv, Holding
<1>11. RunningInput
  BY <1>2, <1>3 DEF RunningInput
<1>12. ChosenInv /\ OrderInv
  BY <1>2, <1>3 DEF ChosenInv, OrderInv
<1>13. ItemsInv
  BY <1>3, FreshIsItem DEF ItemsInv
<1>14. OneScan
  BY <1>5, Names DEF OneScan, Cancelling
<1>15. ObservedInForce
  BY <1>2, <1>3 DEF ObservedInForce
<1>16. QED
  BY <1>9, <1>10, <1>11, <1>12, <1>13, <1>14, <1>15 DEF PlaybackInv

\* Every step keeps it.
LEMMA PlaybackInvStep == PlaybackInv /\ [PlaybackNext]_playbackVars => PlaybackInv'
BY TypeStep, LifecycleStep, DispatchStep, RunningStep, ChangeStep, ChosenStep, ItemsStep,
   OrderStep, OneScanStep, InForceStep
   DEF PlaybackInv

\* What the locks, the awaits and the marks say adds up to what is asked of the input.
LEMMA PlaybackInvSuffices == PlaybackInv => PlaybackIsSound
<1>1. SUFFICES ASSUME PlaybackInv PROVE PlaybackIsSound
  OBVIOUS
<1>2. /\ PlaybackTypeOK /\ LifecycleHeld /\ RunningInput /\ ChangeInv /\ ChosenInv /\ OneScan
      /\ ObservedInForce
  BY <1>1 DEF PlaybackInv
<1>3. InputsDontOverlap
  <2>1. \A a \in Actors : jobs[a].at = "stopped" => ~midiActs /\ consumer.at # "acting"
    BY <1>2 DEF RunningInput, ChangeInv
  <2>2. ~(midiRuns /\ client)
    BY <1>2 DEF RunningInput
  <2>3. QED
    BY <1>2, <2>1, <2>2 DEF InputsDontOverlap, RunningInput, ChosenInv
<1>4. CancelledScansEnd
  <2>1. \A s \in Scans : jobs[s].at = "quieting" => lifecycle = s
    BY <1>2, Names DEF LifecycleHeld, Holding
  <2>2. QED
    BY <1>2, <2>1 DEF CancelledScansEnd, OneScan
<1>5. QED
  BY <1>2, <1>3, <1>4 DEF PlaybackIsSound

\* The inductive invariant holds of every state.
THEOREM PlaybackInvariant == PlaybackSpec => []PlaybackInv
BY PlaybackInvInit, PlaybackInvStep, PTL DEF PlaybackSpec

\* For any number of requests, scans and observations, and a queue of any size: the two
\* inputs never overlap, a start is begun only on what is in force, nothing is carried out
\* while the order is discovered, a cancelled scan begins no change, and a scan that is
\* going on can be awaited unless two requests crossed (plugins/playback_api/plugin.py).
THEOREM PlaybackStaysSound == PlaybackSpec => []PlaybackIsSound
BY PlaybackInvSuffices, PlaybackInvariant, PTL

-----------------------------------------------------------------------------
(* The MIDI input (MidiInput): the inductive invariant.                     *)

Queued == [what : {"press", "release", "simulated"}, from : Nat]
Watchers ==
    [at : {"look", "rest", "listing", "opening", "watch", "checking", "closing", "over"},
     name : MidiInputs \cup {NoMidi}, port : Nat]

\* Every variable but the truth values has its type.
MidiTypeOK ==
    /\ phase \in {"on", "stopping", "draining", "off"}
    /\ selected \in MidiInputs \cup {NoMidi} /\ asked \in MidiInputs \cup {NoMidi}
    /\ watcher \in Watchers /\ active \in Nat /\ opens \in Nat
    /\ notes \in Seq(Queued)
    /\ inHand \in [at : {"idle", "publishing", "dispatching"},
                   note : [what : {"press", "simulated", "nothing"}, from : Nat]]
    /\ simulation \in {"none", "waiting"} /\ spare \in Int

\* The port the supervisor has is the one that is open, and is listened to only while it
\* is watched.
WatcherInv ==
    /\ watcher.port = NoPort <=> watcher.at \in {"look", "rest", "listing", "opening", "over"}
    /\ ports = IF watcher.port = NoPort THEN {} ELSE {watcher.port}
    /\ watcher.port <= opens
    /\ active # NoPort =>
          phase = "on" /\ active = watcher.port /\ watcher.at \in {"watch", "checking"}
    /\ phase \in {"draining", "off"} => watcher.at = "over"

\* What a device sent names a connection that was made, a simulated cue none, and the
\* consumer has a message whenever it is at an await.
Comes(n) == n.from <= opens /\ (n.what = "simulated" <=> n.from = NoPort)
NotesInv ==
    /\ \A i \in DOMAIN notes : Comes(notes[i])
    /\ inHand.at = "idle" <=> inHand.note.what = "nothing"

\* What is watched under the name that is selected is listened to, and connected is said
\* of nothing else.
HeardInv ==
    ~reselected /\ phase = "on" =>
        /\ watcher.at \in {"watch", "checking"} /\ watcher.name = selected =>
              active = watcher.port
        /\ reported /\ watcher.at # "closing" =>
              watcher.at \in {"watch", "checking"} /\ watcher.name = selected

\* While the key is up, a release is queued behind every press that is, and for a press
\* that is latched or about to be.
Releases(i) == notes[i].what = "release" /\ notes[i].from = active
Publishes == inHand.at = "publishing" /\ inHand.note.what = "press"
Ends == inHand.at = "dispatching" /\ inHand.note.what = "simulated"
LatchInv ==
    active # NoPort /\ active \notin dead /\ ~missed /\ ~keyDown =>
        /\ \A i \in DOMAIN notes : notes[i].what = "press" /\ notes[i].from = active =>
              \E k \in DOMAIN notes : k > i /\ Releases(k)
        /\ (latch /\ ~Ends) \/ Publishes => \E k \in DOMAIN notes : Releases(k)

\* What the messages from the i-th on, and the key that is down, may still cost in actions,
\* when the note is held before them and when it is free.
Costs == [Nat -> Nat]
CostOK(q, down, heldCost, freeCost) ==
    /\ \A i \in Nat : /\ heldCost[i] <= freeCost[i] /\ freeCost[i] <= heldCost[i] + 1
                      /\ down => freeCost[i] >= 1
    /\ \A i \in DOMAIN q :
          /\ q[i].what = "press" =>
                heldCost[i] >= heldCost[i + 1] /\ freeCost[i] >= heldCost[i + 1] + 1
          /\ q[i].what = "release" =>
                heldCost[i] >= freeCost[i + 1] /\ freeCost[i] >= freeCost[i + 1]
          /\ q[i].what = "simulated" =>
                heldCost[i] >= heldCost[i + 1] /\ freeCost[i] >= freeCost[i + 1]
Covers(amount, heldCost, freeCost, held, publishes) ==
    /\ publishes /\ ~held => amount >= heldCost + 1
    /\ held => amount >= heldCost
    /\ ~publishes /\ ~held => amount >= freeCost

\* It is covered by what is spare.
SpareInv ==
    \E heldCost, freeCost \in Costs :
        /\ CostOK(notes, keyDown, heldCost, freeCost)
        /\ Covers(spare, heldCost[1], freeCost[1], latch, Publishes)

MidiInv ==
    /\ MidiTypeOK /\ WatcherInv /\ NotesInv /\ HeardInv /\ LatchInv /\ SpareInv
    /\ NobodyWaitsInVain

-----------------------------------------------------------------------------
(* The queue.                                                               *)

\* What a queue loses at its head and gains at its end.
LEMMA TailOf ==
  ASSUME NEW q \in Seq(Queued), q # <<>>
  PROVE  /\ \A i \in DOMAIN Tail(q) : i + 1 \in DOMAIN q /\ Tail(q)[i] = q[i + 1]
         /\ \A i \in DOMAIN q : i # 1 => i - 1 \in DOMAIN Tail(q) /\ Tail(q)[i - 1] = q[i]
         /\ 1 \in DOMAIN q /\ Head(q) = q[1] /\ DOMAIN q \subseteq Nat \ {0}
OBVIOUS

\* The same of a message that comes last.
LEMMA AppendOf ==
  ASSUME NEW q \in Seq(Queued), NEW n \in Queued
  PROVE  /\ DOMAIN Append(q, n) = DOMAIN q \cup {Len(q) + 1} /\ Len(q) \in Nat
         /\ DOMAIN q = 1 .. Len(q)
         /\ \A i \in DOMAIN q : Append(q, n)[i] = q[i]
         /\ Append(q, n)[Len(q) + 1] = n
OBVIOUS

-----------------------------------------------------------------------------
(* Types.                                                                   *)

\* The supervisor goes to another await.
LEMMA WatcherGoesOn ==
  ASSUME watcher \in Watchers, NEW at, WatcherGoes(at)
  PROVE  /\ watcher'.at = at /\ watcher'.name = watcher.name /\ watcher'.port = watcher.port
         /\ at \in {"look", "rest", "listing", "opening", "watch", "checking", "closing", "over"}
               => watcher' \in Watchers
BY DEF WatcherGoes, Watchers

\* A connection that is made, one that is no longer wanted, and one that is closed.
LEMMA WatcherPort ==
  ASSUME watcher \in Watchers, NEW at, NEW port \in Nat,
         watcher' = [watcher EXCEPT !.at = at, !.port = port]
  PROVE  /\ watcher'.at = at /\ watcher'.name = watcher.name /\ watcher'.port = port
         /\ at \in {"look", "rest", "listing", "opening", "watch", "checking", "closing", "over"}
               => watcher' \in Watchers
BY DEF Watchers

\* The plugin listens to the device.
Heard == Plays /\ watcher.port = active /\ phase = "on"

\* What the device sends is queued, or it is not heard, or the queue is full; a release that
\* is lost so is not forgotten.
LEMMA Offered ==
  ASSUME NEW what, Offer(what)
  PROVE  /\ \/ /\ Heard /\ (missed' <=> missed)
               /\ notes' = Append(notes, [what |-> what, from |-> watcher.port])
            \/ notes' = notes /\ (Heard /\ what = "release" => missed')
         /\ missed => missed'
<1>1. CASE Heard /\ Len(notes) = Capacity
  BY <1>1, Zenon DEF Offer, Heard
<1>2. CASE Heard /\ Len(notes) # Capacity
  BY <1>2, Zenon DEF Offer, Heard
<1>3. CASE ~Heard
  BY <1>3, Zenon DEF Offer, Heard
<1>4. QED
  BY <1>1, <1>2, <1>3

\* Each step of the supervisor keeps the types.
LEMMA TypesSupervise == MidiTypeOK /\ Supervise => MidiTypeOK'
<1> SUFFICES ASSUME MidiTypeOK, Supervise PROVE MidiTypeOK'
  OBVIOUS
<1>0. watcher \in Watchers
  BY DEF MidiTypeOK
<1> USE DEF askVars, deviceVars, noteVars, latchVars, Reports
<1>1. CASE Looks
  <2>1. watcher' \in Watchers
    <3>1. watcher' = [at |-> "listing", name |-> selected, port |-> NoPort] => watcher' \in Watchers
      BY DEF MidiTypeOK, Watchers, NoPort
    <3>2. \A at : WatcherGoes(at) /\ at \in {"over", "rest"} => watcher' \in Watchers
      BY <1>0, WatcherGoesOn
    <3>3. QED
      BY <1>1, <3>1, <3>2 DEF Looks
  <2>2. QED
    BY <1>1, <2>1 DEF Looks, MidiTypeOK
<1>2. CASE Rests \/ Listed \/ OpenFails \/ Checks
  <2>1. watcher' \in Watchers
    <3>1. \A at : WatcherGoes(at) /\ at \in {"look", "rest", "opening", "checking"} =>
             watcher' \in Watchers
      BY <1>0, WatcherGoesOn
    <3>2. QED
      BY <1>2, <3>1 DEF Rests, Listed, OpenFails, Checks
  <2>2. QED
    BY <1>2, <2>1 DEF Rests, Listed, OpenFails, Checks, MidiTypeOK
<1>3. CASE Opened
  <2>1. opens' \in Nat
    BY <1>3 DEF Opened, MidiTypeOK
  <2>2. watcher' \in Watchers
    BY <1>0, <1>3, <2>1, WatcherPort DEF Opened, Adopts
  <2>3. active' \in Nat /\ spare' \in Int
    BY <1>3, <2>1 DEF Opened, Adopts, LatchesCleared, Unlatched, MidiTypeOK
  <2>4. QED
    BY <1>3, <2>1, <2>2, <2>3 DEF Opened, MidiTypeOK
<1>4. CASE Checked
  <2>1. watcher' \in Watchers
    <3>1. \A at : WatcherGoes(at) /\ at \in {"watch", "closing"} => watcher' \in Watchers
      BY <1>0, WatcherGoesOn
    <3>2. QED
      BY <1>4, <3>1 DEF Checked, Leaves
  <2>2. QED
    BY <1>4, <2>1 DEF Checked, Leaves, Unlatched, MidiTypeOK, NoPort
<1>5. CASE PortCloses
  <2>1. watcher' \in Watchers
    BY <1>0, <1>5, WatcherPort DEF PortCloses, NoPort
  <2>2. QED
    BY <1>5, <2>1 DEF PortCloses, MidiTypeOK
<1>6. QED
  BY <1>1, <1>2, <1>3, <1>4, <1>5 DEF Supervise

\* Each step of the consumer keeps the types.
LEMMA TypesConsume == MidiTypeOK /\ Consume => MidiTypeOK'
<1> SUFFICES ASSUME MidiTypeOK, Consume PROVE MidiTypeOK'
  OBVIOUS
<1> DEFINE Hands == [at : {"idle", "publishing", "dispatching"},
                     note : [what : {"press", "simulated", "nothing"}, from : Nat]]
<1>0. /\ notes \in Seq(Queued) /\ inHand \in Hands
      /\ notes # <<>> => Head(notes) \in Queued /\ Tail(notes) \in Seq(Queued)
  BY DEF MidiTypeOK
<1>1. \A note : CueHandled(note) => inHand' \in Hands /\ (simulation' = "none" \/ simulation' = simulation)
  BY DEF CueHandled, NothingInHand, NoPort
<1>2. \A note, held : Lets(note, held) => spare' \in Int
  BY DEF Lets, MidiTypeOK
<1>3. phase' = phase /\ selected' = selected /\ asked' = asked /\ watcher' = watcher
      /\ active' = active /\ opens' = opens
  BY DEF Consume, TakeNote, TakeStopping, CuePublished, CueDispatched, ConsumerOnly, askVars,
         portVars, deviceVars
<1>4. /\ notes' \in Seq(Queued) /\ inHand' \in Hands /\ simulation' \in {"none", "waiting"}
      /\ spare' \in Int
  <2> USE DEF latchVars
  <2>1. CASE TakeNote
    <3>1. notes' \in Seq(Queued) /\ Head(notes) \in Queued
      BY <1>0, <2>1 DEF TakeNote
    <3>2. CASE Stale(Head(notes)) \/ Head(notes).what = "release"
      BY <1>0, <2>1, <3>1, <3>2 DEF TakeNote, MidiTypeOK
    <3>3. CASE ~Stale(Head(notes)) /\ Head(notes).what # "release"
      <4>1. [at |-> "publishing", note |-> Head(notes)] \in Hands
        BY <3>1, <3>3 DEF Queued
      <4>2. QED
        BY <1>0, <1>1, <1>2, <2>1, <3>1, <3>3, <4>1 DEF TakeNote, MidiTypeOK
    <3>4. QED
      BY <3>2, <3>3
  <2>2. CASE TakeStopping
    BY <1>0, <2>2 DEF TakeStopping, MidiTypeOK
  <2>3. CASE CuePublished
    <3>1. [inHand EXCEPT !.at = "dispatching"] \in Hands
      BY <1>0
    <3>2. notes' = notes /\ (CueHandled(inHand.note) \/
              (inHand' = [inHand EXCEPT !.at = "dispatching"] /\ simulation' = simulation))
      BY <2>3, Zenon DEF CuePublished
    <3>3. spare' \in Int
      BY <2>3 DEF CuePublished, Lets, MidiTypeOK
    <3>4. QED
      BY <1>0, <1>1, <3>1, <3>2, <3>3 DEF MidiTypeOK
  <2>4. CASE CueDispatched
    BY <1>0, <1>1, <1>2, <2>4 DEF CueDispatched, MidiTypeOK
  <2>5. QED
    BY <2>1, <2>2, <2>3, <2>4 DEF Consume
<1>5. QED
  BY <1>3, <1>4 DEF MidiTypeOK

\* So do the requests, the device and the stop.
LEMMA TypesRest ==
  ASSUME MidiTypeOK, [MidiNext]_midiVars, ~Supervise, ~Consume
  PROVE  MidiTypeOK'
<1> USE DEF askVars, portVars, deviceVars, noteVars, latchVars, Reports, LatchesCleared, Unlatched,
            Selects, NoPort
<1>1. CASE SelectNone \/ SelectListed
  BY <1>1 DEF SelectNone, SelectListed, MidiTypeOK
<1>2. ASSUME NEW n \in MidiInputs, AskToSelect(n) \/ SaveMidi(n) \/ Plug(n) PROVE MidiTypeOK'
  BY <1>2 DEF AskToSelect, SaveMidi, Plug, MidiTypeOK
<1>3. CASE StopMidi \/ StopEnds \/ TimePasses
  BY <1>3 DEF StopMidi, StopEnds, TimePasses, MidiTypeOK
<1>4. CASE Drain
  BY <1>4 DEF Drain, Drained, MidiTypeOK
<1>5. ASSUME NEW what \in {"press", "release"}, Offer(what)
      PROVE  notes' \in Seq(Queued)
  <2>1. [what |-> what, from |-> watcher.port] \in Queued
    BY DEF MidiTypeOK, Watchers, Queued
  <2>2. QED
    BY <1>5, <2>1, Offered DEF MidiTypeOK
<1>6. CASE Press
  BY <1>5, <1>6 DEF Press, MidiTypeOK
<1>7. CASE LetGo
  BY <1>5, <1>7 DEF LetGo, MidiTypeOK
<1>8. CASE Simulate
  <2>1. [what |-> "simulated", from |-> NoPort] \in Queued
    BY DEF Queued
  <2>2. notes' \in {notes, Append(notes, [what |-> "simulated", from |-> NoPort])}
        /\ simulation' \in {simulation, "waiting"}
    BY <1>8, Zenon DEF Simulate
  <2>3. QED
    BY <1>8, <2>1, <2>2 DEF Simulate, MidiTypeOK
<1>9. CASE UNCHANGED midiVars
  BY <1>9 DEF midiVars, MidiTypeOK
<1>10. QED
  BY <1>1, <1>2, <1>3, <1>4, <1>6, <1>7, <1>8, <1>9 DEF MidiNext

-----------------------------------------------------------------------------
(* The port and the messages.                                               *)

\* Each step keeps to the port.
LEMMA WatcherStep ==
  ASSUME MidiTypeOK, WatcherInv, [MidiNext]_midiVars
  PROVE  WatcherInv'
<1>0. watcher \in Watchers /\ opens \in Nat /\ active \in Nat
  BY DEF MidiTypeOK
<1> USE DEF askVars, portVars, NoPort
<1>1. CASE Looks
  <2>1. /\ watcher'.at \in {"over", "rest", "listing"} /\ watcher'.port = NoPort
        /\ watcher.at = "look" /\ watcher.port = NoPort
    <3>1. watcher' = [at |-> "listing", name |-> selected, port |-> NoPort] =>
             watcher'.at = "listing" /\ watcher'.port = NoPort
      OBVIOUS
    <3>2. \A at : WatcherGoes(at) => watcher'.at = at /\ watcher'.port = watcher.port
      BY <1>0, WatcherGoesOn
    <3>3. QED
      BY <1>1, <3>1, <3>2 DEF Looks, WatcherInv
  <2>2. QED
    BY <1>0, <1>1, <2>1 DEF Looks, WatcherInv
<1>2. CASE Rests \/ Listed \/ OpenFails \/ Checks
  <2>1. /\ watcher'.port = watcher.port
        /\ \/ /\ watcher.at \in {"rest", "listing", "opening"}
              /\ watcher'.at \in {"look", "rest", "opening"}
           \/ watcher.at = "watch" /\ watcher'.at = "checking"
    <3>1. \A at : WatcherGoes(at) => watcher'.at = at /\ watcher'.port = watcher.port
      BY <1>0, WatcherGoesOn
    <3>2. CASE Rests \/ OpenFails \/ Checks
      BY <3>1, <3>2 DEF Rests, OpenFails, Checks
    <3>3. CASE Listed
      <4>1. watcher.at = "listing" /\ \E at \in {"rest", "look", "opening"} : WatcherGoes(at)
        BY <3>3, Zenon DEF Listed
      <4>2. QED
        BY <3>1, <4>1
    <3>4. QED
      BY <1>2, <3>2, <3>3
  <2>2. QED
    BY <1>0, <1>2, <2>1 DEF Rests, Listed, OpenFails, Checks, WatcherInv
<1>3. CASE Opened
  <2>0. opens' = opens + 1 /\ ports' = {opens'} /\ watcher.at = "opening" /\ phase' = phase
    BY <1>3 DEF Opened, WatcherInv
  <2>1. opens' \in Nat /\ opens' # NoPort
    BY <1>0, <2>0
  <2>2. \/ watcher'.at = "watch" /\ watcher'.port = opens' /\ phase = "on" /\ active' = opens'
        \/ watcher'.at = "closing" /\ watcher'.port = opens' /\ active' = active
    <3>1. CASE StillWanted
      BY <1>0, <1>3, <2>1, <3>1, WatcherPort DEF Opened, Adopts, StillWanted
    <3>2. CASE ~StillWanted
      BY <1>0, <1>3, <2>1, <3>2, WatcherPort DEF Opened
    <3>3. QED
      BY <3>1, <3>2
  <2>3. QED
    BY <1>0, <2>0, <2>1, <2>2 DEF WatcherInv
<1>4. CASE Checked
  <2>1. /\ watcher'.port = watcher.port /\ watcher.at = "checking"
        /\ \/ watcher'.at = "watch" /\ active' = active
           \/ watcher'.at = "closing" /\ active' = NoPort
    <3>1. \A at : WatcherGoes(at) => watcher'.at = at /\ watcher'.port = watcher.port
      BY <1>0, WatcherGoesOn
    <3>2. /\ watcher.at = "checking"
          /\ \/ WatcherGoes("watch") /\ active' = active
             \/ WatcherGoes("closing") /\ active' = NoPort
      BY <1>4, Zenon DEF Checked, Leaves
    <3>3. QED
      BY <3>1, <3>2
  <2>2. QED
    BY <1>0, <1>4, <2>1 DEF Checked, WatcherInv
<1>5. CASE PortCloses
  <2>1. watcher'.at = "look" /\ watcher'.port = NoPort
    BY <1>0, <1>5, WatcherPort DEF PortCloses
  <2>2. QED
    BY <1>0, <1>5, <2>1 DEF PortCloses, WatcherInv
<1>6. CASE Consume
  BY <1>6 DEF Consume, TakeNote, TakeStopping, CuePublished, CueDispatched, ConsumerOnly, WatcherInv
<1>7. CASE SelectNone \/ SelectListed
  BY <1>7 DEF SelectNone, SelectListed, Selects, WatcherInv
<1>8. ASSUME NEW n \in MidiInputs, AskToSelect(n) \/ SaveMidi(n) \/ Plug(n) PROVE WatcherInv'
  BY <1>8 DEF AskToSelect, SaveMidi, Plug, Selects, WatcherInv
<1>9. CASE StopMidi \/ Drain \/ StopEnds
  BY <1>9 DEF StopMidi, Drain, StopEnds, WatcherInv
<1>10. CASE Press \/ LetGo \/ Simulate \/ TimePasses \/ UNCHANGED midiVars
  BY <1>10 DEF Press, LetGo, Simulate, TimePasses, midiVars, WatcherInv
<1>11. QED
  BY <1>1, <1>2, <1>3, <1>4, <1>5, <1>6, <1>7, <1>8, <1>9, <1>10 DEF MidiNext, Supervise

\* The messages a step leaves in the queue, and where they come from.
LEMMA NotesStep ==
  ASSUME MidiTypeOK, WatcherInv, NotesInv, [MidiNext]_midiVars
  PROVE  NotesInv'
<1>0. /\ notes \in Seq(Queued) /\ opens \in Nat /\ watcher \in Watchers /\ watcher.port <= opens
      /\ NotesInv /\ WatcherInv /\ inHand.note.what \in {"press", "simulated", "nothing"}
  BY DEF MidiTypeOK, WatcherInv
<1> USE DEF askVars, portVars, noteVars
<1>1. CASE notes' = notes /\ inHand' = inHand /\ opens' = opens
  BY <1>0, <1>1 DEF NotesInv, Comes
<1>2. CASE Opened
  <2>1. opens' = opens + 1 /\ notes' = notes /\ inHand' = inHand
    BY <1>2 DEF Opened
  <2>2. \A i \in DOMAIN notes : notes[i].from \in Nat
    <3>1. \A i \in DOMAIN notes : notes[i] \in Queued
      BY <1>0
    <3>2. QED
      BY <3>1 DEF Queued
  <2>3. QED
    BY <1>0, <2>1, <2>2 DEF NotesInv, Comes
<1>3. CASE Drain
  BY <1>0, <1>3 DEF Drain, NotesInv, Comes
<1>4. ASSUME NEW what \in {"press", "release"}, Offer(what), inHand' = inHand, opens' = opens
      PROVE  NotesInv'
  <2>1. CASE notes' = notes
    BY <1>0, <1>4, <2>1 DEF NotesInv, Comes
  <2> DEFINE n == [what |-> what, from |-> watcher.port]
  <2>2. CASE notes' = Append(notes, n) /\ Heard
    <3>1. n \in Queued
      BY <1>0 DEF Watchers, Queued
    <3>2. watcher.port # NoPort
      BY <1>0, <2>2 DEF Heard, Plays, WatcherInv
    <3>3. Comes(n)
      BY <1>0, <3>2 DEF Comes
    <3> HIDE DEF n
    <3>4. \A i \in DOMAIN notes' : Comes(notes'[i])
      BY <1>0, <2>2, <3>1, <3>3, AppendOf DEF NotesInv
    <3>5. QED
      BY <1>0, <1>4, <3>4 DEF NotesInv, Comes
  <2>3. QED
    BY <1>4, <2>1, <2>2, Offered
<1>5. CASE Press \/ LetGo
  BY <1>4, <1>5 DEF Press, LetGo
<1>6. CASE Simulate
  <2> DEFINE n == [what |-> "simulated", from |-> NoPort]
  <2>1. notes' = notes \/ notes' = Append(notes, n)
    BY <1>6, Zenon DEF Simulate
  <2>2. inHand' = inHand /\ opens' = opens
    BY <1>6 DEF Simulate
  <2>3. n \in Queued /\ Comes(n)
    BY <1>0 DEF Queued, NoPort, Comes
  <2> HIDE DEF n
  <2>4. \A i \in DOMAIN notes' : Comes(notes'[i])
    BY <1>0, <2>1, <2>3, AppendOf DEF NotesInv
  <2>5. QED
    BY <1>0, <2>2, <2>4 DEF NotesInv, Comes
<1>7. CASE Consume
  <2>1. opens' = opens
    BY <1>7 DEF Consume, TakeNote, TakeStopping, CuePublished, CueDispatched, ConsumerOnly
  <2>2. \A i \in DOMAIN notes' : Comes(notes'[i])
    <3>1. notes' = notes \/ (notes # <<>> /\ notes' = Tail(notes))
      BY <1>7 DEF Consume, TakeNote, TakeStopping, CuePublished, CueDispatched
    <3>2. QED
      BY <1>0, <2>1, <3>1, TailOf DEF NotesInv
  <2>3. (inHand.at = "idle" <=> inHand.note.what = "nothing")'
    <3>1. CASE TakeNote
      <4>1. notes # <<>> /\ Head(notes).what \in {"press", "release", "simulated"}
        <5>1. notes # <<>> /\ Head(notes) \in Queued
          BY <1>0, <3>1 DEF TakeNote
        <5>2. QED
          BY <5>1 DEF Queued
      <4>2. \/ inHand' = inHand
            \/ inHand' = [at |-> "publishing", note |-> Head(notes)] /\ Head(notes).what # "release"
            \/ inHand' = [at |-> "idle", note |-> NothingInHand]
        <5>1. CASE Stale(Head(notes)) \/ Head(notes).what = "release"
          BY <3>1, <5>1 DEF TakeNote
        <5>2. CASE ~Stale(Head(notes)) /\ Head(notes).what # "release"
          BY <3>1, <5>2 DEF TakeNote, CueHandled
        <5>3. QED
          BY <5>1, <5>2
      <4>3. QED
        BY <1>0, <4>1, <4>2 DEF NotesInv, NothingInHand
    <3>2. CASE ~TakeNote
      <4>1. \/ inHand' = inHand
            \/ inHand' = [at |-> "idle", note |-> NothingInHand]
            \/ inHand.at = "publishing" /\ inHand' = [inHand EXCEPT !.at = "dispatching"]
        BY <1>7, <3>2, Zenon DEF Consume, TakeStopping, CuePublished, CueDispatched, CueHandled
      <4>2. [inHand EXCEPT !.at = "dispatching"].at = "dispatching"
            /\ [inHand EXCEPT !.at = "dispatching"].note = inHand.note
        BY DEF MidiTypeOK
      <4>3. CASE inHand' = [inHand EXCEPT !.at = "dispatching"] /\ inHand.at = "publishing"
        BY <1>0, <4>2, <4>3 DEF NotesInv
      <4>4. QED
        BY <1>0, <4>1, <4>3 DEF NotesInv, NothingInHand
    <3>3. QED
      BY <3>1, <3>2
  <2>4. QED
    BY <2>1, <2>2, <2>3 DEF NotesInv, Comes
<1>8. CASE Looks \/ Rests \/ Listed \/ OpenFails \/ Checks \/ Checked \/ PortCloses
  BY <1>1, <1>8 DEF Looks, Rests, Listed, OpenFails, Checks, Checked, PortCloses
<1>9. CASE SelectNone \/ SelectListed \/ StopMidi \/ StopEnds \/ TimePasses \/ UNCHANGED midiVars
  BY <1>1, <1>9 DEF SelectNone, SelectListed, StopMidi, StopEnds, TimePasses, midiVars
<1>10. ASSUME NEW n \in MidiInputs, AskToSelect(n) \/ SaveMidi(n) \/ Plug(n) PROVE NotesInv'
  BY <1>1, <1>10 DEF AskToSelect, SaveMidi, Plug
<1>11. QED
  BY <1>2, <1>3, <1>5, <1>6, <1>7, <1>8, <1>9, <1>10 DEF MidiNext, Supervise

-----------------------------------------------------------------------------
(* Connected means heard, and nobody waits in vain.                         *)

\* Each step keeps to what is said of the connection.
LEMMA HeardStep ==
  ASSUME MidiTypeOK, WatcherInv, HeardInv, [MidiNext]_midiVars
  PROVE  HeardInv'
<1>0. watcher \in Watchers /\ opens \in Nat /\ active \in Nat /\ WatcherInv
  BY DEF MidiTypeOK
<1>a. \A at : WatcherGoes(at) =>
         watcher'.at = at /\ watcher'.name = watcher.name /\ watcher'.port = watcher.port
  BY <1>0, WatcherGoesOn
<1> USE DEF askVars, portVars, NoPort
<1>1. CASE Looks
  <2>1. /\ selected' = selected /\ phase' = phase /\ reselected' = reselected
        /\ \/ phase = "stopping"
           \/ WatcherGoes("rest") /\ ~reported'
           \/ /\ watcher' = [at |-> "listing", name |-> selected, port |-> NoPort]
              /\ reported' = reported /\ watcher.at = "look"
    BY <1>1, Zenon DEF Looks, Reports
  <2>2. QED
    BY <1>a, <2>1 DEF HeardInv
<1>2. CASE Rests \/ OpenFails \/ Checks
  BY <1>a, <1>2 DEF Rests, OpenFails, Checks, Reports, HeardInv
<1>3. CASE Listed
  <2>1. /\ selected' = selected /\ phase' = phase /\ reselected' = reselected
        /\ watcher.at = "listing" /\ \E at \in {"rest", "look", "opening"} : WatcherGoes(at)
    BY <1>3, Zenon DEF Listed
  <2>2. reported' => reported
    BY <1>3, Zenon DEF Listed, Reports
  <2>3. QED
    BY <1>a, <2>1, <2>2 DEF HeardInv
<1>4. CASE Opened
  <2>0. opens' \in Nat /\ phase' = phase /\ selected' = selected
    BY <1>0, <1>4 DEF Opened
  <2>1. CASE StillWanted
    <3>1. /\ watcher'.at = "watch" /\ watcher'.name = watcher.name /\ watcher'.port = opens'
          /\ active' = opens'
      BY <1>0, <1>4, <2>0, <2>1, WatcherPort DEF Opened, Adopts
    <3>2. QED
      BY <2>0, <2>1, <3>1 DEF StillWanted, HeardInv
  <2>2. CASE ~StillWanted
    <3>1. watcher'.at = "closing"
      BY <1>0, <1>4, <2>0, <2>2, WatcherPort DEF Opened
    <3>2. QED
      BY <3>1 DEF HeardInv
  <2>3. QED
    BY <2>1, <2>2
<1>5. CASE Checked
  <2>1. /\ selected' = selected /\ phase' = phase /\ reselected' = reselected
        /\ watcher.at = "checking"
        /\ \/ WatcherGoes("watch") /\ active' = active /\ Healthy
           \/ WatcherGoes("closing")
    BY <1>5, Zenon DEF Checked, Leaves
  <2>2. QED
    BY <1>a, <2>1 DEF HeardInv, Healthy
<1>6. CASE PortCloses
  <2>1. watcher'.at = "look" /\ ~reported'
    BY <1>0, <1>6, WatcherPort DEF PortCloses
  <2>2. QED
    BY <2>1 DEF HeardInv
<1>7. CASE Consume
  BY <1>7 DEF Consume, TakeNote, TakeStopping, CuePublished, CueDispatched, ConsumerOnly, HeardInv
<1>b. ASSUME NEW n, Selects(n), watcher' = watcher PROVE HeardInv'
  <2>1. CASE watcher.port = NoPort
    BY <1>0, <1>b, <2>1 DEF Selects, Reports, WatcherInv, HeardInv
  <2>2. CASE watcher.port # NoPort
    BY <1>b, <2>2 DEF Selects, Reports, HeardInv
  <2>3. QED
    BY <2>1, <2>2
<1>8. CASE SelectNone
  BY <1>b, <1>8 DEF SelectNone
<1>9. CASE SelectListed
  <2>1. CASE \E n : Selects(n)
    BY <1>b, <1>9, <2>1 DEF SelectListed
  <2>2. CASE ~\E n : Selects(n)
    <3>1. UNCHANGED <<selected, active, reselected, phase, watcher>>
      BY <1>9, <2>2 DEF SelectListed
    <3>2. reported' => reported
      BY <1>9, <2>2 DEF SelectListed, Reports
    <3>3. QED
      BY <3>1, <3>2 DEF HeardInv
  <2>3. QED
    BY <2>1, <2>2
<1>10. ASSUME NEW n \in MidiInputs, AskToSelect(n) \/ SaveMidi(n) \/ Plug(n) PROVE HeardInv'
  <2>1. CASE SaveMidi(n) /\ n # selected
    BY <1>b, <2>1 DEF SaveMidi
  <2>2. CASE SaveMidi(n) /\ n = selected
    BY <2>2 DEF SaveMidi, HeardInv
  <2>3. CASE AskToSelect(n) \/ Plug(n)
    BY <2>3 DEF AskToSelect, Plug, HeardInv
  <2>4. QED
    BY <1>10, <2>1, <2>2, <2>3
<1>11. CASE StopMidi \/ Drain \/ StopEnds
  BY <1>11 DEF StopMidi, Drain, StopEnds, HeardInv
<1>12. CASE Press \/ LetGo \/ Simulate
  <2>1. \A what : Offer(what) => (reported' => reported)
    BY Zenon DEF Offer
  <2>2. reported' => reported
    BY <1>12, <2>1, Zenon DEF Press, LetGo, Simulate
  <2>3. UNCHANGED <<watcher, active, selected, phase, reselected>>
    BY <1>12 DEF Press, LetGo, Simulate
  <2>4. QED
    BY <2>2, <2>3 DEF HeardInv
<1>13. CASE TimePasses \/ UNCHANGED midiVars
  BY <1>13 DEF TimePasses, midiVars, HeardInv
<1>14. QED
  BY <1>1, <1>2, <1>3, <1>4, <1>5, <1>6, <1>7, <1>8, <1>9, <1>10, <1>11, <1>12, <1>13
     DEF MidiNext, Supervise

\* The head is the only message that is taken.
LEMMA TailSimulated ==
  ASSUME NEW q \in Seq(Queued), q # <<>>, HasSimulated(q), Head(q).what # "simulated"
  PROVE  HasSimulated(Tail(q))
<1>1. PICK i \in DOMAIN q : q[i].what = "simulated"
  BY DEF HasSimulated
<1>2. i # 1
  BY <1>1, TailOf
<1>3. i - 1 \in DOMAIN Tail(q) /\ Tail(q)[i - 1].what = "simulated"
  BY <1>1, <1>2, TailOf
<1>4. QED
  BY <1>3 DEF HasSimulated

\* Each step leaves or answers a simulated cue.
LEMMA WaitStep ==
  ASSUME MidiTypeOK, NotesInv, NobodyWaitsInVain, [MidiNext]_midiVars
  PROVE  NobodyWaitsInVain'
<1>0. notes \in Seq(Queued)
  BY DEF MidiTypeOK
<1> USE DEF noteVars
<1>1. CASE notes' = notes /\ inHand' = inHand /\ simulation' = simulation
  BY <1>1 DEF NobodyWaitsInVain, HasSimulated
<1>2. ASSUME NEW what, Offer(what), inHand' = inHand, simulation' = simulation
      PROVE  NobodyWaitsInVain'
  <2>1. CASE notes' = notes
    BY <1>2, <2>1 DEF NobodyWaitsInVain, HasSimulated
  <2>2. ASSUME NEW n, notes' = Append(notes, n) PROVE NobodyWaitsInVain'
    <3>1. \A i \in DOMAIN notes : i \in DOMAIN notes' /\ notes'[i] = notes[i]
      BY <1>0, <2>2
    <3>2. QED
      BY <1>2, <3>1 DEF NobodyWaitsInVain, HasSimulated
  <2>3. QED
    BY <1>2, <2>1, <2>2, Offered
<1>3. CASE Press \/ LetGo
  BY <1>2, <1>3 DEF Press, LetGo
<1>4. CASE Simulate
  <2> DEFINE n == [what |-> "simulated", from |-> NoPort]
  <2>1. CASE notes' = Append(notes, n)
    <3>1. n.what = "simulated" /\ n \in Queued
      BY DEF Queued, NoPort
    <3> HIDE DEF n
    <3>2. QED
      BY <1>0, <2>1, <3>1, AppendOf DEF NobodyWaitsInVain, HasSimulated
  <2>2. CASE notes' # Append(notes, n)
    <3>1. notes' = notes /\ simulation' = simulation /\ inHand' = inHand
      BY <1>4, <2>2, Zenon DEF Simulate
    <3>2. QED
      BY <1>1, <3>1
  <2>3. QED
    BY <2>1, <2>2
<1>5. CASE Drain
  BY <1>5 DEF Drain, Drained, NobodyWaitsInVain
<1>6. CASE TakeNote
  <2>0. notes # <<>> /\ notes' = Tail(notes) /\ inHand.at = "idle"
    BY <1>6 DEF TakeNote
  <2>1. HasSimulated(notes) => HasSimulated(notes') \/ Head(notes).what = "simulated"
    BY <1>0, <2>0, TailSimulated
  <2>2. Stale(Head(notes)) => Head(notes).what # "simulated"
    BY <1>0, <2>0, TailOf DEF Stale, NotesInv, Comes
  <2>3. inHand.note.what # "simulated"
    BY <2>0 DEF NotesInv
  <2>4. CASE Stale(Head(notes)) \/ Head(notes).what = "release"
    <3>1. UNCHANGED <<inHand, simulation>>
      BY <1>6, <2>4 DEF TakeNote
    <3>2. Head(notes).what # "simulated"
      BY <2>2, <2>4
    <3>3. QED
      BY <2>1, <2>3, <3>1, <3>2 DEF NobodyWaitsInVain
  <2>5. CASE ~Stale(Head(notes)) /\ Head(notes).what # "release"
    <3>1. \/ inHand'.note = Head(notes) /\ simulation' = simulation
          \/ /\ inHand' = [at |-> "idle", note |-> NothingInHand]
             /\ simulation' = IF Head(notes).what = "simulated" THEN "none" ELSE simulation
      BY <1>6, <2>5 DEF TakeNote, CueHandled
    <3>2. QED
      BY <2>1, <2>3, <3>1 DEF NobodyWaitsInVain
  <2>6. QED
    BY <2>4, <2>5
<1>7. CASE TakeStopping
  <2>1. /\ notes # <<>> /\ notes' = Tail(notes) /\ inHand' = inHand
        /\ simulation' = IF Head(notes).what = "simulated" THEN "none" ELSE simulation
    BY <1>7 DEF TakeStopping
  <2>2. HasSimulated(notes) => HasSimulated(notes') \/ Head(notes).what = "simulated"
    BY <1>0, <2>1, TailSimulated
  <2>3. QED
    BY <2>1, <2>2 DEF NobodyWaitsInVain
<1>8. CASE CuePublished \/ CueDispatched
  <2>1. notes' = notes
    BY <1>8 DEF CuePublished, CueDispatched
  <2>2. \/ CueHandled(inHand.note)
        \/ inHand' = [inHand EXCEPT !.at = "dispatching"] /\ simulation' = simulation
    BY <1>8, Zenon DEF CuePublished, CueDispatched
  <2>3. [inHand EXCEPT !.at = "dispatching"].note = inHand.note
    BY DEF MidiTypeOK
  <2>4. QED
    BY <2>1, <2>2, <2>3 DEF CueHandled, NobodyWaitsInVain, HasSimulated
<1>9. CASE Supervise
  BY <1>1, <1>9 DEF Supervise, Looks, Rests, Listed, OpenFails, Opened, Checks, Checked, PortCloses
<1>10. CASE SelectNone \/ SelectListed \/ StopMidi \/ StopEnds \/ TimePasses \/ UNCHANGED midiVars
  BY <1>1, <1>10 DEF SelectNone, SelectListed, StopMidi, StopEnds, TimePasses, midiVars
<1>11. ASSUME NEW n \in MidiInputs, AskToSelect(n) \/ SaveMidi(n) \/ Plug(n)
       PROVE  NobodyWaitsInVain'
  BY <1>1, <1>11 DEF AskToSelect, SaveMidi, Plug
<1>12. QED
  BY <1>3, <1>4, <1>5, <1>6, <1>7, <1>8, <1>9, <1>10, <1>11 DEF MidiNext, Consume

-----------------------------------------------------------------------------
(* A latch follows its key.                                                 *)

\* What needs a release.
Wants == (latch /\ ~Ends) \/ Publishes

\* A step that leaves queue, key and connection alone and wants no other release.
LEMMA LatchKept ==
  ASSUME LatchInv, notes' = notes, active' = active, dead \subseteq dead',
         missed => missed', keyDown => keyDown', Wants' => Wants
  PROVE  LatchInv'
BY DEF LatchInv, Releases, Wants, Ends, Publishes

\* Each step leaves a release behind what is pressed or latched.
LEMMA LatchStep ==
  ASSUME MidiTypeOK, WatcherInv, NotesInv, LatchInv, [MidiNext]_midiVars
  PROVE  LatchInv'
<1>0. /\ watcher \in Watchers /\ opens \in Nat /\ active \in Nat /\ notes \in Seq(Queued)
      /\ inHand.note.what \in {"press", "simulated", "nothing"}
  BY DEF MidiTypeOK
<1> USE DEF askVars, portVars, deviceVars, noteVars, latchVars, NoPort
<1>1. CASE active' = NoPort
  BY <1>1 DEF LatchInv
<1>2. CASE phase # "on" /\ active' = active
  BY <1>1, <1>2 DEF WatcherInv
<1>3. CASE Looks \/ Rests \/ Listed \/ OpenFails \/ Checks \/ PortCloses
  <2>1. /\ UNCHANGED <<notes, active, dead, missed, keyDown, inHand, latch>>
    BY <1>3, Zenon DEF Looks, Rests, Listed, OpenFails, Checks, PortCloses
  <2>2. QED
    BY <2>1, LatchKept DEF Wants, Ends, Publishes
<1>4. CASE Opened
  <2>1. CASE StillWanted
    <3>1. /\ active' = opens + 1 /\ notes' = notes /\ ~latch' /\ ~Publishes'
      BY <1>4, <2>1 DEF Opened, Adopts, LatchesCleared, Unlatched, Publishes
    <3>2. \A i \in DOMAIN notes : notes[i].from <= opens /\ notes[i].from \in Nat
      <4>1. \A i \in DOMAIN notes : notes[i] \in Queued
        BY <1>0
      <4>2. QED
        BY <4>1 DEF NotesInv, Comes, Queued
    <3>3. \A i \in DOMAIN notes : notes[i].from # active'
      BY <1>0, <3>1, <3>2
    <3>4. QED
      BY <3>1, <3>3 DEF LatchInv
  <2>2. CASE ~StillWanted
    <3>1. UNCHANGED <<notes, active, dead, missed, keyDown, inHand, latch>>
      BY <1>4, <2>2 DEF Opened
    <3>2. QED
      BY <3>1, LatchKept DEF Wants, Ends, Publishes
  <2>3. QED
    BY <2>1, <2>2
<1>5. CASE Checked
  <2>1. UNCHANGED <<notes, dead, missed, keyDown, inHand>>
    BY <1>5, Zenon DEF Checked
  <2>2. (active' = active /\ latch' = latch) \/ active' = NoPort
    BY <1>5, Zenon DEF Checked, Leaves
  <2>3. QED
    BY <1>1, <2>1, <2>2, LatchKept DEF Wants, Ends, Publishes
<1>6. CASE SelectNone \/ SelectListed
  <2>1. UNCHANGED <<notes, dead, missed, keyDown, inHand>>
    BY <1>6, Zenon DEF SelectNone, SelectListed
  <2>2. (active' = active /\ latch' = latch) \/ active' = NoPort
    BY <1>6, Zenon DEF SelectNone, SelectListed, Selects
  <2>3. QED
    BY <1>1, <2>1, <2>2, LatchKept DEF Wants, Ends, Publishes
<1>7. ASSUME NEW n \in MidiInputs, AskToSelect(n) \/ SaveMidi(n) PROVE LatchInv'
  <2>1. UNCHANGED <<notes, dead, missed, keyDown, inHand>>
    BY <1>7, Zenon DEF AskToSelect, SaveMidi
  <2>2. (active' = active /\ (latch' => latch)) \/ active' = NoPort
    BY <1>7, Zenon DEF AskToSelect, SaveMidi, Selects, LatchesCleared, Unlatched
  <2>3. QED
    BY <1>1, <2>1, <2>2, LatchKept DEF Wants, Ends, Publishes
<1>8. ASSUME NEW n \in MidiInputs, Plug(n) PROVE LatchInv'
  <2>1. UNCHANGED <<notes, active, missed, keyDown, inHand, latch>> /\ dead \subseteq dead'
    BY <1>8 DEF Plug
  <2>2. QED
    BY <2>1, LatchKept DEF Wants, Ends, Publishes
<1>9. CASE StopMidi
  BY <1>1, <1>9 DEF StopMidi
<1>10. CASE Drain \/ StopEnds
  BY <1>2, <1>10 DEF Drain, StopEnds
<1>11. CASE Press
  BY <1>11 DEF Press, LatchInv
<1>12. CASE LetGo
  <2> DEFINE n == [what |-> "release", from |-> watcher.port]
  <2>0. n \in Queued /\ n.what = "release" /\ n.from = watcher.port
    BY <1>0 DEF Queued, Watchers
  <2>1. Offer("release") /\ UNCHANGED <<active, watcher, ports, phase, dead>>
    BY <1>12 DEF LetGo
  <2>2. \/ Heard /\ notes' = Append(notes, n)
        \/ Heard => missed'
    BY <2>1, Offered
  <2>3. active # NoPort /\ active \notin dead => Heard
    BY <1>0 DEF WatcherInv, Heard, Plays
  <2> HIDE DEF n
  <2>4. CASE Heard /\ notes' = Append(notes, n)
    <3>1. Len(notes) + 1 \in DOMAIN notes' /\ notes'[Len(notes) + 1] = n
      BY <1>0, <2>0, <2>4, AppendOf
    <3>2. \A i \in DOMAIN notes' : notes'[i].what = "press" => i < Len(notes) + 1
      BY <1>0, <2>0, <2>4, AppendOf
    <3>3. n.from = active'
      BY <2>0, <2>1, <2>4 DEF Heard
    <3>4. QED
      BY <1>0, <2>0, <3>1, <3>2, <3>3 DEF LatchInv, Releases
  <2>5. CASE Heard => missed'
    BY <2>1, <2>3, <2>5 DEF LatchInv
  <2>6. QED
    BY <2>2, <2>4, <2>5
<1>13. CASE Simulate
  <2> DEFINE n == [what |-> "simulated", from |-> NoPort]
  <2>0. n \in Queued /\ n.what = "simulated"
    BY DEF Queued
  <2>1. notes' \in {notes, Append(notes, n)}
        /\ UNCHANGED <<active, dead, missed, keyDown, inHand, latch>>
    BY <1>13, Zenon DEF Simulate
  <2> HIDE DEF n
  <2>2. CASE notes' = notes
    BY <2>1, <2>2, LatchKept DEF Wants, Ends, Publishes
  <2>3. CASE notes' = Append(notes, n)
    <3>1. \A i \in DOMAIN notes : i \in DOMAIN notes' /\ notes'[i] = notes[i]
      BY <1>0, <2>0, <2>3, AppendOf
    <3>2. \A i \in DOMAIN notes' : notes'[i].what = "press" => i \in DOMAIN notes
      BY <1>0, <2>0, <2>3, AppendOf
    <3>3. QED
      BY <2>1, <3>1, <3>2 DEF LatchInv, Releases, Ends, Publishes
  <2>4. QED
    BY <2>1, <2>2, <2>3
<1>14. CASE TakeStopping
  BY <1>2, <1>14 DEF TakeStopping, ConsumerOnly
<1>15. CASE TakeNote
  <2>0. /\ notes # <<>> /\ notes' = Tail(notes) /\ inHand.at = "idle"
        /\ UNCHANGED <<active, dead, missed, keyDown>>
    BY <1>15 DEF TakeNote, ConsumerOnly
  <2> SUFFICES ASSUME active # NoPort, active \notin dead, ~missed, ~keyDown
               PROVE  LatchInv'
    BY <2>0 DEF LatchInv
  <2>1. /\ \A i \in DOMAIN notes : notes[i].what = "press" /\ notes[i].from = active =>
              \E k \in DOMAIN notes : k > i /\ Releases(k)
        /\ Wants => \E k \in DOMAIN notes : Releases(k)
    BY DEF LatchInv, Wants
  <2>2. /\ DOMAIN notes \subseteq Nat \ {0} /\ 1 \in DOMAIN notes /\ Head(notes) = notes[1]
        /\ \A i \in DOMAIN notes' : i + 1 \in DOMAIN notes /\ notes'[i] = notes[i + 1]
        /\ \A i \in DOMAIN notes : i # 1 => i - 1 \in DOMAIN notes' /\ notes'[i - 1] = notes[i]
        /\ DOMAIN notes' \subseteq Nat
    BY <1>0, <2>0, TailOf
  <2>3. \A k \in DOMAIN notes : Releases(k) /\ k # 1 => Releases(k - 1)'
    BY <2>0, <2>2 DEF Releases
  <2>4. \A i \in DOMAIN notes' : notes'[i].what = "press" /\ notes'[i].from = active =>
            \E k \in DOMAIN notes' : k > i /\ Releases(k)'
    <3> SUFFICES ASSUME NEW i \in DOMAIN notes', notes'[i].what = "press", notes'[i].from = active
                 PROVE  \E k \in DOMAIN notes' : k > i /\ Releases(k)'
      OBVIOUS
    <3>1. PICK k \in DOMAIN notes : k > i + 1 /\ Releases(k)
      BY <2>1, <2>2
    <3>2. k - 1 \in DOMAIN notes' /\ k - 1 > i /\ k # 1
      BY <2>2, <3>1
    <3>3. QED
      BY <2>3, <3>1, <3>2
  <2>5. (\E k \in DOMAIN notes : Releases(k)) /\ ~Releases(1) => \E k \in DOMAIN notes' : Releases(k)'
    BY <2>2, <2>3
  <2>6. CASE Stale(Head(notes))
    <3>1. UNCHANGED <<inHand, latch>>
      BY <1>15, <2>6 DEF TakeNote
    <3>2. ~Releases(1)
      BY <2>2, <2>6 DEF Stale, Releases
    <3>3. Wants' <=> Wants
      BY <3>1 DEF Wants, Ends, Publishes
    <3>4. QED
      BY <2>0, <2>1, <2>4, <2>5, <3>2, <3>3 DEF LatchInv, Wants
  <2>7. CASE ~Stale(Head(notes)) /\ Head(notes).what = "release"
    <3>1. ~latch' /\ inHand' = inHand
      BY <1>15, <2>7 DEF TakeNote
    <3>2. ~Wants'
      BY <2>0, <3>1 DEF Wants, Publishes
    <3>3. QED
      BY <2>0, <2>4, <3>2 DEF LatchInv, Wants
  <2>8. CASE ~Stale(Head(notes)) /\ Head(notes).what # "release"
    <3>1. \/ inHand' = [at |-> "publishing", note |-> Head(notes)] /\ latch' = latch
          \/ inHand' = [at |-> "idle", note |-> NothingInHand] /\ (latch' => latch)
      BY <1>15, <2>8, Zenon DEF TakeNote, CueHandled, Lets
    <3>2. ~Releases(1)
      BY <2>2, <2>8 DEF Releases
    <3>3. Head(notes).what = "press" => Head(notes).from = active
      <4>1. Comes(notes[1])
        BY <2>2 DEF NotesInv
      <4>2. QED
        BY <2>2, <2>8, <4>1 DEF Comes, Stale
    <3>4. Wants' => Wants \/ Head(notes).what = "press"
      BY <2>0, <3>1 DEF Wants, Ends, Publishes, NothingInHand
    <3>5. Head(notes).what = "press" => \E k \in DOMAIN notes : Releases(k)
      BY <2>1, <2>2, <3>3
    <3>6. QED
      BY <2>0, <2>1, <2>4, <2>5, <3>2, <3>4, <3>5 DEF LatchInv, Wants
  <2>9. QED
    BY <2>6, <2>7, <2>8
<1>16. CASE CuePublished
  <2>1. notes' = notes /\ UNCHANGED <<active, dead, missed, keyDown>> /\ inHand.at = "publishing"
    BY <1>16 DEF CuePublished, ConsumerOnly
  <2>2. \/ inHand' = [at |-> "idle", note |-> NothingInHand]
           /\ (latch' => latch \/ inHand.note.what # "simulated")
        \/ inHand' = [inHand EXCEPT !.at = "dispatching"]
    BY <1>16, Zenon DEF CuePublished, CueHandled, Lets
  <2>3. [inHand EXCEPT !.at = "dispatching"].at = "dispatching"
        /\ [inHand EXCEPT !.at = "dispatching"].note = inHand.note
    BY DEF MidiTypeOK
  <2>4. inHand.note.what \in {"press", "simulated"}
    BY <1>0, <2>1 DEF NotesInv
  <2>5. Wants' => Wants
    <3>1. CASE inHand.note.what = "press"
      BY <2>1, <3>1 DEF Wants, Publishes
    <3>2. CASE inHand.note.what = "simulated" /\ inHand' = [at |-> "idle", note |-> NothingInHand]
      <4>1. (latch' => latch) /\ ~Ends
        BY <2>1, <2>2, <3>2 DEF Ends
      <4>2. ~Publishes'
        BY <3>2 DEF Publishes
      <4>3. QED
        BY <4>1, <4>2 DEF Wants
    <3>3. CASE /\ inHand.note.what = "simulated"
               /\ inHand' = [inHand EXCEPT !.at = "dispatching"]
      BY <2>3, <3>3 DEF Wants, Ends, Publishes
    <3>4. QED
      BY <2>2, <2>4, <3>1, <3>2, <3>3
  <2>6. QED
    BY <2>1, <2>5, LatchKept
<1>17. CASE CueDispatched
  <2>1. notes' = notes /\ UNCHANGED <<active, dead, missed, keyDown>> /\ inHand.at = "dispatching"
    BY <1>17 DEF CueDispatched, ConsumerOnly
  <2>2. /\ inHand' = [at |-> "idle", note |-> NothingInHand]
        /\ latch' => latch /\ inHand.note.what # "simulated"
    BY <1>17, Zenon DEF CueDispatched, CueHandled, Lets
  <2>3. Wants' => Wants
    BY <2>1, <2>2 DEF Wants, Ends, Publishes, NothingInHand
  <2>4. QED
    BY <2>1, <2>3, LatchKept
<1>18. CASE TimePasses \/ UNCHANGED midiVars
  <2>1. UNCHANGED <<notes, active, dead, missed, keyDown, inHand, latch>>
    BY <1>18 DEF TimePasses, midiVars
  <2>2. QED
    BY <2>1, LatchKept DEF Wants, Ends, Publishes
<1>19. QED
  BY <1>3, <1>4, <1>5, <1>6, <1>7, <1>8, <1>9, <1>10, <1>11, <1>12, <1>13, <1>14, <1>15,
     <1>16, <1>17, <1>18 DEF MidiNext, Supervise, Consume

-----------------------------------------------------------------------------
(* One action for a press.                                                  *)

\* The costs are numbers, and close to each other.
LEMMA CostRange ==
  ASSUME NEW heldCost \in Costs, NEW freeCost \in Costs, NEW q, NEW down,
         CostOK(q, down, heldCost, freeCost), NEW i \in Nat
  PROVE  /\ heldCost[i] \in Nat /\ freeCost[i] \in Nat
         /\ heldCost[i] <= freeCost[i] /\ freeCost[i] <= heldCost[i] + 1
         /\ down => freeCost[i] >= 1
BY DEF Costs, CostOK

\* What each message asks of the costs before and behind it.
Step(what, h, f, hNext, fNext) ==
    /\ what = "press" => h >= hNext /\ f >= hNext + 1
    /\ what = "release" => h >= fNext /\ f >= fNext
    /\ what = "simulated" => h >= hNext /\ f >= fNext

\* The costs, by the messages.
LEMMA CostOKSteps ==
  ASSUME NEW heldCost, NEW freeCost, NEW q, NEW down
  PROVE  CostOK(q, down, heldCost, freeCost) <=>
           /\ \A i \in Nat : /\ heldCost[i] <= freeCost[i] /\ freeCost[i] <= heldCost[i] + 1
                             /\ down => freeCost[i] >= 1
           /\ \A i \in DOMAIN q :
                 Step(q[i].what, heldCost[i], freeCost[i], heldCost[i + 1], freeCost[i + 1])
BY DEF CostOK, Step

\* Costs that are one more ask the same.
LEMMA StepMore ==
  ASSUME NEW what, NEW h \in Nat, NEW f \in Nat, NEW hNext \in Nat, NEW fNext \in Nat,
         NEW more \in Nat, Step(what, h, f, hNext, fNext)
  PROVE  Step(what, h + more, f + more, hNext + more, fNext + more)
BY DEF Step

\* And they stay close to each other.
LEMMA RangeMore ==
  ASSUME NEW h \in Nat, NEW f \in Nat, NEW more \in Nat, h <= f, f <= h + 1
  PROVE  h + more <= f + more /\ f + more <= (h + more) + 1 /\ f + more >= more
OBVIOUS

\* Behind the head, the costs are what they were.
LEMMA CostOfTail ==
  ASSUME NEW heldCost \in Costs, NEW freeCost \in Costs, NEW q \in Seq(Queued), q # <<>>,
         NEW down, CostOK(q, down, heldCost, freeCost)
  PROVE  \E h, f \in Costs :
            CostOK(Tail(q), down, h, f) /\ h[1] = heldCost[2] /\ f[1] = freeCost[2]
<1> DEFINE h == [i \in Nat |-> heldCost[i + 1]]
           f == [i \in Nat |-> freeCost[i + 1]]
<1>1. h \in Costs /\ f \in Costs
  <2>1. \A i \in Nat : heldCost[i + 1] \in Nat /\ freeCost[i + 1] \in Nat
    <3>1. \A i \in Nat : i + 1 \in Nat
      OBVIOUS
    <3>2. QED
      BY <3>1, CostRange
  <2>2. QED
    BY <2>1, Zenon DEF Costs
<1>2. \A i \in Nat : h[i] = heldCost[i + 1] /\ f[i] = freeCost[i + 1] /\ i + 1 \in Nat
  OBVIOUS
<1> HIDE DEF h, f
<1>3. \A i \in Nat : /\ h[i] <= f[i] /\ f[i] <= h[i] + 1
                     /\ down => f[i] >= 1
  BY <1>2, CostOKSteps
<1>4. ASSUME NEW i \in DOMAIN Tail(q)
      PROVE  Step(Tail(q)[i].what, h[i], f[i], h[i + 1], f[i + 1])
  <2>1. i \in Nat /\ i + 1 \in DOMAIN q /\ Tail(q)[i] = q[i + 1]
    BY TailOf
  <2>2. /\ h[i] = heldCost[i + 1] /\ f[i] = freeCost[i + 1]
        /\ h[i + 1] = heldCost[(i + 1) + 1] /\ f[i + 1] = freeCost[(i + 1) + 1]
    BY <1>2, <2>1
  <2>3. QED
    BY <2>1, <2>2, CostOKSteps
<1>5. CostOK(Tail(q), down, h, f)
  BY <1>3, <1>4, CostOKSteps
<1>6. h[1] = heldCost[2] /\ f[1] = freeCost[2]
  <2>1. 1 \in Nat /\ 1 + 1 = 2
    OBVIOUS
  <2>2. QED
    BY <1>2, <2>1
<1>7. QED
  BY <1>1, <1>5, <1>6

\* A message that comes last costs nothing more, unless it is a press of a key that was up,
\* which costs one action.
LEMMA CostOfAppend ==
  ASSUME NEW heldCost \in Costs, NEW freeCost \in Costs, NEW q \in Seq(Queued), NEW n \in Queued,
         NEW down, NEW after, CostOK(q, down, heldCost, freeCost),
         n.what = "press" => after, n.what = "release" => down /\ ~after,
         n.what = "simulated" => (after <=> down)
  PROVE  \E h, f \in Costs :
            /\ CostOK(Append(q, n), after, h, f)
            /\ ~(n.what = "press" /\ ~down) => h[1] = heldCost[1] /\ f[1] = freeCost[1]
            /\ h[1] <= heldCost[1] + 1 /\ f[1] <= freeCost[1] + 1
<1> DEFINE more == IF n.what = "press" /\ ~down THEN 1 ELSE 0
           last == IF after THEN 1 ELSE 0
           h == [i \in Nat |-> IF i <= Len(q) + 1 THEN heldCost[i] + more ELSE 0]
           f == [i \in Nat |-> IF i <= Len(q) + 1 THEN freeCost[i] + more ELSE last]
<1>0. /\ Len(q) \in Nat /\ n.what \in {"press", "release", "simulated"}
      /\ more \in {0, 1} /\ last \in {0, 1} /\ (after => last = 1) /\ (~after => last = 0)
      /\ (n.what = "press" /\ ~down => more = 1) /\ (~(n.what = "press" /\ ~down) => more = 0)
  BY DEF Queued
<1>a. \A i \in Nat : /\ heldCost[i] \in Nat /\ freeCost[i] \in Nat
                     /\ heldCost[i] <= freeCost[i] /\ freeCost[i] <= heldCost[i] + 1
                     /\ down => freeCost[i] >= 1
  BY CostRange
<1> HIDE DEF more, last
<1>1. h \in Costs /\ f \in Costs
  <2>1. \A i \in Nat : heldCost[i] + more \in Nat /\ freeCost[i] + more \in Nat
    BY <1>0, <1>a
  <2>2. 0 \in Nat /\ last \in Nat
    BY <1>0
  <2>3. \A i \in Nat : /\ (IF i <= Len(q) + 1 THEN heldCost[i] + more ELSE 0) \in Nat
                       /\ (IF i <= Len(q) + 1 THEN freeCost[i] + more ELSE last) \in Nat
    BY <2>1, <2>2
  <2>4. QED
    BY <2>3, Zenon DEF Costs
<1>2. \A i \in Nat : /\ i <= Len(q) + 1 => h[i] = heldCost[i] + more /\ f[i] = freeCost[i] + more
                     /\ ~(i <= Len(q) + 1) => h[i] = 0 /\ f[i] = last
  OBVIOUS
<1> HIDE DEF h, f
<1>3. ASSUME NEW i \in Nat
      PROVE  /\ h[i] <= f[i] /\ f[i] <= h[i] + 1
             /\ after => f[i] >= 1
  <2>1. CASE i <= Len(q) + 1
    <3>1. after => down \/ more = 1
      BY <1>0
    <3>2. h[i] = heldCost[i] + more /\ f[i] = freeCost[i] + more
      BY <1>2, <2>1
    <3>3. /\ heldCost[i] \in Nat /\ freeCost[i] \in Nat /\ more \in Nat
          /\ heldCost[i] <= freeCost[i] /\ freeCost[i] <= heldCost[i] + 1
          /\ down => freeCost[i] >= 1
      BY <1>0, <1>a
    <3>4. h[i] <= f[i] /\ f[i] <= h[i] + 1 /\ f[i] >= more
      BY <3>2, <3>3, RangeMore
    <3>5. down => f[i] >= 1
      BY <3>2, <3>3
    <3>6. more = 1 => f[i] >= 1
      BY <3>4
    <3>7. QED
      BY <3>1, <3>4, <3>5, <3>6
  <2>2. CASE ~(i <= Len(q) + 1)
    <3>1. h[i] = 0 /\ f[i] = last
      BY <1>2, <2>2
    <3>2. QED
      BY <1>0, <3>1
  <2>3. QED
    BY <2>1, <2>2
<1>4. ASSUME NEW i \in DOMAIN q
      PROVE  Step(q[i].what, h[i], f[i], h[i + 1], f[i + 1])
  <2>1. i \in Nat /\ i + 1 \in Nat /\ i <= Len(q) + 1 /\ i + 1 <= Len(q) + 1
    OBVIOUS
  <2>2. /\ h[i] = heldCost[i] + more /\ f[i] = freeCost[i] + more
        /\ h[i + 1] = heldCost[i + 1] + more /\ f[i + 1] = freeCost[i + 1] + more
    BY <1>2, <2>1
  <2>3. Step(q[i].what, heldCost[i], freeCost[i], heldCost[i + 1], freeCost[i + 1])
    BY CostOKSteps
  <2>4. /\ heldCost[i] \in Nat /\ freeCost[i] \in Nat
        /\ heldCost[i + 1] \in Nat /\ freeCost[i + 1] \in Nat
    BY <1>a, <2>1
  <2>5. QED
    BY <1>0, <2>2, <2>3, <2>4, StepMore
<1>5. Step(n.what, h[Len(q) + 1], f[Len(q) + 1], h[(Len(q) + 1) + 1], f[(Len(q) + 1) + 1])
  <2> DEFINE i == Len(q) + 1
  <2>1. i \in Nat /\ i <= Len(q) + 1 /\ i + 1 \in Nat /\ ~(i + 1 <= Len(q) + 1)
    BY <1>0
  <2>2. h[i] = heldCost[i] + more /\ f[i] = freeCost[i] + more /\ h[i + 1] = 0 /\ f[i + 1] = last
    BY <1>2, <2>1
  <2>3. /\ heldCost[i] \in Nat /\ freeCost[i] \in Nat /\ (down => freeCost[i] >= 1)
    BY <1>a, <2>1
  <2> HIDE DEF i
  <2>4. Step(n.what, h[i], f[i], h[i + 1], f[i + 1])
    BY <1>0, <2>2, <2>3 DEF Step
  <2>5. QED
    BY <2>4 DEF i
<1>6. CostOK(Append(q, n), after, h, f)
  <2>1. \A i \in DOMAIN Append(q, n) :
           Step(Append(q, n)[i].what, h[i], f[i], h[i + 1], f[i + 1])
    BY <1>4, <1>5, AppendOf
  <2>2. QED
    BY <1>3, <2>1, CostOKSteps
<1>7. h[1] = heldCost[1] + more /\ f[1] = freeCost[1] + more
  <2>1. 1 \in Nat /\ 1 <= Len(q) + 1
    BY <1>0
  <2>2. QED
    BY <1>2, <2>1
<1>8. /\ ~(n.what = "press" /\ ~down) => h[1] = heldCost[1] /\ f[1] = freeCost[1]
      /\ h[1] <= heldCost[1] + 1 /\ f[1] <= freeCost[1] + 1
  <2>1. heldCost[1] \in Nat /\ freeCost[1] \in Nat
    BY <1>a
  <2>2. QED
    BY <1>0, <1>7, <2>1
<1>9. QED
  BY <1>1, <1>6, <1>8

\* A key that goes down costs one action more.
LEMMA CostOfKey ==
  ASSUME NEW heldCost \in Costs, NEW freeCost \in Costs, notes \in Seq(Queued),
         CostOK(notes, keyDown, heldCost, freeCost)
  PROVE  \E h, f \in Costs : /\ CostOK(notes, keyDown', h, f)
                             /\ h[1] = heldCost[1] + 1 /\ f[1] = freeCost[1] + 1
<1> DEFINE h == [i \in Nat |-> heldCost[i] + 1]
           f == [i \in Nat |-> freeCost[i] + 1]
<1>0. \A i \in Nat : /\ heldCost[i] \in Nat /\ freeCost[i] \in Nat
                     /\ heldCost[i] <= freeCost[i] /\ freeCost[i] <= heldCost[i] + 1
  BY CostRange
<1>1. h \in Costs /\ f \in Costs
  <2>1. \A i \in Nat : heldCost[i] + 1 \in Nat /\ freeCost[i] + 1 \in Nat
    BY <1>0
  <2>2. QED
    BY <2>1, Zenon DEF Costs
<1>2. \A i \in Nat : h[i] = heldCost[i] + 1 /\ f[i] = freeCost[i] + 1
  OBVIOUS
<1> HIDE DEF h, f
<1>3. \A i \in Nat : h[i] <= f[i] /\ f[i] <= h[i] + 1 /\ f[i] >= 1
  <2> SUFFICES ASSUME NEW i \in Nat PROVE h[i] <= f[i] /\ f[i] <= h[i] + 1 /\ f[i] >= 1
    OBVIOUS
  <2>1. /\ heldCost[i] \in Nat /\ freeCost[i] \in Nat /\ 1 \in Nat
        /\ heldCost[i] <= freeCost[i] /\ freeCost[i] <= heldCost[i] + 1
        /\ h[i] = heldCost[i] + 1 /\ f[i] = freeCost[i] + 1
    BY <1>0, <1>2
  <2>2. QED
    BY <2>1, RangeMore
<1>4. ASSUME NEW i \in DOMAIN notes
      PROVE  Step(notes[i].what, h[i], f[i], h[i + 1], f[i + 1])
  <2>1. i \in Nat /\ i + 1 \in Nat
    OBVIOUS
  <2>2. /\ h[i] = heldCost[i] + 1 /\ f[i] = freeCost[i] + 1
        /\ h[i + 1] = heldCost[i + 1] + 1 /\ f[i + 1] = freeCost[i + 1] + 1
        /\ heldCost[i] \in Nat /\ freeCost[i] \in Nat
        /\ heldCost[i + 1] \in Nat /\ freeCost[i + 1] \in Nat
    BY <1>0, <1>2, <2>1
  <2>3. Step(notes[i].what, heldCost[i], freeCost[i], heldCost[i + 1], freeCost[i + 1])
    BY CostOKSteps
  <2>4. 1 \in Nat
    OBVIOUS
  <2>5. QED
    BY <2>2, <2>3, <2>4, StepMore
<1>5. CostOK(notes, keyDown', h, f)
  BY <1>3, <1>4, CostOKSteps
<1>6. QED
  BY <1>1, <1>2, <1>5

\* What a clearing of the latch gives back is enough for what it may cost.
LEMMA SpareKept ==
  ASSUME SpareInv, spare \in Int, notes' = notes, keyDown' = keyDown, Publishes' <=> Publishes,
         ((latch' <=> latch) /\ spare' = spare) \/ Unlatched
  PROVE  SpareInv'
<1>1. PICK hc, fc \in Costs : /\ CostOK(notes, keyDown, hc, fc)
                           /\ Covers(spare, hc[1], fc[1], latch, Publishes)
  BY DEF SpareInv
<1>2. /\ hc[1] \in Nat /\ fc[1] \in Nat
      /\ hc[1] <= fc[1] /\ fc[1] <= hc[1] + 1
  BY <1>1, CostRange
<1>3. Covers(spare', hc[1], fc[1], latch', Publishes')
  <2>1. CASE (latch' <=> latch) /\ spare' = spare
    BY <1>1, <2>1 DEF Covers
  <2>2. CASE Unlatched
    <3>1. ~latch' /\ spare' = IF latch THEN spare + 1 ELSE spare
      BY <2>2 DEF Unlatched
    <3>2. QED
      BY <1>1, <1>2, <3>1 DEF Covers
  <2>3. QED
    BY <2>1, <2>2
<1>4. CostOK(notes', keyDown', hc, fc)
  BY <1>1
<1>5. QED
  BY <1>1, <1>3, <1>4 DEF SpareInv

\* The steps of the device.
LEMMA SparePress ==
  ASSUME MidiTypeOK, SpareInv, NEW n \in Queued, Publishes' <=> Publishes, latch' <=> latch,
         notes' = Append(notes, n) \/ notes' = notes,
         n.what = "press" => keyDown', n.what = "release" => keyDown /\ ~keyDown',
         n.what = "simulated" => (keyDown' <=> keyDown),
         spare' = IF n.what = "press" /\ ~keyDown THEN spare + 1 ELSE spare
  PROVE  SpareInv'
<1>0. notes \in Seq(Queued) /\ spare \in Int /\ n.what \in {"press", "release", "simulated"}
  BY DEF MidiTypeOK, Queued
<1>1. PICK hc, fc \in Costs : /\ CostOK(notes, keyDown, hc, fc)
                           /\ Covers(spare, hc[1], fc[1], latch, Publishes)
  BY DEF SpareInv
<1>2. hc[1] \in Nat /\ fc[1] \in Nat
  BY <1>1, CostRange
<1>3. \E h, f \in Costs :
         /\ CostOK(notes', keyDown', h, f)
         /\ (h[1] = hc[1] /\ f[1] = fc[1]) \/ (/\ n.what = "press" /\ ~keyDown
                               /\ h[1] <= hc[1] + 1 /\ f[1] <= fc[1] + 1)
  <2>1. CASE notes' = Append(notes, n)
    BY <1>0, <1>1, <2>1, CostOfAppend
  <2>2. CASE notes' = notes /\ n.what = "press" /\ ~keyDown
    <3>1. PICK h, f \in Costs : /\ CostOK(notes, keyDown', h, f)
                             /\ h[1] = hc[1] + 1 /\ f[1] = fc[1] + 1
      BY <1>0, <1>1, CostOfKey
    <3>2. CostOK(notes', keyDown', h, f)
      BY <2>2, <3>1, CostOKSteps
    <3>3. h[1] <= hc[1] + 1 /\ f[1] <= fc[1] + 1
      BY <1>2, <3>1
    <3>4. QED
      BY <2>2, <3>2, <3>3
  <2>3. CASE notes' = notes /\ ~(n.what = "press" /\ ~keyDown)
    <3>1. keyDown' => keyDown
      BY <1>0, <2>3
    <3>2. CostOK(notes', keyDown', hc, fc)
      BY <1>1, <2>3, <3>1, CostOKSteps
    <3>3. QED
      BY <3>2
  <2>4. QED
    BY <2>1, <2>2, <2>3
<1>4. PICK h, f \in Costs :
         /\ CostOK(notes', keyDown', h, f)
         /\ (h[1] = hc[1] /\ f[1] = fc[1]) \/ (/\ n.what = "press" /\ ~keyDown
                               /\ h[1] <= hc[1] + 1 /\ f[1] <= fc[1] + 1)
  BY <1>3
<1>5. h[1] \in Nat /\ f[1] \in Nat
  BY <1>4, CostRange
<1>6. Covers(spare', h[1], f[1], latch', Publishes')
  <2>1. CASE n.what = "press" /\ ~keyDown
    <3>1. h[1] <= hc[1] + 1 /\ f[1] <= fc[1] + 1 /\ spare' = spare + 1
      BY <1>2, <1>4, <2>1
    <3>2. QED
      BY <1>0, <1>1, <1>2, <1>5, <3>1 DEF Covers
  <2>2. CASE ~(n.what = "press" /\ ~keyDown)
    BY <1>1, <1>4, <2>2 DEF Covers
  <2>3. QED
    BY <2>1, <2>2
<1>7. QED
  BY <1>4, <1>6 DEF SpareInv

\* The steps of the consumer.
LEMMA SpareConsume ==
  ASSUME MidiTypeOK, NotesInv, SpareInv, Consume
  PROVE  SpareInv'
<1>0. /\ notes \in Seq(Queued) /\ spare \in Int
      /\ inHand.note.what \in {"press", "simulated", "nothing"}
      /\ inHand.at \in {"idle", "publishing", "dispatching"}
  BY DEF MidiTypeOK
<1> USE DEF latchVars, deviceVars
<1>1. PICK hc, fc \in Costs : /\ CostOK(notes, keyDown, hc, fc)
                           /\ Covers(spare, hc[1], fc[1], latch, Publishes)
  BY DEF SpareInv
<1>2. /\ hc[1] \in Nat /\ fc[1] \in Nat
      /\ hc[1] <= fc[1] /\ fc[1] <= hc[1] + 1
  BY <1>1, CostRange
<1>3. keyDown' = keyDown
  BY DEF Consume, TakeNote, TakeStopping, CuePublished, CueDispatched, ConsumerOnly
<1>4. ASSUME notes # <<>>, notes' = Tail(notes), inHand.at = "idle",
             \/ ~Publishes' /\ (latch' <=> latch) /\ spare' = spare
             \/ ~Publishes' /\ notes[1].what = "release" /\ ~latch' /\ spare' = spare
             \/ ~Publishes' /\ notes[1].what = "simulated" /\ Unlatched
             \/ /\ Publishes' /\ notes[1].what = "press"
                /\ (latch' <=> latch) /\ spare' = spare
      PROVE  SpareInv'
  <2>1. PICK h, f \in Costs : CostOK(notes', keyDown', h, f) /\ h[1] = hc[2] /\ f[1] = fc[2]
    BY <1>0, <1>1, <1>3, <1>4, CostOfTail
  <2>2. /\ h[1] \in Nat /\ f[1] \in Nat
        /\ h[1] <= f[1] /\ f[1] <= h[1] + 1
    BY <2>1, CostRange
  <2>3. 1 \in DOMAIN notes /\ notes[1].what \in {"press", "release", "simulated"}
    <3>1. 1 \in DOMAIN notes /\ notes[1] \in Queued
      BY <1>0, <1>4
    <3>2. QED
      BY <3>1 DEF Queued
  <2>4. /\ notes[1].what = "press" =>
              /\ hc[1] >= h[1] /\ fc[1] >= h[1] + 1
        /\ notes[1].what = "release" =>
              /\ hc[1] >= f[1] /\ fc[1] >= f[1]
        /\ notes[1].what = "simulated" =>
              /\ hc[1] >= h[1] /\ fc[1] >= f[1]
    <3>1. 1 + 1 = 2
      OBVIOUS
    <3>2. QED
      BY <1>1, <2>1, <2>3, <3>1, CostOKSteps DEF Step
  <2>5. ~Publishes
    BY <1>4 DEF Publishes
  <2>6. Covers(spare', h[1], f[1], latch', Publishes')
    <3>1. /\ latch => spare >= hc[1]
          /\ ~latch => spare >= fc[1]
      BY <1>1, <2>5 DEF Covers
    <3>2. CASE ~Publishes' /\ (latch' <=> latch) /\ spare' = spare
      BY <1>0, <1>2, <2>2, <2>3, <2>4, <3>1, <3>2 DEF Covers
    <3>3. CASE ~Publishes' /\ notes[1].what = "release" /\ ~latch' /\ spare' = spare
      BY <1>0, <1>2, <2>2, <2>4, <3>1, <3>3 DEF Covers
    <3>4. CASE ~Publishes' /\ notes[1].what = "simulated" /\ Unlatched
      BY <1>0, <1>2, <2>2, <2>4, <3>1, <3>4 DEF Covers, Unlatched
    <3>5. CASE /\ Publishes' /\ notes[1].what = "press"
               /\ (latch' <=> latch) /\ spare' = spare
      BY <1>0, <1>2, <2>2, <2>4, <3>1, <3>5 DEF Covers
    <3>6. QED
      BY <1>4, <3>2, <3>3, <3>4, <3>5
  <2>7. QED
    BY <2>1, <2>6 DEF SpareInv
<1>5. CASE TakeNote
  <2>0. /\ notes # <<>> /\ notes' = Tail(notes) /\ inHand.at = "idle"
        /\ Head(notes) = notes[1] /\ ~Publishes
    BY <1>0, <1>5 DEF TakeNote, Publishes
  <2>1. CASE Stale(Head(notes))
    <3>1. UNCHANGED <<inHand, latch, spare>>
      BY <1>5, <2>1 DEF TakeNote
    <3>2. QED
      BY <1>4, <2>0, <3>1 DEF Publishes
  <2>2. CASE ~Stale(Head(notes)) /\ Head(notes).what = "release"
    <3>1. ~latch' /\ spare' = spare /\ inHand' = inHand
      BY <1>5, <2>2 DEF TakeNote
    <3>2. QED
      BY <1>4, <2>0, <2>2, <3>1 DEF Publishes
  <2>3. CASE ~Stale(Head(notes)) /\ Head(notes).what # "release"
    <3>1. \/ /\ inHand' = [at |-> "publishing", note |-> Head(notes)]
             /\ UNCHANGED latchVars
          \/ CueHandled(Head(notes)) /\ Lets(Head(notes), latch)
      BY <1>5, <2>3, Zenon DEF TakeNote
    <3>2. notes[1].what \in {"press", "simulated"}
      <4>1. notes[1] \in Queued
        BY <1>0, <2>0
      <4>2. QED
        BY <2>0, <2>3, <4>1 DEF Queued
    <3>3. CASE inHand' = [at |-> "publishing", note |-> Head(notes)] /\ UNCHANGED latchVars
      BY <1>4, <2>0, <3>2, <3>3 DEF Publishes
    <3>4. CASE CueHandled(Head(notes)) /\ Lets(Head(notes), latch)
      <4>1. ~Publishes'
        BY <3>4 DEF CueHandled, Publishes
      <4>2. \/ (latch' <=> latch) /\ spare' = spare
            \/ notes[1].what = "simulated" /\ Unlatched
        BY <2>0, <3>4 DEF Lets, Unlatched
      <4>3. QED
        BY <1>4, <2>0, <4>1, <4>2
    <3>5. QED
      BY <3>1, <3>3, <3>4
  <2>4. QED
    BY <2>1, <2>2, <2>3
<1>6. CASE TakeStopping
  <2>1. /\ notes # <<>> /\ notes' = Tail(notes) /\ inHand.at = "idle"
        /\ UNCHANGED <<inHand, latch, spare>>
    BY <1>6 DEF TakeStopping
  <2>2. QED
    BY <1>4, <2>1 DEF Publishes
<1>7. ASSUME notes' = notes, ~Publishes',
             \/ (latch' <=> latch) /\ spare' = spare
             \/ ~Publishes /\ Unlatched
             \/ latch' /\ Publishes /\ spare' = spare
             \/ latch' /\ Publishes /\ ~latch /\ spare' = spare - 1
             \/ latch' /\ ~Publishes /\ spare' = spare
             \/ ~latch' /\ ~latch /\ spare' = spare
      PROVE  SpareInv'
  <2>1. Covers(spare', hc[1], fc[1], latch', Publishes')
    BY <1>0, <1>1, <1>2, <1>7 DEF Covers, Unlatched
  <2>2. QED
    BY <1>1, <1>3, <1>7, <2>1 DEF SpareInv
<1>8. CASE CuePublished
  <2>0. notes' = notes /\ inHand.at = "publishing"
    BY <1>8 DEF CuePublished
  <2>1. /\ CueHandled(inHand.note) => ~Publishes'
        /\ inHand' = [inHand EXCEPT !.at = "dispatching"] => ~Publishes'
    <3>1. [inHand EXCEPT !.at = "dispatching"].at = "dispatching"
      BY DEF MidiTypeOK
    <3>2. CueHandled(inHand.note) => inHand'.at = "idle"
      BY DEF CueHandled
    <3>3. QED
      BY <3>1, <3>2 DEF Publishes
  <2>2. CASE Duplicate
    <3>1. CueHandled(inHand.note) /\ Lets(inHand.note, latch)
      BY <1>8, <2>2 DEF CuePublished
    <3>2. QED
      BY <1>7, <2>0, <2>1, <3>1 DEF Lets, Unlatched, Publishes
  <2>3. CASE ~Duplicate
    <3>1. ~latch
      BY <2>3 DEF Duplicate
    <3>2. CASE CueHandled(inHand.note) /\ Lets(inHand.note, TRUE)
      BY <1>7, <2>0, <2>1, <3>1, <3>2 DEF Lets, Publishes
    <3>3. CASE /\ inHand' = [inHand EXCEPT !.at = "dispatching"] /\ latch'
               /\ spare' = IF inHand.note.what = "press" THEN spare - 1 ELSE spare
      BY <1>7, <2>0, <2>1, <3>1, <3>3 DEF Publishes
    <3>4. QED
      BY <1>8, <2>3, <3>2, <3>3, Zenon DEF CuePublished
  <2>4. QED
    BY <2>2, <2>3
<1>9. CASE CueDispatched
  <2>1. /\ notes' = notes /\ inHand.at = "dispatching" /\ CueHandled(inHand.note)
        /\ Lets(inHand.note, latch)
    BY <1>9 DEF CueDispatched
  <2>2. QED
    BY <1>7, <2>1 DEF CueHandled, Lets, Unlatched, Publishes
<1>10. QED
  BY <1>5, <1>6, <1>8, <1>9 DEF Consume

\* Each step costs no more than it pays for.
LEMMA SpareStep ==
  ASSUME MidiTypeOK, WatcherInv, NotesInv, SpareInv, [MidiNext]_midiVars
  PROVE  SpareInv'
<1>0. notes \in Seq(Queued) /\ watcher \in Watchers /\ spare \in Int
  BY DEF MidiTypeOK
<1> USE DEF askVars, portVars, deviceVars, noteVars, latchVars
<1>1. CASE Consume
  BY <1>1, SpareConsume
<1>2. ASSUME UNCHANGED <<notes, keyDown, inHand>>, UNCHANGED <<latch, spare>> \/ Unlatched
      PROVE  SpareInv'
  BY <1>0, <1>2, SpareKept DEF Publishes
<1>3. CASE Looks \/ Rests \/ Listed \/ OpenFails \/ Checks \/ PortCloses
  <2>1. UNCHANGED <<notes, keyDown, inHand>> /\ UNCHANGED <<latch, spare>>
    BY <1>3, Zenon DEF Looks, Rests, Listed, OpenFails, Checks, PortCloses
  <2>2. QED
    BY <1>2, <2>1
<1>4. CASE Opened \/ Checked
  <2>1. UNCHANGED <<notes, keyDown, inHand>>
    BY <1>4, Zenon DEF Opened, Checked
  <2>2. UNCHANGED <<latch, spare>> \/ Unlatched
    BY <1>4, Zenon DEF Opened, Adopts, LatchesCleared, Checked, Leaves
  <2>3. QED
    BY <1>2, <2>1, <2>2
<1>5. CASE SelectNone \/ SelectListed
  <2>1. UNCHANGED <<notes, keyDown, inHand>>
    BY <1>5, Zenon DEF SelectNone, SelectListed
  <2>2. UNCHANGED <<latch, spare>> \/ Unlatched
    BY <1>5, Zenon DEF SelectNone, SelectListed, Selects, LatchesCleared
  <2>3. QED
    BY <1>2, <2>1, <2>2
<1>6. ASSUME NEW n \in MidiInputs, AskToSelect(n) \/ SaveMidi(n) \/ Plug(n) PROVE SpareInv'
  <2>1. UNCHANGED <<notes, keyDown, inHand>>
    BY <1>6, Zenon DEF AskToSelect, SaveMidi, Plug
  <2>2. UNCHANGED <<latch, spare>> \/ Unlatched
    BY <1>6, Zenon DEF AskToSelect, SaveMidi, Plug, Selects, LatchesCleared
  <2>3. QED
    BY <1>2, <2>1, <2>2
<1>7. CASE StopMidi \/ StopEnds \/ TimePasses \/ UNCHANGED midiVars
  <2>1. UNCHANGED <<notes, keyDown, inHand>>
    BY <1>7 DEF StopMidi, StopEnds, TimePasses, midiVars
  <2>2. UNCHANGED <<latch, spare>> \/ Unlatched
    BY <1>7, Zenon DEF StopMidi, StopEnds, TimePasses, midiVars, LatchesCleared
  <2>3. QED
    BY <1>2, <2>1, <2>2
<1>8. CASE Drain
  <2>1. notes' = <<>> /\ UNCHANGED <<keyDown, inHand, latch, spare>>
    BY <1>8 DEF Drain
  <2>2. PICK hc, fc \in Costs : /\ CostOK(notes, keyDown, hc, fc)
                             /\ Covers(spare, hc[1], fc[1], latch, Publishes)
    BY DEF SpareInv
  <2>3. CostOK(notes', keyDown', hc, fc)
    BY <2>1, <2>2, CostOKSteps
  <2>4. Publishes' <=> Publishes
    BY <2>1 DEF Publishes
  <2>5. QED
    BY <2>1, <2>2, <2>3, <2>4 DEF SpareInv
<1>9. ASSUME NEW what \in {"press", "release"}, Offer(what)
      PROVE  /\ [what |-> what, from |-> watcher.port] \in Queued
             /\ \/ notes' = Append(notes, [what |-> what, from |-> watcher.port])
                \/ notes' = notes
  <2>1. [what |-> what, from |-> watcher.port] \in Queued
    BY <1>0 DEF Watchers, Queued
  <2>2. QED
    BY <1>9, <2>1, Offered
<1>10. CASE Press
  <2> DEFINE n == [what |-> "press", from |-> watcher.port]
  <2>1. n \in Queued /\ n.what = "press" /\ (notes' = Append(notes, n) \/ notes' = notes)
    BY <1>9, <1>10 DEF Press
  <2>2. keyDown' /\ spare' = (IF keyDown THEN spare ELSE spare + 1)
        /\ UNCHANGED <<latch, inHand>>
    BY <1>10 DEF Press
  <2>3. Publishes' <=> Publishes
    BY <2>2 DEF Publishes
  <2> HIDE DEF n
  <2>4. QED
    BY <2>1, <2>2, <2>3, SparePress
<1>11. CASE LetGo
  <2> DEFINE n == [what |-> "release", from |-> watcher.port]
  <2>1. n \in Queued /\ n.what = "release" /\ (notes' = Append(notes, n) \/ notes' = notes)
    BY <1>9, <1>11 DEF LetGo
  <2>2. keyDown /\ ~keyDown' /\ UNCHANGED <<latch, inHand, spare>>
    BY <1>11 DEF LetGo
  <2>3. Publishes' <=> Publishes
    BY <2>2 DEF Publishes
  <2> HIDE DEF n
  <2>4. QED
    BY <2>1, <2>2, <2>3, SparePress
<1>12. CASE Simulate
  <2> DEFINE n == [what |-> "simulated", from |-> NoPort]
  <2>1. n \in Queued /\ n.what = "simulated"
    BY DEF Queued, NoPort
  <2>2. notes' = Append(notes, n) \/ notes' = notes
    BY <1>12, Zenon DEF Simulate
  <2>3. UNCHANGED <<keyDown, latch, inHand, spare>>
    BY <1>12 DEF Simulate
  <2>4. Publishes' <=> Publishes
    BY <2>3 DEF Publishes
  <2> HIDE DEF n
  <2>5. QED
    BY <2>1, <2>2, <2>3, <2>4, SparePress
<1>13. QED
  BY <1>1, <1>3, <1>4, <1>5, <1>6, <1>7, <1>8, <1>10, <1>11, <1>12 DEF MidiNext, Supervise

-----------------------------------------------------------------------------
(* Theorems about the MIDI input.                                           *)

\* The program starts with an empty queue, which costs nothing.
LEMMA MidiInvInit == MidiInit => MidiInv
<1> SUFFICES ASSUME MidiInit PROVE MidiInv
  OBVIOUS
<1>1. MidiTypeOK
  BY DEF MidiInit, MidiTypeOK, Watchers, Queued, NothingInHand, NoPort
<1>2. WatcherInv /\ NotesInv /\ HeardInv /\ LatchInv /\ NobodyWaitsInVain
  BY DEF MidiInit, WatcherInv, NotesInv, HeardInv, LatchInv, NobodyWaitsInVain, NothingInHand,
         NoPort
<1>3. SpareInv
  <2> DEFINE none == [i \in Nat |-> 0]
  <2>1. none \in Costs /\ \A i \in Nat : none[i] = 0
    BY DEF Costs
  <2> HIDE DEF none
  <2>2. CostOK(notes, keyDown, none, none)
    BY <2>1 DEF MidiInit, CostOK
  <2>3. Covers(spare, none[1], none[1], latch, Publishes)
    BY <2>1 DEF MidiInit, Covers, Publishes
  <2>4. QED
    BY <2>1, <2>2, <2>3 DEF SpareInv
<1>4. QED
  BY <1>1, <1>2, <1>3 DEF MidiInv

\* Every step keeps every part.
LEMMA MidiInvStep == MidiInv /\ [MidiNext]_midiVars => MidiInv'
<1> SUFFICES ASSUME MidiInv, [MidiNext]_midiVars PROVE MidiInv'
  OBVIOUS
<1>1. MidiTypeOK /\ WatcherInv /\ NotesInv /\ HeardInv /\ LatchInv /\ SpareInv /\ NobodyWaitsInVain
  BY DEF MidiInv
<1>2. MidiTypeOK'
  BY <1>1, TypesSupervise, TypesConsume, TypesRest
<1>3. WatcherInv' /\ NotesInv' /\ HeardInv'
  BY <1>1, WatcherStep, NotesStep, HeardStep
<1>4. LatchInv' /\ SpareInv' /\ NobodyWaitsInVain'
  BY <1>1, LatchStep, SpareStep, WaitStep
<1>5. QED
  BY <1>2, <1>3, <1>4 DEF MidiInv

\* The invariant says more than the property.
LEMMA MidiInvSuffices == MidiInv => MidiIsSound
<1> SUFFICES ASSUME MidiInv PROVE MidiIsSound
  OBVIOUS
<1>0. watcher \in Watchers /\ watcher.port \in Nat /\ MidiTypeOK
  BY DEF MidiInv, MidiTypeOK, Watchers
<1>1. ConnectedIsHeard
  BY <1>0 DEF MidiInv, HeardInv, WatcherInv, ConnectedIsHeard
<1>2. PortsAreClosed
  <2>1. ports = {} \/ ports = {watcher.port}
    BY DEF MidiInv, WatcherInv
  <2>2. Cardinality(ports) <= 1
    <3>1. CASE ports = {}
      BY <3>1, FS_EmptySet
    <3>2. CASE ports = {watcher.port}
      <4>1. Cardinality({watcher.port}) = 1
        BY FS_Singleton
      <4>2. QED
        BY <3>2, <4>1
    <3>3. QED
      BY <2>1, <3>1, <3>2
  <2>3. QED
    BY <2>2 DEF MidiInv, WatcherInv, PortsAreClosed
<1>3. LatchFollowsKey
  <2>1. notes = <<>> /\ inHand.at = "idle" => ~Ends /\ DOMAIN notes = {}
    BY DEF Ends
  <2>2. QED
    BY <2>1 DEF MidiInv, LatchInv, LatchFollowsKey
<1>4. OnePerPress
  <2>1. PICK hc, fc \in Costs : /\ CostOK(notes, keyDown, hc, fc)
                             /\ Covers(spare, hc[1], fc[1], latch, Publishes)
    BY DEF MidiInv, SpareInv
  <2>2. hc[1] \in Nat /\ fc[1] \in Nat /\ spare \in Int
    BY <1>0, <2>1, CostRange DEF MidiTypeOK
  <2>3. QED
    BY <2>1, <2>2 DEF Covers, OnePerPress
<1>5. QED
  BY <1>1, <1>2, <1>3, <1>4 DEF MidiInv, MidiIsSound

\* The inductive invariant of the MIDI input, for any inputs, any capacity of the queue and
\* any number of connections, selections and messages.
THEOREM MidiInvariant == MidiSpec => []MidiInv
BY MidiInvInit, MidiInvStep, PTL DEF MidiSpec

\* For all of them: connected means heard, at most one port is open and none after the stop, a
\* latch follows its key, a key that stays down makes one action, and no simulated cue is left
\* without an answer (plugins/midi_playback/plugin.py).
THEOREM MidiStaysSound == MidiSpec => []MidiIsSound
BY MidiInvSuffices, MidiInvariant, PTL

=============================================================================
