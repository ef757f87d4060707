------------------------ MODULE BackendParts_proofs -------------------------
(***************************************************************************)
(* Two parts of the backend beside the playback input: the plugins agree   *)
(* with their registry, for any number of switches; and what StagePilot    *)
(* wrote into the plan can be given back, for any plan and any lengths.    *)
(***************************************************************************)
EXTENDS PluginLifecycle, LengthUndo, TLAPS

-----------------------------------------------------------------------------
(* The inductive invariant of the plugins (PluginLifecycle).                *)

Health  == {"absent", "running", "error", "stopped", "stopping", "starting"}
Leaving == {"remove", "stopping", "unregister"}
Coming  == {"starting", "started"}

\* Every variable has its type.
LifecycleTypeOK ==
    /\ registered \in [Names -> Objects \cup {NoPlugin}]
    /\ health \in [Names -> Health]
    /\ kindOf \in [Objects -> Names \cup {NoPlugin}]
    /\ alive \in [Objects -> {"off", "on", "half"}]
    /\ savedSource \in Sources
    /\ switch \in [pc: {"idle", "add"} \cup Leaving \cup Coming, plugin: Objects \cup {NoPlugin}]
    /\ retry \in [pc: {"waiting", "next", "stopping", "stopped", "starting", "done"},
                  plugin: Objects \cup {NoPlugin}, left: SUBSET Objects]
    /\ retry.pc \in {"stopping", "stopped", "starting"} => retry.plugin \in Objects
    /\ probe \in [pc: {"none", "asked", "overtaken", "raised", "managed", "reported"}, name: Names]
    /\ spent \in Objects
    /\ program \in {"up", "stopping", "down"}
    /\ overlapped \in BOOLEAN /\ failedStart \in BOOLEAN

\* A registered object was made, and is registered under its own name.
RegistryInv ==
    \A n \in Names : registered[n] # NoPlugin =>
        registered[n] <= spent /\ kindOf[registered[n]] = n

\* What a switch has established when it is about to take a step.
SwitchInv ==
    /\ OneSource
    /\ LastSaveWins
    /\ switch.pc \in Leaving =>
           /\ switch.plugin \in Objects /\ kindOf[switch.plugin] \in Sources \ {savedSource}
           /\ registered[kindOf[switch.plugin]] = switch.plugin
    /\ switch.pc \in {"add"} \cup Coming => switch.plugin = spent
    /\ switch.pc # "idle" => kindOf[spent] = savedSource
    /\ switch.pc = "add" => \A n \in Sources : registered[n] = NoPlugin
    /\ switch.pc \in Coming => registered[savedSource] = spent

\* The program goes down with no switch and no retry under way.
DownInv == program # "up" => switch.pc = "idle" /\ retry.pc = "done"

\* Unless the retry and a switch had the same plugin in hand: the status of each name,
\* what its object is, and whoever has it in hand agree.
StatusInv ==
    \A n \in Names :
        /\ registered[n] = NoPlugin => health[n] = "absent"
        /\ registered[n] # NoPlugin /\ health[n] = "stopped" => alive[registered[n]] = "off"
HeldInv ==
    \A o \in Objects : InHand(o) => kindOf[o] \in Names /\ registered[kindOf[o]] = o
OneHandInv == switch.pc \in (Leaving \ {"remove"}) \cup Coming => ~InHand(switch.plugin)
CalledInv ==
    /\ retry.pc = "starting" => health[kindOf[retry.plugin]] = "starting"
    /\ switch.pc = "stopping" => health[kindOf[switch.plugin]] = "stopping"
    /\ switch.pc = "unregister" =>
           /\ health[kindOf[switch.plugin]] \in {"stopped", "error"}
           /\ alive[switch.plugin] = "off"
    /\ switch.pc = "starting" => health[kindOf[switch.plugin]] = "starting"
    /\ switch.pc = "started" => health[kindOf[switch.plugin]] \in {"running", "error"}
HandInv == HeldInv /\ OneHandInv /\ CalledInv
EscapeInv == \A o \in Objects : alive[o] # "off" => kindOf[o] \in Names /\ registered[kindOf[o]] = o

ApartInv == ~overlapped => StatusInv /\ HandInv /\ EscapeInv /\ NothingPretends /\ NothingLeft

LifecycleInv == LifecycleTypeOK /\ RegistryInv /\ SwitchInv /\ DownInv /\ ApartInv

-----------------------------------------------------------------------------
(* Lemmas about names and objects.                                          *)

\* Objects are numbers, and NoPlugin is none of them.
LEMMA ObjectsAreNumbers ==
  /\ Objects \subseteq Nat /\ NoPlugin \notin Objects
  /\ \A o \in Objects : o < MaxSwitches + 2 => o + 1 \in Objects
  /\ \A o \in Objects : 1 <= o /\ o <= MaxSwitches + 2
  /\ 1 \in Objects /\ 2 \in Objects
BY LifecycleAssumption DEF Objects

\* Two of the names are sources.
LEMMA SourcesAreNames == Sources \subseteq Names /\ "outputs" \in Names \ Sources
BY DEF Names, Sources, DemoPlugin, PlanningCenter

\* The source that is registered, if there is one.
LEMMA SourceNowIsRegistered ==
  ASSUME HasSource
  PROVE  SourceNow \in Sources /\ registered[SourceNow] # NoPlugin
BY DEF HasSource, SourceNow

-----------------------------------------------------------------------------
(* The parts of the inductive invariant, each over one step.                *)

\* Every variable keeps its type.
LEMMA TypeStep == ASSUME LifecycleInv, [LifecycleNext]_lifecycleVars
                PROVE  LifecycleTypeOK'
<1>0. LifecycleInv /\ LifecycleTypeOK
  BY DEF LifecycleInv
<1>1. ASSUME NEW target \in Sources, Switch(target)
      PROVE  LifecycleTypeOK'
  BY <1>1, <1>0, ObjectsAreNumbers, SourcesAreNames, SourceNowIsRegistered,
     LifecycleAssumption
     DEF Switch, Goes, HasSource, SourceNow, objectVars, switchVars,
         LifecycleTypeOK, Health, Leaving, Coming
<1>2. ASSUME RemovePlugin
      PROVE  LifecycleTypeOK'
  BY <1>2, <1>0, ObjectsAreNumbers, SourcesAreNames
     DEF RemovePlugin, Goes, SetHealth, objectVars, switchVars, LifecycleTypeOK,
         Health, Leaving, Coming
<1>3. ASSUME RemoveStopped
      PROVE  LifecycleTypeOK'
  BY <1>3, <1>0, ObjectsAreNumbers, SourcesAreNames
     DEF RemoveStopped, Stopped, SetHealth, Becomes, Goes, objectVars, switchVars,
         LifecycleTypeOK, Health, Leaving, Coming
<1>4. ASSUME Unregister
      PROVE  LifecycleTypeOK'
  BY <1>4, <1>0, ObjectsAreNumbers, SourcesAreNames
     DEF Unregister, Deleted, Goes, objectVars, switchVars, LifecycleTypeOK, Health,
         Leaving, Coming
<1>5. ASSUME Add
      PROVE  LifecycleTypeOK'
  BY <1>5, <1>0, ObjectsAreNumbers, SourcesAreNames
     DEF Add, SetHealth, Goes, objectVars, switchVars, LifecycleTypeOK, Health,
         Leaving, Coming
<1>6. ASSUME AddStarted
      PROVE  LifecycleTypeOK'
  BY <1>6, <1>0, ObjectsAreNumbers, SourcesAreNames
     DEF AddStarted, Started, SetHealth, Becomes, Goes, objectVars, switchVars,
         LifecycleTypeOK, Health, Leaving, Coming
<1>7. ASSUME AddEnds
      PROVE  LifecycleTypeOK'
  BY <1>7, <1>0, ObjectsAreNumbers, SourcesAreNames
     DEF AddEnds, Unstarted, Deleted, Becomes, objectVars, switchVars,
         LifecycleTypeOK, Health, Leaving, Coming
<1>8. ASSUME RetryBegins
      PROVE  LifecycleTypeOK'
  BY <1>8, <1>0, ObjectsAreNumbers, SourcesAreNames
     DEF RetryBegins, objectVars, switchVars, LifecycleTypeOK, Health, Leaving,
         Coming
<1>9. ASSUME RetryNext
      PROVE  LifecycleTypeOK'
  BY <1>9, <1>0, ObjectsAreNumbers, SourcesAreNames
     DEF RetryNext, RetryTakes, RetryEnds, SetHealth, objectVars, switchVars,
         LifecycleTypeOK, Health, Leaving, Coming
<1>10. ASSUME RetryStopped
      PROVE  LifecycleTypeOK'
  BY <1>10, <1>0, ObjectsAreNumbers, SourcesAreNames
     DEF RetryStopped, Stopped, SetHealth, Becomes, RetryGoes, objectVars,
         switchVars, LifecycleTypeOK, Health, Leaving, Coming
<1>11. ASSUME RetryStarts
      PROVE  LifecycleTypeOK'
  BY <1>11, <1>0, ObjectsAreNumbers, SourcesAreNames
     DEF RetryStarts, RetryEnds, RetryGoes, SetHealth, objectVars, switchVars,
         LifecycleTypeOK, Health, Leaving, Coming
<1>12. ASSUME RetryStarted
      PROVE  LifecycleTypeOK'
  BY <1>12, <1>0, ObjectsAreNumbers, SourcesAreNames
     DEF RetryStarted, Started, SetHealth, Becomes, objectVars, switchVars,
         LifecycleTypeOK, Health, Leaving, Coming
<1>13. ASSUME NEW n \in Names, ProbeAsks(n)
      PROVE  LifecycleTypeOK'
  BY <1>13, <1>0, ObjectsAreNumbers, SourcesAreNames
     DEF ProbeAsks, objectVars, switchVars, LifecycleTypeOK, Health, Leaving, Coming
<1>14. ASSUME ProbeAnswered
      PROVE  LifecycleTypeOK'
  BY <1>14, <1>0, ObjectsAreNumbers, SourcesAreNames
     DEF ProbeAnswered, objectVars, switchVars, LifecycleTypeOK, Health, Leaving,
         Coming
<1>15. ASSUME ProbeForgotten
      PROVE  LifecycleTypeOK'
  BY <1>15, <1>0, ObjectsAreNumbers, SourcesAreNames
     DEF ProbeForgotten, objectVars, switchVars, LifecycleTypeOK, Health, Leaving,
         Coming
<1>16. ASSUME Shutdown
      PROVE  LifecycleTypeOK'
  BY <1>16, <1>0, ObjectsAreNumbers, SourcesAreNames
     DEF Shutdown, RetryEnds, Becomes, objectVars, switchVars, LifecycleTypeOK,
         Health, Leaving, Coming
<1>17. ASSUME StopAll
      PROVE  LifecycleTypeOK'
  BY <1>17, <1>0, ObjectsAreNumbers, SourcesAreNames
     DEF StopAll, objectVars, switchVars, LifecycleTypeOK, Health, Leaving, Coming
<1>18. CASE UNCHANGED lifecycleVars
  BY <1>18, <1>0, ObjectsAreNumbers, SourcesAreNames
     DEF lifecycleVars, objectVars, switchVars, LifecycleTypeOK, Health, Leaving,
         Coming
<1>19. QED
  BY <1>1, <1>2, <1>3, <1>4, <1>5, <1>6, <1>7, <1>8, <1>9, <1>10, <1>11, <1>12, <1>13,
     <1>14, <1>15, <1>16, <1>17, <1>18
     DEF LifecycleNext

\* What is registered stays under its own name.
LEMMA RegistryStep == ASSUME LifecycleInv, [LifecycleNext]_lifecycleVars
                    PROVE  RegistryInv'
<1>0. LifecycleInv /\ LifecycleTypeOK
  BY DEF LifecycleInv
<1>1. ASSUME NEW target \in Sources, Switch(target)
      PROVE  RegistryInv'
  <2>1. /\ registered' = registered /\ spent' = spent + 1
        /\ kindOf' = [kindOf EXCEPT ![spent + 1] = target]
    BY <1>1 DEF Switch, objectVars
  <2>2. ASSUME NEW n \in Names, registered[n] # NoPlugin
        PROVE  registered[n] <= spent + 1 /\ kindOf'[registered[n]] = n
    <3>1. /\ registered[n] \in Objects /\ registered[n] \in Nat /\ spent \in Nat
          /\ registered[n] <= spent /\ kindOf[registered[n]] = n
      BY <1>0, <2>2, ObjectsAreNumbers DEF LifecycleInv, LifecycleTypeOK, RegistryInv
    <3>2. registered[n] <= spent + 1 /\ registered[n] # spent + 1
      BY <3>1
    <3>3. QED
      BY <1>0, <2>1, <3>1, <3>2 DEF LifecycleTypeOK
  <2>3. QED
    BY <2>1, <2>2 DEF RegistryInv
<1>2. ASSUME RemovePlugin
      PROVE  RegistryInv'
  BY <1>2, <1>0, ObjectsAreNumbers, SourcesAreNames
     DEF RemovePlugin, Goes, SetHealth, objectVars, switchVars, LifecycleInv,
         LifecycleTypeOK, RegistryInv, SwitchInv, Leaving, Coming
<1>3. ASSUME RemoveStopped
      PROVE  RegistryInv'
  BY <1>3, <1>0, ObjectsAreNumbers, SourcesAreNames
     DEF RemoveStopped, Stopped, SetHealth, Becomes, Goes, objectVars, switchVars,
         LifecycleInv, LifecycleTypeOK, RegistryInv, SwitchInv, Leaving, Coming
<1>4. ASSUME Unregister
      PROVE  RegistryInv'
  BY <1>4, <1>0, ObjectsAreNumbers, SourcesAreNames
     DEF Unregister, Deleted, Goes, objectVars, switchVars, LifecycleInv,
         LifecycleTypeOK, RegistryInv, SwitchInv, Leaving, Coming
<1>5. ASSUME Add
      PROVE  RegistryInv'
  BY <1>5, <1>0, ObjectsAreNumbers, SourcesAreNames
     DEF Add, SetHealth, Goes, objectVars, switchVars, LifecycleInv,
         LifecycleTypeOK, RegistryInv, SwitchInv, Leaving, Coming
<1>6. ASSUME AddStarted
      PROVE  RegistryInv'
  BY <1>6, <1>0, ObjectsAreNumbers, SourcesAreNames
     DEF AddStarted, Started, SetHealth, Becomes, Goes, objectVars, switchVars,
         LifecycleInv, LifecycleTypeOK, RegistryInv, SwitchInv, Leaving, Coming
<1>7. ASSUME AddEnds
      PROVE  RegistryInv'
  BY <1>7, <1>0, ObjectsAreNumbers, SourcesAreNames
     DEF AddEnds, Unstarted, Deleted, Becomes, objectVars, switchVars, LifecycleInv,
         LifecycleTypeOK, RegistryInv, SwitchInv, Leaving, Coming
<1>8. ASSUME RetryBegins
      PROVE  RegistryInv'
  BY <1>8, <1>0, ObjectsAreNumbers, SourcesAreNames
     DEF RetryBegins, objectVars, switchVars, LifecycleInv, LifecycleTypeOK,
         RegistryInv, SwitchInv, Leaving, Coming
<1>9. ASSUME RetryNext
      PROVE  RegistryInv'
  BY <1>9, <1>0, ObjectsAreNumbers, SourcesAreNames
     DEF RetryNext, RetryTakes, RetryEnds, SetHealth, objectVars, switchVars,
         LifecycleInv, LifecycleTypeOK, RegistryInv, SwitchInv, Leaving, Coming
<1>10. ASSUME RetryStopped
      PROVE  RegistryInv'
  BY <1>10, <1>0, ObjectsAreNumbers, SourcesAreNames
     DEF RetryStopped, Stopped, SetHealth, Becomes, RetryGoes, objectVars,
         switchVars, LifecycleInv, LifecycleTypeOK, RegistryInv, SwitchInv, Leaving,
         Coming
<1>11. ASSUME RetryStarts
      PROVE  RegistryInv'
  BY <1>11, <1>0, ObjectsAreNumbers, SourcesAreNames
     DEF RetryStarts, RetryEnds, RetryGoes, SetHealth, objectVars, switchVars,
         LifecycleInv, LifecycleTypeOK, RegistryInv, SwitchInv, Leaving, Coming
<1>12. ASSUME RetryStarted
      PROVE  RegistryInv'
  BY <1>12, <1>0, ObjectsAreNumbers, SourcesAreNames
     DEF RetryStarted, Started, SetHealth, Becomes, objectVars, switchVars,
         LifecycleInv, LifecycleTypeOK, RegistryInv, SwitchInv, Leaving, Coming
<1>13. ASSUME NEW n \in Names, ProbeAsks(n)
      PROVE  RegistryInv'
  BY <1>13, <1>0, ObjectsAreNumbers, SourcesAreNames
     DEF ProbeAsks, objectVars, switchVars, LifecycleInv, LifecycleTypeOK,
         RegistryInv, SwitchInv, Leaving, Coming
<1>14. ASSUME ProbeAnswered
      PROVE  RegistryInv'
  BY <1>14, <1>0, ObjectsAreNumbers, SourcesAreNames
     DEF ProbeAnswered, objectVars, switchVars, LifecycleInv, LifecycleTypeOK,
         RegistryInv, SwitchInv, Leaving, Coming
<1>15. ASSUME ProbeForgotten
      PROVE  RegistryInv'
  BY <1>15, <1>0, ObjectsAreNumbers, SourcesAreNames
     DEF ProbeForgotten, objectVars, switchVars, LifecycleInv, LifecycleTypeOK,
         RegistryInv, SwitchInv, Leaving, Coming
<1>16. ASSUME Shutdown
      PROVE  RegistryInv'
  BY <1>16, <1>0, ObjectsAreNumbers, SourcesAreNames
     DEF Shutdown, RetryEnds, Becomes, objectVars, switchVars, LifecycleInv,
         LifecycleTypeOK, RegistryInv, SwitchInv, Leaving, Coming
<1>17. ASSUME StopAll
      PROVE  RegistryInv'
  BY <1>17, <1>0, ObjectsAreNumbers, SourcesAreNames
     DEF StopAll, objectVars, switchVars, LifecycleInv, LifecycleTypeOK,
         RegistryInv, SwitchInv, Leaving, Coming
<1>18. CASE UNCHANGED lifecycleVars
  BY <1>18, <1>0, ObjectsAreNumbers, SourcesAreNames
     DEF lifecycleVars, objectVars, switchVars, LifecycleInv, LifecycleTypeOK,
         RegistryInv, SwitchInv, Leaving, Coming
<1>19. QED
  BY <1>1, <1>2, <1>3, <1>4, <1>5, <1>6, <1>7, <1>8, <1>9, <1>10, <1>11, <1>12, <1>13,
     <1>14, <1>15, <1>16, <1>17, <1>18
     DEF LifecycleNext

\* A switch keeps what it has established.
LEMMA SwitchStep == ASSUME LifecycleInv, [LifecycleNext]_lifecycleVars
                  PROVE  SwitchInv'
<1>0. LifecycleInv /\ LifecycleTypeOK
  BY DEF LifecycleInv
<1>1. ASSUME NEW target \in Sources, Switch(target)
      PROVE  SwitchInv'
  BY <1>1, <1>0, ObjectsAreNumbers, SourcesAreNames, SourceNowIsRegistered
     DEF Switch, Goes, HasSource, SourceNow, objectVars, switchVars, LifecycleInv,
         LifecycleTypeOK, RegistryInv, SwitchInv, Leaving, Coming, OneSource,
         LastSaveWins
<1>2. ASSUME RemovePlugin
      PROVE  SwitchInv'
  BY <1>2, <1>0, ObjectsAreNumbers, SourcesAreNames
     DEF RemovePlugin, Goes, SetHealth, objectVars, switchVars, LifecycleInv,
         LifecycleTypeOK, RegistryInv, SwitchInv, Leaving, Coming, OneSource,
         LastSaveWins
<1>3. ASSUME RemoveStopped
      PROVE  SwitchInv'
  BY <1>3, <1>0, ObjectsAreNumbers, SourcesAreNames
     DEF RemoveStopped, Stopped, SetHealth, Becomes, Goes, objectVars, switchVars,
         LifecycleInv, LifecycleTypeOK, RegistryInv, SwitchInv, Leaving, Coming,
         OneSource, LastSaveWins
<1>4. ASSUME Unregister
      PROVE  SwitchInv'
  BY <1>4, <1>0, ObjectsAreNumbers, SourcesAreNames
     DEF Unregister, Deleted, Goes, objectVars, switchVars, LifecycleInv,
         LifecycleTypeOK, RegistryInv, SwitchInv, Leaving, Coming, OneSource,
         LastSaveWins
<1>5. ASSUME Add
      PROVE  SwitchInv'
  BY <1>5, <1>0, ObjectsAreNumbers, SourcesAreNames
     DEF Add, SetHealth, Goes, objectVars, switchVars, LifecycleInv,
         LifecycleTypeOK, RegistryInv, SwitchInv, Leaving, Coming, OneSource,
         LastSaveWins
<1>6. ASSUME AddStarted
      PROVE  SwitchInv'
  BY <1>6, <1>0, ObjectsAreNumbers, SourcesAreNames
     DEF AddStarted, Started, SetHealth, Becomes, Goes, objectVars, switchVars,
         LifecycleInv, LifecycleTypeOK, RegistryInv, SwitchInv, Leaving, Coming,
         OneSource, LastSaveWins
<1>7. ASSUME AddEnds
      PROVE  SwitchInv'
  BY <1>7, <1>0, ObjectsAreNumbers, SourcesAreNames
     DEF AddEnds, Unstarted, Deleted, Becomes, objectVars, switchVars, LifecycleInv,
         LifecycleTypeOK, RegistryInv, SwitchInv, Leaving, Coming, OneSource,
         LastSaveWins
<1>8. ASSUME RetryBegins
      PROVE  SwitchInv'
  BY <1>8, <1>0, ObjectsAreNumbers, SourcesAreNames
     DEF RetryBegins, objectVars, switchVars, LifecycleInv, LifecycleTypeOK,
         RegistryInv, SwitchInv, Leaving, Coming, OneSource, LastSaveWins
<1>9. ASSUME RetryNext
      PROVE  SwitchInv'
  BY <1>9, <1>0, ObjectsAreNumbers, SourcesAreNames
     DEF RetryNext, RetryTakes, RetryEnds, SetHealth, objectVars, switchVars,
         LifecycleInv, LifecycleTypeOK, RegistryInv, SwitchInv, Leaving, Coming,
         OneSource, LastSaveWins
<1>10. ASSUME RetryStopped
      PROVE  SwitchInv'
  BY <1>10, <1>0, ObjectsAreNumbers, SourcesAreNames
     DEF RetryStopped, Stopped, SetHealth, Becomes, RetryGoes, objectVars,
         switchVars, LifecycleInv, LifecycleTypeOK, RegistryInv, SwitchInv, Leaving,
         Coming, OneSource, LastSaveWins
<1>11. ASSUME RetryStarts
      PROVE  SwitchInv'
  BY <1>11, <1>0, ObjectsAreNumbers, SourcesAreNames
     DEF RetryStarts, RetryEnds, RetryGoes, SetHealth, objectVars, switchVars,
         LifecycleInv, LifecycleTypeOK, RegistryInv, SwitchInv, Leaving, Coming,
         OneSource, LastSaveWins
<1>12. ASSUME RetryStarted
      PROVE  SwitchInv'
  BY <1>12, <1>0, ObjectsAreNumbers, SourcesAreNames
     DEF RetryStarted, Started, SetHealth, Becomes, objectVars, switchVars,
         LifecycleInv, LifecycleTypeOK, RegistryInv, SwitchInv, Leaving, Coming,
         OneSource, LastSaveWins
<1>13. ASSUME NEW n \in Names, ProbeAsks(n)
      PROVE  SwitchInv'
  BY <1>13, <1>0, ObjectsAreNumbers, SourcesAreNames
     DEF ProbeAsks, objectVars, switchVars, LifecycleInv, LifecycleTypeOK,
         RegistryInv, SwitchInv, Leaving, Coming, OneSource, LastSaveWins
<1>14. ASSUME ProbeAnswered
      PROVE  SwitchInv'
  BY <1>14, <1>0, ObjectsAreNumbers, SourcesAreNames
     DEF ProbeAnswered, objectVars, switchVars, LifecycleInv, LifecycleTypeOK,
         RegistryInv, SwitchInv, Leaving, Coming, OneSource, LastSaveWins
<1>15. ASSUME ProbeForgotten
      PROVE  SwitchInv'
  BY <1>15, <1>0, ObjectsAreNumbers, SourcesAreNames
     DEF ProbeForgotten, objectVars, switchVars, LifecycleInv, LifecycleTypeOK,
         RegistryInv, SwitchInv, Leaving, Coming, OneSource, LastSaveWins
<1>16. ASSUME Shutdown
      PROVE  SwitchInv'
  BY <1>16, <1>0, ObjectsAreNumbers, SourcesAreNames
     DEF Shutdown, RetryEnds, Becomes, objectVars, switchVars, LifecycleInv,
         LifecycleTypeOK, RegistryInv, SwitchInv, Leaving, Coming, OneSource,
         LastSaveWins
<1>17. ASSUME StopAll
      PROVE  SwitchInv'
  BY <1>17, <1>0, ObjectsAreNumbers, SourcesAreNames
     DEF StopAll, objectVars, switchVars, LifecycleInv, LifecycleTypeOK,
         RegistryInv, SwitchInv, Leaving, Coming, OneSource, LastSaveWins
<1>18. CASE UNCHANGED lifecycleVars
  BY <1>18, <1>0, ObjectsAreNumbers, SourcesAreNames
     DEF lifecycleVars, objectVars, switchVars, LifecycleInv, LifecycleTypeOK,
         RegistryInv, SwitchInv, Leaving, Coming, OneSource, LastSaveWins
<1>19. QED
  BY <1>1, <1>2, <1>3, <1>4, <1>5, <1>6, <1>7, <1>8, <1>9, <1>10, <1>11, <1>12, <1>13,
     <1>14, <1>15, <1>16, <1>17, <1>18
     DEF LifecycleNext

\* Nothing is under way any more once the program goes down.
LEMMA DownStep == ASSUME LifecycleInv, [LifecycleNext]_lifecycleVars
                PROVE  DownInv'
<1>0. LifecycleInv /\ LifecycleTypeOK
  BY DEF LifecycleInv
<1>1. ASSUME NEW target \in Sources, Switch(target)
      PROVE  DownInv'
  BY <1>1, <1>0, ObjectsAreNumbers
     DEF Switch, Goes, HasSource, SourceNow, objectVars, switchVars, LifecycleInv,
         LifecycleTypeOK, DownInv
<1>2. ASSUME RemovePlugin
      PROVE  DownInv'
  BY <1>2, <1>0, ObjectsAreNumbers
     DEF RemovePlugin, Goes, SetHealth, objectVars, switchVars, LifecycleInv,
         LifecycleTypeOK, DownInv
<1>3. ASSUME RemoveStopped
      PROVE  DownInv'
  BY <1>3, <1>0, ObjectsAreNumbers
     DEF RemoveStopped, Stopped, SetHealth, Becomes, Goes, objectVars, switchVars,
         LifecycleInv, LifecycleTypeOK, DownInv
<1>4. ASSUME Unregister
      PROVE  DownInv'
  BY <1>4, <1>0, ObjectsAreNumbers
     DEF Unregister, Deleted, Goes, objectVars, switchVars, LifecycleInv,
         LifecycleTypeOK, DownInv
<1>5. ASSUME Add
      PROVE  DownInv'
  BY <1>5, <1>0, ObjectsAreNumbers
     DEF Add, SetHealth, Goes, objectVars, switchVars, LifecycleInv,
         LifecycleTypeOK, DownInv
<1>6. ASSUME AddStarted
      PROVE  DownInv'
  BY <1>6, <1>0, ObjectsAreNumbers
     DEF AddStarted, Started, SetHealth, Becomes, Goes, objectVars, switchVars,
         LifecycleInv, LifecycleTypeOK, DownInv
<1>7. ASSUME AddEnds
      PROVE  DownInv'
  BY <1>7, <1>0, ObjectsAreNumbers
     DEF AddEnds, Unstarted, Deleted, Becomes, objectVars, switchVars, LifecycleInv,
         LifecycleTypeOK, DownInv
<1>8. ASSUME RetryBegins
      PROVE  DownInv'
  BY <1>8, <1>0, ObjectsAreNumbers
     DEF RetryBegins, objectVars, switchVars, LifecycleInv, LifecycleTypeOK, DownInv
<1>9. ASSUME RetryNext
      PROVE  DownInv'
  BY <1>9, <1>0, ObjectsAreNumbers
     DEF RetryNext, RetryTakes, RetryEnds, SetHealth, objectVars, switchVars,
         LifecycleInv, LifecycleTypeOK, DownInv
<1>10. ASSUME RetryStopped
      PROVE  DownInv'
  BY <1>10, <1>0, ObjectsAreNumbers
     DEF RetryStopped, Stopped, SetHealth, Becomes, RetryGoes, objectVars,
         switchVars, LifecycleInv, LifecycleTypeOK, DownInv
<1>11. ASSUME RetryStarts
      PROVE  DownInv'
  BY <1>11, <1>0, ObjectsAreNumbers
     DEF RetryStarts, RetryEnds, RetryGoes, SetHealth, objectVars, switchVars,
         LifecycleInv, LifecycleTypeOK, DownInv
<1>12. ASSUME RetryStarted
      PROVE  DownInv'
  BY <1>12, <1>0, ObjectsAreNumbers
     DEF RetryStarted, Started, SetHealth, Becomes, objectVars, switchVars,
         LifecycleInv, LifecycleTypeOK, DownInv
<1>13. ASSUME NEW n \in Names, ProbeAsks(n)
      PROVE  DownInv'
  BY <1>13, <1>0, ObjectsAreNumbers
     DEF ProbeAsks, objectVars, switchVars, LifecycleInv, LifecycleTypeOK, DownInv
<1>14. ASSUME ProbeAnswered
      PROVE  DownInv'
  BY <1>14, <1>0, ObjectsAreNumbers
     DEF ProbeAnswered, objectVars, switchVars, LifecycleInv, LifecycleTypeOK,
         DownInv
<1>15. ASSUME ProbeForgotten
      PROVE  DownInv'
  BY <1>15, <1>0, ObjectsAreNumbers
     DEF ProbeForgotten, objectVars, switchVars, LifecycleInv, LifecycleTypeOK,
         DownInv
<1>16. ASSUME Shutdown
      PROVE  DownInv'
  BY <1>16, <1>0, ObjectsAreNumbers
     DEF Shutdown, RetryEnds, Becomes, objectVars, switchVars, LifecycleInv,
         LifecycleTypeOK, DownInv
<1>17. ASSUME StopAll
      PROVE  DownInv'
  BY <1>17, <1>0, ObjectsAreNumbers
     DEF StopAll, objectVars, switchVars, LifecycleInv, LifecycleTypeOK, DownInv
<1>18. CASE UNCHANGED lifecycleVars
  BY <1>18, <1>0, ObjectsAreNumbers
     DEF lifecycleVars, objectVars, switchVars, LifecycleInv, LifecycleTypeOK,
         DownInv
<1>19. QED
  BY <1>1, <1>2, <1>3, <1>4, <1>5, <1>6, <1>7, <1>8, <1>9, <1>10, <1>11, <1>12, <1>13,
     <1>14, <1>15, <1>16, <1>17, <1>18
     DEF LifecycleNext

-----------------------------------------------------------------------------
(* What holds while no plugin is in two hands.                              *)

\* Whoever has a registered object in hand and starts or stops it tells the truth of it.
LEMMA CalledInHand ==
  ASSUME LifecycleTypeOK, RegistryInv, StatusInv, EscapeInv, NothingPretends,
         NEW o \in Objects, kindOf[o] \in Names, registered[kindOf[o]] = o,
         Started(o) \/ Stopped(o), UNCHANGED <<registered, kindOf>>
  PROVE  StatusInv' /\ EscapeInv' /\ NothingPretends'
<1>1. PICK h \in {"running", "error", "stopped"}, a \in {"on", "half", "off"} :
          /\ health' = [health EXCEPT ![kindOf[o]] = h] /\ alive' = [alive EXCEPT ![o] = a]
          /\ h = "running" => a = "on"
          /\ h = "stopped" => a = "off"
  BY DEF Started, Stopped, SetHealth, Becomes
<1>2. /\ health'[kindOf[o]] = h /\ alive'[o] = a /\ o # NoPlugin
      /\ \A n \in Names \ {kindOf[o]} : health'[n] = health[n] /\ registered[n] # o
      /\ \A p \in Objects \ {o} : alive'[p] = alive[p]
  BY <1>1, ObjectsAreNumbers DEF LifecycleTypeOK, RegistryInv
<1>3. StatusInv'
  BY <1>1, <1>2 DEF StatusInv, LifecycleTypeOK
<1>4. EscapeInv'
  BY <1>1, <1>2 DEF EscapeInv, LifecycleTypeOK
<1>5. NothingPretends'
  BY <1>1, <1>2 DEF NothingPretends, LifecycleTypeOK
<1>6. QED
  BY <1>3, <1>4, <1>5

\* Forgetting an object that is off, and its status.
LEMMA DeletedOff ==
  ASSUME LifecycleTypeOK, RegistryInv, StatusInv, EscapeInv, NothingPretends,
         NEW o \in Objects, kindOf[o] \in Names, registered[kindOf[o]] = o,
         Deleted(kindOf[o]), kindOf' = kindOf, alive' = [alive EXCEPT ![o] = "off"]
  PROVE  StatusInv' /\ EscapeInv' /\ NothingPretends'
<1>1. /\ registered'[kindOf[o]] = NoPlugin /\ health'[kindOf[o]] = "absent" /\ alive'[o] = "off"
      /\ \A n \in Names \ {kindOf[o]} : /\ health'[n] = health[n]
                                        /\ registered'[n] = registered[n] /\ registered[n] # o
      /\ \A p \in Objects \ {o} : alive'[p] = alive[p]
  BY ObjectsAreNumbers DEF Deleted, LifecycleTypeOK, RegistryInv
<1>2. StatusInv'
  BY <1>1 DEF StatusInv, LifecycleTypeOK
<1>3. EscapeInv'
  BY <1>1 DEF EscapeInv, LifecycleTypeOK
<1>4. NothingPretends'
  BY <1>1 DEF NothingPretends, LifecycleTypeOK
<1>5. QED
  BY <1>2, <1>3, <1>4

\* A status stays true of its name.
LEMMA StatusStep == ASSUME LifecycleInv, [LifecycleNext]_lifecycleVars
                  PROVE  ~overlapped' => StatusInv'
<1>0. LifecycleInv /\ LifecycleTypeOK
  BY DEF LifecycleInv
<1>1. ASSUME NEW target \in Sources, Switch(target)
      PROVE  ~overlapped' => StatusInv'
  BY <1>1, <1>0, ObjectsAreNumbers, SourcesAreNames
     DEF Switch, Goes, HasSource, SourceNow, objectVars, switchVars, LifecycleInv,
         LifecycleTypeOK, RegistryInv, SwitchInv, ApartInv, Leaving, Coming,
         StatusInv, HandInv, CalledInv, EscapeInv
<1>2. ASSUME RemovePlugin
      PROVE  ~overlapped' => StatusInv'
  BY <1>2, <1>0, ObjectsAreNumbers, SourcesAreNames
     DEF RemovePlugin, Goes, SetHealth, objectVars, switchVars, LifecycleInv,
         LifecycleTypeOK, RegistryInv, SwitchInv, ApartInv, Leaving, Coming,
         StatusInv, HandInv, CalledInv, EscapeInv
<1>3. ASSUME RemoveStopped
      PROVE  ~overlapped' => StatusInv'
  BY <1>3, <1>0, ObjectsAreNumbers, SourcesAreNames
     DEF RemoveStopped, Stopped, SetHealth, Becomes, Goes, objectVars, switchVars,
         LifecycleInv, LifecycleTypeOK, RegistryInv, SwitchInv, ApartInv, Leaving,
         Coming, StatusInv, HandInv, CalledInv, EscapeInv
<1>4. ASSUME Unregister
      PROVE  ~overlapped' => StatusInv'
  BY <1>4, <1>0, ObjectsAreNumbers, SourcesAreNames
     DEF Unregister, Deleted, Goes, objectVars, switchVars, LifecycleInv,
         LifecycleTypeOK, RegistryInv, SwitchInv, ApartInv, Leaving, Coming,
         StatusInv, HandInv, CalledInv, EscapeInv
<1>5. ASSUME Add
      PROVE  ~overlapped' => StatusInv'
  BY <1>5, <1>0, ObjectsAreNumbers, SourcesAreNames
     DEF Add, SetHealth, Goes, objectVars, switchVars, LifecycleInv,
         LifecycleTypeOK, RegistryInv, SwitchInv, ApartInv, Leaving, Coming,
         StatusInv, HandInv, CalledInv, EscapeInv
<1>6. ASSUME AddStarted
      PROVE  ~overlapped' => StatusInv'
  <2>1. SUFFICES ASSUME ~overlapped PROVE StatusInv'
    BY <1>6 DEF AddStarted
  <2>2. /\ switch.plugin \in Objects /\ kindOf[switch.plugin] \in Names /\ registered[kindOf[switch.plugin]] = switch.plugin
        /\ RegistryInv /\ StatusInv /\ EscapeInv /\ NothingPretends
    BY <1>6, <1>0, <2>1, SourcesAreNames DEF AddStarted, LifecycleInv, LifecycleTypeOK, SwitchInv, ApartInv, HandInv, Coming
  <2>3. QED
    BY <1>6, <1>0, <2>2, CalledInHand DEF AddStarted, switchVars
<1>7. ASSUME AddEnds
      PROVE  ~overlapped' => StatusInv'
  <2>1. CASE ~failedStart'
    BY <1>7, <1>0, <2>1 DEF AddEnds, objectVars, LifecycleInv, ApartInv, StatusInv, EscapeInv, NothingPretends
  <2>2. CASE failedStart' /\ ~overlapped'
    <3>1. /\ switch.plugin \in Objects /\ kindOf[switch.plugin] \in Names
          /\ registered[kindOf[switch.plugin]] = switch.plugin
          /\ RegistryInv /\ StatusInv /\ EscapeInv /\ NothingPretends
      BY <1>7, <1>0, <2>2, SourcesAreNames
         DEF AddEnds, LifecycleInv, LifecycleTypeOK, SwitchInv, ApartInv, Coming
    <3>2. /\ Deleted(kindOf[switch.plugin]) /\ kindOf' = kindOf
          /\ alive' = [alive EXCEPT ![switch.plugin] = "off"]
      BY <1>7, <2>2 DEF AddEnds, Becomes
    <3>3. QED
      BY <1>0, <3>1, <3>2, DeletedOff
  <2>3. QED
    BY <2>1, <2>2
<1>8. ASSUME RetryBegins
      PROVE  ~overlapped' => StatusInv'
  BY <1>8, <1>0, ObjectsAreNumbers, SourcesAreNames
     DEF RetryBegins, objectVars, switchVars, LifecycleInv, LifecycleTypeOK,
         RegistryInv, SwitchInv, ApartInv, Leaving, Coming, StatusInv, HandInv,
         CalledInv, EscapeInv
<1>9. ASSUME RetryNext
      PROVE  ~overlapped' => StatusInv'
  BY <1>9, <1>0, ObjectsAreNumbers, SourcesAreNames
     DEF RetryNext, RetryTakes, RetryEnds, SetHealth, objectVars, switchVars,
         LifecycleInv, LifecycleTypeOK, RegistryInv, SwitchInv, ApartInv, Leaving,
         Coming, StatusInv, HandInv, CalledInv, EscapeInv
<1>10. ASSUME RetryStopped
      PROVE  ~overlapped' => StatusInv'
  <2>1. SUFFICES ASSUME ~overlapped PROVE StatusInv'
    BY <1>10 DEF RetryStopped
  <2>2. /\ retry.plugin \in Objects /\ kindOf[retry.plugin] \in Names /\ registered[kindOf[retry.plugin]] = retry.plugin
        /\ RegistryInv /\ StatusInv /\ EscapeInv /\ NothingPretends
    BY <1>10, <1>0, <2>1, SourcesAreNames DEF RetryStopped, LifecycleInv, LifecycleTypeOK, SwitchInv, ApartInv, HandInv, HeldInv, InHand
  <2>3. QED
    BY <1>10, <1>0, <2>2, CalledInHand DEF RetryStopped, switchVars
<1>11. ASSUME RetryStarts
      PROVE  ~overlapped' => StatusInv'
  BY <1>11, <1>0, ObjectsAreNumbers, SourcesAreNames
     DEF RetryStarts, RetryEnds, RetryGoes, SetHealth, objectVars, switchVars,
         LifecycleInv, LifecycleTypeOK, RegistryInv, SwitchInv, ApartInv, Leaving,
         Coming, StatusInv, HandInv, CalledInv, EscapeInv
<1>12. ASSUME RetryStarted
      PROVE  ~overlapped' => StatusInv'
  <2>1. SUFFICES ASSUME ~overlapped PROVE StatusInv'
    BY <1>12 DEF RetryStarted
  <2>2. /\ retry.plugin \in Objects /\ kindOf[retry.plugin] \in Names /\ registered[kindOf[retry.plugin]] = retry.plugin
        /\ RegistryInv /\ StatusInv /\ EscapeInv /\ NothingPretends
    BY <1>12, <1>0, <2>1, SourcesAreNames DEF RetryStarted, LifecycleInv, LifecycleTypeOK, SwitchInv, ApartInv, HandInv, HeldInv, InHand
  <2>3. QED
    BY <1>12, <1>0, <2>2, CalledInHand DEF RetryStarted, switchVars
<1>13. ASSUME NEW n \in Names, ProbeAsks(n)
      PROVE  ~overlapped' => StatusInv'
  BY <1>13, <1>0, ObjectsAreNumbers, SourcesAreNames
     DEF ProbeAsks, objectVars, switchVars, LifecycleInv, LifecycleTypeOK,
         RegistryInv, SwitchInv, ApartInv, Leaving, Coming, StatusInv, HandInv,
         CalledInv, EscapeInv
<1>14. ASSUME ProbeAnswered
      PROVE  ~overlapped' => StatusInv'
  BY <1>14, <1>0, ObjectsAreNumbers, SourcesAreNames
     DEF ProbeAnswered, objectVars, switchVars, LifecycleInv, LifecycleTypeOK,
         RegistryInv, SwitchInv, ApartInv, Leaving, Coming, StatusInv, HandInv,
         CalledInv, EscapeInv
<1>15. ASSUME ProbeForgotten
      PROVE  ~overlapped' => StatusInv'
  BY <1>15, <1>0, ObjectsAreNumbers, SourcesAreNames
     DEF ProbeForgotten, objectVars, switchVars, LifecycleInv, LifecycleTypeOK,
         RegistryInv, SwitchInv, ApartInv, Leaving, Coming, StatusInv, HandInv,
         CalledInv, EscapeInv
<1>16. ASSUME Shutdown
      PROVE  ~overlapped' => StatusInv'
  <2>1. CASE retry.pc = "starting" /\ ~overlapped
    <3>1. /\ retry.plugin \in Objects /\ kindOf[retry.plugin] \in Names
          /\ registered[kindOf[retry.plugin]] = retry.plugin
          /\ health[kindOf[retry.plugin]] = "starting"
      BY <1>0, <2>1 DEF LifecycleInv, LifecycleTypeOK, ApartInv, HandInv, HeldInv, CalledInv, InHand
    <3>2. /\ alive' = [alive EXCEPT ![retry.plugin] = "half"]
          /\ UNCHANGED <<registered, health, kindOf>>
      BY <1>16, <2>1 DEF Shutdown, Becomes, switchVars
    <3>3. /\ alive'[retry.plugin] = "half"
          /\ \A o \in Objects \ {retry.plugin} : alive'[o] = alive[o]
      BY <1>0, <3>1, <3>2 DEF LifecycleTypeOK
    <3>4. /\ RegistryInv /\ StatusInv /\ EscapeInv /\ NothingPretends
      BY <1>0, <2>1 DEF LifecycleInv, ApartInv
    <3>5. QED
      BY <1>0, <3>1, <3>2, <3>3, <3>4 DEF RegistryInv, StatusInv, EscapeInv, NothingPretends, LifecycleTypeOK
  <2>2. CASE retry.pc # "starting" \/ overlapped
    BY <1>16, <1>0, <2>2 DEF Shutdown, switchVars, LifecycleInv, ApartInv, StatusInv, EscapeInv, NothingPretends
  <2>3. QED
    BY <2>1, <2>2
<1>17. ASSUME StopAll
      PROVE  ~overlapped' => StatusInv'
  BY <1>17, <1>0, ObjectsAreNumbers, SourcesAreNames
     DEF StopAll, objectVars, switchVars, LifecycleInv, LifecycleTypeOK,
         RegistryInv, SwitchInv, ApartInv, Leaving, Coming, StatusInv, HandInv,
         CalledInv, EscapeInv, DownInv
<1>18. CASE UNCHANGED lifecycleVars
  BY <1>18, <1>0, ObjectsAreNumbers, SourcesAreNames
     DEF lifecycleVars, objectVars, switchVars, LifecycleInv, LifecycleTypeOK,
         RegistryInv, SwitchInv, ApartInv, Leaving, Coming, StatusInv, HandInv,
         CalledInv, EscapeInv
<1>19. QED
  BY <1>1, <1>2, <1>3, <1>4, <1>5, <1>6, <1>7, <1>8, <1>9, <1>10, <1>11, <1>12, <1>13,
     <1>14, <1>15, <1>16, <1>17, <1>18
     DEF LifecycleNext

\* Nothing runs that is not registered.
LEMMA EscapeStep == ASSUME LifecycleInv, [LifecycleNext]_lifecycleVars
                  PROVE  ~overlapped' => EscapeInv'
<1>0. LifecycleInv /\ LifecycleTypeOK
  BY DEF LifecycleInv
<1>1. ASSUME NEW target \in Sources, Switch(target)
      PROVE  ~overlapped' => EscapeInv'
  BY <1>1, <1>0, ObjectsAreNumbers, SourcesAreNames
     DEF Switch, Goes, HasSource, SourceNow, objectVars, switchVars, LifecycleInv,
         LifecycleTypeOK, RegistryInv, SwitchInv, ApartInv, Leaving, Coming,
         StatusInv, HandInv, CalledInv, EscapeInv
<1>2. ASSUME RemovePlugin
      PROVE  ~overlapped' => EscapeInv'
  BY <1>2, <1>0, ObjectsAreNumbers, SourcesAreNames
     DEF RemovePlugin, Goes, SetHealth, objectVars, switchVars, LifecycleInv,
         LifecycleTypeOK, RegistryInv, SwitchInv, ApartInv, Leaving, Coming,
         StatusInv, HandInv, CalledInv, EscapeInv
<1>3. ASSUME RemoveStopped
      PROVE  ~overlapped' => EscapeInv'
  BY <1>3, <1>0, ObjectsAreNumbers, SourcesAreNames
     DEF RemoveStopped, Stopped, SetHealth, Becomes, Goes, objectVars, switchVars,
         LifecycleInv, LifecycleTypeOK, RegistryInv, SwitchInv, ApartInv, Leaving,
         Coming, StatusInv, HandInv, CalledInv, EscapeInv
<1>4. ASSUME Unregister
      PROVE  ~overlapped' => EscapeInv'
  BY <1>4, <1>0, ObjectsAreNumbers, SourcesAreNames
     DEF Unregister, Deleted, Goes, objectVars, switchVars, LifecycleInv,
         LifecycleTypeOK, RegistryInv, SwitchInv, ApartInv, Leaving, Coming,
         StatusInv, HandInv, CalledInv, EscapeInv
<1>5. ASSUME Add
      PROVE  ~overlapped' => EscapeInv'
  BY <1>5, <1>0, ObjectsAreNumbers, SourcesAreNames
     DEF Add, SetHealth, Goes, objectVars, switchVars, LifecycleInv,
         LifecycleTypeOK, RegistryInv, SwitchInv, ApartInv, Leaving, Coming,
         StatusInv, HandInv, CalledInv, EscapeInv
<1>6. ASSUME AddStarted
      PROVE  ~overlapped' => EscapeInv'
  <2>1. SUFFICES ASSUME ~overlapped PROVE EscapeInv'
    BY <1>6 DEF AddStarted
  <2>2. /\ switch.plugin \in Objects /\ kindOf[switch.plugin] \in Names /\ registered[kindOf[switch.plugin]] = switch.plugin
        /\ RegistryInv /\ StatusInv /\ EscapeInv /\ NothingPretends
    BY <1>6, <1>0, <2>1, SourcesAreNames DEF AddStarted, LifecycleInv, LifecycleTypeOK, SwitchInv, ApartInv, HandInv, Coming
  <2>3. QED
    BY <1>6, <1>0, <2>2, CalledInHand DEF AddStarted, switchVars
<1>7. ASSUME AddEnds
      PROVE  ~overlapped' => EscapeInv'
  <2>1. CASE ~failedStart'
    BY <1>7, <1>0, <2>1 DEF AddEnds, objectVars, LifecycleInv, ApartInv, StatusInv, EscapeInv, NothingPretends
  <2>2. CASE failedStart' /\ ~overlapped'
    <3>1. /\ switch.plugin \in Objects /\ kindOf[switch.plugin] \in Names
          /\ registered[kindOf[switch.plugin]] = switch.plugin
          /\ RegistryInv /\ StatusInv /\ EscapeInv /\ NothingPretends
      BY <1>7, <1>0, <2>2, SourcesAreNames
         DEF AddEnds, LifecycleInv, LifecycleTypeOK, SwitchInv, ApartInv, Coming
    <3>2. /\ Deleted(kindOf[switch.plugin]) /\ kindOf' = kindOf
          /\ alive' = [alive EXCEPT ![switch.plugin] = "off"]
      BY <1>7, <2>2 DEF AddEnds, Becomes
    <3>3. QED
      BY <1>0, <3>1, <3>2, DeletedOff
  <2>3. QED
    BY <2>1, <2>2
<1>8. ASSUME RetryBegins
      PROVE  ~overlapped' => EscapeInv'
  BY <1>8, <1>0, ObjectsAreNumbers, SourcesAreNames
     DEF RetryBegins, objectVars, switchVars, LifecycleInv, LifecycleTypeOK,
         RegistryInv, SwitchInv, ApartInv, Leaving, Coming, StatusInv, HandInv,
         CalledInv, EscapeInv
<1>9. ASSUME RetryNext
      PROVE  ~overlapped' => EscapeInv'
  BY <1>9, <1>0, ObjectsAreNumbers, SourcesAreNames
     DEF RetryNext, RetryTakes, RetryEnds, SetHealth, objectVars, switchVars,
         LifecycleInv, LifecycleTypeOK, RegistryInv, SwitchInv, ApartInv, Leaving,
         Coming, StatusInv, HandInv, CalledInv, EscapeInv
<1>10. ASSUME RetryStopped
      PROVE  ~overlapped' => EscapeInv'
  <2>1. SUFFICES ASSUME ~overlapped PROVE EscapeInv'
    BY <1>10 DEF RetryStopped
  <2>2. /\ retry.plugin \in Objects /\ kindOf[retry.plugin] \in Names /\ registered[kindOf[retry.plugin]] = retry.plugin
        /\ RegistryInv /\ StatusInv /\ EscapeInv /\ NothingPretends
    BY <1>10, <1>0, <2>1, SourcesAreNames DEF RetryStopped, LifecycleInv, LifecycleTypeOK, SwitchInv, ApartInv, HandInv, HeldInv, InHand
  <2>3. QED
    BY <1>10, <1>0, <2>2, CalledInHand DEF RetryStopped, switchVars
<1>11. ASSUME RetryStarts
      PROVE  ~overlapped' => EscapeInv'
  BY <1>11, <1>0, ObjectsAreNumbers, SourcesAreNames
     DEF RetryStarts, RetryEnds, RetryGoes, SetHealth, objectVars, switchVars,
         LifecycleInv, LifecycleTypeOK, RegistryInv, SwitchInv, ApartInv, Leaving,
         Coming, StatusInv, HandInv, CalledInv, EscapeInv
<1>12. ASSUME RetryStarted
      PROVE  ~overlapped' => EscapeInv'
  <2>1. SUFFICES ASSUME ~overlapped PROVE EscapeInv'
    BY <1>12 DEF RetryStarted
  <2>2. /\ retry.plugin \in Objects /\ kindOf[retry.plugin] \in Names /\ registered[kindOf[retry.plugin]] = retry.plugin
        /\ RegistryInv /\ StatusInv /\ EscapeInv /\ NothingPretends
    BY <1>12, <1>0, <2>1, SourcesAreNames DEF RetryStarted, LifecycleInv, LifecycleTypeOK, SwitchInv, ApartInv, HandInv, HeldInv, InHand
  <2>3. QED
    BY <1>12, <1>0, <2>2, CalledInHand DEF RetryStarted, switchVars
<1>13. ASSUME NEW n \in Names, ProbeAsks(n)
      PROVE  ~overlapped' => EscapeInv'
  BY <1>13, <1>0, ObjectsAreNumbers, SourcesAreNames
     DEF ProbeAsks, objectVars, switchVars, LifecycleInv, LifecycleTypeOK,
         RegistryInv, SwitchInv, ApartInv, Leaving, Coming, StatusInv, HandInv,
         CalledInv, EscapeInv
<1>14. ASSUME ProbeAnswered
      PROVE  ~overlapped' => EscapeInv'
  BY <1>14, <1>0, ObjectsAreNumbers, SourcesAreNames
     DEF ProbeAnswered, objectVars, switchVars, LifecycleInv, LifecycleTypeOK,
         RegistryInv, SwitchInv, ApartInv, Leaving, Coming, StatusInv, HandInv,
         CalledInv, EscapeInv
<1>15. ASSUME ProbeForgotten
      PROVE  ~overlapped' => EscapeInv'
  BY <1>15, <1>0, ObjectsAreNumbers, SourcesAreNames
     DEF ProbeForgotten, objectVars, switchVars, LifecycleInv, LifecycleTypeOK,
         RegistryInv, SwitchInv, ApartInv, Leaving, Coming, StatusInv, HandInv,
         CalledInv, EscapeInv
<1>16. ASSUME Shutdown
      PROVE  ~overlapped' => EscapeInv'
  <2>1. CASE retry.pc = "starting" /\ ~overlapped
    <3>1. /\ retry.plugin \in Objects /\ kindOf[retry.plugin] \in Names
          /\ registered[kindOf[retry.plugin]] = retry.plugin
          /\ health[kindOf[retry.plugin]] = "starting"
      BY <1>0, <2>1 DEF LifecycleInv, LifecycleTypeOK, ApartInv, HandInv, HeldInv, CalledInv, InHand
    <3>2. /\ alive' = [alive EXCEPT ![retry.plugin] = "half"]
          /\ UNCHANGED <<registered, health, kindOf>>
      BY <1>16, <2>1 DEF Shutdown, Becomes, switchVars
    <3>3. /\ alive'[retry.plugin] = "half"
          /\ \A o \in Objects \ {retry.plugin} : alive'[o] = alive[o]
      BY <1>0, <3>1, <3>2 DEF LifecycleTypeOK
    <3>4. /\ RegistryInv /\ StatusInv /\ EscapeInv /\ NothingPretends
      BY <1>0, <2>1 DEF LifecycleInv, ApartInv
    <3>5. QED
      BY <1>0, <3>1, <3>2, <3>3, <3>4 DEF RegistryInv, StatusInv, EscapeInv, NothingPretends, LifecycleTypeOK
  <2>2. CASE retry.pc # "starting" \/ overlapped
    BY <1>16, <1>0, <2>2 DEF Shutdown, switchVars, LifecycleInv, ApartInv, StatusInv, EscapeInv, NothingPretends
  <2>3. QED
    BY <2>1, <2>2
<1>17. ASSUME StopAll
      PROVE  ~overlapped' => EscapeInv'
  BY <1>17, <1>0, ObjectsAreNumbers, SourcesAreNames
     DEF StopAll, objectVars, switchVars, LifecycleInv, LifecycleTypeOK,
         RegistryInv, SwitchInv, ApartInv, Leaving, Coming, StatusInv, HandInv,
         CalledInv, EscapeInv, DownInv
<1>18. CASE UNCHANGED lifecycleVars
  BY <1>18, <1>0, ObjectsAreNumbers, SourcesAreNames
     DEF lifecycleVars, objectVars, switchVars, LifecycleInv, LifecycleTypeOK,
         RegistryInv, SwitchInv, ApartInv, Leaving, Coming, StatusInv, HandInv,
         CalledInv, EscapeInv
<1>19. QED
  BY <1>1, <1>2, <1>3, <1>4, <1>5, <1>6, <1>7, <1>8, <1>9, <1>10, <1>11, <1>12, <1>13,
     <1>14, <1>15, <1>16, <1>17, <1>18
     DEF LifecycleNext

\* Nothing is said to run that does not.
LEMMA PretendStep == ASSUME LifecycleInv, [LifecycleNext]_lifecycleVars
                   PROVE  ~overlapped' => NothingPretends'
<1>0. LifecycleInv /\ LifecycleTypeOK
  BY DEF LifecycleInv
<1>1. ASSUME NEW target \in Sources, Switch(target)
      PROVE  ~overlapped' => NothingPretends'
  BY <1>1, <1>0, ObjectsAreNumbers, SourcesAreNames
     DEF Switch, Goes, HasSource, SourceNow, objectVars, switchVars, LifecycleInv,
         LifecycleTypeOK, RegistryInv, SwitchInv, ApartInv, Leaving, Coming,
         StatusInv, HandInv, CalledInv, NothingPretends
<1>2. ASSUME RemovePlugin
      PROVE  ~overlapped' => NothingPretends'
  BY <1>2, <1>0, ObjectsAreNumbers, SourcesAreNames
     DEF RemovePlugin, Goes, SetHealth, objectVars, switchVars, LifecycleInv,
         LifecycleTypeOK, RegistryInv, SwitchInv, ApartInv, Leaving, Coming,
         StatusInv, HandInv, CalledInv, NothingPretends
<1>3. ASSUME RemoveStopped
      PROVE  ~overlapped' => NothingPretends'
  BY <1>3, <1>0, ObjectsAreNumbers, SourcesAreNames
     DEF RemoveStopped, Stopped, SetHealth, Becomes, Goes, objectVars, switchVars,
         LifecycleInv, LifecycleTypeOK, RegistryInv, SwitchInv, ApartInv, Leaving,
         Coming, StatusInv, HandInv, CalledInv, NothingPretends
<1>4. ASSUME Unregister
      PROVE  ~overlapped' => NothingPretends'
  BY <1>4, <1>0, ObjectsAreNumbers, SourcesAreNames
     DEF Unregister, Deleted, Goes, objectVars, switchVars, LifecycleInv,
         LifecycleTypeOK, RegistryInv, SwitchInv, ApartInv, Leaving, Coming,
         StatusInv, HandInv, CalledInv, NothingPretends
<1>5. ASSUME Add
      PROVE  ~overlapped' => NothingPretends'
  BY <1>5, <1>0, ObjectsAreNumbers, SourcesAreNames
     DEF Add, SetHealth, Goes, objectVars, switchVars, LifecycleInv,
         LifecycleTypeOK, RegistryInv, SwitchInv, ApartInv, Leaving, Coming,
         StatusInv, HandInv, CalledInv, NothingPretends
<1>6. ASSUME AddStarted
      PROVE  ~overlapped' => NothingPretends'
  <2>1. SUFFICES ASSUME ~overlapped PROVE NothingPretends'
    BY <1>6 DEF AddStarted
  <2>2. /\ switch.plugin \in Objects /\ kindOf[switch.plugin] \in Names /\ registered[kindOf[switch.plugin]] = switch.plugin
        /\ RegistryInv /\ StatusInv /\ EscapeInv /\ NothingPretends
    BY <1>6, <1>0, <2>1, SourcesAreNames DEF AddStarted, LifecycleInv, LifecycleTypeOK, SwitchInv, ApartInv, HandInv, Coming
  <2>3. QED
    BY <1>6, <1>0, <2>2, CalledInHand DEF AddStarted, switchVars
<1>7. ASSUME AddEnds
      PROVE  ~overlapped' => NothingPretends'
  <2>1. CASE ~failedStart'
    BY <1>7, <1>0, <2>1 DEF AddEnds, objectVars, LifecycleInv, ApartInv, StatusInv, EscapeInv, NothingPretends
  <2>2. CASE failedStart' /\ ~overlapped'
    <3>1. /\ switch.plugin \in Objects /\ kindOf[switch.plugin] \in Names
          /\ registered[kindOf[switch.plugin]] = switch.plugin
          /\ RegistryInv /\ StatusInv /\ EscapeInv /\ NothingPretends
      BY <1>7, <1>0, <2>2, SourcesAreNames
         DEF AddEnds, LifecycleInv, LifecycleTypeOK, SwitchInv, ApartInv, Coming
    <3>2. /\ Deleted(kindOf[switch.plugin]) /\ kindOf' = kindOf
          /\ alive' = [alive EXCEPT ![switch.plugin] = "off"]
      BY <1>7, <2>2 DEF AddEnds, Becomes
    <3>3. QED
      BY <1>0, <3>1, <3>2, DeletedOff
  <2>3. QED
    BY <2>1, <2>2
<1>8. ASSUME RetryBegins
      PROVE  ~overlapped' => NothingPretends'
  BY <1>8, <1>0, ObjectsAreNumbers, SourcesAreNames
     DEF RetryBegins, objectVars, switchVars, LifecycleInv, LifecycleTypeOK,
         RegistryInv, SwitchInv, ApartInv, Leaving, Coming, StatusInv, HandInv,
         CalledInv, NothingPretends
<1>9. ASSUME RetryNext
      PROVE  ~overlapped' => NothingPretends'
  BY <1>9, <1>0, ObjectsAreNumbers, SourcesAreNames
     DEF RetryNext, RetryTakes, RetryEnds, SetHealth, objectVars, switchVars,
         LifecycleInv, LifecycleTypeOK, RegistryInv, SwitchInv, ApartInv, Leaving,
         Coming, StatusInv, HandInv, CalledInv, NothingPretends
<1>10. ASSUME RetryStopped
      PROVE  ~overlapped' => NothingPretends'
  <2>1. SUFFICES ASSUME ~overlapped PROVE NothingPretends'
    BY <1>10 DEF RetryStopped
  <2>2. /\ retry.plugin \in Objects /\ kindOf[retry.plugin] \in Names /\ registered[kindOf[retry.plugin]] = retry.plugin
        /\ RegistryInv /\ StatusInv /\ EscapeInv /\ NothingPretends
    BY <1>10, <1>0, <2>1, SourcesAreNames DEF RetryStopped, LifecycleInv, LifecycleTypeOK, SwitchInv, ApartInv, HandInv, HeldInv, InHand
  <2>3. QED
    BY <1>10, <1>0, <2>2, CalledInHand DEF RetryStopped, switchVars
<1>11. ASSUME RetryStarts
      PROVE  ~overlapped' => NothingPretends'
  BY <1>11, <1>0, ObjectsAreNumbers, SourcesAreNames
     DEF RetryStarts, RetryEnds, RetryGoes, SetHealth, objectVars, switchVars,
         LifecycleInv, LifecycleTypeOK, RegistryInv, SwitchInv, ApartInv, Leaving,
         Coming, StatusInv, HandInv, CalledInv, NothingPretends
<1>12. ASSUME RetryStarted
      PROVE  ~overlapped' => NothingPretends'
  <2>1. SUFFICES ASSUME ~overlapped PROVE NothingPretends'
    BY <1>12 DEF RetryStarted
  <2>2. /\ retry.plugin \in Objects /\ kindOf[retry.plugin] \in Names /\ registered[kindOf[retry.plugin]] = retry.plugin
        /\ RegistryInv /\ StatusInv /\ EscapeInv /\ NothingPretends
    BY <1>12, <1>0, <2>1, SourcesAreNames DEF RetryStarted, LifecycleInv, LifecycleTypeOK, SwitchInv, ApartInv, HandInv, HeldInv, InHand
  <2>3. QED
    BY <1>12, <1>0, <2>2, CalledInHand DEF RetryStarted, switchVars
<1>13. ASSUME NEW n \in Names, ProbeAsks(n)
      PROVE  ~overlapped' => NothingPretends'
  BY <1>13, <1>0, ObjectsAreNumbers, SourcesAreNames
     DEF ProbeAsks, objectVars, switchVars, LifecycleInv, LifecycleTypeOK,
         RegistryInv, SwitchInv, ApartInv, Leaving, Coming, StatusInv, HandInv,
         CalledInv, NothingPretends
<1>14. ASSUME ProbeAnswered
      PROVE  ~overlapped' => NothingPretends'
  BY <1>14, <1>0, ObjectsAreNumbers, SourcesAreNames
     DEF ProbeAnswered, objectVars, switchVars, LifecycleInv, LifecycleTypeOK,
         RegistryInv, SwitchInv, ApartInv, Leaving, Coming, StatusInv, HandInv,
         CalledInv, NothingPretends
<1>15. ASSUME ProbeForgotten
      PROVE  ~overlapped' => NothingPretends'
  BY <1>15, <1>0, ObjectsAreNumbers, SourcesAreNames
     DEF ProbeForgotten, objectVars, switchVars, LifecycleInv, LifecycleTypeOK,
         RegistryInv, SwitchInv, ApartInv, Leaving, Coming, StatusInv, HandInv,
         CalledInv, NothingPretends
<1>16. ASSUME Shutdown
      PROVE  ~overlapped' => NothingPretends'
  <2>1. CASE retry.pc = "starting" /\ ~overlapped
    <3>1. /\ retry.plugin \in Objects /\ kindOf[retry.plugin] \in Names
          /\ registered[kindOf[retry.plugin]] = retry.plugin
          /\ health[kindOf[retry.plugin]] = "starting"
      BY <1>0, <2>1 DEF LifecycleInv, LifecycleTypeOK, ApartInv, HandInv, HeldInv, CalledInv, InHand
    <3>2. /\ alive' = [alive EXCEPT ![retry.plugin] = "half"]
          /\ UNCHANGED <<registered, health, kindOf>>
      BY <1>16, <2>1 DEF Shutdown, Becomes, switchVars
    <3>3. /\ alive'[retry.plugin] = "half"
          /\ \A o \in Objects \ {retry.plugin} : alive'[o] = alive[o]
      BY <1>0, <3>1, <3>2 DEF LifecycleTypeOK
    <3>4. /\ RegistryInv /\ StatusInv /\ EscapeInv /\ NothingPretends
      BY <1>0, <2>1 DEF LifecycleInv, ApartInv
    <3>5. QED
      BY <1>0, <3>1, <3>2, <3>3, <3>4 DEF RegistryInv, StatusInv, EscapeInv, NothingPretends, LifecycleTypeOK
  <2>2. CASE retry.pc # "starting" \/ overlapped
    BY <1>16, <1>0, <2>2 DEF Shutdown, switchVars, LifecycleInv, ApartInv, StatusInv, EscapeInv, NothingPretends
  <2>3. QED
    BY <2>1, <2>2
<1>17. ASSUME StopAll
      PROVE  ~overlapped' => NothingPretends'
  BY <1>17, <1>0, ObjectsAreNumbers, SourcesAreNames
     DEF StopAll, objectVars, switchVars, LifecycleInv, LifecycleTypeOK,
         RegistryInv, SwitchInv, ApartInv, Leaving, Coming, StatusInv, HandInv,
         CalledInv, NothingPretends, DownInv
<1>18. CASE UNCHANGED lifecycleVars
  BY <1>18, <1>0, ObjectsAreNumbers, SourcesAreNames
     DEF lifecycleVars, objectVars, switchVars, LifecycleInv, LifecycleTypeOK,
         RegistryInv, SwitchInv, ApartInv, Leaving, Coming, StatusInv, HandInv,
         CalledInv, NothingPretends
<1>19. QED
  BY <1>1, <1>2, <1>3, <1>4, <1>5, <1>6, <1>7, <1>8, <1>9, <1>10, <1>11, <1>12, <1>13,
     <1>14, <1>15, <1>16, <1>17, <1>18
     DEF LifecycleNext

\* Nothing is left when the program is down.
LEMMA LeftStep == ASSUME LifecycleInv, [LifecycleNext]_lifecycleVars
                PROVE  ~overlapped' => NothingLeft'
<1>0. LifecycleInv /\ LifecycleTypeOK
  BY DEF LifecycleInv
<1>1. ASSUME NEW target \in Sources, Switch(target)
      PROVE  ~overlapped' => NothingLeft'
  BY <1>1, <1>0, ObjectsAreNumbers, SourcesAreNames
     DEF Switch, Goes, HasSource, SourceNow, objectVars, switchVars, LifecycleInv,
         LifecycleTypeOK, RegistryInv, SwitchInv, ApartInv, Leaving, Coming,
         StatusInv, EscapeInv, NothingLeft, DownInv
<1>2. ASSUME RemovePlugin
      PROVE  ~overlapped' => NothingLeft'
  BY <1>2, <1>0, ObjectsAreNumbers, SourcesAreNames
     DEF RemovePlugin, Goes, SetHealth, objectVars, switchVars, LifecycleInv,
         LifecycleTypeOK, RegistryInv, SwitchInv, ApartInv, Leaving, Coming,
         StatusInv, EscapeInv, NothingLeft, DownInv
<1>3. ASSUME RemoveStopped
      PROVE  ~overlapped' => NothingLeft'
  BY <1>3, <1>0, ObjectsAreNumbers, SourcesAreNames
     DEF RemoveStopped, Stopped, SetHealth, Becomes, Goes, objectVars, switchVars,
         LifecycleInv, LifecycleTypeOK, RegistryInv, SwitchInv, ApartInv, Leaving,
         Coming, StatusInv, EscapeInv, NothingLeft, DownInv
<1>4. ASSUME Unregister
      PROVE  ~overlapped' => NothingLeft'
  BY <1>4, <1>0, ObjectsAreNumbers, SourcesAreNames
     DEF Unregister, Deleted, Goes, objectVars, switchVars, LifecycleInv,
         LifecycleTypeOK, RegistryInv, SwitchInv, ApartInv, Leaving, Coming,
         StatusInv, EscapeInv, NothingLeft, DownInv
<1>5. ASSUME Add
      PROVE  ~overlapped' => NothingLeft'
  BY <1>5, <1>0, ObjectsAreNumbers, SourcesAreNames
     DEF Add, SetHealth, Goes, objectVars, switchVars, LifecycleInv,
         LifecycleTypeOK, RegistryInv, SwitchInv, ApartInv, Leaving, Coming,
         StatusInv, EscapeInv, NothingLeft, DownInv
<1>6. ASSUME AddStarted
      PROVE  ~overlapped' => NothingLeft'
  BY <1>6, <1>0, ObjectsAreNumbers, SourcesAreNames
     DEF AddStarted, Started, SetHealth, Becomes, Goes, objectVars, switchVars,
         LifecycleInv, LifecycleTypeOK, RegistryInv, SwitchInv, ApartInv, Leaving,
         Coming, StatusInv, EscapeInv, NothingLeft, DownInv
<1>7. ASSUME AddEnds
      PROVE  ~overlapped' => NothingLeft'
  BY <1>7, <1>0, ObjectsAreNumbers, SourcesAreNames
     DEF AddEnds, Unstarted, Deleted, Becomes, objectVars, switchVars, LifecycleInv,
         LifecycleTypeOK, RegistryInv, SwitchInv, ApartInv, Leaving, Coming,
         StatusInv, EscapeInv, NothingLeft, DownInv
<1>8. ASSUME RetryBegins
      PROVE  ~overlapped' => NothingLeft'
  BY <1>8, <1>0, ObjectsAreNumbers, SourcesAreNames
     DEF RetryBegins, objectVars, switchVars, LifecycleInv, LifecycleTypeOK,
         RegistryInv, SwitchInv, ApartInv, Leaving, Coming, StatusInv, EscapeInv,
         NothingLeft, DownInv
<1>9. ASSUME RetryNext
      PROVE  ~overlapped' => NothingLeft'
  BY <1>9, <1>0, ObjectsAreNumbers, SourcesAreNames
     DEF RetryNext, RetryTakes, RetryEnds, SetHealth, objectVars, switchVars,
         LifecycleInv, LifecycleTypeOK, RegistryInv, SwitchInv, ApartInv, Leaving,
         Coming, StatusInv, EscapeInv, NothingLeft, DownInv
<1>10. ASSUME RetryStopped
      PROVE  ~overlapped' => NothingLeft'
  BY <1>10, <1>0, ObjectsAreNumbers, SourcesAreNames
     DEF RetryStopped, Stopped, SetHealth, Becomes, RetryGoes, objectVars,
         switchVars, LifecycleInv, LifecycleTypeOK, RegistryInv, SwitchInv,
         ApartInv, Leaving, Coming, StatusInv, EscapeInv, NothingLeft, DownInv
<1>11. ASSUME RetryStarts
      PROVE  ~overlapped' => NothingLeft'
  BY <1>11, <1>0, ObjectsAreNumbers, SourcesAreNames
     DEF RetryStarts, RetryEnds, RetryGoes, SetHealth, objectVars, switchVars,
         LifecycleInv, LifecycleTypeOK, RegistryInv, SwitchInv, ApartInv, Leaving,
         Coming, StatusInv, EscapeInv, NothingLeft, DownInv
<1>12. ASSUME RetryStarted
      PROVE  ~overlapped' => NothingLeft'
  BY <1>12, <1>0, ObjectsAreNumbers, SourcesAreNames
     DEF RetryStarted, Started, SetHealth, Becomes, objectVars, switchVars,
         LifecycleInv, LifecycleTypeOK, RegistryInv, SwitchInv, ApartInv, Leaving,
         Coming, StatusInv, EscapeInv, NothingLeft, DownInv
<1>13. ASSUME NEW n \in Names, ProbeAsks(n)
      PROVE  ~overlapped' => NothingLeft'
  BY <1>13, <1>0, ObjectsAreNumbers, SourcesAreNames
     DEF ProbeAsks, objectVars, switchVars, LifecycleInv, LifecycleTypeOK,
         RegistryInv, SwitchInv, ApartInv, Leaving, Coming, StatusInv, EscapeInv,
         NothingLeft, DownInv
<1>14. ASSUME ProbeAnswered
      PROVE  ~overlapped' => NothingLeft'
  BY <1>14, <1>0, ObjectsAreNumbers, SourcesAreNames
     DEF ProbeAnswered, objectVars, switchVars, LifecycleInv, LifecycleTypeOK,
         RegistryInv, SwitchInv, ApartInv, Leaving, Coming, StatusInv, EscapeInv,
         NothingLeft, DownInv
<1>15. ASSUME ProbeForgotten
      PROVE  ~overlapped' => NothingLeft'
  BY <1>15, <1>0, ObjectsAreNumbers, SourcesAreNames
     DEF ProbeForgotten, objectVars, switchVars, LifecycleInv, LifecycleTypeOK,
         RegistryInv, SwitchInv, ApartInv, Leaving, Coming, StatusInv, EscapeInv,
         NothingLeft, DownInv
<1>16. ASSUME Shutdown
      PROVE  ~overlapped' => NothingLeft'
  BY <1>16, <1>0, ObjectsAreNumbers, SourcesAreNames
     DEF Shutdown, RetryEnds, Becomes, objectVars, switchVars, LifecycleInv,
         LifecycleTypeOK, RegistryInv, SwitchInv, ApartInv, Leaving, Coming,
         StatusInv, EscapeInv, NothingLeft, DownInv
<1>17. ASSUME StopAll
      PROVE  ~overlapped' => NothingLeft'
  BY <1>17, <1>0, ObjectsAreNumbers, SourcesAreNames
     DEF StopAll, objectVars, switchVars, LifecycleInv, LifecycleTypeOK,
         RegistryInv, SwitchInv, ApartInv, Leaving, Coming, StatusInv, EscapeInv,
         NothingLeft, DownInv
<1>18. CASE UNCHANGED lifecycleVars
  BY <1>18, <1>0, ObjectsAreNumbers, SourcesAreNames
     DEF lifecycleVars, objectVars, switchVars, LifecycleInv, LifecycleTypeOK,
         RegistryInv, SwitchInv, ApartInv, Leaving, Coming, StatusInv, EscapeInv,
         NothingLeft, DownInv
<1>19. QED
  BY <1>1, <1>2, <1>3, <1>4, <1>5, <1>6, <1>7, <1>8, <1>9, <1>10, <1>11, <1>12, <1>13,
     <1>14, <1>15, <1>16, <1>17, <1>18
     DEF LifecycleNext

\* What a switch works on and what the retry has in hand have different names.
LEMMA NamesApart ==
  ASSUME LifecycleInv, ~overlapped, switch.pc \in Leaving \cup Coming,
         ~InHand(switch.plugin), NEW o \in Objects, InHand(o)
  PROVE  /\ switch.plugin \in Objects /\ kindOf[switch.plugin] \in Names
         /\ kindOf[o] \in Names /\ kindOf[o] # kindOf[switch.plugin] /\ o # switch.plugin
<1>1. /\ switch.plugin \in Objects /\ kindOf[switch.plugin] \in Names
      /\ registered[kindOf[switch.plugin]] = switch.plugin
  BY SourcesAreNames DEF LifecycleInv, LifecycleTypeOK, SwitchInv, Leaving, Coming
<1>2. kindOf[o] \in Names /\ registered[kindOf[o]] = o
  BY DEF LifecycleInv, ApartInv, HandInv, HeldInv
<1>3. QED
  BY <1>1, <1>2

\* A plugin that is being started is in hand.
LEMMA StartingInHand ==
  ASSUME LifecycleInv, retry.pc \in {"stopping", "stopped", "starting"}
  PROVE  retry.plugin \in Objects /\ InHand(retry.plugin)
BY DEF LifecycleInv, LifecycleTypeOK, InHand

\* What is in hand stays registered.
LEMMA HeldStep == ASSUME LifecycleInv, [LifecycleNext]_lifecycleVars
                PROVE  ~overlapped' => HeldInv'
<1>0. LifecycleInv /\ LifecycleTypeOK
  BY DEF LifecycleInv
<1>1. ASSUME NEW target \in Sources, Switch(target)
      PROVE  ~overlapped' => HeldInv'
  BY <1>1, <1>0, ObjectsAreNumbers, SourcesAreNames
     DEF Switch, Goes, HasSource, SourceNow, objectVars, switchVars, LifecycleInv,
         LifecycleTypeOK, RegistryInv, SwitchInv, ApartInv, Leaving, Coming,
         StatusInv, HandInv, HeldInv, OneHandInv, InHand
<1>2. ASSUME RemovePlugin
      PROVE  ~overlapped' => HeldInv'
  BY <1>2, <1>0, ObjectsAreNumbers, SourcesAreNames
     DEF RemovePlugin, Goes, SetHealth, objectVars, switchVars, LifecycleInv,
         LifecycleTypeOK, RegistryInv, SwitchInv, ApartInv, Leaving, Coming,
         StatusInv, HandInv, HeldInv, OneHandInv, InHand
<1>3. ASSUME RemoveStopped
      PROVE  ~overlapped' => HeldInv'
  BY <1>3, <1>0, ObjectsAreNumbers, SourcesAreNames
     DEF RemoveStopped, Stopped, SetHealth, Becomes, Goes, objectVars, switchVars,
         LifecycleInv, LifecycleTypeOK, RegistryInv, SwitchInv, ApartInv, Leaving,
         Coming, StatusInv, HandInv, HeldInv, OneHandInv, InHand
<1>4. ASSUME Unregister
      PROVE  ~overlapped' => HeldInv'
  BY <1>4, <1>0, ObjectsAreNumbers, SourcesAreNames
     DEF Unregister, Deleted, Goes, objectVars, switchVars, LifecycleInv,
         LifecycleTypeOK, RegistryInv, SwitchInv, ApartInv, Leaving, Coming,
         StatusInv, HandInv, HeldInv, OneHandInv, InHand
<1>5. ASSUME Add
      PROVE  ~overlapped' => HeldInv'
  BY <1>5, <1>0, ObjectsAreNumbers, SourcesAreNames
     DEF Add, SetHealth, Goes, objectVars, switchVars, LifecycleInv,
         LifecycleTypeOK, RegistryInv, SwitchInv, ApartInv, Leaving, Coming,
         StatusInv, HandInv, HeldInv, OneHandInv, InHand
<1>6. ASSUME AddStarted
      PROVE  ~overlapped' => HeldInv'
  BY <1>6, <1>0, ObjectsAreNumbers, SourcesAreNames
     DEF AddStarted, Started, SetHealth, Becomes, Goes, objectVars, switchVars,
         LifecycleInv, LifecycleTypeOK, RegistryInv, SwitchInv, ApartInv, Leaving,
         Coming, StatusInv, HandInv, HeldInv, OneHandInv, InHand
<1>7. ASSUME AddEnds
      PROVE  ~overlapped' => HeldInv'
  BY <1>7, <1>0, ObjectsAreNumbers, SourcesAreNames
     DEF AddEnds, Unstarted, Deleted, Becomes, objectVars, switchVars, LifecycleInv,
         LifecycleTypeOK, RegistryInv, SwitchInv, ApartInv, Leaving, Coming,
         StatusInv, HandInv, HeldInv, OneHandInv, InHand
<1>8. ASSUME RetryBegins
      PROVE  ~overlapped' => HeldInv'
  BY <1>8, <1>0, ObjectsAreNumbers, SourcesAreNames
     DEF RetryBegins, objectVars, switchVars, LifecycleInv, LifecycleTypeOK,
         RegistryInv, SwitchInv, ApartInv, Leaving, Coming, StatusInv, HandInv,
         HeldInv, OneHandInv, InHand
<1>9. ASSUME RetryNext
      PROVE  ~overlapped' => HeldInv'
  BY <1>9, <1>0, ObjectsAreNumbers, SourcesAreNames
     DEF RetryNext, RetryTakes, RetryEnds, SetHealth, objectVars, switchVars,
         LifecycleInv, LifecycleTypeOK, RegistryInv, SwitchInv, ApartInv, Leaving,
         Coming, StatusInv, HandInv, HeldInv, OneHandInv, InHand
<1>10. ASSUME RetryStopped
      PROVE  ~overlapped' => HeldInv'
  BY <1>10, <1>0, ObjectsAreNumbers, SourcesAreNames
     DEF RetryStopped, Stopped, SetHealth, Becomes, RetryGoes, objectVars,
         switchVars, LifecycleInv, LifecycleTypeOK, RegistryInv, SwitchInv,
         ApartInv, Leaving, Coming, StatusInv, HandInv, HeldInv, OneHandInv, InHand
<1>11. ASSUME RetryStarts
      PROVE  ~overlapped' => HeldInv'
  BY <1>11, <1>0, ObjectsAreNumbers, SourcesAreNames
     DEF RetryStarts, RetryEnds, RetryGoes, SetHealth, objectVars, switchVars,
         LifecycleInv, LifecycleTypeOK, RegistryInv, SwitchInv, ApartInv, Leaving,
         Coming, StatusInv, HandInv, HeldInv, OneHandInv, InHand
<1>12. ASSUME RetryStarted
      PROVE  ~overlapped' => HeldInv'
  BY <1>12, <1>0, ObjectsAreNumbers, SourcesAreNames
     DEF RetryStarted, Started, SetHealth, Becomes, objectVars, switchVars,
         LifecycleInv, LifecycleTypeOK, RegistryInv, SwitchInv, ApartInv, Leaving,
         Coming, StatusInv, HandInv, HeldInv, OneHandInv, InHand
<1>13. ASSUME NEW n \in Names, ProbeAsks(n)
      PROVE  ~overlapped' => HeldInv'
  BY <1>13, <1>0, ObjectsAreNumbers, SourcesAreNames
     DEF ProbeAsks, objectVars, switchVars, LifecycleInv, LifecycleTypeOK,
         RegistryInv, SwitchInv, ApartInv, Leaving, Coming, StatusInv, HandInv,
         HeldInv, OneHandInv, InHand
<1>14. ASSUME ProbeAnswered
      PROVE  ~overlapped' => HeldInv'
  BY <1>14, <1>0, ObjectsAreNumbers, SourcesAreNames
     DEF ProbeAnswered, objectVars, switchVars, LifecycleInv, LifecycleTypeOK,
         RegistryInv, SwitchInv, ApartInv, Leaving, Coming, StatusInv, HandInv,
         HeldInv, OneHandInv, InHand
<1>15. ASSUME ProbeForgotten
      PROVE  ~overlapped' => HeldInv'
  BY <1>15, <1>0, ObjectsAreNumbers, SourcesAreNames
     DEF ProbeForgotten, objectVars, switchVars, LifecycleInv, LifecycleTypeOK,
         RegistryInv, SwitchInv, ApartInv, Leaving, Coming, StatusInv, HandInv,
         HeldInv, OneHandInv, InHand
<1>16. ASSUME Shutdown
      PROVE  ~overlapped' => HeldInv'
  BY <1>16, <1>0, ObjectsAreNumbers, SourcesAreNames
     DEF Shutdown, RetryEnds, Becomes, objectVars, switchVars, LifecycleInv,
         LifecycleTypeOK, RegistryInv, SwitchInv, ApartInv, Leaving, Coming,
         StatusInv, HandInv, HeldInv, OneHandInv, InHand
<1>17. ASSUME StopAll
      PROVE  ~overlapped' => HeldInv'
  BY <1>17, <1>0, ObjectsAreNumbers, SourcesAreNames
     DEF StopAll, objectVars, switchVars, LifecycleInv, LifecycleTypeOK,
         RegistryInv, SwitchInv, ApartInv, Leaving, Coming, StatusInv, HandInv,
         HeldInv, OneHandInv, InHand, DownInv
<1>18. CASE UNCHANGED lifecycleVars
  BY <1>18, <1>0, ObjectsAreNumbers, SourcesAreNames
     DEF lifecycleVars, objectVars, switchVars, LifecycleInv, LifecycleTypeOK,
         RegistryInv, SwitchInv, ApartInv, Leaving, Coming, StatusInv, HandInv,
         HeldInv, OneHandInv, InHand
<1>19. QED
  BY <1>1, <1>2, <1>3, <1>4, <1>5, <1>6, <1>7, <1>8, <1>9, <1>10, <1>11, <1>12, <1>13,
     <1>14, <1>15, <1>16, <1>17, <1>18
     DEF LifecycleNext

\* A plugin is in one hand.
LEMMA OneHandStep == ASSUME LifecycleInv, [LifecycleNext]_lifecycleVars
                   PROVE  ~overlapped' => OneHandInv'
<1>0. LifecycleInv /\ LifecycleTypeOK
  BY DEF LifecycleInv
<1>1. ASSUME NEW target \in Sources, Switch(target)
      PROVE  ~overlapped' => OneHandInv'
  BY <1>1, <1>0, ObjectsAreNumbers, SourcesAreNames
     DEF Switch, Goes, HasSource, SourceNow, objectVars, switchVars, LifecycleInv,
         LifecycleTypeOK, RegistryInv, SwitchInv, ApartInv, Leaving, Coming,
         StatusInv, HandInv, HeldInv, OneHandInv, InHand
<1>2. ASSUME RemovePlugin
      PROVE  ~overlapped' => OneHandInv'
  <2>1. SUFFICES ASSUME ~overlapped' PROVE OneHandInv'
    OBVIOUS
  <2>2. ~overlapped /\ ~InHand(switch.plugin)
    BY <1>2, <2>1 DEF RemovePlugin
  <2>3. switch'.plugin = switch.plugin /\ retry' = retry
    BY <1>2 DEF RemovePlugin, Goes
  <2>4. QED
    BY <2>2, <2>3 DEF OneHandInv, InHand
<1>3. ASSUME RemoveStopped
      PROVE  ~overlapped' => OneHandInv'
  BY <1>3, <1>0, ObjectsAreNumbers, SourcesAreNames
     DEF RemoveStopped, Stopped, SetHealth, Becomes, Goes, objectVars, switchVars,
         LifecycleInv, LifecycleTypeOK, RegistryInv, SwitchInv, ApartInv, Leaving,
         Coming, StatusInv, HandInv, HeldInv, OneHandInv, InHand
<1>4. ASSUME Unregister
      PROVE  ~overlapped' => OneHandInv'
  BY <1>4, <1>0, ObjectsAreNumbers, SourcesAreNames
     DEF Unregister, Deleted, Goes, objectVars, switchVars, LifecycleInv,
         LifecycleTypeOK, RegistryInv, SwitchInv, ApartInv, Leaving, Coming,
         StatusInv, HandInv, HeldInv, OneHandInv, InHand
<1>5. ASSUME Add
      PROVE  ~overlapped' => OneHandInv'
  BY <1>5, <1>0, ObjectsAreNumbers, SourcesAreNames
     DEF Add, SetHealth, Goes, objectVars, switchVars, LifecycleInv,
         LifecycleTypeOK, RegistryInv, SwitchInv, ApartInv, Leaving, Coming,
         StatusInv, HandInv, HeldInv, OneHandInv, InHand
<1>6. ASSUME AddStarted
      PROVE  ~overlapped' => OneHandInv'
  BY <1>6, <1>0, ObjectsAreNumbers, SourcesAreNames
     DEF AddStarted, Started, SetHealth, Becomes, Goes, objectVars, switchVars,
         LifecycleInv, LifecycleTypeOK, RegistryInv, SwitchInv, ApartInv, Leaving,
         Coming, StatusInv, HandInv, HeldInv, OneHandInv, InHand
<1>7. ASSUME AddEnds
      PROVE  ~overlapped' => OneHandInv'
  BY <1>7, <1>0, ObjectsAreNumbers, SourcesAreNames
     DEF AddEnds, Unstarted, Deleted, Becomes, objectVars, switchVars, LifecycleInv,
         LifecycleTypeOK, RegistryInv, SwitchInv, ApartInv, Leaving, Coming,
         StatusInv, HandInv, HeldInv, OneHandInv, InHand
<1>8. ASSUME RetryBegins
      PROVE  ~overlapped' => OneHandInv'
  <2>1. SUFFICES ASSUME ~overlapped', switch.pc \in (Leaving \ {"remove"}) \cup Coming
                 PROVE  ~InHand(switch.plugin)'
    BY <1>8 DEF RetryBegins, switchVars, OneHandInv
  <2>2. /\ switch.plugin \in Objects /\ kindOf[switch.plugin] \in Names
        /\ registered[kindOf[switch.plugin]] = switch.plugin
    BY <1>0, <2>1, SourcesAreNames DEF LifecycleInv, LifecycleTypeOK, SwitchInv, Leaving, Coming
  <2>3. health[kindOf[switch.plugin]] # "error"
    BY <1>8, <2>1 DEF RetryBegins, Leaving, Coming
  <2>4. ASSUME NEW n \in Names, health[n] = "error", registered[n] = switch.plugin
        PROVE  FALSE
    BY <1>0, <2>2, <2>3, <2>4, ObjectsAreNumbers DEF LifecycleInv, RegistryInv
  <2>5. switch.plugin # NoPlugin
    BY <2>2, ObjectsAreNumbers
  <2>6. /\ retry'.plugin = NoPlugin /\ switch' = switch
        /\ retry'.left = {registered[n] : n \in {m \in Names : health[m] = "error"}} \ {NoPlugin}
    BY <1>8 DEF RetryBegins, switchVars
  <2>7. QED
    BY <2>4, <2>5, <2>6 DEF InHand
<1>9. ASSUME RetryNext
      PROVE  ~overlapped' => OneHandInv'
  BY <1>9, <1>0, ObjectsAreNumbers, SourcesAreNames
     DEF RetryNext, RetryTakes, RetryEnds, SetHealth, objectVars, switchVars,
         LifecycleInv, LifecycleTypeOK, RegistryInv, SwitchInv, ApartInv, Leaving,
         Coming, StatusInv, HandInv, HeldInv, OneHandInv, InHand
<1>10. ASSUME RetryStopped
      PROVE  ~overlapped' => OneHandInv'
  BY <1>10, <1>0, ObjectsAreNumbers, SourcesAreNames
     DEF RetryStopped, Stopped, SetHealth, Becomes, RetryGoes, objectVars,
         switchVars, LifecycleInv, LifecycleTypeOK, RegistryInv, SwitchInv,
         ApartInv, Leaving, Coming, StatusInv, HandInv, HeldInv, OneHandInv, InHand
<1>11. ASSUME RetryStarts
      PROVE  ~overlapped' => OneHandInv'
  BY <1>11, <1>0, ObjectsAreNumbers, SourcesAreNames
     DEF RetryStarts, RetryEnds, RetryGoes, SetHealth, objectVars, switchVars,
         LifecycleInv, LifecycleTypeOK, RegistryInv, SwitchInv, ApartInv, Leaving,
         Coming, StatusInv, HandInv, HeldInv, OneHandInv, InHand
<1>12. ASSUME RetryStarted
      PROVE  ~overlapped' => OneHandInv'
  BY <1>12, <1>0, ObjectsAreNumbers, SourcesAreNames
     DEF RetryStarted, Started, SetHealth, Becomes, objectVars, switchVars,
         LifecycleInv, LifecycleTypeOK, RegistryInv, SwitchInv, ApartInv, Leaving,
         Coming, StatusInv, HandInv, HeldInv, OneHandInv, InHand
<1>13. ASSUME NEW n \in Names, ProbeAsks(n)
      PROVE  ~overlapped' => OneHandInv'
  BY <1>13, <1>0, ObjectsAreNumbers, SourcesAreNames
     DEF ProbeAsks, objectVars, switchVars, LifecycleInv, LifecycleTypeOK,
         RegistryInv, SwitchInv, ApartInv, Leaving, Coming, StatusInv, HandInv,
         HeldInv, OneHandInv, InHand
<1>14. ASSUME ProbeAnswered
      PROVE  ~overlapped' => OneHandInv'
  BY <1>14, <1>0, ObjectsAreNumbers, SourcesAreNames
     DEF ProbeAnswered, objectVars, switchVars, LifecycleInv, LifecycleTypeOK,
         RegistryInv, SwitchInv, ApartInv, Leaving, Coming, StatusInv, HandInv,
         HeldInv, OneHandInv, InHand
<1>15. ASSUME ProbeForgotten
      PROVE  ~overlapped' => OneHandInv'
  BY <1>15, <1>0, ObjectsAreNumbers, SourcesAreNames
     DEF ProbeForgotten, objectVars, switchVars, LifecycleInv, LifecycleTypeOK,
         RegistryInv, SwitchInv, ApartInv, Leaving, Coming, StatusInv, HandInv,
         HeldInv, OneHandInv, InHand
<1>16. ASSUME Shutdown
      PROVE  ~overlapped' => OneHandInv'
  BY <1>16, <1>0, ObjectsAreNumbers, SourcesAreNames
     DEF Shutdown, RetryEnds, Becomes, objectVars, switchVars, LifecycleInv,
         LifecycleTypeOK, RegistryInv, SwitchInv, ApartInv, Leaving, Coming,
         StatusInv, HandInv, HeldInv, OneHandInv, InHand
<1>17. ASSUME StopAll
      PROVE  ~overlapped' => OneHandInv'
  BY <1>17, <1>0, ObjectsAreNumbers, SourcesAreNames
     DEF StopAll, objectVars, switchVars, LifecycleInv, LifecycleTypeOK,
         RegistryInv, SwitchInv, ApartInv, Leaving, Coming, StatusInv, HandInv,
         HeldInv, OneHandInv, InHand, DownInv
<1>18. CASE UNCHANGED lifecycleVars
  BY <1>18, <1>0, ObjectsAreNumbers, SourcesAreNames
     DEF lifecycleVars, objectVars, switchVars, LifecycleInv, LifecycleTypeOK,
         RegistryInv, SwitchInv, ApartInv, Leaving, Coming, StatusInv, HandInv,
         HeldInv, OneHandInv, InHand
<1>19. QED
  BY <1>1, <1>2, <1>3, <1>4, <1>5, <1>6, <1>7, <1>8, <1>9, <1>10, <1>11, <1>12, <1>13,
     <1>14, <1>15, <1>16, <1>17, <1>18
     DEF LifecycleNext

\* Nobody else changes the status of what is in hand.
LEMMA CalledStep == ASSUME LifecycleInv, [LifecycleNext]_lifecycleVars
                  PROVE  ~overlapped' => CalledInv'
<1>0. LifecycleInv /\ LifecycleTypeOK
  BY DEF LifecycleInv
<1>1. ASSUME NEW target \in Sources, Switch(target)
      PROVE  ~overlapped' => CalledInv'
  BY <1>1, <1>0, ObjectsAreNumbers, SourcesAreNames
     DEF Switch, Goes, HasSource, SourceNow, objectVars, switchVars, LifecycleInv,
         LifecycleTypeOK, RegistryInv, SwitchInv, ApartInv, Leaving, Coming,
         StatusInv, HandInv, HeldInv, OneHandInv, InHand, CalledInv, EscapeInv
<1>2. ASSUME RemovePlugin
      PROVE  ~overlapped' => CalledInv'
  <2>1. SUFFICES ASSUME ~overlapped' PROVE CalledInv'
    OBVIOUS
  <2>2. ~overlapped /\ ~InHand(switch.plugin)
    BY <1>2, <1>0, <2>1 DEF RemovePlugin, LifecycleInv, ApartInv, HandInv, OneHandInv, Leaving, Coming
  <2>3. ASSUME retry.pc = "starting"
        PROVE  /\ kindOf[retry.plugin] \in Names /\ kindOf[retry.plugin] # kindOf[switch.plugin]
               /\ health[kindOf[retry.plugin]] = "starting"
    BY <1>2, <1>0, <2>2, <2>3, NamesApart, StartingInHand
       DEF RemovePlugin, LifecycleInv, ApartInv, HandInv, CalledInv, Leaving, Coming
  <2>4. switch.plugin \in Objects /\ kindOf[switch.plugin] \in Names
    BY <1>2, <1>0, SourcesAreNames
       DEF RemovePlugin, LifecycleInv, LifecycleTypeOK, SwitchInv, Leaving, Coming
  <2>5. health[kindOf[switch.plugin]] = "stopped" => alive[switch.plugin] = "off"
    BY <1>2, <1>0, <2>2, <2>4, ObjectsAreNumbers
       DEF RemovePlugin, LifecycleInv, SwitchInv, ApartInv, StatusInv, Leaving
  <2>6. QED
    BY <1>2, <1>0, <2>5, <2>2, <2>3, <2>4 DEF RemovePlugin, SetHealth, Goes, switchVars, CalledInv, LifecycleTypeOK
<1>3. ASSUME RemoveStopped
      PROVE  ~overlapped' => CalledInv'
  <2>1. SUFFICES ASSUME ~overlapped' PROVE CalledInv'
    OBVIOUS
  <2>2. ~overlapped /\ ~InHand(switch.plugin)
    BY <1>3, <1>0, <2>1 DEF RemoveStopped, LifecycleInv, ApartInv, HandInv, OneHandInv, Leaving, Coming
  <2>3. ASSUME retry.pc = "starting"
        PROVE  /\ kindOf[retry.plugin] \in Names /\ kindOf[retry.plugin] # kindOf[switch.plugin]
               /\ health[kindOf[retry.plugin]] = "starting"
    BY <1>3, <1>0, <2>2, <2>3, NamesApart, StartingInHand
       DEF RemoveStopped, LifecycleInv, ApartInv, HandInv, CalledInv, Leaving, Coming
  <2>4. switch.plugin \in Objects /\ kindOf[switch.plugin] \in Names
    BY <1>3, <1>0, SourcesAreNames
       DEF RemoveStopped, LifecycleInv, LifecycleTypeOK, SwitchInv, Leaving, Coming
  <2>5. QED
    BY <1>3, <1>0, <2>2, <2>3, <2>4 DEF RemoveStopped, Stopped, SetHealth, Becomes, Goes, CalledInv, LifecycleTypeOK
<1>4. ASSUME Unregister
      PROVE  ~overlapped' => CalledInv'
  BY <1>4, <1>0, ObjectsAreNumbers, SourcesAreNames
     DEF Unregister, Deleted, Goes, objectVars, switchVars, LifecycleInv,
         LifecycleTypeOK, RegistryInv, SwitchInv, ApartInv, Leaving, Coming,
         StatusInv, HandInv, HeldInv, OneHandInv, InHand, CalledInv, EscapeInv
<1>5. ASSUME Add
      PROVE  ~overlapped' => CalledInv'
  BY <1>5, <1>0, ObjectsAreNumbers, SourcesAreNames
     DEF Add, SetHealth, Goes, objectVars, switchVars, LifecycleInv,
         LifecycleTypeOK, RegistryInv, SwitchInv, ApartInv, Leaving, Coming,
         StatusInv, HandInv, HeldInv, OneHandInv, InHand, CalledInv, EscapeInv
<1>6. ASSUME AddStarted
      PROVE  ~overlapped' => CalledInv'
  <2>1. SUFFICES ASSUME ~overlapped' PROVE CalledInv'
    OBVIOUS
  <2>2. ~overlapped /\ ~InHand(switch.plugin)
    BY <1>6, <1>0, <2>1 DEF AddStarted, LifecycleInv, ApartInv, HandInv, OneHandInv, Leaving, Coming
  <2>3. ASSUME retry.pc = "starting"
        PROVE  /\ kindOf[retry.plugin] \in Names /\ kindOf[retry.plugin] # kindOf[switch.plugin]
               /\ health[kindOf[retry.plugin]] = "starting"
    BY <1>6, <1>0, <2>2, <2>3, NamesApart, StartingInHand
       DEF AddStarted, LifecycleInv, ApartInv, HandInv, CalledInv, Leaving, Coming
  <2>4. switch.plugin \in Objects /\ kindOf[switch.plugin] \in Names
    BY <1>6, <1>0, SourcesAreNames
       DEF AddStarted, LifecycleInv, LifecycleTypeOK, SwitchInv, Leaving, Coming
  <2>5. QED
    BY <1>6, <1>0, <2>2, <2>3, <2>4 DEF AddStarted, Started, SetHealth, Becomes, Goes, CalledInv, LifecycleTypeOK
<1>7. ASSUME AddEnds
      PROVE  ~overlapped' => CalledInv'
  <2>1. SUFFICES ASSUME ~overlapped', retry.pc = "starting"
                 PROVE  health'[kindOf[retry.plugin]] = "starting"
    BY <1>7 DEF AddEnds, Unstarted, CalledInv
  <2>2. /\ ~overlapped /\ ~InHand(switch.plugin)
        /\ health[kindOf[retry.plugin]] = "starting"
    BY <1>7, <1>0, <2>1 DEF AddEnds, LifecycleInv, ApartInv, HandInv, OneHandInv, CalledInv, Coming
  <2>3. kindOf[retry.plugin] \in Names /\ kindOf[retry.plugin] # kindOf[switch.plugin]
    BY <1>7, <1>0, <2>1, <2>2, NamesApart, StartingInHand DEF AddEnds, Coming
  <2>4. QED
    BY <1>7, <1>0, <2>2, <2>3 DEF AddEnds, Deleted, objectVars, LifecycleTypeOK
<1>8. ASSUME RetryBegins
      PROVE  ~overlapped' => CalledInv'
  BY <1>8, <1>0, ObjectsAreNumbers, SourcesAreNames
     DEF RetryBegins, objectVars, switchVars, LifecycleInv, LifecycleTypeOK,
         RegistryInv, SwitchInv, ApartInv, Leaving, Coming, StatusInv, HandInv,
         HeldInv, OneHandInv, InHand, CalledInv, EscapeInv
<1>9. ASSUME RetryNext
      PROVE  ~overlapped' => CalledInv'
  BY <1>9, <1>0, ObjectsAreNumbers, SourcesAreNames
     DEF RetryNext, RetryTakes, RetryEnds, SetHealth, objectVars, switchVars,
         LifecycleInv, LifecycleTypeOK, RegistryInv, SwitchInv, ApartInv, Leaving,
         Coming, StatusInv, HandInv, HeldInv, OneHandInv, InHand, CalledInv,
         EscapeInv
<1>10. ASSUME RetryStopped
      PROVE  ~overlapped' => CalledInv'
  BY <1>10, <1>0, ObjectsAreNumbers, SourcesAreNames
     DEF RetryStopped, Stopped, SetHealth, Becomes, RetryGoes, objectVars,
         switchVars, LifecycleInv, LifecycleTypeOK, RegistryInv, SwitchInv,
         ApartInv, Leaving, Coming, StatusInv, HandInv, HeldInv, OneHandInv, InHand,
         CalledInv, EscapeInv
<1>11. ASSUME RetryStarts
      PROVE  ~overlapped' => CalledInv'
  BY <1>11, <1>0, ObjectsAreNumbers, SourcesAreNames
     DEF RetryStarts, RetryEnds, RetryGoes, SetHealth, objectVars, switchVars,
         LifecycleInv, LifecycleTypeOK, RegistryInv, SwitchInv, ApartInv, Leaving,
         Coming, StatusInv, HandInv, HeldInv, OneHandInv, InHand, CalledInv,
         EscapeInv
<1>12. ASSUME RetryStarted
      PROVE  ~overlapped' => CalledInv'
  <2>1. SUFFICES ASSUME ~overlapped PROVE CalledInv'
    BY <1>12 DEF RetryStarted
  <2>2. ASSUME switch.pc \in (Leaving \ {"remove"}) \cup Coming
        PROVE  /\ health'[kindOf[switch.plugin]] = health[kindOf[switch.plugin]]
               /\ alive'[switch.plugin] = alive[switch.plugin]
    <3>1. ~InHand(switch.plugin)
      BY <1>0, <2>1, <2>2 DEF LifecycleInv, ApartInv, HandInv, OneHandInv
    <3>2. /\ kindOf[retry.plugin] # kindOf[switch.plugin] /\ retry.plugin # switch.plugin
          /\ switch.plugin \in Objects /\ kindOf[switch.plugin] \in Names
      BY <1>12, <1>0, <2>1, <2>2, <3>1, NamesApart, StartingInHand DEF RetryStarted
    <3>3. QED
      BY <1>12, <1>0, <3>2 DEF RetryStarted, Started, SetHealth, Becomes, LifecycleTypeOK
  <2>3. retry'.pc = "next" /\ UNCHANGED <<switch, kindOf>>
    BY <1>12 DEF RetryStarted, switchVars
  <2>4. CalledInv
    BY <1>0, <2>1 DEF LifecycleInv, ApartInv, HandInv
  <2>5. QED
    BY <2>2, <2>3, <2>4 DEF CalledInv, Leaving, Coming
<1>13. ASSUME NEW n \in Names, ProbeAsks(n)
      PROVE  ~overlapped' => CalledInv'
  BY <1>13, <1>0, ObjectsAreNumbers, SourcesAreNames
     DEF ProbeAsks, objectVars, switchVars, LifecycleInv, LifecycleTypeOK,
         RegistryInv, SwitchInv, ApartInv, Leaving, Coming, StatusInv, HandInv,
         HeldInv, OneHandInv, InHand, CalledInv, EscapeInv
<1>14. ASSUME ProbeAnswered
      PROVE  ~overlapped' => CalledInv'
  BY <1>14, <1>0, ObjectsAreNumbers, SourcesAreNames
     DEF ProbeAnswered, objectVars, switchVars, LifecycleInv, LifecycleTypeOK,
         RegistryInv, SwitchInv, ApartInv, Leaving, Coming, StatusInv, HandInv,
         HeldInv, OneHandInv, InHand, CalledInv, EscapeInv
<1>15. ASSUME ProbeForgotten
      PROVE  ~overlapped' => CalledInv'
  BY <1>15, <1>0, ObjectsAreNumbers, SourcesAreNames
     DEF ProbeForgotten, objectVars, switchVars, LifecycleInv, LifecycleTypeOK,
         RegistryInv, SwitchInv, ApartInv, Leaving, Coming, StatusInv, HandInv,
         HeldInv, OneHandInv, InHand, CalledInv, EscapeInv
<1>16. ASSUME Shutdown
      PROVE  ~overlapped' => CalledInv'
  BY <1>16, <1>0, ObjectsAreNumbers, SourcesAreNames
     DEF Shutdown, RetryEnds, Becomes, objectVars, switchVars, LifecycleInv,
         LifecycleTypeOK, RegistryInv, SwitchInv, ApartInv, Leaving, Coming,
         StatusInv, HandInv, HeldInv, OneHandInv, InHand, CalledInv, EscapeInv
<1>17. ASSUME StopAll
      PROVE  ~overlapped' => CalledInv'
  BY <1>17, <1>0, ObjectsAreNumbers, SourcesAreNames
     DEF StopAll, objectVars, switchVars, LifecycleInv, LifecycleTypeOK,
         RegistryInv, SwitchInv, ApartInv, Leaving, Coming, StatusInv, HandInv,
         HeldInv, OneHandInv, InHand, CalledInv, EscapeInv, DownInv
<1>18. CASE UNCHANGED lifecycleVars
  BY <1>18, <1>0, ObjectsAreNumbers, SourcesAreNames
     DEF lifecycleVars, objectVars, switchVars, LifecycleInv, LifecycleTypeOK,
         RegistryInv, SwitchInv, ApartInv, Leaving, Coming, StatusInv, HandInv,
         HeldInv, OneHandInv, InHand, CalledInv, EscapeInv
<1>19. QED
  BY <1>1, <1>2, <1>3, <1>4, <1>5, <1>6, <1>7, <1>8, <1>9, <1>10, <1>11, <1>12, <1>13,
     <1>14, <1>15, <1>16, <1>17, <1>18
     DEF LifecycleNext

-----------------------------------------------------------------------------
(* The theorems.                                                            *)

\* The inductive invariant holds when start_all has ended.
LEMMA LifecycleInvInit == LifecycleInit => LifecycleInv
<1>1. SUFFICES ASSUME LifecycleInit PROVE LifecycleInv
  OBVIOUS
<1>2. /\ 1 \in Objects /\ 2 \in Objects /\ NoPlugin \notin Objects
      /\ savedSource \in Sources /\ savedSource \in Names /\ savedSource # "outputs"
  BY <1>1, ObjectsAreNumbers, SourcesAreNames DEF LifecycleInit
<1>3. /\ kindOf \in [Objects -> Names \cup {NoPlugin}]
      /\ kindOf[1] = savedSource /\ kindOf[2] = "outputs"
      /\ registered \in [Names -> Objects \cup {NoPlugin}]
      /\ registered[savedSource] = 1 /\ registered["outputs"] = 2
      /\ \A n \in Names \ {savedSource, "outputs"} : registered[n] = NoPlugin
  BY <1>1, <1>2, SourcesAreNames DEF LifecycleInit
<1>4. PICK failed \in SUBSET {1, 2} :
          /\ health = [n \in Names |-> IF registered[n] = NoPlugin THEN "absent"
                                       ELSE IF registered[n] \in failed THEN "error" ELSE "running"]
          /\ alive = [o \in Objects |-> IF o > 2 THEN "off"
                                        ELSE IF o \in failed THEN "half" ELSE "on"]
  BY <1>1 DEF LifecycleInit
<1>5. /\ health \in [Names -> Health] /\ alive \in [Objects -> {"off", "on", "half"}]
      /\ \A n \in Names : /\ registered[n] = NoPlugin => health[n] = "absent"
                          /\ health[n] = "running" => registered[n] # NoPlugin /\ alive[registered[n]] = "on"
                          /\ health[n] \in {"absent", "error", "running"}
      /\ \A o \in Objects : alive[o] # "off" => o \in {1, 2}
  BY <1>2, <1>3, <1>4, ObjectsAreNumbers DEF Health
<1>6. /\ switch = [pc |-> "idle", plugin |-> NoPlugin]
      /\ retry = [pc |-> "waiting", plugin |-> NoPlugin, left |-> {}]
      /\ probe = [pc |-> "none", name |-> "outputs"]
      /\ spent = 2 /\ program = "up" /\ overlapped = FALSE /\ failedStart = FALSE
  BY <1>1 DEF LifecycleInit, Unstarted
<1>7. LifecycleTypeOK
  BY <1>2, <1>3, <1>5, <1>6, SourcesAreNames DEF LifecycleTypeOK, Leaving, Coming
<1>8. RegistryInv
  BY <1>2, <1>3, <1>6 DEF RegistryInv
<1>9. SwitchInv /\ DownInv
  BY <1>2, <1>3, <1>6, SourcesAreNames
     DEF SwitchInv, DownInv, OneSource, LastSaveWins, Leaving, Coming
<1>10. StatusInv /\ EscapeInv /\ NothingPretends /\ NothingLeft
  BY <1>2, <1>3, <1>5, <1>6, SourcesAreNames
     DEF StatusInv, EscapeInv, NothingPretends, NothingLeft
<1>11. HandInv
  BY <1>2, <1>6 DEF HandInv, HeldInv, OneHandInv, CalledInv, InHand, Leaving, Coming
<1>12. QED
  BY <1>7, <1>8, <1>9, <1>10, <1>11 DEF LifecycleInv, ApartInv

\* Every step keeps it.
LEMMA LifecycleInvStep == LifecycleInv /\ [LifecycleNext]_lifecycleVars => LifecycleInv'
BY TypeStep, RegistryStep, SwitchStep, DownStep, StatusStep, EscapeStep, PretendStep,
   LeftStep, HeldStep, OneHandStep, CalledStep
   DEF LifecycleInv, ApartInv, HandInv

\* The inductive invariant holds of every state.
THEOREM LifecycleInvariant == LifecycleSpec => []LifecycleInv
BY LifecycleInvInit, LifecycleInvStep, PTL DEF LifecycleSpec

\* For any number of switches, and whatever starts and stops fail: one source at a time,
\* and, unless the retry and a switch had the same plugin in hand, nothing runs that is not
\* registered, nothing is said to run that does not, nothing outlives the program, and the
\* source saved last is the one registered (core/plugin.py, services/service_source.py).
THEOREM PluginsAlwaysAgree == LifecycleSpec => []PluginsAgree
<1>1. LifecycleInv => PluginsAgree
  BY DEF LifecycleInv, SwitchInv, ApartInv, EscapeInv, PluginsAgree, NothingEscapes
<1>2. QED
  BY <1>1, LifecycleInvariant, PTL

-----------------------------------------------------------------------------
(* The inductive invariant of the lengths (LengthUndo).                     *)

Change == [old: Lengths, new: Measured]
JobRecord ==
    [records: [LengthSongs -> UndoRecord \cup Change \cup {None}], restoring: BOOLEAN,
     at: 1 .. N + 1, pc: {"look", "write", "verify"}, expected: Lengths \cup {None},
     prior: UndoRecord \cup {None}, finished: SUBSET LengthSongs, whole: BOOLEAN]

\* Every variable that the argument is about has its type.
LengthTypeOK ==
    /\ planLengths \in [LengthSongs -> Lengths]
    /\ before \in [LengthSongs -> Lengths \ Measured]
    /\ crossed \subseteq LengthSongs
    /\ undo \in [LengthSongs -> UndoRecord \cup {None}]
    /\ preview # None => preview.changes \in [LengthSongs -> Change \cup {None}]
    /\ work # None => work \in JobRecord

\* A length that somebody typed is not newer than the last one typed for the song.
Known(i, length) == length \in Typed => length <= before[i]
KnownRecord(i, record) == record # None => Known(i, record.old) /\ Known(i, record.pending)
AgeInv ==
    /\ \A i \in LengthSongs : Known(i, planLengths[i]) /\ KnownRecord(i, undo[i])
    /\ Reached("write") =>
           Known(work.at, work.expected) /\ KnownRecord(work.at, work.prior)

\* A record that was made over a person's length holds that length.
Keeps(i, record) == record # None /\ record.pending = before[i] => record.old = before[i]
PendingInv ==
    /\ \A i \in LengthSongs \ crossed : Keeps(i, undo[i])
    /\ Reached("write") /\ work.at \notin crossed => Keeps(work.at, work.prior)

\* Does the record give back what a person had given the song?
GivesBack(i, record, length) ==
    length # before[i] => record # None /\ record.old = before[i] /\ Recorded(record, length)

\* A restore works on the records as they are, and a song it is done with is back.
RestoreInv ==
    work # None /\ work.restoring =>
        /\ work.records = undo
        /\ \A i \in work.finished : i < work.at /\ (i \notin crossed => planLengths[i] = before[i])
        /\ Reached("write") =>
               /\ Record # None /\ Recorded(Record, work.expected)
               /\ work.expected # None
               /\ work.at \notin crossed => planLengths[work.at] \in {work.expected, before[work.at]}
        /\ Reached("verify") =>
               Record # None /\ (work.at \notin crossed => planLengths[work.at] = before[work.at])

\* An update has put its record into the file before it writes, and can take it back.
UpdateInv ==
    work # None /\ ~work.restoring =>
        /\ work.records \in [LengthSongs -> Change \cup {None}]
        /\ work.finished = {}
        /\ Reached("write") \/ Reached("verify") =>
               Record # None /\ undo[work.at] # None /\ undo[work.at].new = Record.new
        /\ Reached("write") =>
               /\ undo[work.at].pending = work.expected
               /\ work.at \notin crossed =>
                      /\ planLengths[work.at] \in {work.expected, before[work.at]}
                      /\ planLengths[work.at] = work.expected =>
                             GivesBack(work.at, work.prior, work.expected)

LengthInv ==
    LengthTypeOK /\ AgeInv /\ PendingInv /\ RestoreInv /\ UpdateInv /\ CanBeGivenBack

-----------------------------------------------------------------------------
(* Lemmas about jobs and records.                                           *)

\* The fields of a record of the file.
LEMMA UndoFields ==
  ASSUME NEW r \in UndoRecord
  PROVE  /\ r.old \in Lengths /\ r.new \in Measured /\ r.pending \in Lengths \cup {None}
         /\ r # None
BY NoneIsNoRecord DEF UndoRecord

\* The fields of a job, and of the records that it goes through.
LEMMA JobFields ==
  ASSUME LengthTypeOK, work # None
  PROVE  /\ work \in JobRecord /\ work.at \in 1 .. N + 1
         /\ work.records \in [LengthSongs -> UndoRecord \cup Change \cup {None}]
         /\ work.restoring \in BOOLEAN /\ work.prior \in UndoRecord \cup {None}
         /\ work.expected \in Lengths \cup {None} /\ work.finished \in SUBSET LengthSongs
         /\ work.at \in LengthSongs /\ Record # None =>
                Record.old \in Lengths /\ Record.new \in Measured
BY DEF LengthTypeOK, JobRecord, Record, UndoRecord, Change

\* The next song.
LEMMA OnwardFields ==
  ASSUME LengthTypeOK, work # None, work.at \in LengthSongs
  PROVE  /\ Onward \in JobRecord
         /\ Onward.at = work.at + 1 /\ Onward.pc = "look" /\ Onward.records = work.records
         /\ Onward.restoring = work.restoring /\ Onward.finished = work.finished
<1>1. work.at + 1 \in 1 .. N + 1
  BY LengthAssumption DEF LengthSongs
<1>2. ASSUME NEW n \in 1 .. N + 1
      PROVE  [work EXCEPT !.at = n, !.pc = "look"] \in JobRecord
  BY DEF LengthTypeOK, JobRecord
<1>3. Onward = [work EXCEPT !.at = work.at + 1, !.pc = "look"]
  BY DEF Onward, LengthTypeOK, JobRecord
<1>4. Onward \in JobRecord
  BY <1>1, <1>2, <1>3
<1>5. QED
  BY <1>3, <1>4 DEF LengthTypeOK, JobRecord

\* A job that is broken off has reached no song.
LEMMA HaltedFields ==
  ASSUME LengthTypeOK, work # None
  PROVE  /\ Halted \in JobRecord
         /\ Halted.at = N + 1 /\ Halted.at \notin LengthSongs /\ Halted.records = work.records
         /\ Halted.restoring = work.restoring /\ Halted.finished = work.finished
         /\ Halted.pc = work.pc
<1>1. N + 1 \in 1 .. N + 1 /\ N + 1 \notin LengthSongs
  BY LengthAssumption DEF LengthSongs
<1>2. ASSUME NEW n \in 1 .. N + 1
      PROVE  [work EXCEPT !.at = n, !.whole = FALSE] \in JobRecord
  BY DEF LengthTypeOK, JobRecord
<1>3. Halted \in JobRecord
  BY <1>1, <1>2 DEF Halted
<1>4. QED
  BY <1>1, <1>3 DEF LengthTypeOK, JobRecord, Halted

\* A song that is done with.
LEMMA SettledFields ==
  ASSUME LengthTypeOK, work # None, work.at \in LengthSongs
  PROVE  /\ Settled \in JobRecord
         /\ Settled.at = work.at + 1 /\ Settled.pc = "look" /\ Settled.records = work.records
         /\ Settled.restoring = work.restoring
         /\ Settled.finished = IF work.restoring THEN work.finished \cup {work.at}
                               ELSE work.finished
<1>1. CASE ~work.restoring
  BY <1>1, OnwardFields DEF Settled
<1>2. CASE work.restoring
  <2>1. Onward \in JobRecord /\ work.finished \cup {work.at} \in SUBSET LengthSongs
    BY OnwardFields, JobFields
  <2>2. Settled = [Onward EXCEPT !.finished = work.finished \cup {work.at}]
    BY <1>2, OnwardFields DEF Settled
  <2>3. QED
    BY <1>2, <2>1, <2>2, OnwardFields DEF JobRecord
<1>3. QED
  BY <1>1, <1>2, JobFields

\* A job that is about to write keeps what it has seen and what it may put back.
LEMMA WriteFields ==
  ASSUME LengthTypeOK, work # None, NEW e \in Lengths, NEW r \in UndoRecord \cup {None}
  PROVE  LET w == [work EXCEPT !.pc = "write", !.expected = e, !.prior = r] IN
         /\ w \in JobRecord
         /\ w.pc = "write" /\ w.expected = e /\ w.prior = r /\ w.at = work.at
         /\ w.records = work.records /\ w.restoring = work.restoring
         /\ w.finished = work.finished
<1>1. [work EXCEPT !.pc = "write", !.expected = e, !.prior = r] \in JobRecord
  BY DEF LengthTypeOK, JobRecord
<1>2. QED
  BY <1>1 DEF LengthTypeOK, JobRecord

\* A job that has written.
LEMMA VerifyFields ==
  ASSUME LengthTypeOK, work # None
  PROVE  LET w == [work EXCEPT !.pc = "verify"] IN
         /\ w \in JobRecord
         /\ w.pc = "verify" /\ w.at = work.at /\ w.records = work.records
         /\ w.restoring = work.restoring /\ w.finished = work.finished
<1>1. [work EXCEPT !.pc = "verify"] \in JobRecord
  BY DEF LengthTypeOK, JobRecord
<1>2. QED
  BY <1>1 DEF LengthTypeOK, JobRecord

\* The record of a write.
LEMMA RecordMade ==
  ASSUME LengthTypeOK, work # None, work.at \in LengthSongs, Record # None,
         Expected \in Lengths, NEW r \in UndoRecord \cup {None}
  PROVE  /\ NewRecord(r) \in UndoRecord
         /\ NewRecord(r).old = IF r = None THEN Expected ELSE r.old
         /\ NewRecord(r).new = Record.new /\ NewRecord(r).pending = Expected
BY UndoFields, JobFields DEF NewRecord, UndoRecord

\* The record of a write that was seen to be there.
LEMMA RecordVerified ==
  ASSUME NEW r \in UndoRecord
  PROVE  LET v == [r EXCEPT !.pending = None] IN
         v \in UndoRecord /\ v.old = r.old /\ v.new = r.new /\ v.pending = None
BY DEF UndoRecord

\* What a look decides.
LEMMA LookCases ==
  ASSUME LengthTypeOK, Look
  PROVE  /\ work # None /\ work.at \in LengthSongs /\ work.pc = "look" /\ Record # None
         /\ UNCHANGED <<planLengths, before, crossed, marked, preview, dialog, previews>>
         /\ \/ planLengths[work.at] # Expected /\ work' = Settled /\ undo' = undo
            \/ ~work.restoring /\ work' = Onward /\ undo' = undo
            \/ /\ planLengths[work.at] = Expected
               /\ work' \in JobRecord /\ work'.pc = "write" /\ work'.expected = Expected
               /\ work'.prior = undo[work.at] /\ work'.at = work.at
               /\ work'.records = work.records /\ work'.restoring = work.restoring
               /\ work'.finished = work.finished
               /\ work.restoring => undo' = undo
               /\ ~work.restoring =>
                      /\ ~Foreign(work.at, Expected)
                      /\ undo' \in [LengthSongs -> UndoRecord \cup {None}]
                      /\ undo'[work.at] = NewRecord(undo[work.at])
                      /\ NewRecord(undo[work.at]) \in UndoRecord
                      /\ \A i \in LengthSongs \ {work.at} : undo'[i] = undo[i]
<1>1. /\ work # None /\ work.at \in LengthSongs /\ work.pc = "look" /\ Record # None
      /\ UNCHANGED <<planLengths, before, crossed, marked, preview, dialog, previews>>
  BY DEF Look, Reached, planVars, pageVars
<1>2. CASE planLengths[work.at] # Expected
  BY <1>1, <1>2 DEF Look
<1>3. CASE planLengths[work.at] = Expected /\ ~work.restoring /\ Foreign(work.at, Expected)
  BY <1>1, <1>3 DEF Look
<1>4. CASE /\ planLengths[work.at] = Expected
           /\ work.restoring \/ ~Foreign(work.at, Expected)
  <2>1. Expected \in Lengths /\ undo[work.at] \in UndoRecord \cup {None}
    BY <1>1, <1>4 DEF LengthTypeOK
  <2>2. work' = [work EXCEPT !.pc = "write", !.expected = Expected, !.prior = undo[work.at]]
    BY <1>4 DEF Look
  <2>3. /\ work' \in JobRecord /\ work'.pc = "write" /\ work'.expected = Expected
        /\ work'.prior = undo[work.at] /\ work'.at = work.at
        /\ work'.records = work.records /\ work'.restoring = work.restoring
        /\ work'.finished = work.finished
    BY <1>1, <2>1, <2>2, WriteFields
  <2>4. NewRecord(undo[work.at]) \in UndoRecord
    BY <1>1, <2>1, RecordMade
  <2>5. QED
    BY <1>1, <1>4, <2>3, <2>4 DEF Look, LengthTypeOK
<1>5. QED
  BY <1>2, <1>3, <1>4

\* What a verification finds.
LEMMA VerifyCases ==
  ASSUME LengthTypeOK, UpdateInv, NEW yes \in BOOLEAN, Verify(yes)
  PROVE  /\ work # None /\ work.at \in LengthSongs /\ work.pc = "verify"
         /\ UNCHANGED <<planLengths, before, crossed, marked, preview, dialog, previews>>
         /\ \/ work' = Halted /\ undo' = undo
            \/ work' = Settled /\ work.restoring /\ undo' = undo
            \/ /\ work' = Settled /\ ~work.restoring /\ planLengths[work.at] = Record.new
               /\ undo' \in [LengthSongs -> UndoRecord \cup {None}]
               /\ undo[work.at] \in UndoRecord /\ undo'[work.at] \in UndoRecord
               /\ undo[work.at].new = Record.new /\ undo'[work.at].new = Record.new
               /\ undo'[work.at].old = undo[work.at].old /\ undo'[work.at].pending = None
               /\ \A i \in LengthSongs \ {work.at} : undo'[i] = undo[i]
<1>1. /\ work # None /\ work.at \in LengthSongs /\ work.pc = "verify"
      /\ UNCHANGED <<planLengths, before, crossed, marked, preview, dialog, previews>>
  BY DEF Verify, Reached, planVars, pageVars
<1>2. ~work.restoring => undo[work.at] \in UndoRecord /\ undo[work.at].new = Record.new
  BY <1>1 DEF UpdateInv, Reached, LengthTypeOK
<1>3. CASE yes /\ planLengths[work.at] = Target /\ ~work.restoring
  <2>1. undo' = [undo EXCEPT ![work.at] = [undo[work.at] EXCEPT !.pending = None]]
    BY <1>3 DEF Verify
  <2>2. [undo[work.at] EXCEPT !.pending = None] \in UndoRecord
    BY <1>2, <1>3, RecordVerified
  <2>3. /\ undo' \in [LengthSongs -> UndoRecord \cup {None}]
        /\ undo'[work.at] = [undo[work.at] EXCEPT !.pending = None]
        /\ \A i \in LengthSongs \ {work.at} : undo'[i] = undo[i]
    BY <1>1, <2>1, <2>2 DEF LengthTypeOK
  <2>4. /\ undo'[work.at] \in UndoRecord
        /\ undo'[work.at].new = Record.new
        /\ undo'[work.at].old = undo[work.at].old /\ undo'[work.at].pending = None
    BY <1>2, <1>3, <2>2, <2>3, RecordVerified
  <2>5. QED
    BY <1>1, <1>2, <1>3, <2>3, <2>4 DEF Verify, Target
<1>4. CASE ~(yes /\ planLengths[work.at] = Target /\ ~work.restoring)
  BY <1>1, <1>4 DEF Verify, Target
<1>5. QED
  BY <1>3, <1>4

\* A job begins with the first song.
LEMMA JobStarts ==
  ASSUME NEW records \in [LengthSongs -> UndoRecord \cup Change \cup {None}],
         NEW restoring \in BOOLEAN
  PROVE  /\ Job(records, restoring) \in JobRecord
         /\ Job(records, restoring).records = records
         /\ Job(records, restoring).restoring = restoring
         /\ Job(records, restoring).at = 1 /\ Job(records, restoring).pc = "look"
         /\ Job(records, restoring).finished = {}
<1>1. 1 \in 1 .. N + 1
  BY LengthAssumption
<1>2. QED
  BY <1>1 DEF Job, JobRecord

\* What a write puts into the plan.
LEMMA TargetKnown ==
  ASSUME LengthInv, Reached("write")
  PROVE  /\ Target \in Lengths /\ Known(work.at, Target)
         /\ work.restoring => Target = undo[work.at].old /\ undo[work.at] # None
         /\ ~work.restoring => Target \in Measured
<1>1. CASE work.restoring
  <2>1. Record = undo[work.at] /\ undo[work.at] \in UndoRecord
    BY <1>1 DEF LengthInv, LengthTypeOK, RestoreInv, Reached, Record
  <2>2. QED
    BY <1>1, <2>1, UndoFields DEF LengthInv, AgeInv, KnownRecord, Target, Reached
<1>2. CASE ~work.restoring
  <2>1. Record \in Change
    BY <1>2 DEF LengthInv, LengthTypeOK, UpdateInv, Reached, Record
  <2>2. QED
    BY <1>2, <2>1, LengthAssumption DEF Change, Target, Known, Lengths
<1>3. QED
  BY <1>1, <1>2

\* A song whose length is not what a restore expects is as a person left it.
LEMMA NothingToGiveBack ==
  ASSUME LengthInv, work # None, work.restoring, work.at \in LengthSongs \ crossed,
         Record # None, planLengths[work.at] # Expected
  PROVE  planLengths[work.at] = before[work.at]
<1>1. Record = undo[work.at] /\ undo[work.at] \in UndoRecord
  BY DEF LengthInv, LengthTypeOK, RestoreInv, Record
<1>2. planLengths[work.at] \in Lengths /\ None \notin Lengths
  BY LengthAssumption DEF LengthInv, LengthTypeOK, Lengths
<1>3. ~Recorded(undo[work.at], planLengths[work.at])
  BY <1>1, <1>2 DEF Expected, Recorded
<1>4. QED
  BY <1>3 DEF LengthInv, CanBeGivenBack

\* A restore that goes on to another song keeps what it has established.
LEMMA RestoreMovesOn ==
  ASSUME LengthInv, work # None, work.at \in LengthSongs,
         work'.restoring = work.restoring, work'.records = work.records,
         work.restoring => undo' = undo,
         before' = before, crossed \subseteq crossed',
         \A i \in LengthSongs \ {work.at} : planLengths'[i] = planLengths[i],
         work'.at \in 1 .. N + 1, work.at < work'.at,
         work'.pc = "look" \/ work'.at \notin LengthSongs,
         \/ work'.finished = work.finished
         \/ ~work.restoring
         \/ /\ work'.finished = work.finished \cup {work.at}
            /\ work.at \notin crossed' => planLengths'[work.at] = before[work.at]
  PROVE  RestoreInv'
<1>1. SUFFICES ASSUME work' # None, work.restoring
               PROVE  /\ work'.records = undo'
                      /\ \A i \in work'.finished :
                            i < work'.at /\ (i \notin crossed' => planLengths'[i] = before'[i])
                      /\ ~Reached("write")' /\ ~Reached("verify")'
  BY DEF RestoreInv
<1>2. work'.records = undo'
  BY <1>1 DEF LengthInv, RestoreInv
<1>3. ~Reached("write")' /\ ~Reached("verify")'
  BY DEF Reached
<1>4. ASSUME NEW i \in work.finished
      PROVE  i < work'.at /\ (i \notin crossed' => planLengths'[i] = before'[i])
  <2>1. i \in LengthSongs /\ i < work.at /\ (i \notin crossed => planLengths[i] = before[i])
    BY <1>1, <1>4, JobFields DEF LengthInv, RestoreInv
  <2>2. i \in Nat /\ work.at \in Nat /\ work'.at \in Nat
    BY <2>1, LengthAssumption DEF LengthSongs
  <2>3. QED
    BY <2>1, <2>2
<1>5. QED
  BY <1>1, <1>2, <1>3, <1>4

-----------------------------------------------------------------------------
(* The parts of the inductive invariant, each over one step.                *)

\* Every variable keeps its type.
LEMMA LengthTypeStep == ASSUME LengthInv, [LengthNext]_lengthVars
                PROVE  LengthTypeOK'
<1>0. LengthInv /\ LengthTypeOK
  BY DEF LengthInv
<1>1. ASSUME NEW lengths \in [LengthSongs -> Measured \cup {None}], NEW shown \in BOOLEAN,
             Preview(lengths, shown)
      PROVE  LengthTypeOK'
  BY <1>1, <1>0, LengthAssumption, NoneIsNoRecord, JobFields, UndoFields
     DEF Preview, Offered, planVars, pageVars, LengthInv, LengthTypeOK, UpdateInv,
         RestoreInv, Reached, Lengths, LengthSongs, Change
<1>2. ASSUME CloseDialog
      PROVE  LengthTypeOK'
  BY <1>2, <1>0, LengthAssumption, NoneIsNoRecord, JobFields, UndoFields
     DEF CloseDialog, planVars, pageVars, LengthInv, LengthTypeOK, UpdateInv,
         RestoreInv, Reached, Lengths, LengthSongs
<1>3. ASSUME NEW yes \in BOOLEAN, ConfirmUpdate(yes)
      PROVE  LengthTypeOK'
  <2>1. preview # None => preview.changes \in [LengthSongs -> UndoRecord \cup Change \cup {None}]
    BY <1>0 DEF LengthTypeOK
  <2>2. work' # None => work' \in JobRecord
    BY <1>3, <2>1, JobStarts DEF ConfirmUpdate
  <2>3. QED
    BY <1>3, <1>0, <2>2 DEF ConfirmUpdate, planVars, LengthTypeOK
<1>4. ASSUME Restore
      PROVE  LengthTypeOK'
  <2>1. undo \in [LengthSongs -> UndoRecord \cup Change \cup {None}]
    BY <1>0 DEF LengthTypeOK
  <2>2. work' \in JobRecord
    BY <1>4, <2>1, JobStarts DEF Restore
  <2>3. QED
    BY <1>4, <1>0, <2>2 DEF Restore, planVars, pageVars, LengthTypeOK
<1>5. ASSUME Rescan
      PROVE  LengthTypeOK'
  BY <1>5, <1>0, LengthAssumption, NoneIsNoRecord, JobFields, UndoFields
     DEF Rescan, planVars, pageVars, LengthInv, LengthTypeOK, UpdateInv, RestoreInv,
         Reached, Lengths, LengthSongs
<1>6. ASSUME Pass
      PROVE  LengthTypeOK'
  BY <1>6, <1>0, LengthAssumption, NoneIsNoRecord, JobFields, UndoFields, OnwardFields
     DEF Pass, Reached, planVars, pageVars, LengthInv, LengthTypeOK, UpdateInv,
         RestoreInv, Lengths, LengthSongs
<1>7. ASSUME Look
      PROVE  LengthTypeOK'
  BY <1>7, <1>0, LengthAssumption, NoneIsNoRecord, JobFields, UndoFields, OnwardFields,
     SettledFields, RecordMade, LookCases
     DEF planVars, pageVars, LengthInv, LengthTypeOK, UpdateInv, RestoreInv,
         Reached, Lengths, LengthSongs
<1>8. ASSUME Halt
      PROVE  LengthTypeOK'
  BY <1>8, <1>0, LengthAssumption, NoneIsNoRecord, JobFields, UndoFields, HaltedFields
     DEF Halt, Reached, planVars, pageVars, LengthInv, LengthTypeOK, UpdateInv,
         RestoreInv, Lengths, LengthSongs
<1>9. ASSUME Write
      PROVE  LengthTypeOK'
  BY <1>9, <1>0, LengthAssumption, NoneIsNoRecord, JobFields, UndoFields, VerifyFields
     DEF Write, Put, Reached, Target, planVars, pageVars, LengthInv, LengthTypeOK,
         UpdateInv, RestoreInv, Lengths, LengthSongs
<1>10. ASSUME Uncertain
      PROVE  LengthTypeOK'
  BY <1>10, <1>0, LengthAssumption, NoneIsNoRecord, JobFields, UndoFields, HaltedFields
     DEF Uncertain, Put, Reached, Target, planVars, pageVars, LengthInv,
         LengthTypeOK, UpdateInv, RestoreInv, Lengths, LengthSongs
<1>11. ASSUME Refused
      PROVE  LengthTypeOK'
  BY <1>11, <1>0, LengthAssumption, NoneIsNoRecord, JobFields, UndoFields, HaltedFields
     DEF Refused, Withdrawn, Reached, planVars, pageVars, LengthInv, LengthTypeOK,
         UpdateInv, RestoreInv, Lengths, LengthSongs
<1>12. ASSUME Conflict
      PROVE  LengthTypeOK'
  BY <1>12, <1>0, LengthAssumption, NoneIsNoRecord, JobFields, UndoFields, SettledFields
     DEF Conflict, Withdrawn, Reached, planVars, pageVars, LengthInv, LengthTypeOK,
         UpdateInv, RestoreInv, Lengths, LengthSongs
<1>13. ASSUME NEW yes \in BOOLEAN, Verify(yes)
      PROVE  LengthTypeOK'
  <2>1. UpdateInv
    BY <1>0 DEF LengthInv
  <2>2. work' \in JobRecord /\ undo' \in [LengthSongs -> UndoRecord \cup {None}]
    BY <1>13, <1>0, <2>1, VerifyCases, HaltedFields, SettledFields DEF LengthTypeOK
  <2>3. QED
    BY <1>13, <1>0, <2>1, <2>2, VerifyCases DEF LengthTypeOK
<1>14. ASSUME JobEnds
      PROVE  LengthTypeOK'
  BY <1>14, <1>0, LengthAssumption, NoneIsNoRecord, JobFields, UndoFields
     DEF JobEnds, planVars, pageVars, LengthInv, LengthTypeOK, UpdateInv,
         RestoreInv, Reached, Lengths, LengthSongs
<1>15. ASSUME StopJob
      PROVE  LengthTypeOK'
  BY <1>15, <1>0, LengthAssumption, NoneIsNoRecord, JobFields, UndoFields
     DEF StopJob, planVars, pageVars, LengthInv, LengthTypeOK, UpdateInv,
         RestoreInv, Reached, Lengths, LengthSongs
<1>16. ASSUME NEW i \in LengthSongs, NEW length \in Typed, EditLength(i, length)
      PROVE  LengthTypeOK'
  BY <1>16, <1>0, LengthAssumption, NoneIsNoRecord, JobFields, UndoFields
     DEF EditLength, planVars, pageVars, LengthInv, LengthTypeOK, UpdateInv,
         RestoreInv, Reached, Lengths, LengthSongs
<1>17. CASE UNCHANGED lengthVars
  BY <1>17, <1>0, LengthAssumption, NoneIsNoRecord, JobFields, UndoFields
     DEF lengthVars, planVars, pageVars, Reached, LengthInv, LengthTypeOK,
         UpdateInv, RestoreInv, Lengths, LengthSongs
<1>18. QED
  BY <1>1, <1>2, <1>3, <1>4, <1>5, <1>6, <1>7, <1>8, <1>9, <1>10, <1>11, <1>12, <1>13,
     <1>14, <1>15, <1>16, <1>17
     DEF LengthNext

\* Nothing becomes newer than what was typed last.
LEMMA AgeStep == ASSUME LengthInv, [LengthNext]_lengthVars
               PROVE  AgeInv'
<1>0. LengthInv /\ LengthTypeOK
  BY DEF LengthInv
<1>1. ASSUME NEW lengths \in [LengthSongs -> Measured \cup {None}], NEW shown \in BOOLEAN,
             Preview(lengths, shown)
      PROVE  AgeInv'
  BY <1>1, <1>0, LengthAssumption, NoneIsNoRecord, JobFields, UndoFields
     DEF Preview, Offered, planVars, pageVars, LengthInv, LengthTypeOK, UpdateInv,
         RestoreInv, Reached, AgeInv, Known, KnownRecord, Lengths
<1>2. ASSUME CloseDialog
      PROVE  AgeInv'
  BY <1>2, <1>0, LengthAssumption, NoneIsNoRecord, JobFields, UndoFields
     DEF CloseDialog, planVars, pageVars, LengthInv, LengthTypeOK, UpdateInv,
         RestoreInv, Reached, AgeInv, Known, KnownRecord, Lengths
<1>3. ASSUME NEW yes \in BOOLEAN, ConfirmUpdate(yes)
      PROVE  AgeInv'
  BY <1>3, <1>0, LengthAssumption, NoneIsNoRecord, JobFields, UndoFields
     DEF ConfirmUpdate, Job, planVars, pageVars, LengthInv, LengthTypeOK, UpdateInv,
         RestoreInv, Reached, AgeInv, Known, KnownRecord, Lengths
<1>4. ASSUME Restore
      PROVE  AgeInv'
  BY <1>4, <1>0, LengthAssumption, NoneIsNoRecord, JobFields, UndoFields
     DEF Restore, Job, planVars, pageVars, LengthInv, LengthTypeOK, UpdateInv,
         RestoreInv, Reached, AgeInv, Known, KnownRecord, Lengths
<1>5. ASSUME Rescan
      PROVE  AgeInv'
  BY <1>5, <1>0, LengthAssumption, NoneIsNoRecord, JobFields, UndoFields
     DEF Rescan, planVars, pageVars, LengthInv, LengthTypeOK, UpdateInv, RestoreInv,
         Reached, AgeInv, Known, KnownRecord, Lengths
<1>6. ASSUME Pass
      PROVE  AgeInv'
  BY <1>6, <1>0, LengthAssumption, NoneIsNoRecord, JobFields, UndoFields, OnwardFields
     DEF Pass, Reached, planVars, pageVars, LengthInv, LengthTypeOK, UpdateInv,
         RestoreInv, AgeInv, Known, KnownRecord, Lengths
<1>7. ASSUME Look
      PROVE  AgeInv'
  BY <1>7, <1>0, LengthAssumption, NoneIsNoRecord, JobFields, UndoFields, OnwardFields,
     SettledFields, RecordMade, LookCases
     DEF planVars, pageVars, LengthInv, LengthTypeOK, UpdateInv, RestoreInv,
         Reached, AgeInv, Known, KnownRecord, Lengths
<1>8. ASSUME Halt
      PROVE  AgeInv'
  BY <1>8, <1>0, LengthAssumption, NoneIsNoRecord, JobFields, UndoFields, HaltedFields
     DEF Halt, Reached, planVars, pageVars, LengthInv, LengthTypeOK, UpdateInv,
         RestoreInv, AgeInv, Known, KnownRecord, Lengths
<1>9. ASSUME Write
      PROVE  AgeInv'
  BY <1>9, <1>0, LengthAssumption, NoneIsNoRecord, JobFields, UndoFields, VerifyFields,
     TargetKnown
     DEF Write, Put, Reached, Target, planVars, pageVars, LengthInv, LengthTypeOK,
         UpdateInv, RestoreInv, AgeInv, Known, KnownRecord, Lengths
<1>10. ASSUME Uncertain
      PROVE  AgeInv'
  BY <1>10, <1>0, LengthAssumption, NoneIsNoRecord, JobFields, UndoFields, HaltedFields,
     TargetKnown
     DEF Uncertain, Put, Reached, Target, planVars, pageVars, LengthInv,
         LengthTypeOK, UpdateInv, RestoreInv, AgeInv, Known, KnownRecord, Lengths
<1>11. ASSUME Refused
      PROVE  AgeInv'
  BY <1>11, <1>0, LengthAssumption, NoneIsNoRecord, JobFields, UndoFields, HaltedFields
     DEF Refused, Withdrawn, Reached, planVars, pageVars, LengthInv, LengthTypeOK,
         UpdateInv, RestoreInv, AgeInv, Known, KnownRecord, Lengths
<1>12. ASSUME Conflict
      PROVE  AgeInv'
  BY <1>12, <1>0, LengthAssumption, NoneIsNoRecord, JobFields, UndoFields, SettledFields
     DEF Conflict, Withdrawn, Reached, planVars, pageVars, LengthInv, LengthTypeOK,
         UpdateInv, RestoreInv, AgeInv, Known, KnownRecord, Lengths
<1>13. ASSUME NEW yes \in BOOLEAN, Verify(yes)
      PROVE  AgeInv'
  BY <1>13, <1>0, LengthAssumption, NoneIsNoRecord, JobFields, UndoFields, HaltedFields,
     SettledFields, RecordVerified, VerifyCases
     DEF planVars, pageVars, LengthInv, LengthTypeOK, UpdateInv, RestoreInv,
         Reached, AgeInv, Known, KnownRecord, Lengths
<1>14. ASSUME JobEnds
      PROVE  AgeInv'
  BY <1>14, <1>0, LengthAssumption, NoneIsNoRecord, JobFields, UndoFields
     DEF JobEnds, planVars, pageVars, LengthInv, LengthTypeOK, UpdateInv,
         RestoreInv, Reached, AgeInv, Known, KnownRecord, Lengths
<1>15. ASSUME StopJob
      PROVE  AgeInv'
  BY <1>15, <1>0, LengthAssumption, NoneIsNoRecord, JobFields, UndoFields
     DEF StopJob, planVars, pageVars, LengthInv, LengthTypeOK, UpdateInv,
         RestoreInv, Reached, AgeInv, Known, KnownRecord, Lengths
<1>16. ASSUME NEW i \in LengthSongs, NEW length \in Typed, EditLength(i, length)
      PROVE  AgeInv'
  BY <1>16, <1>0, LengthAssumption, NoneIsNoRecord, JobFields, UndoFields
     DEF EditLength, planVars, pageVars, LengthInv, LengthTypeOK, UpdateInv,
         RestoreInv, Reached, AgeInv, Known, KnownRecord, Lengths
<1>17. CASE UNCHANGED lengthVars
  BY <1>17, <1>0, LengthAssumption, NoneIsNoRecord, JobFields, UndoFields
     DEF lengthVars, planVars, pageVars, Reached, LengthInv, LengthTypeOK,
         UpdateInv, RestoreInv, AgeInv, Known, KnownRecord, Lengths
<1>18. QED
  BY <1>1, <1>2, <1>3, <1>4, <1>5, <1>6, <1>7, <1>8, <1>9, <1>10, <1>11, <1>12, <1>13,
     <1>14, <1>15, <1>16, <1>17
     DEF LengthNext

\* A record over a person's length keeps it.
LEMMA PendingStep == ASSUME LengthInv, [LengthNext]_lengthVars
                   PROVE  PendingInv'
<1>0. LengthInv /\ LengthTypeOK
  BY DEF LengthInv
<1>1. ASSUME NEW lengths \in [LengthSongs -> Measured \cup {None}], NEW shown \in BOOLEAN,
             Preview(lengths, shown)
      PROVE  PendingInv'
  BY <1>1, <1>0, LengthAssumption, NoneIsNoRecord, JobFields, UndoFields
     DEF Preview, Offered, planVars, pageVars, LengthInv, LengthTypeOK, UpdateInv,
         RestoreInv, Reached, PendingInv, AgeInv, Known, KnownRecord, Keeps,
         Lengths, Recorded, Foreign
<1>2. ASSUME CloseDialog
      PROVE  PendingInv'
  BY <1>2, <1>0, LengthAssumption, NoneIsNoRecord, JobFields, UndoFields
     DEF CloseDialog, planVars, pageVars, LengthInv, LengthTypeOK, UpdateInv,
         RestoreInv, Reached, PendingInv, AgeInv, Known, KnownRecord, Keeps,
         Lengths, Recorded, Foreign
<1>3. ASSUME NEW yes \in BOOLEAN, ConfirmUpdate(yes)
      PROVE  PendingInv'
  BY <1>3, <1>0, LengthAssumption, NoneIsNoRecord, JobFields, UndoFields
     DEF ConfirmUpdate, Job, planVars, pageVars, LengthInv, LengthTypeOK, UpdateInv,
         RestoreInv, Reached, PendingInv, AgeInv, Known, KnownRecord, Keeps,
         Lengths, Recorded, Foreign
<1>4. ASSUME Restore
      PROVE  PendingInv'
  BY <1>4, <1>0, LengthAssumption, NoneIsNoRecord, JobFields, UndoFields
     DEF Restore, Job, planVars, pageVars, LengthInv, LengthTypeOK, UpdateInv,
         RestoreInv, Reached, PendingInv, AgeInv, Known, KnownRecord, Keeps,
         Lengths, Recorded, Foreign
<1>5. ASSUME Rescan
      PROVE  PendingInv'
  BY <1>5, <1>0, LengthAssumption, NoneIsNoRecord, JobFields, UndoFields
     DEF Rescan, planVars, pageVars, LengthInv, LengthTypeOK, UpdateInv, RestoreInv,
         Reached, PendingInv, AgeInv, Known, KnownRecord, Keeps, Lengths, Recorded,
         Foreign
<1>6. ASSUME Pass
      PROVE  PendingInv'
  BY <1>6, <1>0, LengthAssumption, NoneIsNoRecord, JobFields, UndoFields, OnwardFields
     DEF Pass, Reached, planVars, pageVars, LengthInv, LengthTypeOK, UpdateInv,
         RestoreInv, PendingInv, AgeInv, Known, KnownRecord, Keeps, Lengths,
         Recorded, Foreign
<1>7. ASSUME Look
      PROVE  PendingInv'
  BY <1>7, <1>0, LengthAssumption, NoneIsNoRecord, JobFields, UndoFields, OnwardFields,
     SettledFields, RecordMade, LookCases
     DEF planVars, pageVars, LengthInv, LengthTypeOK, UpdateInv, RestoreInv,
         Reached, PendingInv, AgeInv, Known, KnownRecord, Keeps, Lengths, Recorded,
         Foreign
<1>8. ASSUME Halt
      PROVE  PendingInv'
  BY <1>8, <1>0, LengthAssumption, NoneIsNoRecord, JobFields, UndoFields, HaltedFields
     DEF Halt, Reached, planVars, pageVars, LengthInv, LengthTypeOK, UpdateInv,
         RestoreInv, PendingInv, AgeInv, Known, KnownRecord, Keeps, Lengths,
         Recorded, Foreign
<1>9. ASSUME Write
      PROVE  PendingInv'
  BY <1>9, <1>0, LengthAssumption, NoneIsNoRecord, JobFields, UndoFields, VerifyFields
     DEF Write, Put, Reached, Target, planVars, pageVars, LengthInv, LengthTypeOK,
         UpdateInv, RestoreInv, PendingInv, AgeInv, Known, KnownRecord, Keeps,
         Lengths, Recorded, Foreign
<1>10. ASSUME Uncertain
      PROVE  PendingInv'
  BY <1>10, <1>0, LengthAssumption, NoneIsNoRecord, JobFields, UndoFields, HaltedFields
     DEF Uncertain, Put, Reached, Target, planVars, pageVars, LengthInv,
         LengthTypeOK, UpdateInv, RestoreInv, PendingInv, AgeInv, Known,
         KnownRecord, Keeps, Lengths, Recorded, Foreign
<1>11. ASSUME Refused
      PROVE  PendingInv'
  BY <1>11, <1>0, LengthAssumption, NoneIsNoRecord, JobFields, UndoFields, HaltedFields
     DEF Refused, Withdrawn, Reached, planVars, pageVars, LengthInv, LengthTypeOK,
         UpdateInv, RestoreInv, PendingInv, AgeInv, Known, KnownRecord, Keeps,
         Lengths, Recorded, Foreign
<1>12. ASSUME Conflict
      PROVE  PendingInv'
  BY <1>12, <1>0, LengthAssumption, NoneIsNoRecord, JobFields, UndoFields, SettledFields
     DEF Conflict, Withdrawn, Reached, planVars, pageVars, LengthInv, LengthTypeOK,
         UpdateInv, RestoreInv, PendingInv, AgeInv, Known, KnownRecord, Keeps,
         Lengths, Recorded, Foreign
<1>13. ASSUME NEW yes \in BOOLEAN, Verify(yes)
      PROVE  PendingInv'
  BY <1>13, <1>0, LengthAssumption, NoneIsNoRecord, JobFields, UndoFields, HaltedFields,
     SettledFields, RecordVerified, VerifyCases
     DEF planVars, pageVars, LengthInv, LengthTypeOK, UpdateInv, RestoreInv,
         Reached, PendingInv, AgeInv, Known, KnownRecord, Keeps, Lengths, Recorded,
         Foreign
<1>14. ASSUME JobEnds
      PROVE  PendingInv'
  BY <1>14, <1>0, LengthAssumption, NoneIsNoRecord, JobFields, UndoFields
     DEF JobEnds, planVars, pageVars, LengthInv, LengthTypeOK, UpdateInv,
         RestoreInv, Reached, PendingInv, AgeInv, Known, KnownRecord, Keeps,
         Lengths, Recorded, Foreign
<1>15. ASSUME StopJob
      PROVE  PendingInv'
  BY <1>15, <1>0, LengthAssumption, NoneIsNoRecord, JobFields, UndoFields
     DEF StopJob, planVars, pageVars, LengthInv, LengthTypeOK, UpdateInv,
         RestoreInv, Reached, PendingInv, AgeInv, Known, KnownRecord, Keeps,
         Lengths, Recorded, Foreign
<1>16. ASSUME NEW i \in LengthSongs, NEW length \in Typed, EditLength(i, length)
      PROVE  PendingInv'
  BY <1>16, <1>0, LengthAssumption, NoneIsNoRecord, JobFields, UndoFields
     DEF EditLength, planVars, pageVars, LengthInv, LengthTypeOK, UpdateInv,
         RestoreInv, Reached, PendingInv, AgeInv, Known, KnownRecord, Keeps,
         Lengths, Recorded, Foreign
<1>17. CASE UNCHANGED lengthVars
  BY <1>17, <1>0, LengthAssumption, NoneIsNoRecord, JobFields, UndoFields
     DEF lengthVars, planVars, pageVars, Reached, LengthInv, LengthTypeOK,
         UpdateInv, RestoreInv, PendingInv, AgeInv, Known, KnownRecord, Keeps,
         Lengths, Recorded, Foreign
<1>18. QED
  BY <1>1, <1>2, <1>3, <1>4, <1>5, <1>6, <1>7, <1>8, <1>9, <1>10, <1>11, <1>12, <1>13,
     <1>14, <1>15, <1>16, <1>17
     DEF LengthNext

\* A restore gives back what it is done with.
LEMMA RestoreStep == ASSUME LengthInv, [LengthNext]_lengthVars
                   PROVE  RestoreInv'
<1>0. LengthInv /\ LengthTypeOK
  BY DEF LengthInv
<1>1. ASSUME NEW lengths \in [LengthSongs -> Measured \cup {None}], NEW shown \in BOOLEAN,
             Preview(lengths, shown)
      PROVE  RestoreInv'
  BY <1>1, <1>0, LengthAssumption, NoneIsNoRecord, JobFields, UndoFields
     DEF Preview, Offered, planVars, pageVars, LengthInv, LengthTypeOK, UpdateInv,
         RestoreInv, Reached, PendingInv, Keeps, CanBeGivenBack, Recorded, Record,
         Expected, Lengths
<1>2. ASSUME CloseDialog
      PROVE  RestoreInv'
  BY <1>2, <1>0, LengthAssumption, NoneIsNoRecord, JobFields, UndoFields
     DEF CloseDialog, planVars, pageVars, LengthInv, LengthTypeOK, UpdateInv,
         RestoreInv, Reached, PendingInv, Keeps, CanBeGivenBack, Recorded, Record,
         Expected, Lengths
<1>3. ASSUME NEW yes \in BOOLEAN, ConfirmUpdate(yes)
      PROVE  RestoreInv'
  BY <1>3, <1>0, LengthAssumption, NoneIsNoRecord, JobFields, UndoFields
     DEF ConfirmUpdate, Job, planVars, pageVars, LengthInv, LengthTypeOK, UpdateInv,
         RestoreInv, Reached, PendingInv, Keeps, CanBeGivenBack, Recorded, Record,
         Expected, Lengths
<1>4. ASSUME Restore
      PROVE  RestoreInv'
  BY <1>4, <1>0, LengthAssumption, NoneIsNoRecord, JobFields, UndoFields
     DEF Restore, Job, planVars, pageVars, LengthInv, LengthTypeOK, UpdateInv,
         RestoreInv, Reached, PendingInv, Keeps, CanBeGivenBack, Recorded, Record,
         Expected, Lengths
<1>5. ASSUME Rescan
      PROVE  RestoreInv'
  BY <1>5, <1>0, LengthAssumption, NoneIsNoRecord, JobFields, UndoFields
     DEF Rescan, planVars, pageVars, LengthInv, LengthTypeOK, UpdateInv, RestoreInv,
         Reached, PendingInv, Keeps, CanBeGivenBack, Recorded, Record, Expected,
         Lengths
<1>6. ASSUME Pass
      PROVE  RestoreInv'
  <2>1. work # None /\ work.at \in LengthSongs /\ work.at \in Nat /\ work.at < N + 1
    BY <1>6, <1>0, LengthAssumption DEF Pass, Reached, LengthSongs
  <2>2. QED
    BY <1>6, <1>0, <2>1, OnwardFields, RestoreMovesOn, LengthAssumption DEF Pass, planVars, JobRecord
<1>7. ASSUME Look
      PROVE  RestoreInv'
  <2>1. /\ work # None /\ work.at \in LengthSongs /\ work.at \in Nat /\ work.at < N + 1
        /\ work.pc = "look"
    BY <1>7, <1>0, LookCases, LengthAssumption DEF LengthSongs
  <2>2. CASE planLengths[work.at] # Expected /\ work' = Settled /\ undo' = undo
    BY <1>7, <1>0, <2>1, <2>2, LookCases, SettledFields, NothingToGiveBack, RestoreMovesOn,
       LengthAssumption DEF JobRecord
  <2>3. CASE ~work.restoring
    BY <1>7, <1>0, <2>1, <2>3, LookCases, OnwardFields, SettledFields, JobFields DEF RestoreInv
  <2>4. CASE work.restoring /\ planLengths[work.at] = Expected /\ undo' = undo /\ work'.pc = "write"
    <3>1. /\ work'.restoring /\ work'.at = work.at /\ work'.expected = Expected
          /\ work'.finished = work.finished /\ work'.records = work.records
          /\ UNCHANGED <<planLengths, before, crossed>> /\ Record # None
      BY <1>7, <1>0, <2>1, <2>4, LookCases, SettledFields, OnwardFields
    <3>2. Record' = Record /\ Recorded(Record, Expected) /\ Expected # None
      <4>1. Record = undo[work.at] /\ undo[work.at] \in UndoRecord /\ Expected \in Lengths
        BY <1>0, <2>1, <2>4, <3>1 DEF LengthInv, LengthTypeOK, RestoreInv, Record
      <4>2. QED
        BY <2>4, <3>1, <4>1, LengthAssumption DEF Record, Expected, Recorded, Lengths
    <3>3. QED
      BY <1>0, <2>1, <2>4, <3>1, <3>2 DEF LengthInv, RestoreInv, Reached
  <2>5. QED
    BY <1>7, <1>0, <2>1, <2>2, <2>3, <2>4, LookCases, JobFields
<1>8. ASSUME Halt
      PROVE  RestoreInv'
  <2>1. work # None /\ work.at \in LengthSongs /\ work.at \in Nat /\ work.at < N + 1
    BY <1>8, <1>0, LengthAssumption DEF Halt, Reached, LengthSongs
  <2>2. QED
    BY <1>8, <1>0, <2>1, HaltedFields, RestoreMovesOn, LengthAssumption DEF Halt, planVars, JobRecord
<1>9. ASSUME Write
      PROVE  RestoreInv'
  BY <1>9, <1>0, LengthAssumption, NoneIsNoRecord, JobFields, UndoFields, VerifyFields
     DEF Write, Put, Reached, Target, planVars, pageVars, LengthInv, LengthTypeOK,
         UpdateInv, RestoreInv, PendingInv, Keeps, CanBeGivenBack, Recorded, Record,
         Expected, Lengths
<1>10. ASSUME Uncertain
      PROVE  RestoreInv'
  <2>1. work # None /\ work.at \in LengthSongs /\ work.at \in Nat /\ work.at < N + 1
    BY <1>10, <1>0, LengthAssumption DEF Uncertain, Reached, LengthSongs
  <2>2. QED
    BY <1>10, <1>0, <2>1, HaltedFields, RestoreMovesOn, LengthAssumption DEF Uncertain, Put, JobRecord, LengthTypeOK
<1>11. ASSUME Refused
      PROVE  RestoreInv'
  <2>1. work # None /\ work.at \in LengthSongs /\ work.at \in Nat /\ work.at < N + 1
    BY <1>11, <1>0, LengthAssumption DEF Refused, Reached, LengthSongs
  <2>2. QED
    BY <1>11, <1>0, <2>1, HaltedFields, RestoreMovesOn, LengthAssumption DEF Refused, Withdrawn, planVars, JobRecord
<1>12. ASSUME Conflict
      PROVE  RestoreInv'
  <2>1. work # None /\ work.at \in LengthSongs /\ work.at \in Nat /\ work.at < N + 1
    BY <1>12, <1>0, LengthAssumption DEF Conflict, Reached, LengthSongs
  <2>2. work.restoring /\ work.at \notin crossed => planLengths[work.at] = before[work.at]
    BY <1>12, <1>0 DEF Conflict, Reached, LengthInv, RestoreInv
  <2>3. work' = Settled /\ UNCHANGED planVars /\ (work.restoring => undo' = undo)
    BY <1>12 DEF Conflict, Withdrawn
  <2>4. QED
    BY <1>0, <2>1, <2>2, <2>3, SettledFields, RestoreMovesOn, LengthAssumption
       DEF planVars, JobRecord
<1>13. ASSUME NEW yes \in BOOLEAN, Verify(yes)
      PROVE  RestoreInv'
  <2>1. /\ work # None /\ work.at \in LengthSongs /\ work.at \in Nat /\ work.at < N + 1
        /\ UpdateInv
    BY <1>13, <1>0, LengthAssumption DEF Verify, Reached, LengthSongs, LengthInv
  <2>2. work.restoring /\ work.at \notin crossed => planLengths[work.at] = before[work.at]
    BY <1>13, <1>0 DEF Verify, Reached, LengthInv, RestoreInv
  <2>3. /\ UNCHANGED <<planLengths, before, crossed>> /\ (work.restoring => undo' = undo)
        /\ work' = Settled \/ work' = Halted
    BY <1>13, <1>0, <2>1, VerifyCases
  <2>4. QED
    BY <1>0, <2>1, <2>2, <2>3, SettledFields, HaltedFields, RestoreMovesOn, LengthAssumption
       DEF JobRecord
<1>14. ASSUME JobEnds
      PROVE  RestoreInv'
  BY <1>14, <1>0, LengthAssumption, NoneIsNoRecord, JobFields, UndoFields
     DEF JobEnds, planVars, pageVars, LengthInv, LengthTypeOK, UpdateInv,
         RestoreInv, Reached, PendingInv, Keeps, CanBeGivenBack, Recorded, Record,
         Expected, Lengths
<1>15. ASSUME StopJob
      PROVE  RestoreInv'
  BY <1>15, <1>0, LengthAssumption, NoneIsNoRecord, JobFields, UndoFields
     DEF StopJob, planVars, pageVars, LengthInv, LengthTypeOK, UpdateInv,
         RestoreInv, Reached, PendingInv, Keeps, CanBeGivenBack, Recorded, Record,
         Expected, Lengths
<1>16. ASSUME NEW i \in LengthSongs, NEW length \in Typed, EditLength(i, length)
      PROVE  RestoreInv'
  BY <1>16, <1>0, LengthAssumption, NoneIsNoRecord, JobFields, UndoFields
     DEF EditLength, planVars, pageVars, LengthInv, LengthTypeOK, UpdateInv,
         RestoreInv, Reached, PendingInv, Keeps, CanBeGivenBack, Recorded, Record,
         Expected, Lengths
<1>17. CASE UNCHANGED lengthVars
  BY <1>17, <1>0, LengthAssumption, NoneIsNoRecord, JobFields, UndoFields
     DEF lengthVars, planVars, pageVars, Reached, LengthInv, LengthTypeOK,
         UpdateInv, RestoreInv, PendingInv, Keeps, CanBeGivenBack, Recorded, Record,
         Expected, Lengths
<1>18. QED
  BY <1>1, <1>2, <1>3, <1>4, <1>5, <1>6, <1>7, <1>8, <1>9, <1>10, <1>11, <1>12, <1>13,
     <1>14, <1>15, <1>16, <1>17
     DEF LengthNext

\* An update keeps what it can take back.
LEMMA UpdateStep == ASSUME LengthInv, [LengthNext]_lengthVars
                  PROVE  UpdateInv'
<1>0. LengthInv /\ LengthTypeOK
  BY DEF LengthInv
<1>1. ASSUME NEW lengths \in [LengthSongs -> Measured \cup {None}], NEW shown \in BOOLEAN,
             Preview(lengths, shown)
      PROVE  UpdateInv'
  BY <1>1, <1>0, LengthAssumption, NoneIsNoRecord, JobFields, UndoFields
     DEF Preview, Offered, planVars, pageVars, LengthInv, LengthTypeOK, UpdateInv,
         RestoreInv, Reached, CanBeGivenBack, GivesBack, Recorded, Foreign, AgeInv,
         Known, KnownRecord, Record, Expected, Lengths
<1>2. ASSUME CloseDialog
      PROVE  UpdateInv'
  BY <1>2, <1>0, LengthAssumption, NoneIsNoRecord, JobFields, UndoFields
     DEF CloseDialog, planVars, pageVars, LengthInv, LengthTypeOK, UpdateInv,
         RestoreInv, Reached, CanBeGivenBack, GivesBack, Recorded, Foreign, AgeInv,
         Known, KnownRecord, Record, Expected, Lengths
<1>3. ASSUME NEW yes \in BOOLEAN, ConfirmUpdate(yes)
      PROVE  UpdateInv'
  BY <1>3, <1>0, LengthAssumption, NoneIsNoRecord, JobFields, UndoFields
     DEF ConfirmUpdate, Job, planVars, pageVars, LengthInv, LengthTypeOK, UpdateInv,
         RestoreInv, Reached, CanBeGivenBack, GivesBack, Recorded, Foreign, AgeInv,
         Known, KnownRecord, Record, Expected, Lengths
<1>4. ASSUME Restore
      PROVE  UpdateInv'
  BY <1>4, <1>0, LengthAssumption, NoneIsNoRecord, JobFields, UndoFields
     DEF Restore, Job, planVars, pageVars, LengthInv, LengthTypeOK, UpdateInv,
         RestoreInv, Reached, CanBeGivenBack, GivesBack, Recorded, Foreign, AgeInv,
         Known, KnownRecord, Record, Expected, Lengths
<1>5. ASSUME Rescan
      PROVE  UpdateInv'
  BY <1>5, <1>0, LengthAssumption, NoneIsNoRecord, JobFields, UndoFields
     DEF Rescan, planVars, pageVars, LengthInv, LengthTypeOK, UpdateInv, RestoreInv,
         Reached, CanBeGivenBack, GivesBack, Recorded, Foreign, AgeInv, Known,
         KnownRecord, Record, Expected, Lengths
<1>6. ASSUME Pass
      PROVE  UpdateInv'
  BY <1>6, <1>0, LengthAssumption, NoneIsNoRecord, JobFields, UndoFields, OnwardFields
     DEF Pass, Reached, planVars, pageVars, LengthInv, LengthTypeOK, UpdateInv,
         RestoreInv, CanBeGivenBack, GivesBack, Recorded, Foreign, AgeInv, Known,
         KnownRecord, Record, Expected, Lengths
<1>7. ASSUME Look
      PROVE  UpdateInv'
  BY <1>7, <1>0, LengthAssumption, NoneIsNoRecord, JobFields, UndoFields, OnwardFields,
     SettledFields, RecordMade, LookCases
     DEF planVars, pageVars, LengthInv, LengthTypeOK, UpdateInv, RestoreInv,
         Reached, CanBeGivenBack, GivesBack, Recorded, Foreign, AgeInv, Known,
         KnownRecord, Record, Expected, Lengths
<1>8. ASSUME Halt
      PROVE  UpdateInv'
  BY <1>8, <1>0, LengthAssumption, NoneIsNoRecord, JobFields, UndoFields, HaltedFields
     DEF Halt, Reached, planVars, pageVars, LengthInv, LengthTypeOK, UpdateInv,
         RestoreInv, CanBeGivenBack, GivesBack, Recorded, Foreign, AgeInv, Known,
         KnownRecord, Record, Expected, Lengths
<1>9. ASSUME Write
      PROVE  UpdateInv'
  BY <1>9, <1>0, LengthAssumption, NoneIsNoRecord, JobFields, UndoFields, VerifyFields
     DEF Write, Put, Reached, Target, planVars, pageVars, LengthInv, LengthTypeOK,
         UpdateInv, RestoreInv, CanBeGivenBack, GivesBack, Recorded, Foreign,
         AgeInv, Known, KnownRecord, Record, Expected, Lengths
<1>10. ASSUME Uncertain
      PROVE  UpdateInv'
  BY <1>10, <1>0, LengthAssumption, NoneIsNoRecord, JobFields, UndoFields, HaltedFields
     DEF Uncertain, Put, Reached, Target, planVars, pageVars, LengthInv,
         LengthTypeOK, UpdateInv, RestoreInv, CanBeGivenBack, GivesBack, Recorded,
         Foreign, AgeInv, Known, KnownRecord, Record, Expected, Lengths
<1>11. ASSUME Refused
      PROVE  UpdateInv'
  BY <1>11, <1>0, LengthAssumption, NoneIsNoRecord, JobFields, UndoFields, HaltedFields
     DEF Refused, Withdrawn, Reached, planVars, pageVars, LengthInv, LengthTypeOK,
         UpdateInv, RestoreInv, CanBeGivenBack, GivesBack, Recorded, Foreign,
         AgeInv, Known, KnownRecord, Record, Expected, Lengths
<1>12. ASSUME Conflict
      PROVE  UpdateInv'
  BY <1>12, <1>0, LengthAssumption, NoneIsNoRecord, JobFields, UndoFields, SettledFields
     DEF Conflict, Withdrawn, Reached, planVars, pageVars, LengthInv, LengthTypeOK,
         UpdateInv, RestoreInv, CanBeGivenBack, GivesBack, Recorded, Foreign,
         AgeInv, Known, KnownRecord, Record, Expected, Lengths
<1>13. ASSUME NEW yes \in BOOLEAN, Verify(yes)
      PROVE  UpdateInv'
  BY <1>13, <1>0, LengthAssumption, NoneIsNoRecord, JobFields, UndoFields, HaltedFields,
     SettledFields, RecordVerified, VerifyCases
     DEF planVars, pageVars, LengthInv, LengthTypeOK, UpdateInv, RestoreInv,
         Reached, CanBeGivenBack, GivesBack, Recorded, Foreign, AgeInv, Known,
         KnownRecord, Record, Expected, Lengths
<1>14. ASSUME JobEnds
      PROVE  UpdateInv'
  BY <1>14, <1>0, LengthAssumption, NoneIsNoRecord, JobFields, UndoFields
     DEF JobEnds, planVars, pageVars, LengthInv, LengthTypeOK, UpdateInv,
         RestoreInv, Reached, CanBeGivenBack, GivesBack, Recorded, Foreign, AgeInv,
         Known, KnownRecord, Record, Expected, Lengths
<1>15. ASSUME StopJob
      PROVE  UpdateInv'
  BY <1>15, <1>0, LengthAssumption, NoneIsNoRecord, JobFields, UndoFields
     DEF StopJob, planVars, pageVars, LengthInv, LengthTypeOK, UpdateInv,
         RestoreInv, Reached, CanBeGivenBack, GivesBack, Recorded, Foreign, AgeInv,
         Known, KnownRecord, Record, Expected, Lengths
<1>16. ASSUME NEW i \in LengthSongs, NEW length \in Typed, EditLength(i, length)
      PROVE  UpdateInv'
  BY <1>16, <1>0, LengthAssumption, NoneIsNoRecord, JobFields, UndoFields
     DEF EditLength, planVars, pageVars, LengthInv, LengthTypeOK, UpdateInv,
         RestoreInv, Reached, CanBeGivenBack, GivesBack, Recorded, Foreign, AgeInv,
         Known, KnownRecord, Record, Expected, Lengths
<1>17. CASE UNCHANGED lengthVars
  BY <1>17, <1>0, LengthAssumption, NoneIsNoRecord, JobFields, UndoFields
     DEF lengthVars, planVars, pageVars, Reached, LengthInv, LengthTypeOK,
         UpdateInv, RestoreInv, CanBeGivenBack, GivesBack, Recorded, Foreign,
         AgeInv, Known, KnownRecord, Record, Expected, Lengths
<1>18. QED
  BY <1>1, <1>2, <1>3, <1>4, <1>5, <1>6, <1>7, <1>8, <1>9, <1>10, <1>11, <1>12, <1>13,
     <1>14, <1>15, <1>16, <1>17
     DEF LengthNext

\* Whatever was written can be given back.
LEMMA GiveBackStep == ASSUME LengthInv, [LengthNext]_lengthVars
                    PROVE  CanBeGivenBack'
<1>0. LengthInv /\ LengthTypeOK
  BY DEF LengthInv
<1>1. ASSUME NEW lengths \in [LengthSongs -> Measured \cup {None}], NEW shown \in BOOLEAN,
             Preview(lengths, shown)
      PROVE  CanBeGivenBack'
  BY <1>1, <1>0, LengthAssumption, NoneIsNoRecord, JobFields, UndoFields
     DEF Preview, Offered, planVars, pageVars, LengthInv, LengthTypeOK, UpdateInv,
         RestoreInv, Reached, PendingInv, Keeps, CanBeGivenBack, GivesBack,
         Recorded, Record, Expected, Foreign, Lengths
<1>2. ASSUME CloseDialog
      PROVE  CanBeGivenBack'
  BY <1>2, <1>0, LengthAssumption, NoneIsNoRecord, JobFields, UndoFields
     DEF CloseDialog, planVars, pageVars, LengthInv, LengthTypeOK, UpdateInv,
         RestoreInv, Reached, PendingInv, Keeps, CanBeGivenBack, GivesBack,
         Recorded, Record, Expected, Foreign, Lengths
<1>3. ASSUME NEW yes \in BOOLEAN, ConfirmUpdate(yes)
      PROVE  CanBeGivenBack'
  BY <1>3, <1>0, LengthAssumption, NoneIsNoRecord, JobFields, UndoFields
     DEF ConfirmUpdate, Job, planVars, pageVars, LengthInv, LengthTypeOK, UpdateInv,
         RestoreInv, Reached, PendingInv, Keeps, CanBeGivenBack, GivesBack,
         Recorded, Record, Expected, Foreign, Lengths
<1>4. ASSUME Restore
      PROVE  CanBeGivenBack'
  BY <1>4, <1>0, LengthAssumption, NoneIsNoRecord, JobFields, UndoFields
     DEF Restore, Job, planVars, pageVars, LengthInv, LengthTypeOK, UpdateInv,
         RestoreInv, Reached, PendingInv, Keeps, CanBeGivenBack, GivesBack,
         Recorded, Record, Expected, Foreign, Lengths
<1>5. ASSUME Rescan
      PROVE  CanBeGivenBack'
  BY <1>5, <1>0, LengthAssumption, NoneIsNoRecord, JobFields, UndoFields
     DEF Rescan, planVars, pageVars, LengthInv, LengthTypeOK, UpdateInv, RestoreInv,
         Reached, PendingInv, Keeps, CanBeGivenBack, GivesBack, Recorded, Record,
         Expected, Foreign, Lengths
<1>6. ASSUME Pass
      PROVE  CanBeGivenBack'
  BY <1>6, <1>0, LengthAssumption, NoneIsNoRecord, JobFields, UndoFields, OnwardFields
     DEF Pass, Reached, planVars, pageVars, LengthInv, LengthTypeOK, UpdateInv,
         RestoreInv, PendingInv, Keeps, CanBeGivenBack, GivesBack, Recorded, Record,
         Expected, Foreign, Lengths
<1>7. ASSUME Look
      PROVE  CanBeGivenBack'
  BY <1>7, <1>0, LengthAssumption, NoneIsNoRecord, JobFields, UndoFields, OnwardFields,
     SettledFields, RecordMade, LookCases
     DEF planVars, pageVars, LengthInv, LengthTypeOK, UpdateInv, RestoreInv,
         Reached, PendingInv, Keeps, CanBeGivenBack, GivesBack, Recorded, Record,
         Expected, Foreign, Lengths
<1>8. ASSUME Halt
      PROVE  CanBeGivenBack'
  BY <1>8, <1>0, LengthAssumption, NoneIsNoRecord, JobFields, UndoFields, HaltedFields
     DEF Halt, Reached, planVars, pageVars, LengthInv, LengthTypeOK, UpdateInv,
         RestoreInv, PendingInv, Keeps, CanBeGivenBack, GivesBack, Recorded, Record,
         Expected, Foreign, Lengths
<1>9. ASSUME Write
      PROVE  CanBeGivenBack'
  BY <1>9, <1>0, LengthAssumption, NoneIsNoRecord, JobFields, UndoFields, VerifyFields
     DEF Write, Put, Reached, Target, planVars, pageVars, LengthInv, LengthTypeOK,
         UpdateInv, RestoreInv, PendingInv, Keeps, CanBeGivenBack, GivesBack,
         Recorded, Record, Expected, Foreign, Lengths
<1>10. ASSUME Uncertain
      PROVE  CanBeGivenBack'
  BY <1>10, <1>0, LengthAssumption, NoneIsNoRecord, JobFields, UndoFields, HaltedFields
     DEF Uncertain, Put, Reached, Target, planVars, pageVars, LengthInv,
         LengthTypeOK, UpdateInv, RestoreInv, PendingInv, Keeps, CanBeGivenBack,
         GivesBack, Recorded, Record, Expected, Foreign, Lengths
<1>11. ASSUME Refused
      PROVE  CanBeGivenBack'
  BY <1>11, <1>0, LengthAssumption, NoneIsNoRecord, JobFields, UndoFields, HaltedFields
     DEF Refused, Withdrawn, Reached, planVars, pageVars, LengthInv, LengthTypeOK,
         UpdateInv, RestoreInv, PendingInv, Keeps, CanBeGivenBack, GivesBack,
         Recorded, Record, Expected, Foreign, Lengths
<1>12. ASSUME Conflict
      PROVE  CanBeGivenBack'
  BY <1>12, <1>0, LengthAssumption, NoneIsNoRecord, JobFields, UndoFields, SettledFields
     DEF Conflict, Withdrawn, Reached, planVars, pageVars, LengthInv, LengthTypeOK,
         UpdateInv, RestoreInv, PendingInv, Keeps, CanBeGivenBack, GivesBack,
         Recorded, Record, Expected, Foreign, Lengths
<1>13. ASSUME NEW yes \in BOOLEAN, Verify(yes)
      PROVE  CanBeGivenBack'
  BY <1>13, <1>0, LengthAssumption, NoneIsNoRecord, JobFields, UndoFields, HaltedFields,
     SettledFields, RecordVerified, VerifyCases
     DEF planVars, pageVars, LengthInv, LengthTypeOK, UpdateInv, RestoreInv,
         Reached, PendingInv, Keeps, CanBeGivenBack, GivesBack, Recorded, Record,
         Expected, Foreign, Lengths
<1>14. ASSUME JobEnds
      PROVE  CanBeGivenBack'
  BY <1>14, <1>0, LengthAssumption, NoneIsNoRecord, JobFields, UndoFields
     DEF JobEnds, planVars, pageVars, LengthInv, LengthTypeOK, UpdateInv,
         RestoreInv, Reached, PendingInv, Keeps, CanBeGivenBack, GivesBack,
         Recorded, Record, Expected, Foreign, Lengths
<1>15. ASSUME StopJob
      PROVE  CanBeGivenBack'
  BY <1>15, <1>0, LengthAssumption, NoneIsNoRecord, JobFields, UndoFields
     DEF StopJob, planVars, pageVars, LengthInv, LengthTypeOK, UpdateInv,
         RestoreInv, Reached, PendingInv, Keeps, CanBeGivenBack, GivesBack,
         Recorded, Record, Expected, Foreign, Lengths
<1>16. ASSUME NEW i \in LengthSongs, NEW length \in Typed, EditLength(i, length)
      PROVE  CanBeGivenBack'
  BY <1>16, <1>0, LengthAssumption, NoneIsNoRecord, JobFields, UndoFields
     DEF EditLength, planVars, pageVars, LengthInv, LengthTypeOK, UpdateInv,
         RestoreInv, Reached, PendingInv, Keeps, CanBeGivenBack, GivesBack,
         Recorded, Record, Expected, Foreign, Lengths
<1>17. CASE UNCHANGED lengthVars
  BY <1>17, <1>0, LengthAssumption, NoneIsNoRecord, JobFields, UndoFields
     DEF lengthVars, planVars, pageVars, Reached, LengthInv, LengthTypeOK,
         UpdateInv, RestoreInv, PendingInv, Keeps, CanBeGivenBack, GivesBack,
         Recorded, Record, Expected, Foreign, Lengths
<1>18. QED
  BY <1>1, <1>2, <1>3, <1>4, <1>5, <1>6, <1>7, <1>8, <1>9, <1>10, <1>11, <1>12, <1>13,
     <1>14, <1>15, <1>16, <1>17
     DEF LengthNext

-----------------------------------------------------------------------------
(* The theorems.                                                            *)

\* The inductive invariant holds of a plan that StagePilot has not touched.
LEMMA LengthInvInit == LengthInit => LengthInv
<1>1. SUFFICES ASSUME LengthInit PROVE LengthInv
  OBVIOUS
<1>2. LengthTypeOK
  BY <1>1, LengthAssumption DEF LengthInit, LengthTypeOK, Lengths
<1>3. AgeInv /\ PendingInv
  BY <1>1, LengthAssumption
     DEF LengthInit, AgeInv, PendingInv, Known, KnownRecord, Keeps, Reached
<1>4. RestoreInv /\ UpdateInv /\ CanBeGivenBack
  BY <1>1 DEF LengthInit, RestoreInv, UpdateInv, CanBeGivenBack
<1>5. QED
  BY <1>2, <1>3, <1>4 DEF LengthInv

\* Every step keeps it.
LEMMA LengthInvStep == LengthInv /\ [LengthNext]_lengthVars => LengthInv'
BY LengthTypeStep, AgeStep, PendingStep, RestoreStep, UpdateStep, GiveBackStep DEF LengthInv

\* The inductive invariant holds of every state.
THEOREM LengthInvariant == LengthSpec => []LengthInv
BY LengthInvInit, LengthInvStep, PTL DEF LengthSpec

\* For any plan, any lengths and any number of updates and restores: a length that
\* StagePilot put into the plan is on record with the length that a person had given the
\* song, unless that person's edit fell between a look and the write after it
\* (planning_center_lengths.py:283-456).
THEOREM LengthsCanBeGivenBack == LengthSpec => []CanBeGivenBack
<1>1. LengthInv => CanBeGivenBack
  BY DEF LengthInv
<1>2. QED
  BY <1>1, LengthInvariant, PTL
=============================================================================
