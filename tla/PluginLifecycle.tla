--------------------------- MODULE PluginLifecycle ---------------------------
(***************************************************************************)
(* The plugins while the program runs (core/plugin.py): live switches of   *)
(* the Services source (service_source.py), the retry of plugins that did  *)
(* not start (startup_activation.py), health probes, and the shutdown.     *)
(* A switch holds the reconcile lock from the save to its end, so there is *)
(* one at a time; it takes the lifecycle lock for its removal and for its  *)
(* addition.  The retry and the probes take neither.                       *)
(*                                                                         *)
(* A plugin object is a number, and each switch makes a new one.  The      *)
(* status is published and the plugin called in one step; the publication  *)
(* after the call ends is a step of its own.                               *)
(***************************************************************************)
EXTENDS Naturals

CONSTANTS NoPlugin, MaxSwitches   \* bound: switches of the source

ASSUME LifecycleAssumption == MaxSwitches \in Nat /\ NoPlugin \notin Nat

DemoPlugin == "demo"
PlanningCenter == "planning_center"
Sources == {DemoPlugin, PlanningCenter}
Names == Sources \cup {"outputs"}       \* one plugin that no switch replaces
Objects == 1..(MaxSwitches + 2)
Unstarted == [pc |-> "idle", plugin |-> NoPlugin]

VARIABLES
    registered,   \* _plugins, by name
    health,       \* _health, by name; "absent" when there is no entry
    kindOf,       \* the name of each object
    alive,        \* what an object itself is: "off", "on", or "half" started
    savedSource,  \* settings: integration_modes.service_source
    switch,       \* the switch under way and the object it stops or starts
    retry,        \* the retry: the object in hand, and those to come
    probe,        \* the name whose plugin is asked for its health, and the answer
    spent,        \* objects made
    program,      \* "up" or "down"
    overlapped,   \* history: the retry and a switch had the same plugin in hand
    failedStart   \* history: the last switch ended with a plugin that did not start

switchVars == <<savedSource, switch, spent, kindOf, failedStart>>
objectVars == <<registered, health, alive>>
lifecycleVars == <<objectVars, switchVars, retry, probe, program, overlapped>>

\* start_all has ended, with or without failures; the startup activation waits.
LifecycleInit ==
    /\ savedSource \in Sources
    /\ kindOf = [o \in Objects |-> IF o = 1 THEN savedSource
                                   ELSE IF o = 2 THEN "outputs" ELSE NoPlugin]
    /\ registered = [n \in Names |-> IF n = savedSource THEN 1
                                     ELSE IF n = "outputs" THEN 2 ELSE NoPlugin]
    /\ \E failed \in SUBSET {1, 2} :
          /\ health = [n \in Names |-> IF registered[n] = NoPlugin THEN "absent"
                                       ELSE IF registered[n] \in failed THEN "error" ELSE "running"]
          /\ alive = [o \in Objects |-> IF o > 2 THEN "off"
                                        ELSE IF o \in failed THEN "half" ELSE "on"]
    /\ switch = Unstarted /\ spent = 2 /\ failedStart = FALSE
    /\ retry = [pc |-> "waiting", plugin |-> NoPlugin, left |-> {}]
    /\ probe = [pc |-> "none", name |-> "outputs"]
    /\ program = "up" /\ overlapped = FALSE

(***************************************************************************)
(* Starting and stopping an object: _start_plugin and _stop_plugin.        *)
(***************************************************************************)
SetHealth(o, status) == health' = [health EXCEPT ![kindOf[o]] = status]
Becomes(o, what) == alive' = [alive EXCEPT ![o] = what]

\* plugin.start() has returned or raised.
Started(o) ==
    \/ SetHealth(o, "running") /\ Becomes(o, "on")
    \/ SetHealth(o, "error") /\ Becomes(o, "half")

\* plugin.stop() has returned or, having released what it had, raised.
Stopped(o) == (SetHealth(o, "stopped") \/ SetHealth(o, "error")) /\ Becomes(o, "off")

InHand(o) == retry.pc # "done" /\ (o = retry.plugin \/ o \in retry.left)

(***************************************************************************)
(* sync and _swap: the settings are saved, the running plugin is removed,  *)
(* what it left is forgotten, and the new one is added.                    *)
(***************************************************************************)
Goes(pc, o) == switch' = [pc |-> pc, plugin |-> o]

SourceNow == CHOOSE n \in Sources : registered[n] # NoPlugin
HasSource == \E n \in Sources : registered[n] # NoPlugin

\* The running timer may refuse the switch before anything is saved.
Switch(target) ==
    /\ program = "up" /\ switch.pc = "idle" /\ spent < MaxSwitches + 2
    /\ registered[target] = NoPlugin
    /\ savedSource' = target
    /\ spent' = spent + 1 /\ kindOf' = [kindOf EXCEPT ![spent + 1] = target]
    /\ IF HasSource THEN Goes("remove", registered[SourceNow]) ELSE Goes("add", spent + 1)
    /\ UNCHANGED <<objectVars, retry, probe, program, overlapped, failedStart>>

\* Mutant: a plugin whose start has failed is not stopped, whatever it has opened.
RemovePlugin_Failed ==
    /\ switch.pc = "remove"
    /\ LET o == switch.plugin IN
       /\ overlapped' = (overlapped \/ InHand(o))
       /\ IF health[kindOf[o]] \in {"stopped", "error"}
          THEN Goes("unregister", o) /\ UNCHANGED health
          ELSE Goes("stopping", o) /\ SetHealth(o, "stopping")
    /\ UNCHANGED <<registered, alive, savedSource, spent, kindOf, failedStart, retry, probe, program>>

\* _remove_locked: a plugin that is stopped already is not stopped again.
RemovePlugin ==
    /\ switch.pc = "remove"
    /\ LET o == switch.plugin IN
       /\ overlapped' = (overlapped \/ InHand(o))
       /\ IF health[kindOf[o]] = "stopped"
          THEN Goes("unregister", o) /\ UNCHANGED health
          ELSE Goes("stopping", o) /\ SetHealth(o, "stopping")
    /\ UNCHANGED <<registered, alive, savedSource, spent, kindOf, failedStart, retry, probe, program>>

RemoveStopped ==
    /\ switch.pc = "stopping" /\ Stopped(switch.plugin) /\ Goes("unregister", switch.plugin)
    /\ UNCHANGED <<registered, savedSource, spent, kindOf, failedStart, retry, probe, program, overlapped>>

Deleted(n) ==
    /\ registered' = [registered EXCEPT ![n] = NoPlugin]
    /\ health' = [health EXCEPT ![n] = "absent"]

\* The entry is gone; forgetting the service waits for the action lock.
Unregister ==
    /\ switch.pc = "unregister" /\ Deleted(kindOf[switch.plugin]) /\ Goes("add", spent)
    /\ probe' = IF probe.name = kindOf[switch.plugin] /\ probe.pc = "asked"
                THEN [probe EXCEPT !.pc = "overtaken"] ELSE probe
    /\ UNCHANGED <<alive, savedSource, spent, kindOf, failedStart, retry, program, overlapped>>

\* _add_locked, register and the first status of _start_plugin.
Add ==
    /\ switch.pc = "add"
    /\ registered' = [registered EXCEPT ![kindOf[switch.plugin]] = switch.plugin]
    /\ SetHealth(switch.plugin, "starting") /\ Goes("starting", switch.plugin)
    /\ overlapped' = (overlapped \/ \E o \in Objects :
                                        InHand(o) /\ kindOf[o] = kindOf[switch.plugin])
    /\ UNCHANGED <<alive, savedSource, spent, kindOf, failedStart, retry, probe, program>>

AddStarted ==
    /\ switch.pc = "starting" /\ Started(switch.plugin) /\ Goes("started", switch.plugin)
    /\ UNCHANGED <<registered, savedSource, spent, kindOf, failedStart, retry, probe, program, overlapped>>

\* A plugin that did not start is stopped, whatever it had, and not kept.
AddEnds ==
    /\ switch.pc = "started" /\ switch' = Unstarted
    /\ failedStart' = (health[kindOf[switch.plugin]] # "running")
    /\ IF failedStart'
       THEN /\ Deleted(kindOf[switch.plugin]) /\ Becomes(switch.plugin, "off")
            /\ overlapped' = (overlapped \/ InHand(switch.plugin))
       ELSE UNCHANGED <<objectVars, overlapped>>
    /\ UNCHANGED <<savedSource, spent, kindOf, retry, probe, program>>

(***************************************************************************)
(* restart_failed, a second after the start of the program.                *)
(***************************************************************************)
RetryGoes(pc) == retry' = [retry EXCEPT !.pc = pc]
RetryTakes(pc, o) == retry' = [pc |-> pc, plugin |-> o, left |-> retry.left \ {o}]
RetryEnds == retry' = [pc |-> "done", plugin |-> NoPlugin, left |-> {}]

\* The plugins whose start has failed are collected once.
RetryBegins ==
    /\ program = "up" /\ retry.pc = "waiting"
    /\ retry' = [pc |-> "next", plugin |-> NoPlugin,
                 left |-> {registered[n] : n \in {m \in Names : health[m] = "error"}} \ {NoPlugin}]
    /\ overlapped' = (overlapped \/ (switch.pc \notin {"idle", "add"}
                                        /\ health[kindOf[switch.plugin]] = "error"))
    /\ UNCHANGED <<objectVars, switchVars, probe, program>>

\* A missing entry ends the whole retry: a KeyError.
RetryNext ==
    /\ retry.pc = "next"
    /\ \/ retry.left = {} /\ RetryEnds /\ UNCHANGED health
       \/ \E o \in retry.left :
             CASE health[kindOf[o]] = "absent"  -> RetryEnds /\ UNCHANGED health
               [] health[kindOf[o]] = "stopped" -> RetryTakes("stopped", o) /\ UNCHANGED health
               [] OTHER -> RetryTakes("stopping", o) /\ SetHealth(o, "stopping")
    /\ UNCHANGED <<registered, alive, switchVars, probe, program, overlapped>>

RetryStopped ==
    /\ retry.pc = "stopping" /\ Stopped(retry.plugin) /\ RetryGoes("stopped")
    /\ UNCHANGED <<registered, switchVars, probe, program, overlapped>>

\* Only a plugin that has stopped is started again.
RetryStarts ==
    /\ retry.pc = "stopped"
    /\ CASE health[kindOf[retry.plugin]] = "absent" -> RetryEnds /\ UNCHANGED health
         [] health[kindOf[retry.plugin]] = "stopped" ->
              SetHealth(retry.plugin, "starting") /\ RetryGoes("starting")
         [] OTHER -> RetryGoes("next") /\ UNCHANGED health
    /\ UNCHANGED <<registered, alive, switchVars, probe, program, overlapped>>

RetryStarted ==
    /\ retry.pc = "starting" /\ Started(retry.plugin)
    /\ retry' = [pc |-> "next", plugin |-> NoPlugin, left |-> retry.left]
    /\ UNCHANGED <<registered, switchVars, probe, program, overlapped>>

(***************************************************************************)
(* A health probe, and the shutdown.                                       *)
(***************************************************************************)
\* Only a plugin whose status is running is asked.
ProbeAsks(n) ==
    /\ program = "up" /\ probe.pc = "none" /\ registered[n] # NoPlugin /\ health[n] = "running"
    /\ probe' = [pc |-> "asked", name |-> n]
    /\ UNCHANGED <<objectVars, switchVars, retry, program, overlapped>>

\* What the plugin says counts only while the status is still running.
ProbeAnswered ==
    /\ probe.pc \in {"asked", "overtaken"}
    /\ probe' = [probe EXCEPT !.pc = CASE health[probe.name] = "absent" -> "raised"
                                       [] health[probe.name] # "running" -> "managed"
                                       [] OTHER -> "reported"]
    /\ UNCHANGED <<objectVars, switchVars, retry, program, overlapped>>

ProbeForgotten ==
    /\ probe.pc \in {"raised", "managed", "reported"}
    /\ probe' = [pc |-> "none", name |-> "outputs"]
    /\ UNCHANGED <<objectVars, switchVars, retry, program, overlapped>>

\* The requests are over and the activation is cancelled, in the middle of a start too.
Shutdown ==
    /\ program = "up" /\ switch.pc = "idle" /\ probe.pc = "none"
    /\ program' = "stopping" /\ RetryEnds
    /\ IF retry.pc = "starting" THEN Becomes(retry.plugin, "half") ELSE UNCHANGED alive
    /\ UNCHANGED <<registered, health, switchVars, probe, overlapped>>

StopAll ==
    /\ program = "stopping" /\ program' = "down"
    /\ LET stops == {n \in Names : registered[n] # NoPlugin /\ health[n] # "stopped"} IN
       /\ \E how \in [stops -> {"stopped", "error"}] :
             health' = [n \in Names |-> IF n \in stops THEN how[n] ELSE health[n]]
       /\ alive' = [o \in Objects |-> IF \E n \in stops : registered[n] = o THEN "off" ELSE alive[o]]
    /\ UNCHANGED <<registered, switchVars, retry, probe, overlapped>>

LifecycleNext ==
    \/ \E target \in Sources : Switch(target)
    \/ RemovePlugin \/ RemoveStopped \/ Unregister \/ Add \/ AddStarted \/ AddEnds
    \/ RetryBegins \/ RetryNext \/ RetryStopped \/ RetryStarts \/ RetryStarted
    \/ \E n \in Names : ProbeAsks(n)
    \/ ProbeAnswered \/ ProbeForgotten \/ Shutdown \/ StopAll

LifecycleSpec == LifecycleInit /\ [][LifecycleNext]_lifecycleVars

(***************************************************************************)
(* Properties.                                                             *)
(***************************************************************************)
\* Whatever starts and stops fail and however switches, the retry, probes and the shutdown
\* interleave, there is never more than one source of the service; and unless the retry and
\* a switch had the same plugin in hand, nothing runs, or has been half started, that is not
\* registered (so that nothing escapes the shutdown), the status says running of nothing
\* else, and with no switch under way the source that was saved last is the one registered,
\* or its start has failed (core/plugin.py, services/service_source.py).
NothingEscapes == \A o \in Objects : alive[o] # "off" => registered[kindOf[o]] = o
NothingPretends == \A n \in Names : health[n] = "running" =>
                       registered[n] # NoPlugin /\ alive[registered[n]] = "on"
NothingLeft == program = "down" => \A o \in Objects : alive[o] = "off"
LastSaveWins == switch.pc = "idle" => registered[savedSource] # NoPlugin \/ failedStart
OneSource == \A m, n \in Sources : registered[m] # NoPlugin /\ registered[n] # NoPlugin => m = n
PluginsAgree ==
    /\ OneSource
    /\ ~overlapped => NothingEscapes /\ NothingPretends /\ NothingLeft /\ LastSaveWins
=============================================================================
