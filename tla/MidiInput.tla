------------------------------- MODULE MidiInput -------------------------------
(***************************************************************************)
(* The MIDI input (plugins/midi_playback/plugin.py): a supervisor that     *)
(* opens and watches the selected input, requests that select another one, *)
(* settings saves, the callback that queues what a device sends, and the   *)
(* consumer that turns a cue into an action.  All share the selection, the *)
(* identity of the connection and the latches of the notes held down.      *)
(*                                                                         *)
(* The MIDI library runs in one thread, so each of its calls is one step   *)
(* that ends an await.  A request that selects holds the routes' lock, so  *)
(* there is one at a time, and saves wait for it.  There is one cue, on    *)
(* one note; what comes on other notes and channels changes nothing.       *)
(***************************************************************************)
EXTENDS Integers, Sequences, FiniteSets

CONSTANTS
    MidiInputs, NoMidi,
    Capacity,       \* of the queue
    MaxOpens,       \* bound: connections, which are numbered
    MaxSelections,  \* bound: selections and saves
    MaxNotes        \* bound: messages and simulated cues

ASSUME MidiAssumption ==
    /\ NoMidi \notin MidiInputs
    /\ {Capacity, MaxOpens, MaxSelections, MaxNotes} \subseteq Nat

NoPort == 0          \* also the connection of a simulated cue
Note == [what : {"press", "release", "simulated"}, from : 0..MaxOpens]
NothingInHand == [what |-> "nothing", from |-> NoPort]

VARIABLES
    phase,       \* of the plugin: "on", "stopping", "draining", "off"
    selected,    \* _selected_input_name
    asked,       \* the input a request selects, while the inputs are listed
    watcher,     \* the supervisor: the await it is at, the input and the port it has
    ports,       \* ports open
    dead,        \* ports that their device has left
    plugged,     \* inputs that can be listed under a name of their own
    active,      \* _active_connection_id
    reported,    \* is the connection status CONNECTED?
    notes,       \* the queue
    inHand,      \* the message the consumer has, and the await it is at
    latch,       \* is the cue's trigger in _held_notes?
    recent,      \* was it triggered within the debounce time?
    keyDown,     \* is the device's key down?
    opens, selections, sent,
    simulation,  \* a request that waits for its simulated cue
    reselected,  \* history: the input was changed and changed back unseen
    missed,      \* history: a release was dropped since the last connection
    spare        \* history: times the key went down or a latch was cleared, less the actions

midiVars == <<phase, selected, asked, watcher, ports, dead, plugged, active, reported, notes,
              inHand, latch, recent, keyDown, opens, selections, sent, simulation, reselected,
              missed, spare>>
noteVars == <<notes, inHand, sent, simulation>>
latchVars == <<latch, recent, spare>>
deviceVars == <<dead, plugged, keyDown>>
askVars == <<selected, asked, selections, reselected>>
portVars == <<watcher, ports, active, opens>>

MidiInit ==
    /\ phase = "on" /\ selected \in MidiInputs /\ asked = NoMidi
    /\ watcher = [at |-> "look", name |-> NoMidi, port |-> NoPort]
    /\ ports = {} /\ dead = {} /\ plugged \in SUBSET MidiInputs
    /\ active = NoPort /\ reported = FALSE
    /\ notes = <<>> /\ inHand = [at |-> "idle", note |-> NothingInHand]
    /\ latch = FALSE /\ recent = FALSE /\ keyDown = FALSE
    /\ opens = 0 /\ selections = 0 /\ sent = 0
    /\ simulation = "none" /\ reselected = FALSE /\ missed = FALSE /\ spare = 0

\* _held_notes.clear() and _last_triggered_at.clear()
Unlatched == latch' = FALSE /\ spare' = IF latch THEN spare + 1 ELSE spare
LatchesCleared == Unlatched /\ recent' = FALSE

(***************************************************************************)
(* The supervisor.                                                         *)
(***************************************************************************)
WatcherGoes(at) == watcher' = [watcher EXCEPT !.at = at]
Reports(connected) == reported' = connected

\* The head of the loop.
Looks ==
    /\ watcher.at = "look"
    /\ CASE phase = "stopping" -> WatcherGoes("over") /\ UNCHANGED reported
         [] selected = NoMidi -> WatcherGoes("rest") /\ Reports(FALSE)
         [] OTHER -> watcher' = [at |-> "listing", name |-> selected, port |-> NoPort]
                     /\ UNCHANGED reported
    /\ UNCHANGED <<phase, askVars, ports, active, opens, deviceVars, noteVars, latchVars, missed>>

\* _wait_before_retry ends: its time is over, or it was woken.
Rests ==
    /\ watcher.at = "rest" /\ WatcherGoes("look")
    /\ UNCHANGED <<phase, askVars, ports, active, opens, reported, deviceVars, noteVars, latchVars,
                   missed>>

\* The list fails, is too late for the selection, or has the input once or not.
Listed ==
    /\ watcher.at = "listing"
    /\ \/ WatcherGoes("rest") /\ Reports(FALSE)
       \/ watcher.name # selected /\ WatcherGoes("look") /\ UNCHANGED reported
       \/ /\ watcher.name = selected /\ Reports(FALSE)
          /\ WatcherGoes(IF watcher.name \in plugged THEN "opening" ELSE "rest")
    /\ UNCHANGED <<phase, askVars, ports, active, opens, deviceVars, noteVars, latchVars, missed>>

OpenFails ==
    /\ watcher.at = "opening" /\ WatcherGoes("rest") /\ Reports(FALSE)
    /\ UNCHANGED <<phase, askVars, ports, active, opens, deviceVars, noteVars, latchVars, missed>>

\* Mutant: the port is used although another input was selected meanwhile.
StillWanted_Always == phase = "on"

\* The selection may have changed while the port was opened.
StillWanted == phase = "on" /\ watcher.name = selected

Adopts(port) ==
    /\ active' = port /\ LatchesCleared /\ Reports(TRUE)
    /\ missed' = FALSE /\ reselected' = FALSE
    /\ watcher' = [watcher EXCEPT !.at = "watch", !.port = port]

\* The port is open; the cue in hand, if its publication is still going on, ends before.
Opened ==
    /\ watcher.at = "opening" /\ watcher.name \in plugged /\ opens < MaxOpens
    /\ inHand.at # "publishing"
    /\ opens' = opens + 1 /\ ports' = ports \cup {opens'}
    /\ IF StillWanted THEN Adopts(opens')
       ELSE /\ watcher' = [watcher EXCEPT !.at = "closing", !.port = opens']
            /\ UNCHANGED <<active, latchVars, missed, reported, reselected>>
    /\ UNCHANGED <<phase, selected, asked, selections, deviceVars, noteVars>>

\* The connected input is asked, each second, whether it is still there.
Checks ==
    /\ watcher.at = "watch" /\ WatcherGoes("checking")
    /\ UNCHANGED <<phase, askVars, ports, active, opens, reported, deviceVars, noteVars, latchVars,
                   missed>>

Healthy ==
    /\ phase = "on" /\ watcher.name = selected
    /\ watcher.port \notin dead /\ watcher.name \in plugged

Leaves ==
    /\ active' = NoPort /\ Unlatched /\ WatcherGoes("closing")
    /\ UNCHANGED <<recent, reported>>

Checked ==
    /\ watcher.at = "checking"
    /\ \/ Healthy /\ WatcherGoes("watch") /\ Reports(TRUE) /\ UNCHANGED <<active, latchVars>>
       \/ ~Healthy /\ Leaves
       \/ Leaves                       \* the library raised
    /\ UNCHANGED <<phase, askVars, ports, opens, deviceVars, noteVars, missed>>

PortCloses ==
    /\ watcher.at = "closing"
    /\ ports' = ports \ {watcher.port}
    /\ watcher' = [watcher EXCEPT !.at = "look", !.port = NoPort]
    /\ reported' = FALSE
    /\ UNCHANGED <<phase, askVars, active, opens, deviceVars, noteVars, latchVars, missed>>

Supervise ==
    Looks \/ Rests \/ Listed \/ OpenFails \/ Opened \/ Checks \/ Checked \/ PortCloses

(***************************************************************************)
(* Requests: selecting an input, saving the settings, stopping.            *)
(***************************************************************************)
Selects(n) ==
    /\ selected' = n /\ active' = NoPort /\ LatchesCleared /\ Reports(FALSE)
    /\ reselected' = (watcher.port # NoPort /\ n = watcher.name)

\* None is selected at once; an input after the inputs are listed.
SelectNone ==
    /\ phase = "on" /\ asked = NoMidi /\ selections < MaxSelections /\ selected # NoMidi
    /\ selections' = selections + 1 /\ Selects(NoMidi)
    /\ UNCHANGED <<phase, asked, watcher, ports, opens, deviceVars, noteVars, missed>>

AskToSelect(n) ==
    /\ phase = "on" /\ asked = NoMidi /\ selections < MaxSelections
    /\ selections' = selections + 1 /\ asked' = n
    /\ UNCHANGED <<phase, selected, reselected, portVars, reported, deviceVars, noteVars, latchVars,
                   missed>>

\* It is refused when the list fails or does not have it, and changes nothing if selected.
SelectListed ==
    /\ asked # NoMidi /\ asked' = NoMidi
    /\ \/ asked \in plugged /\ asked # selected /\ phase = "on" /\ Selects(asked)
       \/ Reports(FALSE) /\ UNCHANGED <<selected, active, latchVars, reselected>>
       \/ /\ (asked = selected \/ asked \notin plugged)
          /\ UNCHANGED <<selected, active, latchVars, reselected, reported>>
    /\ UNCHANGED <<phase, selections, watcher, ports, opens, deviceVars, noteVars, missed>>

\* reconfigure: the latches are cleared, the connection is kept if the input is.
SaveMidi(n) ==
    /\ phase = "on" /\ asked = NoMidi /\ selections < MaxSelections
    /\ selections' = selections + 1
    /\ IF n # selected THEN Selects(n)
       ELSE LatchesCleared /\ UNCHANGED <<selected, active, reselected, reported>>
    /\ UNCHANGED <<phase, asked, watcher, ports, opens, deviceVars, noteVars, missed>>

StopMidi ==
    /\ phase = "on" /\ asked = NoMidi /\ phase' = "stopping" /\ active' = NoPort
    /\ UNCHANGED <<askVars, watcher, ports, opens, reported, deviceVars, noteVars, latchVars, missed>>

HasSimulated(q) == \E i \in DOMAIN q : q[i].what = "simulated"

\* Mutant: the messages that wait are thrown away without an answer.
Drained_Silently == UNCHANGED simulation

\* The simulated cues that wait are answered.
Drained == IF HasSimulated(notes) THEN simulation' = "none" ELSE UNCHANGED simulation

\* The supervisor has ended.
Drain ==
    /\ phase = "stopping" /\ watcher.at = "over" /\ phase' = "draining"
    /\ notes' = <<>> /\ Drained
    /\ UNCHANGED <<askVars, portVars, reported, deviceVars, inHand, sent, latchVars, missed>>

\* The consumer has taken the stop mark from the queue.
StopEnds ==
    /\ phase = "draining" /\ inHand.at = "idle" /\ phase' = "off"
    /\ LatchesCleared /\ Reports(FALSE)
    /\ UNCHANGED <<askVars, portVars, deviceVars, noteVars, missed>>

(***************************************************************************)
(* The device and the queue.                                               *)
(***************************************************************************)
DeviceSends == sent < MaxNotes /\ sent' = sent + 1
Plays == watcher.port \in ports \ dead      \* the device has a port to send to

\* _receive_from_backend and _offer_message
Offer(what) ==
    LET full == Len(notes) = Capacity IN
    IF Plays /\ watcher.port = active /\ phase = "on"
    THEN /\ notes' = IF full THEN notes
                     ELSE Append(notes, [what |-> what, from |-> watcher.port])
         /\ reported' \in (IF full THEN {reported, FALSE} ELSE {reported})
         /\ missed' = (missed \/ (full /\ what = "release"))
    ELSE UNCHANGED <<notes, reported, missed>>

\* A key that is down may be sent as pressed again.
Press ==
    /\ DeviceSends /\ keyDown' = TRUE /\ Offer("press")
    /\ spare' = IF keyDown THEN spare ELSE spare + 1
    /\ UNCHANGED <<phase, askVars, portVars, dead, plugged, inHand, latch, recent, simulation>>

LetGo ==
    /\ keyDown /\ keyDown' = FALSE /\ Offer("release")
    /\ UNCHANGED <<phase, askVars, portVars, dead, plugged, inHand, latchVars, sent, simulation>>

Simulate ==
    /\ phase = "on" /\ simulation = "none" /\ DeviceSends
    /\ IF Len(notes) = Capacity
       THEN UNCHANGED <<notes, simulation>> /\ reported' \in {reported, FALSE}
       ELSE /\ notes' = Append(notes, [what |-> "simulated", from |-> NoPort])
            /\ simulation' = "waiting" /\ UNCHANGED reported
    /\ UNCHANGED <<phase, askVars, portVars, deviceVars, inHand, latchVars, missed>>

Plug(n) ==
    /\ plugged' = IF n \in plugged THEN plugged \ {n} ELSE plugged \cup {n}
    /\ dead' = IF n \in plugged /\ watcher.name = n /\ watcher.port # NoPort
               THEN dead \cup {watcher.port} ELSE dead
    /\ DeviceSends
    /\ UNCHANGED <<phase, askVars, portVars, reported, keyDown, notes, inHand, latchVars,
                   simulation, missed>>

TimePasses ==
    /\ recent /\ recent' = FALSE
    /\ UNCHANGED <<phase, askVars, portVars, reported, deviceVars, noteVars, latch, spare, missed>>

(***************************************************************************)
(* The consumer.                                                           *)
(***************************************************************************)
ConsumerOnly == UNCHANGED <<phase, askVars, portVars, reported, deviceVars, missed>>

\* What every message ends with: a simulated cue is let go of, and answered.
Lets(note, held) ==
    IF note.what = "simulated"
    THEN latch' = FALSE /\ spare' = IF latch THEN spare + 1 ELSE spare
    ELSE latch' = held /\ UNCHANGED spare

CueHandled(note) ==
    /\ inHand' = [at |-> "idle", note |-> NothingInHand]
    /\ simulation' = IF note.what = "simulated" THEN "none" ELSE simulation

\* Mutant: a message is not checked against the connection it came from.
Stale_Never(note) == FALSE

Stale(note) == note.from # NoPort /\ note.from # active

\* A cue that was queued under another owner of the actions is refused.
TakeNote ==
    /\ inHand.at = "idle" /\ notes # <<>> /\ phase = "on"
    /\ notes' = Tail(notes)
    /\ LET note == Head(notes) IN
       CASE Stale(note) -> UNCHANGED <<inHand, latchVars, simulation>>
         [] ~Stale(note) /\ note.what = "release" ->
              latch' = FALSE /\ UNCHANGED <<recent, spare, inHand, simulation>>
         [] OTHER -> \/ /\ inHand' = [at |-> "publishing", note |-> note]
                        /\ UNCHANGED <<latchVars, simulation>>
                     \/ CueHandled(note) /\ Lets(note, latch) /\ UNCHANGED recent
    /\ UNCHANGED sent /\ ConsumerOnly

\* A message taken while the plugin stops is answered and nothing else.
TakeStopping ==
    /\ inHand.at = "idle" /\ notes # <<>> /\ phase # "on"
    /\ notes' = Tail(notes)
    /\ simulation' = IF Head(notes).what = "simulated" THEN "none" ELSE simulation
    /\ UNCHANGED <<sent, inHand, latchVars>> /\ ConsumerOnly

Duplicate == latch \/ recent

\* The recognized cue has been published; the guard may refuse what is not a duplicate.
CuePublished ==
    /\ inHand.at = "publishing"
    /\ IF Duplicate THEN CueHandled(inHand.note) /\ UNCHANGED recent /\ Lets(inHand.note, latch)
       ELSE /\ recent' = TRUE
            /\ \/ CueHandled(inHand.note) /\ Lets(inHand.note, TRUE)
               \/ /\ inHand' = [inHand EXCEPT !.at = "dispatching"] /\ latch' = TRUE
                  /\ spare' = IF inHand.note.what = "press" THEN spare - 1 ELSE spare
                  /\ UNCHANGED simulation
    /\ UNCHANGED <<notes, sent>> /\ ConsumerOnly

\* The action has been carried out or refused.
CueDispatched ==
    /\ inHand.at = "dispatching" /\ CueHandled(inHand.note) /\ Lets(inHand.note, latch)
    /\ UNCHANGED <<notes, sent, recent>> /\ ConsumerOnly

Consume == TakeNote \/ TakeStopping \/ CuePublished \/ CueDispatched

MidiNext ==
    \/ Supervise \/ Consume
    \/ SelectNone \/ SelectListed \/ \E n \in MidiInputs : AskToSelect(n) \/ SaveMidi(n) \/ Plug(n)
    \/ StopMidi \/ Drain \/ StopEnds
    \/ Press \/ LetGo \/ Simulate \/ TimePasses

\* The input by itself, with no promise that anything happens.
MidiSpec == MidiInit /\ [][MidiNext]_midiVars

(***************************************************************************)
(* Properties.                                                             *)
(***************************************************************************)
\* While the plugin says that it is connected, the selected input's port is open and what
\* it sends is listened to, whatever was selected, saved, plugged in or out meanwhile;
\* unless the input was deselected and selected again before the supervisor looked.
ConnectedIsHeard ==
    reported /\ phase = "on" /\ watcher.at # "closing" /\ ~reselected =>
        active \in ports /\ active = watcher.port /\ watcher.name = selected

\* At most one port is ever open, and none is left when the plugin has stopped.
PortsAreClosed ==
    /\ Cardinality(ports) <= 1
    /\ phase \in {"draining", "off"} => ports = {} /\ active = NoPort

\* With nothing queued or in hand, a note is held only while the key is down: a press is
\* not taken for a repetition of one that has ended.  A release that found the queue full,
\* and a device that was pulled out and not yet missed, are the exceptions.
LatchFollowsKey ==
    latch /\ notes = <<>> /\ inHand.at = "idle" /\ active # NoPort /\ active \notin dead
        /\ ~missed => keyDown

\* A key that stays down makes one action, however often it is sent as pressed, unless its
\* latch was cleared meanwhile, by a save, a connection or the end of a simulated cue.
OnePerPress == spare >= 0

\* A simulated cue whose request waits is in the queue or in hand, so that the request is
\* answered, also when the plugin stops before it comes to it.
NobodyWaitsInVain ==
    simulation = "waiting" => HasSimulated(notes) \/ inHand.note.what = "simulated"

\* What the MIDI input says, holds and answers is so, whatever is selected, saved, plugged,
\* pressed, simulated and stopped in between.
MidiIsSound ==
    /\ ConnectedIsHeard /\ PortsAreClosed /\ LatchFollowsKey /\ OnePerPress
    /\ NobodyWaitsInVain
=============================================================================
