------------------------------ MODULE MCBackend ------------------------------
(***************************************************************************)
(* The parts of the backend for TLC: the state service with the refresh,   *)
(* the MIDI and Playback inputs, the plugins, and the length job.  Each is *)
(* open to whatever order of steps the others leave it, and they share no  *)
(* variable, so a behaviour chooses a part and only that one moves; the    *)
(* others stay in one initial state.                                       *)
(***************************************************************************)
EXTENDS MCStageState, MidiInput, PlaybackInput, PluginLifecycle, LengthUndo

VARIABLE focus

\* Of several initial states, an unchosen part has one.
ServiceRests == cache = NoPlan
MidiRests == plugged = {}
PlaybackRests == inputChosen = "midi"
PluginsRest == savedSource = DemoPlugin /\ \A n \in Names : health[n] # "error"

MCInit ==
    /\ focus \in {"service", "midi", "playback", "plugins", "lengths"}
    /\ LengthInit
    /\ Init /\ (focus = "service" \/ ServiceRests)
    /\ MidiInit /\ (focus = "midi" \/ MidiRests)
    /\ PlaybackInit /\ (focus = "playback" \/ PlaybackRests)
    /\ LifecycleInit /\ (focus = "plugins" \/ PluginsRest)

Moves(part, next, vs) == IF focus = part THEN next ELSE UNCHANGED vs

MCNext ==
    /\ UNCHANGED focus
    /\ Moves("midi", MidiNext, midiVars)
    /\ Moves("playback", PlaybackNext, playbackVars)
    /\ Moves("plugins", LifecycleNext, lifecycleVars)
    /\ Moves("lengths", LengthNext, lengthVars)
    /\ Moves("service", Next, vars)

MCSpec ==
    MCInit /\ [][MCNext]_<<focus, vars, midiVars, playbackVars, lifecycleVars, lengthVars>>
=============================================================================
