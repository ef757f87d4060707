------------------------- MODULE MCLightsTimeline -------------------------
(* The instances: what the settings panel can save about the connection.      *)
EXTENDS LightsTimeline

Connection(enabled, method) == [enabled |-> enabled, method |-> method, cues |-> FALSE]

MidiOnly    == {Connection(TRUE, "midi")}
EitherOne   == {Connection(TRUE, "midi"), Connection(TRUE, "osc")}
AnySettings == EitherOne \cup {Connection(FALSE, "midi")}
==========================================================================
