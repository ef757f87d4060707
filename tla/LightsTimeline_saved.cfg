CONSTANTS
    Publishers = {"action"}
    Savers = {"s1"}
    Background = {}
    Offers <- MidiOnly
    Timelines = {1, 2, 3}
    NoTimeline = NoTimeline
    NoSettings = NoSettings
SPECIFICATION Spec
INVARIANTS SavedSettingsInForce
