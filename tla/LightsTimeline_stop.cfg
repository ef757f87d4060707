CONSTANTS
    Publishers = {"action", "loader"}
    Savers = {}
    Background = {}
    Offers <- MidiOnly
    Timelines = {1, 2, 3}
    NoTimeline = NoTimeline
    NoSettings = NoSettings
SPECIFICATION Spec
INVARIANTS OnlyWantedTimelines
