CONSTANTS
    Publishers = {"action"}
    Savers = {"s1"}
    Background = {"b1"}
    Offers <- AnySettings
    Timelines = {1, 2}
    NoTimeline = NoTimeline
    NoSettings = NoSettings
SPECIFICATION FairSpec
INVARIANTS TypeOK OneTimeline NeverBoth OnlyWantedTimelines
PROPERTIES HandlersFinish
