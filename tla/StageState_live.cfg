CONSTANTS
    Songs <- MCSongs
    Plans <- OnePlan
    NoSong = NoSong
    NoPlan = NoPlan
    NoRequest = NoRequest
    Clients = {c1, c2}
    Calls <- SuspendingCalls
    MaxDay = 1
SPECIFICATION FairSpec
PROPERTIES CallsAnswered
