CONSTANTS
    Songs <- MCSongs
    Plans <- OneDay
    NoSong = NoSong
    NoPlan = NoPlan
    NoRequest = NoRequest
    Clients = {c1}
    Calls <- AllCalls
    MaxDay = 1
SPECIFICATION Spec
PROPERTIES StartedSongIsLabelled
