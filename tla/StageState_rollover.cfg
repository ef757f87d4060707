CONSTANTS
    Songs <- MCSongs
    Plans <- TwoDays
    NoSong = NoSong
    NoPlan = NoPlan
    NoRequest = NoRequest
    Clients = {c1}
    Calls <- AllCalls
    MaxDay = 2
SPECIFICATION Spec
INVARIANTS CursorInPlan LabelInPlan LoadDescribesPlan
