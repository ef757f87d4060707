SPECIFICATION MCSpec
CHECK_DEADLOCK FALSE
CONSTANTS
  Songs <- MCSongs
  Plans <- OneDay
  NoSong = NoSong
  NoPlan = NoPlan
  NoRequest = NoRequest
  Clients = {c1}
  Calls <- AllCalls
  MaxDay = 1
  N = 2
  Given = 0
  Measured = {1, 2}
  Typed = {3}
  MaxPreviews = 2
  None = None
  MidiInputs = {i1}
  NoMidi = NoMidi
  Capacity = 2
  MaxOpens = 2
  MaxSelections = 2
  MaxNotes = 2
  Callers = {q1, q2}
  Scans = {n1, n2}
  MaxRequests = 2
  MaxObserved = 2
  QueueBound = 1
  NoPlugin = NoPlugin
  MaxSwitches = 2
INVARIANTS
  TypeOK
  UpNextIsPending
  MidiIsSound
  PlaybackIsSound
  PluginsAgree
  CanBeGivenBack
PROPERTIES
  StartPlaysUpNext
  ReloadFollowsSongs
