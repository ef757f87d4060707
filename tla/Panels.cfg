SPECIFICATION MCSpec
CHECK_DEADLOCK FALSE
CONSTANTS
  MaxSettingsSaves = 2
  MaxAtOnce = 2
  MaxSongs = 3
  MaxTasks = 2
  Streak = 1
  HostSetByShell = TRUE
  MaxSaves = 2
  Cues = {c1, c2}
  Songs = {s1, s2}
  MaxEdits = 2
  Widgets = {plan, controls, events}
  Events = events
  Controls = controls
  MaxPanelSaves = 1
  Unread = Unread
  t1 = t1
  t2 = t2
  Targets = {t1, t2}
  Lists <- SomeLists
  Found <- SomeFound
  Talk = Talk
  Unclear = Unclear
  MaxItems = 3
  MaxRuns = 2
  MaxRearranged = 1
  Clients = {k1, k2}
  DefaultClient = k1
  Organizations = {o1, o2}
  Accounts = {a1, a2}
  Nobody = Nobody
  MaxLogins = 3
  LineOf = 2
  Plain = {1}
  Loose = {2}
  Lengths = {1, 2}
  MaxElementSaves = 2
  Blank = Blank
  Markers = {1, 2, 3, 4}
  LongNames = {1, 3}
  SongLength = 4
  Scales = {9, 30}
  ShiftStep = 3
  NoMarker = 0
  Talks = {d1, d2}
  Home = Home
  MaxAsks = 3
  MaxLength = 2
  Threshold = 2
  NoteRows = {r1, r2}
  Card = Card
  Nowhere = Nowhere
  MaxHover = 3
INVARIANTS
  ShowsNothingUntrue
  CapturesStay
  ToolIsSound
  ViewsAgree
  RevertRestores
  OverlaysBehave
PROPERTIES
  NothingIsPutBack
  NoEditLost
  WholeLayoutSurvives
