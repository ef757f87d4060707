SPECIFICATION MCSpec
CHECK_DEADLOCK FALSE
SYMMETRY Perms
CONSTANTS
  Ids = {i1, i2, i3}
  Nonces = {n1}
  Gens = {g1, g2}
  Limit = 2
  MaxCred = 1
  Remote = {i1}
  None = None
  Foreign = Foreign
  Sites = {s1}
  MaxActions = 2
  Bundles = {b1, b2, b3}
  MaxSize = 2
  Cap = 3
  SweepBatch = 1
  NoJob = NoJob
  Sources = {a, b, c}
  Exempt = {b}
  MaxSources = 2
  PerWindow = 2
  Total = 3
  Normal = 1
  Length = 2
  MaxNow = 4
  Files = {f1, f2}
  Manifests = {f1}
  Downloads = {d1, d2}
  MaxAssets = 2
  CacheTime = 1
  MaxClock = 2
  MaxRedirects = 1
  NoAsset = NoAsset
INVARIANTS
  FleetIsSound
  LimitsHold
  WithdrawnIsNotServed
PROPERTIES
  FinishedRemovalIsClean
  ImplementsRemoteAccess
  DeskKeepsItsWord
