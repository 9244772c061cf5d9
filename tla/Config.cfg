\* Two handlers at a time, two remotes of two channels or one of three.
CONSTANTS
  b = b
  c = c
  None = None
  Empty = Empty
  Torn = Torn
  Names = {b, c}
  Threads = {t1, t2}
  MaxChannels = 4
  InputCount = 1
  Resampled = TRUE
  Labels <- Texts
  DefaultLabel = "ch"
  LabelLists <- SomeLabels
  RouteLists <- SomeRoutes
  RemoteLists <- SomeRemotes
  Channels = {2, 3}
  MaxRequests = 4
SPECIFICATION Spec
SYMMETRY Handlers
INVARIANTS TypeOK MasksMatchList SavedIsShown HeardAsRouted
PROPERTIES LabelsSurvive ApplyTakesEffect MigrationKeepsNames
