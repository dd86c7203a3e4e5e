SPECIFICATION Spec
CONSTANTS
  short = short
  long = long
  empty = empty
  forecast = forecast
  search = search
  e1 = e1
  e2 = e2
  e3 = e3
  NoText = NoText
  Editors = {e1}
  Readers = {forecast, search}
  Searchers = {search}
  Texts = {short, long, empty}
  SceneCount <- Count
  Manifests <- BothShort
  Modes = {TRUE}
  LastChapter = 2
  MaxParts = 2
  Asks <- Boundaries
  MaxScenes = 1
  TopK = 1
  MaxQueries = 1
  Citations = {1}
INVARIANTS
  NothingBleeds
CHECK_DEADLOCK FALSE
