SPECIFICATION MCSpec
CONSTANTS
  short = short
  long = long
  empty = empty
  forecast = forecast
  search = search
  e1 = e1
  e2 = e2
  e3 = e3
  NoText = NoText
  Editors = {e1, e2, e3}
  Readers = {forecast, search}
  Searchers = {search}
  Texts = {short, long}
  SceneCount <- Count
  Manifests <- TwoWorks
  Modes = {TRUE, FALSE}
  LastChapter = 2
  MaxParts = 2
  Asks <- Boundaries
  MaxScenes = 1
  TopK = 1
  MaxQueries = 1
  Citations = {1}
SYMMETRY EditorSymmetry
INVARIANTS
  ManuscriptKept
  IndexFresh
  NoFutureShown
  StoredIsVerified
PROPERTIES
  EditsCompose
CHECK_DEADLOCK FALSE
