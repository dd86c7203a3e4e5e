SPECIFICATION Spec
CONSTANTS
    sa = sa
    sb = sb
    Loadable <- MCLoadable
    Skill = {sa, sb}
    Documented = {sb}
    Excluded <- MCExcluded
    Mine <- MCMine
    Phrased <- MCPhrased
    Managed <- MCManaged
    Editable <- MCEditable
    MaxEdits = 2
    MaxVersion = 2
    SkillOrder <- MCSkillOrder
    Requests <- MCRequests
    Tokens <- MCTokens
    NameOrder <- MCNameOrder
    Trees <- MCTrees
    Builtin <- MCBuiltin
    MaxTouches = 1
    Repos <- MCRepos
    Ignored = {"n"}
    Begins <- MCBegins
    MaxDepth = 3
    MaxPackages = 3
    Libraries <- MCLibraries
    Scopes <- MCScopes
    Places <- MCPlaces
    Packages <- MCPackages
    Process = {p1, p2}
    Plugin = {a, b}
    Published = {1, 2}
    MaxCommands = 3
    MaxChanges = 1
    Manager = {m1, m2}
    MaxContent = 2
    Writer = {w1, w2}
    MaxEvents = 3
    MaxDamage = 2
    Request = {r1, r2}
    Payload = {p, q}
    MaxJobs = 3
INVARIANTS
    ReplayRestores
    OneJobPerKey
    BundleIsSound
    ListedIffInstalled
    RecordsMatchDisk
    UserFilesSurvive
    LoadedIsClosed
    LimitsHold
    GraphIsSound
    RegistryIsComplete
    StaleIsSeen
    LimitIsReported
    NearestIsRight
    StoredIsConsistent
PROPERTIES
    UpdatesKeepEdits
    ScopesStandAlone
CHECK_DEADLOCK FALSE
