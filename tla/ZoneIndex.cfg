SPECIFICATION Spec
CONSTANTS
    None = None
    Syncers = {s1, s2}
    Scheduler = s1
    s1 = s1
    s2 = s2
    Refreshers = {f1}
    f1 = f1
    f2 = f2
    ZoneCount = 2
    PageLimit = 1
    Versions = {v1, v2, v3, v4}
    v1 = v1
    v2 = v2
    v3 = v3
    v4 = v4
    MaxConfig = 1
    MaxEvents = 2
SYMMETRY Symmetric
INVARIANTS
    TypeOK
    IndexIsOfThisAccount
    SyncsDoNotCollide
PROPERTIES
    RefreshesYieldToSyncs
    DisabledIndexGainsNothing
    MarkerSyncsKeepZones
