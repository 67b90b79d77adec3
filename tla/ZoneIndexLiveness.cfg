SPECIFICATION FairSpec
CONSTANTS
    s1 = s1
    s2 = s2
    f1 = f1
    f2 = f2
    v1 = v1
    v2 = v2
    v3 = v3
    v4 = v4
    None = None
    Syncers = {s1, s2}
    Scheduler = s1
    Refreshers = {f1}
    ZoneCount = 2
    PageLimit = 1
    Versions = {v1, v2, v3, v4}
    MaxConfig = 0
    MaxEvents = 1
PROPERTIES
    WaitingSyncsEnd
    IndexConverges
