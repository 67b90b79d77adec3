SPECIFICATION FairSpec
CONSTANTS
    r1 = r1
    r2 = r2
    a1 = a1
    x1 = x1
    None = None
    Kinds = {"write", "sync"}
    Changes = {"options", "rename"}
    Requests = {r1, r2}
    Admins = {a1}
    Runtimes = {x1}
    BuildAttempts = 2
    CallSlots = 1
    MaxVersion = 1
    MaxGeneration = 1
PROPERTY
    RequestsGetOn
