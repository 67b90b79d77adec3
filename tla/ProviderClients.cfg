SPECIFICATION Spec
CONSTANTS
    r1 = r1
    r2 = r2
    a1 = a1
    x1 = x1
    x2 = x2
    None = None
    Kinds = {"write", "validate"}
    Changes = {"replace", "delete", "disable"}
    Requests = {r1, r2}
    Admins = {a1}
    Runtimes = {x1, x2}
    BuildAttempts = 2
    CallSlots = 2
    MaxVersion = 2
    MaxGeneration = 2
SYMMETRY Symmetric
INVARIANTS
    TypeOK
    LiveCallsUseCurrentAccount
    ValidIsAboutThisAccount
    OneMutationAtATime
    ChannelsAccounted
PROPERTY
    GetIsFresh
