SPECIFICATION Spec
CONSTANTS
    r1 = r1
    r2 = r2
    w1 = w1
    w2 = w2
    c1 = c1
    c2 = c2
    None = None
    Readers = {r1}
    Writers = {w1, w2}
    Records = {c1}
    Kinds = {"update"}
    PageLimit = 1
    Ttl = 1
    ReadTime = 1
    MaxChanges = 2
    MaxVersion = 0
    MaxGeneration = 4
    MaxTime = 0
SYMMETRY Symmetric
INVARIANTS TypeOK ListsShowReturnedMutations
PROPERTIES NoSilentOverwrite ImplementsService
CHECK_DEADLOCK FALSE
