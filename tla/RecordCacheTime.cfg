SPECIFICATION Spec
CONSTANTS
    r1 = r1
    r2 = r2
    w1 = w1
    w2 = w2
    c1 = c1
    c2 = c2
    None = None
    Readers = {r1}
    Writers = {w1}
    Records = {c1, c2}
    Kinds = {"update"}
    PageLimit = 1
    Ttl = 0
    ReadTime = 1
    MaxChanges = 1
    MaxVersion = 1
    MaxGeneration = 2
    MaxTime = 2
SYMMETRY Symmetric
INVARIANTS ListsAreOfThisAccount ListsShowReturnedMutations UnflaggedListsAreRecent
CHECK_DEADLOCK FALSE
