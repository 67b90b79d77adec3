SPECIFICATION Spec
CONSTANTS
    Users = {u1}
    Handlers = {h1, h2}
    Ops <- SecondFactorOps
    Ids = {1, 2}
    SessionIds = {1, 2}
    Keys = {1}
    MaxStep = 2
    PasswordLoginEnabled = TRUE
    None = None
SYMMETRY Symmetry
INVARIANTS
    CodesAreUsedOnce
    VerifiedCodesAreCurrent
    SecondFactorIsConsistent
