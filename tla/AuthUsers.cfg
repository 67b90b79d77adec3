SPECIFICATION Spec
CONSTANTS
    Users = {u1, u2}
    Handlers = {h1, h2}
    Ops <- UserOps
    Ids = {1, 2}
    SessionIds = {1}
    Keys = {1}
    MaxStep = 1
    PasswordLoginEnabled = TRUE
    None = None
SYMMETRY Symmetry
INVARIANTS
    TypeOK
    AdminRemains
    OneFounder
PROPERTIES
    MethodRemains
    DisabledUsersGetNoPasskeys
