SPECIFICATION Spec
CONSTANTS
    ann = ann
    Users = {ann, bob, eve}
    InitialAdmins = {ann}
    GroupIDs = {g1, g2}
    AccountIDs = {prod}
    Roles = {r1, r2}
    Invocations = {i1, i2}
    None = None
SYMMETRY MCSymmetry
\* once nobody is an administrator, nobody can start a command
CHECK_DEADLOCK FALSE
INVARIANTS
    TypeOK
    
PROPERTY
    AdministratorRemains
