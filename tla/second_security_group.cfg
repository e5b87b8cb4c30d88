SPECIFICATION Spec
CONSTANTS
    ann = ann
    Users = {ann, bob}
    InitialAdmins = {ann}
    GroupIDs = {g1, g2}
    AccountIDs = {prod}
    Roles = {r1}
    Invocations = {i1}
    None = None
INVARIANT
    OneSecurityGroup
