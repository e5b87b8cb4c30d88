SPECIFICATION Spec
CONSTANTS
    ann = ann
    bob = bob
    Users <- MCUsers
    Admins <- MCAdmins
    SecurityMembers <- MCSecurityMembers
    ManagerGroups = {dba}
    ManagerMembers <- MCManagerMembers
    RequestIDs = {r1}
    Invocations = {i1, i2}
    NoOne = NoOne
    AllowSelfApproval = FALSE
    LegacyRouted = FALSE
    FaultsPossible = FALSE
PROPERTIES
    RecordedApprovalsKept
