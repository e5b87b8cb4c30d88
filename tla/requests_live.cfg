SPECIFICATION FairSpec
CONSTANTS
    ann = ann
    bob = bob
    Users <- MCUsers
    Admins <- MCAdmins
    SecurityMembers <- MCSecurityMember
    ManagerGroups = {dba}
    ManagerMembers <- MCManagerMembers
    RequestIDs = {r1}
    Invocations = {i1, i2}
    NoOne = NoOne
    AllowSelfApproval = TRUE
    LegacyRouted = FALSE
    FaultsPossible = TRUE
PROPERTIES
    TwoTierApprovalPublished
