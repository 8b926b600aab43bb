CONSTANTS
    owner = owner
    other = other
    id1 = id1
    id2 = id2
    newId = newId
    m1 = m1
    m2 = m2
    Peers <- MCPeers
    Owner = owner
    Ids <- MCIds
    NewIdentity = newId
    Mechs <- MCMechs
    Acl <- MCAcl
    MayUse <- MCMayUse
    MaxCalls = 3
SPECIFICATION Spec
INVARIANT ForwardedMechanismAllowed
