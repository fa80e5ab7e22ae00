CONSTANTS
    o1 = o1
    k1 = k1
    d1 = d1
    Owner = {o1}
    Connection = {k1}
    Device = {d1}
    OwnerOf <- Owned
    Grant = {g1, g2}
    Socket = {s1, s2}
    MaxSlots = 1
    MaxRevision = 2
    MaxLogins = 2
    MaxRestarts = 1
    None = None
SPECIFICATION Spec
SYMMETRY Symmetric
INVARIANTS
    GatewayTypeOK
    OneSessionPerGrant
    SessionsAreAccounted
    KeysAreTested
CHECK_DEADLOCK FALSE
