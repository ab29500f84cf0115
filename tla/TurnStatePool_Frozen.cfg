CONSTANTS
    a1 = a1
    m1 = m1
    m2 = m2
    b1 = b1
    b2 = b2
    Auths <- MC_Auths
    Models <- MC_Models
    Blobs <- MC_Blobs
    Rules <- MC_Rules
    Sweeps <- MC_Sweeps
    IssuedAt <- MC_IssuedAt
    Owner <- MC_Owner
    Turns = {t1}
    RetrySlots = {s1}
    Tasks = {p1}
    NoBlob = NoBlob
    NoKey = NoKey
    NoRule = NoRule
    NoTurn = NoTurn
    Pinned = Pinned
SPECIFICATION Spec
PROPERTIES FrozenPoolTakesNothing
