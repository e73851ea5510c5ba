CONSTANTS
    u1 = u1  u2 = u2  a1 = a1  a2 = a2  app = app  fwd = fwd
    m1 = m1  m2 = m2  k1 = k1
    NoPod = NoPod  NoAddress = NoAddress  NoMeta = NoMeta  NoToken = NoToken
    UID = {u1, u2}
    Address = {a1, a2}
    Module = {app}
    Listing = {fwd}
    Listings <- ListingsOf
    Secured = {}
    Meta = {m1, m2}
    Token = {k1}
    SharedAddresses = FALSE
    MaxFaults = 0
    Delivered <- Objects
    Version = {1, 2}
    MaxRevision = 2
    QueueCap = 1
    MaxBreaks = 0
    ImmediateDelete = FALSE
    MayTimeout = FALSE
    MayStop = TRUE
SPECIFICATION WSpec
INVARIANT NoPanic
CHECK_DEADLOCK FALSE
