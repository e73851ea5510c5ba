CONSTANTS
    u1 = u1  u2 = u2  a1 = a1  a2 = a2  b1 = b1
    app = app  api = api  db = db  fwd = fwd  bwd = bwd
    m1 = m1  m2 = m2  m3 = m3  k1 = k1  k2 = k2
    NoPod = NoPod  NoAddress = NoAddress  NoMeta = NoMeta  NoToken = NoToken
    UID = {u1, u2}
    Version = {1, 2, 3, 4, 5, 6, 7, 8}
    Address = {a1, a2, b1}
    Module = {app, api, db}
    Listing = {fwd, bwd}
    Listings <- ListingsOf
    Secured = {api}
    Meta = {m1, m2, m3}
    Token = {k1, k2}
    Delivered <- ReuseEvents
    SharedAddresses = TRUE
    MaxFaults = 0
SPECIFICATION Spec
INVARIANT EndpointCollected
