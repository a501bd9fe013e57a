\* A client that names a new session at every request.
CONSTANTS
    Requests = {r1}
    Keys = {k1, k2, k3}
    Asked = {k1, k2, k3}
    Left = {}
    Accounts = {a1, a2}
    None = None
    TTL = 0
    MaxEntries = 1
    MaxWrites = 2
    Lossy = TRUE
SPECIFICATION Spec
INVARIANTS
    CapHolds
