\* Two requests of one session, and a session left from an earlier run that
\* fills the map.
CONSTANTS
    Requests = {r1, r2}
    Keys = {k1, k2}
    Asked = {k1}
    Left = {k1, k2}
    Accounts = {a1, a2}
    None = None
    TTL = 0
    MaxEntries = 1
    MaxWrites = 2
    Lossy = TRUE
SPECIFICATION Spec
SYMMETRY Alike
INVARIANTS
    TypeOK
PROPERTIES
    NoResurrection
    AffinityKept
    BindNeverOverfills
