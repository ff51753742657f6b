CONSTANTS
    Clients = {c1, c2}
    Urls = {u1}
    NoUrl = NoUrl
    Hashes = {h1, h2}
    NoHash = NoHash
    RunIds = {r1, r2}
    NoRun = NoRun
    NoClient = NoClient
    UseLock = TRUE
    ItemDays = 1
    RunDays = 1
    MaxTime = 3
SPECIFICATION Spec
SYMMETRY ClientSymmetry
INVARIANTS SeenOrder StoredIsLastReturned
PROPERTY WatermarkForward
