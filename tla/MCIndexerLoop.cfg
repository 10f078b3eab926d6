SPECIFICATION MCSpec
CONSTANTS
    p1 = p1
    m1 = m1
    m2 = m2
    c1 = c1
    c2 = c2
    Doc = {d1, d2}
    Provider = {p1}
    Model = {m1, m2}
    Chunking = {c1, c2}
    NoConfig = NoConfig
    NoRow = NoRow
    SweepInterval = 1
    MaxSaves = 2
    MaxRequests = 1
    MaxChanges = 1
    MaxFaults = 1
    MaxLosses = 1
INVARIANTS IndexIsSound
PROPERTIES NewSettingsHaveTheirWipe BootHealsIdentity LoopGoesOn
