SPECIFICATION Spec
CONSTANTS
    p1 = p1
    m1 = m1
    m2 = m2
    c1 = c1
    c2 = c2
    Doc = {d1, d2}
    Provider = {p1}
    Model = {m1}
    Chunking = {c1, c2}
    NoConfig = NoConfig
    NoRow = NoRow
    SweepInterval = 1
    MaxSaves = 1
    MaxRequests = 0
    MaxChanges = 1
    MaxFaults = 0
    MaxLosses = 0
PROPERTIES NewSettingsHaveTheirWipe
