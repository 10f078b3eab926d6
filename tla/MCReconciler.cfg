SPECIFICATION FairSpec
CONSTANTS
    Doc = {1, 2}
    Text = {a, b}
    Blank = Blank
    NoRow = NoRow
    Never = Never
    PageSize = 1
    Overlap = 1
    MaxFailures = 2
    MaxClock = 2
    MaxFaults = 3
INVARIANTS NoDocumentIsLost SkipIsSafe 
PROPERTIES SweepKeepsLiveDocuments Converges
