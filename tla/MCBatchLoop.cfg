SPECIFICATION LoopFairSpec
CONSTANTS
    Doc = {d1, d2, d3}
    MaxWorkers = 2
    Threshold = 2
    MaxChanges = 1
    MaxBoots = 1
INVARIANTS BreakerIsSound
PROPERTIES HaltIsLiftedCleanly LoopGoesOn
