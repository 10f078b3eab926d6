SPECIFICATION MCSpecOfUsers
CONSTANTS
    Doc = {d1}
    OcrDaemon = {o1}
    Classifier = {c1}
    Pre = pre
    Post = post
    ClassifyPre = classify
    OcrLock = NoTag
    ClassifyLock = NoTag
    ClassifyPost = NoTag
    Error = error
    NoTag = NoTag
    UserTag = {u1}
    Vocabulary = {u1, pre, classify}
    Recovery = TRUE
    MaxEdits = 1
    MaxQueued = 1
    MaxPicks = 1
    MaxFaults = 1
    MaxRejects = 1
    MaxStops = 1
INVARIANTS UserTagsAreKept
PROPERTIES QueuesDrain
