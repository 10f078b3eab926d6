SPECIFICATION MCSpec
CONSTANTS
    Doc = {d1}
    OcrDaemon = {o1}
    Classifier = {c1}
    Pre = pre
    Post = post
    ClassifyPre = post
    OcrLock = ocrLock
    ClassifyLock = clLock
    ClassifyPost = clPost
    Error = error
    NoTag = NoTag
    UserTag = {u1}
    Vocabulary = {u1, pre, post, ocrLock}
    Recovery = TRUE
    MaxEdits = 0
    MaxQueued = 1
    MaxPicks = 1
    MaxFaults = 1
    MaxRejects = 1
    MaxStops = 1
INVARIANTS TagsAreSound CallsAreAccountedFor
PROPERTIES ClassifiedIsFinal QueuesDrain
