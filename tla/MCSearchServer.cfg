SPECIFICATION FairSpec
CONSTANTS
    s1 = s1
    s2 = s2
    key1 = key1
    guest1 = guest1
    d1 = d1
    Slots = {s1, s2}
    Keys = {key1}
    Guests = {guest1}
    Docs = {d1}
    Scripts <- MCScripts
    Settings <- MCSettings
    Cost = 1
    MaxEpochs = 2
INVARIANTS SettingsAreFollowed LimitsHold
PROPERTIES CachedAnswersFit StreamsKeepTheContract EveryRequestEnds
CHECK_DEADLOCK FALSE
