SPECIFICATION SettingsFairSpec
CONSTANTS
    a1 = a1
    a2 = a2
    Admin <- MCAdmin
    Envs <- MCEnvs
    Changes <- MCChanges
    MaxSaves = 2
    MaxRedeploys = 1
    MaxFailures = 1
INVARIANTS CachesAreSound
PROPERTIES SavesAreSound SavedSettingsArrive
CHECK_DEADLOCK FALSE
