SPECIFICATION FairSpec
CONSTANTS
    p1 = p1
    p2 = p2
    small = small
    large = large
    NoConfig = NoConfig
    Procs <- MCProcs
    Configs <- MCConfigs
    Keys <- MCKeys
    Fitting <- MCFitting
    Tile <- MCTile
    JobSets <- MCJobSets
    Placeholder = 64
    MaxCalls = 2
    MaxMishaps = 1
INVARIANT ReturnsOneLaunch
CHECK_DEADLOCK FALSE
CONSTANT OldFiles <- MCOldFiles
