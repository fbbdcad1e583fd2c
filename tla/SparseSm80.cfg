\* Both kernels, every combination of votes.
SPECIFICATION FairSpec
CONSTANTS
    Launches <- MCLaunches
    MaxWarps = 3
INVARIANTS ReadsWhole WarpsAgree
PROPERTIES Completes
CHECK_DEADLOCK FALSE
