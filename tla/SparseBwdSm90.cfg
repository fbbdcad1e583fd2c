\* The configurations of every head dimension.
SPECIFICATION FairSpec
CONSTANT Launches <- MCLaunches
INVARIANTS TypeOK ReadsWhole SkipAgreement
PROPERTIES GradientsComplete
CHECK_DEADLOCK FALSE
