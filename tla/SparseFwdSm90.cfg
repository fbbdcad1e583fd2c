\* Launches of every kind: one and more segments, overlap and turns.
SPECIFICATION FairSpec
CONSTANT Launches <- MCLaunches
INVARIANTS TypeOK OneSegmentIntactV SkipAgreement ScalesAgree
PROPERTIES Terminates ImplementsFold
CHECK_DEADLOCK FALSE
