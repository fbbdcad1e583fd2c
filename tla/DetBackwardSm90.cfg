\* One head and three heads; windows with and without a gap.
SPECIFICATION FairSpec
CONSTANT Launches <- MCLaunches
INVARIANTS AddsInOrder HeadsInOrder
PROPERTIES Terminates
CHECK_DEADLOCK FALSE
