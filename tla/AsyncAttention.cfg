SPECIFICATION Spec
CONSTANTS
    Launches <- MCLaunches
    Actors <- MCActors
    InOrder <- InOrderLoads
INVARIANTS
    ReadsWhole
    ExactlyOnce
    NeverStuck
CHECK_DEADLOCK FALSE
