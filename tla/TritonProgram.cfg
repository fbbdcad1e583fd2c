\* Dense, sparse and gated programs, block by block.
SPECIFICATION Spec
CONSTANTS
    Launches <- MCLaunches
    Weights = {1, 4}
    Threshold = 2
INVARIANTS OwnTile DroppedIsNegligible EachPairOnce
PROPERTIES ImplementsLaunch
