\* pipeline_k of the SM90 forward: two stages, more than three laps.
SPECIFICATION RingFairSpec
CONSTANTS
    Stages = 2
    Consumers = {c1, c2, c3}
    NumRingBlocks = 7
    Nothing = Nothing
INVARIANTS NoOverwriteWhileRead
PROPERTIES RingTerminates ImplementsStream
CHECK_DEADLOCK FALSE
