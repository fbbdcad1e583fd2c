\* Every kind of attention, with and without overlap.
SPECIFICATION Spec
CONSTANTS
    Kinds = {"full", "causal", "local"}
    SeqQ = {1, 5}
    SeqK = {2, 5, 7}
    TilesM = {2}
    TilesN = {2}
    Packs = {1, 3}
    Sinks = {0, 3}
    Lefts = {1, 3}
    Rights = {0, 2}
    Nears = {0, 2}
    Overlaps = {TRUE, FALSE}
    KStages = 2
    VStages = 1
INVARIANTS StagesAgree ExactlyItsPairs
