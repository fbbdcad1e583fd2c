\* Three processes, one kill, one export that raises and one clear(), with short
\* and with long waits.
CONSTANTS
    Processes = {p1, p2, p3}
    Nobody = nobody
    MaxCrashes = 1
    MaxFailures = 1
    MaxClears = 1
SPECIFICATION JitFairSpec
INVARIANTS UnclearedExcludesWrite UndisturbedMeansExported
PROPERTIES ExportedStays CallsEnd
