CONSTANT MaxSave = 4
SPECIFICATION SnapshotSpec
INVARIANTS
    LatestSurvives
    ReadableWhenQuiet
