CONSTANTS
    Files <- TwoFiles
    Headers <- OneHeader
    Variables = {"v"}
    Defines <- Defined
    Uses <- Used
    Lists <- TheLists
    Missings <- TheMissings
    MaxVersion = 2
    MaxEdits = 2
    MaxRuns = 3
SPECIFICATION Spec
INVARIANTS HeadersRestored SnapshotWhole SnapshotCurrent LinkedAsOfSnapshot
