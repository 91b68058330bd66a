CONSTANTS
    ObjectLists <- Lists
    Formula = 2
    PipeSize = 1
SPECIFICATION Spec
INVARIANTS VerdictsSound TimeoutsLate
PROPERTIES Terminates
