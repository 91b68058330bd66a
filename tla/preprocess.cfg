SPECIFICATION Spec
CONSTANTS
    Pairs <- ModelPairs
    BugTables <- BugAsm
INVARIANTS MeaningKept ModulesValid
CHECK_DEADLOCK FALSE
