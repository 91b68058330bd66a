CONSTANTS
    Families <- AllItems
    UnionNames <- UnionStructs
    Members <- Layouts
    Macros <- AllMacros
    OffsetRange <- SmallRange
SPECIFICATION Spec
INVARIANTS TotalOrder ControlFlowCoarser SidesAlike EqualSameContents EqualSameElement
CHECK_DEADLOCK FALSE
