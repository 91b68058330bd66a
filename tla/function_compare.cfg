CONSTANTS
    Consts = {"x", "y", "f", "g"}
    Names = {"a", "b", "i", "j", "k", "l", "m", "p", "s", "t", "u", "v", "w"}
    BlockNames = {"1", "2", "3", "4", "5"}
    Kinds = {"", "add", "store", "eq", "ne"}
    InversePred <- Predicates
    SameInSource <- MacroLines
    PairFamilies <- Families
    MaxDecisions = 3
    MaxBlocks = 5
SPECIFICATION Spec
INVARIANTS TypeOK SerialsUnique OncePerBlock EqualUpToJoins
PROPERTIES Terminates
