CONSTANTS
    Funs = {1, 2, 3, 4}
    CFiles = {"a.c"}
    Headers = {"h.h"}
    Data = {"x", "y"}
    MacroValues = {}
    Abstractions = {4}
    Families <- AllFamilies
SPECIFICATION Spec
INVARIANTS AllEqualSound CalleesCompared ContractKept
PROPERTY Terminates
