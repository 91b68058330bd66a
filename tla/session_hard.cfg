CONSTANTS
    Funs = {1, 2, 3, 4}
    CFiles = {"a.c", "b.c"}
    Headers = {"h.h"}
    Programs <- HardPrograms
    ControlFlowOnly = FALSE
    MayFail = {"first run", "rerun", "link"}
SPECIFICATION Spec
INVARIANTS VerdictsSound CachedHeadersSettled
PROPERTY SessionProgresses
