CONSTANTS
    Funs = {1, 2, 3}
    CFiles = {"a.c", "b.c"}
    Headers = {"h.h"}
    Programs <- SessionPrograms
    ControlFlowOnly = FALSE
    MayFail = {"first run"}
SPECIFICATION Spec
INVARIANT CacheCoherent
PROPERTIES ResultsKept CachingIsTransparent
