CONSTANTS
    Functions <- Slices
    NoEffects <- Pure
SPECIFICATION Spec
INVARIANTS DirectDifferenceFound ValidSlice DependentsStay SlicePaths SameControlFlow
