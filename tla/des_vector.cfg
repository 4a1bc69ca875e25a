SPECIFICATION Spec
CONSTANTS
    Keys <- VectorOnly
    Blocks <- TextOnly
INVARIANT KnownAnswer
