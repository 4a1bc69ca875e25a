SPECIFICATION Spec
CONSTANTS
    ann = ann
    bob = bob
    cat = cat
    User = {ann, bob, cat}
    Terminal = {cat}
    MaxConnections = 3
    MaxTexts = 2
    MaxLosses = 0
    MaxSelects = 1
CONSTRAINT OneLogin
SYMMETRY UserSymmetry
INVARIANT ShownOnce
INVARIANT InOrder
INVARIANT PrivateStaysPrivate
CHECK_DEADLOCK FALSE
