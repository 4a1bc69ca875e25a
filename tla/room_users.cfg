SPECIFICATION FairSpec
CONSTANTS
    ann = ann
    bob = bob
    cat = cat
    User = {ann, bob}
    Terminal = {}
    MaxConnections = 3
    MaxTexts = 0
    MaxLosses = 1
    MaxSelects = 2
INVARIANT RosterRight
INVARIANT WindowFollows
PROPERTY LoginCompletes
CHECK_DEADLOCK FALSE
