SPECIFICATION Spec
CONSTANTS
    Stacked = {"Caesar", "Vigenere", "Hill"}
    Caesar = "Caesar"
    Vigenere = "Vigenere"
    Default = "key"
    Text = "other"
    Inputs = {"one", "two"}
    KeySizes = {16, 24}
    MaxEdits = 5
INVARIANT Settled
CHECK_DEADLOCK FALSE
