SPECIFICATION Spec

CONSTANTS
    Texts = {1}
    Ints = {2}
    Doubles = {5}
    Keys = {1, 2}
    Plain = {1, 2}
    Exact = {}
    MaxTokens = 10
    MaxDepth = 3

CHECK_DEADLOCK FALSE

INVARIANTS
    UnfinishedIsRefused
