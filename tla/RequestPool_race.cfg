SPECIFICATION Spec
CONSTANTS
    Workers = {w1, w2}
    NumWords = 1
    WordBits = 2
INVARIANTS
    FreedWasInUse
