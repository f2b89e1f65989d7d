SPECIFICATION Spec
CONSTANTS
    Workers = {w1}
    NumWords = 3
    WordBits = 2
INVARIANTS
    TypeOK
    SearchFinds
    CounterMatchesBitmap
PROPERTIES
    ImplementsSlotPool
