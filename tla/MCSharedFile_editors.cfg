SPECIFICATION Spec
CONSTANTS
    a = a
    b = b
    Editors = {a, b}
    Paras = {1, 2}
    Bytes <- MCBytes
    Floor = 256
    Start <- MCStart
    Budgets <- MCBudgets
INVARIANTS TypeOK WorkKept SavedIsStored HubWritesAlone
PROPERTY ErasesOnlyKnown
CHECK_DEADLOCK FALSE
