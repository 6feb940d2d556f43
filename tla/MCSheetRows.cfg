SPECIFICATION Spec
CONSTANTS
    head = head
    x = x
    y = y
    a = a
    b = b
    c = c
    Run = {a, b, c}
    Initial <- Sheet
    Sought <- FindsA
    Jobs = {"append", "top", "update", "find"}
    MaxNumber = 2
SYMMETRY Alike
INVARIANTS
    TypeOK
    OldRowsKept
    RowOnce
    FailureIsUndone
CHECK_DEADLOCK FALSE
