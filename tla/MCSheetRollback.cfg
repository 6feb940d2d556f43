SPECIFICATION Spec
CONSTANTS
    head = head
    x = x
    y = y
    a = a
    b = b
    c = c
    Run = {a, b}
    Initial <- Sheet
    Sought <- FindsA
    Jobs = {"top"}
    MaxNumber = 2
PROPERTIES
    RollbackDeletesEmptyRow
CHECK_DEADLOCK FALSE
