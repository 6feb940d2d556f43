SPECIFICATION Spec
CONSTANTS
    app = app
    hook = hook
    man = man
    wr = wr
    rd = rd
    ai = ai
    t1 = t1
    t2 = t2
    c1 = c1
    c2 = c2
    Node = {wr}
    Field = {"a"}
    Kind <- KindOf
    Edited = {wr}
    Typed <- TypedReady
    Blank = "blank"
    Key = {"k1"}
    NoKey = NoKey
    Gone = Gone
    NoTest = NoTest
    Unset = Unset
    None = None
    NoDoc = NoDoc
    Turn = {t1, t2}
    Slot = {c1}
    Start <- StartWrite
    MaxTurns = 3
    MaxSteps = 1
    MaxEdits = 0
    MaxTests = 1
    Tools = {"test"}
    Lossy = FALSE
SYMMETRY Interchangeable
INVARIANTS
    OneRunPerQuestion
CHECK_DEADLOCK FALSE
