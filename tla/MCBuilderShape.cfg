SPECIFICATION Spec
CONSTANTS
    app = app
    hook = hook
    man = man
    wr = wr
    rd = rd
    ai = ai
    t1 = t1
    t2 = t2
    c1 = c1
    c2 = c2
    Node = {man, ai}
    Field = {"a"}
    Kind <- KindOf
    Edited = {ai}
    Typed <- TypedReady
    Blank = "blank"
    Key = {"k1"}
    NoKey = NoKey
    Gone = Gone
    NoTest = NoTest
    Unset = Unset
    None = None
    NoDoc = NoDoc
    Turn = {t1}
    Slot = {c1, c2}
    Start <- StartModel
    MaxTurns = 3
    MaxSteps = 2
    MaxEdits = 1
    MaxTests = 1
    Tools = {"add", "connect", "remove", "set", "model", "test", "finish"}
    Lossy = TRUE
SYMMETRY Interchangeable
INVARIANTS
    TypeOK
    DoneIsComplete
    TestBudget
PROPERTIES
    ChoiceFitsCard
CHECK_DEADLOCK FALSE
