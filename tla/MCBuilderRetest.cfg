SPECIFICATION Spec
CONSTANTS
    app = app
    hook = hook
    man = man
    wr = wr
    rd = rd
    ai = ai
    t1 = t1
    t2 = t2
    c1 = c1
    c2 = c2
    Node = {man, rd}
    Field = {"a"}
    Kind <- KindOf
    Edited = {man, rd}
    Typed <- TypedReady
    Blank = "blank"
    Key = {"k1"}
    NoKey = NoKey
    Gone = Gone
    NoTest = NoTest
    Unset = Unset
    None = None
    NoDoc = NoDoc
    Turn = {t1}
    Slot = {c1}
    Start <- StartChain
    MaxTurns = 3
    MaxSteps = 2
    MaxEdits = 0
    MaxTests = 1
    Tools = {"test", "finish"}
    Lossy = FALSE
SYMMETRY Interchangeable
INVARIANTS
    DoneMeansTested
CHECK_DEADLOCK FALSE
