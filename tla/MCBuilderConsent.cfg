SPECIFICATION Spec
CONSTANTS
    app = app
    hook = hook
    man = man
    wr = wr
    rd = rd
    ai = ai
    t1 = t1
    t2 = t2
    c1 = c1
    c2 = c2
    Node = {app, wr, hook, rd}
    Field = {"a", "b"}
    Kind <- KindOf
    Edited = {wr}
    Typed <- TypedOther
    Blank = "blank"
    Key = {"k1"}
    NoKey = NoKey
    Gone = Gone
    NoTest = NoTest
    Unset = Unset
    None = None
    NoDoc = NoDoc
    Turn = {t1}
    Slot = {c1, c2}
    Start <- StartBoth
    MaxTurns = 3
    MaxSteps = 2
    MaxEdits = 1
    MaxTests = 2
    Tools = {"set", "test", "finish"}
    Lossy = FALSE
SYMMETRY Interchangeable
INVARIANTS
    OneRunPerQuestion
    PendingIsOnScreen
    ResultsAreEarned
    DoneIsWhatWasAsked
PROPERTIES
    WritesAreConfirmed
CHECK_DEADLOCK FALSE
