SPECIFICATION Spec
CONSTANTS
    DayLen = 4
    Run = {a, b}
    Calendar <- Events
    CalZone <- Summer
    Now = 1
    Monday <- Mon
    Orders <- Anything
    MaxEdits = 1
INVARIANTS
    TypeOK
    DeletesAreTrue
PROPERTIES
    UpdatesAsAsked
    FindIsWhole
CHECK_DEADLOCK FALSE
