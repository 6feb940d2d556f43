SPECIFICATION Spec
CONSTANTS
    x = x
    y = y
    Run = {a, b}
    Initial <- Blocks
    Size = 2
    PageSize = 1
    Jobs = {"update", "append", "row", "read"}
SYMMETRY Alike
INVARIANTS
    TypeOK
    NewestSurvives
    ReplacedWhole
    PrefixIsHonest
PROPERTIES
    FetchIsWhole
CHECK_DEADLOCK FALSE
