SPECIFICATION Spec
CONSTANTS
    Tools <- AllTools
    MaxRuns = 3
    MaxRedirects = 2
INVARIANTS
    TypeOK
    OneCopyPerRun
    AnswersAreHonest
PROPERTIES
    EveryRunAnswers
CHECK_DEADLOCK FALSE
