SPECIFICATION FairSpec
CONSTANTS
    p1 = p1
    p2 = p2
    Paths = {p1, p2}
    Tasks = {t1}
    Settings <- BothJournals
    None = None
INVARIANTS
    FollowersMissNothing
    SleepersAreCurrent
PROPERTIES
    FollowersCatchUp
    RemovedIsForgotten
CHECK_DEADLOCK FALSE
