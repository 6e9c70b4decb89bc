CONSTANTS
    Identity = "alice"
    Owner <- MCOwner
    Script <- MCScript
    Callers = {c1, c2}
    Peers = {p1, p2}
    Paths = {"p"}
    MaxEntries = 2
SPECIFICATION Spec
INVARIANTS CacheWasWritten AnswersWereBound
PROPERTY EveryCallerIsAnswered
CHECK_DEADLOCK FALSE
