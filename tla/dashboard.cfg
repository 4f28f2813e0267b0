SPECIFICATION LiveSpec
CONSTANTS
    w1 = w1
    w2 = w2
    q1 = q1
    q2 = q2
    PoolOf <- OneEach
    Worker = {w1, w2}
    Thread = {q1, q2}
    NoThread = NoThread
    TTL = 1
    Slow = 1
    MaxVersion = 1
    Faults = {"job", "lost", "kill"}
INVARIANTS TypeOK AnswersFresh StaleOnlyByRace
PROPERTIES SettlesFresh PollingEnds
