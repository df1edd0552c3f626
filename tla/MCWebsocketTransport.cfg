\* One peer that answers, one that may do anything, one that calls.
SPECIFICATION FairSpec
CONSTANTS
    r1 = r1
    r2 = r2
    m1 = m1
    m2 = m2
    uri <- OneEach
    Remotes = {r1, r2}
    Responsive = {r1}
    Callers = {c1}
    Messages = {m1, m2}
    Binds = {b1}
    HeartbeatMs = 0
    WaitMs = 1
    MaxSilence = 1
    MaxFrames = 1
    MaxCopies = 1
INVARIANTS
    RequestsAccounted
    AnswerTellsTheTruth
    ReadIsReported
PROPERTIES
    PendingIsSent
CHECK_DEADLOCK FALSE
