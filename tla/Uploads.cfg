CONSTANTS
    Uploads = {u1}
    Parts = {1}
    Contents = {1, 2}
    Tasks = {t1, t2}
    Eligible = {u1}
    MaxObject = 4
    MaxTotal = 2
    MaxUploads = 2
    Relay = 1
    MaxAge = 2
    Timeout = 1
    TombTtl = 2
    MaxTime = 3
    MaxFaults = 1
    None = None
SPECIFICATION FairSpec
INVARIANTS
    BytesExact
    AnswersKept
PROPERTIES
    CompletesAnswered
CHECK_DEADLOCK FALSE
