SPECIFICATION Spec
CONSTANTS
    Session = {s1, s2}
    Did = {did1}
    JobId = {job1}
    Handler = {h1, h2}
    Waiter = {w1}
    NoReq = NoReq
    NoRow = NoRow
    MaxResults = 1
    ReadLimit = 2
    MaxInbox = 2
    MaxStream = 1
    MaxFaults = 0
    MaxCrashes = 0
    Ttl = 0
    Times = {0, 1}
CHECK_DEADLOCK FALSE
SYMMETRY MCSymmetry
INVARIANTS
    AnswerIsOwn
