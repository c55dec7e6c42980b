SPECIFICATION Spec
CONSTANTS
    Session = {s1}
    Did = {did1}
    JobId = {job1, job2}
    Handler = {h1}
    Waiter = {}
    NoReq = NoReq
    NoRow = NoRow
    MaxResults = 1
    ReadLimit = 2
    MaxInbox = 2
    MaxStream = 3
    MaxFaults = 1
    MaxCrashes = 1
    Ttl = 0
    Times = {0}
CHECK_DEADLOCK FALSE
INVARIANTS
    IInv
    RepliesBeyondBaseline
PROPERTIES
    GapNeverJumped
