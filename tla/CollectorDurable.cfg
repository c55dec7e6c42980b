SPECIFICATION FairSpec
CONSTANTS
    Session = {s1}
    Did = {did1}
    JobId = {job1}
    Handler = {h1}
    Waiter = {w1}
    NoReq = NoReq
    NoRow = NoRow
    MaxResults = 1
    ReadLimit = 2
    MaxInbox = 1
    MaxStream = 2
    MaxFaults = 1
    MaxCrashes = 1
    Ttl = 0
    Times = {0}
CHECK_DEADLOCK FALSE
PROPERTIES
    CollectorDurable
