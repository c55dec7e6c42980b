SPECIFICATION FairSpec
CONSTANTS
    did1 = did1
    did2 = did2
    job1 = job1
    job2 = job2
    job3 = job3
    echo1 = echo1
    verify1 = verify1
    verify2 = verify2
    closed1 = closed1
    bad = bad
    raises = raises
    mailbox = mailbox
    shut = shut
    confirmed = confirmed
    unavailable = unavailable
    SharedRoom = SharedRoom
    NoDid = NoDid
    Analysis = Analysis
    Keepalive = Keepalive
    Did = {did1}
    JobId = {job1, job2, job3}
    Text = {echo1, verify1, verify2, closed1, raises, bad}
    JobOf <- MCJobOf
    RoomOf <- MCRoomOf
    Echo = {echo1}
    Malformed = {bad}
    Raising = {raises}
    Room = {mailbox, shut, SharedRoom}
    ClosedRoom = {shut}
    Verdict = {confirmed}
    Clock = {1}
    PendingLimit = 2
    ReadLimit = 1
    MaxInbox = 2
    MaxFaults = 2
    MaxQuiet = 1
INVARIANTS
    DuplicatesNeedFailures
PROPERTIES
    NoReplyAfterCompletion
    ImplementsLedger
    InboxDrained
    RepliesDelivered
    SharedRoomKeptAlive
