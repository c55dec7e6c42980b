SPECIFICATION FairSpec
CONSTANTS
    did1 = did1
    did2 = did2
    job1 = job1
    job2 = job2
    job3 = job3
    echo1 = echo1
    verify1 = verify1
    verify2 = verify2
    closed1 = closed1
    bad = bad
    raises = raises
    mailbox = mailbox
    shut = shut
    confirmed = confirmed
    unavailable = unavailable
    SharedRoom = SharedRoom
    NoDid = NoDid
    Analysis = Analysis
    Keepalive = Keepalive
    Did = {did1}
    JobId = {job1, job2, job3}
    Text = {verify1, closed1}
    JobOf <- MCJobOf
    RoomOf <- MCRoomOf
    Echo = {}
    Malformed = {}
    Raising = {}
    Room = {mailbox, shut, SharedRoom}
    ClosedRoom = {shut}
    Verdict = {confirmed, unavailable}
    Clock = {1}
    PendingLimit = 1
    ReadLimit = 2
    MaxInbox = 2
    MaxFaults = 1
    MaxQuiet = 0
PROPERTIES
    OutboxRetriesAll
