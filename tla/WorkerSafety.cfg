SPECIFICATION Spec
CONSTANTS
    did1 = did1
    did2 = did2
    job1 = job1
    job2 = job2
    job3 = job3
    echo1 = echo1
    verify1 = verify1
    verify2 = verify2
    closed1 = closed1
    bad = bad
    raises = raises
    mailbox = mailbox
    shut = shut
    confirmed = confirmed
    unavailable = unavailable
    SharedRoom = SharedRoom
    NoDid = NoDid
    Analysis = Analysis
    Keepalive = Keepalive
    Did = {did1, did2}
    JobId = {job1, job2, job3}
    Text = {echo1, verify1}
    JobOf <- MCJobOf
    RoomOf <- MCRoomOf
    Echo = {echo1}
    Malformed = {}
    Raising = {}
    Room = {mailbox, shut, SharedRoom}
    ClosedRoom = {shut}
    Verdict = {confirmed, unavailable}
    Clock = {1, 2}
    PendingLimit = 2
    ReadLimit = 2
    MaxInbox = 3
    MaxFaults = 1
    MaxQuiet = 1
SYMMETRY MCSymmetry
INVARIANTS
    TypeOK
    OneAnswerPerJob
    RequestsAccounted
    FirstClaimWins
    CompletedReplied
    NoncesIncrease
    IInv
