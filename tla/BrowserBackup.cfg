SPECIFICATION Spec
CONSTANTS
    f1 = f1
    f2 = f2
    Flow = {f1, f2}
    Job = Job
    Again = Again
    Caller <- MCCaller
    Me = me
    Session = {me, peer}
    Did = {did1, did2}
    Check = {check1, check2}
    Verdict <- MCVerdict
    None = None
    MaxChallenges = 2
    MaxBindings = 1
    MaxIssued = 2
    MaxTroubles = 0
    MaxClicks = 4
    MaxAttempts = 2
CHECK_DEADLOCK FALSE
SYMMETRY MCSymmetry
INVARIANTS
    BackupIsOfIdentity
