SPECIFICATION RecoverySpec
CONSTANTS
    None = None
    Jobs = {e1}
    Workers = {w1, w2}
    MaxCopies = 1
    MaxRetries = 2
    DirectRetries = 2
    Calls = {k1, k2, k3}
    Threshold = 2
    Retries = 1
    Runs = {r1, r2}
    Users = {u1, u2}
    Day = 6
    Hours = {0, 2}
    Links = {l1, l2, l3}
    Clients = {i1, i2, i3}
    MaxFaults = 5
INVARIANTS NoEmailLost ExtraSendsAreFaults OneProbe OnePerHour
PROPERTIES TakenSettles Recovers Reminding ConnectionsComeBack
CHECK_DEADLOCK FALSE
