SPECIFICATION MCLiveSpec
CONSTANTS
    c1 = c1
    c2 = c2
    s1 = s1
    s2 = s2
    r1 = r1
    r2 = r2
    m1 = m1
    m2 = m2
    m3 = m3
    h1 = h1
    h2 = h2
    None = None
    Conns = {c1, c2}
    Sessions = {s1}
    SFTPRequests = {}
    MCPCalls = {}
    Hosts = {h1}
    HostOf <- Spread
    MaxSessions = 1
    MaxPerHost = 2
    Casts <- Rivals
CHECK_DEADLOCK FALSE
PROPERTIES
    UnattachedExpires
    OwnerGoneClosed
