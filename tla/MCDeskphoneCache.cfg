SPECIFICATION Spec
CONSTANTS
    p1 = p1
    e1 = e1
    e2 = e2
    ip1 = ip1
    AoRs = {p1}
    Endpoints = {e1, e2}
    IPs = {ip1}
    IpOf <- MCIpOf
    Expiry = 1
    MaxTime = 3
    MaxPending = 3
INVARIANTS
    TypeOK
    KnownWasAnnounced
    IInv
PROPERTIES
    ImplementsTable
    QueueIsWritten
