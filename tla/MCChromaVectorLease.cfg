CONSTANTS
    Procs = {p1, p2}
    Ids = {i1}
    DocIds = {d1}
    NoOwner = NoOwner
    Orphaned = Orphaned
    NoDoc = NoDoc
    MaxFaults = 1
    LockLeaseCanLapse <- MCLeaseLapses
SPECIFICATION Spec
PROPERTY ReleaseKeepsOthersLock
