\* Two concurrent handlers, small retry bounds: every path of findPID, GetPID and CheckPID.
CONSTANTS
    Threads = {t1, t2}
    Pids <- MC_Pids
    Uids = {"u1", "u2"}
    Owner <- MC_Owner
    Sockets = {"s1"}
    SockOwner <- MC_SockOwner
    KextPids = {1}
    LookupRetries = 1
    LookupTries = 2
    Undefined = Undefined
    Unidentified = Unidentified
    Unsolicited = Unsolicited
SPECIFICATION Spec
INVARIANT TypeOK
PROPERTY GiveUpOnlyWhenAbsent
