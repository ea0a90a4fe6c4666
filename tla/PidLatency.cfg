\* One handler with the code's own bounds (lookupRetries = 3, lookupTries = 20): worst-case back-off.
CONSTANTS
    Threads = {t1}
    Pids <- MC_Pids
    Uids = {"u1", "u2"}
    Owner <- MC_Owner
    Sockets = {"s1"}
    SockOwner <- MC_SockOwner
    KextPids = {1}
    LookupRetries <- Code_LookupRetries
    LookupTries <- Code_LookupTries
    Undefined = Undefined
    Unidentified = Unidentified
    Unsolicited = Unsolicited
SPECIFICATION Spec
INVARIANT WaitWithinComment
