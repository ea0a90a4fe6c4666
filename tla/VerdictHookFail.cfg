\* As VerdictEngine.cfg, in a build where registering the SPN connect hook fails.
CONSTANTS
    Conns = {"c1", "c2"}
    Workers = {w1, w2}
    Attr <- MC_Attr
    EndpointResult <- MC_EndpointResult
    DefaultVerdict = "Denied"
    QueueCap = 2
    MaxChanges = 2
    Registered = {"config", "profile", "account"}
    None = None
SPECIFICATION Spec
INVARIANT StaleVerdictIsFlagged
