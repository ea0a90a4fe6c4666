\* Two workers, two connections, two configuration changes, a channel of two packets.
CONSTANTS
    Conns = {"c1", "c2"}
    Workers = {w1, w2}
    Attr <- MC_Attr
    EndpointResult <- MC_EndpointResult
    DefaultVerdict = "Denied"
    QueueCap = 2
    MaxChanges = 2
    Registered = {"config", "profile", "spn", "account"}
    None = None
SPECIFICATION Spec
INVARIANT TypeOK StaleVerdictIsFlagged
PROPERTY EventuallyConsistent
