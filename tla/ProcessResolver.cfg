\* Two request handlers share the process cache while detection is toggled and the profile configuration changes.
CONSTANTS
    Handlers = {h1, h2}
    Pids <- MC_Pids
    Exec <- MC_Exec
    ServiceNames <- MC_ServiceNames
    MaxEdits = 1
    Unidentified = Unidentified
    Error = Error
    None = None
SPECIFICATION Spec
INVARIANT TypeOK
