\* Every request of one or two selects, one group-by and one order-by name: do executed queries only GROUP/ORDER BY names they define?
CONSTANTS
    Columns <- MC_Columns
    Requests <- MC_Requests
    UnsafeNames <- MC_UnsafeNames
    NoRequest = NoRequest
SPECIFICATION Spec
INVARIANT OrderAndGroupResolve
