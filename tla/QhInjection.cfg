\* Can an executed query carry a name from the request that is not an SQL identifier?
CONSTANTS
    Columns <- MC_Columns
    Requests <- MC_Requests
    UnsafeNames <- MC_UnsafeNames
    NoRequest = NoRequest
SPECIFICATION Spec
INVARIANT SQLNamesAreIdentifiers
