\* Is a $min select accepted wherever the same $sum select is?
CONSTANTS
    Columns <- MC_Columns
    Requests <- MC_Requests
    UnsafeNames <- MC_UnsafeNames
    NoRequest = NoRequest
SPECIFICATION Spec
INVARIANT MinAcceptedLikeSum
