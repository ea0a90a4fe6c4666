\* Does parseRequest refuse unknown fields and accept an empty body, as its decoder is configured to?
CONSTANTS
    Columns <- MC_Columns
    Requests <- MC_Requests
    UnsafeNames <- MC_UnsafeNames
    NoRequest = NoRequest
SPECIFICATION Spec
INVARIANT DecodedAsConfigured
