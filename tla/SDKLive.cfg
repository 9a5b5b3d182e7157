\* A Shutdown that is cut short and one that is not, with hooks that may hang.
SPECIFICATION LiveSpec
CONSTANTS
    Nobody = Nobody
    Sends = {s1, s2}
    Capacity = 1
    FlushCalls = {}
    ShutdownCalls = {d1, d2}
    Bounded = {d1}
    HasFlusher = TRUE
    HasShutdown = TRUE
INVARIANT DestinationsAgree
PROPERTIES SendReturns BoundedReturns PatientSucceeds EachAttempted
