\* All entry points, with an informational status.  A unit ends.
SPECIFICATION Spec
CONSTANTS
    Entries = {"http", "gin", "echo", "fiber", "job", "command", "schedule"}
    Codes = {103, 200, 404, 500}
    MaxWriteHeaders = 2
INVARIANTS ExportedOnce HostSeesOutcome FailureShows StatusReported
CHECK_DEADLOCK FALSE
