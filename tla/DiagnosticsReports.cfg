SPECIFICATION DiagnosticsSpec
CONSTANTS
    Nobody = Nobody
    Sends = {s1, s2}
    Capacity = 1
    FlushCalls = {}
    ShutdownCalls = {d1}
    Bounded = {d1}
    MaxReports = 2
SYMMETRY Symmetry
INVARIANTS ReportsMonotonic ShutdownReportExact
