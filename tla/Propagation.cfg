\* Three services that serve requests and run jobs, one of them disabled.
SPECIFICATION TraceSpec
CONSTANTS
    Services = {a, b, c}
    Disabled = {c}
    Consumers = {a, b, c}
    MaxUnits = 3
    MaxHeaders = 3
    MaxSpans = 2
SYMMETRY Symmetry
INVARIANTS SampledTogether ParentsExported
CHECK_DEADLOCK FALSE
