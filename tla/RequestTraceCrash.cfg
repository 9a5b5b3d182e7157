\* What README.md says of the host application, against a query that outlives its handler.
SPECIFICATION Spec
CONSTANTS
    Queries = {q1, q2}
    HTTPCalls = {h1}
    Enqueues = {}
    MaxSpans = 3
INVARIANTS HostSurvives
