SPECIFICATION FairSpec
CONSTANTS
    Queries = {q1, q2}
    HTTPCalls = {h1}
    Enqueues = {e1}
    MaxSpans = 3
INVARIANTS IInv PayloadIsComplete CountCoversQueries HTTPSpansWhole
PROPERTIES OperationsEnd
