SPECIFICATION Spec
INVARIANT OneSpanPerQuery
CHECK_DEADLOCK FALSE
