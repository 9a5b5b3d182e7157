\* Every set of optional interfaces.  sql.Open may fail.
SPECIFICATION Spec
INVARIANT SpansTellOutcome
PROPERTY Transparent
CHECK_DEADLOCK FALSE
