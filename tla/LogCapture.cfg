\* What the application does may end.
SPECIFICATION Spec
CONSTANTS
    MaxHandlers = 4
    MaxAttributes = 2
    MaxGroupDepth = 1
    MaxKeyBytes = 9
    Bytes <- MCBytes
    Given <- MCGiven
    Names <- MCNames
    Samples <- MCSamples
    Records = {r1, r2}
    Traces = {t1}
    Kept = 1
    Nobody = Nobody
INVARIANTS HandlersImmutable ExportedAsDelegated HandleDoesBoth KeptAsWritten
PROPERTY CallsReturn
CHECK_DEADLOCK FALSE
