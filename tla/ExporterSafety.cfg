SPECIFICATION Spec
CONSTANTS
    Nobody = Nobody
    Sends = {s1, s2}
    Capacity = 1
    FlushCalls = {f1}
    ShutdownCalls = {d1, d2}
    Bounded = {d1}
    HasFlusher = TRUE
    HasShutdown = TRUE
SYMMETRY Symmetry
INVARIANTS IInv ShutdownHookContract TrueMeansHooksSucceeded VerdictsAgree
PROPERTIES FinalAfterShutdown KeepsContract
