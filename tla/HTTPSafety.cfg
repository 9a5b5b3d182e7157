SPECIFICATION Spec
CONSTANTS
    Nobody = Nobody
    Sends = {s1, s2, s3}
    Capacity = 1
    FlushCalls = {f1}
    ShutdownCalls = {d1, d2}
    Bounded = {f1, d1}
SYMMETRY Symmetry
INVARIANTS IInv NoLostBatch TrueCoversOwed ShutdownQuiesces EverySendCounted
PROPERTIES FinalAfterShutdown KeepsContract
