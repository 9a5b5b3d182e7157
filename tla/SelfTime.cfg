\* A request ends, and the model with it.
SPECIFICATION TimeSpec
CONSTANTS
    Operations = {o1, o2, o3}
    MaxTime = 3
    MaxJump = 1
SYMMETRY Symmetry
INVARIANTS UnionIsCoverage SelfTimesAddUp
CHECK_DEADLOCK FALSE
