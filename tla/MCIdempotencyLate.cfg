SPECIFICATION Spec
CONSTANTS
    a1 = a1
    a2 = a2
    k1 = k1
    b1 = b1
    b2 = b2
    Attempts = {a1, a2}
    Keys = {k1}
    Bodies = {b1, b2}
    Retention = 1
    MaxSends = 3
    MaxTime = 4
SYMMETRY ThreadSymmetry
INVARIANT
    NotRepeated
CHECK_DEADLOCK FALSE
