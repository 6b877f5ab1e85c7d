SPECIFICATION Spec
CONSTANT Calls = {k1, k2, k3, k4, k5}
SYMMETRY Interchangeable
CHECK_DEADLOCK FALSE
INVARIANT TypeOK
INVARIANT ItemHasFile
INVARIANT TrailTellsStatus
PROPERTY ReviewStands
