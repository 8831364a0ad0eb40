\* One backend, as in both agents; two owners, two targets, three slices.
SPECIFICATION Spec
CONSTANTS
    Backends = {b1}
    Targets = {x1, x2}
    Slices = {s1, s2, s3}
    Clients = {c1, c2}
    None = None
SYMMETRY BackendSymmetry
INVARIANTS PatchedTargetsHaveOriginal
PROPERTIES LeaseKeepsTrampolines
CHECK_DEADLOCK FALSE
