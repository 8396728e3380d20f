SPECIFICATION Spec
CONSTANTS
    Users = {u1}
    Roles = {owner, editor}
    Checks = {q1, q2}
    TtlMs = 2
    MaxDelay = 1
    MaxChanges = 2
SYMMETRY Symmetry
INVARIANTS
    TypeOK
    RevokedWithinTtl
