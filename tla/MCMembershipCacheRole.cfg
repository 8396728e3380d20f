SPECIFICATION Spec
CONSTANTS
    Users = {u1}
    Roles = {owner, editor}
    Checks = {q1}
    TtlMs = 2
    MaxDelay = 1
    MaxChanges = 1
INVARIANT RoleEntryIsTheRoles
