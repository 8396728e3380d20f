SPECIFICATION Spec
CONSTANT
    MaxSpans = 4
INVARIANTS
    TypeOK
    OneTracePerOrigin
    ParentIsTheCause
CHECK_DEADLOCK FALSE
