SPECIFICATION Spec
CONSTANTS
    Rows = {r1, r2, r3}
    Requests = {t1, t2, t3}
    NoRow = NoRow
    Nobody = Nobody
INVARIANTS
    ActivationNotRefused
    OnlyReactivationDeadlocks
PROPERTIES
    ActivationsEnd
CHECK_DEADLOCK FALSE
