SPECIFICATION Spec
CONSTANTS
    Questions = {q1, q2}
    Runs = {r1, r2}
    Versions = {v1, v2}
    NoRun = NoRun
    NoVersion = NoVersion
    MaxAttempts = 5
    MaxWorking = 2
SYMMETRY Symmetry
INVARIANTS
    RecordsAgree
    OneActiveRun
PROPERTIES
    GradedOnServedText
CHECK_DEADLOCK FALSE
