SPECIFICATION Spec
CONSTANTS
    Messages = {m1, m2}
    Questions = {q1, q2}
    Proposals = {p1, p2}
    Nothing = Nothing
    Mixes <- MCMixes
    MaxRestarts = 1
SYMMETRY Symmetry
INVARIANTS
    TruthfulReply
    OneEffectPerMessage
    KeptQuestionIsOpen
PROPERTIES
    ConfirmsOnlyWhatWasShown
CHECK_DEADLOCK FALSE
