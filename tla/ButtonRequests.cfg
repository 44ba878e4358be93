\* Two cards about one file, two presses, one restart.
CONSTANTS
    q1 = q1
    q2 = q2
    f1 = f1
    Card = {q1, q2}
    File = {f1}
    FileOf <- SameFile
    Consumed = {q1}
    MaxUpdates = 2
    MaxRestarts = 1
SPECIFICATION Spec
INVARIANTS
    TypeOK
    TransferAtMostOnce
    CompletedIsDone
    PressNotForgotten
PROPERTIES
    AnswerIsFinal
    UpdatesConfirmed
