\* Is the action of an invoice card always performed?
CONSTANTS
    q1 = q1
    q2 = q2
    f1 = f1
    Card = {q1}
    File = {f1}
    FileOf <- SameFile
    Consumed = {q1}
    MaxUpdates = 1
    MaxRestarts = 0
SPECIFICATION Spec
PROPERTY
    ActionIsPerformed
