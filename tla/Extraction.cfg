SPECIFICATION Spec
CONSTANTS
    NumChunks = 2
    MaxAttempts = 2
    MaxDisturbed = 1
INVARIANTS
    AnswerIsRecorded
    TablesAgree
    LogIsLayered
    SwitchesOnce
\* A workflow that has ended leaves nothing to do.
CHECK_DEADLOCK FALSE
