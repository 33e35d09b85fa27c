SPECIFICATION FairSpec
CONSTANTS
    stdout = stdout
    stderr = stderr
    Stdout = stdout
    Stderr = stderr
    None = None
    Limit = 2
    Chunk = 2
    Capacity = 2
    MaxWritten = 4
CHECK_DEADLOCK FALSE
INVARIANTS
    VerdictIsTrue
PROPERTIES
    CallAnswers
