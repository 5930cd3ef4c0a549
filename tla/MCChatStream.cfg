\* Every way to cut the answers into chunks; an answer is translated once.
SPECIFICATION Spec
CONSTANTS
    Alphabet <- Chars
    Streams <- MCStreams
    MaxChunk = 14
CHECK_DEADLOCK FALSE
INVARIANTS
    TypeOK
    TextOfCompleteLines
    DoneOnce
