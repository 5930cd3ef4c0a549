\* A sentinel of two characters; every way to cut the streams into chunks.
\* The scan of one answer stops with its verdict.
SPECIFICATION Spec
CONSTANTS
    Alphabet <- Chars
    Sentinel <- MCSentinel
    Streams <- MCStreams
    Bodies <- MCBodies
    MaxChunk = 12
CHECK_DEADLOCK FALSE
INVARIANTS
    TypeOK
    NoFalseEscalation
    SentinelIsFound
    HeldOnlyWhileOpen
    BytesUntouched
