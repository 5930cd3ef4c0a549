\* The same, with chunks that end inside a character.
SPECIFICATION Spec
CONSTANTS
    Alphabet <- Chars
    Streams <- MCStreams
    MaxChunk = 14
CHECK_DEADLOCK FALSE
INVARIANTS
    SplitEventsReassemble
