SPECIFICATION Spec
CONSTANTS
    Address = {a1, a2}
    Byte <- MCByte
    MaxChunk = 3
    MaxBytes = 5
    DefaultPort <- MCDefaultPort
INVARIANTS
    MessagesAreLines
    BufferIsUnfinishedLine
\* The bound on the bytes ends every behaviour.
CHECK_DEADLOCK FALSE
