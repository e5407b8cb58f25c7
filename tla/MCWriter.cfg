SPECIFICATION Spec
CONSTANTS
    a = a
    b = b
    NULL = NULL
    Chars <- TwoChars
    Buffers <- ThreeBuffers
    Sizes <- InRange
    SizeBits = 3
    MaxLen = 3
INVARIANTS TypeOK
PROPERTIES WritesWhatWasAsked
