CONSTANTS
    Deltas <- MCDeltas
    Buffers <- MCBuffers
    UnicodeAlpha = {}
    UnicodeAlnum = {}
SPECIFICATION Spec
INVARIANTS
    DeltaReadsBack
    OnlyValidDeltasParsed
    DeltaPrefixIsTruncated
    RootTextNamesRoot
