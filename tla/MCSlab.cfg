CONSTANTS
    Slabs <- MCSlabs
    DropLists <- MCDropLists
    DropIds <- MCDropIds
    DEFAULT_SLAB_MAX_BYTES <- MCSlabMax
    DEFAULT_DROP_MAX_PLAINTEXT_BYTES <- MCDropMax
    U32_MAX <- MCU32Max
SPECIFICATION FairSpec
INVARIANTS
    TypeOK
    LaidOutSlabAccepted
    WrittenSlabReadsBack
    DropCountDerived
    TruncatedOnlyInHeader
    ReadsStayInWindow
PROPERTIES
    ParseEnds
    ImplementsDropStore
