CONSTANTS
    Blobs <- MCSelfBlobs
    Images = {}
    Trees <- MCSelfTrees
    DEFAULT_INLINE_DATA_MAX_BYTES <- MCInlineDataMax
    UnicodeAlpha = {}
    UnicodeAlnum = {}
    DigestBytes <- MCDigestBytes
SPECIFICATION Spec
INVARIANT RootNotNamedByOthers
