CONSTANTS
    Blobs <- MCBlobs
    Images <- MCImages
    Trees <- MCTrees
    DEFAULT_INLINE_DATA_MAX_BYTES <- MCInlineDataMax
    UnicodeAlpha = {}
    UnicodeAlnum = {}
    DigestBytes <- MCDigestBytes
SPECIFICATION Spec
INVARIANTS
    TypeOK
    WrittenBlobReadsBack
    InvalidBlobRefused
    ParsedBlobIsValid
    BlobPrefixIsTruncated
    NodeHashIsOfItsBytes
    TreeResolves
