CONSTANTS
    Buffers <- MCVerifyBuffers
    Specs <- MCVerifySpecs
    FullManifests = {}
    Trees <- MCTrees
    BadBlobs <- MCBadBlobs
    PlainSpec <- MCPlainSpec
    Nowhere = Nowhere
    DEFAULT_LOCATOR_MAX_URI_BYTES <- MCUriMax
    DEFAULT_INLINE_METADATA_MAX_BYTES <- MCBlobMax
    DEFAULT_INLINE_DATA_MAX_BYTES <- MCInlineDataMax
    DEFAULT_SHARE_DATA_MAX_BYTES <- MCShareMax
    DEFAULT_HINT_MAX_BYTES <- MCHintMax
    DEFAULT_HISTORY_PARAMS_MAX_BYTES <- MCParamsMax
    UnicodeAlpha <- MCUnicodeAlpha
    UnicodeAlnum <- MCUnicodeAlnum
    DigestBytes <- MCImageDigestBytes
SPECIFICATION FairVerifySpec
INVARIANTS
    ReportIsOfImage
    BadBlobOnlyLosesSummary
    VerdictIsOnManifest
PROPERTY VerifyReturns
