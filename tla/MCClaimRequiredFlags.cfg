CONSTANTS
    Buffers <- MCFewBuffers
    Specs <- MCSpecs
    FullManifests <- MCFullManifests
    DEFAULT_LOCATOR_MAX_URI_BYTES <- MCUriMax
    DEFAULT_INLINE_METADATA_MAX_BYTES <- MCInlineMax
    DEFAULT_SHARE_DATA_MAX_BYTES <- MCShareMax
    DEFAULT_HINT_MAX_BYTES <- MCHintMax
    DEFAULT_HISTORY_PARAMS_MAX_BYTES <- MCParamsMax
    UnicodeAlpha <- MCUnicodeAlpha
    UnicodeAlnum <- MCUnicodeAlnum
    DigestBytes <- MCDigestBytes
SPECIFICATION Spec
INVARIANT RequiredFlagsKnown
