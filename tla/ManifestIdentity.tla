-------------------------- MODULE ManifestIdentity --------------------------
(***************************************************************************)
(* What a manifest's reader and writer promise each other: every manifest  *)
(* that is written is read back as what it says, a damaged one is noticed, *)
(* and the ManifestRoot stands for exactly the bytes it was computed from. *)
(*                                                                         *)
(* Sent are the manifests that were written: those ManifestBuilder builds, *)
(* and those with the optional sections, which the builder cannot write    *)
(* and EncodeManifest encodes as the parsers document them.  Buffers are   *)
(* the files that arrive: some of the sent ones, cut short, continued or   *)
(* with a byte changed.                                                    *)
(***************************************************************************)
EXTENDS Manifest, ManifestBuilder

CONSTANTS
    Specs,           \* the ManifestSpecs that are built
    FullManifests    \* manifests with any sections, as Parsed below

U16Values == 0..(256 * 256 - 1)
ByteString == Seq(U8Values)

ManifestHeaderType ==
    [drop_store_version : U16Values, metadata_version : U16Values, manifest_version : U16Values]
FlagType == [flag_id : U16Values \ {0}, required : BOOLEAN]
MetadataReferenceType ==
    [metadata_hash : ByteString, locators : Seq(ByteString), inline_metadata : ByteString]
SlabEntryType == [slab_id : ByteString, locators : Seq(ByteString)]
EcParamsType ==
    [k : U8Values, m : U8Values,
     overrides : Seq([slab_id : ByteString, k : U8Values, m : U8Values])]
DmsPolicyType ==
    [k : U8Values, n : U8Values, reconstruction_hint : ByteString,
     shares : Seq([custodian_id : ByteString, share_data : ByteString])]
HistoryEntryType ==
    [op : HistoryOps, timestamp_ns : ByteString, inputs : Seq(ByteString), params : ByteString]

\* The number of shares is not bounded by the bytes that remain, unlike every
\* other count, but by the byte n it has to equal.
TypeOK ==
    /\ buf \in ByteString
    /\ position \in 0..Len(buf)
    /\ status \in {"parsing", "verified"} \cup ErrorKinds
    /\ section \in SectionNames
    /\ step \in {"head", "entries", "locators"}
    /\ left \in 0..(IF section = "dms_policy" THEN 255 ELSE Len(buf))
    /\ locators_left \in 0..Len(buf)
    /\ ends \in [SectionNames -> 0..position]
    /\ locators \in Seq(ByteString)
    /\ \A i \in DOMAIN locators : IsUri(locators[i])
    /\ header \in ManifestHeaderType
    /\ flags \in Seq(FlagType)
    /\ metadata_reference \in MetadataReferenceType
    /\ slab_index \in Seq(SlabEntryType)
    /\ ec_params \in EcParamsType
    /\ dms_policy \in DmsPolicyType
    /\ history \in Seq(HistoryEntryType)

\* All that verify has parsed.
Parsed ==
    [header |-> header, feature_flags |-> flags, metadata_reference |-> metadata_reference,
     slab_index |-> slab_index, ec_params |-> ec_params, dms_policy |-> dms_policy,
     history |-> history]

-----------------------------------------------------------------------------
\* Manifests as values

\* What a writer can encode, valid or not: every number fits its field, and an
\* identifier, a digest and a timestamp are as wide as theirs.
BytesOf(n) == {b \in ByteString : Len(b) = n}

WrittenFlag == [flag_id : U16Values, required : BOOLEAN]
WrittenReference ==
    [metadata_hash : BytesOf(32), locators : Seq(ByteString), inline_metadata : ByteString]
WrittenSlab == [slab_id : BytesOf(SLAB_ID_LEN), locators : Seq(ByteString)]
WrittenOverride == [slab_id : BytesOf(SLAB_ID_LEN), k : U8Values, m : U8Values]
WrittenEcParams == [k : U8Values, m : U8Values, overrides : Seq(WrittenOverride)]
WrittenShare == [custodian_id : ByteString, share_data : ByteString]
WrittenDmsPolicy ==
    [k : U8Values, n : U8Values, reconstruction_hint : ByteString, shares : Seq(WrittenShare)]
WrittenEntry ==
    [op : U8Values, timestamp_ns : BytesOf(8), inputs : Seq(BytesOf(32)), params : ByteString]
WrittenManifests ==
    [header : ManifestHeaderType, feature_flags : Seq(WrittenFlag),
     metadata_reference : WrittenReference, slab_index : Seq(WrittenSlab),
     ec_params : WrittenEcParams, dms_policy : WrittenDmsPolicy, history : Seq(WrittenEntry)]

Declares(m, flag_id) == \E i \in DOMAIN m.feature_flags : m.feature_flags[i].flag_id = flag_id

EncodeOverride(o) == o.slab_id \o <<o.k, o.m>>
EncodeEcParams(p) ==
    <<1, p.k, p.m>> \o PackU16(DEFAULT_EC_POLYNOMIAL) \o EncodeList(p.overrides, EncodeOverride)

EncodeShare(s) == EncodeBytes(s.custodian_id) \o EncodeBytes(s.share_data)
EncodeDmsPolicy(p) ==
    <<1, DMS_SCHEME_SHAMIR, p.k, p.n>> \o EncodeList(p.shares, EncodeShare)
        \o EncodeBytes(p.reconstruction_hint)

EncodedSections(m) ==
    [header |-> EncodeHeader(m.header),
     feature_flags |-> EncodeFeatureFlags(m.feature_flags),
     metadata_reference |-> EncodeMetadataReference(m.metadata_reference),
     slab_index |-> EncodeSlabIndex(m.slab_index),
     ec_params |-> IF Declares(m, EC_FLAG) THEN EncodeEcParams(m.ec_params) ELSE <<>>,
     dms_policy |-> IF Declares(m, DMS_FLAG) THEN EncodeDmsPolicy(m.dms_policy) ELSE <<>>,
     history |-> EncodeHistory(m.history)]

EncodeManifest(m) ==
    LET bytes == EncodedSections(m)
    IN  bytes.header \o bytes.feature_flags \o bytes.metadata_reference \o bytes.slab_index
          \o bytes.ec_params \o bytes.dms_policy \o bytes.history

RootOf(m) ==
    LET bytes == EncodedSections(m)
    IN  compute_merkle_root(
            [metadata |-> m.metadata_reference.metadata_hash,
             format_header |-> hash_section(bytes.header),
             feature_flags |-> hash_section(bytes.feature_flags),
             metadata_reference |-> hash_section(bytes.metadata_reference),
             slab_index |-> hash_section(bytes.slab_index),
             crypto_params |-> hash_empty_section,
             ec_params |-> hash_section(bytes.ec_params),
             dms_policy |-> hash_section(bytes.dms_policy),
             delta_linkage |-> hash_empty_section,
             history |-> hash_section(bytes.history)])

-----------------------------------------------------------------------------
\* The manifests verify is to accept, one conjunct for each section.

Distinct(list, Key(_)) ==
    \A i, j \in DOMAIN list : i # j => Key(list[i]) # Key(list[j])

ValidLocators(uris) ==
    \A i \in DOMAIN uris :
        /\ Len(uris[i]) \in MIN_LOCATOR_URI_BYTES..DEFAULT_LOCATOR_MAX_URI_BYTES
        /\ IsUri(uris[i])

ValidFlags(entries) ==
    /\ \A i \in DOMAIN entries : entries[i].flag_id # 0
    /\ Distinct(entries, LAMBDA f : f.flag_id)

ValidReference(r) ==
    /\ ValidLocators(r.locators)
    /\ Len(r.inline_metadata) <= DEFAULT_INLINE_METADATA_MAX_BYTES
    /\ r.locators # <<>> \/ r.inline_metadata # <<>>

ValidSlabIndex(entries) ==
    /\ \A i \in DOMAIN entries : entries[i].locators # <<>> /\ ValidLocators(entries[i].locators)
    /\ Distinct(entries, LAMBDA e : e.slab_id)

ValidEcParams(p) ==
    /\ ValidShards(p.k, p.m)
    /\ \A i \in DOMAIN p.overrides : ValidShards(p.overrides[i].k, p.overrides[i].m)
    /\ Distinct(p.overrides, LAMBDA o : o.slab_id)

ValidShare(s) ==
    /\ IsUtf8(s.custodian_id)
    /\ Len(s.custodian_id) \in 1..DEFAULT_HINT_MAX_BYTES
    /\ Len(s.share_data) \in 1..DEFAULT_SHARE_DATA_MAX_BYTES

ValidDmsPolicy(p) ==
    /\ p.k \in 1..p.n
    /\ Len(p.shares) = p.n
    /\ \A i \in DOMAIN p.shares : ValidShare(p.shares[i])
    /\ Distinct(p.shares, LAMBDA s : s.custodian_id)
    /\ Len(p.reconstruction_hint) <= DEFAULT_HINT_MAX_BYTES
    /\ IsUtf8(p.reconstruction_hint)

ValidHistory(entries) ==
    /\ entries # <<>>
    /\ \A i \in DOMAIN entries :
         entries[i].op \in HistoryOps /\ Len(entries[i].params) <= DEFAULT_HISTORY_PARAMS_MAX_BYTES

Valid(m) ==
    /\ ValidFlags(m.feature_flags)
    /\ ValidReference(m.metadata_reference)
    /\ ValidSlabIndex(m.slab_index)
    /\ IF Declares(m, EC_FLAG) THEN ValidEcParams(m.ec_params) ELSE m.ec_params = NoEcParams
    /\ IF Declares(m, DMS_FLAG) THEN ValidDmsPolicy(m.dms_policy) ELSE m.dms_policy = NoDmsPolicy
    /\ ValidHistory(m.history)

\* What a ManifestSpec says.
ManifestOf(spec) ==
    [header |-> spec.header, feature_flags |-> spec.feature_flags,
     metadata_reference |-> ReferenceOf(spec.metadata_reference),
     slab_index |-> spec.slab_index, ec_params |-> NoEcParams, dms_policy |-> NoDmsPolicy,
     history |-> spec.history]

\* What is written has the widths of its fields; the operations a ManifestSpec can
\* note are those of HistoryOpSpec, and ManifestBuilder.__init__ raises ValueError
\* without a history; a section that is not declared is None.
WrittenSpec(spec) ==
    /\ spec.history # <<>>
    /\ ManifestOf(spec) \in WrittenManifests
    /\ \A i \in DOMAIN spec.history : spec.history[i].op \in HistoryOps
ASSUME WrittenAssumption ==
    /\ \A spec \in Specs : WrittenSpec(spec)
    /\ \A m \in FullManifests :
         /\ m \in WrittenManifests
         /\ Declares(m, EC_FLAG) \/ m.ec_params = NoEcParams
         /\ Declares(m, DMS_FLAG) \/ m.dms_policy = NoDmsPolicy

Sent ==
    {[manifest |-> ManifestOf(spec), valid |-> Valid(ManifestOf(spec)),
      bytes |-> Build(spec).bytes, root |-> Build(spec).merkle_root] : spec \in Specs}
    \cup
    {[manifest |-> m, valid |-> Valid(m),
      bytes |-> EncodeManifest(m), root |-> RootOf(m)] : m \in FullManifests}

-----------------------------------------------------------------------------
\* A valid manifest verifies, whatever bytes follow it: the parsers find in it
\* what was written, the root is the one its writer computed, and the bytes
\* after its history are reported and not committed to.
SentManifestVerifies ==
    status # "parsing" =>
        \A s \in Sent : s.valid /\ IsPrefix(s.bytes, buf) =>
            /\ status = "verified"
            /\ Parsed = s.manifest
            /\ MerkleRoot = s.root
            /\ extra_bytes_after_history = Len(buf) - Len(s.bytes)

\* Nothing verifies that breaks a rule of one of its sections, whatever else
\* the bytes are: all that was parsed keeps the rules of the seven sections and
\* those between them, entry by entry.
OnlyValidManifestsParsed == status = "verified" => Valid(Parsed)

\* A manifest that breaks a rule of one of its sections is refused, not read as
\* something else.
InvalidManifestRefused ==
    status = "verified" => \A s \in Sent : buf = s.bytes => s.valid

\* A manifest cut short anywhere is reported as such: a reader that waits for
\* more bytes on "Truncated" is never told "Corrupt" about a good one, and no
\* part of a manifest verifies as a whole.
PrefixIsTruncated ==
    status \notin {"parsing", "Truncated"} =>
        ~\E s \in Sent : s.valid /\ IsStrictPrefix(buf, s.bytes)

\* The root identifies a manifest: a buffer that verifies with the root of a
\* sent manifest starts with that manifest, byte for byte.  No byte of it is
\* outside every hashed section, and none moves between sections.
RootIdentifiesBytes ==
    status = "verified" =>
        LET root == MerkleRoot
        IN  \A s \in Sent : s.valid /\ root = s.root => IsPrefix(s.bytes, buf)

\* A manifest has one encoding: the bytes that were accepted are the encoding of
\* what was parsed, so nothing can be written in two ways, with two roots.
EncodingIsCanonical ==
    status = "verified" => SubSeq(buf, 1, ends["history"]) = EncodeManifest(Parsed)

\* The counts that announce fixed-width entries are checked against the bytes
\* that remain before the loop: the loop itself never runs out of them.
CountCheckedUpFront ==
    section \in {"feature_flags", "ec_params"} /\ status = "Truncated" => step = "head"
=============================================================================
