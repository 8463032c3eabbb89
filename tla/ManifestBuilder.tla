-------------------------- MODULE ManifestBuilder --------------------------
(***************************************************************************)
(* limnifs/builder.py: a declarative ManifestSpec made into wire bytes and *)
(* the ManifestRoot the reader is expected to compute from them.           *)
(*                                                                         *)
(* The sections are encoded by operators of their own, which share nothing *)
(* with the parsers, as in the code.  A metadata_reference of a spec is    *)
(* [kind, metadata_hash, locators] or [kind, metadata].                    *)
(***************************************************************************)
EXTENDS Merkle, Integers, SequencesExt

\* struct.pack of a value below 2^24, and of a u16.
PackU32(n) == <<n % 256, (n \div 256) % 256, n \div 65536, 0>>
PackU16(n) == <<n % 256, n \div 256>>

\* Every item of a list encoded, one after another.
EncodeEach(list, Encode(_)) == FlattenSeq([i \in DOMAIN list |-> Encode(list[i])])

EncodeList(list, Encode(_)) == PackU32(Len(list)) \o EncodeEach(list, Encode)

EncodeBytes(bytes) == PackU32(Len(bytes)) \o bytes

EncodeHeader(h) ==
    <<76, 77, 70, 83>> \o PackU16(h.drop_store_version) \o PackU16(h.metadata_version)
        \o PackU16(h.manifest_version) \o <<0, 0, 0, 0, 0, 0>>

EncodeFlag(f) == PackU16(f.flag_id) \o <<IF f.required THEN 1 ELSE 0>>
EncodeFeatureFlags(entries) == <<1>> \o EncodeList(entries, EncodeFlag)

\* r is [metadata_hash, locators, inline_metadata]; no inline metadata is <<>>,
\* which the code encodes as it does inline metadata of no bytes.
EncodeMetadataReference(r) ==
    <<1>> \o r.metadata_hash \o EncodeList(r.locators, EncodeBytes)
          \o EncodeBytes(r.inline_metadata)

EncodeSlabEntry(e) == e.slab_id \o EncodeList(e.locators, EncodeBytes)
EncodeSlabIndex(entries) == <<1>> \o EncodeList(entries, EncodeSlabEntry)

EncodeInput(root) == root
EncodeHistoryEntry(e) ==
    <<e.op>> \o e.timestamp_ns \o EncodeList(e.inputs, EncodeInput) \o EncodeBytes(e.params)
EncodeHistory(entries) == <<1>> \o EncodeList(entries, EncodeHistoryEntry)

\* The branches of _encode_metadata_reference.
ReferenceOf(r) ==
    IF r.kind = "inlined"
    THEN [metadata_hash |-> DigestBytes(hash_section(r.metadata)),
          locators |-> <<>>, inline_metadata |-> r.metadata]
    ELSE [metadata_hash |-> r.metadata_hash, locators |-> r.locators, inline_metadata |-> <<>>]

\* ManifestBuilder.build: [bytes, merkle_root].
Build(spec) ==
    LET reference == ReferenceOf(spec.metadata_reference)
        header_bytes == EncodeHeader(spec.header)
        flags_bytes == EncodeFeatureFlags(spec.feature_flags)
        meta_ref_bytes == EncodeMetadataReference(reference)
        slab_index_bytes == EncodeSlabIndex(spec.slab_index)
        history_bytes == EncodeHistory(spec.history)
    IN  [bytes |-> header_bytes \o flags_bytes \o meta_ref_bytes \o slab_index_bytes \o history_bytes,
         merkle_root |-> compute_merkle_root(
             [metadata |-> reference.metadata_hash,
              format_header |-> hash_section(header_bytes),
              feature_flags |-> hash_section(flags_bytes),
              metadata_reference |-> hash_section(meta_ref_bytes),
              slab_index |-> hash_section(slab_index_bytes),
              crypto_params |-> hash_empty_section,
              ec_params |-> hash_empty_section,
              dms_policy |-> hash_empty_section,
              delta_linkage |-> hash_empty_section,
              history |-> hash_section(history_bytes)])]
=============================================================================
