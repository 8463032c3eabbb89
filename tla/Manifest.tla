------------------------------ MODULE Manifest ------------------------------
(***************************************************************************)
(* `limni-py verify`: _verify_bytes of limnifs/cli.py, which parses the    *)
(* manifest header (limnifs/header.py), then every section on the same     *)
(* cursor, and computes the ManifestRoot from the bytes each one spanned.  *)
(***************************************************************************)
EXTENDS FeatureFlags, MetadataReference, SlabIndex, EcParams, DmsPolicy, History, Merkle

CONSTANT Buffers       \* the files verify may be given

ASSUME BuffersAssumption ==
    \A b \in Buffers : b \in Seq(U8Values) /\ Len(b) < TOO_LARGE

ASSUME CeilingsAssumption ==
    {DEFAULT_LOCATOR_MAX_URI_BYTES, DEFAULT_INLINE_METADATA_MAX_BYTES,
     DEFAULT_SHARE_DATA_MAX_BYTES, DEFAULT_HINT_MAX_BYTES,
     DEFAULT_HISTORY_PARAMS_MAX_BYTES} \subseteq 1..(TOO_LARGE - 1)

MANIFEST_MAGIC == <<76, 77, 70, 83>>     \* b"LMFS"
EC_FLAG == 1
DMS_FLAG == 2

VARIABLE header        \* ManifestHeader, the three versions

parserVars == <<buf, position, status, section, step, left, ends>>
locatorVars == <<locators, locators_left>>
vars == <<parserVars, locatorVars, header, flags, metadata_reference,
          slab_index, ec_params, dms_policy, history>>

NoHeader == [drop_store_version |-> 0, metadata_version |-> 0, manifest_version |-> 0]
NoMetadataReference == [metadata_hash |-> <<>>, locators |-> <<>>, inline_metadata |-> <<>>]
NoEcParams == [k |-> 0, m |-> 0, overrides |-> <<>>]
NoDmsPolicy == [k |-> 0, n |-> 0, shares |-> <<>>, reconstruction_hint |-> <<>>]

\* A call of verify on the bytes b, nothing of them parsed.
Start(b) ==
    /\ buf = b
    /\ position = 0
    /\ status = "parsing"
    /\ section = "header"
    /\ step = "head"
    /\ left = 0
    /\ ends = [s \in SectionNames |-> 0]
    /\ locators = <<>>
    /\ locators_left = 0
    /\ header = NoHeader
    /\ flags = <<>>
    /\ metadata_reference = NoMetadataReference
    /\ slab_index = <<>>
    /\ ec_params = NoEcParams
    /\ dms_policy = NoDmsPolicy
    /\ history = <<>>

Init == \E b \in Buffers : Start(b)

-----------------------------------------------------------------------------
\* parse_manifest_header

\* Mutant: the reserved bytes are ignored.
HeaderChecksReservedIgnored ==
    << Read(4), Check(Bytes(0, 4) = MANIFEST_MAGIC, "BadMagic"),
       Read(6), Read(8), Read(10), Read(16) >>

HeaderChecks ==
    << Read(4), Check(Bytes(0, 4) = MANIFEST_MAGIC, "BadMagic"),
       Read(6), Read(8), Read(10),
       Read(16), Check(\A o \in 10..15 : U8(o) = 0, "Corrupt") >>

RejectHeader == Reject("header", "head", HeaderChecks) /\ UNCHANGED header

ReadHeader ==
    /\ At("header", "head")
    /\ Passes(HeaderChecks)
    /\ header' = [drop_store_version |-> U16(4), metadata_version |-> U16(6),
                  manifest_version |-> U16(8)]
    /\ Return("header", 16)

HeaderStep == RejectHeader \/ ReadHeader

\* Mutant: the end of the section is noted only when the section is there.
SkipEcParamsUnrecorded ==
    /\ At("ec_params", "head")
    /\ ~HasFlag(EC_FLAG)
    /\ section' = NextSection("ec_params")
    /\ UNCHANGED <<buf, position, status, step, left, ends>>

\* The optional sections are parsed when their flag is declared, required or not.
SkipEcParams == At("ec_params", "head") /\ ~HasFlag(EC_FLAG) /\ Return("ec_params", 0)
SkipDmsPolicy == At("dms_policy", "head") /\ ~HasFlag(DMS_FLAG) /\ Return("dms_policy", 0)

Step ==
    \/ /\ HeaderStep
       /\ UNCHANGED <<locatorVars, flags, metadata_reference, slab_index, ec_params,
                      dms_policy, history>>
    \/ /\ FlagsStep
       /\ UNCHANGED <<locatorVars, header, metadata_reference, slab_index, ec_params,
                      dms_policy, history>>
    \/ /\ MetadataReferenceStep
       /\ UNCHANGED <<header, flags, slab_index, ec_params, dms_policy, history>>
    \/ /\ LocatorStep
       /\ UNCHANGED <<header, flags, metadata_reference, slab_index, ec_params, dms_policy,
                      history>>
    \/ /\ SlabIndexStep
       /\ UNCHANGED <<header, flags, metadata_reference, ec_params, dms_policy, history>>
    \/ /\ SkipEcParams \/ SkipDmsPolicy
       /\ UNCHANGED <<locatorVars, header, flags, metadata_reference, slab_index, ec_params,
                      dms_policy, history>>
    \/ /\ HasFlag(EC_FLAG) /\ EcParamsStep
       /\ UNCHANGED <<locatorVars, header, flags, metadata_reference, slab_index, dms_policy,
                      history>>
    \/ /\ HasFlag(DMS_FLAG) /\ DmsPolicyStep
       /\ UNCHANGED <<locatorVars, header, flags, metadata_reference, slab_index, ec_params,
                      history>>
    \/ /\ HistoryStep
       /\ UNCHANGED <<locatorVars, header, flags, metadata_reference, slab_index, ec_params,
                      dms_policy>>

\* verify has printed its report or the error.
Finished == status # "parsing" /\ UNCHANGED vars

Next == Step \/ Finished

Spec == Init /\ [][Next]_vars

-----------------------------------------------------------------------------
\* The report of a manifest that verifies.

\* The bytes section s spanned.
SectionStart(s) == IF s = "header" THEN 0
                   ELSE ends[CHOOSE t \in SectionNames \ {"history"} : NextSection(t) = s]
SectionBytes(s) == SubSeq(buf, SectionStart(s) + 1, ends[s])

MerkleRoot ==
    compute_merkle_root(
        [metadata |-> metadata_reference.metadata_hash,
         format_header |-> hash_section(SectionBytes("header")),
         feature_flags |-> hash_section(SectionBytes("feature_flags")),
         metadata_reference |-> hash_section(SectionBytes("metadata_reference")),
         slab_index |-> hash_section(SectionBytes("slab_index")),
         crypto_params |-> hash_empty_section,
         ec_params |-> IF HasFlag(EC_FLAG) THEN hash_section(SectionBytes("ec_params"))
                       ELSE hash_empty_section,
         dms_policy |-> IF HasFlag(DMS_FLAG) THEN hash_section(SectionBytes("dms_policy"))
                        ELSE hash_empty_section,
         delta_linkage |-> hash_empty_section,
         history |-> hash_section(SectionBytes("history"))])

extra_bytes_after_history == remaining_len

SectionsCut ==
    IF status = "verified" THEN Len(SectionOrder)
    ELSE (CHOOSE i \in DOMAIN SectionOrder : SectionOrder[i] = section) - 1

File == INSTANCE SectionedFile WITH
    Files <- Buffers,
    SectionCount <- Len(SectionOrder),
    OptionalSections <- {i \in DOMAIN SectionOrder : SectionOrder[i] \in {"ec_params", "dms_policy"}},
    file <- buf,
    cuts <- [i \in 1..SectionsCut |-> ends[SectionOrder[i]]],
    verdict <- status

\* The seven parsers, which share nothing but the cursor, cut the file into
\* sections that follow each other without a gap or an overlap, an absent one
\* included, and a file is verified only when all seven are cut: every byte up
\* to extra_bytes_after_history is hashed into the ManifestRoot exactly once.
ImplementsSectionedFile == File!Spec
=============================================================================
