------------------------- MODULE MetadataReference -------------------------
(***************************************************************************)
(* limnifs/metadata_reference.py: parse_metadata_reference_section.        *)
(***************************************************************************)
EXTENDS Locator

CONSTANT DEFAULT_INLINE_METADATA_MAX_BYTES

METADATA_REFERENCE_SECTION_VERSION == 1

\* MetadataReference: [metadata_hash, locators, inline_metadata], where no inline
\* metadata (None) is <<>>: there is no inline metadata of zero bytes.
VARIABLE metadata_reference

MetadataHeadChecks ==
    << Read(1), Check(U8(0) = METADATA_REFERENCE_SECTION_VERSION, "Unsupported"),
       Read(33), Read(37), CountCheck(37, U32(33)) >>

\* What follows the locators; the last row is the "unreachable" check.
MetadataTailChecks ==
    << Read(4), Check(U32(0) <= DEFAULT_INLINE_METADATA_MAX_BYTES, "Corrupt"),
       Read(4 + U32(0)), Check(locators # <<>> \/ U32(0) # 0, "Corrupt") >>

RejectMetadataReference ==
    /\ \/ Reject("metadata_reference", "head", MetadataHeadChecks)
       \/ ~MoreLocators /\ Reject("metadata_reference", "locators", MetadataTailChecks)
    /\ UNCHANGED <<locators, locators_left, metadata_reference>>

ReadMetadataHead ==
    /\ Accept("metadata_reference", "head", MetadataHeadChecks, 37)
    /\ BeginLocators(U32(33))
    /\ metadata_reference' = [metadata_reference EXCEPT !.metadata_hash = Bytes(1, 32)]
    /\ UNCHANGED left

ReadMetadataTail ==
    /\ At("metadata_reference", "locators")
    /\ ~MoreLocators
    /\ Passes(MetadataTailChecks)
    /\ metadata_reference' = [metadata_reference EXCEPT
                                !.locators = locators, !.inline_metadata = Bytes(4, U32(0))]
    /\ Return("metadata_reference", 4 + U32(0))
    /\ UNCHANGED <<locators, locators_left>>

MetadataReferenceStep == RejectMetadataReference \/ ReadMetadataHead \/ ReadMetadataTail
=============================================================================
