----------------------------- MODULE SlabIndex -----------------------------
(***************************************************************************)
(* limnifs/slab_index.py: parse_slab_index_section.                        *)
(***************************************************************************)
EXTENDS Locator

SLAB_INDEX_SECTION_VERSION == 1
SLAB_ID_LEN == 40
SLAB_ENTRY_FIXED_LEN == SLAB_ID_LEN + 4      \* ENTRY_FIXED_LEN

\* SlabIndex.entries: [slab_id, locators].  A slab_id is its 40 bytes.
VARIABLE slab_index

\* Mutant: a count the bytes cannot hold is "Corrupt".
SlabIndexHeadCountCorrupt ==
    << Read(1), Check(U8(0) = SLAB_INDEX_SECTION_VERSION, "Unsupported"),
       Read(5), Check(remaining_len - 5 >= U32(1) * SLAB_ENTRY_FIXED_LEN, "Corrupt") >>

SlabIndexHeadChecks ==
    << Read(1), Check(U8(0) = SLAB_INDEX_SECTION_VERSION, "Unsupported"),
       Read(5), Check(remaining_len - 5 >= U32(1) * SLAB_ENTRY_FIXED_LEN, "Truncated") >>

SlabEntryChecks ==
    << Read(8), Read(SLAB_ID_LEN),
       Check(\A i \in DOMAIN slab_index : slab_index[i].slab_id # Bytes(0, SLAB_ID_LEN), "Corrupt"),
       Read(44), Check(U32(SLAB_ID_LEN) # 0, "Corrupt"), CountCheck(44, U32(SLAB_ID_LEN)) >>

RejectSlabIndex ==
    /\ \/ Reject("slab_index", "head", SlabIndexHeadChecks)
       \/ MoreEntries /\ Reject("slab_index", "entries", SlabEntryChecks)
    /\ UNCHANGED <<locators, locators_left, slab_index>>

ReadSlabIndexHead ==
    /\ Accept("slab_index", "head", SlabIndexHeadChecks, 5)
    /\ step' = "entries"
    /\ left' = U32(1)
    /\ UNCHANGED <<locators, locators_left, slab_index>>

\* The entry up to its locators.
ReadSlabEntry ==
    /\ MoreEntries
    /\ Accept("slab_index", "entries", SlabEntryChecks, SLAB_ENTRY_FIXED_LEN)
    /\ BeginLocators(U32(SLAB_ID_LEN))
    /\ slab_index' = Append(slab_index, [slab_id |-> Bytes(0, SLAB_ID_LEN), locators |-> <<>>])
    /\ UNCHANGED left

\* The entry is complete: the loop turns.
SlabEntryRead ==
    /\ At("slab_index", "locators")
    /\ ~MoreLocators
    /\ step' = "entries"
    /\ left' = left - 1
    /\ slab_index' = [slab_index EXCEPT ![Len(slab_index)].locators = locators]
    /\ UNCHANGED <<buf, position, status, section, ends, locators, locators_left>>

SlabIndexEnd ==
    EntriesEnd("slab_index") /\ UNCHANGED <<locators, locators_left, slab_index>>

SlabIndexStep ==
    RejectSlabIndex \/ ReadSlabIndexHead \/ ReadSlabEntry \/ SlabEntryRead \/ SlabIndexEnd
=============================================================================
