--------------------------- MODULE ManifestProofs ---------------------------
(***************************************************************************)
(* Proofs about _verify_bytes, for every file, every manifest that is sent *)
(* and all ceilings: the types, the way the section parsers cut the file,  *)
(* that the ManifestRoot identifies the bytes it was computed from, that   *)
(* the bytes accepted are the encoding of what was parsed, and that it     *)
(* keeps the rules of its sections.                                        *)
(***************************************************************************)
EXTENDS ManifestIdentity, BytesProofs

-----------------------------------------------------------------------------
\* The order of the sections.

LEMMA SectionNamesAre ==
    SectionNames = {"header", "feature_flags", "metadata_reference", "slab_index",
                    "ec_params", "dms_policy", "history"}
BY DEF SectionNames, SectionOrder

\* Where a section is in the order.
PlaceIn(s) == CHOOSE i \in DOMAIN SectionOrder : SectionOrder[i] = s

LEMMA Places ==
    /\ Len(SectionOrder) = 7 /\ DOMAIN SectionOrder = 1..7
    /\ \A i \in 1..7 : SectionOrder[i] \in SectionNames /\ PlaceIn(SectionOrder[i]) = i
    /\ \A s \in SectionNames : PlaceIn(s) \in 1..7 /\ SectionOrder[PlaceIn(s)] = s
<1>1. Len(SectionOrder) = 7 /\ DOMAIN SectionOrder = 1..7
  BY DEF SectionOrder
<1>2. \A i, j \in 1..7 : SectionOrder[i] = SectionOrder[j] => i = j
  BY DEF SectionOrder
<1>3. \A i \in 1..7 : PlaceIn(SectionOrder[i]) = i
  BY <1>1, <1>2 DEF PlaceIn
<1>4. \A i \in 1..7 : SectionOrder[i] \in SectionNames
  BY <1>1 DEF SectionNames
<1>5. \A s \in SectionNames : PlaceIn(s) \in 1..7 /\ SectionOrder[PlaceIn(s)] = s
  BY <1>1, <1>3 DEF SectionNames
<1>. QED
  BY <1>1, <1>3, <1>4, <1>5

LEMMA PlacesAre ==
    /\ PlaceIn("header") = 1 /\ PlaceIn("feature_flags") = 2 /\ PlaceIn("metadata_reference") = 3
    /\ PlaceIn("slab_index") = 4 /\ PlaceIn("ec_params") = 5 /\ PlaceIn("dms_policy") = 6
    /\ PlaceIn("history") = 7
<1>1. \A i \in 1..7 : PlaceIn(SectionOrder[i]) = i
  BY Places
<1>. QED
  BY <1>1 DEF SectionOrder

\* The next section is the one at the next place.
LEMMA NextPlace ==
    \A s \in SectionNames \ {"history"} :
        NextSection(s) \in SectionNames /\ PlaceIn(NextSection(s)) = PlaceIn(s) + 1
<1> SUFFICES ASSUME NEW s \in SectionNames \ {"history"}
             PROVE  NextSection(s) \in SectionNames /\ PlaceIn(NextSection(s)) = PlaceIn(s) + 1
  OBVIOUS
<1>1. PlaceIn(s) \in 1..6 /\ SectionOrder[PlaceIn(s)] = s
  <2>1. PlaceIn(s) \in 1..7 /\ SectionOrder[PlaceIn(s)] = s
    BY Places
  <2>2. SectionOrder[7] = "history"
    BY DEF SectionOrder
  <2>. QED
    BY <2>1, <2>2
<1>2. \A i \in 1..6 : SectionOrder[i] = s => i = PlaceIn(s)
  BY Places
<1> DEFINE here == CHOOSE i \in 1..6 : SectionOrder[i] = s
<1>3. here = PlaceIn(s)
  BY <1>1, <1>2
<1> HIDE DEF here
<1>4. 1 + here = PlaceIn(s) + 1
  BY <1>1, <1>3
<1>5. NextSection(s) = SectionOrder[PlaceIn(s) + 1]
  BY <1>4, Zenon DEF NextSection, here
<1>. QED
  BY <1>1, <1>5, Places

LEMMA NextSectionsAre ==
    /\ NextSection("header") = "feature_flags"
    /\ NextSection("feature_flags") = "metadata_reference"
    /\ NextSection("metadata_reference") = "slab_index"
    /\ NextSection("slab_index") = "ec_params"
    /\ NextSection("ec_params") = "dms_policy"
    /\ NextSection("dms_policy") = "history"
<1>1. \A s \in SectionNames \ {"history"} :
        NextSection(s) \in SectionNames /\ PlaceIn(NextSection(s)) = PlaceIn(s) + 1
  BY NextPlace
<1>. QED
  BY <1>1, PlacesAre, SectionNamesAre

-----------------------------------------------------------------------------
\* The lists of checks.

\* Every row of every list is "ok" or an exception.
LEMMA Rows ==
    /\ HeaderChecks \in Seq(Outcomes)
    /\ FlagsHeadChecks \in Seq(Outcomes) /\ FlagChecks \in Seq(Outcomes)
    /\ MetadataHeadChecks \in Seq(Outcomes) /\ MetadataTailChecks \in Seq(Outcomes)
    /\ LocatorChecks \in Seq(Outcomes)
    /\ SlabIndexHeadChecks \in Seq(Outcomes) /\ SlabEntryChecks \in Seq(Outcomes)
    /\ EcHeadChecks \in Seq(Outcomes) /\ OverrideChecks \in Seq(Outcomes)
    /\ DmsHeadChecks \in Seq(Outcomes) /\ ShareChecks \in Seq(Outcomes)
    /\ HintChecks \in Seq(Outcomes)
    /\ HistoryHeadChecks \in Seq(Outcomes) /\ HistoryEntryChecks \in Seq(Outcomes)
<1> USE DEF Read, CountCheck, Check, Outcomes, ErrorKinds
<1>1. HeaderChecks \in Seq(Outcomes) /\ FlagsHeadChecks \in Seq(Outcomes) /\ FlagChecks \in Seq(Outcomes)
  BY DEF HeaderChecks, FlagsHeadChecks, FlagChecks
<1>2. MetadataHeadChecks \in Seq(Outcomes) /\ MetadataTailChecks \in Seq(Outcomes)
  BY DEF MetadataHeadChecks, MetadataTailChecks
<1>3. LocatorChecks \in Seq(Outcomes)
  BY DEF LocatorChecks
<1>4. SlabIndexHeadChecks \in Seq(Outcomes) /\ SlabEntryChecks \in Seq(Outcomes)
  BY DEF SlabIndexHeadChecks, SlabEntryChecks
<1>5. EcHeadChecks \in Seq(Outcomes) /\ OverrideChecks \in Seq(Outcomes)
  BY DEF EcHeadChecks, OverrideChecks
<1>6. DmsHeadChecks \in Seq(Outcomes) /\ ShareChecks \in Seq(Outcomes) /\ HintChecks \in Seq(Outcomes)
  BY DEF DmsHeadChecks, ShareChecks, HintChecks
<1>7. HistoryHeadChecks \in Seq(Outcomes) /\ HistoryEntryChecks \in Seq(Outcomes)
  BY DEF HistoryHeadChecks, HistoryEntryChecks
<1>. QED
  BY <1>1, <1>2, <1>3, <1>4, <1>5, <1>6, <1>7

\* What is known of the bytes at the cursor when a list has passed: they are
\* there, and a count read among them is one they can hold.

LEMMA HeaderPassed ==
    ASSUME CursorOK, Passes(HeaderChecks)
    PROVE  position + 16 <= Len(buf)
<1>1. /\ 6 \in DOMAIN HeaderChecks /\ HeaderChecks[6] = Read(16)
  BY DEF HeaderChecks
<1>2. HeaderChecks[6] = "ok"
  BY <1>1 DEF Passes
<1>3. CursorOK /\ position \in Nat /\ Len(buf) \in Nat
  BY DEF CursorOK
<1>4. position + (16) <= Len(buf)
  BY <1>1, <1>2, <1>3, ReadRow
<1>. QED
  BY <1>3, <1>4

LEMMA FlagsHeadPassed ==
    ASSUME CursorOK, Passes(FlagsHeadChecks)
    PROVE  /\ position + 5 <= Len(buf)
           /\ U32(1) * 3 <= Len(buf) - (position + 5)
<1>1. /\ 3 \in DOMAIN FlagsHeadChecks /\ FlagsHeadChecks[3] = Read(5)
      /\ 4 \in DOMAIN FlagsHeadChecks /\ FlagsHeadChecks[4] = Check(remaining_len - 5 >= U32(1) * FLAG_ENTRY_LEN, "Truncated")
  BY DEF FlagsHeadChecks
<1>2. FlagsHeadChecks[3] = "ok" /\ FlagsHeadChecks[4] = "ok"
  BY <1>1 DEF Passes
<1>3. CursorOK /\ position \in Nat /\ Len(buf) \in Nat
  BY DEF CursorOK
<1>4. U32(1) \in Nat
  BY <1>3, U32Range
<1>5. position + (5) <= Len(buf)
  BY <1>1, <1>2, <1>3, <1>4, ReadRow DEF remaining_len, FLAG_ENTRY_LEN
<1>6. remaining_len - 5 >= U32(1) * FLAG_ENTRY_LEN
  BY <1>1, <1>2 DEF Check
<1>. QED
  BY <1>3, <1>4, <1>5, <1>6 DEF remaining_len, FLAG_ENTRY_LEN

LEMMA FlagPassed ==
    ASSUME CursorOK, Passes(FlagChecks)
    PROVE  /\ position + 3 <= Len(buf)
           /\ U16(0) # 0
<1>1. /\ 2 \in DOMAIN FlagChecks /\ FlagChecks[2] = Check(U16(0) # 0, "Corrupt")
      /\ 3 \in DOMAIN FlagChecks /\ FlagChecks[3] = Read(3)
  BY DEF FlagChecks
<1>2. FlagChecks[2] = "ok" /\ FlagChecks[3] = "ok"
  BY <1>1 DEF Passes
<1>3. CursorOK /\ position \in Nat /\ Len(buf) \in Nat
  BY DEF CursorOK
<1>4. position + (3) <= Len(buf)
  BY <1>1, <1>2, <1>3, ReadRow
<1>5. U16(0) # 0
  BY <1>1, <1>2 DEF Check
<1>. QED
  BY <1>3, <1>4, <1>5

LEMMA MetadataHeadPassed ==
    ASSUME CursorOK, Passes(MetadataHeadChecks)
    PROVE  /\ position + 37 <= Len(buf)
           /\ U32(33) <= Len(buf)
<1>1. /\ 4 \in DOMAIN MetadataHeadChecks /\ MetadataHeadChecks[4] = Read(37)
      /\ 5 \in DOMAIN MetadataHeadChecks /\ MetadataHeadChecks[5] = CountCheck(37, U32(33))
  BY DEF MetadataHeadChecks
<1>2. MetadataHeadChecks[4] = "ok" /\ MetadataHeadChecks[5] = "ok"
  BY <1>1 DEF Passes
<1>3. CursorOK /\ position \in Nat /\ Len(buf) \in Nat
  BY DEF CursorOK
<1>4. U32(33) \in Nat
  BY <1>3, U32Range
<1>5. position + (37) <= Len(buf)
  BY <1>1, <1>2, <1>3, <1>4, ReadRow DEF remaining_len, LOCATOR_LENGTH_PREFIX_LEN, MIN_LOCATOR_URI_BYTES
<1>6. remaining_len - 37 >= U32(33) * (LOCATOR_LENGTH_PREFIX_LEN + MIN_LOCATOR_URI_BYTES)
  BY <1>1, <1>2 DEF Check, CountCheck
<1>. QED
  BY <1>3, <1>4, <1>5, <1>6 DEF remaining_len, LOCATOR_LENGTH_PREFIX_LEN, MIN_LOCATOR_URI_BYTES

LEMMA MetadataTailPassed ==
    ASSUME CursorOK, Passes(MetadataTailChecks)
    PROVE  position + 4 + U32(0) <= Len(buf)
<1>1. /\ 3 \in DOMAIN MetadataTailChecks /\ MetadataTailChecks[3] = Read(4 + U32(0))
  BY DEF MetadataTailChecks
<1>2. MetadataTailChecks[3] = "ok"
  BY <1>1 DEF Passes
<1>3. CursorOK /\ position \in Nat /\ Len(buf) \in Nat
  BY DEF CursorOK
<1>4. U32(0) \in Nat
  BY <1>3, U32Range
<1>5. position + (4 + U32(0)) <= Len(buf)
  BY <1>1, <1>2, <1>3, <1>4, ReadRow
<1>. QED
  BY <1>3, <1>4, <1>5

LEMMA LocatorPassed ==
    ASSUME CursorOK, Passes(LocatorChecks)
    PROVE  /\ position + 4 + U32(0) <= Len(buf)
           /\ IsUri(Bytes(4, U32(0)))
<1>1. /\ 4 \in DOMAIN LocatorChecks /\ LocatorChecks[4] = Read(4 + U32(0))
      /\ 5 \in DOMAIN LocatorChecks /\ LocatorChecks[5] = Check(IsUri(Bytes(4, U32(0))), "Corrupt")
  BY DEF LocatorChecks
<1>2. LocatorChecks[4] = "ok" /\ LocatorChecks[5] = "ok"
  BY <1>1 DEF Passes
<1>3. CursorOK /\ position \in Nat /\ Len(buf) \in Nat
  BY DEF CursorOK
<1>4. U32(0) \in Nat
  BY <1>3, U32Range
<1>5. position + (4 + U32(0)) <= Len(buf)
  BY <1>1, <1>2, <1>3, <1>4, ReadRow
<1>6. IsUri(Bytes(4, U32(0)))
  BY <1>1, <1>2 DEF Check
<1>. QED
  BY <1>3, <1>4, <1>5, <1>6

LEMMA SlabIndexHeadPassed ==
    ASSUME CursorOK, Passes(SlabIndexHeadChecks)
    PROVE  /\ position + 5 <= Len(buf)
           /\ U32(1) <= Len(buf)
<1>1. /\ 3 \in DOMAIN SlabIndexHeadChecks /\ SlabIndexHeadChecks[3] = Read(5)
      /\ 4 \in DOMAIN SlabIndexHeadChecks /\ SlabIndexHeadChecks[4] = Check(remaining_len - 5 >= U32(1) * SLAB_ENTRY_FIXED_LEN, "Truncated")
  BY DEF SlabIndexHeadChecks
<1>2. SlabIndexHeadChecks[3] = "ok" /\ SlabIndexHeadChecks[4] = "ok"
  BY <1>1 DEF Passes
<1>3. CursorOK /\ position \in Nat /\ Len(buf) \in Nat
  BY DEF CursorOK
<1>4. U32(1) \in Nat
  BY <1>3, U32Range
<1>5. position + (5) <= Len(buf)
  BY <1>1, <1>2, <1>3, <1>4, ReadRow DEF remaining_len, SLAB_ENTRY_FIXED_LEN, SLAB_ID_LEN
<1>6. remaining_len - 5 >= U32(1) * SLAB_ENTRY_FIXED_LEN
  BY <1>1, <1>2 DEF Check
<1>. QED
  BY <1>3, <1>4, <1>5, <1>6 DEF remaining_len, SLAB_ENTRY_FIXED_LEN, SLAB_ID_LEN

LEMMA SlabEntryPassed ==
    ASSUME CursorOK, Passes(SlabEntryChecks)
    PROVE  /\ position + 44 <= Len(buf)
           /\ U32(SLAB_ID_LEN) <= Len(buf)
<1>1. /\ 4 \in DOMAIN SlabEntryChecks /\ SlabEntryChecks[4] = Read(44)
      /\ 6 \in DOMAIN SlabEntryChecks /\ SlabEntryChecks[6] = CountCheck(44, U32(SLAB_ID_LEN))
  BY DEF SlabEntryChecks
<1>2. SlabEntryChecks[4] = "ok" /\ SlabEntryChecks[6] = "ok"
  BY <1>1 DEF Passes
<1>3. CursorOK /\ position \in Nat /\ Len(buf) \in Nat
  BY DEF CursorOK
<1>4. U32(SLAB_ID_LEN) \in Nat
  BY <1>3, U32Range DEF SLAB_ID_LEN
<1>5. position + (44) <= Len(buf)
  BY <1>1, <1>2, <1>3, <1>4, ReadRow DEF remaining_len, LOCATOR_LENGTH_PREFIX_LEN, MIN_LOCATOR_URI_BYTES
<1>6. remaining_len - 44 >= U32(SLAB_ID_LEN) * (LOCATOR_LENGTH_PREFIX_LEN + MIN_LOCATOR_URI_BYTES)
  BY <1>1, <1>2 DEF Check, CountCheck
<1>. QED
  BY <1>3, <1>4, <1>5, <1>6 DEF remaining_len, LOCATOR_LENGTH_PREFIX_LEN, MIN_LOCATOR_URI_BYTES

LEMMA EcHeadPassed ==
    ASSUME CursorOK, Passes(EcHeadChecks)
    PROVE  /\ position + 9 <= Len(buf)
           /\ U32(5) * 42 <= Len(buf) - (position + 9)
<1>1. /\ 7 \in DOMAIN EcHeadChecks /\ EcHeadChecks[7] = Read(9)
      /\ 8 \in DOMAIN EcHeadChecks /\ EcHeadChecks[8] = Check(remaining_len - 9 >= U32(5) * OVERRIDE_ENTRY_LEN, "Truncated")
  BY DEF EcHeadChecks
<1>2. EcHeadChecks[7] = "ok" /\ EcHeadChecks[8] = "ok"
  BY <1>1 DEF Passes
<1>3. CursorOK /\ position \in Nat /\ Len(buf) \in Nat
  BY DEF CursorOK
<1>4. U32(5) \in Nat
  BY <1>3, U32Range
<1>5. position + (9) <= Len(buf)
  BY <1>1, <1>2, <1>3, <1>4, ReadRow DEF remaining_len, OVERRIDE_ENTRY_LEN
<1>6. remaining_len - 9 >= U32(5) * OVERRIDE_ENTRY_LEN
  BY <1>1, <1>2 DEF Check
<1>. QED
  BY <1>3, <1>4, <1>5, <1>6 DEF remaining_len, OVERRIDE_ENTRY_LEN

LEMMA OverridePassed ==
    ASSUME CursorOK, Passes(OverrideChecks)
    PROVE  position + 42 <= Len(buf)
<1>1. /\ 1 \in DOMAIN OverrideChecks /\ OverrideChecks[1] = Read(OVERRIDE_ENTRY_LEN)
  BY DEF OverrideChecks
<1>2. OverrideChecks[1] = "ok"
  BY <1>1 DEF Passes
<1>3. CursorOK /\ position \in Nat /\ Len(buf) \in Nat
  BY DEF CursorOK
<1>4. position + (OVERRIDE_ENTRY_LEN) <= Len(buf)
  BY <1>1, <1>2, <1>3, ReadRow DEF OVERRIDE_ENTRY_LEN
<1>. QED
  BY <1>3, <1>4 DEF OVERRIDE_ENTRY_LEN

LEMMA DmsHeadPassed ==
    ASSUME CursorOK, Passes(DmsHeadChecks)
    PROVE  /\ position + 8 <= Len(buf)
           /\ U32(4) = U8(3)
<1>1. /\ 7 \in DOMAIN DmsHeadChecks /\ DmsHeadChecks[7] = Read(8)
      /\ 8 \in DOMAIN DmsHeadChecks /\ DmsHeadChecks[8] = Check(U32(4) = U8(3), "Corrupt")
  BY DEF DmsHeadChecks
<1>2. DmsHeadChecks[7] = "ok" /\ DmsHeadChecks[8] = "ok"
  BY <1>1 DEF Passes
<1>3. CursorOK /\ position \in Nat /\ Len(buf) \in Nat
  BY DEF CursorOK
<1>4. position + (8) <= Len(buf)
  BY <1>1, <1>2, <1>3, ReadRow
<1>5. U32(4) = U8(3)
  BY <1>1, <1>2 DEF Check
<1>. QED
  BY <1>3, <1>4, <1>5

LEMMA SharePassed ==
    ASSUME CursorOK, Passes(ShareChecks)
    PROVE  /\ U32(0) \in Nat /\ sd_len \in Nat
           /\ position + ShareLen <= Len(buf)
           /\ ShareLen = 8 + U32(0) + sd_len
<1>1. /\ 9 \in DOMAIN ShareChecks /\ ShareChecks[9] = Read(ShareLen)
  BY DEF ShareChecks
<1>2. ShareChecks[9] = "ok"
  BY <1>1 DEF Passes
<1>3. CursorOK /\ position \in Nat /\ Len(buf) \in Nat
  BY DEF CursorOK
<1>4. U32(0) \in Nat
  BY <1>3, U32Range
<1>5. 4 + U32(0) \in Nat
  BY <1>4
<1>6. sd_len \in Nat
  BY <1>3, <1>5, U32Range DEF sd_len
<1>7. ShareLen = 8 + U32(0) + sd_len /\ ShareLen \in Int
  BY <1>4, <1>6 DEF ShareLen
<1>8. position + ShareLen <= Len(buf)
  BY <1>1, <1>2, <1>3, <1>7, ReadRow
<1>. QED
  BY <1>4, <1>6, <1>7, <1>8

LEMMA HintPassed ==
    ASSUME CursorOK, Passes(HintChecks)
    PROVE  position + 4 + U32(0) <= Len(buf)
<1>1. /\ 3 \in DOMAIN HintChecks /\ HintChecks[3] = Read(4 + U32(0))
  BY DEF HintChecks
<1>2. HintChecks[3] = "ok"
  BY <1>1 DEF Passes
<1>3. CursorOK /\ position \in Nat /\ Len(buf) \in Nat
  BY DEF CursorOK
<1>4. U32(0) \in Nat
  BY <1>3, U32Range
<1>5. position + (4 + U32(0)) <= Len(buf)
  BY <1>1, <1>2, <1>3, <1>4, ReadRow
<1>. QED
  BY <1>3, <1>4, <1>5

LEMMA HistoryHeadPassed ==
    ASSUME CursorOK, Passes(HistoryHeadChecks)
    PROVE  /\ position + 5 <= Len(buf)
           /\ U32(1) <= Len(buf)
<1>1. /\ 3 \in DOMAIN HistoryHeadChecks /\ HistoryHeadChecks[3] = Read(5)
      /\ 5 \in DOMAIN HistoryHeadChecks /\ HistoryHeadChecks[5] = Check(remaining_len - 5 >= U32(1) * MIN_ENTRY_WIDTH, "Truncated")
  BY DEF HistoryHeadChecks
<1>2. HistoryHeadChecks[3] = "ok" /\ HistoryHeadChecks[5] = "ok"
  BY <1>1 DEF Passes
<1>3. CursorOK /\ position \in Nat /\ Len(buf) \in Nat
  BY DEF CursorOK
<1>4. U32(1) \in Nat
  BY <1>3, U32Range
<1>5. position + (5) <= Len(buf)
  BY <1>1, <1>2, <1>3, <1>4, ReadRow DEF remaining_len, MIN_ENTRY_WIDTH, HISTORY_ENTRY_FIXED_LEN
<1>6. remaining_len - 5 >= U32(1) * MIN_ENTRY_WIDTH
  BY <1>1, <1>2 DEF Check
<1>. QED
  BY <1>3, <1>4, <1>5, <1>6 DEF remaining_len, MIN_ENTRY_WIDTH, HISTORY_ENTRY_FIXED_LEN

LEMMA HistoryEntryPassed ==
    ASSUME CursorOK, Passes(HistoryEntryChecks)
    PROVE  /\ U8(0) \in HistoryOps
           /\ input_count \in Nat /\ inputs_size \in Nat /\ params_len \in Nat
           /\ position + 17 + inputs_size + params_len <= Len(buf)
<1>1. /\ 8 \in DOMAIN HistoryEntryChecks /\ HistoryEntryChecks[8] = Read(17 + inputs_size + params_len)
      /\ 2 \in DOMAIN HistoryEntryChecks /\ HistoryEntryChecks[2] = Check(U8(0) \in HistoryOps, "Unsupported")
  BY DEF HistoryEntryChecks
<1>2. HistoryEntryChecks[8] = "ok" /\ HistoryEntryChecks[2] = "ok"
  BY <1>1 DEF Passes
<1>3. CursorOK /\ position \in Nat /\ Len(buf) \in Nat
  BY DEF CursorOK
<1>4. input_count \in Nat /\ inputs_size \in Nat /\ params_len \in Nat
  <2>1. input_count \in Nat
    BY <1>3, U32Range DEF input_count
  <2>2. inputs_size \in Nat
    BY <2>1 DEF inputs_size
  <2>3. 13 + inputs_size \in Nat
    BY <2>2
  <2>4. params_len \in Nat
    BY <1>3, <2>3, U32Range DEF params_len
  <2>. QED
    BY <2>1, <2>2, <2>4
<1>5. position + (17 + inputs_size + params_len) <= Len(buf)
  BY <1>1, <1>2, <1>3, <1>4, ReadRow
<1>6. U8(0) \in HistoryOps
  BY <1>1, <1>2 DEF Check
<1>. QED
  BY <1>3, <1>4, <1>5, <1>6

-----------------------------------------------------------------------------
\* The three things a step does to the cursor and the section it is in.

LeftLimit == IF section = "dms_policy" THEN 255 ELSE Len(buf)

\* A statement raises.
Raises ==
    /\ status = "parsing"
    /\ status' \in ErrorKinds
    /\ UNCHANGED <<buf, position, section, step, left, ends>>

\* The section is one that is not declared.
Absent == \/ section = "ec_params" /\ ~HasFlag(EC_FLAG)
          \/ section = "dms_policy" /\ ~HasFlag(DMS_FLAG)

\* The cursor goes on in the section, a head being at least a byte.
Advances ==
    /\ status = "parsing"
    /\ position' \in position..Len(buf)
    /\ step = "head" => position < position'
    /\ \/ step' = "entries"
       \/ step' = "locators" /\ section \in {"metadata_reference", "slab_index"}
    /\ left' \in 0..LeftLimit
    /\ ~Absent
    /\ UNCHANGED <<buf, status, section, ends>>

\* The parser returns.  It has read something, or its section is an absent one.
Returns ==
    /\ status = "parsing"
    /\ \E n \in 0..(Len(buf) - position) :
         /\ Return(section, n)
         /\ Absent => step = "head" /\ n = 0
         /\ step = "head" /\ n = 0 => Absent

-----------------------------------------------------------------------------
\* The inductive invariant.

\* Two sections have locators.  The entry of the slab index they are read for is
\* one that left still counts.
LocatorsOpen ==
    step = "locators" =>
        \/ section = "metadata_reference"
        \/ section = "slab_index" /\ left > 0 /\ slab_index # <<>>

\* The entries still announced fit into the bytes that remain.
CountFits ==
    status = "parsing" /\ step = "entries" =>
        /\ section = "feature_flags" => left * FLAG_ENTRY_LEN <= remaining_len
        /\ section = "ec_params" => left * OVERRIDE_ENTRY_LEN <= remaining_len

\* Where the i-th section ends; the first starts at 0.
EndAt(i) == IF i = 0 THEN 0 ELSE ends[SectionOrder[i]]

\* The sections cut follow each other, and the cursor stands at the end of the
\* last one, or behind it in the section it has entered.
Tiled ==
    /\ status = "verified" => section = "history"
    /\ \A i \in 1..SectionsCut :
         EndAt(i - 1) <= EndAt(i) /\ (EndAt(i - 1) = EndAt(i) => i \in {5, 6})
    /\ EndAt(SectionsCut) <= position
    /\ status = "parsing" => (step = "head" <=> position = EndAt(SectionsCut))

\* A section that is not declared spans nothing.
AbsentSpanNothing ==
    /\ SectionsCut >= 5 /\ ~HasFlag(EC_FLAG) => EndAt(5) = EndAt(4)
    /\ SectionsCut >= 6 /\ ~HasFlag(DMS_FLAG) => EndAt(6) = EndAt(5)
    /\ status = "parsing" /\ Absent => step = "head"

IInv ==
    /\ TypeOK
    /\ LocatorsOpen
    /\ CountFits
    /\ CountCheckedUpFront
    /\ Tiled
    /\ AbsentSpanNothing

-----------------------------------------------------------------------------
\* What each section's parser does to the cursor and to what it has parsed.

LEMMA CursorKept ==
    ASSUME TypeOK
    PROVE  CursorOK /\ position \in Nat /\ Len(buf) \in Nat
BY DEF TypeOK, CursorOK, ByteString

LEMMA U16Typed ==
    ASSUME CursorOK, NEW o \in Nat
    PROVE  U16(o) \in U16Values
<1> DEFINE limit == 256 * 256
<1>1. U16(o) \in Nat /\ U16(o) < limit
  BY U16Range
<1>2. limit \in Int
  OBVIOUS
<1>3. U16Values = 0..(limit - 1)
  BY DEF U16Values
<1> HIDE DEF limit
<1>. QED
  BY <1>1, <1>2, <1>3

LEMMA RejectRaises ==
    ASSUME NEW s, NEW st, NEW checks \in Seq(Outcomes), Reject(s, st, checks)
    PROVE  Raises /\ status' = FirstFailure(checks)
<1>1. ~Passes(checks)
  BY DEF Reject
<1>2. FirstFailure(checks) \in ErrorKinds
  BY <1>1, FirstFailureIsFirst
<1>. QED
  BY <1>2, Zenon DEF Reject, Raise, Raises, At

LEMMA HeaderShape ==
    ASSUME TypeOK, HeaderStep
    PROVE  (Raises \/ Returns) /\ header' \in ManifestHeaderType
<1>1. CursorOK /\ position \in Nat /\ Len(buf) \in Nat
  BY CursorKept
<1>2. CASE RejectHeader
  <2>1. Raises
    BY <1>2, Rows, RejectRaises DEF RejectHeader
  <2>. QED
    BY <1>2, <2>1 DEF RejectHeader, TypeOK
<1>3. CASE ReadHeader
  <2>1. position + 16 <= Len(buf)
    BY <1>1, <1>3, HeaderPassed DEF ReadHeader
  <2>2. status = "parsing" /\ section = "header" /\ Return(section, 16)
    BY <1>3 DEF ReadHeader, At
  <2>3. Returns
    BY <1>1, <2>1, <2>2 DEF Returns, Absent
  <2>4. U16(4) \in U16Values /\ U16(6) \in U16Values /\ U16(8) \in U16Values
    BY <1>1, U16Typed
  <2>. QED
    BY <1>3, <2>3, <2>4 DEF ReadHeader, ManifestHeaderType
<1>. QED
  BY <1>2, <1>3 DEF HeaderStep

LEMMA FlagsShape ==
    ASSUME TypeOK, CountFits, FlagsStep
    PROVE  /\ Raises \/ Advances \/ Returns
           /\ flags' \in Seq(FlagType)
           /\ CountFits'
           /\ status' = "Truncated" => step = "head"
<1>1. CursorOK /\ position \in Nat /\ Len(buf) \in Nat
  BY CursorKept
<1>2. flags \in Seq(FlagType) /\ left \in Nat
  BY DEF TypeOK, LeftLimit
<1>3. section = "feature_flags" /\ status = "parsing"
  BY DEF FlagsStep, RejectFlags, Reject, ReadFlagsHead, ReadFlag, FlagsEnd, EntriesEnd, Accept, At
<1>4. CASE Reject("feature_flags", "head", FlagsHeadChecks) /\ UNCHANGED flags
  <2>1. Raises
    BY <1>4, Rows, RejectRaises
  <2>. QED
    BY <1>2, <1>4, <2>1 DEF Raises, CountFits, Reject, At, ErrorKinds
<1>5. CASE MoreEntries /\ Reject("feature_flags", "entries", FlagChecks) /\ UNCHANGED flags
  <2>1. Raises /\ status' = FirstFailure(FlagChecks)
    BY <1>5, Rows, RejectRaises
  <2>2. step = "entries" /\ left > 0 /\ ~Passes(FlagChecks)
    BY <1>5 DEF MoreEntries, Reject, At
  <2>3. position + 3 <= Len(buf)
    BY <1>1, <1>2, <1>3, <2>2 DEF CountFits, remaining_len, FLAG_ENTRY_LEN
  <2>4. Read(2) = "ok" /\ Read(3) = "ok"
    BY <1>1, <2>3 DEF Read, Check, remaining_len
  <2>5. \A i \in DOMAIN FlagChecks : FlagChecks[i] # "Truncated"
    BY <2>4 DEF FlagChecks, Check
  <2>6. status' # "Truncated"
    BY <2>1, <2>2, <2>5, Rows, FirstFailureIsFirst
  <2>. QED
    BY <1>2, <1>5, <2>1, <2>6 DEF Raises, CountFits, ErrorKinds
<1>6. CASE ReadFlagsHead
  <2>1. position + 5 <= Len(buf) /\ U32(1) * 3 <= Len(buf) - (position + 5)
    BY <1>1, <1>6, FlagsHeadPassed DEF ReadFlagsHead, Accept
  <2>2. U32(1) \in Nat
    BY <1>1, U32Range
  <2>3. U32(1) <= Len(buf)
    BY <1>1, <2>1, <2>2
  <2>4. /\ position' = position + 5 /\ UNCHANGED <<buf, status, section, ends, flags>>
        /\ step' = "entries" /\ left' = U32(1)
    BY <1>6 DEF ReadFlagsHead, Accept, Advance
  <2>5. Advances
    BY <1>1, <1>3, <2>1, <2>2, <2>3, <2>4 DEF Advances, Absent, LeftLimit
  <2>6. CountFits'
    BY <1>1, <1>3, <2>1, <2>2, <2>4 DEF CountFits, remaining_len, FLAG_ENTRY_LEN
  <2>. QED
    BY <1>2, <1>3, <2>4, <2>5, <2>6
<1>7. CASE ReadFlag
  <2>1. position + 3 <= Len(buf) /\ U16(0) # 0
    BY <1>1, <1>7, FlagPassed DEF ReadFlag, Accept
  <2>2. U16(0) \in U16Values \ {0}
    BY <1>1, <2>1, U16Typed
  <2>3. /\ position' = position + 3 /\ UNCHANGED <<buf, status, section, ends, step>>
        /\ step = "entries" /\ left' = left - 1 /\ left > 0
        /\ flags' = Append(flags, [flag_id |-> U16(0), required |-> U8(2) = 1])
    BY <1>7 DEF ReadFlag, Accept, Advance, MoreEntries, At, FLAG_ENTRY_LEN
  <2>4. [flag_id |-> U16(0), required |-> U8(2) = 1] \in FlagType
    BY <2>2 DEF FlagType
  <2>5. flags' \in Seq(FlagType)
    BY <1>2, <2>3, <2>4
  <2>6. left \in 0..LeftLimit
    BY DEF TypeOK, LeftLimit
  <2>7. Advances
    BY <1>1, <1>3, <2>1, <2>3, <2>6 DEF Advances, Absent, LeftLimit
  <2>8. CountFits'
    BY <1>1, <1>2, <1>3, <2>3 DEF CountFits, remaining_len, FLAG_ENTRY_LEN
  <2>. QED
    BY <1>3, <2>3, <2>5, <2>7, <2>8
<1>8. CASE FlagsEnd
  <2>1. /\ Return(section, 0) /\ UNCHANGED flags /\ step = "entries"
    BY <1>3, <1>8 DEF FlagsEnd, EntriesEnd, At
  <2>2. Returns
    BY <1>1, <1>3, <2>1 DEF Returns, Absent, TypeOK
  <2>3. status' = "parsing" /\ step' = "head"
    BY <1>3, <2>1 DEF Return
  <2>. QED
    BY <1>2, <2>1, <2>2, <2>3 DEF CountFits
<1>. QED
  BY <1>4, <1>5, <1>6, <1>7, <1>8 DEF FlagsStep, RejectFlags

LocatorsTyped ==
    /\ locators_left \in 0..Len(buf)
    /\ locators \in Seq(ByteString)
    /\ \A i \in DOMAIN locators : IsUri(locators[i])

\* parse_locator_entries has been called for a count the bytes can hold.
LEMMA BeginLocatorsTyped ==
    ASSUME NEW count \in 0..Len(buf), BeginLocators(count), buf' = buf
    PROVE  LocatorsTyped'
BY DEF BeginLocators, LocatorsTyped

LEMMA LocatorShape ==
    ASSUME TypeOK, LocatorsOpen, AbsentSpanNothing, LocatorStep
    PROVE  /\ Raises \/ Advances
           /\ LocatorsTyped'
           /\ UNCHANGED <<step, left>>
<1>1. CursorOK /\ position \in Nat /\ Len(buf) \in Nat
  BY CursorKept
<1>2. LocatorsTyped
  BY DEF TypeOK, LocatorsTyped
<1>3. CASE RejectLocator
  <2>1. Raises
    BY <1>3, Rows, RejectRaises DEF RejectLocator
  <2>2. UNCHANGED <<buf, step, left, locators, locators_left>>
    BY <1>3, <2>1 DEF RejectLocator, Raises
  <2>. QED
    BY <1>2, <2>1, <2>2 DEF LocatorsTyped
<1>4. CASE ReadLocator
  <2>1. position + 4 + U32(0) <= Len(buf) /\ IsUri(Bytes(4, U32(0)))
    BY <1>1, <1>4, LocatorPassed DEF ReadLocator, Accept
  <2>2. U32(0) \in Nat
    BY <1>1, U32Range
  <2>3. Bytes(4, U32(0)) \in ByteString
    BY <1>1, <2>1, <2>2, BytesRead DEF ByteString
  <2>4. /\ position' = position + (4 + U32(0)) /\ UNCHANGED <<buf, status, section, ends, step, left>>
        /\ status = "parsing" /\ step = "locators"
        /\ locators' = Append(locators, Bytes(4, U32(0)))
        /\ locators_left' = locators_left - 1 /\ locators_left > 0
    BY <1>4 DEF ReadLocator, Accept, Advance, MoreLocators, At
  <2>5. left \in 0..LeftLimit
    BY DEF TypeOK, LeftLimit
  <2>6. ~Absent
    BY <2>4 DEF AbsentSpanNothing
  <2>7. Advances
    BY <1>1, <2>1, <2>2, <2>4, <2>5, <2>6 DEF Advances, LocatorsOpen
  <2>8. locators' \in Seq(ByteString) /\ \A i \in DOMAIN locators' : IsUri(locators'[i])
    BY <1>2, <2>1, <2>3, <2>4 DEF LocatorsTyped
  <2>9. locators_left' \in 0..Len(buf')
    BY <1>1, <1>2, <2>4 DEF LocatorsTyped
  <2>. QED
    BY <2>4, <2>7, <2>8, <2>9 DEF LocatorsTyped
<1>. QED
  BY <1>3, <1>4 DEF LocatorStep

LEMMA MetadataReferenceShape ==
    ASSUME TypeOK, MetadataReferenceStep
    PROVE  /\ Raises \/ Advances \/ Returns
           /\ metadata_reference' \in MetadataReferenceType
           /\ LocatorsTyped'
<1>1. CursorOK /\ position \in Nat /\ Len(buf) \in Nat
  BY CursorKept
<1>2. LocatorsTyped /\ metadata_reference \in MetadataReferenceType
  BY DEF TypeOK, LocatorsTyped
<1>3. CASE RejectMetadataReference
  <2>1. Raises
    BY <1>3, Rows, RejectRaises DEF RejectMetadataReference
  <2>2. UNCHANGED <<buf, locators, locators_left, metadata_reference>>
    BY <1>3, <2>1 DEF RejectMetadataReference, Raises
  <2>. QED
    BY <1>2, <2>1, <2>2 DEF LocatorsTyped
<1>4. CASE ReadMetadataHead
  <2>1. position + 37 <= Len(buf) /\ U32(33) <= Len(buf)
    BY <1>1, <1>4, MetadataHeadPassed DEF ReadMetadataHead, Accept
  <2>2. U32(33) \in Nat
    BY <1>1, U32Range
  <2>3. Bytes(1, 32) \in ByteString
    BY <1>1, <2>1, BytesRead DEF ByteString
  <2>4. /\ position' = position + 37 /\ UNCHANGED <<buf, status, section, ends, left>>
        /\ status = "parsing" /\ section = "metadata_reference" /\ step = "head"
        /\ step' = "locators" /\ BeginLocators(U32(33))
        /\ metadata_reference' = [metadata_reference EXCEPT !.metadata_hash = Bytes(1, 32)]
    BY <1>4 DEF ReadMetadataHead, Accept, Advance, BeginLocators, At
  <2>5. left \in 0..LeftLimit
    BY DEF TypeOK, LeftLimit
  <2>6. Advances
    BY <1>1, <2>1, <2>4, <2>5 DEF Advances, Absent
  <2>7. LocatorsTyped'
    BY <1>1, <2>1, <2>2, <2>4, BeginLocatorsTyped
  <2>8. metadata_reference' \in MetadataReferenceType
    BY <1>2, <2>3, <2>4 DEF MetadataReferenceType
  <2>. QED
    BY <2>6, <2>7, <2>8
<1>5. CASE ReadMetadataTail
  <2>1. position + 4 + U32(0) <= Len(buf)
    BY <1>1, <1>5, MetadataTailPassed DEF ReadMetadataTail
  <2>2. U32(0) \in Nat
    BY <1>1, U32Range
  <2>3. Bytes(4, U32(0)) \in ByteString
    BY <1>1, <2>1, <2>2, BytesRead DEF ByteString
  <2>4. /\ Return(section, 4 + U32(0)) /\ UNCHANGED <<buf, locators, locators_left>>
        /\ status = "parsing" /\ section = "metadata_reference" /\ step = "locators"
        /\ metadata_reference' = [metadata_reference EXCEPT
                                    !.locators = locators, !.inline_metadata = Bytes(4, U32(0))]
    BY <1>5 DEF ReadMetadataTail, Return, Advance, At
  <2>5. 4 + U32(0) \in 0..(Len(buf) - position)
    BY <1>1, <2>1, <2>2
  <2>6. Returns
    BY <2>4, <2>5 DEF Returns, Absent
  <2>7. metadata_reference' \in MetadataReferenceType
    BY <1>2, <2>3, <2>4 DEF MetadataReferenceType, LocatorsTyped
  <2>. QED
    BY <1>2, <2>4, <2>6, <2>7 DEF LocatorsTyped
<1>. QED
  BY <1>3, <1>4, <1>5 DEF MetadataReferenceStep

LEMMA SlabIndexShape ==
    ASSUME TypeOK, LocatorsOpen, SlabIndexStep
    PROVE  /\ Raises \/ Advances \/ Returns
           /\ slab_index' \in Seq(SlabEntryType)
           /\ LocatorsTyped'
           /\ LocatorsOpen'
<1>1. CursorOK /\ position \in Nat /\ Len(buf) \in Nat
  BY CursorKept
<1>2. LocatorsTyped /\ slab_index \in Seq(SlabEntryType) /\ left \in 0..LeftLimit
  BY DEF TypeOK, LocatorsTyped, LeftLimit
<1>3. CASE RejectSlabIndex
  <2>1. Raises
    BY <1>3, Rows, RejectRaises DEF RejectSlabIndex
  <2>2. UNCHANGED <<buf, section, step, left, locators, locators_left, slab_index>>
    BY <1>3, <2>1 DEF RejectSlabIndex, Raises
  <2>. QED
    BY <1>2, <2>1, <2>2 DEF LocatorsTyped, LocatorsOpen
<1>4. CASE ReadSlabIndexHead
  <2>1. position + 5 <= Len(buf) /\ U32(1) <= Len(buf)
    BY <1>1, <1>4, SlabIndexHeadPassed DEF ReadSlabIndexHead, Accept
  <2>2. U32(1) \in Nat
    BY <1>1, U32Range
  <2>3. /\ position' = position + 5 /\ step' = "entries" /\ left' = U32(1)
        /\ UNCHANGED <<buf, status, section, ends, locators, locators_left, slab_index>>
        /\ status = "parsing" /\ section = "slab_index"
    BY <1>4 DEF ReadSlabIndexHead, Accept, Advance, At
  <2>4. Advances
    BY <1>1, <2>1, <2>2, <2>3 DEF Advances, Absent, LeftLimit
  <2>. QED
    BY <1>2, <2>3, <2>4 DEF LocatorsTyped, LocatorsOpen
<1>5. CASE ReadSlabEntry
  <2>1. position + 44 <= Len(buf) /\ U32(SLAB_ID_LEN) <= Len(buf)
    BY <1>1, <1>5, SlabEntryPassed DEF ReadSlabEntry, Accept
  <2>2. U32(SLAB_ID_LEN) \in Nat
    BY <1>1, U32Range DEF SLAB_ID_LEN
  <2>3. Bytes(0, SLAB_ID_LEN) \in ByteString
    BY <1>1, <2>1, BytesRead DEF ByteString, SLAB_ID_LEN
  <2>4. /\ position' = position + 44 /\ UNCHANGED <<buf, status, section, ends, left>>
        /\ status = "parsing" /\ section = "slab_index" /\ step = "entries"
        /\ step' = "locators" /\ BeginLocators(U32(SLAB_ID_LEN)) /\ left > 0
        /\ slab_index' = Append(slab_index, [slab_id |-> Bytes(0, SLAB_ID_LEN), locators |-> <<>>])
    BY <1>5 DEF ReadSlabEntry, Accept, Advance, BeginLocators, MoreEntries, At,
                SLAB_ENTRY_FIXED_LEN, SLAB_ID_LEN
  <2>5. Advances
    BY <1>1, <1>2, <2>1, <2>4 DEF Advances, Absent
  <2>6. LocatorsTyped'
    BY <1>1, <2>1, <2>2, <2>4, BeginLocatorsTyped
  <2>7. [slab_id |-> Bytes(0, SLAB_ID_LEN), locators |-> <<>>] \in SlabEntryType
    BY <2>3 DEF SlabEntryType
  <2>8. slab_index' \in Seq(SlabEntryType) /\ slab_index' # <<>>
    BY <1>2, <2>4, <2>7
  <2>. QED
    BY <2>4, <2>5, <2>6, <2>8 DEF LocatorsOpen
<1>6. CASE SlabEntryRead
  <2>1. /\ UNCHANGED <<buf, position, status, section, ends, locators, locators_left>>
        /\ status = "parsing" /\ section = "slab_index" /\ step = "locators"
        /\ step' = "entries" /\ left' = left - 1
        /\ slab_index' = [slab_index EXCEPT ![Len(slab_index)].locators = locators]
    BY <1>6 DEF SlabEntryRead, At
  <2>2. left > 0 /\ slab_index # <<>>
    BY <2>1 DEF LocatorsOpen
  <2>3. left \in Nat /\ LeftLimit \in Nat /\ left <= LeftLimit /\ position <= Len(buf)
    BY <1>1, <1>2 DEF LeftLimit, TypeOK
  <2>4. Advances
    BY <1>1, <2>1, <2>2, <2>3 DEF Advances, Absent
  <2>5. Len(slab_index) \in 1..Len(slab_index)
    BY <1>2, <2>2
  <2>6. slab_index[Len(slab_index)] \in SlabEntryType /\ locators \in Seq(ByteString)
    BY <1>2, <2>5 DEF LocatorsTyped
  <2>7. slab_index' \in Seq(SlabEntryType)
    <3>1. [slab_index[Len(slab_index)] EXCEPT !.locators = locators] \in SlabEntryType
      BY <2>6 DEF SlabEntryType
    <3>. QED
      BY <1>2, <2>1, <2>5, <3>1
  <2>. QED
    BY <1>2, <2>1, <2>4, <2>7 DEF LocatorsTyped, LocatorsOpen
<1>7. CASE SlabIndexEnd
  <2>1. /\ Return(section, 0) /\ UNCHANGED <<buf, locators, locators_left, slab_index>>
        /\ status = "parsing" /\ section = "slab_index" /\ step = "entries"
    BY <1>7 DEF SlabIndexEnd, EntriesEnd, Return, Advance, At
  <2>2. Returns
    BY <1>1, <2>1 DEF Returns, Absent, TypeOK
  <2>3. step' = "head"
    BY <2>1 DEF Return
  <2>. QED
    BY <1>2, <2>1, <2>2, <2>3 DEF LocatorsTyped, LocatorsOpen
<1>. QED
  BY <1>3, <1>4, <1>5, <1>6, <1>7 DEF SlabIndexStep

LEMMA EcParamsShape ==
    ASSUME TypeOK, CountFits, HasFlag(EC_FLAG), EcParamsStep
    PROVE  /\ Raises \/ Advances \/ Returns
           /\ ec_params' \in EcParamsType
           /\ CountFits'
           /\ status' = "Truncated" => step = "head"
<1>1. CursorOK /\ position \in Nat /\ Len(buf) \in Nat
  BY CursorKept
<1>2. ec_params \in EcParamsType /\ left \in 0..LeftLimit
  BY DEF TypeOK, LeftLimit
<1>3. section = "ec_params" /\ status = "parsing" /\ ~Absent
  BY DEF EcParamsStep, RejectEcParams, Reject, ReadEcHead, ReadOverride, EcParamsEnd, EntriesEnd,
         Accept, At, Absent
<1>4. left \in Nat /\ left <= Len(buf) /\ LeftLimit = Len(buf)
  BY <1>1, <1>2, <1>3 DEF LeftLimit
<1>5. CASE Reject("ec_params", "head", EcHeadChecks) /\ UNCHANGED ec_params
  <2>1. Raises
    BY <1>5, Rows, RejectRaises
  <2>. QED
    BY <1>2, <1>5, <2>1 DEF Raises, CountFits, Reject, At, ErrorKinds
<1>6. CASE MoreEntries /\ Reject("ec_params", "entries", OverrideChecks) /\ UNCHANGED ec_params
  <2>1. Raises /\ status' = FirstFailure(OverrideChecks)
    BY <1>6, Rows, RejectRaises
  <2>2. step = "entries" /\ left > 0 /\ ~Passes(OverrideChecks)
    BY <1>6 DEF MoreEntries, Reject, At
  <2>3. position + 42 <= Len(buf)
    BY <1>1, <1>3, <1>4, <2>2 DEF CountFits, remaining_len, OVERRIDE_ENTRY_LEN
  <2>4. Read(OVERRIDE_ENTRY_LEN) = "ok"
    BY <1>1, <2>3 DEF Read, Check, remaining_len, OVERRIDE_ENTRY_LEN
  <2>5. \A i \in DOMAIN OverrideChecks : OverrideChecks[i] # "Truncated"
    BY <2>4 DEF OverrideChecks, Check
  <2>6. status' # "Truncated"
    BY <2>1, <2>2, <2>5, Rows, FirstFailureIsFirst
  <2>. QED
    BY <1>2, <1>6, <2>1, <2>6 DEF Raises, CountFits, ErrorKinds
<1>7. CASE ReadEcHead
  <2>1. position + 9 <= Len(buf) /\ U32(5) * 42 <= Len(buf) - (position + 9)
    BY <1>1, <1>7, EcHeadPassed DEF ReadEcHead, Accept
  <2>2. U32(5) \in Nat
    BY <1>1, U32Range
  <2>3. U32(5) <= Len(buf)
    BY <1>1, <2>1, <2>2
  <2>4. /\ position' = position + 9 /\ UNCHANGED <<buf, status, section, ends>>
        /\ step' = "entries" /\ left' = U32(5)
        /\ ec_params' = [ec_params EXCEPT !.k = U8(1), !.m = U8(2)]
    BY <1>7 DEF ReadEcHead, Accept, Advance
  <2>5. Advances
    BY <1>1, <1>3, <1>4, <2>1, <2>2, <2>3, <2>4 DEF Advances
  <2>6. CountFits'
    BY <1>1, <1>3, <2>1, <2>2, <2>4 DEF CountFits, remaining_len, OVERRIDE_ENTRY_LEN
  <2>7. U8(1) \in U8Values /\ U8(2) \in U8Values
    BY <1>1, ByteRange
  <2>8. ec_params' \in EcParamsType
    BY <1>2, <2>4, <2>7 DEF EcParamsType
  <2>. QED
    BY <1>3, <2>4, <2>5, <2>6, <2>8
<1>8. CASE ReadOverride
  <2> DEFINE entry == [slab_id |-> Bytes(0, 40), k |-> U8(40), m |-> U8(41)]
             EntryType == [slab_id : ByteString, k : U8Values, m : U8Values]
  <2>1. position + 42 <= Len(buf)
    BY <1>1, <1>8, OverridePassed DEF ReadOverride, Accept
  <2>2. U8(40) \in U8Values /\ U8(41) \in U8Values
    BY <1>1, ByteRange
  <2>3. Bytes(0, 40) \in ByteString
    BY <1>1, <2>1, BytesRead DEF ByteString
  <2>4. /\ position' = position + 42 /\ UNCHANGED <<buf, status, section, ends, step>>
        /\ step = "entries" /\ left' = left - 1 /\ left > 0
        /\ ec_params' = [ec_params EXCEPT !.overrides = Append(@, entry)]
    BY <1>8 DEF ReadOverride, Accept, Advance, MoreEntries, At, OVERRIDE_ENTRY_LEN
  <2>5. entry \in EntryType
    BY <2>2, <2>3
  <2>6. ec_params.overrides \in Seq(EntryType)
    BY <1>2 DEF EcParamsType
  <2> HIDE DEF entry, EntryType
  <2>7. Append(ec_params.overrides, entry) \in Seq(EntryType)
    BY <2>5, <2>6
  <2>8. ec_params' \in EcParamsType
    BY <1>2, <2>4, <2>7 DEF EcParamsType, EntryType
  <2>9. Advances
    BY <1>1, <1>3, <1>4, <2>1, <2>4 DEF Advances
  <2>10. CountFits'
    BY <1>1, <1>3, <1>4, <2>4 DEF CountFits, remaining_len, OVERRIDE_ENTRY_LEN
  <2>. QED
    BY <1>3, <2>4, <2>8, <2>9, <2>10
<1>9. CASE EcParamsEnd
  <2>1. /\ Return(section, 0) /\ UNCHANGED ec_params /\ step = "entries"
    BY <1>3, <1>9 DEF EcParamsEnd, EntriesEnd, At
  <2>2. Returns
    BY <1>1, <1>3, <2>1 DEF Returns, TypeOK
  <2>3. status' = "parsing" /\ step' = "head"
    BY <1>3, <2>1 DEF Return
  <2>. QED
    BY <1>2, <2>1, <2>2, <2>3 DEF CountFits
<1>. QED
  BY <1>5, <1>6, <1>7, <1>8, <1>9 DEF EcParamsStep, RejectEcParams

LEMMA DmsPolicyShape ==
    ASSUME TypeOK, HasFlag(DMS_FLAG), DmsPolicyStep
    PROVE  /\ Raises \/ Advances \/ Returns
           /\ dms_policy' \in DmsPolicyType
<1>1. CursorOK /\ position \in Nat /\ Len(buf) \in Nat /\ position <= Len(buf)
  BY CursorKept DEF TypeOK
<1>2. dms_policy \in DmsPolicyType
  BY DEF TypeOK
<1>3. section = "dms_policy" /\ status = "parsing" /\ ~Absent
  BY DEF DmsPolicyStep, RejectDmsPolicy, Reject, ReadDmsHead, ReadShare, ReadHint, Accept, At, Absent
<1>4. left \in 0..255 /\ LeftLimit = 255
  BY <1>3 DEF LeftLimit, TypeOK
<1>5. CASE RejectDmsPolicy
  <2>1. Raises
    BY <1>5, Rows, RejectRaises DEF RejectDmsPolicy
  <2>. QED
    BY <1>2, <1>5, <2>1 DEF RejectDmsPolicy
<1>6. CASE ReadDmsHead
  <2>1. position + 8 <= Len(buf) /\ U32(4) = U8(3)
    BY <1>1, <1>6, DmsHeadPassed DEF ReadDmsHead, Accept
  <2>2. U8(2) \in U8Values /\ U8(3) \in U8Values
    BY <1>1, ByteRange
  <2>3. /\ position' = position + 8 /\ UNCHANGED <<buf, status, section, ends>>
        /\ step' = "entries" /\ left' = U32(4)
        /\ dms_policy' = [dms_policy EXCEPT !.k = U8(2), !.n = U8(3)]
    BY <1>6 DEF ReadDmsHead, Accept, Advance
  <2>4. Advances
    BY <1>1, <1>3, <1>4, <2>1, <2>2, <2>3 DEF Advances, U8Values
  <2>5. dms_policy' \in DmsPolicyType
    BY <1>2, <2>2, <2>3 DEF DmsPolicyType
  <2>. QED
    BY <2>4, <2>5
<1>7. CASE ReadShare
  <2> DEFINE entry == [custodian_id |-> cid, share_data |-> Bytes(8 + U32(0), sd_len)]
             EntryType == [custodian_id : ByteString, share_data : ByteString]
  <2>1. /\ U32(0) \in Nat /\ sd_len \in Nat /\ position + ShareLen <= Len(buf)
        /\ ShareLen = 8 + U32(0) + sd_len
    BY <1>1, <1>7, SharePassed DEF ReadShare, Accept
  <2>2. cid \in ByteString
    BY <1>1, <2>1, BytesRead DEF ByteString, cid
  <2>3. 8 + U32(0) \in Nat /\ position + (8 + U32(0)) + sd_len <= Len(buf)
    BY <1>1, <2>1
  <2>4. Bytes(8 + U32(0), sd_len) \in ByteString
    BY <1>1, <2>1, <2>3, BytesRead DEF ByteString
  <2>5. /\ position' = position + ShareLen /\ UNCHANGED <<buf, status, section, ends, step>>
        /\ step = "entries" /\ left' = left - 1 /\ left > 0
        /\ dms_policy' = [dms_policy EXCEPT !.shares = Append(@, entry)]
    BY <1>7 DEF ReadShare, Accept, Advance, MoreEntries, At
  <2>6. entry \in EntryType
    BY <2>2, <2>4
  <2>7. dms_policy.shares \in Seq(EntryType)
    BY <1>2 DEF DmsPolicyType
  <2> HIDE DEF entry, EntryType
  <2>8. Append(dms_policy.shares, entry) \in Seq(EntryType)
    BY <2>6, <2>7
  <2>9. dms_policy' \in DmsPolicyType
    BY <1>2, <2>5, <2>8 DEF DmsPolicyType, EntryType
  <2>10. Advances
    BY <1>1, <1>3, <1>4, <2>1, <2>5 DEF Advances
  <2>. QED
    BY <2>9, <2>10
<1>8. CASE ReadHint
  <2>1. position + 4 + U32(0) <= Len(buf)
    BY <1>1, <1>8, HintPassed DEF ReadHint
  <2>2. U32(0) \in Nat
    BY <1>1, U32Range
  <2>3. Bytes(4, U32(0)) \in ByteString
    BY <1>1, <2>1, <2>2, BytesRead DEF ByteString
  <2>4. /\ Return(section, 4 + U32(0))
        /\ dms_policy' = [dms_policy EXCEPT !.reconstruction_hint = Bytes(4, U32(0))]
    BY <1>3, <1>8 DEF ReadHint
  <2>5. 4 + U32(0) \in 0..(Len(buf) - position) /\ 4 + U32(0) # 0
    BY <1>1, <2>1, <2>2
  <2>6. Returns
    BY <1>3, <2>4, <2>5 DEF Returns
  <2>7. dms_policy' \in DmsPolicyType
    BY <1>2, <2>3, <2>4 DEF DmsPolicyType
  <2>. QED
    BY <2>6, <2>7
<1>. QED
  BY <1>5, <1>6, <1>7, <1>8 DEF DmsPolicyStep

LEMMA SkipShape ==
    ASSUME TypeOK, SkipEcParams \/ SkipDmsPolicy
    PROVE  Returns
<1>1. position \in Nat /\ Len(buf) \in Nat /\ position <= Len(buf)
  BY CursorKept DEF TypeOK
<1>2. status = "parsing" /\ Absent /\ step = "head" /\ Return(section, 0)
  BY DEF SkipEcParams, SkipDmsPolicy, Absent, At
<1>. QED
  BY <1>1, <1>2 DEF Returns

LEMMA HistoryShape ==
    ASSUME TypeOK, HistoryStep
    PROVE  /\ Raises \/ Advances \/ Returns
           /\ history' \in Seq(HistoryEntryType)
<1>1. CursorOK /\ position \in Nat /\ Len(buf) \in Nat /\ position <= Len(buf)
  BY CursorKept DEF TypeOK
<1>2. history \in Seq(HistoryEntryType)
  BY DEF TypeOK
<1>3. section = "history" /\ status = "parsing" /\ ~Absent
  BY DEF HistoryStep, RejectHistory, Reject, ReadHistoryHead, ReadHistoryEntry, HistoryEnd,
         EntriesEnd, Accept, At, Absent
<1>4. left \in 0..Len(buf) /\ LeftLimit = Len(buf)
  BY <1>3 DEF LeftLimit, TypeOK
<1>5. CASE RejectHistory
  <2>1. Raises
    BY <1>5, Rows, RejectRaises DEF RejectHistory
  <2>. QED
    BY <1>2, <1>5, <2>1 DEF RejectHistory
<1>6. CASE ReadHistoryHead
  <2>1. position + 5 <= Len(buf) /\ U32(1) <= Len(buf)
    BY <1>1, <1>6, HistoryHeadPassed DEF ReadHistoryHead, Accept
  <2>2. U32(1) \in Nat
    BY <1>1, U32Range
  <2>3. /\ position' = position + 5 /\ UNCHANGED <<buf, status, section, ends, history>>
        /\ step' = "entries" /\ left' = U32(1)
    BY <1>6 DEF ReadHistoryHead, Accept, Advance
  <2>4. Advances
    BY <1>1, <1>3, <1>4, <2>1, <2>2, <2>3 DEF Advances
  <2>. QED
    BY <1>2, <2>3, <2>4
<1>7. CASE ReadHistoryEntry
  <2>1. /\ U8(0) \in HistoryOps
        /\ input_count \in Nat /\ inputs_size \in Nat /\ params_len \in Nat
        /\ position + 17 + inputs_size + params_len <= Len(buf)
    BY <1>1, <1>7, HistoryEntryPassed DEF ReadHistoryEntry, Accept
  <2>2. Bytes(1, 8) \in ByteString
    BY <1>1, <2>1, BytesRead DEF ByteString
  <2>3. ASSUME NEW i \in 1..input_count
        PROVE  Bytes(13 + 32 * (i - 1), 32) \in ByteString
    <3>1. /\ 13 + 32 * (i - 1) \in Nat
          /\ position + (13 + 32 * (i - 1)) + 32 <= Len(buf)
      BY <1>1, <2>1 DEF inputs_size
    <3>. QED
      BY <1>1, <3>1, BytesRead DEF ByteString
  <2>4. [i \in 1..input_count |-> Bytes(13 + 32 * (i - 1), 32)] \in Seq(ByteString)
    BY <2>1, <2>3
  <2>5. 17 + inputs_size \in Nat /\ position + (17 + inputs_size) + params_len <= Len(buf)
    BY <1>1, <2>1
  <2>6. Bytes(17 + inputs_size, params_len) \in ByteString
    BY <1>1, <2>1, <2>5, BytesRead DEF ByteString
  <2>7. HistoryEntry \in HistoryEntryType
    BY <2>1, <2>2, <2>4, <2>6 DEF HistoryEntry, HistoryEntryType
  <2>8. /\ position' = position + (17 + inputs_size + params_len)
        /\ UNCHANGED <<buf, status, section, ends, step>>
        /\ step = "entries" /\ left' = left - 1 /\ left > 0
        /\ history' = Append(history, HistoryEntry)
    BY <1>7 DEF ReadHistoryEntry, Accept, Advance, MoreEntries, At
  <2>9. Advances
    BY <1>1, <1>3, <1>4, <2>1, <2>8 DEF Advances
  <2>. QED
    BY <1>2, <2>7, <2>8, <2>9
<1>8. CASE HistoryEnd
  <2>1. Return(section, 0) /\ UNCHANGED history /\ step = "entries"
    BY <1>3, <1>8 DEF HistoryEnd, EntriesEnd, At
  <2>2. Returns
    BY <1>1, <1>3, <2>1 DEF Returns
  <2>. QED
    BY <1>2, <2>1, <2>2
<1>. QED
  BY <1>5, <1>6, <1>7, <1>8 DEF HistoryStep

-----------------------------------------------------------------------------
\* A step of verify.

SectionsTyped ==
    /\ LocatorsTyped
    /\ header \in ManifestHeaderType
    /\ flags \in Seq(FlagType)
    /\ metadata_reference \in MetadataReferenceType
    /\ slab_index \in Seq(SlabEntryType)
    /\ ec_params \in EcParamsType
    /\ dms_policy \in DmsPolicyType
    /\ history \in Seq(HistoryEntryType)

LEMMA ShapeKeepsFile ==
    ASSUME Raises \/ Advances \/ Returns
    PROVE  status = "parsing" /\ buf' = buf
BY DEF Raises, Advances, Returns, Return, Advance

\* A step in a section is none in the loops of the others.
LEMMA OtherLoops ==
    ASSUME LocatorsOpen, Raises \/ Advances \/ Returns
    PROVE  /\ section # "slab_index" => LocatorsOpen'
           /\ section \notin {"feature_flags", "ec_params"} => CountFits'
<1>1. CASE Raises
  BY <1>1 DEF Raises, LocatorsOpen, CountFits, ErrorKinds
<1>2. CASE Advances
  BY <1>2 DEF Advances, LocatorsOpen, CountFits
<1>3. CASE Returns
  <2>1. step' = "head" \/ (UNCHANGED <<section, step>> /\ section = "history")
    BY <1>3 DEF Returns, Return
  <2>. QED
    BY <2>1 DEF LocatorsOpen, CountFits
<1>. QED
  BY <1>1, <1>2, <1>3

LEMMA StepShape ==
    ASSUME IInv, Step
    PROVE  /\ Raises \/ Advances \/ Returns
           /\ SectionsTyped'
           /\ LocatorsOpen' /\ CountFits'
           /\ section \in {"feature_flags", "ec_params"} /\ status' = "Truncated" => step = "head"
           /\ section = "feature_flags" \/ UNCHANGED flags
<1> DEFINE Shape == Raises \/ Advances \/ Returns
           Others == section \notin {"feature_flags", "ec_params", "slab_index"}
<1>1. TypeOK /\ LocatorsOpen /\ CountFits /\ AbsentSpanNothing
  BY DEF IInv
<1>2. SectionsTyped
  BY <1>1 DEF TypeOK, SectionsTyped, LocatorsTyped
<1>3. ASSUME Shape, UNCHANGED locatorVars
      PROVE  LocatorsTyped'
  BY <1>2, <1>3, ShapeKeepsFile DEF SectionsTyped, LocatorsTyped, locatorVars
<1>4. ASSUME Shape, Others
      PROVE  LocatorsOpen' /\ CountFits'
  BY <1>1, <1>4, OtherLoops
<1>5. CASE /\ HeaderStep
           /\ UNCHANGED <<locatorVars, flags, metadata_reference, slab_index, ec_params,
                          dms_policy, history>>
  <2>1. Shape /\ header' \in ManifestHeaderType
    BY <1>1, <1>5, HeaderShape
  <2>2. section = "header"
    BY <1>5 DEF HeaderStep, RejectHeader, ReadHeader, Reject, At
  <2>3. LocatorsTyped'
    BY <1>3, <1>5, <2>1
  <2>. QED
    BY <1>2, <1>4, <1>5, <2>1, <2>2, <2>3 DEF SectionsTyped
<1>6. CASE /\ FlagsStep
           /\ UNCHANGED <<locatorVars, header, metadata_reference, slab_index, ec_params,
                          dms_policy, history>>
  <2>1. /\ Shape /\ flags' \in Seq(FlagType) /\ CountFits'
        /\ status' = "Truncated" => step = "head"
    BY <1>1, <1>6, FlagsShape
  <2>2. section = "feature_flags"
    BY <1>6 DEF FlagsStep, RejectFlags, Reject, ReadFlagsHead, ReadFlag, FlagsEnd, EntriesEnd,
                Accept, At
  <2>3. LocatorsTyped' /\ LocatorsOpen'
    BY <1>1, <1>3, <1>6, <2>1, <2>2, OtherLoops
  <2>. QED
    BY <1>2, <1>6, <2>1, <2>2, <2>3 DEF SectionsTyped
<1>7. CASE /\ MetadataReferenceStep
           /\ UNCHANGED <<header, flags, slab_index, ec_params, dms_policy, history>>
  <2>1. Shape /\ metadata_reference' \in MetadataReferenceType /\ LocatorsTyped'
    BY <1>1, <1>7, MetadataReferenceShape
  <2>2. section = "metadata_reference"
    BY <1>7 DEF MetadataReferenceStep, RejectMetadataReference, Reject, ReadMetadataHead,
                ReadMetadataTail, Accept, At
  <2>. QED
    BY <1>2, <1>4, <1>7, <2>1, <2>2 DEF SectionsTyped
<1>8. CASE /\ LocatorStep
           /\ UNCHANGED <<header, flags, metadata_reference, slab_index, ec_params, dms_policy,
                          history>>
  <2>1. Raises \/ Advances
    BY <1>1, <1>8, LocatorShape
  <2>2. LocatorsTyped' /\ UNCHANGED <<step, left>>
    BY <1>1, <1>8, LocatorShape
  <2>3. section' = section /\ step = "locators"
    BY <1>8, <2>1 DEF Raises, Advances, LocatorStep, RejectLocator, ReadLocator, Reject, Accept, At
  <2>4. LocatorsOpen'
    BY <1>1, <1>8, <2>2, <2>3 DEF LocatorsOpen
  <2>5. CountFits'
    BY <2>2, <2>3 DEF CountFits
  <2>6. section \notin {"feature_flags", "ec_params"}
    BY <1>1, <2>3 DEF LocatorsOpen
  <2>. QED
    BY <1>2, <1>8, <2>1, <2>2, <2>4, <2>5, <2>6 DEF SectionsTyped
<1>9. CASE /\ SlabIndexStep
           /\ UNCHANGED <<header, flags, metadata_reference, ec_params, dms_policy, history>>
  <2>1. Shape /\ slab_index' \in Seq(SlabEntryType) /\ LocatorsTyped' /\ LocatorsOpen'
    BY <1>1, <1>9, SlabIndexShape
  <2>2. section = "slab_index"
    BY <1>9 DEF SlabIndexStep, RejectSlabIndex, Reject, ReadSlabIndexHead, ReadSlabEntry,
                SlabEntryRead, SlabIndexEnd, EntriesEnd, Accept, At
  <2>3. CountFits'
    BY <1>1, <2>1, <2>2, OtherLoops
  <2>. QED
    BY <1>2, <1>9, <2>1, <2>2, <2>3 DEF SectionsTyped
<1>10. CASE /\ SkipEcParams \/ SkipDmsPolicy
            /\ UNCHANGED <<locatorVars, header, flags, metadata_reference, slab_index, ec_params,
                           dms_policy, history>>
  <2>1. Shape
    BY <1>1, <1>10, SkipShape
  <2>2. section \in {"ec_params", "dms_policy"} /\ step = "head" /\ left' = 0
    BY <1>10 DEF SkipEcParams, SkipDmsPolicy, At, Return
  <2>3. LocatorsTyped'
    BY <1>3, <1>10, <2>1
  <2>4. LocatorsOpen' /\ CountFits'
    <3>1. step' = "head"
      BY <1>10 DEF SkipEcParams, SkipDmsPolicy, At, Return
    <3>. QED
      BY <3>1 DEF LocatorsOpen, CountFits
  <2>. QED
    BY <1>2, <1>10, <2>1, <2>2, <2>3, <2>4 DEF SectionsTyped
<1>11. CASE /\ HasFlag(EC_FLAG) /\ EcParamsStep
            /\ UNCHANGED <<locatorVars, header, flags, metadata_reference, slab_index, dms_policy,
                           history>>
  <2>1. /\ Shape /\ ec_params' \in EcParamsType /\ CountFits'
        /\ status' = "Truncated" => step = "head"
    BY <1>1, <1>11, EcParamsShape
  <2>2. section = "ec_params"
    BY <1>11 DEF EcParamsStep, RejectEcParams, Reject, ReadEcHead, ReadOverride, EcParamsEnd,
                 EntriesEnd, Accept, At
  <2>3. LocatorsTyped' /\ LocatorsOpen'
    BY <1>1, <1>3, <1>11, <2>1, <2>2, OtherLoops
  <2>. QED
    BY <1>2, <1>11, <2>1, <2>2, <2>3 DEF SectionsTyped
<1>12. CASE /\ HasFlag(DMS_FLAG) /\ DmsPolicyStep
            /\ UNCHANGED <<locatorVars, header, flags, metadata_reference, slab_index, ec_params,
                           history>>
  <2>1. Shape /\ dms_policy' \in DmsPolicyType
    BY <1>1, <1>12, DmsPolicyShape
  <2>2. section = "dms_policy"
    BY <1>12 DEF DmsPolicyStep, RejectDmsPolicy, Reject, ReadDmsHead, ReadShare, ReadHint,
                 Accept, At
  <2>3. LocatorsTyped'
    BY <1>3, <1>12, <2>1
  <2>. QED
    BY <1>2, <1>4, <1>12, <2>1, <2>2, <2>3 DEF SectionsTyped
<1>13. CASE /\ HistoryStep
            /\ UNCHANGED <<locatorVars, header, flags, metadata_reference, slab_index, ec_params,
                           dms_policy>>
  <2>1. Shape /\ history' \in Seq(HistoryEntryType)
    BY <1>1, <1>13, HistoryShape
  <2>2. section = "history"
    BY <1>13 DEF HistoryStep, RejectHistory, Reject, ReadHistoryHead, ReadHistoryEntry,
                 HistoryEnd, EntriesEnd, Accept, At
  <2>3. LocatorsTyped'
    BY <1>3, <1>13, <2>1
  <2>. QED
    BY <1>2, <1>4, <1>13, <2>1, <2>2, <2>3 DEF SectionsTyped
<1>. QED
  BY <1>5, <1>6, <1>7, <1>8, <1>9, <1>10, <1>11, <1>12, <1>13 DEF Step

-----------------------------------------------------------------------------
\* The cuts.

LEMMA CutCount ==
    SectionsCut = IF status = "verified" THEN 7 ELSE PlaceIn(section) - 1
BY Places DEF SectionsCut, PlaceIn

LEMMA CutCountNext ==
    SectionsCut' = IF status' = "verified" THEN 7 ELSE PlaceIn(section') - 1
BY Places DEF SectionsCut, PlaceIn

\* Where the i-th section ends is known when it has been parsed, and stays.
LEMMA EndsStay ==
    ASSUME TypeOK, Raises \/ Advances \/ Returns, status # "verified",
           NEW i \in 0..SectionsCut
    PROVE  EndAt(i)' = EndAt(i)
<1>1. CASE Raises \/ Advances
  BY <1>1 DEF Raises, Advances, EndAt
<1>2. CASE Returns
  <2>1. section \in SectionNames /\ PlaceIn(section) \in 1..7
    BY Places DEF TypeOK
  <2>2. i < PlaceIn(section) /\ i \in 0..6
    BY <2>1, CutCount
  <2>3. CASE i = 0
    BY <2>3 DEF EndAt
  <2>4. CASE i \in 1..6
    <3>1. SectionOrder[i] \in SectionNames /\ SectionOrder[i] # section
      BY <2>2, <2>4, Places
    <3>2. PICK n \in 0..(Len(buf) - position) : Return(section, n)
      BY <1>2 DEF Returns
    <3>3. ends'[SectionOrder[i]] = ends[SectionOrder[i]]
      BY <3>1, <3>2 DEF Return, TypeOK
    <3>. QED
      BY <2>4, <3>3 DEF EndAt
  <2>. QED
    BY <2>2, <2>3, <2>4
<1>. QED
  BY <1>1, <1>2

\* A parser that returns makes the next cut where it leaves the cursor.
LEMMA ReturnCuts ==
    ASSUME TypeOK, NEW n \in 0..(Len(buf) - position), Return(section, n), status = "parsing"
    PROVE  /\ SectionsCut \in 0..6 /\ SectionsCut' = SectionsCut + 1
           /\ SectionsCut' = 7 <=> status' = "verified"
           /\ section' \in SectionNames
           /\ status' \in {"parsing", "verified"}
           /\ status' = "verified" => section' = "history"
           /\ status' = "parsing" => step' = "head"
           /\ position' = position + n
           /\ EndAt(SectionsCut)' = position'
<1>1. section \in SectionNames /\ PlaceIn(section) \in 1..7
      /\ SectionOrder[PlaceIn(section)] = section
  BY Places DEF TypeOK
<1>2. SectionsCut = PlaceIn(section) - 1
  BY CutCount
<1>3. position' = position + n /\ ends'[section] = position + n
  BY <1>1 DEF Return, Advance, TypeOK
<1>4. CASE section = "history"
  <2>1. status' = "verified" /\ section' = "history"
    BY <1>4 DEF Return
  <2>2. PlaceIn(section) = 7 /\ SectionOrder[7] = section
    BY <1>1, <1>4, PlacesAre
  <2>3. SectionsCut' = 7
    BY <2>1, CutCountNext
  <2>4. EndAt(SectionsCut)' = position'
    BY <1>3, <2>2, <2>3 DEF EndAt
  <2>. QED
    BY <1>1, <1>2, <1>3, <1>4, <2>1, <2>2, <2>3, <2>4
<1>5. CASE section # "history"
  <2>1. status' = "parsing" /\ section' = NextSection(section) /\ step' = "head"
    BY <1>5 DEF Return
  <2>2. section' \in SectionNames /\ PlaceIn(section') = PlaceIn(section) + 1
    BY <1>1, <1>5, <2>1, NextPlace
  <2>3. SectionsCut' = PlaceIn(section') - 1
    BY <2>1, CutCountNext
  <2>4. PlaceIn(section') \in 1..7
    BY <2>2, Places
  <2>5. SectionsCut' = PlaceIn(section)
    BY <1>1, <2>2, <2>3
  <2>6. EndAt(SectionsCut)' = position'
    BY <1>1, <1>3, <2>5 DEF EndAt
  <2>. QED
    BY <1>1, <1>2, <1>3, <2>1, <2>2, <2>4, <2>5, <2>6
<1>. QED
  BY <1>4, <1>5

\* A step that is not the return of a parser cuts nothing.
LEMMA OthersCutNothing ==
    ASSUME TypeOK, Raises \/ Advances
    PROVE  SectionsCut \in 0..6 /\ SectionsCut' = SectionsCut /\ section' = section
<1>1. section' = section /\ status # "verified" /\ status' # "verified"
  BY DEF Raises, Advances, ErrorKinds
<1>2. PlaceIn(section) \in 1..7
  BY Places DEF TypeOK
<1>. QED
  BY <1>1, <1>2, CutCount, CutCountNext

ParserTyped ==
    /\ buf \in ByteString
    /\ position \in 0..Len(buf)
    /\ status \in {"parsing", "verified"} \cup ErrorKinds
    /\ section \in SectionNames
    /\ step \in {"head", "entries", "locators"}
    /\ left \in 0..LeftLimit
    /\ ends \in [SectionNames -> 0..position]

LEMMA TypesAre == TypeOK <=> ParserTyped /\ SectionsTyped
BY DEF TypeOK, ParserTyped, SectionsTyped, LocatorsTyped, LeftLimit

LEMMA TypesNext == ParserTyped' /\ SectionsTyped' => TypeOK'
BY DEF TypeOK, ParserTyped, SectionsTyped, LocatorsTyped, LeftLimit

LEMMA ParserTypedKept ==
    ASSUME TypeOK, Raises \/ Advances \/ Returns
    PROVE  ParserTyped'
<1>1. ParserTyped
  BY TypesAre
<1>2. position \in Nat /\ Len(buf) \in Nat /\ position <= Len(buf)
  BY CursorKept DEF TypeOK
<1>3. CASE Raises
  <2>1. LeftLimit' = LeftLimit
    BY <1>3 DEF Raises, LeftLimit
  <2>. QED
    BY <1>1, <1>3, <2>1 DEF Raises, ParserTyped
<1>4. CASE Advances
  <2>1. LeftLimit' = LeftLimit
    BY <1>4 DEF Advances, LeftLimit
  <2>2. position' \in 0..Len(buf') /\ position <= position'
    BY <1>2, <1>4 DEF Advances
  <2>3. ends' \in [SectionNames -> 0..position']
    BY <1>1, <1>2, <1>4, <2>2 DEF Advances, ParserTyped
  <2>. QED
    BY <1>1, <1>4, <2>1, <2>2, <2>3 DEF Advances, ParserTyped
<1>5. CASE Returns
  <2>1. PICK n \in 0..(Len(buf) - position) : Return(section, n)
    BY <1>5 DEF Returns
  <2>2. /\ section' \in SectionNames /\ status' \in {"parsing", "verified"}
        /\ position' = position + n
    BY <1>5, <2>1, ReturnCuts DEF Returns
  <2>3. buf' = buf /\ ends' = [ends EXCEPT ![section] = position + n]
    BY <2>1 DEF Return, Advance
  <2>4. position' \in 0..Len(buf') /\ position <= position'
    BY <1>2, <2>1, <2>2, <2>3
  <2>5. ends' \in [SectionNames -> 0..position']
    <3>1. \A x \in 0..position : x \in 0..position'
      BY <1>2, <2>4
    <3>2. position + n \in 0..position'
      BY <1>2, <2>1, <2>2
    <3>. QED
      BY <1>1, <2>3, <3>1, <3>2 DEF ParserTyped
  <2>6. CASE section = "history"
    <3>1. UNCHANGED <<section, step, left>> /\ LeftLimit' = LeftLimit
      BY <2>1, <2>3, <2>6 DEF Return, LeftLimit
    <3>. QED
      BY <1>1, <2>2, <2>3, <2>4, <2>5, <3>1 DEF ParserTyped
  <2>7. CASE section # "history"
    <3>1. step' = "head" /\ left' = 0
      BY <2>1, <2>7 DEF Return
    <3>2. LeftLimit' \in Nat
      BY <1>2, <2>3 DEF LeftLimit
    <3>. QED
      BY <1>1, <2>2, <2>3, <2>4, <2>5, <3>1, <3>2 DEF ParserTyped
  <2>. QED
    BY <2>6, <2>7
<1>. QED
  BY <1>3, <1>4, <1>5
LEMMA EndAtTyped ==
    ASSUME TypeOK, NEW i \in 0..7
    PROVE  EndAt(i) \in 0..position
<1>1. position \in Nat /\ ends \in [SectionNames -> 0..position]
  BY CursorKept DEF TypeOK
<1>2. CASE i = 0
  BY <1>1, <1>2 DEF EndAt
<1>3. CASE i \in 1..7
  <2>1. SectionOrder[i] \in SectionNames
    BY <1>3, Places
  <2>. QED
    BY <1>1, <1>3, <2>1 DEF EndAt
<1>. QED
  BY <1>2, <1>3

LEMMA TiledKept ==
    ASSUME TypeOK, Tiled, Raises \/ Advances \/ Returns
    PROVE  Tiled'
<1> DEFINE Follows(i) == EndAt(i - 1) <= EndAt(i) /\ (EndAt(i - 1) = EndAt(i) => i \in {5, 6})
<1>1. position \in Nat /\ Len(buf) \in Nat /\ position <= Len(buf)
  BY CursorKept DEF TypeOK
<1>2. status = "parsing"
  BY ShapeKeepsFile
<1>3. PICK c \in 0..6 : c = SectionsCut
  <2>1. PlaceIn(section) \in 1..7
    BY Places DEF TypeOK
  <2>. QED
    BY <1>2, <2>1, CutCount
<1>4. /\ \A i \in 1..c : Follows(i)
      /\ EndAt(c) <= position
      /\ step = "head" <=> position = EndAt(c)
  BY <1>2, <1>3 DEF Tiled
<1>5. \A i \in 0..c : EndAt(i)' = EndAt(i)
  BY <1>2, <1>3, EndsStay
<1>6. \A i \in 1..c : Follows(i)'
  <2>1. \A i \in 1..c : i \in 0..c /\ i - 1 \in 0..c
    OBVIOUS
  <2>. QED
    BY <1>4, <1>5, <2>1
<1>7. EndAt(c) \in Nat /\ EndAt(c)' = EndAt(c)
  <2>1. c \in 0..7
    BY <1>3
  <2>2. EndAt(c) \in 0..position
    BY <2>1, EndAtTyped, Zenon
  <2>3. EndAt(c) \in Nat
    BY <1>1, <2>2
  <2>. QED
    BY <1>5, <2>3
<1> HIDE DEF Follows
<1>8. CASE Raises \/ Advances
  <2>1. SectionsCut' = c /\ section' = section
    BY <1>3, <1>8, OthersCutNothing
  <2>2. position <= position' /\ position' \in Nat
    BY <1>1, <1>8 DEF Raises, Advances
  <2>3. status' = "parsing" => position' # EndAt(c) /\ step' # "head"
    BY <1>1, <1>4, <1>7, <1>8, <2>2 DEF Raises, Advances, ErrorKinds
  <2>4. status' # "verified"
    BY <1>8 DEF Raises, Advances, ErrorKinds
  <2>5. EndAt(c)' <= position' /\ (status' = "parsing" => (step' = "head" <=> position' = EndAt(c)'))
    BY <1>1, <1>4, <1>7, <2>2, <2>3
  <2>. QED
    BY <1>6, <2>1, <2>4, <2>5 DEF Tiled, Follows
<1>9. CASE Returns
  <2>1. PICK n \in 0..(Len(buf) - position) :
            Return(section, n) /\ (step = "head" /\ n = 0 => Absent)
    BY <1>9 DEF Returns
  <2>2. /\ SectionsCut' = c + 1 /\ position' = position + n
        /\ status' = "verified" => section' = "history"
        /\ status' = "parsing" => step' = "head"
        /\ EndAt(SectionsCut)' = position'
    BY <1>2, <1>3, <2>1, ReturnCuts
  <2>3. EndAt(c + 1)' = position + n
    BY <2>2 DEF EndAt
  <2>4. Follows(c + 1)'
    <3>1. (c + 1) - 1 = c
      OBVIOUS
    <3>2. EndAt(c)' <= EndAt(c + 1)'
      BY <1>1, <1>4, <1>7, <2>1, <2>3
    <3>3. ASSUME EndAt(c)' = EndAt(c + 1)'
          PROVE  c + 1 \in {5, 6}
      <4>1. position = EndAt(c) /\ n = 0
        BY <1>1, <1>4, <1>7, <2>1, <2>3, <3>3
      <4>2. section \in {"ec_params", "dms_policy"}
        BY <1>4, <2>1, <4>1 DEF Absent
      <4>. QED
        BY <1>2, <1>3, <4>2, CutCount, PlacesAre
    <3>. QED
      BY <3>1, <3>2, <3>3 DEF Follows
  <2>5. \A i \in 1..(c + 1) : Follows(i)'
    BY <1>6, <2>4
  <2>6. EndAt(c + 1)' = position' /\ position' \in Nat
    BY <1>1, <2>1, <2>2, <2>3
  <2>. QED
    BY <2>2, <2>5, <2>6 DEF Tiled, Follows
<1>. QED
  BY <1>8, <1>9

LEMMA AbsentKept ==
    ASSUME TypeOK, Tiled, AbsentSpanNothing, Raises \/ Advances \/ Returns,
           section = "feature_flags" \/ UNCHANGED flags
    PROVE  AbsentSpanNothing'
<1>1. status = "parsing"
  BY ShapeKeepsFile
<1>2. PICK c \in 0..6 : c = SectionsCut
  <2>1. PlaceIn(section) \in 1..7
    BY Places DEF TypeOK
  <2>. QED
    BY <1>1, <2>1, CutCount
<1>3. section \in SectionNames /\ c = PlaceIn(section) - 1
  BY <1>1, <1>2, CutCount DEF TypeOK
<1>4. \A i \in 0..c : EndAt(i)' = EndAt(i)
  BY <1>1, <1>2, EndsStay
<1>5. section # "feature_flags" => HasFlag(EC_FLAG)' = HasFlag(EC_FLAG)
                                /\ HasFlag(DMS_FLAG)' = HasFlag(DMS_FLAG)
  BY DEF HasFlag
<1>6. section = "feature_flags" => c = 1
  BY <1>3, PlacesAre
<1>7. c >= 5 /\ ~HasFlag(EC_FLAG)' => EndAt(5)' = EndAt(4)'
  BY <1>2, <1>4, <1>5, <1>6 DEF AbsentSpanNothing
<1>8. c >= 6 /\ ~HasFlag(DMS_FLAG)' => EndAt(6)' = EndAt(5)'
  BY <1>2, <1>4, <1>5, <1>6 DEF AbsentSpanNothing
<1>9. CASE Raises \/ Advances
  <2>1. SectionsCut' = c /\ section' = section
    BY <1>2, <1>9, OthersCutNothing
  <2>2. status' = "parsing" => ~Absent
    BY <1>9 DEF Raises, Advances, ErrorKinds
  <2>3. status' = "parsing" => ~Absent'
    BY <1>5, <2>1, <2>2 DEF Absent
  <2>. QED
    BY <1>7, <1>8, <2>1, <2>3 DEF AbsentSpanNothing
<1>10. CASE Returns
  <2>1. PICK n \in 0..(Len(buf) - position) :
            Return(section, n) /\ (Absent => step = "head" /\ n = 0)
    BY <1>10 DEF Returns
  <2>2. /\ SectionsCut' = c + 1 /\ position' = position + n
        /\ status' = "parsing" => step' = "head"
        /\ EndAt(SectionsCut)' = position'
    BY <1>1, <1>2, <2>1, ReturnCuts
  <2>3. EndAt(c + 1)' = position + n /\ EndAt(c)' = EndAt(c)
    BY <1>4, <2>2 DEF EndAt
  <2>4. Absent => EndAt(c + 1)' = EndAt(c)'
    <3>1. step = "head" => position = EndAt(c)
      BY <1>1, <1>2 DEF Tiled
    <3>. QED
      BY <2>1, <2>3, <3>1, CursorKept
  <2>5. c = 4 /\ ~HasFlag(EC_FLAG)' => EndAt(5)' = EndAt(4)'
    <3>1. c = 4 => section = "ec_params"
      BY <1>3, PlacesAre, SectionNamesAre
    <3>. QED
      BY <1>5, <2>4, <3>1 DEF Absent
  <2>6. c = 5 /\ ~HasFlag(DMS_FLAG)' => EndAt(6)' = EndAt(5)'
    <3>1. c = 5 => section = "dms_policy"
      BY <1>3, PlacesAre, SectionNamesAre
    <3>. QED
      BY <1>5, <2>4, <3>1 DEF Absent
  <2>. QED
    BY <1>7, <1>8, <2>2, <2>5, <2>6 DEF AbsentSpanNothing
<1>. QED
  BY <1>9, <1>10

-----------------------------------------------------------------------------
\* The invariant holds.

LEMMA InitInv == Init => IInv
<1> SUFFICES ASSUME NEW b \in Buffers, Start(b)
             PROVE  IInv
  BY DEF Init
<1>1. buf \in ByteString /\ Len(buf) \in Nat
  BY BuffersAssumption DEF Start, ByteString
<1>2. /\ position = 0 /\ status = "parsing" /\ section = "header" /\ step = "head" /\ left = 0
      /\ ends = [s \in SectionNames |-> 0] /\ locators = <<>> /\ locators_left = 0
      /\ flags = <<>> /\ slab_index = <<>> /\ history = <<>>
  BY DEF Start
<1>3. SectionsCut = 0
  BY <1>2, CutCount, PlacesAre
<1>4. header \in ManifestHeaderType
  <2>1. 0 \in U16Values
    BY DEF U16Values
  <2>. QED
    BY <2>1 DEF Start, NoHeader, ManifestHeaderType
<1>5. /\ metadata_reference \in MetadataReferenceType /\ ec_params \in EcParamsType
      /\ dms_policy \in DmsPolicyType
  BY DEF Start, NoMetadataReference, NoEcParams, NoDmsPolicy, MetadataReferenceType, EcParamsType,
         DmsPolicyType, ByteString, U8Values
<1>6. TypeOK
  BY <1>1, <1>2, <1>4, <1>5, SectionNamesAre DEF TypeOK
<1>7. LocatorsOpen /\ CountFits /\ CountCheckedUpFront
  BY <1>2 DEF LocatorsOpen, CountFits, CountCheckedUpFront
<1>8. Tiled
  BY <1>2, <1>3 DEF Tiled, EndAt
<1>9. AbsentSpanNothing
  BY <1>2, <1>3 DEF AbsentSpanNothing
<1>. QED
  BY <1>6, <1>7, <1>8, <1>9 DEF IInv

LEMMA StepInv == IInv /\ [Next]_vars => IInv'
<1> SUFFICES ASSUME IInv, [Next]_vars
             PROVE  IInv'
  OBVIOUS
<1>1. CASE Step
  <2>1. TypeOK /\ Tiled /\ AbsentSpanNothing
    BY DEF IInv
  <2>2. /\ Raises \/ Advances \/ Returns
        /\ SectionsTyped' /\ LocatorsOpen' /\ CountFits'
        /\ section \in {"feature_flags", "ec_params"} /\ status' = "Truncated" => step = "head"
        /\ section = "feature_flags" \/ UNCHANGED flags
    BY <1>1, StepShape
  <2>3. TypeOK'
    BY <2>1, <2>2, ParserTypedKept, TypesNext
  <2>4. CountCheckedUpFront'
    <3>1. status' # "Truncated" \/ UNCHANGED <<section, step>>
      BY <2>1, <2>2, ReturnCuts DEF Raises, Advances, Returns
    <3>. QED
      BY <2>2, <3>1 DEF CountCheckedUpFront
  <2>5. Tiled' /\ AbsentSpanNothing'
    BY <2>1, <2>2, TiledKept, AbsentKept
  <2>. QED
    BY <2>2, <2>3, <2>4, <2>5 DEF IInv
<1>2. CASE UNCHANGED vars
  <2>1. UNCHANGED <<buf, position, status, section, step, left, ends, locators, locators_left,
                    header, flags, metadata_reference, slab_index, ec_params, dms_policy, history>>
    BY <1>2 DEF vars, parserVars, locatorVars
  <2>2. SectionsCut' = SectionsCut
    BY <2>1 DEF SectionsCut
  <2>3. HasFlag(EC_FLAG)' = HasFlag(EC_FLAG) /\ HasFlag(DMS_FLAG)' = HasFlag(DMS_FLAG)
    BY <2>1 DEF HasFlag
  <2>4. Absent' = Absent
    BY <2>1, <2>3 DEF Absent
  <2>5. TypeOK' /\ LocatorsOpen' /\ CountFits' /\ CountCheckedUpFront'
    BY <2>1 DEF IInv, TypeOK, LocatorsOpen, CountFits, CountCheckedUpFront, remaining_len
  <2>6. Tiled'
    BY <2>1, <2>2 DEF IInv, Tiled, EndAt
  <2>7. AbsentSpanNothing'
    BY <2>1, <2>2, <2>3, <2>4 DEF IInv, AbsentSpanNothing, EndAt
  <2>. QED
    BY <2>5, <2>6, <2>7 DEF IInv
<1>. QED
  BY <1>1, <1>2 DEF Next, Finished

LEMMA Invariance == Spec => []IInv
BY InitInv, StepInv, PTL DEF Spec

-----------------------------------------------------------------------------
\* What verify has parsed is of the types its dataclasses declare, the cursor
\* is in the file, every loop counter is one the code can have, and a section
\* ends before the cursor: for every file, every ceiling, every step.
THEOREM TypeCorrect == Spec => []TypeOK
<1>1. IInv => TypeOK
  BY DEF IInv
<1>. QED
  BY <1>1, Invariance, PTL

\* The counts of the flags and of the EC overrides are checked against the bytes
\* that remain before their loops, so that no turn of a loop runs out of bytes.
THEOREM LoopsNeverTruncate == Spec => []CountCheckedUpFront
<1>1. IInv => CountCheckedUpFront
  BY DEF IInv
<1>. QED
  BY <1>1, Invariance, PTL

-----------------------------------------------------------------------------
\* The sections are cut as SectionedFile promises.

Cuts == [i \in 1..SectionsCut |-> ends[SectionOrder[i]]]

LEMMA CutsAre ==
    ASSUME IInv
    PROVE  /\ SectionsCut \in 0..7
           /\ Cuts \in Seq(Nat)
           /\ Len(Cuts) = SectionsCut
           /\ \A i \in 1..SectionsCut : Cuts[i] = EndAt(i)
           /\ File!LastCut = EndAt(SectionsCut)
<1>1. SectionsCut \in 0..7
  <2>1. PlaceIn(section) \in 1..7
    BY Places DEF IInv, TypeOK
  <2>. QED
    BY <2>1, CutCount
<1>2. \A i \in 1..7 : ends[SectionOrder[i]] \in Nat
  <2>1. \A i \in 1..7 : EndAt(i) \in 0..position
    BY EndAtTyped DEF IInv
  <2>. QED
    BY <2>1 DEF EndAt
<1>3. Cuts \in Seq(Nat) /\ Len(Cuts) = SectionsCut
  <2>1. PICK n \in 0..7 : n = SectionsCut
    BY <1>1, Zenon
  <2>2. PICK f : f = Cuts
    OBVIOUS
  <2>3. f = [i \in 1..n |-> ends[SectionOrder[i]]]
    BY <2>1, <2>2 DEF Cuts
  <2>4. \A i \in 1..n : f[i] \in Nat
    <3> TAKE i \in 1..n
    <3>1. i \in 1..7
      BY <2>1
    <3>2. f[i] = ends[SectionOrder[i]]
      BY <2>3
    <3>. QED
      BY <1>2, <3>1, <3>2
  <2>5. n \in Nat /\ f \in [1..n -> Nat]
    BY <2>3, <2>4
  <2>6. f \in Seq(Nat) /\ Len(f) = n
    BY <2>5
  <2>. QED
    BY <2>1, <2>2, <2>6, Zenon
<1>4. \A i \in 1..SectionsCut : Cuts[i] = EndAt(i)
  BY <1>1 DEF Cuts, EndAt
<1>5. File!LastCut = EndAt(SectionsCut)
  <2>1. File!LastCut = IF Cuts = <<>> THEN 0 ELSE Cuts[Len(Cuts)]
    BY DEF File!LastCut, Cuts
  <2>2. Cuts = <<>> <=> SectionsCut = 0
    BY <1>1, <1>3
  <2>3. SectionsCut # 0 => Cuts[SectionsCut] = EndAt(SectionsCut)
    BY <1>1, <1>4
  <2>. QED
    BY <1>3, <2>1, <2>2, <2>3 DEF EndAt
<1>. QED
  BY <1>1, <1>3, <1>4, <1>5

LEMMA InitCuts == Init => File!Init
<1> SUFFICES ASSUME Init
             PROVE  File!Init
  OBVIOUS
<1>1. IInv /\ status = "parsing" /\ section = "header" /\ buf \in Buffers
  BY InitInv DEF Init, Start
<1>2. SectionsCut = 0
  BY <1>1, CutCount, PlacesAre
<1>3. Cuts = <<>>
  BY <1>1, <1>2, CutsAre
<1>. QED
  BY <1>1, <1>3 DEF File!Init, Cuts

LEMMA StepCuts == IInv /\ IInv' /\ [Next]_vars => [File!Next]_File!vars
<1> SUFFICES ASSUME IInv, IInv', [Next]_vars
             PROVE  [File!Next]_File!vars
  OBVIOUS
<1>1. TypeOK /\ Tiled
  BY DEF IInv
<1>2. CASE UNCHANGED vars
  <2>1. UNCHANGED <<buf, status, section, ends>>
    BY <1>2 DEF vars, parserVars
  <2>2. SectionsCut' = SectionsCut
    BY <2>1 DEF SectionsCut
  <2>3. UNCHANGED <<buf, Cuts, status>>
    BY <2>1, <2>2 DEF Cuts
  <2>. QED
    BY <2>3 DEF File!vars, Cuts
<1>3. CASE Raises \/ Advances
  <2>1. SectionsCut' = SectionsCut /\ UNCHANGED <<buf, ends>>
    BY <1>1, <1>3, OthersCutNothing DEF Raises, Advances
  <2>2. UNCHANGED <<buf, Cuts>>
    BY <2>1 DEF Cuts
  <2>3. CASE Raises
    BY <2>2, <2>3 DEF Raises, File!Next, File!Refuse, File!ErrorKinds, ErrorKinds, Cuts
  <2>4. CASE Advances
    <3>1. UNCHANGED <<buf, Cuts, status>>
      BY <2>2, <2>4 DEF Advances
    <3>. QED
      BY <3>1 DEF File!vars, Cuts
  <2>. QED
    BY <1>3, <2>3, <2>4
<1>4. CASE Returns
  <2>1. PICK n \in 0..(Len(buf) - position) : Return(section, n) /\ status = "parsing"
    BY <1>4 DEF Returns
  <2>2. PICK c \in 0..6 : /\ c = SectionsCut /\ SectionsCut' = c + 1
                          /\ c + 1 = 7 <=> status' = "verified"
                          /\ status' \in {"parsing", "verified"}
                          /\ position' = position + n
    BY <1>1, <2>1, ReturnCuts
  <2>3. /\ buf' = buf /\ position \in Nat /\ Len(buf) \in Nat
    BY <1>1, <2>1, CursorKept DEF Return, Advance
  <2>4. \A i \in 0..c : EndAt(i)' = EndAt(i)
    BY <1>1, <1>4, <2>1, <2>2, EndsStay
  <2> DEFINE end == EndAt(c + 1)'
  <2>5. end = position'
    BY <1>1, <2>1, <2>2, ReturnCuts DEF EndAt
  <2>6. EndAt(c)' <= end /\ (EndAt(c)' = end => c + 1 \in {5, 6})
    <3>1. \A i \in 1..(c + 1) : EndAt(i - 1)' <= EndAt(i)' /\ (EndAt(i - 1)' = EndAt(i)' => i \in {5, 6})
      BY <2>2 DEF IInv, Tiled
    <3>2. c + 1 \in 1..(c + 1) /\ (c + 1) - 1 = c
      OBVIOUS
    <3>. QED
      BY <3>1, <3>2
  <2>7. File!LastCut = EndAt(c)'
    BY <2>2, <2>4, CutsAre
  <2>8. end \in File!LastCut..Len(buf)
    <3>1. c \in 0..c /\ c \in 0..7
      OBVIOUS
    <3>2. EndAt(c)' = EndAt(c)
      BY <2>4, <3>1, Zenon
    <3>3. EndAt(c) \in 0..position
      BY <1>1, <3>1, EndAtTyped, Zenon
    <3>4. EndAt(c)' \in Nat
      BY <2>3, <3>2, <3>3
    <3> HIDE DEF end
    <3>. QED
      BY <2>1, <2>2, <2>3, <2>5, <2>6, <2>7, <3>4
  <2>9. Cuts' = Append(Cuts, end)
    <3>1. Cuts \in Seq(Nat) /\ Len(Cuts) = c /\ \A i \in 1..c : Cuts[i] = EndAt(i)
      BY <2>2, CutsAre
    <3>2. Cuts' = [i \in 1..(c + 1) |-> EndAt(i)']
      BY <2>2 DEF Cuts, EndAt
    <3>3. \A i \in 1..c : EndAt(i)' = Cuts[i]
      BY <2>4, <3>1
    <3> HIDE DEF end
    <3>. QED
      BY <3>1, <3>2, <3>3 DEF end
  <2> HIDE DEF end
  <2>10. File!Cut
    <3> DEFINE optional == {i \in DOMAIN SectionOrder : SectionOrder[i] \in {"ec_params", "dms_policy"}}
    <3>1. 5 \in optional /\ 6 \in optional
      BY DEF SectionOrder
    <3> HIDE DEF optional
    <3>2. end = File!LastCut => c + 1 \in optional
      BY <2>6, <2>7, <3>1
    <3>3. Len(Cuts) + 1 = c + 1
      BY <2>2, CutsAre
    <3>4. status' = IF c + 1 = 7 THEN "verified" ELSE "parsing"
      BY <2>2
    <3>5. /\ status = "parsing" /\ buf' = buf
          /\ \E e \in File!LastCut..Len(buf) :
               (e = File!LastCut => Len(Cuts) + 1 \in optional) /\ Cuts' = Append(Cuts, e)
          /\ status' = IF Len(Cuts) + 1 = 7 THEN "verified" ELSE "parsing"
      BY <2>1, <2>3, <2>8, <2>9, <3>2, <3>3, <3>4
    <3>. QED
      BY <3>5, Places, Zenon DEF File!Cut, Cuts, optional
  <2>. QED
    BY <2>10 DEF File!Next
<1>. QED
  BY <1>1, <1>2, <1>3, <1>4, StepShape DEF Next, Finished

\* Every behaviour of the seven parsers is one of SectionedFile: they cut the
\* file from its first byte on into sections without a gap or an overlap, and
\* verify it only when all seven are cut.
THEOREM CutsTheFile == Spec => ImplementsSectionedFile
<1>1. Spec => File!Init /\ [][File!Next]_File!vars
  BY InitCuts, StepCuts, Invariance, PTL DEF Spec
<1>. QED
  BY <1>1 DEF ImplementsSectionedFile, File!Spec

-----------------------------------------------------------------------------
\* The ManifestRoot stands for its bytes.

LEMMA HashInjective ==
    ASSUME NEW a, NEW b, hash_section(a) = hash_section(b)
    PROVE  a = b
<1>1. hash_section(a).blake3 = a /\ hash_section(b).blake3 = b
  BY DEF hash_section
<1>. QED
  BY <1>1

\* Two equal roots are of the same ten hashes.
LEMMA RootInjective ==
    ASSUME NEW h, NEW g, compute_merkle_root(h) = compute_merkle_root(g)
    PROVE  /\ h.format_header = g.format_header
           /\ h.feature_flags = g.feature_flags
           /\ h.metadata_reference = g.metadata_reference
           /\ h.slab_index = g.slab_index
           /\ h.ec_params = g.ec_params
           /\ h.dms_policy = g.dms_policy
           /\ h.history = g.history
<1> DEFINE Leaves(x) ==
             <<MERKLE_DOMAIN_SEPARATOR, x.metadata, x.format_header, x.feature_flags,
               x.metadata_reference, x.slab_index, x.crypto_params, x.ec_params, x.dms_policy,
               x.delta_linkage, x.history>>
<1>1. Leaves(h) = Leaves(g)
  <2>1. compute_merkle_root(h).blake3 = Leaves(h) /\ compute_merkle_root(g).blake3 = Leaves(g)
    BY DEF compute_merkle_root
  <2>. QED
    BY <2>1
<1>. QED
  BY <1>1

\* Two pieces of a file that follow each other make one.
LEMMA PiecesJoin ==
    ASSUME NEW b \in ByteString, NEW m \in Nat, NEW n \in Nat, m <= n, n <= Len(b)
    PROVE  SubSeq(b, 1, m) \o SubSeq(b, m + 1, n) = SubSeq(b, 1, n)
BY DEF ByteString

LEMMA SectionStarts ==
    ASSUME NEW i \in 1..7
    PROVE  SectionBytes(SectionOrder[i]) = SubSeq(buf, EndAt(i - 1) + 1, EndAt(i))
<1> DEFINE s == SectionOrder[i]
<1>1. s \in SectionNames /\ PlaceIn(s) = i
  BY Places
<1>2. SectionStart(s) = EndAt(i - 1)
  <2>1. CASE i = 1
    BY <2>1, <1>1 DEF SectionStart, EndAt, SectionOrder
  <2>2. CASE i # 1
    <3>1. s # "header"
      BY <1>1, <2>2, PlacesAre
    <3> DEFINE t == SectionOrder[i - 1]
    <3>2. t \in SectionNames /\ PlaceIn(t) = i - 1
      BY <2>2, Places
    <3>3. t # "history"
      BY <3>2, PlacesAre
    <3>4. NextSection(t) = s
      <4>1. NextSection(t) \in SectionNames /\ PlaceIn(NextSection(t)) = i
        BY <3>2, <3>3, NextPlace
      <4>. QED
        BY <1>1, <4>1, Places
    <3>5. \A u \in SectionNames \ {"history"} : NextSection(u) = s => u = t
      <4> SUFFICES ASSUME NEW u \in SectionNames \ {"history"}, NextSection(u) = s
                   PROVE  u = t
        OBVIOUS
      <4>1. PlaceIn(u) + 1 = i /\ PlaceIn(u) \in 1..7
        BY <1>1, NextPlace, Places
      <4>2. SectionOrder[PlaceIn(u)] = u
        BY Places
      <4>. QED
        BY <4>1, <4>2
    <3> HIDE DEF s, t
    <3>6. (CHOOSE u \in SectionNames \ {"history"} : NextSection(u) = s) = t
      BY <3>2, <3>3, <3>4, <3>5
    <3>7. SectionStart(s) = ends[t]
      BY <3>1, <3>6 DEF SectionStart
    <3>. QED
      BY <2>2, <3>7 DEF EndAt, t
  <2>. QED
    BY <2>1, <2>2
<1>3. ends[s] = EndAt(i)
  BY DEF EndAt
<1>. QED
  BY <1>2, <1>3 DEF SectionBytes

\* The sections of a verified manifest, one after another, are the file up to
\* the end of its history.
LEMMA SectionsJoin ==
    ASSUME IInv, status = "verified"
    PROVE  /\ ends["history"] \in 0..Len(buf)
           /\ SectionBytes("header") \o SectionBytes("feature_flags")
                \o SectionBytes("metadata_reference") \o SectionBytes("slab_index")
                \o SectionBytes("ec_params") \o SectionBytes("dms_policy")
                \o SectionBytes("history")
              = SubSeq(buf, 1, ends["history"])
           /\ ~HasFlag(EC_FLAG) => SectionBytes("ec_params") = <<>>
           /\ ~HasFlag(DMS_FLAG) => SectionBytes("dms_policy") = <<>>
           /\ SectionBytes("header") \in ByteString
           /\ SectionBytes("feature_flags") \in ByteString
           /\ SectionBytes("metadata_reference") \in ByteString
           /\ SectionBytes("slab_index") \in ByteString
<1>1. buf \in ByteString /\ Len(buf) \in Nat /\ position \in 0..Len(buf)
  BY CursorKept DEF IInv, TypeOK
<1>2. SectionsCut = 7
  BY CutCount
<1>3. \A i \in 0..7 : EndAt(i) \in Nat /\ EndAt(i) <= Len(buf)
  <2> TAKE i \in 0..7
  <2>1. EndAt(i) \in 0..position
    BY EndAtTyped, Zenon DEF IInv
  <2>2. PICK e : e = EndAt(i)
    OBVIOUS
  <2>3. e \in 0..position
    BY <2>1, <2>2
  <2>4. e \in Nat /\ e <= Len(buf)
    BY <1>1, <2>3
  <2>. QED
    BY <2>2, <2>4
<1>4. \A i \in 1..7 : EndAt(i - 1) <= EndAt(i)
  BY <1>2 DEF IInv, Tiled
<1> DEFINE Piece(i) == SubSeq(buf, EndAt(i - 1) + 1, EndAt(i))
           Upto(i) == SubSeq(buf, 1, EndAt(i))
<1>5. \A i \in 1..7 : SectionBytes(SectionOrder[i]) = Piece(i)
  BY SectionStarts
<1>6. ASSUME NEW i \in 1..7, NEW j \in 1..7, j = i + 1
      PROVE  Upto(i) \o Piece(j) = Upto(j)
  <2>1. j - 1 = i /\ i \in 0..7 /\ j \in 0..7
    BY <1>6
  <2>2. /\ EndAt(i) \in Nat /\ EndAt(j) \in Nat
        /\ EndAt(i) <= EndAt(j) /\ EndAt(j) <= Len(buf)
    BY <1>3, <1>4, <2>1
  <2>. QED
    BY <1>1, <2>1, <2>2, PiecesJoin
<1>7. Upto(1) = Piece(1)
  BY DEF EndAt
<1>8. EndAt(7) = ends["history"]
  BY DEF EndAt, SectionOrder
<1>9. /\ SectionBytes("header") = Piece(1) /\ SectionBytes("feature_flags") = Piece(2)
      /\ SectionBytes("metadata_reference") = Piece(3) /\ SectionBytes("slab_index") = Piece(4)
      /\ SectionBytes("ec_params") = Piece(5) /\ SectionBytes("dms_policy") = Piece(6)
      /\ SectionBytes("history") = Piece(7)
  <2>1. /\ SectionOrder[1] = "header" /\ SectionOrder[2] = "feature_flags"
        /\ SectionOrder[3] = "metadata_reference" /\ SectionOrder[4] = "slab_index"
        /\ SectionOrder[5] = "ec_params" /\ SectionOrder[6] = "dms_policy"
        /\ SectionOrder[7] = "history"
    BY DEF SectionOrder
  <2> HIDE DEF Piece
  <2>. QED
    BY <1>5, <2>1
<1>10. \A i \in 1..7 : EndAt(i - 1) = EndAt(i) => Piece(i) = <<>>
  <2> SUFFICES ASSUME NEW i \in 1..7, EndAt(i - 1) = EndAt(i)
               PROVE  SubSeq(buf, EndAt(i - 1) + 1, EndAt(i)) = <<>>
    OBVIOUS
  <2>1. EndAt(i) \in Nat
    BY <1>3
  <2>. QED
    BY <1>1, <2>1 DEF ByteString
<1>11. \A i \in 1..7 : Piece(i) \in ByteString
  <2> SUFFICES ASSUME NEW i \in 1..7
               PROVE  SubSeq(buf, EndAt(i - 1) + 1, EndAt(i)) \in ByteString
    OBVIOUS
  <2>1. /\ EndAt(i - 1) \in Nat /\ EndAt(i) \in Nat
        /\ EndAt(i - 1) <= EndAt(i) /\ EndAt(i) <= Len(buf)
    BY <1>3, <1>4
  <2>. QED
    BY <1>1, <2>1 DEF ByteString
<1> HIDE DEF Piece, Upto
<1>12. Piece(1) \o Piece(2) \o Piece(3) \o Piece(4) \o Piece(5) \o Piece(6) \o Piece(7) = Upto(7)
  <2>1. Upto(1) \o Piece(2) = Upto(2)
    BY <1>6
  <2>2. Upto(2) \o Piece(3) = Upto(3)
    BY <1>6
  <2>3. Upto(3) \o Piece(4) = Upto(4)
    BY <1>6
  <2>4. Upto(4) \o Piece(5) = Upto(5)
    BY <1>6
  <2>5. Upto(5) \o Piece(6) = Upto(6)
    BY <1>6
  <2>6. Upto(6) \o Piece(7) = Upto(7)
    BY <1>6
  <2>. QED
    BY <1>7, <2>1, <2>2, <2>3, <2>4, <2>5, <2>6
<1>13. /\ ~HasFlag(EC_FLAG) => Piece(5) = <<>>
       /\ ~HasFlag(DMS_FLAG) => Piece(6) = <<>>
  BY <1>2, <1>10 DEF IInv, AbsentSpanNothing
<1>14. ends["history"] \in 0..Len(buf)
  BY <1>1, <1>3, <1>8
<1>15. Upto(7) = SubSeq(buf, 1, ends["history"])
  BY <1>8 DEF Upto
<1>16. SectionBytes("header") \o SectionBytes("feature_flags")
         \o SectionBytes("metadata_reference") \o SectionBytes("slab_index")
         \o SectionBytes("ec_params") \o SectionBytes("dms_policy")
         \o SectionBytes("history")
       = Upto(7)
  BY <1>9, <1>12, Zenon
<1>17. /\ SectionBytes("header") \in ByteString
       /\ SectionBytes("feature_flags") \in ByteString
       /\ SectionBytes("metadata_reference") \in ByteString
       /\ SectionBytes("slab_index") \in ByteString
  <2>1. Piece(1) \in ByteString /\ Piece(2) \in ByteString
        /\ Piece(3) \in ByteString /\ Piece(4) \in ByteString
    BY <1>11
  <2>. QED
    BY <1>9, <2>1, Zenon
<1>18. /\ ~HasFlag(EC_FLAG) => SectionBytes("ec_params") = <<>>
       /\ ~HasFlag(DMS_FLAG) => SectionBytes("dms_policy") = <<>>
  BY <1>9, <1>13, Zenon
<1>. QED
  BY <1>14, <1>15, <1>16, <1>17, <1>18, Zenon

\* What hashes into the root of a verified manifest is what was read.
LEMMA RootFixesSections ==
    ASSUME IInv, status = "verified",
           NEW hashes, MerkleRoot = compute_merkle_root(hashes)
    PROVE  /\ hashes.format_header = hash_section(SectionBytes("header"))
           /\ hashes.feature_flags = hash_section(SectionBytes("feature_flags"))
           /\ hashes.metadata_reference = hash_section(SectionBytes("metadata_reference"))
           /\ hashes.slab_index = hash_section(SectionBytes("slab_index"))
           /\ hashes.ec_params = hash_section(SectionBytes("ec_params"))
           /\ hashes.dms_policy = hash_section(SectionBytes("dms_policy"))
           /\ hashes.history = hash_section(SectionBytes("history"))
<1> DEFINE read == [metadata |-> metadata_reference.metadata_hash,
         format_header |-> hash_section(SectionBytes("header")),
         feature_flags |-> hash_section(SectionBytes("feature_flags")),
         metadata_reference |-> hash_section(SectionBytes("metadata_reference")),
         slab_index |-> hash_section(SectionBytes("slab_index")),
         crypto_params |-> hash_empty_section,
         ec_params |-> IF HasFlag(EC_FLAG) THEN hash_section(SectionBytes("ec_params"))
                       ELSE hash_empty_section,
         dms_policy |-> IF HasFlag(DMS_FLAG) THEN hash_section(SectionBytes("dms_policy"))
                        ELSE hash_empty_section,
         delta_linkage |-> hash_empty_section,
         history |-> hash_section(SectionBytes("history"))]
<1>1. MerkleRoot = compute_merkle_root(read)
  BY DEF MerkleRoot
<1>2. /\ read.format_header = hash_section(SectionBytes("header"))
      /\ read.feature_flags = hash_section(SectionBytes("feature_flags"))
      /\ read.metadata_reference = hash_section(SectionBytes("metadata_reference"))
      /\ read.slab_index = hash_section(SectionBytes("slab_index"))
      /\ read.ec_params = hash_section(SectionBytes("ec_params"))
      /\ read.dms_policy = hash_section(SectionBytes("dms_policy"))
      /\ read.history = hash_section(SectionBytes("history"))
  BY SectionsJoin DEF hash_empty_section
<1> HIDE DEF read
<1>3. /\ read.format_header = hashes.format_header /\ read.feature_flags = hashes.feature_flags
      /\ read.metadata_reference = hashes.metadata_reference /\ read.slab_index = hashes.slab_index
      /\ read.ec_params = hashes.ec_params /\ read.dms_policy = hashes.dms_policy
      /\ read.history = hashes.history
  BY <1>1, RootInjective
<1>. QED
  BY <1>2, <1>3

\* A beginning of the file is a prefix of it.
LEMMA BeginningIsPrefix ==
    ASSUME NEW b \in ByteString, NEW n \in 0..Len(b)
    PROVE  IsPrefix(SubSeq(b, 1, n), b)
<1>1. Len(SubSeq(b, 1, n)) = n /\ n <= Len(b) /\ SubSeq(b, 1, n) \in ByteString
  BY DEF ByteString
<1>2. SubSeq(SubSeq(b, 1, n), 1, n) = SubSeq(b, 1, n)
  BY <1>1 DEF ByteString
<1>. QED
  BY <1>1, <1>2 DEF IsPrefix

LEMMA InvRoot == IInv => RootIdentifiesBytes
<1> SUFFICES ASSUME IInv, status = "verified", NEW s \in Sent, MerkleRoot = s.root
             PROVE  IsPrefix(s.bytes, buf)
  BY DEF RootIdentifiesBytes
<1> DEFINE H == SectionBytes("header")
           F == SectionBytes("feature_flags")
           R == SectionBytes("metadata_reference")
           X == SectionBytes("slab_index")
           E == SectionBytes("ec_params")
           D == SectionBytes("dms_policy")
           L == SectionBytes("history")
           cut == ends["history"]
<1>1. cut \in 0..Len(buf) /\ H \o F \o R \o X \o E \o D \o L = SubSeq(buf, 1, cut)
  BY SectionsJoin
<1>2. buf \in ByteString
  BY DEF IInv, TypeOK
<1>3. SUFFICES s.bytes = SubSeq(buf, 1, cut)
  BY <1>1, <1>2, BeginningIsPrefix
<1>4. CASE \E m \in FullManifests : s.bytes = EncodeManifest(m) /\ s.root = RootOf(m)
  <2>1. PICK m \in FullManifests : s.bytes = EncodeManifest(m) /\ s.root = RootOf(m)
    BY <1>4
  <2> DEFINE b == EncodedSections(m)
  <2>2. RootOf(m) = compute_merkle_root(
            [metadata |-> m.metadata_reference.metadata_hash,
             format_header |-> hash_section(b.header),
             feature_flags |-> hash_section(b.feature_flags),
             metadata_reference |-> hash_section(b.metadata_reference),
             slab_index |-> hash_section(b.slab_index),
             crypto_params |-> hash_empty_section,
             ec_params |-> hash_section(b.ec_params),
             dms_policy |-> hash_section(b.dms_policy),
             delta_linkage |-> hash_empty_section,
             history |-> hash_section(b.history)])
    BY DEF RootOf
  <2>3. s.bytes = b.header \o b.feature_flags \o b.metadata_reference \o b.slab_index
                    \o b.ec_params \o b.dms_policy \o b.history
    BY <2>1 DEF EncodeManifest
  <2> HIDE DEF b
  <2>4. /\ b.header = H /\ b.feature_flags = F /\ b.metadata_reference = R /\ b.slab_index = X
        /\ b.ec_params = E /\ b.dms_policy = D /\ b.history = L
    <3> DEFINE hashes ==
            [metadata |-> m.metadata_reference.metadata_hash,
             format_header |-> hash_section(b.header),
             feature_flags |-> hash_section(b.feature_flags),
             metadata_reference |-> hash_section(b.metadata_reference),
             slab_index |-> hash_section(b.slab_index),
             crypto_params |-> hash_empty_section,
             ec_params |-> hash_section(b.ec_params),
             dms_policy |-> hash_section(b.dms_policy),
             delta_linkage |-> hash_empty_section,
             history |-> hash_section(b.history)]
    <3>1. MerkleRoot = compute_merkle_root(hashes)
      BY <2>1, <2>2
    <3>2. /\ hashes.format_header = hash_section(b.header)
          /\ hashes.feature_flags = hash_section(b.feature_flags)
          /\ hashes.metadata_reference = hash_section(b.metadata_reference)
          /\ hashes.slab_index = hash_section(b.slab_index)
          /\ hashes.ec_params = hash_section(b.ec_params)
          /\ hashes.dms_policy = hash_section(b.dms_policy)
          /\ hashes.history = hash_section(b.history)
      OBVIOUS
    <3> HIDE DEF hashes
    <3>3. /\ hash_section(b.header) = hash_section(H)
          /\ hash_section(b.feature_flags) = hash_section(F)
          /\ hash_section(b.metadata_reference) = hash_section(R)
          /\ hash_section(b.slab_index) = hash_section(X)
          /\ hash_section(b.ec_params) = hash_section(E)
          /\ hash_section(b.dms_policy) = hash_section(D)
          /\ hash_section(b.history) = hash_section(L)
      BY <3>1, <3>2, RootFixesSections
    <3> HIDE DEF H, F, R, X, E, D, L
    <3>. QED
      BY <3>3, HashInjective
  <2> HIDE DEF H, F, R, X, E, D, L
  <2>. QED
    BY <1>1, <2>3, <2>4
<1>5. CASE \E spec \in Specs : s.bytes = Build(spec).bytes /\ s.root = Build(spec).merkle_root
  <2>1. PICK spec \in Specs : s.bytes = Build(spec).bytes /\ s.root = Build(spec).merkle_root
    BY <1>5
  <2> DEFINE reference == ReferenceOf(spec.metadata_reference)
             h == EncodeHeader(spec.header)
             f == EncodeFeatureFlags(spec.feature_flags)
             r == EncodeMetadataReference(reference)
             x == EncodeSlabIndex(spec.slab_index)
             l == EncodeHistory(spec.history)
             hashes ==
                 [metadata |-> reference.metadata_hash,
                  format_header |-> hash_section(h),
                  feature_flags |-> hash_section(f),
                  metadata_reference |-> hash_section(r),
                  slab_index |-> hash_section(x),
                  crypto_params |-> hash_empty_section,
                  ec_params |-> hash_empty_section,
                  dms_policy |-> hash_empty_section,
                  delta_linkage |-> hash_empty_section,
                  history |-> hash_section(l)]
  <2>2. s.bytes = h \o f \o r \o x \o l /\ MerkleRoot = compute_merkle_root(hashes)
    BY <2>1, Zenon DEF Build
  <2> HIDE DEF reference, h, f, r, x, l
  <2>3. /\ hashes.format_header = hash_section(h) /\ hashes.feature_flags = hash_section(f)
        /\ hashes.metadata_reference = hash_section(r) /\ hashes.slab_index = hash_section(x)
        /\ hashes.ec_params = hash_section(<<>>) /\ hashes.dms_policy = hash_section(<<>>)
        /\ hashes.history = hash_section(l)
    BY DEF hash_empty_section
  <2> HIDE DEF hashes
  <2>4. h = H /\ f = F /\ r = R /\ x = X /\ <<>> = E /\ <<>> = D /\ l = L
    <3>1. /\ hash_section(h) = hash_section(H)
          /\ hash_section(f) = hash_section(F)
          /\ hash_section(r) = hash_section(R)
          /\ hash_section(x) = hash_section(X)
          /\ hash_section(<<>>) = hash_section(E)
          /\ hash_section(<<>>) = hash_section(D)
          /\ hash_section(l) = hash_section(L)
      BY <2>2, <2>3, RootFixesSections
    <3> HIDE DEF H, F, R, X, E, D, L
    <3>. QED
      BY <3>1, HashInjective
  <2>5. H \in ByteString /\ F \in ByteString /\ R \in ByteString /\ X \in ByteString
    BY SectionsJoin
  <2> HIDE DEF H, F, R, X, E, D, L
  <2>6. H \o F \o R \o X \o <<>> \o <<>> \o L = H \o F \o R \o X \o L
    BY <2>5 DEF ByteString
  <2>. QED
    BY <1>1, <2>2, <2>4, <2>6
<1>. QED
  BY <1>4, <1>5 DEF Sent

\* A buffer that verifies with the root of a sent manifest starts with that
\* manifest, byte for byte, whatever manifests are sent and whatever arrives:
\* the sections the root is computed from cover every byte of it, and none can
\* move to another section.  That BLAKE3 does not collide is assumed by Merkle.
THEOREM RootNamesOneManifest == Spec => []RootIdentifiesBytes
<1>1. IInv => RootIdentifiesBytes
  BY InvRoot
<1>. QED
  BY <1>1, Invariance, PTL

-----------------------------------------------------------------------------
\* The bytes that have been read are at every step the encoding of what they have been
\* parsed as, and keep the rules of the sections they belong to.

\* A list of which n items are announced and these have been read.
Listed(n, items) == PackU32(n) \o FlattenSeq(items)

FlagBytes(list) == [i \in DOMAIN list |-> EncodeFlag(list[i])]
UriBytes(list) == [i \in DOMAIN list |-> EncodeBytes(list[i])]
InputBytes(list) == [i \in DOMAIN list |-> EncodeInput(list[i])]
SlabBytes(list) == [i \in DOMAIN list |-> EncodeSlabEntry(list[i])]
OverrideBytes(list) == [i \in DOMAIN list |-> EncodeOverride(list[i])]
ShareBytes(list) == [i \in DOMAIN list |-> EncodeShare(list[i])]
HistoryBytes(list) == [i \in DOMAIN list |-> EncodeHistoryEntry(list[i])]

\* EncodeList is the whole of a list.
LEMMA WholeLists ==
    /\ \A list : EncodeList(list, EncodeFlag) = Listed(Len(list), FlagBytes(list))
    /\ \A list : EncodeList(list, EncodeBytes) = Listed(Len(list), UriBytes(list))
    /\ \A list : EncodeList(list, EncodeInput) = Listed(Len(list), InputBytes(list))
    /\ \A list : EncodeList(list, EncodeSlabEntry) = Listed(Len(list), SlabBytes(list))
    /\ \A list : EncodeList(list, EncodeOverride) = Listed(Len(list), OverrideBytes(list))
    /\ \A list : EncodeList(list, EncodeShare) = Listed(Len(list), ShareBytes(list))
    /\ \A list : EncodeList(list, EncodeHistoryEntry) = Listed(Len(list), HistoryBytes(list))
BY Zenon DEF EncodeList, EncodeEach, Listed, FlagBytes, UriBytes, InputBytes, SlabBytes, OverrideBytes,
       ShareBytes, HistoryBytes

-----------------------------------------------------------------------------
\* Everything that is written is numbers.

LEMMA WidthsAreNumbers == U8Values \subseteq Nat /\ U16Values \subseteq Nat
<1> DEFINE limit == 256 * 256
<1>1. limit - 1 \in Nat
  OBVIOUS
<1>2. U16Values = 0..(limit - 1)
  BY DEF U16Values
<1> HIDE DEF limit
<1>. QED
  BY <1>1, <1>2 DEF U8Values

LEMMA BytesAreNumbers == \A b \in ByteString : b \in Seq(Nat) /\ Len(b) \in Nat
<1> SUFFICES ASSUME NEW b \in ByteString
             PROVE  b \in Seq(Nat) /\ Len(b) \in Nat
  OBVIOUS
<1>1. b \in Seq(U8Values) /\ U8Values \subseteq Nat
  BY WidthsAreNumbers DEF ByteString
<1>2. \A i \in 1..Len(b) : b[i] \in U8Values
  BY <1>1
<1>3. \A i \in 1..Len(b) : b[i] \in Nat
  BY <1>1, <1>2
<1>. QED
  BY <1>1, <1>3, SeqOfParts

\* pack writes bytes.
LEMMA PackTyped == \A n \in Nat : PackU32(n) \in Seq(Nat) /\ PackU16(n) \in Seq(Nat)
<1> SUFFICES ASSUME NEW n \in Nat
             PROVE  PackU32(n) \in Seq(Nat) /\ PackU16(n) \in Seq(Nat)
  OBVIOUS
<1>1. PackU32(n) \in Seq(Nat)
  BY PackedTyped DEF PackU32
<1>2. n % 256 \in Nat /\ n \div 256 \in Nat
  OBVIOUS
<1>. QED
  BY <1>1, <1>2 DEF PackU16

\* A list of numbers is numbers, and what each encoder writes of a value of its type.
LEMMA ListedTyped ==
    ASSUME NEW n \in Nat, NEW items \in Seq(Seq(Nat))
    PROVE  Listed(n, items) \in Seq(Nat) /\ FlattenSeq(items) \in Seq(Nat) /\ PackU32(n) \in Seq(Nat)
BY FlattenTyped, PackTyped, OneAfterTheOther DEF Listed

LEMMA HeaderTyped == \A h \in ManifestHeaderType : EncodeHeader(h) \in Seq(Nat)
<1> SUFFICES ASSUME NEW h \in ManifestHeaderType
             PROVE  EncodeHeader(h) \in Seq(Nat)
  OBVIOUS
<1>1. h.drop_store_version \in Nat /\ h.metadata_version \in Nat /\ h.manifest_version \in Nat
  BY WidthsAreNumbers DEF ManifestHeaderType
<1>2. <<76, 77, 70, 83>> \in Seq(Nat) /\ <<0, 0, 0, 0, 0, 0>> \in Seq(Nat)
  OBVIOUS
<1>. QED
  BY <1>1, <1>2, PackTyped, OneAfterTheOther, Zenon DEF EncodeHeader

LEMMA FlagTyped == \A f \in FlagType : EncodeFlag(f) \in Seq(Nat)
<1> SUFFICES ASSUME NEW f \in FlagType
             PROVE  EncodeFlag(f) \in Seq(Nat)
  OBVIOUS
<1>1. f.flag_id \in Nat
  BY WidthsAreNumbers DEF FlagType
<1>2. <<IF f.required THEN 1 ELSE 0>> \in Seq(Nat)
  OBVIOUS
<1>. QED
  BY <1>1, <1>2, PackTyped, OneAfterTheOther, Zenon DEF EncodeFlag

LEMMA BytesTyped == \A b \in ByteString : EncodeBytes(b) \in Seq(Nat)
BY BytesAreNumbers, PackTyped, OneAfterTheOther, Zenon DEF EncodeBytes

LEMMA UrisTyped == \A list \in Seq(ByteString) : UriBytes(list) \in Seq(Seq(Nat))
<1> SUFFICES ASSUME NEW list \in Seq(ByteString)
             PROVE  UriBytes(list) \in Seq(Seq(Nat))
  OBVIOUS
<1>1. \A i \in 1..Len(list) : list[i] \in ByteString
  OBVIOUS
<1>2. DOMAIN list = 1..Len(list) /\ Len(list) \in Nat
  OBVIOUS
<1>. QED
  BY <1>1, <1>2, BytesTyped DEF UriBytes

LEMMA SlabEntryTyped == \A e \in SlabEntryType : EncodeSlabEntry(e) \in Seq(Nat)
<1> SUFFICES ASSUME NEW e \in SlabEntryType
             PROVE  EncodeSlabEntry(e) \in Seq(Nat)
  OBVIOUS
<1>1. e.slab_id \in Seq(Nat) /\ e.locators \in Seq(ByteString) /\ Len(e.locators) \in Nat
  BY BytesAreNumbers DEF SlabEntryType
<1>2. Listed(Len(e.locators), UriBytes(e.locators)) \in Seq(Nat)
  BY <1>1, UrisTyped, ListedTyped
<1>. QED
  BY <1>1, <1>2, WholeLists, OneAfterTheOther DEF EncodeSlabEntry

OverrideType == [slab_id : ByteString, k : U8Values, m : U8Values]
ShareType == [custodian_id : ByteString, share_data : ByteString]

LEMMA OverrideTyped == \A o \in OverrideType : EncodeOverride(o) \in Seq(Nat)
<1> SUFFICES ASSUME NEW o \in OverrideType
             PROVE  EncodeOverride(o) \in Seq(Nat)
  OBVIOUS
<1>1. o.slab_id \in Seq(Nat) /\ o.k \in Nat /\ o.m \in Nat
  BY BytesAreNumbers, WidthsAreNumbers DEF OverrideType
<1>2. <<o.k, o.m>> \in Seq(Nat)
  BY <1>1
<1>. QED
  BY <1>1, <1>2, OneAfterTheOther DEF EncodeOverride

LEMMA ShareTyped == \A s \in ShareType : EncodeShare(s) \in Seq(Nat)
BY BytesTyped, OneAfterTheOther DEF ShareType, EncodeShare

LEMMA HistoryEntryTyped == \A e \in HistoryEntryType : EncodeHistoryEntry(e) \in Seq(Nat)
<1> SUFFICES ASSUME NEW e \in HistoryEntryType
             PROVE  EncodeHistoryEntry(e) \in Seq(Nat)
  OBVIOUS
<1>1. /\ e.op \in Nat /\ e.timestamp_ns \in Seq(Nat) /\ e.inputs \in Seq(ByteString)
      /\ e.params \in ByteString /\ Len(e.inputs) \in Nat
  BY BytesAreNumbers DEF HistoryEntryType, HistoryOps, BUILD
<1>2. InputBytes(e.inputs) \in Seq(Seq(Nat))
  <2>1. \A i \in 1..Len(e.inputs) : e.inputs[i] \in ByteString /\ EncodeInput(e.inputs[i]) \in Seq(Nat)
    BY <1>1, BytesAreNumbers DEF EncodeInput
  <2>2. DOMAIN e.inputs = 1..Len(e.inputs)
    BY <1>1
  <2>. QED
    BY <1>1, <2>1, <2>2 DEF InputBytes
<1>3. Listed(Len(e.inputs), InputBytes(e.inputs)) \in Seq(Nat)
  BY <1>1, <1>2, ListedTyped
<1>4. <<e.op>> \in Seq(Nat)
  BY <1>1
<1>. QED
  BY <1>1, <1>3, <1>4, WholeLists, BytesTyped, OneAfterTheOther, Zenon DEF EncodeHistoryEntry

LEMMA FlagsTyped == \A list \in Seq(FlagType) : FlagBytes(list) \in Seq(Seq(Nat))
<1> SUFFICES ASSUME NEW list \in Seq(FlagType)
             PROVE  FlagBytes(list) \in Seq(Seq(Nat))
  OBVIOUS
<1>1. \A i \in 1..Len(list) : list[i] \in FlagType
  OBVIOUS
<1>2. DOMAIN list = 1..Len(list) /\ Len(list) \in Nat
  OBVIOUS
<1>. QED
  BY <1>1, <1>2, FlagTyped DEF FlagBytes

LEMMA SlabsTyped == \A list \in Seq(SlabEntryType) : SlabBytes(list) \in Seq(Seq(Nat))
<1> SUFFICES ASSUME NEW list \in Seq(SlabEntryType)
             PROVE  SlabBytes(list) \in Seq(Seq(Nat))
  OBVIOUS
<1>1. \A i \in 1..Len(list) : list[i] \in SlabEntryType
  OBVIOUS
<1>2. DOMAIN list = 1..Len(list) /\ Len(list) \in Nat
  OBVIOUS
<1>. QED
  BY <1>1, <1>2, SlabEntryTyped DEF SlabBytes

LEMMA OverridesTyped == \A list \in Seq(OverrideType) : OverrideBytes(list) \in Seq(Seq(Nat))
<1> SUFFICES ASSUME NEW list \in Seq(OverrideType)
             PROVE  OverrideBytes(list) \in Seq(Seq(Nat))
  OBVIOUS
<1>1. \A i \in 1..Len(list) : list[i] \in OverrideType
  OBVIOUS
<1>2. DOMAIN list = 1..Len(list) /\ Len(list) \in Nat
  OBVIOUS
<1>. QED
  BY <1>1, <1>2, OverrideTyped DEF OverrideBytes

LEMMA SharesTyped == \A list \in Seq(ShareType) : ShareBytes(list) \in Seq(Seq(Nat))
<1> SUFFICES ASSUME NEW list \in Seq(ShareType)
             PROVE  ShareBytes(list) \in Seq(Seq(Nat))
  OBVIOUS
<1>1. \A i \in 1..Len(list) : list[i] \in ShareType
  OBVIOUS
<1>2. DOMAIN list = 1..Len(list) /\ Len(list) \in Nat
  OBVIOUS
<1>. QED
  BY <1>1, <1>2, ShareTyped DEF ShareBytes

LEMMA EntriesTyped == \A list \in Seq(HistoryEntryType) : HistoryBytes(list) \in Seq(Seq(Nat))
<1> SUFFICES ASSUME NEW list \in Seq(HistoryEntryType)
             PROVE  HistoryBytes(list) \in Seq(Seq(Nat))
  OBVIOUS
<1>1. \A i \in 1..Len(list) : list[i] \in HistoryEntryType
  OBVIOUS
<1>2. DOMAIN list = 1..Len(list) /\ Len(list) \in Nat
  OBVIOUS
<1>. QED
  BY <1>1, <1>2, HistoryEntryTyped DEF HistoryBytes

-----------------------------------------------------------------------------
\* A list with one item more is its encoding more.

OneMore(items, longer, item) ==
    /\ items \in Seq(Seq(Nat)) /\ FlattenSeq(items) \in Seq(Nat) /\ item \in Seq(Nat)
    /\ FlattenSeq(longer) = FlattenSeq(items) \o item

LEMMA Longer ==
    ASSUME NEW items \in Seq(Seq(Nat)), NEW item \in Seq(Nat)
    PROVE  OneMore(items, Append(items, item), item)
BY FlattenTyped, FlattenAppend DEF OneMore

\* One item more, for each of the six lists.
LEMMA FlagMore ==
    ASSUME NEW list \in Seq(FlagType), NEW x \in FlagType
    PROVE  OneMore(FlagBytes(list), FlagBytes(Append(list, x)), EncodeFlag(x))
<1>1. \A y \in FlagType : EncodeFlag(y) \in Seq(Nat)
  BY FlagTyped
<1>3. FlagBytes(list) \in Seq(Seq(Nat))
  BY FlagsTyped
<1>4. FlagBytes(Append(list, x)) = Append(FlagBytes(list), EncodeFlag(x))
  BY <1>1, <1>3 DEF FlagBytes
<1>. QED
  BY <1>1, <1>3, <1>4, Longer

LEMMA UriMore ==
    ASSUME NEW list \in Seq(ByteString), NEW x \in ByteString
    PROVE  OneMore(UriBytes(list), UriBytes(Append(list, x)), EncodeBytes(x))
<1>1. \A y \in ByteString : EncodeBytes(y) \in Seq(Nat)
  BY BytesTyped
<1>3. UriBytes(list) \in Seq(Seq(Nat))
  BY UrisTyped
<1>4. UriBytes(Append(list, x)) = Append(UriBytes(list), EncodeBytes(x))
  BY <1>1, <1>3 DEF UriBytes
<1>. QED
  BY <1>1, <1>3, <1>4, Longer

LEMMA SlabMore ==
    ASSUME NEW list \in Seq(SlabEntryType), NEW x \in SlabEntryType
    PROVE  OneMore(SlabBytes(list), SlabBytes(Append(list, x)), EncodeSlabEntry(x))
<1>1. \A y \in SlabEntryType : EncodeSlabEntry(y) \in Seq(Nat)
  BY SlabEntryTyped
<1>3. SlabBytes(list) \in Seq(Seq(Nat))
  BY SlabsTyped
<1>4. SlabBytes(Append(list, x)) = Append(SlabBytes(list), EncodeSlabEntry(x))
  BY <1>1, <1>3 DEF SlabBytes
<1>. QED
  BY <1>1, <1>3, <1>4, Longer

LEMMA OverrideMore ==
    ASSUME NEW list \in Seq(OverrideType), NEW x \in OverrideType
    PROVE  OneMore(OverrideBytes(list), OverrideBytes(Append(list, x)), EncodeOverride(x))
<1>1. \A y \in OverrideType : EncodeOverride(y) \in Seq(Nat)
  BY OverrideTyped
<1>3. OverrideBytes(list) \in Seq(Seq(Nat))
  BY OverridesTyped
<1>4. OverrideBytes(Append(list, x)) = Append(OverrideBytes(list), EncodeOverride(x))
  BY <1>1, <1>3 DEF OverrideBytes
<1>. QED
  BY <1>1, <1>3, <1>4, Longer

LEMMA ShareMore ==
    ASSUME NEW list \in Seq(ShareType), NEW x \in ShareType
    PROVE  OneMore(ShareBytes(list), ShareBytes(Append(list, x)), EncodeShare(x))
<1>1. \A y \in ShareType : EncodeShare(y) \in Seq(Nat)
  BY ShareTyped
<1>3. ShareBytes(list) \in Seq(Seq(Nat))
  BY SharesTyped
<1>4. ShareBytes(Append(list, x)) = Append(ShareBytes(list), EncodeShare(x))
  BY <1>1, <1>3 DEF ShareBytes
<1>. QED
  BY <1>1, <1>3, <1>4, Longer

LEMMA EntryMore ==
    ASSUME NEW list \in Seq(HistoryEntryType), NEW x \in HistoryEntryType
    PROVE  OneMore(HistoryBytes(list), HistoryBytes(Append(list, x)), EncodeHistoryEntry(x))
<1>1. \A y \in HistoryEntryType : EncodeHistoryEntry(y) \in Seq(Nat)
  BY HistoryEntryTyped
<1>3. HistoryBytes(list) \in Seq(Seq(Nat))
  BY EntriesTyped
<1>4. HistoryBytes(Append(list, x)) = Append(HistoryBytes(list), EncodeHistoryEntry(x))
  BY <1>1, <1>3 DEF HistoryBytes
<1>. QED
  BY <1>1, <1>3, <1>4, Longer

\* A list of nothing.
LEMMA NoBytes ==
    /\ FlagBytes(<<>>) = <<>> /\ UriBytes(<<>>) = <<>> /\ SlabBytes(<<>>) = <<>>
    /\ OverrideBytes(<<>>) = <<>> /\ ShareBytes(<<>>) = <<>> /\ HistoryBytes(<<>>) = <<>>
    /\ \A n : Listed(n, <<>>) = PackU32(n) \o <<>>
<1>1. FlagBytes(<<>>) = <<>> /\ UriBytes(<<>>) = <<>> /\ SlabBytes(<<>>) = <<>>
  BY DEF FlagBytes, UriBytes, SlabBytes
<1>2. OverrideBytes(<<>>) = <<>> /\ ShareBytes(<<>>) = <<>> /\ HistoryBytes(<<>>) = <<>>
  BY DEF OverrideBytes, ShareBytes, HistoryBytes
<1>3. \A n : Listed(n, <<>>) = PackU32(n) \o <<>>
  BY FlattenEmpty, Zenon DEF Listed
<1>. QED
  BY <1>1, <1>2, <1>3

-----------------------------------------------------------------------------
\* How what has been read grows.

LEMMA GroupedAfter ==
    ASSUME NEW x \in Seq(Nat)
    PROVE  \A y, z \in Seq(Nat) : (x \o y) \o z = x \o (y \o z)
BY GroupedAtWill, Zenon

\* The buffer is a file verify is given.
FileOK == CursorOK /\ Len(buf) < TOO_LARGE

\* The types of what the reads use.
LEMMA FileNumbers ==
    ASSUME FileOK
    PROVE  CursorOK /\ position \in Nat /\ Len(buf) \in Nat /\ remaining_len = Len(buf) - position
BY DEF FileOK, CursorOK, remaining_len

LEMMA Grown ==
    ASSUME CursorOK, NEW m \in Nat, NEW n \in Nat, NEW k \in Nat, k = m + n, position + k <= Len(buf)
    PROVE  Bytes(0, m) \o Bytes(m, n) = Bytes(0, k)
<1>1. position \in Nat /\ Len(buf) \in Nat
  BY DEF CursorOK
<1>2. position + m + n <= Len(buf)
  BY <1>1
<1>. QED
  BY <1>2, BytesGrow

\* The fixed parts of the items.
LEMMA FixedParts ==
    ASSUME CursorOK
    PROVE  /\ position + 3 <= Len(buf) => Bytes(0, 2) \o Bytes(2, 1) = Bytes(0, 3)
           /\ position + 5 <= Len(buf) => Bytes(0, 1) \o Bytes(1, 4) = Bytes(0, 5)
           /\ position + 5 <= Len(buf) => Bytes(0, 3) \o Bytes(3, 2) = Bytes(0, 5)
           /\ position + 6 <= Len(buf) => Bytes(0, 4) \o Bytes(4, 2) = Bytes(0, 6)
           /\ position + 8 <= Len(buf) => Bytes(0, 4) \o Bytes(4, 4) = Bytes(0, 8)
           /\ position + 8 <= Len(buf) => Bytes(0, 6) \o Bytes(6, 2) = Bytes(0, 8)
           /\ position + 9 <= Len(buf) => Bytes(0, 1) \o Bytes(1, 8) = Bytes(0, 9)
           /\ position + 9 <= Len(buf) => Bytes(0, 5) \o Bytes(5, 4) = Bytes(0, 9)
           /\ position + 10 <= Len(buf) => Bytes(0, 8) \o Bytes(8, 2) = Bytes(0, 10)
           /\ position + 13 <= Len(buf) => Bytes(0, 9) \o Bytes(9, 4) = Bytes(0, 13)
           /\ position + 16 <= Len(buf) => Bytes(0, 10) \o Bytes(10, 6) = Bytes(0, 16)
           /\ position + 33 <= Len(buf) => Bytes(0, 1) \o Bytes(1, 32) = Bytes(0, 33)
           /\ position + 37 <= Len(buf) => Bytes(0, 33) \o Bytes(33, 4) = Bytes(0, 37)
           /\ position + 42 <= Len(buf) => Bytes(0, 40) \o Bytes(40, 2) = Bytes(0, 42)
           /\ position + 44 <= Len(buf) => Bytes(0, 40) \o Bytes(40, 4) = Bytes(0, 44)
<1> DEFINE Adjacent(m, n, k) == position + k <= Len(buf) => Bytes(0, m) \o Bytes(m, n) = Bytes(0, k)
<1>1. \A m, n, k \in Nat : k = m + n => Adjacent(m, n, k)
  BY Grown
<1> HIDE DEF Adjacent
<1>2. Adjacent(2, 1, 3)
  BY <1>1
<1>3. Adjacent(1, 4, 5)
  BY <1>1
<1>4. Adjacent(3, 2, 5)
  BY <1>1
<1>5. Adjacent(4, 2, 6)
  BY <1>1
<1>6. Adjacent(4, 4, 8)
  BY <1>1
<1>7. Adjacent(6, 2, 8)
  BY <1>1
<1>8. Adjacent(1, 8, 9)
  BY <1>1
<1>9. Adjacent(5, 4, 9)
  BY <1>1
<1>10. Adjacent(8, 2, 10)
  BY <1>1
<1>11. Adjacent(9, 4, 13)
  BY <1>1
<1>12. Adjacent(10, 6, 16)
  BY <1>1
<1>13. Adjacent(1, 32, 33)
  BY <1>1
<1>14. Adjacent(33, 4, 37)
  BY <1>1
<1>15. Adjacent(40, 2, 42)
  BY <1>1
<1>16. Adjacent(40, 4, 44)
  BY <1>1
<1>. QED
  BY <1>2, <1>3, <1>4, <1>5, <1>6, <1>7, <1>8, <1>9, <1>10, <1>11, <1>12, <1>13, <1>14, <1>15, <1>16 DEF Adjacent

\* A count read by read_u32, and a u16, packed again.
LEMMA CountAgain ==
    ASSUME CursorOK, NEW o \in Nat, position + o + 4 <= Len(buf), U32(o) < TOO_LARGE
    PROVE  PackU32(U32(o)) = Bytes(o, 4)
BY U32Again DEF PackU32

LEMMA SmallCount ==
    ASSUME FileOK, NEW o \in Nat, U32(o) <= Len(buf)
    PROVE  U32(o) \in Nat /\ U32(o) < TOO_LARGE
<1>1. CursorOK /\ Len(buf) \in Nat /\ Len(buf) < TOO_LARGE /\ TOO_LARGE \in Nat
  BY FileNumbers DEF FileOK, TOO_LARGE
<1>2. U32(o) \in Nat
  BY <1>1, U32Range
<1>. QED
  BY <1>1, <1>2

LEMMA ShortAgain ==
    ASSUME CursorOK, NEW o \in Nat, position + o + 2 <= Len(buf)
    PROVE  PackU16(U16(o)) = Bytes(o, 2)
BY U16Again DEF PackU16

\* A length and the bytes it announces, written again.
LEMMA BlobAgain ==
    ASSUME FileOK, NEW o \in Nat, U32(o) \in Nat, position + (o + 4) + U32(o) <= Len(buf)
    PROVE  /\ Bytes(o + 4, U32(o)) \in ByteString
           /\ Len(Bytes(o + 4, U32(o))) = U32(o)
           /\ EncodeBytes(Bytes(o + 4, U32(o))) = Bytes(o, 4 + U32(o))
<1> DEFINE n == U32(o)
           b == Bytes(o + 4, n)
<1>1. /\ CursorOK /\ position \in Nat /\ Len(buf) \in Nat /\ n \in Nat /\ o + 4 \in Nat
      /\ Len(buf) < TOO_LARGE /\ TOO_LARGE \in Nat
  BY FileNumbers DEF FileOK, TOO_LARGE
<1>2. position + (o + 4) + n <= Len(buf)
  OBVIOUS
<1>3. PackU32(n) = Bytes(o, 4)
  <2>1. position + o + 4 <= Len(buf) /\ n < TOO_LARGE
    BY <1>1, <1>2
  <2>. QED
    BY <1>1, <2>1, CountAgain
<1> HIDE DEF n
<1>4. b \in Seq(U8Values) /\ Len(b) = n
  BY <1>1, <1>2, BytesRead
<1>5. Bytes(o, 4) \o b = Bytes(o, 4 + n)
  <2>1. position + o + 4 + n <= Len(buf) /\ 4 \in Nat
    BY <1>1, <1>2
  <2>. QED
    BY <1>1, <2>1, BytesJoin, Zenon
<1> HIDE DEF b
<1>6. EncodeBytes(b) = PackU32(Len(b)) \o b
  BY DEF EncodeBytes
<1>7. EncodeBytes(b) = Bytes(o, 4 + n)
  BY <1>3, <1>4, <1>5, <1>6
<1>. QED
  BY <1>4, <1>7 DEF n, b, ByteString

\* The first bytes of an item, one by one.
LEMMA FirstBytes ==
    ASSUME CursorOK, position + 4 <= Len(buf)
    PROVE  /\ <<U8(0), U8(1), U8(2)>> = Bytes(0, 3)
           /\ <<U8(0), U8(1), U8(2), U8(3)>> = Bytes(0, 4)
<1> DEFINE s == Bytes(0, 3)
           t == Bytes(0, 4)
<1>1. position \in Nat /\ Len(buf) \in Nat
  BY DEF CursorOK
<1>2. s \in Seq(U8Values) /\ Len(s) = 3 /\ t \in Seq(U8Values) /\ Len(t) = 4
  <2>1. /\ 0 \in Nat /\ 3 \in Nat /\ 4 \in Nat
        /\ position + 0 + 3 <= Len(buf) /\ position + 0 + 4 <= Len(buf)
    BY <1>1
  <2>. QED
    BY <2>1, BytesRead, Zenon
<1>3. ASSUME NEW j \in 1..3
      PROVE  s[j] = U8(j - 1)
  <2>1. s[j] = U8(0 + j - 1)
    BY <1>1, ByteOf
  <2>. QED
    BY <2>1
<1>4. ASSUME NEW j \in 1..4
      PROVE  t[j] = U8(j - 1)
  <2>1. t[j] = U8(0 + j - 1)
    BY <1>1, ByteOf
  <2>. QED
    BY <2>1
<1> HIDE DEF s, t
<1>5. s = <<s[1], s[2], s[3]>> /\ t = <<t[1], t[2], t[3], t[4]>>
  BY <1>2
<1>. QED
  BY <1>3, <1>4, <1>5 DEF s, t

-----------------------------------------------------------------------------
\* The heads, written again.

\* The head of the feature flags, the slab index and the history.
LEMMA PlainHeadAgain ==
    ASSUME FileOK, position + 5 <= Len(buf), U8(0) = 1, U32(1) <= Len(buf)
    PROVE  Bytes(0, 5) = <<1>> \o PackU32(U32(1)) /\ U32(1) \in Nat
<1>1. CursorOK /\ position \in Nat /\ Len(buf) \in Nat /\ Len(buf) < TOO_LARGE
  BY FileNumbers DEF FileOK
<1>2. U32(1) \in Nat /\ U32(1) < TOO_LARGE
  <2>1. 1 \in Nat
    OBVIOUS
  <2>. QED
    BY <2>1, SmallCount, Zenon
<1>3. <<1>> = Bytes(0, 1)
  BY <1>1, ByteAgain
<1>4. PackU32(U32(1)) = Bytes(1, 4)
  BY <1>1, <1>2, CountAgain
<1>5. Bytes(0, 1) \o Bytes(1, 4) = Bytes(0, 5)
  BY <1>1, FixedParts
<1>. QED
  BY <1>2, <1>3, <1>4, <1>5, Zenon

\* The head of the metadata reference, of a slab, and of the EC and DMS sections.
LEMMA ReferenceHeadAgain ==
    ASSUME FileOK, position + 37 <= Len(buf), U8(0) = 1, U32(33) <= Len(buf)
    PROVE  Bytes(0, 37) = (<<1>> \o Bytes(1, 32)) \o PackU32(U32(33)) /\ U32(33) \in Nat
<1>1. CursorOK /\ position \in Nat /\ Len(buf) \in Nat /\ Len(buf) < TOO_LARGE
  BY FileNumbers DEF FileOK
<1>2. U32(33) \in Nat /\ U32(33) < TOO_LARGE
  <2>1. 33 \in Nat
    OBVIOUS
  <2>. QED
    BY <2>1, SmallCount, Zenon
<1>3. <<1>> = Bytes(0, 1)
  BY <1>1, ByteAgain
<1>4. PackU32(U32(33)) = Bytes(33, 4)
  BY <1>1, <1>2, CountAgain
<1>5. Bytes(0, 1) \o Bytes(1, 32) = Bytes(0, 33)
  BY <1>1, FixedParts
<1>6. Bytes(0, 33) \o Bytes(33, 4) = Bytes(0, 37)
  BY <1>1, FixedParts
<1>7. <<1>> \o Bytes(1, 32) = Bytes(0, 33)
  BY <1>3, <1>5, Zenon
<1>. QED
  BY <1>2, <1>4, <1>6, <1>7, Zenon

LEMMA SlabEntryHeadAgain ==
    ASSUME FileOK, position + 44 <= Len(buf), U32(40) <= Len(buf)
    PROVE  Bytes(0, 44) = Bytes(0, 40) \o PackU32(U32(40)) /\ U32(40) \in Nat
<1>1. CursorOK /\ position \in Nat /\ Len(buf) \in Nat /\ Len(buf) < TOO_LARGE
  BY FileNumbers DEF FileOK
<1>2. U32(40) \in Nat /\ U32(40) < TOO_LARGE
  <2>1. 40 \in Nat
    OBVIOUS
  <2>. QED
    BY <2>1, SmallCount, Zenon
<1>3. PackU32(U32(40)) = Bytes(40, 4)
  BY <1>1, <1>2, CountAgain
<1>4. Bytes(0, 40) \o Bytes(40, 4) = Bytes(0, 44)
  BY <1>1, FixedParts
<1>. QED
  BY <1>2, <1>3, <1>4, Zenon

LEMMA EcHeadAgain ==
    ASSUME FileOK, position + 9 <= Len(buf), U8(0) = 1, U16(3) = 285, U32(5) <= Len(buf)
    PROVE  /\ Bytes(0, 9) = (<<1, U8(1), U8(2)>> \o PackU16(285)) \o PackU32(U32(5))
           /\ U32(5) \in Nat
<1>1. CursorOK /\ position \in Nat /\ Len(buf) \in Nat /\ Len(buf) < TOO_LARGE
  BY FileNumbers DEF FileOK
<1>2. U32(5) \in Nat /\ U32(5) < TOO_LARGE
  <2>1. 5 \in Nat
    OBVIOUS
  <2>. QED
    BY <2>1, SmallCount, Zenon
<1>3. <<1, U8(1), U8(2)>> = Bytes(0, 3)
  BY <1>1, FirstBytes
<1>4. PackU16(285) = Bytes(3, 2)
  BY <1>1, ShortAgain
<1>5. PackU32(U32(5)) = Bytes(5, 4)
  BY <1>1, <1>2, CountAgain
<1>6. Bytes(0, 3) \o Bytes(3, 2) = Bytes(0, 5)
  <2>1. position + 5 <= Len(buf)
    BY <1>1
  <2>. QED
    BY <1>1, <2>1, FixedParts, Zenon
<1>7. Bytes(0, 5) \o Bytes(5, 4) = Bytes(0, 9)
  BY <1>1, FixedParts
<1>8. <<1, U8(1), U8(2)>> \o PackU16(285) = Bytes(0, 5)
  BY <1>3, <1>4, <1>6, Zenon
<1>. QED
  BY <1>2, <1>5, <1>7, <1>8, Zenon

LEMMA DmsHeadAgain ==
    ASSUME FileOK, position + 8 <= Len(buf), U8(0) = 1, U8(1) = 0, U32(4) = U8(3)
    PROVE  /\ Bytes(0, 8) = <<1, 0, U8(2), U8(3)>> \o PackU32(U32(4))
           /\ U32(4) \in Nat
<1>1. CursorOK /\ position \in Nat /\ Len(buf) \in Nat /\ Len(buf) < TOO_LARGE
  BY FileNumbers DEF FileOK
<1>2. U32(4) \in Nat /\ U32(4) < TOO_LARGE
  <2>1. PICK b \in U8Values : b = U8(3)
    BY <1>1, ByteRange
  <2>2. b \in Nat /\ b < TOO_LARGE
    BY DEF U8Values, TOO_LARGE
  <2>. QED
    BY <2>1, <2>2, Zenon
<1>3. <<1, 0, U8(2), U8(3)>> = Bytes(0, 4)
  BY <1>1, FirstBytes
<1>4. PackU32(U32(4)) = Bytes(4, 4)
  BY <1>1, <1>2, CountAgain
<1>5. Bytes(0, 4) \o Bytes(4, 4) = Bytes(0, 8)
  BY <1>1, FixedParts
<1>. QED
  BY <1>2, <1>3, <1>4, <1>5, Zenon

\* What a list that passes says of the bytes of its item.
NextHeader ==
    [drop_store_version |-> U16(4), metadata_version |-> U16(6), manifest_version |-> U16(8)]
NextFlag == [flag_id |-> U16(0), required |-> U8(2) = 1]
NextUri == Bytes(4, U32(0))
NextOverride == [slab_id |-> Bytes(0, 40), k |-> U8(40), m |-> U8(41)]
NextShare == [custodian_id |-> cid, share_data |-> Bytes(8 + U32(0), sd_len)]

\* The manifest header, and an entry of each list, encoded again.
LEMMA HeaderAgain ==
    ASSUME FileOK, Passes(HeaderChecks)
    PROVE  /\ position + 16 <= Len(buf)
           /\ NextHeader \in ManifestHeaderType
           /\ EncodeHeader(NextHeader) = Bytes(0, 16)
<1>1. CursorOK /\ position \in Nat /\ Len(buf) \in Nat
  BY FileNumbers
<1>2. position + 16 <= Len(buf)
  BY <1>1, HeaderPassed
<1>3. Bytes(0, 4) = <<76, 77, 70, 83>> /\ \A o \in 10..15 : U8(o) = 0
  <2>1. /\ 2 \in DOMAIN HeaderChecks /\ HeaderChecks[2] = Check(Bytes(0, 4) = MANIFEST_MAGIC, "BadMagic")
        /\ 7 \in DOMAIN HeaderChecks
        /\ HeaderChecks[7] = Check(\A o \in 10..15 : U8(o) = 0, "Corrupt")
    BY DEF HeaderChecks
  <2>2. HeaderChecks[2] = "ok" /\ HeaderChecks[7] = "ok"
    BY <2>1 DEF Passes
  <2>. QED
    BY <2>1, <2>2 DEF Check, MANIFEST_MAGIC
<1>4. NextHeader \in ManifestHeaderType
  BY <1>1, U16Typed DEF NextHeader, ManifestHeaderType
<1>5. <<0, 0, 0, 0, 0, 0>> = Bytes(10, 6)
  <2>1. PICK t : t = Bytes(10, 6)
    OBVIOUS
  <2>2. t \in Seq(U8Values) /\ Len(t) = 6
    <3>1. 10 \in Nat /\ 6 \in Nat /\ position + 10 + 6 <= Len(buf)
      BY <1>1, <1>2
    <3>. QED
      BY <1>1, <2>1, <3>1, BytesRead, Zenon
  <2>3. \A j \in 1..6 : t[j] = 0
    <3> TAKE j \in 1..6
    <3>1. t[j] = U8(10 + j - 1)
      BY <1>1, <1>2, <2>1, ByteOf
    <3>2. 10 + j - 1 \in 10..15
      OBVIOUS
    <3>. QED
      BY <1>3, <3>1, <3>2
  <2>4. t = <<t[1], t[2], t[3], t[4], t[5], t[6]>>
    BY <2>2
  <2>. QED
    BY <2>1, <2>3, <2>4
<1>6. /\ PackU16(U16(4)) = Bytes(4, 2) /\ PackU16(U16(6)) = Bytes(6, 2)
      /\ PackU16(U16(8)) = Bytes(8, 2)
  <2>1. /\ 4 \in Nat /\ 6 \in Nat /\ 8 \in Nat
        /\ position + 4 + 2 <= Len(buf) /\ position + 6 + 2 <= Len(buf) /\ position + 8 + 2 <= Len(buf)
    BY <1>1, <1>2
  <2>. QED
    BY <1>1, <2>1, ShortAgain, Zenon
<1>7. /\ position + 6 <= Len(buf) /\ position + 8 <= Len(buf) /\ position + 10 <= Len(buf)
  BY <1>1, <1>2
<1>8. /\ Bytes(0, 4) \o Bytes(4, 2) = Bytes(0, 6) /\ Bytes(0, 6) \o Bytes(6, 2) = Bytes(0, 8)
      /\ Bytes(0, 8) \o Bytes(8, 2) = Bytes(0, 10) /\ Bytes(0, 10) \o Bytes(10, 6) = Bytes(0, 16)
  BY <1>1, <1>2, <1>7, FixedParts, Zenon
<1>9. EncodeHeader(NextHeader) =
        <<76, 77, 70, 83>> \o PackU16(U16(4)) \o PackU16(U16(6)) \o PackU16(U16(8))
          \o <<0, 0, 0, 0, 0, 0>>
  BY DEF EncodeHeader, NextHeader
<1>10. EncodeHeader(NextHeader) = Bytes(0, 16)
  BY <1>3, <1>5, <1>6, <1>8, <1>9, Zenon
<1>. QED
  BY <1>2, <1>4, <1>10

LEMMA FlagAgain ==
    ASSUME FileOK, Passes(FlagChecks)
    PROVE  /\ position + 3 <= Len(buf)
           /\ NextFlag \in FlagType
           /\ EncodeFlag(NextFlag) = Bytes(0, 3)
<1>1. CursorOK /\ position \in Nat /\ Len(buf) \in Nat
  BY FileNumbers
<1>2. position + 3 <= Len(buf) /\ U16(0) # 0
  BY <1>1, FlagPassed
<1>3. U8(2) \in {0, 1}
  <2>1. 4 \in DOMAIN FlagChecks /\ FlagChecks[4] = Check(U8(2) \in {0, 1}, "Corrupt")
    BY DEF FlagChecks
  <2>2. FlagChecks[4] = "ok"
    BY <2>1 DEF Passes
  <2>. QED
    BY <2>1, <2>2 DEF Check
<1>4. U16(0) \in U16Values
  BY <1>1, U16Typed
<1>5. NextFlag \in FlagType
  BY <1>2, <1>4 DEF NextFlag, FlagType
<1>6. (IF NextFlag.required THEN 1 ELSE 0) = U8(2) /\ NextFlag.flag_id = U16(0)
  BY <1>3 DEF NextFlag
<1>7. <<U8(2)>> = Bytes(2, 1)
  BY <1>1, <1>2, ByteAgain
<1>8. PackU16(U16(0)) = Bytes(0, 2)
  BY <1>1, <1>2, ShortAgain
<1>9. Bytes(0, 2) \o Bytes(2, 1) = Bytes(0, 3)
  BY <1>1, <1>2, FixedParts, Zenon
<1>10. EncodeFlag(NextFlag) = PackU16(NextFlag.flag_id) \o <<IF NextFlag.required THEN 1 ELSE 0>>
  BY DEF EncodeFlag
<1>. QED
  BY <1>2, <1>5, <1>6, <1>7, <1>8, <1>9, <1>10

\* The URI of a locator, the inline metadata and the hint.
LEMMA NextUriAgain ==
    ASSUME FileOK, position + 4 + U32(0) <= Len(buf)
    PROVE  /\ U32(0) \in Nat
           /\ NextUri \in ByteString
           /\ EncodeBytes(NextUri) = Bytes(0, 4 + U32(0))
<1>1. CursorOK /\ position \in Nat /\ Len(buf) \in Nat
  BY FileNumbers
<1>2. U32(0) \in Nat
  BY <1>1, U32Range
<1>3. 0 \in Nat /\ position + (0 + 4) + U32(0) <= Len(buf) /\ 0 + 4 = 4
  BY <1>1, <1>2
<1>4. Bytes(0 + 4, U32(0)) \in ByteString /\ EncodeBytes(Bytes(0 + 4, U32(0))) = Bytes(0, 4 + U32(0))
  BY <1>2, <1>3, BlobAgain, Zenon
<1>. QED
  BY <1>2, <1>3, <1>4 DEF NextUri

LEMMA OverrideAgain ==
    ASSUME FileOK, Passes(OverrideChecks)
    PROVE  /\ position + 42 <= Len(buf)
           /\ NextOverride \in OverrideType
           /\ EncodeOverride(NextOverride) = Bytes(0, 42)
<1>1. CursorOK /\ position \in Nat /\ Len(buf) \in Nat
  BY FileNumbers
<1>2. position + 42 <= Len(buf)
  BY <1>1, OverridePassed
<1>3. Bytes(0, 40) \in ByteString
  BY <1>1, <1>2, BytesRead DEF ByteString
<1>4. U8(40) \in U8Values /\ U8(41) \in U8Values
  BY <1>1, ByteRange
<1>5. NextOverride \in OverrideType
  BY <1>3, <1>4 DEF NextOverride, OverrideType
<1>6. <<U8(40), U8(41)>> = Bytes(40, 2)
  <2>1. PICK t : t = Bytes(40, 2)
    OBVIOUS
  <2>2. t \in Seq(U8Values) /\ Len(t) = 2
    <3>1. 40 \in Nat /\ 2 \in Nat /\ position + 40 + 2 <= Len(buf)
      BY <1>1, <1>2
    <3>. QED
      BY <1>1, <2>1, <3>1, BytesRead, Zenon
  <2>3. t[1] = U8(40 + 1 - 1) /\ t[2] = U8(40 + 2 - 1)
    <3>1. 40 \in Nat /\ 2 \in Nat /\ position + 40 + 2 <= Len(buf) /\ 1 \in 1..2 /\ 2 \in 1..2
      BY <1>1, <1>2
    <3>. QED
      BY <1>1, <2>1, <3>1, ByteOf, Zenon
  <2>4. t = <<t[1], t[2]>>
    BY <2>2
  <2>. QED
    BY <2>1, <2>3, <2>4
<1>7. Bytes(0, 40) \o Bytes(40, 2) = Bytes(0, 42)
  BY <1>1, <1>2, FixedParts, Zenon
<1>8. EncodeOverride(NextOverride) = Bytes(0, 40) \o <<U8(40), U8(41)>>
  BY DEF EncodeOverride, NextOverride
<1>. QED
  BY <1>2, <1>5, <1>6, <1>7, <1>8

LEMMA ShareAgain ==
    ASSUME FileOK, Passes(ShareChecks)
    PROVE  /\ ShareLen \in Nat /\ position + ShareLen <= Len(buf)
           /\ NextShare \in ShareType
           /\ EncodeShare(NextShare) = Bytes(0, ShareLen)
<1>1. CursorOK /\ position \in Nat /\ Len(buf) \in Nat
  BY FileNumbers
<1>2. PICK n \in Nat : n = U32(0)
  BY <1>1, SharePassed
<1>3. PICK d \in Nat : d = U32(4 + n)
  BY <1>1, <1>2, SharePassed DEF sd_len
<1>4. ShareLen = 8 + n + d /\ sd_len = d /\ position + ShareLen <= Len(buf)
  BY <1>1, <1>2, <1>3, SharePassed DEF sd_len
<1>5. Bytes(4, n) \in ByteString /\ EncodeBytes(Bytes(4, n)) = Bytes(0, 4 + n)
  <2>1. position + 4 + U32(0) <= Len(buf)
    BY <1>1, <1>2, <1>3, <1>4
  <2>. QED
    BY <1>2, <2>1, NextUriAgain DEF NextUri
<1>6. /\ Bytes((4 + n) + 4, d) \in ByteString
      /\ EncodeBytes(Bytes((4 + n) + 4, d)) = Bytes(4 + n, 4 + d)
  <2>1. position + (8 + n + d) <= Len(buf)
    BY <1>4
  <2>2. 4 + n \in Nat
    OBVIOUS
  <2>3. position + ((4 + n) + 4) + d <= Len(buf)
    BY <1>1, <2>1
  <2>. QED
    BY <1>3, <2>2, <2>3, BlobAgain, Zenon
<1>7. (4 + n) + 4 = 8 + n /\ ShareLen \in Nat
  BY <1>4
<1>8. Bytes(0, 4 + n) \o Bytes(4 + n, 4 + d) = Bytes(0, ShareLen)
  <2>1. 4 + n \in Nat /\ 4 + d \in Nat /\ ShareLen = (4 + n) + (4 + d)
    BY <1>4
  <2>. QED
    BY <1>1, <1>4, <1>7, <2>1, Grown, Zenon
<1>9. NextShare = [custodian_id |-> Bytes(4, n), share_data |-> Bytes(8 + n, d)]
  BY <1>2, <1>4 DEF NextShare, cid
<1>10. NextShare \in ShareType
  BY <1>5, <1>6, <1>7, <1>9 DEF ShareType
<1>11. EncodeShare(NextShare) = EncodeBytes(Bytes(4, n)) \o EncodeBytes(Bytes(8 + n, d))
  BY <1>9 DEF EncodeShare
<1>. QED
  BY <1>4, <1>5, <1>6, <1>7, <1>8, <1>10, <1>11

\* Consecutive digests are the bytes they were cut from.
LEMMA DigestsJoin ==
    ASSUME CursorOK, NEW o \in Nat, NEW c \in Nat, position + o + 32 * c <= Len(buf)
    PROVE  /\ [i \in 1..c |-> Bytes(o + 32 * (i - 1), 32)] \in Seq(ByteString)
           /\ FlattenSeq([i \in 1..c |-> Bytes(o + 32 * (i - 1), 32)]) = Bytes(o, 32 * c)
<1> DEFINE Cut(k) == [i \in 1..k |-> Bytes(o + 32 * (i - 1), 32)]
           Joins(k) == FlattenSeq(Cut(k)) = Bytes(o, 32 * k)
           Bad == {k \in 0..c : ~Joins(k)}
<1>1. position \in Nat /\ Len(buf) \in Nat /\ buf \in Seq(U8Values)
  BY DEF CursorOK
<1>2. ASSUME NEW i \in 1..c
      PROVE  Bytes(o + 32 * (i - 1), 32) \in Seq(U8Values)
  <2>1. o + 32 * (i - 1) \in Nat /\ 32 \in Nat /\ position + (o + 32 * (i - 1)) + 32 <= Len(buf)
    BY <1>1
  <2>. QED
    BY <2>1, BytesRead, Zenon
<1>3. \A k \in 0..c : Cut(k) \in Seq(Seq(U8Values))
  BY <1>2
<1>4. Joins(0)
  <2>1. Bytes(o, 0) = <<>>
    <3>1. Bytes(o, 0) \in Seq(U8Values) /\ Len(Bytes(o, 0)) = 0
      BY <1>1, BytesRead
    <3>. QED
      BY <3>1
  <2>2. Cut(0) = <<>>
    OBVIOUS
  <2>. QED
    BY <2>1, <2>2, FlattenEmpty
<1>5. ASSUME NEW k \in 0..(c - 1), Joins(k)
      PROVE  Joins(k + 1)
  <2>1. Bytes(o + 32 * k, 32) \in Seq(U8Values)
    <3>1. k + 1 \in 1..c /\ 32 * ((k + 1) - 1) = 32 * k
      OBVIOUS
    <3>. QED
      BY <1>2, <3>1
  <2>2. Cut(k + 1) = Append(Cut(k), Bytes(o + 32 * k, 32))
    <3>1. Len(Cut(k)) = k /\ Cut(k) \in Seq(Seq(U8Values)) /\ k \in 0..c
      BY <1>3
    <3>. QED
      BY <2>1, <3>1
  <2>3. FlattenSeq(Cut(k + 1)) = FlattenSeq(Cut(k)) \o Bytes(o + 32 * k, 32)
    <3>1. Cut(k) \in Seq(Seq(U8Values))
      BY <1>3
    <3> HIDE DEF Cut
    <3>. QED
      BY <2>1, <2>2, <3>1, FlattenAppend, Zenon
  <2>4. Bytes(o, 32 * k) \o Bytes(o + 32 * k, 32) = Bytes(o, 32 * k + 32)
    <3>1. 32 * k \in Nat /\ 32 \in Nat /\ position + o + 32 * k + 32 <= Len(buf)
      BY <1>1
    <3>. QED
      BY <3>1, BytesJoin, Zenon
  <2>5. 32 * k + 32 = 32 * (k + 1)
    OBVIOUS
  <2>. QED
    BY <1>5, <2>3, <2>4, <2>5
<1> HIDE DEF Joins
<1>6. Bad = {}
  <2> SUFFICES ASSUME Bad # {}
               PROVE  FALSE
    OBVIOUS
  <2>1. PICK k \in Bad : \A j \in Bad : k <= j
    <3>1. Bad \subseteq Nat
      OBVIOUS
    <3>. QED
      BY <3>1, LeastNatural
  <2>2. k \in 0..c /\ ~Joins(k) /\ k # 0
    BY <1>4
  <2>3. k - 1 \in 0..c /\ k - 1 \notin Bad /\ k - 1 \in 0..(c - 1) /\ (k - 1) + 1 = k
    BY <2>1, <2>2
  <2>. QED
    BY <1>5, <2>2, <2>3
<1>7. Joins(c)
  BY <1>6
<1>8. Cut(c) \in Seq(ByteString)
  BY <1>3 DEF ByteString
<1>. QED
  BY <1>7, <1>8 DEF Joins

\* An entry of the history, of any number of inputs.
LEMMA HistoryEntryAgain ==
    ASSUME FileOK, Passes(HistoryEntryChecks)
    PROVE  /\ inputs_size \in Nat /\ params_len \in Nat
           /\ position + (17 + inputs_size + params_len) <= Len(buf)
           /\ HistoryEntry \in HistoryEntryType
           /\ EncodeHistoryEntry(HistoryEntry) = Bytes(0, 17 + inputs_size + params_len)
<1>1. CursorOK /\ position \in Nat /\ Len(buf) \in Nat /\ Len(buf) < TOO_LARGE
  BY FileNumbers DEF FileOK
<1>2. /\ U8(0) \in HistoryOps
      /\ input_count \in Nat /\ inputs_size \in Nat /\ params_len \in Nat
      /\ position + 17 + inputs_size + params_len <= Len(buf)
  BY <1>1, HistoryEntryPassed
<1>3. PICK c \in Nat : c = input_count
  BY <1>2
<1>4. PICK k \in Nat : k = inputs_size
  BY <1>2
<1>5. PICK p \in Nat : p = params_len
  BY <1>2
<1>6. k = 32 * c /\ c = U32(9) /\ p = U32(13 + k)
  BY <1>3, <1>4, <1>5 DEF input_count, inputs_size, params_len
<1>61. position + 17 + k + p <= Len(buf)
  BY <1>2, <1>4, <1>5
<1>62. position \in Nat /\ Len(buf) \in Nat
  BY <1>1
<1>63. c <= k
  BY <1>6
<1>7. <<U8(0)>> = Bytes(0, 1)
  BY <1>1, <1>62, <1>61, ByteAgain
<1>8. PackU32(c) = Bytes(9, 4)
  <2>1. 9 \in Nat /\ position + 9 + 4 <= Len(buf) /\ c <= Len(buf)
    BY <1>61, <1>62, <1>63
  <2>2. U32(9) \in Nat /\ U32(9) < TOO_LARGE
    BY <1>6, <2>1, SmallCount, Zenon
  <2>. QED
    BY <1>1, <1>6, <2>1, <2>2, CountAgain, Zenon
<1> DEFINE inputs == [i \in 1..c |-> Bytes(13 + 32 * (i - 1), 32)]
<1>9. inputs \in Seq(ByteString) /\ FlattenSeq(inputs) = Bytes(13, k)
  <2>1. 13 \in Nat /\ position + 13 + k <= Len(buf)
    BY <1>61, <1>62
  <2>. QED
    BY <1>1, <1>6, <2>1, DigestsJoin, Zenon
<1>10. Len(inputs) = c
  OBVIOUS
<1> HIDE DEF inputs
<1>11. EncodeList(inputs, EncodeInput) = PackU32(c) \o Bytes(13, k)
  <2>1. InputBytes(inputs) = inputs
    BY <1>9 DEF InputBytes, EncodeInput
  <2>. QED
    BY <1>9, <1>10, <2>1, WholeLists, Zenon DEF Listed
<1>12. PackU32(c) \o Bytes(13, k) = Bytes(9, 4 + k)
  <2>1. 9 \in Nat /\ 4 \in Nat /\ position + 9 + 4 + k <= Len(buf)
    BY <1>61, <1>62
  <2>2. Bytes(9, 4) \o Bytes(9 + 4, k) = Bytes(9, 4 + k)
    BY <1>1, <2>1, BytesJoin, Zenon
  <2>3. 9 + 4 = 13
    OBVIOUS
  <2>. QED
    BY <1>8, <2>2, <2>3
<1>13. /\ Bytes((13 + k) + 4, p) \in ByteString
       /\ EncodeBytes(Bytes((13 + k) + 4, p)) = Bytes(13 + k, 4 + p)
  <2>1. 13 + k \in Nat /\ position + ((13 + k) + 4) + p <= Len(buf)
    BY <1>61, <1>62
  <2>. QED
    BY <1>6, <2>1, BlobAgain, Zenon
<1>14. Bytes(1, 8) \in ByteString
  <2>1. 1 \in Nat /\ 8 \in Nat /\ position + 1 + 8 <= Len(buf)
    BY <1>61, <1>62
  <2>. QED
    BY <1>1, <2>1, BytesRead, Zenon DEF ByteString
<1>15. Bytes(0, 1) \o Bytes(1, 8) = Bytes(0, 9)
  <2>1. position + 9 <= Len(buf)
    BY <1>61, <1>62
  <2>. QED
    BY <1>1, <2>1, FixedParts, Zenon
<1>16. Bytes(0, 9) \o Bytes(9, 4 + k) = Bytes(0, 13 + k)
  <2>1. PICK m \in Nat, n \in Nat : m = 4 + k /\ n = 13 + k
    OBVIOUS
  <2>2. 9 \in Nat /\ n = 9 + m /\ position + n <= Len(buf)
    BY <1>61, <1>62, <2>1
  <2>3. Bytes(0, 9) \o Bytes(9, m) = Bytes(0, n)
    BY <1>1, <2>2, Grown, Zenon
  <2>. QED
    BY <2>1, <2>3
<1>17. Bytes(0, 13 + k) \o Bytes(13 + k, 4 + p) = Bytes(0, 17 + k + p)
  <2>1. PICK m \in Nat, n \in Nat, e \in Nat : m = 13 + k /\ n = 4 + p /\ e = 17 + k + p
    OBVIOUS
  <2>2. e = m + n /\ position + e <= Len(buf)
    BY <1>61, <1>62, <2>1
  <2>3. Bytes(0, m) \o Bytes(m, n) = Bytes(0, e)
    BY <1>1, <2>2, Grown, Zenon
  <2>. QED
    BY <2>1, <2>3
<1>18. HistoryEntry = [op |-> U8(0), timestamp_ns |-> Bytes(1, 8), inputs |-> inputs,
                       params |-> Bytes((13 + k) + 4, p)]
  <2>1. 17 + k = (13 + k) + 4
    OBVIOUS
  <2>. QED
    BY <1>3, <1>4, <1>5, <2>1 DEF HistoryEntry, inputs
<1>19. HistoryEntry \in HistoryEntryType
  BY <1>2, <1>9, <1>13, <1>14, <1>18 DEF HistoryEntryType
<1>20. EncodeHistoryEntry(HistoryEntry)
         = <<U8(0)>> \o Bytes(1, 8) \o EncodeList(inputs, EncodeInput) \o EncodeBytes(Bytes((13 + k) + 4, p))
  BY <1>18, Zenon DEF EncodeHistoryEntry
<1>21. EncodeHistoryEntry(HistoryEntry) = Bytes(0, 17 + k + p)
  BY <1>7, <1>11, <1>12, <1>13, <1>15, <1>16, <1>17, <1>20, Zenon
<1>22. position + (17 + k + p) <= Len(buf)
  BY <1>61, <1>62
<1>. QED
  BY <1>4, <1>5, <1>19, <1>21, <1>22

\* What has been read.
ReadBytes == SubSeq(buf, 1, position)

\* The encoding of what has been parsed before each section.
BeforeFlags == EncodeHeader(header)
BeforeReference == BeforeFlags \o EncodeFeatureFlags(flags)
BeforeSlabIndex == BeforeReference \o EncodeMetadataReference(metadata_reference)
BeforeEc == BeforeSlabIndex \o EncodeSlabIndex(slab_index)
BeforeDms == BeforeEc \o (IF HasFlag(EC_FLAG) THEN EncodeEcParams(ec_params) ELSE <<>>)
BeforeHistory == BeforeDms \o (IF HasFlag(DMS_FLAG) THEN EncodeDmsPolicy(dms_policy) ELSE <<>>)

\* The encoding of what has been parsed of a section whose head has been read: its
\* lists announce the entries that are still to come.
FlagsSoFar == <<1>> \o Listed(Len(flags) + left, FlagBytes(flags))
ReferenceSoFar ==
    (<<1>> \o metadata_reference.metadata_hash)
        \o Listed(Len(locators) + locators_left, UriBytes(locators))
SlabsSoFar == <<1>> \o Listed(Len(slab_index) + left, SlabBytes(slab_index))
EcSoFar ==
    (<<1, ec_params.k, ec_params.m>> \o PackU16(DEFAULT_EC_POLYNOMIAL))
        \o Listed(Len(ec_params.overrides) + left, OverrideBytes(ec_params.overrides))
DmsSoFar ==
    <<1, DMS_SCHEME_SHAMIR, dms_policy.k, dms_policy.n>>
        \o Listed(Len(dms_policy.shares) + left, ShareBytes(dms_policy.shares))
HistorySoFar == <<1>> \o Listed(Len(history) + left, HistoryBytes(history))

\* While the locators of a slab are read, its entry is the last of the index.
BeforeOpenSlab ==
    BeforeSlabIndex
        \o (<<1>> \o Listed((Len(slab_index) - 1) + left, SlabBytes(Front(slab_index))))
OpenSlabSoFar ==
    Last(slab_index).slab_id \o Listed(Len(locators) + locators_left, UriBytes(locators))

FlagsRead == ReadBytes = IF step = "head" THEN BeforeFlags ELSE BeforeFlags \o FlagsSoFar
ReferenceRead ==
    ReadBytes = IF step = "head" THEN BeforeReference ELSE BeforeReference \o ReferenceSoFar
SlabsRead ==
    ReadBytes = CASE step = "head" -> BeforeSlabIndex
                  [] step = "entries" -> BeforeSlabIndex \o SlabsSoFar
                  [] OTHER -> BeforeOpenSlab \o OpenSlabSoFar
EcRead == ReadBytes = IF step = "head" THEN BeforeEc ELSE BeforeEc \o EcSoFar
DmsRead == ReadBytes = IF step = "head" THEN BeforeDms ELSE BeforeDms \o DmsSoFar
HistoryRead == ReadBytes = IF step = "head" THEN BeforeHistory ELSE BeforeHistory \o HistorySoFar

\* The bytes read are the encoding of what they were parsed as.
ReadSoFar ==
    /\ section = "header" => position = 0
    /\ section = "feature_flags" => FlagsRead
    /\ section = "metadata_reference" => ReferenceRead
    /\ section = "slab_index" => SlabsRead
    /\ section = "ec_params" => EcRead
    /\ section = "dms_policy" => DmsRead
    /\ section = "history" => HistoryRead

\* Nothing of section s has been parsed.
Ahead(s) == PlaceIn(section) < PlaceIn(s) \/ (section = s /\ step = "head")

NotBegun ==
    /\ Ahead("feature_flags") => flags = <<>>
    /\ Ahead("slab_index") => slab_index = <<>>
    /\ Ahead("ec_params") \/ ~HasFlag(EC_FLAG) => ec_params = NoEcParams
    /\ Ahead("dms_policy") \/ ~HasFlag(DMS_FLAG) => dms_policy = NoDmsPolicy
    /\ Ahead("history") => history = <<>>

\* verify is done when it has read the last entry of the history.
Ended ==
    status = "verified" =>
        section = "history" /\ step = "entries" /\ left = 0 /\ position = ends["history"]

CodecInv == IInv /\ Len(buf) < TOO_LARGE /\ ReadSoFar /\ NotBegun /\ Ended

-----------------------------------------------------------------------------
\* What the encoders write of what has been parsed is numbers.
LEMMA SectionsTypedSeq ==
    ASSUME TypeOK
    PROVE  /\ EncodeHeader(header) \in Seq(Nat)
           /\ EncodeFeatureFlags(flags) \in Seq(Nat)
           /\ EncodeMetadataReference(metadata_reference) \in Seq(Nat)
           /\ EncodeSlabIndex(slab_index) \in Seq(Nat)
           /\ EncodeEcParams(ec_params) \in Seq(Nat)
           /\ EncodeDmsPolicy(dms_policy) \in Seq(Nat)
<1>1. EncodeHeader(header) \in Seq(Nat)
  BY HeaderTyped DEF TypeOK
<1>2. <<1>> \in Seq(Nat)
  OBVIOUS
<1>3. EncodeFeatureFlags(flags) \in Seq(Nat)
  <2>1. flags \in Seq(FlagType)
    BY DEF TypeOK
  <2>2. FlagBytes(flags) \in Seq(Seq(Nat)) /\ Len(flags) \in Nat
    BY <2>1, FlagsTyped
  <2>3. Listed(Len(flags), FlagBytes(flags)) \in Seq(Nat)
    BY <2>2, ListedTyped
  <2>. QED
    BY <1>2, <2>3, WholeLists, OneAfterTheOther, Zenon DEF EncodeFeatureFlags
<1>4. EncodeMetadataReference(metadata_reference) \in Seq(Nat)
  <2>1. /\ metadata_reference.metadata_hash \in Seq(Nat)
        /\ metadata_reference.locators \in Seq(ByteString)
        /\ metadata_reference.inline_metadata \in ByteString
    BY BytesAreNumbers DEF TypeOK, MetadataReferenceType
  <2>2. Listed(Len(metadata_reference.locators), UriBytes(metadata_reference.locators)) \in Seq(Nat)
    BY <2>1, UrisTyped, ListedTyped
  <2>. QED
    BY <1>2, <2>1, <2>2, BytesTyped, WholeLists, OneAfterTheOther, Zenon DEF EncodeMetadataReference
<1>5. EncodeSlabIndex(slab_index) \in Seq(Nat)
  <2>1. slab_index \in Seq(SlabEntryType)
    BY DEF TypeOK
  <2>2. SlabBytes(slab_index) \in Seq(Seq(Nat)) /\ Len(slab_index) \in Nat
    BY <2>1, SlabsTyped
  <2>3. Listed(Len(slab_index), SlabBytes(slab_index)) \in Seq(Nat)
    BY <2>2, ListedTyped
  <2>. QED
    BY <1>2, <2>3, WholeLists, OneAfterTheOther, Zenon DEF EncodeSlabIndex
<1>6. EncodeEcParams(ec_params) \in Seq(Nat)
  <2>1. ec_params.k \in Nat /\ ec_params.m \in Nat /\ ec_params.overrides \in Seq(OverrideType)
    BY WidthsAreNumbers DEF TypeOK, EcParamsType, OverrideType
  <2>2. OverrideBytes(ec_params.overrides) \in Seq(Seq(Nat)) /\ Len(ec_params.overrides) \in Nat
    BY <2>1, OverridesTyped
  <2>3. Listed(Len(ec_params.overrides), OverrideBytes(ec_params.overrides)) \in Seq(Nat)
    BY <2>2, ListedTyped
  <2>4. <<1, ec_params.k, ec_params.m>> \in Seq(Nat) /\ PackU16(DEFAULT_EC_POLYNOMIAL) \in Seq(Nat)
    BY <2>1, PackTyped DEF DEFAULT_EC_POLYNOMIAL
  <2>. QED
    BY <2>3, <2>4, WholeLists, OneAfterTheOther, Zenon DEF EncodeEcParams
<1>7. EncodeDmsPolicy(dms_policy) \in Seq(Nat)
  <2>1. /\ dms_policy.k \in Nat /\ dms_policy.n \in Nat /\ dms_policy.shares \in Seq(ShareType)
        /\ dms_policy.reconstruction_hint \in ByteString
    BY WidthsAreNumbers DEF TypeOK, DmsPolicyType, ShareType
  <2>2. ShareBytes(dms_policy.shares) \in Seq(Seq(Nat)) /\ Len(dms_policy.shares) \in Nat
    BY <2>1, SharesTyped
  <2>3. Listed(Len(dms_policy.shares), ShareBytes(dms_policy.shares)) \in Seq(Nat)
    BY <2>2, ListedTyped
  <2>4. <<1, DMS_SCHEME_SHAMIR, dms_policy.k, dms_policy.n>> \in Seq(Nat)
    BY <2>1 DEF DMS_SCHEME_SHAMIR
  <2>. QED
    BY <2>1, <2>3, <2>4, BytesTyped, WholeLists, OneAfterTheOther, Zenon DEF EncodeDmsPolicy
<1>. QED
  BY <1>1, <1>3, <1>4, <1>5, <1>6, <1>7

LEMMA BeforesTyped ==
    ASSUME TypeOK
    PROVE  /\ BeforeFlags \in Seq(Nat) /\ BeforeReference \in Seq(Nat) /\ BeforeSlabIndex \in Seq(Nat)
           /\ BeforeEc \in Seq(Nat) /\ BeforeDms \in Seq(Nat) /\ BeforeHistory \in Seq(Nat)
<1>1. BeforeFlags \in Seq(Nat)
  BY SectionsTypedSeq DEF BeforeFlags
<1>2. BeforeReference \in Seq(Nat)
  BY <1>1, SectionsTypedSeq, OneAfterTheOther, Zenon DEF BeforeReference
<1>3. BeforeSlabIndex \in Seq(Nat)
  BY <1>2, SectionsTypedSeq, OneAfterTheOther, Zenon DEF BeforeSlabIndex
<1>4. BeforeEc \in Seq(Nat)
  BY <1>3, SectionsTypedSeq, OneAfterTheOther, Zenon DEF BeforeEc
<1>5. <<>> \in Seq(Nat)
  OBVIOUS
<1>6. (IF HasFlag(EC_FLAG) THEN EncodeEcParams(ec_params) ELSE <<>>) \in Seq(Nat)
  BY <1>5, SectionsTypedSeq
<1>7. BeforeDms \in Seq(Nat)
  BY <1>4, <1>6, OneAfterTheOther, Zenon DEF BeforeDms
<1>8. (IF HasFlag(DMS_FLAG) THEN EncodeDmsPolicy(dms_policy) ELSE <<>>) \in Seq(Nat)
  BY <1>5, SectionsTypedSeq
<1>9. BeforeHistory \in Seq(Nat)
  BY <1>7, <1>8, OneAfterTheOther, Zenon DEF BeforeHistory
<1>. QED
  BY <1>1, <1>2, <1>3, <1>4, <1>7, <1>9

-----------------------------------------------------------------------------
\* How ReadBytes grows.

LEMMA ReadOn ==
    ASSUME FileOK, NEW n \in Nat, position + n <= Len(buf), Advance(n)
    PROVE  ReadBytes' = ReadBytes \o Bytes(0, n)
BY FileNumbers, NextBytes, Zenon DEF ReadBytes, Advance

\* Before it x, then the head h of the list, and of c entries these.
UpTo(x, h, c, items) == x \o (h \o Listed(c, items))

\* A head h and the count c of the list that follows.
LEMMA HeadRead ==
    ASSUME FileOK, NEW n \in Nat, position + n <= Len(buf), Advance(n),
           NEW x \in Seq(Nat), NEW h \in Seq(Nat), NEW c \in Nat,
           ReadBytes = x, Bytes(0, n) = h \o PackU32(c)
    PROVE  ReadBytes' = UpTo(x, h, c, <<>>)
<1>1. ReadBytes' = x \o (h \o PackU32(c))
  BY ReadOn, Zenon
<1>2. PackU32(c) \in Seq(Nat)
  BY PackTyped
<1>3. PackU32(c) \o <<>> = PackU32(c)
  BY <1>2
<1>. QED
  BY <1>1, <1>3, NoBytes, Zenon DEF UpTo

GrowsBy(x, h, c, items, longer, item) == UpTo(x, h, c, items) \o item = UpTo(x, h, c, longer)

LEMMA ListedGrows ==
    ASSUME NEW x, NEW h, NEW c, NEW items, NEW longer, NEW item,
           x \in Seq(Nat), h \in Seq(Nat), c \in Nat, OneMore(items, longer, item)
    PROVE  GrowsBy(x, h, c, items, longer, item)
<1> DEFINE p == PackU32(c)
           e == FlattenSeq(items)
<1>1. p \in Seq(Nat) /\ e \in Seq(Nat) /\ item \in Seq(Nat)
  BY PackTyped DEF OneMore
<1>2. Listed(c, items) = p \o e /\ Listed(c, longer) = p \o (e \o item)
  BY Zenon DEF Listed, OneMore
<1> HIDE DEF p, e
<1>3. /\ \A u, v \in Seq(Nat) : (x \o u) \o v = x \o (u \o v)
      /\ \A u, v \in Seq(Nat) : (h \o u) \o v = h \o (u \o v)
  BY GroupedAfter, Zenon
<1>4. \A u, v \in Seq(Nat) : (p \o u) \o v = p \o (u \o v)
  BY <1>1, GroupedAfter, Zenon
<1>5. p \o e \in Seq(Nat)
  BY <1>1, OneAfterTheOther, Zenon
<1>6. h \o (p \o e) \in Seq(Nat)
  BY <1>5, OneAfterTheOther, Zenon
<1>7. (x \o (h \o (p \o e))) \o item = x \o ((h \o (p \o e)) \o item)
  BY <1>1, <1>3, <1>6, Zenon
<1>8. (h \o (p \o e)) \o item = h \o ((p \o e) \o item)
  BY <1>1, <1>3, <1>5, Zenon
<1>9. (p \o e) \o item = p \o (e \o item)
  BY <1>1, <1>4, Zenon
<1>. QED
  BY <1>2, <1>7, <1>8, <1>9, Zenon DEF UpTo, GrowsBy

\* One more item of a list.
LEMMA ItemRead ==
    ASSUME NEW n, NEW x, NEW h, NEW c, NEW items, NEW longer, NEW item,
           FileOK, n \in Nat, position + n <= Len(buf), Advance(n),
           x \in Seq(Nat), h \in Seq(Nat), c \in Nat, OneMore(items, longer, item),
           ReadBytes = UpTo(x, h, c, items), Bytes(0, n) = item
    PROVE  ReadBytes' = UpTo(x, h, c, longer)
<1>1. ReadBytes' = UpTo(x, h, c, items) \o item
  BY ReadOn, Zenon
<1>2. UpTo(x, h, c, items) \o item = UpTo(x, h, c, longer)
  <2>1. GrowsBy(x, h, c, items, longer, item)
    BY ListedGrows, Zenon
  <2>. QED
    BY <2>1, Zenon DEF GrowsBy
<1>. QED
  BY <1>1, <1>2, Zenon

\* The last part of a section.
LEMMA TailRead ==
    ASSUME FileOK, NEW n \in Nat, position + n <= Len(buf), Advance(n),
           NEW x \in Seq(Nat), NEW a \in Seq(Nat), NEW b \in Seq(Nat),
           ReadBytes = x \o a, Bytes(0, n) = b
    PROVE  ReadBytes' = x \o (a \o b)
<1>1. ReadBytes' = (x \o a) \o b
  BY ReadOn, Zenon
<1>. QED
  BY <1>1, GroupedAfter, Zenon

\* What the heads of the sections have to say besides their counts.

LEMMA VersionsRead ==
    /\ Passes(FlagsHeadChecks) => U8(0) = 1
    /\ Passes(MetadataHeadChecks) => U8(0) = 1
    /\ Passes(SlabIndexHeadChecks) => U8(0) = 1
    /\ Passes(EcHeadChecks) => U8(0) = 1 /\ U16(3) = 285
    /\ Passes(DmsHeadChecks) => U8(0) = 1 /\ U8(1) = 0
    /\ Passes(HistoryHeadChecks) => U8(0) = 1
<1>1. ASSUME Passes(FlagsHeadChecks) PROVE U8(0) = 1
  <2>1. 2 \in DOMAIN FlagsHeadChecks /\ FlagsHeadChecks[2] = Check(U8(0) = 1, "Unsupported")
    BY DEF FlagsHeadChecks, FEATURE_FLAGS_SECTION_VERSION
  <2>. QED
    BY <1>1, <2>1 DEF Passes, Check
<1>2. ASSUME Passes(MetadataHeadChecks) PROVE U8(0) = 1
  <2>1. 2 \in DOMAIN MetadataHeadChecks /\ MetadataHeadChecks[2] = Check(U8(0) = 1, "Unsupported")
    BY DEF MetadataHeadChecks, METADATA_REFERENCE_SECTION_VERSION
  <2>. QED
    BY <1>2, <2>1 DEF Passes, Check
<1>3. ASSUME Passes(SlabIndexHeadChecks) PROVE U8(0) = 1
  <2>1. 2 \in DOMAIN SlabIndexHeadChecks /\ SlabIndexHeadChecks[2] = Check(U8(0) = 1, "Unsupported")
    BY DEF SlabIndexHeadChecks, SLAB_INDEX_SECTION_VERSION
  <2>. QED
    BY <1>3, <2>1 DEF Passes, Check
<1>4. ASSUME Passes(EcHeadChecks) PROVE U8(0) = 1 /\ U16(3) = 285
  <2>1. /\ 2 \in DOMAIN EcHeadChecks /\ EcHeadChecks[2] = Check(U8(0) = 1, "Unsupported")
        /\ 6 \in DOMAIN EcHeadChecks /\ EcHeadChecks[6] = Check(U16(3) = 285, "Unsupported")
    BY DEF EcHeadChecks, EC_PARAMS_SECTION_VERSION, DEFAULT_EC_POLYNOMIAL
  <2>. QED
    BY <1>4, <2>1 DEF Passes, Check
<1>5. ASSUME Passes(DmsHeadChecks) PROVE U8(0) = 1 /\ U8(1) = 0
  <2>1. /\ 2 \in DOMAIN DmsHeadChecks /\ DmsHeadChecks[2] = Check(U8(0) = 1, "Unsupported")
        /\ 4 \in DOMAIN DmsHeadChecks /\ DmsHeadChecks[4] = Check(U8(1) = 0, "Unsupported")
    BY DEF DmsHeadChecks, DMS_POLICY_SECTION_VERSION, DMS_SCHEME_SHAMIR
  <2>. QED
    BY <1>5, <2>1 DEF Passes, Check
<1>6. ASSUME Passes(HistoryHeadChecks) PROVE U8(0) = 1
  <2>1. 2 \in DOMAIN HistoryHeadChecks /\ HistoryHeadChecks[2] = Check(U8(0) = 1, "Unsupported")
    BY DEF HistoryHeadChecks, HISTORY_SECTION_VERSION
  <2>. QED
    BY <1>6, <2>1 DEF Passes, Check
<1>. QED
  BY <1>1, <1>2, <1>3, <1>4, <1>5, <1>6

-----------------------------------------------------------------------------
\* Each section's parser keeps ReadSoFar.

LEMMA CodecFile ==
    ASSUME CodecInv
    PROVE  /\ FileOK /\ CursorOK /\ TypeOK /\ position \in Nat /\ Len(buf) \in Nat
           /\ ReadSoFar /\ NotBegun
BY CursorKept DEF CodecInv, IInv, FileOK

\* A step that reads nothing and parses nothing.
LEMMA NothingRead ==
    ASSUME ReadSoFar,
           UNCHANGED <<buf, position, section, step, left, locators, locators_left, header, flags,
                       metadata_reference, slab_index, ec_params, dms_policy, history>>
    PROVE  ReadSoFar'
<1>1. /\ UNCHANGED <<ReadBytes, BeforeFlags, BeforeReference, BeforeSlabIndex, BeforeEc>>
      /\ UNCHANGED <<FlagsSoFar, ReferenceSoFar, SlabsSoFar, BeforeOpenSlab, OpenSlabSoFar>>
  BY DEF ReadBytes, BeforeFlags, BeforeReference, BeforeSlabIndex, BeforeEc,
         FlagsSoFar, ReferenceSoFar, SlabsSoFar, BeforeOpenSlab, OpenSlabSoFar
<1>2. UNCHANGED <<BeforeDms, BeforeHistory, EcSoFar, DmsSoFar, HistorySoFar>>
  BY <1>1 DEF BeforeDms, BeforeHistory, EcSoFar, DmsSoFar, HistorySoFar, HasFlag
<1>. QED
  BY <1>1, <1>2 DEF ReadSoFar, FlagsRead, ReferenceRead, SlabsRead, EcRead, DmsRead, HistoryRead

\* The manifest header.
LEMMA HeaderReadOn ==
    ASSUME CodecInv, ReadHeader
    PROVE  ReadSoFar'
<1>1. FileOK /\ position \in Nat /\ ReadSoFar /\ section = "header" /\ position = 0 /\ buf \in Seq(U8Values)
  BY CodecFile DEF ReadHeader, At, ReadSoFar, CursorOK
<1>2. /\ position + 16 <= Len(buf) /\ EncodeHeader(NextHeader) = Bytes(0, 16)
  BY <1>1, HeaderAgain DEF ReadHeader
<1>3. /\ header' = NextHeader /\ section' = "feature_flags" /\ step' = "head" /\ Advance(16)
  BY NextSectionsAre DEF ReadHeader, Return, NextHeader
<1>4. ReadBytes = <<>>
  BY <1>1 DEF ReadBytes
<1>5. Bytes(0, 16) \in Seq(U8Values)
  <2>1. 16 \in Nat /\ 0 \in Nat /\ position + 0 + 16 <= Len(buf)
    BY <1>1, <1>2
  <2>. QED
    BY <1>1, <2>1, BytesRead, Zenon DEF FileOK
<1>6. ReadBytes' = Bytes(0, 16)
  <2>1. ReadBytes' = <<>> \o Bytes(0, 16)
    <3>1. 16 \in Nat
      OBVIOUS
    <3>. QED
      BY <1>1, <1>2, <1>3, <1>4, <3>1, ReadOn, Zenon
  <2>. QED
    BY <1>5, <2>1
<1>7. BeforeFlags' = EncodeHeader(header')
  BY DEF BeforeFlags
<1>8. FlagsRead'
  BY <1>2, <1>3, <1>6, <1>7 DEF FlagsRead
<1>. QED
  BY <1>3, <1>8 DEF ReadSoFar

\* The feature flags.
LEMMA FlagsReadOn ==
    ASSUME CodecInv, ReadFlagsHead \/ ReadFlag \/ FlagsEnd, UNCHANGED header
    PROVE  ReadSoFar'
<1>1. FileOK /\ CursorOK /\ TypeOK /\ position \in Nat /\ Len(buf) \in Nat /\ ReadSoFar /\ NotBegun
  BY CodecFile
<1>2. section = "feature_flags" /\ FlagsRead
  BY <1>1 DEF ReadSoFar, ReadFlagsHead, ReadFlag, FlagsEnd, EntriesEnd, Accept, At
<1>3. BeforeFlags \in Seq(Nat) /\ <<1>> \in Seq(Nat) /\ BeforeFlags' = BeforeFlags
  BY <1>1, BeforesTyped DEF BeforeFlags
<1>4. flags \in Seq(FlagType) /\ left \in Nat /\ Len(flags) \in Nat
  BY <1>1 DEF TypeOK
<1>5. CASE ReadFlagsHead
  <2>1. /\ Passes(FlagsHeadChecks) /\ step = "head" /\ Advance(5)
        /\ section' = "feature_flags" /\ step' = "entries" /\ left' = U32(1) /\ flags' = flags
    BY <1>2, <1>5 DEF ReadFlagsHead, Accept, At
  <2>2. position + 5 <= Len(buf) /\ U32(1) * 3 <= Len(buf) - (position + 5) /\ U8(0) = 1
    BY <1>1, <2>1, FlagsHeadPassed, VersionsRead
  <2>3. U32(1) \in Nat
    BY <1>1, U32Range
  <2>4. U32(1) <= Len(buf)
    BY <1>1, <2>2, <2>3
  <2>5. Bytes(0, 5) = <<1>> \o PackU32(U32(1))
    BY <1>1, <2>2, <2>4, PlainHeadAgain
  <2>6. flags = <<>>
    BY <1>1, <1>2, <2>1 DEF NotBegun, Ahead
  <2>7. ReadBytes' = UpTo(BeforeFlags, <<1>>, U32(1), <<>>)
    <3>1. 5 \in Nat /\ ReadBytes = BeforeFlags
      BY <1>2, <2>1 DEF FlagsRead
    <3>. QED
      BY <1>1, <1>3, <2>1, <2>2, <2>3, <2>5, <3>1, HeadRead, Zenon
  <2>8. FlagsSoFar' = <<1>> \o Listed(U32(1), <<>>)
    <3>1. Len(flags') + left' = U32(1) /\ FlagBytes(flags') = <<>>
      BY <2>1, <2>3, <2>6, NoBytes
    <3>. QED
      BY <3>1 DEF FlagsSoFar
  <2>9. FlagsRead'
    BY <1>3, <2>1, <2>7, <2>8 DEF FlagsRead, UpTo
  <2>. QED
    BY <2>1, <2>9 DEF ReadSoFar
<1>6. CASE ReadFlag
  <2>1. /\ Passes(FlagChecks) /\ step = "entries" /\ Advance(3)
        /\ section' = "feature_flags" /\ step' = "entries" /\ left > 0 /\ left' = left - 1
        /\ flags' = Append(flags, NextFlag)
    BY <1>2, <1>6 DEF ReadFlag, Accept, At, MoreEntries, FLAG_ENTRY_LEN, NextFlag
  <2>2. position + 3 <= Len(buf) /\ NextFlag \in FlagType /\ EncodeFlag(NextFlag) = Bytes(0, 3)
    BY <1>1, <2>1, FlagAgain
  <2>3. OneMore(FlagBytes(flags), FlagBytes(flags'), Bytes(0, 3))
    BY <1>4, <2>1, <2>2, FlagMore
  <2>4. ReadBytes = UpTo(BeforeFlags, <<1>>, Len(flags) + left, FlagBytes(flags))
    BY <1>2, <2>1 DEF FlagsRead, FlagsSoFar, UpTo
  <2>5. ReadBytes' = UpTo(BeforeFlags, <<1>>, Len(flags) + left, FlagBytes(flags'))
    <3>1. 3 \in Nat /\ Len(flags) + left \in Nat
      BY <1>4
    <3>. QED
      BY <1>1, <1>3, <2>1, <2>2, <2>3, <2>4, <3>1, ItemRead, Zenon
  <2>6. Len(flags') + left' = Len(flags) + left
    BY <1>4, <2>1, <2>2
  <2>7. FlagsRead'
    BY <1>3, <2>1, <2>5, <2>6 DEF FlagsRead, FlagsSoFar, UpTo
  <2>. QED
    BY <2>1, <2>7 DEF ReadSoFar
<1>7. CASE FlagsEnd
  <2>1. /\ step = "entries" /\ left = 0 /\ position' = position + 0 /\ buf' = buf
        /\ section' = "metadata_reference" /\ step' = "head" /\ flags' = flags
    BY <1>2, <1>7, NextSectionsAre DEF FlagsEnd, EntriesEnd, Return, Advance, At
  <2>2. ReadBytes' = ReadBytes
    BY <1>1, <2>1 DEF ReadBytes
  <2>3. FlagsSoFar = EncodeFeatureFlags(flags)
    <3>1. Len(flags) + left = Len(flags)
      BY <1>4, <2>1
    <3>. QED
      BY <3>1, WholeLists, Zenon DEF FlagsSoFar, EncodeFeatureFlags
  <2>4. BeforeReference' = BeforeFlags \o FlagsSoFar
    BY <1>3, <2>1, <2>3 DEF BeforeReference
  <2>5. ReferenceRead'
    BY <1>2, <2>1, <2>2, <2>4 DEF FlagsRead, ReferenceRead
  <2>. QED
    BY <2>1, <2>5 DEF ReadSoFar
<1>. QED
  BY <1>5, <1>6, <1>7

\* A length-prefixed byte string, encoded again.
LEMMA TailAgain ==
    ASSUME FileOK, Passes(MetadataTailChecks) \/ Passes(HintChecks)
    PROVE  /\ U32(0) \in Nat /\ 4 + U32(0) \in Nat /\ position + (4 + U32(0)) <= Len(buf)
           /\ NextUri \in ByteString /\ EncodeBytes(NextUri) = Bytes(0, 4 + U32(0))
<1>1. CursorOK /\ position \in Nat /\ Len(buf) \in Nat
  BY FileNumbers
<1>2. position + 4 + U32(0) <= Len(buf)
  BY <1>1, MetadataTailPassed, HintPassed
<1>3. U32(0) \in Nat /\ NextUri \in ByteString /\ EncodeBytes(NextUri) = Bytes(0, 4 + U32(0))
  BY <1>2, NextUriAgain
<1>4. PICK n \in Nat : n = U32(0)
  BY <1>3
<1>5. 4 + n \in Nat /\ position + (4 + n) <= Len(buf)
  BY <1>1, <1>2, <1>4
<1>. QED
  BY <1>3, <1>4, <1>5

LEMMA LocatorAgain ==
    ASSUME FileOK, Passes(LocatorChecks)
    PROVE  /\ U32(0) \in Nat /\ 4 + U32(0) \in Nat /\ position + (4 + U32(0)) <= Len(buf)
           /\ NextUri \in ByteString /\ EncodeBytes(NextUri) = Bytes(0, 4 + U32(0))
<1>1. CursorOK /\ position \in Nat /\ Len(buf) \in Nat
  BY FileNumbers
<1>2. position + 4 + U32(0) <= Len(buf)
  BY <1>1, LocatorPassed
<1>3. U32(0) \in Nat /\ NextUri \in ByteString /\ EncodeBytes(NextUri) = Bytes(0, 4 + U32(0))
  BY <1>2, NextUriAgain
<1>4. PICK n \in Nat : n = U32(0)
  BY <1>3
<1>5. 4 + n \in Nat /\ position + (4 + n) <= Len(buf)
  BY <1>1, <1>2, <1>4
<1>. QED
  BY <1>3, <1>4, <1>5

\* One turn of parse_locator_entries, whichever section called it.
LEMMA LocatorReadOn ==
    ASSUME NEW x, NEW h, x \in Seq(Nat), h \in Seq(Nat),
           CodecInv, ReadLocator,
           ReadBytes = UpTo(x, h, Len(locators) + locators_left, UriBytes(locators))
    PROVE  ReadBytes' = UpTo(x, h, Len(locators') + locators_left', UriBytes(locators'))
<1>1. FileOK /\ TypeOK /\ CursorOK
  BY CodecFile
<1>2. locators \in Seq(ByteString) /\ locators_left \in Nat /\ Len(locators) \in Nat
  BY <1>1, CursorKept DEF TypeOK
<1>3. /\ Passes(LocatorChecks) /\ Advance(4 + U32(0)) /\ locators_left > 0
      /\ locators' = Append(locators, NextUri) /\ locators_left' = locators_left - 1
  BY DEF ReadLocator, Accept, MoreLocators, NextUri
<1>4. /\ 4 + U32(0) \in Nat /\ position + (4 + U32(0)) <= Len(buf)
      /\ NextUri \in ByteString /\ EncodeBytes(NextUri) = Bytes(0, 4 + U32(0))
  BY <1>1, <1>3, LocatorAgain
<1>5. OneMore(UriBytes(locators), UriBytes(locators'), EncodeBytes(NextUri))
  BY <1>2, <1>3, <1>4, UriMore
<1>6. PICK n : n = 4 + U32(0)
  OBVIOUS
<1>7. PICK c \in Nat : c = Len(locators) + locators_left
  BY <1>2
<1>8. /\ FileOK /\ n \in Nat /\ position + n <= Len(buf) /\ Advance(n)
      /\ OneMore(UriBytes(locators), UriBytes(locators'), Bytes(0, n))
      /\ ReadBytes = UpTo(x, h, c, UriBytes(locators))
  BY <1>1, <1>3, <1>4, <1>5, <1>6, <1>7
<1>9. ReadBytes' = UpTo(x, h, c, UriBytes(locators'))
  BY <1>8, ItemRead, Zenon
<1>10. Len(locators') + locators_left' = c
  BY <1>2, <1>3, <1>4, <1>7
<1>. QED
  BY <1>9, <1>10

LEMMA ReferenceTyped ==
    ASSUME TypeOK
    PROVE  /\ metadata_reference.metadata_hash \in Seq(Nat)
           /\ <<1>> \o metadata_reference.metadata_hash \in Seq(Nat)
           /\ locators \in Seq(ByteString) /\ UriBytes(locators) \in Seq(Seq(Nat))
           /\ locators_left \in Nat /\ Len(locators) \in Nat
<1>1. metadata_reference.metadata_hash \in Seq(Nat)
  BY BytesAreNumbers DEF TypeOK, MetadataReferenceType
<1>2. <<1>> \in Seq(Nat)
  OBVIOUS
<1>3. locators \in Seq(ByteString) /\ locators_left \in Nat /\ Len(locators) \in Nat
  BY CursorKept DEF TypeOK
<1>. QED
  BY <1>1, <1>2, <1>3, UrisTyped, OneAfterTheOther, Zenon

\* The metadata reference: its hash, its locators, its inline metadata.
LEMMA ReferenceReadOn ==
    ASSUME CodecInv, section = "metadata_reference",
           \/ ReadMetadataHead
           \/ ReadMetadataTail
           \/ ReadLocator /\ UNCHANGED metadata_reference,
           UNCHANGED <<header, flags>>
    PROVE  ReadSoFar'
<1>1. FileOK /\ CursorOK /\ TypeOK /\ position \in Nat /\ Len(buf) \in Nat /\ ReadSoFar
  BY CodecFile
<1>2. ReferenceRead
  BY <1>1 DEF ReadSoFar
<1>3. BeforeReference \in Seq(Nat) /\ BeforeReference' = BeforeReference
  BY <1>1, BeforesTyped DEF BeforeReference, BeforeFlags
<1>4. CASE ReadMetadataHead
  <2>1. /\ Passes(MetadataHeadChecks) /\ step = "head" /\ Advance(37)
        /\ section' = "metadata_reference" /\ step' = "locators"
        /\ locators' = <<>> /\ locators_left' = U32(33)
    BY <1>4 DEF ReadMetadataHead, Accept, At, BeginLocators
  <2>2. metadata_reference'.metadata_hash = Bytes(1, 32)
    BY <1>1, <1>4 DEF ReadMetadataHead, TypeOK, MetadataReferenceType
  <2>3. position + 37 <= Len(buf) /\ U32(33) <= Len(buf) /\ U8(0) = 1
    BY <1>1, <2>1, MetadataHeadPassed, VersionsRead
  <2>4. U32(33) \in Nat /\ Bytes(0, 37) = (<<1>> \o Bytes(1, 32)) \o PackU32(U32(33))
    BY <1>1, <2>3, ReferenceHeadAgain
  <2>5. PICK h : h = <<1>> \o Bytes(1, 32)
    OBVIOUS
  <2>6. h \in Seq(Nat)
    <3>1. 1 \in Nat /\ 32 \in Nat /\ position + 1 + 32 <= Len(buf)
      BY <1>1, <2>3
    <3>2. Bytes(1, 32) \in ByteString
      BY <1>1, <3>1, BytesRead, Zenon DEF ByteString
    <3>3. <<1>> \in Seq(Nat) /\ Bytes(1, 32) \in Seq(Nat)
      BY <3>2, BytesAreNumbers
    <3>. QED
      BY <2>5, <3>3, OneAfterTheOther, Zenon
  <2>7. ReadBytes' = UpTo(BeforeReference, h, U32(33), <<>>)
    <3>1. 37 \in Nat /\ ReadBytes = BeforeReference /\ Bytes(0, 37) = h \o PackU32(U32(33))
      BY <1>2, <2>1, <2>4, <2>5 DEF ReferenceRead
    <3>. QED
      BY <1>1, <1>3, <2>1, <2>3, <2>4, <2>6, <3>1, HeadRead, Zenon
  <2>8. ReferenceSoFar' = h \o Listed(U32(33), <<>>)
    <3>1. Len(locators') + locators_left' = U32(33) /\ UriBytes(locators') = <<>>
      BY <2>1, <2>4, NoBytes
    <3>. QED
      BY <2>2, <2>5, <3>1 DEF ReferenceSoFar
  <2>9. ReferenceRead'
    BY <1>3, <2>1, <2>7, <2>8 DEF ReferenceRead, UpTo
  <2>. QED
    BY <2>1, <2>9 DEF ReadSoFar
<1>5. CASE ReadLocator /\ UNCHANGED metadata_reference
  <2>1. step = "locators" /\ step' = "locators" /\ section' = "metadata_reference"
    BY <1>5 DEF ReadLocator, Accept, At
  <2>2. PICK h : h = <<1>> \o metadata_reference.metadata_hash
    OBVIOUS
  <2>3. h \in Seq(Nat)
    BY <1>1, <2>2, ReferenceTyped
  <2>4. ReadBytes = UpTo(BeforeReference, h, Len(locators) + locators_left, UriBytes(locators))
    BY <1>2, <2>1, <2>2 DEF ReferenceRead, ReferenceSoFar, UpTo
  <2>5. ReadBytes' = UpTo(BeforeReference, h, Len(locators') + locators_left', UriBytes(locators'))
    BY <1>3, <1>5, <2>3, <2>4, LocatorReadOn, Zenon
  <2>6. ReferenceRead'
    BY <1>3, <1>5, <2>1, <2>2, <2>5 DEF ReferenceRead, ReferenceSoFar, UpTo
  <2>. QED
    BY <2>1, <2>6 DEF ReadSoFar
<1>6. CASE ReadMetadataTail
  <2>1. /\ Passes(MetadataTailChecks) /\ step = "locators" /\ ~MoreLocators /\ Advance(4 + U32(0))
        /\ section' = "slab_index" /\ step' = "head"
    BY <1>6, NextSectionsAre DEF ReadMetadataTail, Return, At
  <2>2. /\ metadata_reference'.metadata_hash = metadata_reference.metadata_hash
        /\ metadata_reference'.locators = locators /\ metadata_reference'.inline_metadata = NextUri
    BY <1>1, <1>6 DEF ReadMetadataTail, TypeOK, MetadataReferenceType, NextUri
  <2>3. /\ 4 + U32(0) \in Nat /\ position + (4 + U32(0)) <= Len(buf)
        /\ NextUri \in ByteString /\ EncodeBytes(NextUri) = Bytes(0, 4 + U32(0))
    BY <1>1, <2>1, TailAgain
  <2>4. PICK a : a = ReferenceSoFar
    OBVIOUS
  <2>5. PICK b : b = EncodeBytes(NextUri)
    OBVIOUS
  <2>6. a \in Seq(Nat) /\ b \in Seq(Nat)
    <3>1. Len(locators) + locators_left \in Nat
      BY <1>1, ReferenceTyped
    <3>2. Listed(Len(locators) + locators_left, UriBytes(locators)) \in Seq(Nat)
      BY <1>1, <3>1, ReferenceTyped, ListedTyped
    <3>3. <<1>> \o metadata_reference.metadata_hash \in Seq(Nat)
      BY <1>1, ReferenceTyped
    <3>4. a \in Seq(Nat)
      BY <2>4, <3>2, <3>3, OneAfterTheOther, Zenon DEF ReferenceSoFar
    <3>. QED
      BY <2>3, <2>5, <3>4, BytesTyped
  <2>7. ReadBytes' = BeforeReference \o (a \o b)
    <3>1. ReadBytes = BeforeReference \o a /\ Bytes(0, 4 + U32(0)) = b
      BY <1>2, <2>1, <2>3, <2>4, <2>5 DEF ReferenceRead
    <3>. QED
      BY <1>1, <1>3, <2>1, <2>3, <2>6, <3>1, TailRead, Zenon
  <2>8. a \o b = EncodeMetadataReference(metadata_reference')
    <3>1. Len(locators) + locators_left = Len(locators)
      BY <1>1, <2>1, ReferenceTyped DEF MoreLocators
    <3>2. a = (<<1>> \o metadata_reference.metadata_hash) \o EncodeList(locators, EncodeBytes)
      BY <2>4, <3>1, WholeLists, Zenon DEF ReferenceSoFar
    <3>. QED
      BY <2>2, <2>5, <3>2, Zenon DEF EncodeMetadataReference
  <2>9. BeforeSlabIndex' = BeforeReference \o (a \o b)
    BY <1>3, <2>8 DEF BeforeSlabIndex
  <2>10. SlabsRead'
    BY <2>1, <2>7, <2>9 DEF SlabsRead
  <2>. QED
    BY <2>1, <2>10 DEF ReadSoFar
<1>. QED
  BY <1>4, <1>5, <1>6

\* The last entry of an index that has one, and the others.
LEMMA LastSlab ==
    ASSUME NEW list \in Seq(SlabEntryType), list # <<>>
    PROVE  /\ Len(list) \in Nat /\ Len(list) >= 1
           /\ Last(list) = list[Len(list)] /\ Last(list) \in SlabEntryType
           /\ Front(list) \in Seq(SlabEntryType) /\ Len(Front(list)) = Len(list) - 1
<1>1. Len(list) \in Nat /\ Len(list) >= 1
  OBVIOUS
<1>2. Last(list) = list[Len(list)] /\ Last(list) \in SlabEntryType
  BY <1>1 DEF Last
<1>3. Front(list) \in Seq(SlabEntryType) /\ Len(Front(list)) = Len(list) - 1
  <2>1. \A n \in 0..Len(list) : SubSeq(list, 1, n) \in Seq(SlabEntryType) /\ Len(SubSeq(list, 1, n)) = n
    BY <1>1
  <2>2. Len(list) - 1 \in 0..Len(list)
    BY <1>1
  <2>. QED
    BY <2>1, <2>2 DEF Front
<1>. QED
  BY <1>1, <1>2, <1>3

LEMMA SlabAppended ==
    ASSUME NEW list \in Seq(SlabEntryType), NEW e \in SlabEntryType
    PROVE  LET longer == Append(list, e)
           IN  /\ longer # <<>> /\ Len(longer) - 1 = Len(list)
               /\ Front(longer) = list /\ Last(longer) = e
<1> DEFINE longer == Append(list, e)
<1>1. longer \in Seq(SlabEntryType) /\ Len(longer) = Len(list) + 1 /\ Len(list) \in Nat
  OBVIOUS
<1>2. longer[Len(longer)] = e /\ longer # <<>>
  OBVIOUS
<1>3. Front(longer) = list
  BY <1>1 DEF Front
<1>4. Last(longer) = e
  BY <1>2 DEF Last
<1>. QED
  BY <1>1, <1>2, <1>3, <1>4

\* The entry is complete: its locators are noted in it.
LEMMA SlabCompleted ==
    ASSUME NEW list \in Seq(SlabEntryType), list # <<>>, NEW uris \in Seq(ByteString)
    PROVE  [list EXCEPT ![Len(list)].locators = uris]
             = Append(Front(list), [slab_id |-> Last(list).slab_id, locators |-> uris])
<1> DEFINE e == [slab_id |-> Last(list).slab_id, locators |-> uris]
           done == [list EXCEPT ![Len(list)].locators = uris]
           longer == Append(Front(list), e)
<1>1. /\ Len(list) \in Nat /\ Len(list) >= 1
      /\ Last(list) = list[Len(list)] /\ Last(list) \in SlabEntryType
      /\ Front(list) \in Seq(SlabEntryType) /\ Len(Front(list)) = Len(list) - 1
  BY LastSlab
<1>2. e \in SlabEntryType
  BY <1>1 DEF SlabEntryType
<1>3. done \in Seq(SlabEntryType) /\ Len(done) = Len(list)
  <2>1. [list[Len(list)] EXCEPT !.locators = uris] \in SlabEntryType
    BY <1>1 DEF SlabEntryType
  <2>. QED
    BY <1>1, <2>1
<1>4. longer \in Seq(SlabEntryType) /\ Len(longer) = Len(list)
  BY <1>1, <1>2
<1>5. \A i \in 1..Len(list) : done[i] = longer[i]
  <2> TAKE i \in 1..Len(list)
  <2>1. CASE i = Len(list)
    <3>1. done[i] = [list[i] EXCEPT !.locators = uris]
      BY <1>1, <2>1
    <3>2. [list[i] EXCEPT !.locators = uris] = e
      BY <1>1, <2>1 DEF SlabEntryType
    <3>3. longer[i] = e
      BY <1>1, <1>2, <2>1
    <3>. QED
      BY <3>1, <3>2, <3>3
  <2>2. CASE i # Len(list)
    <3>1. done[i] = list[i]
      BY <1>1, <2>2
    <3>2. i \in 1..Len(Front(list)) /\ Front(list)[i] = list[i]
      BY <1>1, <2>2 DEF Front
    <3>3. longer[i] = Front(list)[i]
      BY <1>1, <1>2, <3>2
    <3>. QED
      BY <3>1, <3>2, <3>3
  <2>. QED
    BY <2>1, <2>2
<1> HIDE DEF done, longer
<1>6. done = longer
  BY <1>3, <1>4, <1>5
<1>. QED
  BY <1>6 DEF done, longer, e

\* The open entry and all before it are numbers.
LEMMA OpenSlabTyped ==
    ASSUME TypeOK, slab_index # <<>>
    PROVE  BeforeOpenSlab \in Seq(Nat) /\ Last(slab_index).slab_id \in Seq(Nat)
<1>1. slab_index \in Seq(SlabEntryType) /\ left \in Nat
  BY CursorKept DEF TypeOK
<1>2. /\ Len(slab_index) \in Nat /\ Len(slab_index) >= 1
      /\ Last(slab_index) \in SlabEntryType /\ Front(slab_index) \in Seq(SlabEntryType)
  BY <1>1, LastSlab
<1>3. Last(slab_index).slab_id \in Seq(Nat)
  BY <1>2, BytesAreNumbers DEF SlabEntryType
<1>4. (Len(slab_index) - 1) + left \in Nat /\ SlabBytes(Front(slab_index)) \in Seq(Seq(Nat))
  BY <1>1, <1>2, SlabsTyped
<1>5. Listed((Len(slab_index) - 1) + left, SlabBytes(Front(slab_index))) \in Seq(Nat)
  BY <1>4, ListedTyped
<1>6. <<1>> \in Seq(Nat) /\ BeforeSlabIndex \in Seq(Nat)
  BY BeforesTyped
<1>7. BeforeOpenSlab \in Seq(Nat)
  BY <1>5, <1>6, OneAfterTheOther, Zenon DEF BeforeOpenSlab
<1>. QED
  BY <1>3, <1>7

\* The slab index: an entry is the last of the index while its locators are read.
LEMMA SlabIndexReadOn ==
    ASSUME CodecInv, section = "slab_index",
           \/ ReadSlabIndexHead
           \/ ReadSlabEntry
           \/ ReadLocator /\ UNCHANGED slab_index
           \/ SlabEntryRead
           \/ SlabIndexEnd,
           UNCHANGED <<header, flags, metadata_reference>>
    PROVE  ReadSoFar'
<1>1. /\ FileOK /\ CursorOK /\ TypeOK /\ position \in Nat /\ Len(buf) \in Nat /\ ReadSoFar /\ NotBegun
      /\ LocatorsOpen
  BY CodecFile DEF CodecInv, IInv
<1>2. SlabsRead
  BY <1>1 DEF ReadSoFar
<1>3. BeforeSlabIndex \in Seq(Nat) /\ BeforeSlabIndex' = BeforeSlabIndex /\ <<1>> \in Seq(Nat)
  BY <1>1, BeforesTyped DEF BeforeSlabIndex, BeforeReference, BeforeFlags
<1>4. /\ slab_index \in Seq(SlabEntryType) /\ left \in Nat /\ Len(slab_index) \in Nat
      /\ locators \in Seq(ByteString) /\ locators_left \in Nat /\ Len(locators) \in Nat
  BY <1>1, ReferenceTyped DEF TypeOK
<1>5. CASE ReadSlabIndexHead
  <2>1. /\ Passes(SlabIndexHeadChecks) /\ step = "head" /\ Advance(5)
        /\ section' = "slab_index" /\ step' = "entries" /\ left' = U32(1) /\ slab_index' = slab_index
    BY <1>5 DEF ReadSlabIndexHead, Accept, At
  <2>2. position + 5 <= Len(buf) /\ U32(1) <= Len(buf) /\ U8(0) = 1
    BY <1>1, <2>1, SlabIndexHeadPassed, VersionsRead
  <2>3. U32(1) \in Nat /\ Bytes(0, 5) = <<1>> \o PackU32(U32(1))
    BY <1>1, <2>2, PlainHeadAgain
  <2>4. slab_index = <<>>
    BY <1>1, <2>1 DEF NotBegun, Ahead
  <2>5. ReadBytes' = UpTo(BeforeSlabIndex, <<1>>, U32(1), <<>>)
    <3>1. 5 \in Nat /\ ReadBytes = BeforeSlabIndex
      BY <1>2, <2>1 DEF SlabsRead
    <3>. QED
      BY <1>1, <1>3, <2>1, <2>2, <2>3, <3>1, HeadRead, Zenon
  <2>6. SlabsSoFar' = <<1>> \o Listed(U32(1), <<>>)
    <3>1. Len(slab_index') + left' = U32(1) /\ SlabBytes(slab_index') = <<>>
      BY <2>1, <2>3, <2>4, NoBytes
    <3>. QED
      BY <3>1 DEF SlabsSoFar
  <2>7. SlabsRead'
    BY <1>3, <2>1, <2>5, <2>6 DEF SlabsRead, UpTo
  <2>. QED
    BY <2>1, <2>7 DEF ReadSoFar
<1>6. CASE ReadSlabEntry
  <2>1. /\ Passes(SlabEntryChecks) /\ step = "entries" /\ Advance(44)
        /\ section' = "slab_index" /\ step' = "locators" /\ left' = left
        /\ locators' = <<>> /\ locators_left' = U32(40)
        /\ slab_index' = Append(slab_index, [slab_id |-> Bytes(0, 40), locators |-> <<>>])
    BY <1>6 DEF ReadSlabEntry, Accept, At, BeginLocators, SLAB_ENTRY_FIXED_LEN, SLAB_ID_LEN
  <2>2. position + 44 <= Len(buf) /\ U32(40) <= Len(buf)
    BY <1>1, <2>1, SlabEntryPassed DEF SLAB_ID_LEN
  <2>3. U32(40) \in Nat /\ Bytes(0, 44) = Bytes(0, 40) \o PackU32(U32(40))
    BY <1>1, <2>2, SlabEntryHeadAgain
  <2>4. Bytes(0, 40) \in ByteString
    <3>1. 0 \in Nat /\ 40 \in Nat /\ position + 0 + 40 <= Len(buf)
      BY <1>1, <2>2
    <3>. QED
      BY <1>1, <3>1, BytesRead, Zenon DEF ByteString
  <2>5. PICK e \in SlabEntryType : e = [slab_id |-> Bytes(0, 40), locators |-> <<>>]
    <3>1. <<>> \in Seq(ByteString)
      OBVIOUS
    <3>2. [slab_id |-> Bytes(0, 40), locators |-> <<>>] \in SlabEntryType
      BY <2>4, <3>1 DEF SlabEntryType
    <3>. QED
      BY <3>2
  <2>6. /\ Len(slab_index') - 1 = Len(slab_index)
        /\ Front(slab_index') = slab_index /\ Last(slab_index') = e
    BY <1>4, <2>1, <2>5, SlabAppended
  <2>7. BeforeOpenSlab' = BeforeSlabIndex \o SlabsSoFar
    BY <1>3, <2>1, <2>6, Zenon DEF BeforeOpenSlab, SlabsSoFar
  <2>8. PICK x : x = BeforeSlabIndex \o SlabsSoFar
    OBVIOUS
  <2>9. x \in Seq(Nat)
    <3>1. Listed(Len(slab_index) + left, SlabBytes(slab_index)) \in Seq(Nat)
      BY <1>4, SlabsTyped, ListedTyped
    <3>. QED
      BY <1>3, <2>8, <3>1, OneAfterTheOther, Zenon DEF SlabsSoFar
  <2>10. ReadBytes' = UpTo(x, Bytes(0, 40), U32(40), <<>>)
    <3>1. 44 \in Nat /\ ReadBytes = x
      BY <1>2, <2>1, <2>8 DEF SlabsRead
    <3>2. Bytes(0, 40) \in Seq(Nat)
      BY <2>4, BytesAreNumbers
    <3>. QED
      BY <1>1, <2>1, <2>2, <2>3, <2>9, <3>1, <3>2, HeadRead, Zenon
  <2>11. OpenSlabSoFar' = Bytes(0, 40) \o Listed(U32(40), <<>>)
    <3>1. Len(locators') + locators_left' = U32(40) /\ UriBytes(locators') = <<>>
      BY <2>1, <2>3, NoBytes
    <3>2. Last(slab_index').slab_id = Bytes(0, 40)
      BY <2>5, <2>6
    <3>. QED
      BY <3>1, <3>2, Zenon DEF OpenSlabSoFar
  <2>12. SlabsRead'
    BY <2>1, <2>7, <2>8, <2>10, <2>11 DEF SlabsRead, UpTo
  <2>. QED
    BY <2>1, <2>12 DEF ReadSoFar
<1>7. CASE ReadLocator /\ UNCHANGED slab_index
  <2>1. step = "locators" /\ step' = "locators" /\ section' = "slab_index" /\ left' = left
    BY <1>7 DEF ReadLocator, Accept, At
  <2>2. slab_index # <<>>
    BY <1>1, <2>1 DEF LocatorsOpen
  <2>3. BeforeOpenSlab \in Seq(Nat) /\ Last(slab_index).slab_id \in Seq(Nat)
    BY <1>1, <2>2, OpenSlabTyped
  <2>4. BeforeOpenSlab' = BeforeOpenSlab
    BY <1>3, <1>7, <2>1 DEF BeforeOpenSlab
  <2>5. PICK h \in Seq(Nat) : h = Last(slab_index).slab_id
    BY <2>3
  <2>6. ReadBytes = UpTo(BeforeOpenSlab, h, Len(locators) + locators_left, UriBytes(locators))
    BY <1>2, <2>1, <2>5 DEF SlabsRead, OpenSlabSoFar, UpTo
  <2>7. ReadBytes' = UpTo(BeforeOpenSlab, h, Len(locators') + locators_left', UriBytes(locators'))
    BY <1>7, <2>3, <2>5, <2>6, LocatorReadOn, Zenon
  <2>8. SlabsRead'
    BY <1>7, <2>1, <2>4, <2>5, <2>7 DEF SlabsRead, OpenSlabSoFar, UpTo
  <2>. QED
    BY <2>1, <2>8 DEF ReadSoFar
<1>8. CASE SlabEntryRead
  <2>1. /\ step = "locators" /\ ~MoreLocators /\ position' = position /\ buf' = buf
        /\ section' = "slab_index" /\ step' = "entries" /\ left' = left - 1
        /\ slab_index' = [slab_index EXCEPT ![Len(slab_index)].locators = locators]
    BY <1>8 DEF SlabEntryRead, At
  <2>2. slab_index # <<>>
    BY <1>1, <2>1 DEF LocatorsOpen
  <2>3. /\ Len(slab_index) >= 1 /\ Last(slab_index) \in SlabEntryType
        /\ Front(slab_index) \in Seq(SlabEntryType) /\ Len(Front(slab_index)) = Len(slab_index) - 1
    BY <1>4, <2>2, LastSlab
  <2>4. PICK e \in SlabEntryType : e = [slab_id |-> Last(slab_index).slab_id, locators |-> locators]
    BY <1>4, <2>3 DEF SlabEntryType
  <2>5. slab_index' = Append(Front(slab_index), e)
    BY <1>4, <2>1, <2>2, <2>4, SlabCompleted
  <2>6. OneMore(SlabBytes(Front(slab_index)), SlabBytes(slab_index'), EncodeSlabEntry(e))
    BY <2>3, <2>5, SlabMore
  <2>7. OpenSlabSoFar = EncodeSlabEntry(e)
    <3>1. Len(locators) + locators_left = Len(locators)
      BY <1>4, <2>1 DEF MoreLocators
    <3>2. e.slab_id = Last(slab_index).slab_id /\ e.locators = locators
      BY <2>4
    <3>. QED
      BY <3>1, <3>2, WholeLists, Zenon DEF OpenSlabSoFar, EncodeSlabEntry
  <2>8. PICK c \in Nat : c = (Len(slab_index) - 1) + left
    BY <1>4, <2>3
  <2>9. Len(slab_index') + left' = c
    BY <1>4, <2>1, <2>3, <2>5, <2>8
  <2>10. GrowsBy(BeforeSlabIndex, <<1>>, c, SlabBytes(Front(slab_index)), SlabBytes(slab_index'),
                 EncodeSlabEntry(e))
    BY <1>3, <2>6, ListedGrows, Zenon
  <2>11. ReadBytes' = BeforeOpenSlab \o EncodeSlabEntry(e)
    BY <1>2, <2>1, <2>7 DEF SlabsRead, ReadBytes
  <2>12. BeforeOpenSlab = UpTo(BeforeSlabIndex, <<1>>, c, SlabBytes(Front(slab_index)))
    BY <2>8 DEF BeforeOpenSlab, UpTo
  <2>13. ReadBytes' = UpTo(BeforeSlabIndex, <<1>>, c, SlabBytes(slab_index'))
    BY <2>10, <2>11, <2>12, Zenon DEF GrowsBy
  <2>14. SlabsRead'
    BY <1>3, <2>1, <2>9, <2>13 DEF SlabsRead, SlabsSoFar, UpTo
  <2>. QED
    BY <2>1, <2>14 DEF ReadSoFar
<1>9. CASE SlabIndexEnd
  <2>1. /\ step = "entries" /\ left = 0 /\ position' = position + 0 /\ buf' = buf
        /\ section' = "ec_params" /\ step' = "head" /\ slab_index' = slab_index
    BY <1>9, NextSectionsAre DEF SlabIndexEnd, EntriesEnd, Return, Advance, At
  <2>2. ReadBytes' = ReadBytes
    BY <1>1, <2>1 DEF ReadBytes
  <2>3. SlabsSoFar = EncodeSlabIndex(slab_index)
    <3>1. Len(slab_index) + left = Len(slab_index)
      BY <1>4, <2>1
    <3>. QED
      BY <3>1, WholeLists, Zenon DEF SlabsSoFar, EncodeSlabIndex
  <2>4. BeforeEc' = BeforeSlabIndex \o SlabsSoFar
    BY <1>3, <2>1, <2>3 DEF BeforeEc
  <2>5. EcRead'
    BY <1>2, <2>1, <2>2, <2>4 DEF SlabsRead, EcRead
  <2>. QED
    BY <2>1, <2>5 DEF ReadSoFar
<1>. QED
  BY <1>5, <1>6, <1>7, <1>8, <1>9

\* A section that is not declared is written as nothing.
LEMMA SkipReadOn ==
    ASSUME CodecInv, SkipEcParams \/ SkipDmsPolicy,
           UNCHANGED <<header, flags, metadata_reference, slab_index, ec_params, dms_policy>>
    PROVE  ReadSoFar'
<1>1. position \in Nat /\ ReadSoFar
  BY CodecFile
<1>2. step = "head" /\ position' = position + 0 /\ buf' = buf /\ step' = "head"
  BY DEF SkipEcParams, SkipDmsPolicy, At, Return, Advance
<1>3. ReadBytes' = ReadBytes
  BY <1>1, <1>2 DEF ReadBytes
<1>4. /\ BeforeEc' = BeforeEc /\ HasFlag(EC_FLAG)' = HasFlag(EC_FLAG)
      /\ HasFlag(DMS_FLAG)' = HasFlag(DMS_FLAG)
  BY DEF BeforeEc, BeforeSlabIndex, BeforeReference, BeforeFlags, HasFlag
<1>5. BeforeDms' = BeforeDms
  BY <1>4 DEF BeforeDms
<1>6. BeforeDms \in Seq(Nat) /\ BeforeEc \in Seq(Nat)
  BY CodecFile, BeforesTyped
<1>7. CASE SkipEcParams
  <2>1. section = "ec_params" /\ section' = "dms_policy" /\ ~HasFlag(EC_FLAG)
    BY <1>7, NextSectionsAre DEF SkipEcParams, At, Return
  <2>2. ReadBytes = BeforeEc
    BY <1>1, <1>2, <2>1 DEF ReadSoFar, EcRead
  <2>3. BeforeDms = BeforeEc
    BY <1>6, <2>1 DEF BeforeDms
  <2>4. DmsRead'
    BY <1>2, <1>3, <1>5, <2>2, <2>3 DEF DmsRead
  <2>. QED
    BY <2>1, <2>4 DEF ReadSoFar
<1>8. CASE SkipDmsPolicy
  <2>1. section = "dms_policy" /\ section' = "history" /\ ~HasFlag(DMS_FLAG)
    BY <1>8, NextSectionsAre DEF SkipDmsPolicy, At, Return
  <2>2. ReadBytes = BeforeDms
    BY <1>1, <1>2, <2>1 DEF ReadSoFar, DmsRead
  <2>3. BeforeHistory' = BeforeDms
    BY <1>4, <1>5, <1>6, <2>1 DEF BeforeHistory
  <2>4. HistoryRead'
    BY <1>2, <1>3, <2>2, <2>3 DEF HistoryRead
  <2>. QED
    BY <2>1, <2>4 DEF ReadSoFar
<1>. QED
  BY <1>7, <1>8

\* The EC parameters.
LEMMA EcTyped ==
    ASSUME TypeOK
    PROVE  /\ ec_params.overrides \in Seq(OverrideType) /\ Len(ec_params.overrides) \in Nat
           /\ <<1, ec_params.k, ec_params.m>> \o PackU16(DEFAULT_EC_POLYNOMIAL) \in Seq(Nat)
<1>1. ec_params.k \in Nat /\ ec_params.m \in Nat /\ ec_params.overrides \in Seq(OverrideType)
  BY WidthsAreNumbers DEF TypeOK, EcParamsType, OverrideType
<1>2. <<1, ec_params.k, ec_params.m>> \in Seq(Nat) /\ PackU16(DEFAULT_EC_POLYNOMIAL) \in Seq(Nat)
  BY <1>1, PackTyped DEF DEFAULT_EC_POLYNOMIAL
<1>. QED
  BY <1>1, <1>2, OneAfterTheOther

LEMMA EcReadOn ==
    ASSUME CodecInv, HasFlag(EC_FLAG), ReadEcHead \/ ReadOverride \/ EcParamsEnd,
           UNCHANGED <<header, flags, metadata_reference, slab_index>>
    PROVE  ReadSoFar'
<1>1. FileOK /\ CursorOK /\ TypeOK /\ position \in Nat /\ Len(buf) \in Nat /\ ReadSoFar /\ NotBegun
  BY CodecFile
<1>2. section = "ec_params" /\ EcRead
  BY <1>1 DEF ReadSoFar, ReadEcHead, ReadOverride, EcParamsEnd, EntriesEnd, Accept, At
<1>3. /\ BeforeEc \in Seq(Nat) /\ BeforeEc' = BeforeEc
      /\ HasFlag(EC_FLAG)' = HasFlag(EC_FLAG)
  BY <1>1, BeforesTyped DEF BeforeEc, BeforeSlabIndex, BeforeReference, BeforeFlags, HasFlag
<1>4. left \in Nat /\ ec_params \in EcParamsType
  BY <1>1, <1>2 DEF TypeOK
<1>5. CASE ReadEcHead
  <2>1. /\ Passes(EcHeadChecks) /\ step = "head" /\ Advance(9)
        /\ section' = "ec_params" /\ step' = "entries" /\ left' = U32(5)
    BY <1>2, <1>5 DEF ReadEcHead, Accept, At
  <2>2. /\ ec_params'.k = U8(1) /\ ec_params'.m = U8(2)
        /\ ec_params'.overrides = ec_params.overrides
    BY <1>4, <1>5 DEF ReadEcHead, EcParamsType
  <2>3. position + 9 <= Len(buf) /\ U32(5) * 42 <= Len(buf) - (position + 9) /\ U8(0) = 1 /\ U16(3) = 285
    BY <1>1, <2>1, EcHeadPassed, VersionsRead
  <2>4. U32(5) \in Nat
    BY <1>1, U32Range
  <2>5. U32(5) <= Len(buf)
    BY <1>1, <2>3, <2>4
  <2>6. Bytes(0, 9) = (<<1, U8(1), U8(2)>> \o PackU16(285)) \o PackU32(U32(5))
    BY <1>1, <2>3, <2>5, EcHeadAgain
  <2>7. PICK h : h = <<1, U8(1), U8(2)>> \o PackU16(285)
    OBVIOUS
  <2>8. h \in Seq(Nat)
    <3>1. PICK k \in Nat, m \in Nat : k = U8(1) /\ m = U8(2)
      BY <1>1, ByteRange, WidthsAreNumbers
    <3>2. <<1, k, m>> \in Seq(Nat) /\ PackU16(285) \in Seq(Nat)
      BY PackTyped
    <3>. QED
      BY <2>7, <3>1, <3>2, OneAfterTheOther, Zenon
  <2>9. ec_params.overrides = <<>>
    BY <1>1, <1>2, <2>1 DEF NotBegun, Ahead, NoEcParams
  <2>10. ReadBytes' = UpTo(BeforeEc, h, U32(5), <<>>)
    <3>1. 9 \in Nat /\ ReadBytes = BeforeEc /\ Bytes(0, 9) = h \o PackU32(U32(5))
      BY <1>2, <2>1, <2>6, <2>7 DEF EcRead
    <3>2. PICK c \in Nat : c = U32(5)
      BY <2>4
    <3>3. position + 9 <= Len(buf) /\ Advance(9) /\ Bytes(0, 9) = h \o PackU32(c)
      BY <2>1, <2>3, <3>1, <3>2
    <3>4. ReadBytes' = UpTo(BeforeEc, h, c, <<>>)
      BY <1>1, <1>3, <2>8, <3>1, <3>3, HeadRead, Zenon
    <3>. QED
      BY <3>2, <3>4
  <2>11. EcSoFar' = h \o Listed(U32(5), <<>>)
    <3>1. Len(ec_params'.overrides) + left' = U32(5) /\ OverrideBytes(ec_params'.overrides) = <<>>
      BY <2>1, <2>2, <2>4, <2>9, NoBytes
    <3>. QED
      BY <2>2, <2>7, <3>1, Zenon DEF EcSoFar, DEFAULT_EC_POLYNOMIAL
  <2>12. EcRead'
    BY <1>3, <2>1, <2>10, <2>11 DEF EcRead, UpTo
  <2>. QED
    BY <2>1, <2>12 DEF ReadSoFar
<1>6. CASE ReadOverride
  <2>1. /\ Passes(OverrideChecks) /\ step = "entries" /\ Advance(42)
        /\ section' = "ec_params" /\ step' = "entries" /\ left > 0 /\ left' = left - 1
    BY <1>2, <1>6 DEF ReadOverride, Accept, At, MoreEntries, OVERRIDE_ENTRY_LEN
  <2>2. /\ ec_params'.k = ec_params.k /\ ec_params'.m = ec_params.m
        /\ ec_params'.overrides = Append(ec_params.overrides, NextOverride)
    BY <1>4, <1>6 DEF ReadOverride, EcParamsType, NextOverride
  <2>3. position + 42 <= Len(buf) /\ NextOverride \in OverrideType /\ EncodeOverride(NextOverride) = Bytes(0, 42)
    BY <1>1, <2>1, OverrideAgain
  <2>4. PICK list \in Seq(OverrideType) : list = ec_params.overrides
    BY <1>1, EcTyped
  <2>5. PICK h \in Seq(Nat) : h = <<1, ec_params.k, ec_params.m>> \o PackU16(DEFAULT_EC_POLYNOMIAL)
    BY <1>1, EcTyped
  <2>6. PICK c \in Nat : c = Len(list) + left
    BY <1>4
  <2>7. PICK longer \in Seq(OverrideType) : longer = Append(list, NextOverride)
    <3>1. PICK e \in OverrideType : e = NextOverride
      BY <2>3
    <3>2. Append(list, e) \in Seq(OverrideType)
      OBVIOUS
    <3>. QED
      BY <3>1, <3>2, Zenon
  <2>8. OneMore(OverrideBytes(list), OverrideBytes(longer), Bytes(0, 42))
    BY <2>3, <2>7, OverrideMore
  <2>9. ReadBytes = UpTo(BeforeEc, h, c, OverrideBytes(list))
    BY <1>2, <2>1, <2>4, <2>5, <2>6 DEF EcRead, EcSoFar, UpTo
  <2>10. ReadBytes' = UpTo(BeforeEc, h, c, OverrideBytes(longer))
    <3>1. 42 \in Nat
      OBVIOUS
    <3>. QED
      BY <1>1, <1>3, <2>1, <2>3, <2>8, <2>9, <3>1, ItemRead, Zenon
  <2>11. Len(ec_params'.overrides) + left' = c /\ ec_params'.overrides = longer
    BY <1>4, <2>1, <2>2, <2>3, <2>4, <2>6, <2>7
  <2>12. EcRead'
    BY <1>3, <2>1, <2>2, <2>5, <2>10, <2>11 DEF EcRead, EcSoFar, UpTo
  <2>. QED
    BY <2>1, <2>12 DEF ReadSoFar
<1>7. CASE EcParamsEnd
  <2>1. /\ step = "entries" /\ left = 0 /\ position' = position + 0 /\ buf' = buf
        /\ section' = "dms_policy" /\ step' = "head" /\ ec_params' = ec_params
    BY <1>2, <1>7, NextSectionsAre DEF EcParamsEnd, EntriesEnd, Return, Advance, At
  <2>2. ReadBytes' = ReadBytes
    BY <1>1, <2>1 DEF ReadBytes
  <2>3. EcSoFar = EncodeEcParams(ec_params)
    <3>1. Len(ec_params.overrides) + left = Len(ec_params.overrides)
      BY <1>1, <2>1, EcTyped
    <3>. QED
      BY <3>1, WholeLists, Zenon DEF EcSoFar, EncodeEcParams
  <2>4. BeforeDms' = BeforeEc \o EcSoFar
    BY <1>3, <2>1, <2>3 DEF BeforeDms
  <2>5. DmsRead'
    BY <1>2, <2>1, <2>2, <2>4 DEF EcRead, DmsRead
  <2>. QED
    BY <2>1, <2>5 DEF ReadSoFar
<1>. QED
  BY <1>5, <1>6, <1>7

-----------------------------------------------------------------------------
\* The DMS policy.
LEMMA DmsTyped ==
    ASSUME TypeOK
    PROVE  /\ dms_policy.shares \in Seq(ShareType) /\ Len(dms_policy.shares) \in Nat
           /\ <<1, DMS_SCHEME_SHAMIR, dms_policy.k, dms_policy.n>> \in Seq(Nat)
<1>1. dms_policy.k \in Nat /\ dms_policy.n \in Nat /\ dms_policy.shares \in Seq(ShareType)
  BY WidthsAreNumbers DEF TypeOK, DmsPolicyType, ShareType
<1>. QED
  BY <1>1 DEF DMS_SCHEME_SHAMIR

LEMMA DmsReadOn ==
    ASSUME CodecInv, HasFlag(DMS_FLAG), ReadDmsHead \/ ReadShare \/ ReadHint,
           UNCHANGED <<header, flags, metadata_reference, slab_index, ec_params>>
    PROVE  ReadSoFar'
<1>1. FileOK /\ CursorOK /\ TypeOK /\ position \in Nat /\ Len(buf) \in Nat /\ ReadSoFar /\ NotBegun
  BY CodecFile
<1>2. section = "dms_policy" /\ DmsRead
  BY <1>1 DEF ReadSoFar, ReadDmsHead, ReadShare, ReadHint, Accept, At
<1>3. /\ BeforeEc' = BeforeEc /\ HasFlag(EC_FLAG)' = HasFlag(EC_FLAG)
      /\ HasFlag(DMS_FLAG)' = HasFlag(DMS_FLAG)
  BY DEF BeforeEc, BeforeSlabIndex, BeforeReference, BeforeFlags, HasFlag
<1>4. BeforeDms \in Seq(Nat) /\ BeforeDms' = BeforeDms
  BY <1>1, <1>3, BeforesTyped DEF BeforeDms
<1>5. left \in Nat /\ dms_policy \in DmsPolicyType
  BY <1>1, <1>2 DEF TypeOK
<1>6. CASE ReadDmsHead
  <2>1. /\ Passes(DmsHeadChecks) /\ step = "head" /\ Advance(8)
        /\ section' = "dms_policy" /\ step' = "entries" /\ left' = U32(4)
    BY <1>2, <1>6 DEF ReadDmsHead, Accept, At
  <2>2. /\ dms_policy'.k = U8(2) /\ dms_policy'.n = U8(3)
        /\ dms_policy'.shares = dms_policy.shares
    BY <1>5, <1>6 DEF ReadDmsHead, DmsPolicyType
  <2>3. position + 8 <= Len(buf) /\ U32(4) = U8(3) /\ U8(0) = 1 /\ U8(1) = 0
    BY <1>1, <2>1, DmsHeadPassed, VersionsRead
  <2>4. U32(4) \in Nat /\ Bytes(0, 8) = <<1, 0, U8(2), U8(3)>> \o PackU32(U32(4))
    BY <1>1, <2>3, DmsHeadAgain
  <2>5. PICK h : h = <<1, 0, U8(2), U8(3)>>
    OBVIOUS
  <2>6. h \in Seq(Nat)
    <3>1. PICK k \in Nat, n \in Nat : k = U8(2) /\ n = U8(3)
      BY <1>1, ByteRange, WidthsAreNumbers
    <3>2. <<1, 0, k, n>> \in Seq(Nat)
      OBVIOUS
    <3>. QED
      BY <2>5, <3>1, <3>2
  <2>7. dms_policy.shares = <<>>
    BY <1>1, <1>2, <2>1 DEF NotBegun, Ahead, NoDmsPolicy
  <2>8. ReadBytes' = UpTo(BeforeDms, h, U32(4), <<>>)
    <3>1. 8 \in Nat /\ ReadBytes = BeforeDms /\ Bytes(0, 8) = h \o PackU32(U32(4))
      BY <1>2, <2>1, <2>4, <2>5 DEF DmsRead
    <3>. QED
      BY <1>1, <1>4, <2>1, <2>3, <2>4, <2>6, <3>1, HeadRead, Zenon
  <2>9. DmsSoFar' = h \o Listed(U32(4), <<>>)
    <3>1. Len(dms_policy'.shares) + left' = U32(4) /\ ShareBytes(dms_policy'.shares) = <<>>
      BY <2>1, <2>2, <2>4, <2>7, NoBytes
    <3>. QED
      BY <2>2, <2>5, <3>1, Zenon DEF DmsSoFar, DMS_SCHEME_SHAMIR
  <2>10. DmsRead'
    BY <1>4, <2>1, <2>8, <2>9 DEF DmsRead, UpTo
  <2>. QED
    BY <2>1, <2>10 DEF ReadSoFar
<1>7. CASE ReadShare
  <2>1. /\ Passes(ShareChecks) /\ step = "entries" /\ Advance(ShareLen)
        /\ section' = "dms_policy" /\ step' = "entries" /\ left > 0 /\ left' = left - 1
    BY <1>2, <1>7 DEF ReadShare, Accept, At, MoreEntries
  <2>2. /\ dms_policy'.k = dms_policy.k /\ dms_policy'.n = dms_policy.n
        /\ dms_policy'.shares = Append(dms_policy.shares, NextShare)
    BY <1>5, <1>7 DEF ReadShare, DmsPolicyType, NextShare
  <2>3. /\ ShareLen \in Nat /\ position + ShareLen <= Len(buf) /\ NextShare \in ShareType
        /\ EncodeShare(NextShare) = Bytes(0, ShareLen)
    BY <1>1, <2>1, ShareAgain
  <2>4. PICK list \in Seq(ShareType) : list = dms_policy.shares
    BY <1>1, DmsTyped
  <2>5. PICK h \in Seq(Nat) : h = <<1, DMS_SCHEME_SHAMIR, dms_policy.k, dms_policy.n>>
    BY <1>1, DmsTyped
  <2>6. PICK c \in Nat : c = Len(list) + left
    BY <1>5
  <2>7. PICK longer \in Seq(ShareType) : longer = Append(list, NextShare)
    <3>1. PICK e \in ShareType : e = NextShare
      BY <2>3
    <3>2. Append(list, e) \in Seq(ShareType)
      OBVIOUS
    <3>. QED
      BY <3>1, <3>2, Zenon
  <2>8. OneMore(ShareBytes(list), ShareBytes(longer), Bytes(0, ShareLen))
    BY <2>3, <2>7, ShareMore
  <2>9. ReadBytes = UpTo(BeforeDms, h, c, ShareBytes(list))
    BY <1>2, <2>1, <2>4, <2>5, <2>6 DEF DmsRead, DmsSoFar, UpTo
  <2>10. ReadBytes' = UpTo(BeforeDms, h, c, ShareBytes(longer))
    BY <1>1, <1>4, <2>1, <2>3, <2>8, <2>9, ItemRead, Zenon
  <2>11. Len(dms_policy'.shares) + left' = c /\ dms_policy'.shares = longer
    BY <1>5, <2>1, <2>2, <2>3, <2>4, <2>6, <2>7
  <2>12. DmsRead'
    BY <1>4, <2>1, <2>2, <2>5, <2>10, <2>11 DEF DmsRead, DmsSoFar, UpTo
  <2>. QED
    BY <2>1, <2>12 DEF ReadSoFar
<1>8. CASE ReadHint
  <2>1. /\ Passes(HintChecks) /\ step = "entries" /\ ~MoreEntries /\ Advance(4 + U32(0))
        /\ section' = "history" /\ step' = "head"
    BY <1>8, NextSectionsAre DEF ReadHint, Return, At
  <2>2. /\ dms_policy'.k = dms_policy.k /\ dms_policy'.n = dms_policy.n
        /\ dms_policy'.shares = dms_policy.shares /\ dms_policy'.reconstruction_hint = NextUri
    BY <1>5, <1>8 DEF ReadHint, DmsPolicyType, NextUri
  <2>3. /\ 4 + U32(0) \in Nat /\ position + (4 + U32(0)) <= Len(buf)
        /\ NextUri \in ByteString /\ EncodeBytes(NextUri) = Bytes(0, 4 + U32(0))
    BY <1>1, <2>1, TailAgain
  <2>4. PICK a : a = DmsSoFar
    OBVIOUS
  <2>5. PICK b : b = EncodeBytes(NextUri)
    OBVIOUS
  <2>6. a \in Seq(Nat) /\ b \in Seq(Nat)
    <3>1. Len(dms_policy.shares) + left \in Nat /\ ShareBytes(dms_policy.shares) \in Seq(Seq(Nat))
      BY <1>1, <1>5, DmsTyped, SharesTyped
    <3>2. Listed(Len(dms_policy.shares) + left, ShareBytes(dms_policy.shares)) \in Seq(Nat)
      BY <3>1, ListedTyped
    <3>3. <<1, DMS_SCHEME_SHAMIR, dms_policy.k, dms_policy.n>> \in Seq(Nat)
      BY <1>1, DmsTyped
    <3>4. a \in Seq(Nat)
      BY <2>4, <3>2, <3>3, OneAfterTheOther, Zenon DEF DmsSoFar
    <3>. QED
      BY <2>3, <2>5, <3>4, BytesTyped
  <2>7. ReadBytes' = BeforeDms \o (a \o b)
    <3>1. ReadBytes = BeforeDms \o a /\ Bytes(0, 4 + U32(0)) = b
      BY <1>2, <2>1, <2>3, <2>4, <2>5 DEF DmsRead
    <3>. QED
      BY <1>1, <1>4, <2>1, <2>3, <2>6, <3>1, TailRead, Zenon
  <2>8. a \o b = EncodeDmsPolicy(dms_policy')
    <3>1. Len(dms_policy.shares) + left = Len(dms_policy.shares)
      BY <1>1, <1>5, <2>1, DmsTyped DEF MoreEntries
    <3>2. a = <<1, DMS_SCHEME_SHAMIR, dms_policy.k, dms_policy.n>>
                \o EncodeList(dms_policy.shares, EncodeShare)
      BY <2>4, <3>1, WholeLists, Zenon DEF DmsSoFar
    <3>. QED
      BY <2>2, <2>5, <3>2, Zenon DEF EncodeDmsPolicy
  <2>9. BeforeHistory' = BeforeDms \o (a \o b)
    BY <1>3, <1>4, <2>8 DEF BeforeHistory
  <2>10. HistoryRead'
    BY <2>1, <2>7, <2>9 DEF HistoryRead
  <2>. QED
    BY <2>1, <2>10 DEF ReadSoFar
<1>. QED
  BY <1>6, <1>7, <1>8

-----------------------------------------------------------------------------
\* The history.
LEMMA HistoryReadOn ==
    ASSUME CodecInv, ReadHistoryHead \/ ReadHistoryEntry \/ HistoryEnd,
           UNCHANGED <<header, flags, metadata_reference, slab_index, ec_params, dms_policy>>
    PROVE  ReadSoFar'
<1>1. FileOK /\ CursorOK /\ TypeOK /\ position \in Nat /\ Len(buf) \in Nat /\ ReadSoFar /\ NotBegun
  BY CodecFile
<1>2. section = "history" /\ HistoryRead
  BY <1>1 DEF ReadSoFar, ReadHistoryHead, ReadHistoryEntry, HistoryEnd, EntriesEnd, Accept, At
<1>3. /\ BeforeEc' = BeforeEc /\ HasFlag(EC_FLAG)' = HasFlag(EC_FLAG)
      /\ HasFlag(DMS_FLAG)' = HasFlag(DMS_FLAG)
  BY DEF BeforeEc, BeforeSlabIndex, BeforeReference, BeforeFlags, HasFlag
<1>4. BeforeHistory \in Seq(Nat) /\ BeforeHistory' = BeforeHistory /\ <<1>> \in Seq(Nat)
  BY <1>1, <1>3, BeforesTyped DEF BeforeHistory, BeforeDms
<1>5. left \in Nat /\ history \in Seq(HistoryEntryType) /\ Len(history) \in Nat
  BY <1>1, <1>2 DEF TypeOK
<1>6. CASE ReadHistoryHead
  <2>1. /\ Passes(HistoryHeadChecks) /\ step = "head" /\ Advance(5)
        /\ section' = "history" /\ step' = "entries" /\ left' = U32(1) /\ history' = history
    BY <1>2, <1>6 DEF ReadHistoryHead, Accept, At
  <2>2. position + 5 <= Len(buf) /\ U32(1) <= Len(buf) /\ U8(0) = 1
    BY <1>1, <2>1, HistoryHeadPassed, VersionsRead
  <2>3. U32(1) \in Nat /\ Bytes(0, 5) = <<1>> \o PackU32(U32(1))
    BY <1>1, <2>2, PlainHeadAgain
  <2>4. history = <<>>
    BY <1>1, <1>2, <2>1 DEF NotBegun, Ahead
  <2>5. ReadBytes' = UpTo(BeforeHistory, <<1>>, U32(1), <<>>)
    <3>1. 5 \in Nat /\ ReadBytes = BeforeHistory
      BY <1>2, <2>1 DEF HistoryRead
    <3>. QED
      BY <1>1, <1>4, <2>1, <2>2, <2>3, <3>1, HeadRead, Zenon
  <2>6. HistorySoFar' = <<1>> \o Listed(U32(1), <<>>)
    <3>1. Len(history') + left' = U32(1) /\ HistoryBytes(history') = <<>>
      BY <2>1, <2>3, <2>4, NoBytes
    <3>. QED
      BY <3>1 DEF HistorySoFar
  <2>7. HistoryRead'
    BY <1>4, <2>1, <2>5, <2>6 DEF HistoryRead, UpTo
  <2>. QED
    BY <2>1, <2>7 DEF ReadSoFar
<1>7. CASE ReadHistoryEntry
  <2>1. /\ Passes(HistoryEntryChecks) /\ step = "entries" /\ Advance(17 + inputs_size + params_len)
        /\ section' = "history" /\ step' = "entries" /\ left > 0 /\ left' = left - 1
        /\ history' = Append(history, HistoryEntry)
    BY <1>2, <1>7 DEF ReadHistoryEntry, Accept, At, MoreEntries
  <2>2. /\ inputs_size \in Nat /\ params_len \in Nat
        /\ position + (17 + inputs_size + params_len) <= Len(buf)
        /\ HistoryEntry \in HistoryEntryType
        /\ EncodeHistoryEntry(HistoryEntry) = Bytes(0, 17 + inputs_size + params_len)
    BY <1>1, <2>1, HistoryEntryAgain
  <2>3. PICK n \in Nat : n = 17 + inputs_size + params_len
    BY <2>2
  <2>4. PICK e \in HistoryEntryType : e = HistoryEntry
    BY <2>2
  <2>5. PICK longer \in Seq(HistoryEntryType) : longer = Append(history, e)
    <3>1. Append(history, e) \in Seq(HistoryEntryType)
      BY <1>5
    <3>. QED
      BY <3>1, Zenon
  <2>6. PICK c \in Nat : c = Len(history) + left
    BY <1>5
  <2>7. OneMore(HistoryBytes(history), HistoryBytes(longer), Bytes(0, n))
    <3>1. OneMore(HistoryBytes(history), HistoryBytes(Append(history, e)), EncodeHistoryEntry(e))
      BY <1>5, EntryMore
    <3>. QED
      BY <2>2, <2>3, <2>4, <2>5, <3>1
  <2>8. ReadBytes = UpTo(BeforeHistory, <<1>>, c, HistoryBytes(history))
    BY <1>2, <2>1, <2>6 DEF HistoryRead, HistorySoFar, UpTo
  <2>9. position + n <= Len(buf) /\ Advance(n)
    BY <2>1, <2>2, <2>3
  <2>10. ReadBytes' = UpTo(BeforeHistory, <<1>>, c, HistoryBytes(longer))
    BY <1>1, <1>4, <2>7, <2>8, <2>9, ItemRead, Zenon
  <2>11. history' = longer
    BY <2>1, <2>4, <2>5
  <2>12. Len(history') + left' = c
    BY <1>5, <2>1, <2>5, <2>6, <2>11
  <2>13. HistoryRead'
    BY <1>4, <2>1, <2>10, <2>11, <2>12 DEF HistoryRead, HistorySoFar, UpTo
  <2>. QED
    BY <2>1, <2>13 DEF ReadSoFar
<1>8. CASE HistoryEnd
  <2>1. /\ step = "entries" /\ position' = position + 0 /\ buf' = buf
        /\ section' = "history" /\ step' = "entries" /\ left' = left /\ history' = history
    BY <1>2, <1>8 DEF HistoryEnd, EntriesEnd, Return, Advance, At
  <2>2. ReadBytes' = ReadBytes
    BY <1>1, <2>1 DEF ReadBytes
  <2>3. HistorySoFar' = HistorySoFar
    BY <2>1 DEF HistorySoFar
  <2>4. HistoryRead'
    BY <1>2, <1>4, <2>1, <2>2, <2>3 DEF HistoryRead
  <2>. QED
    BY <2>1, <2>4 DEF ReadSoFar
<1>. QED
  BY <1>6, <1>7, <1>8

\* A variable is changed by its own section's parser only, which is then past its head.
Begun(s) == section = s /\ ~Ahead(s)'

LEMMA OnlyItsOwn ==
    ASSUME IInv, Step
    PROVE  /\ UNCHANGED flags \/ Begun("feature_flags")
           /\ UNCHANGED slab_index \/ Begun("slab_index")
           /\ UNCHANGED ec_params \/ (Begun("ec_params") /\ HasFlag(EC_FLAG))
           /\ UNCHANGED dms_policy \/ (Begun("dms_policy") /\ HasFlag(DMS_FLAG))
           /\ UNCHANGED history \/ Begun("history")
<1>1. section \in SectionNames
  BY DEF IInv, TypeOK
<1>2. ASSUME NEW s \in SectionNames, section' = s, step' # "head"
      PROVE  ~Ahead(s)'
  BY <1>1, <1>2, PlacesAre, SectionNamesAre DEF Ahead
<1>3. ASSUME FlagsStep
      PROVE  UNCHANGED flags \/ Begun("feature_flags")
  <2>1. CASE RejectFlags \/ FlagsEnd
    BY <2>1 DEF RejectFlags, FlagsEnd
  <2>2. CASE ReadFlagsHead \/ ReadFlag
    <3>1. section = "feature_flags" /\ section' = "feature_flags" /\ step' = "entries"
      BY <2>2 DEF ReadFlagsHead, ReadFlag, Accept, At
    <3>. QED
      BY <1>2, <3>1, SectionNamesAre DEF Begun
  <2>. QED
    BY <1>3, <2>1, <2>2 DEF FlagsStep
<1>4. ASSUME SlabIndexStep
      PROVE  UNCHANGED slab_index \/ Begun("slab_index")
  <2>1. CASE RejectSlabIndex \/ ReadSlabIndexHead \/ SlabIndexEnd
    BY <2>1 DEF RejectSlabIndex, ReadSlabIndexHead, SlabIndexEnd
  <2>2. CASE ReadSlabEntry \/ SlabEntryRead
    <3>1. section = "slab_index" /\ section' = "slab_index" /\ step' \in {"entries", "locators"}
      BY <2>2 DEF ReadSlabEntry, SlabEntryRead, BeginLocators, Accept, At
    <3>. QED
      BY <1>2, <3>1, SectionNamesAre DEF Begun
  <2>. QED
    BY <1>4, <2>1, <2>2 DEF SlabIndexStep
<1>5. ASSUME EcParamsStep
      PROVE  UNCHANGED ec_params \/ Begun("ec_params")
  <2>1. CASE RejectEcParams \/ EcParamsEnd
    BY <2>1 DEF RejectEcParams, EcParamsEnd
  <2>2. CASE ReadEcHead \/ ReadOverride
    <3>1. section = "ec_params" /\ section' = "ec_params" /\ step' = "entries"
      BY <2>2 DEF ReadEcHead, ReadOverride, Accept, At
    <3>. QED
      BY <1>2, <3>1, SectionNamesAre DEF Begun
  <2>. QED
    BY <1>5, <2>1, <2>2 DEF EcParamsStep
<1>6. ASSUME DmsPolicyStep
      PROVE  UNCHANGED dms_policy \/ Begun("dms_policy")
  <2>1. CASE RejectDmsPolicy
    BY <2>1 DEF RejectDmsPolicy
  <2>2. CASE ReadDmsHead \/ ReadShare
    <3>1. section = "dms_policy" /\ section' = "dms_policy" /\ step' = "entries"
      BY <2>2 DEF ReadDmsHead, ReadShare, Accept, At
    <3>. QED
      BY <1>2, <3>1, SectionNamesAre DEF Begun
  <2>3. CASE ReadHint
    <3>1. section = "dms_policy" /\ section' = "history"
      BY <2>3, NextSectionsAre DEF ReadHint, Return, At
    <3>. QED
      BY <3>1, PlacesAre DEF Begun, Ahead
  <2>. QED
    BY <1>6, <2>1, <2>2, <2>3 DEF DmsPolicyStep
<1>7. ASSUME HistoryStep
      PROVE  UNCHANGED history \/ Begun("history")
  <2>1. CASE RejectHistory \/ ReadHistoryHead \/ HistoryEnd
    BY <2>1 DEF RejectHistory, ReadHistoryHead, HistoryEnd
  <2>2. CASE ReadHistoryEntry
    <3>1. section = "history" /\ section' = "history" /\ step' = "entries"
      BY <2>2 DEF ReadHistoryEntry, Accept, At
    <3>. QED
      BY <1>2, <3>1, SectionNamesAre DEF Begun
  <2>. QED
    BY <1>7, <2>1, <2>2 DEF HistoryStep
<1>8. UNCHANGED flags \/ Begun("feature_flags")
  BY <1>3 DEF Step
<1>9. UNCHANGED slab_index \/ Begun("slab_index")
  BY <1>4 DEF Step
<1>10. UNCHANGED ec_params \/ (Begun("ec_params") /\ HasFlag(EC_FLAG))
  BY <1>5 DEF Step
<1>11. UNCHANGED dms_policy \/ (Begun("dms_policy") /\ HasFlag(DMS_FLAG))
  BY <1>6 DEF Step
<1>12. UNCHANGED history \/ Begun("history")
  BY <1>7 DEF Step
<1>. QED
  BY <1>8, <1>9, <1>10, <1>11, <1>12

\* A section that has begun stays so.
LEMMA AheadShrinks ==
    ASSUME TypeOK, Raises \/ Advances \/ Returns, NEW s \in SectionNames, Ahead(s)'
    PROVE  Ahead(s)
<1>1. section \in SectionNames
  BY DEF TypeOK
<1>2. CASE Raises
  BY <1>2 DEF Raises, Ahead
<1>3. CASE Advances
  BY <1>3 DEF Advances, Ahead
<1>4. CASE Returns
  <2>1. PICK n : Return(section, n)
    BY <1>4 DEF Returns
  <2>2. CASE section = "history"
    BY <2>1, <2>2 DEF Return, Ahead
  <2>3. CASE section # "history"
    BY <1>1, <2>1, <2>3, NextSectionsAre, PlacesAre, SectionNamesAre DEF Return, Ahead
  <2>. QED
    BY <2>2, <2>3
<1>. QED
  BY <1>2, <1>3, <1>4

\* What has not begun is still what Start left.
LEMMA NotBegunKept ==
    ASSUME CodecInv, Step
    PROVE  NotBegun'
<1>1. TypeOK /\ NotBegun
  BY CodecFile
<1>2. Raises \/ Advances \/ Returns
  BY StepShape DEF CodecInv
<1>3. /\ Ahead("feature_flags")' => Ahead("feature_flags")
      /\ Ahead("slab_index")' => Ahead("slab_index")
      /\ Ahead("ec_params")' => Ahead("ec_params")
      /\ Ahead("dms_policy")' => Ahead("dms_policy")
      /\ Ahead("history")' => Ahead("history")
  BY <1>1, <1>2, AheadShrinks, SectionNamesAre
<1>4. /\ UNCHANGED flags \/ Begun("feature_flags")
      /\ UNCHANGED slab_index \/ Begun("slab_index")
      /\ UNCHANGED ec_params \/ (Begun("ec_params") /\ HasFlag(EC_FLAG))
      /\ UNCHANGED dms_policy \/ (Begun("dms_policy") /\ HasFlag(DMS_FLAG))
      /\ UNCHANGED history \/ Begun("history")
  BY OnlyItsOwn DEF CodecInv
<1>5. section = "feature_flags" => Ahead("ec_params") /\ Ahead("dms_policy")
  BY PlacesAre DEF Ahead
<1>6. UNCHANGED flags => /\ HasFlag(EC_FLAG)' = HasFlag(EC_FLAG)
                         /\ HasFlag(DMS_FLAG)' = HasFlag(DMS_FLAG)
  BY DEF HasFlag
<1>7. Ahead("ec_params")' \/ ~HasFlag(EC_FLAG)' => ec_params' = NoEcParams
  <2>1. ASSUME Begun("ec_params")
        PROVE  UNCHANGED flags
    BY <1>4, <2>1 DEF Begun
  <2>. QED
    BY <1>1, <1>3, <1>4, <1>5, <1>6, <2>1 DEF NotBegun, Begun
<1>8. Ahead("dms_policy")' \/ ~HasFlag(DMS_FLAG)' => dms_policy' = NoDmsPolicy
  <2>1. ASSUME Begun("dms_policy")
        PROVE  UNCHANGED flags
    BY <1>4, <2>1 DEF Begun
  <2>. QED
    BY <1>1, <1>3, <1>4, <1>5, <1>6, <2>1 DEF NotBegun, Begun
<1>. QED
  BY <1>1, <1>3, <1>4, <1>7, <1>8 DEF NotBegun, Begun

\* Only the end of the history verifies a file.
LEMMA EndedKept ==
    ASSUME CodecInv, Step
    PROVE  Ended'
<1> SUFFICES ASSUME status' = "verified"
             PROVE  (section = "history" /\ step = "entries" /\ left = 0
                       /\ position = ends["history"])'
  BY DEF Ended
<1>1. IInv /\ TypeOK /\ position \in Nat /\ LocatorsOpen
  BY CodecFile DEF CodecInv, IInv
<1>2. PICK n : Return(section, n) /\ section = "history"
  <2>1. ~Raises /\ ~Advances
    BY DEF Raises, Advances, ErrorKinds
  <2>2. Returns
    BY <1>1, <2>1, StepShape
  <2>3. PICK n : Return(section, n) /\ status = "parsing"
    BY <2>2 DEF Returns
  <2>. QED
    BY <2>3 DEF Return
<1>3. HistoryEnd
  <2>1. CASE HistoryStep
    <3>1. status = "parsing"
      BY <2>1 DEF HistoryStep, RejectHistory, Reject, ReadHistoryHead, ReadHistoryEntry,
                  HistoryEnd, EntriesEnd, Accept, At
    <3>2. ~ReadHistoryHead /\ ~ReadHistoryEntry
      BY <3>1 DEF ReadHistoryHead, ReadHistoryEntry, Accept
    <3>3. ~RejectHistory
      <4>1. ~Raises
        BY DEF Raises, ErrorKinds
      <4>. QED
        BY <4>1, Rows, RejectRaises, Zenon DEF RejectHistory
    <3>. QED
      BY <2>1, <3>2, <3>3 DEF HistoryStep
  <2>2. CASE HeaderStep \/ FlagsStep \/ MetadataReferenceStep
    BY <1>2, <2>2 DEF HeaderStep, RejectHeader, ReadHeader, FlagsStep, RejectFlags, Reject,
         ReadFlagsHead, ReadFlag, FlagsEnd, EntriesEnd, Accept, At, MetadataReferenceStep,
         RejectMetadataReference, ReadMetadataHead, ReadMetadataTail
  <2>3. CASE LocatorStep
    BY <1>1, <1>2, <2>3 DEF LocatorStep, RejectLocator, ReadLocator, Reject, Accept, At, LocatorsOpen
  <2>4. CASE SlabIndexStep \/ SkipEcParams \/ SkipDmsPolicy
    BY <1>2, <2>4 DEF SlabIndexStep, RejectSlabIndex, Reject, ReadSlabIndexHead, ReadSlabEntry,
         SlabEntryRead, SlabIndexEnd, EntriesEnd, Accept, At, SkipEcParams, SkipDmsPolicy
  <2>5. CASE EcParamsStep \/ DmsPolicyStep
    BY <1>2, <2>5 DEF EcParamsStep, RejectEcParams, Reject, ReadEcHead, ReadOverride, EcParamsEnd,
         EntriesEnd, Accept, At, DmsPolicyStep, RejectDmsPolicy, ReadDmsHead, ReadShare, ReadHint
  <2>. QED
    BY <2>1, <2>2, <2>3, <2>4, <2>5 DEF Step
<1>4. /\ section' = "history" /\ step' = "entries" /\ left' = 0 /\ position' = position + 0
      /\ ends' = [ends EXCEPT !["history"] = position + 0]
  BY <1>3 DEF HistoryEnd, EntriesEnd, At, Return, Advance
<1>5. "history" \in DOMAIN ends
  BY <1>1, SectionNamesAre DEF TypeOK
<1>. QED
  BY <1>4, <1>5

-----------------------------------------------------------------------------
\* Every step of verify reads what it parses.
LEMMA ReadSoFarKept ==
    ASSUME CodecInv, Step
    PROVE  ReadSoFar'
<1>1. IInv /\ TypeOK /\ LocatorsOpen /\ ReadSoFar
  BY CodecFile DEF CodecInv, IInv
<1>2. CASE /\ HeaderStep
           /\ UNCHANGED <<locatorVars, flags, metadata_reference, slab_index, ec_params,
                          dms_policy, history>>
  <2>1. CASE RejectHeader
    BY <1>1, <1>2, <2>1, NothingRead DEF RejectHeader, Reject, Raise, locatorVars
  <2>2. CASE ReadHeader
    BY <2>2, HeaderReadOn
  <2>. QED
    BY <1>2, <2>1, <2>2 DEF HeaderStep
<1>3. CASE /\ FlagsStep
           /\ UNCHANGED <<locatorVars, header, metadata_reference, slab_index, ec_params,
                          dms_policy, history>>
  <2>1. CASE RejectFlags
    BY <1>1, <1>3, <2>1, NothingRead DEF RejectFlags, Reject, Raise, locatorVars
  <2>2. CASE ReadFlagsHead \/ ReadFlag \/ FlagsEnd
    BY <1>3, <2>2, FlagsReadOn
  <2>. QED
    BY <1>3, <2>1, <2>2 DEF FlagsStep
<1>4. CASE /\ MetadataReferenceStep
           /\ UNCHANGED <<header, flags, slab_index, ec_params, dms_policy, history>>
  <2>1. CASE RejectMetadataReference
    BY <1>1, <1>4, <2>1, NothingRead DEF RejectMetadataReference, Reject, Raise
  <2>2. CASE ReadMetadataHead \/ ReadMetadataTail
    <3>1. section = "metadata_reference"
      BY <2>2 DEF ReadMetadataHead, ReadMetadataTail, Accept, At
    <3>. QED
      BY <1>4, <2>2, <3>1, ReferenceReadOn
  <2>. QED
    BY <1>4, <2>1, <2>2 DEF MetadataReferenceStep
<1>5. CASE /\ LocatorStep
           /\ UNCHANGED <<header, flags, metadata_reference, slab_index, ec_params, dms_policy,
                          history>>
  <2>1. CASE RejectLocator
    BY <1>1, <1>5, <2>1, NothingRead DEF RejectLocator, Reject, Raise
  <2>2. CASE ReadLocator
    <3>1. section \in {"metadata_reference", "slab_index"}
      BY <1>1, <2>2 DEF ReadLocator, Accept, At, LocatorsOpen
    <3>. QED
      BY <1>5, <2>2, <3>1, ReferenceReadOn, SlabIndexReadOn
  <2>. QED
    BY <1>5, <2>1, <2>2 DEF LocatorStep
<1>6. CASE /\ SlabIndexStep
           /\ UNCHANGED <<header, flags, metadata_reference, ec_params, dms_policy, history>>
  <2>1. CASE RejectSlabIndex
    BY <1>1, <1>6, <2>1, NothingRead DEF RejectSlabIndex, Reject, Raise
  <2>2. CASE ReadSlabIndexHead \/ ReadSlabEntry \/ SlabEntryRead \/ SlabIndexEnd
    <3>1. section = "slab_index"
      BY <2>2 DEF ReadSlabIndexHead, ReadSlabEntry, SlabEntryRead, SlabIndexEnd, EntriesEnd,
                  Accept, At
    <3>. QED
      BY <1>6, <2>2, <3>1, SlabIndexReadOn
  <2>. QED
    BY <1>6, <2>1, <2>2 DEF SlabIndexStep
<1>7. CASE /\ SkipEcParams \/ SkipDmsPolicy
           /\ UNCHANGED <<locatorVars, header, flags, metadata_reference, slab_index, ec_params,
                          dms_policy, history>>
  BY <1>7, SkipReadOn
<1>8. CASE /\ HasFlag(EC_FLAG) /\ EcParamsStep
           /\ UNCHANGED <<locatorVars, header, flags, metadata_reference, slab_index, dms_policy,
                          history>>
  <2>1. CASE RejectEcParams
    BY <1>1, <1>8, <2>1, NothingRead DEF RejectEcParams, Reject, Raise, locatorVars
  <2>2. CASE ReadEcHead \/ ReadOverride \/ EcParamsEnd
    BY <1>8, <2>2, EcReadOn
  <2>. QED
    BY <1>8, <2>1, <2>2 DEF EcParamsStep
<1>9. CASE /\ HasFlag(DMS_FLAG) /\ DmsPolicyStep
           /\ UNCHANGED <<locatorVars, header, flags, metadata_reference, slab_index, ec_params,
                          history>>
  <2>1. CASE RejectDmsPolicy
    BY <1>1, <1>9, <2>1, NothingRead DEF RejectDmsPolicy, Reject, Raise, locatorVars
  <2>2. CASE ReadDmsHead \/ ReadShare \/ ReadHint
    BY <1>9, <2>2, DmsReadOn
  <2>. QED
    BY <1>9, <2>1, <2>2 DEF DmsPolicyStep
<1>10. CASE /\ HistoryStep
            /\ UNCHANGED <<locatorVars, header, flags, metadata_reference, slab_index, ec_params,
                           dms_policy>>
  <2>1. CASE RejectHistory
    BY <1>1, <1>10, <2>1, NothingRead DEF RejectHistory, Reject, Raise, locatorVars
  <2>2. CASE ReadHistoryHead \/ ReadHistoryEntry \/ HistoryEnd
    BY <1>10, <2>2, HistoryReadOn
  <2>. QED
    BY <1>10, <2>1, <2>2 DEF HistoryStep
<1>. QED
  BY <1>2, <1>3, <1>4, <1>5, <1>6, <1>7, <1>8, <1>9, <1>10 DEF Step

\* The invariant holds when verify is called, and is kept.
LEMMA CodecInit == Init => CodecInv
<1> SUFFICES ASSUME Init
             PROVE  CodecInv
  OBVIOUS
<1>1. IInv
  BY InitInv
<1>2. /\ Len(buf) < TOO_LARGE /\ section = "header" /\ status = "parsing" /\ position = 0
      /\ flags = <<>> /\ slab_index = <<>> /\ history = <<>>
      /\ ec_params = NoEcParams /\ dms_policy = NoDmsPolicy
  BY BuffersAssumption DEF Init, Start
<1>. QED
  BY <1>1, <1>2 DEF CodecInv, ReadSoFar, NotBegun, Ended

LEMMA CodecStep == CodecInv /\ [Next]_vars => CodecInv'
<1> SUFFICES ASSUME CodecInv, [Next]_vars
             PROVE  CodecInv'
  OBVIOUS
<1>1. IInv' /\ IInv
  BY StepInv DEF CodecInv
<1>2. CASE Step
  <2>1. buf' = buf
    BY <1>1, <1>2, StepShape, ShapeKeepsFile
  <2>2. Len(buf') < TOO_LARGE
    BY <2>1 DEF CodecInv, TOO_LARGE
  <2>. QED
    BY <1>1, <1>2, <2>2, ReadSoFarKept, NotBegunKept, EndedKept DEF CodecInv, TOO_LARGE
<1>3. CASE UNCHANGED vars
  <2>1. UNCHANGED <<buf, position, status, section, step, left, ends, locators, locators_left,
                    header, flags, metadata_reference, slab_index, ec_params, dms_policy, history>>
    BY <1>3 DEF vars, parserVars, locatorVars
  <2>2. ReadSoFar'
    BY <2>1, NothingRead DEF CodecInv
  <2>3. NotBegun' /\ Ended'
    BY <2>1 DEF CodecInv, NotBegun, Ended, Ahead, HasFlag
  <2>. QED
    BY <1>1, <2>1, <2>2, <2>3 DEF CodecInv, TOO_LARGE
<1>. QED
  BY <1>2, <1>3 DEF Next, Finished

LEMMA CodecInvariance == Spec => []CodecInv
BY CodecInit, CodecStep, PTL DEF Spec

\* It says, of a file that verifies, that its encoding is canonical.
LEMMA InvCanonical == CodecInv => EncodingIsCanonical
<1> SUFFICES ASSUME CodecInv, status = "verified"
             PROVE  SubSeq(buf, 1, ends["history"]) = EncodeManifest(Parsed)
  BY DEF EncodingIsCanonical
<1>1. /\ section = "history" /\ step = "entries" /\ left = 0 /\ position = ends["history"]
      /\ ReadSoFar /\ TypeOK
  BY CodecFile DEF CodecInv, Ended
<1>2. ReadBytes = BeforeHistory \o HistorySoFar
  BY <1>1 DEF ReadSoFar, HistoryRead
<1>3. HistorySoFar = EncodeHistory(history)
  <2>1. Len(history) + left = Len(history)
    BY <1>1 DEF TypeOK
  <2>. QED
    BY <2>1, WholeLists, Zenon DEF HistorySoFar, EncodeHistory
<1>4. ReadBytes = SubSeq(buf, 1, ends["history"])
  BY <1>1 DEF ReadBytes
<1>5. Declares(Parsed, EC_FLAG) = HasFlag(EC_FLAG) /\ Declares(Parsed, DMS_FLAG) = HasFlag(DMS_FLAG)
  BY DEF Declares, HasFlag, Parsed
<1>6. EncodeManifest(Parsed) = BeforeHistory \o EncodeHistory(history)
  BY <1>5, Zenon DEF EncodeManifest, EncodedSections, Parsed, BeforeHistory, BeforeDms, BeforeEc,
     BeforeSlabIndex, BeforeReference, BeforeFlags
<1>. QED
  BY <1>2, <1>3, <1>4, <1>6

\* A manifest has one encoding: the bytes verify accepts are the encoding of what it has
\* parsed them as.
THEOREM AcceptedBytesAreCanonical == Spec => []EncodingIsCanonical
BY InvCanonical, CodecInvariance, PTL

-----------------------------------------------------------------------------
\* What verifies keeps the rules of its sections.

\* The entry of the slab index whose locators are being read.
OpenSlab == section = "slab_index" /\ step = "locators"

FlagsValid == \A i, j \in DOMAIN flags : i # j => flags[i].flag_id # flags[j].flag_id

ReferenceValid ==
    section \in {"slab_index", "ec_params", "dms_policy", "history"} =>
        ValidReference(metadata_reference)

SlabsValid ==
    /\ \A i, j \in DOMAIN slab_index : i # j => slab_index[i].slab_id # slab_index[j].slab_id
    /\ \A i \in DOMAIN slab_index :
         ~(OpenSlab /\ i = Len(slab_index)) =>
            slab_index[i].locators # <<>> /\ ValidLocators(slab_index[i].locators)
    /\ OpenSlab => Len(locators) + locators_left > 0

EcValid ==
    /\ section = "ec_params" /\ step # "head" => ValidEcParams(ec_params)
    /\ section \in {"dms_policy", "history"} /\ HasFlag(EC_FLAG) => ValidEcParams(ec_params)

SharesValid ==
    /\ dms_policy.k \in 1..dms_policy.n
    /\ \A i \in DOMAIN dms_policy.shares : ValidShare(dms_policy.shares[i])
    /\ \A i, j \in DOMAIN dms_policy.shares :
         i # j => dms_policy.shares[i].custodian_id # dms_policy.shares[j].custodian_id

DmsValid ==
    /\ section = "dms_policy" /\ step # "head" =>
         SharesValid /\ Len(dms_policy.shares) + left = dms_policy.n
    /\ section = "history" /\ HasFlag(DMS_FLAG) => ValidDmsPolicy(dms_policy)

HistoryValid ==
    /\ section = "history" /\ step # "head" => Len(history) + left > 0
    /\ \A i \in DOMAIN history :
         history[i].op \in HistoryOps /\ Len(history[i].params) <= DEFAULT_HISTORY_PARAMS_MAX_BYTES

\* What has been parsed so far keeps the rules of its section.
ValidSoFar ==
    /\ FlagsValid
    /\ ValidLocators(locators)
    /\ ReferenceValid
    /\ SlabsValid
    /\ EcValid
    /\ DmsValid
    /\ HistoryValid

-----------------------------------------------------------------------------
\* What the checks of an item that passes say of it.

LEMMA Ceilings ==
    /\ TOO_LARGE \in Nat
    /\ DEFAULT_LOCATOR_MAX_URI_BYTES \in Nat
    /\ DEFAULT_INLINE_METADATA_MAX_BYTES \in Nat
    /\ DEFAULT_SHARE_DATA_MAX_BYTES \in Nat
    /\ DEFAULT_HINT_MAX_BYTES \in Nat
    /\ DEFAULT_HISTORY_PARAMS_MAX_BYTES \in Nat
<1>1. TOO_LARGE \in Nat
  BY DEF TOO_LARGE
<1>2. 1..(TOO_LARGE - 1) \subseteq Nat
  BY <1>1
<1>3. /\ DEFAULT_LOCATOR_MAX_URI_BYTES \in 1..(TOO_LARGE - 1)
      /\ DEFAULT_INLINE_METADATA_MAX_BYTES \in 1..(TOO_LARGE - 1)
      /\ DEFAULT_SHARE_DATA_MAX_BYTES \in 1..(TOO_LARGE - 1)
      /\ DEFAULT_HINT_MAX_BYTES \in 1..(TOO_LARGE - 1)
      /\ DEFAULT_HISTORY_PARAMS_MAX_BYTES \in 1..(TOO_LARGE - 1)
  BY CeilingsAssumption, Zenon
<1>. QED
  BY <1>1, <1>2, <1>3, Zenon

LEMMA FlagIsValid ==
    ASSUME Passes(FlagChecks)
    PROVE  U16(0) # 0 /\ \A i \in DOMAIN flags : flags[i].flag_id # U16(0)
<1>1. DOMAIN FlagChecks = 1..5
  BY DEF FlagChecks
<1>2. FlagChecks[2] = "ok" /\ FlagChecks[5] = "ok"
  BY <1>1 DEF Passes
<1>. QED
  BY <1>2 DEF FlagChecks, Check

LEMMA UriIsValid ==
    ASSUME FileOK, Passes(LocatorChecks)
    PROVE  /\ Len(NextUri) \in MIN_LOCATOR_URI_BYTES..DEFAULT_LOCATOR_MAX_URI_BYTES
           /\ IsUri(NextUri) /\ NextUri \in ByteString
<1>1. DOMAIN LocatorChecks = 1..5
  BY DEF LocatorChecks
<1>2. LocatorChecks[2] = "ok" /\ LocatorChecks[3] = "ok" /\ LocatorChecks[5] = "ok"
  BY <1>1 DEF Passes
<1>3. /\ U32(0) >= MIN_LOCATOR_URI_BYTES /\ U32(0) <= DEFAULT_LOCATOR_MAX_URI_BYTES
      /\ IsUri(Bytes(4, U32(0)))
  BY <1>2 DEF LocatorChecks, Check
<1>4. U32(0) \in Nat /\ position + 4 + U32(0) <= Len(buf)
  BY LocatorAgain, LocatorPassed DEF FileOK
<1>5. NextUri \in ByteString /\ Len(NextUri) = U32(0)
  <2>1. PICK n : n = U32(0)
    OBVIOUS
  <2>2. Bytes(4, n) \in Seq(U8Values) /\ Len(Bytes(4, n)) = n
    BY <1>4, <2>1, BytesRead DEF FileOK
  <2>. QED
    BY <2>1, <2>2 DEF NextUri, ByteString
<1>6. DEFAULT_LOCATOR_MAX_URI_BYTES \in Nat
  BY Ceilings
<1>. QED
  BY <1>3, <1>4, <1>5, <1>6 DEF NextUri, MIN_LOCATOR_URI_BYTES

LEMMA BlobLength ==
    ASSUME FileOK, U32(0) \in Nat, position + (4 + U32(0)) <= Len(buf)
    PROVE  Len(NextUri) = U32(0) /\ NextUri \in ByteString
<1>1. PICK n : n = U32(0)
  OBVIOUS
<1>2. CursorOK /\ position \in Nat /\ Len(buf) \in Nat
  BY FileNumbers
<1>3. n \in Nat /\ position + 4 + n <= Len(buf)
  BY <1>1, <1>2
<1>4. Bytes(4, n) \in Seq(U8Values) /\ Len(Bytes(4, n)) = n
  BY <1>2, <1>3, BytesRead
<1>. QED
  BY <1>1, <1>4 DEF NextUri, ByteString

LEMMA TailIsValid ==
    ASSUME FileOK, Passes(MetadataTailChecks)
    PROVE  /\ Len(NextUri) <= DEFAULT_INLINE_METADATA_MAX_BYTES
           /\ locators # <<>> \/ NextUri # <<>>
<1>1. DOMAIN MetadataTailChecks = 1..4
  BY DEF MetadataTailChecks
<1>2. MetadataTailChecks[2] = "ok" /\ MetadataTailChecks[4] = "ok"
  BY <1>1 DEF Passes
<1>3. U32(0) <= DEFAULT_INLINE_METADATA_MAX_BYTES /\ (locators # <<>> \/ U32(0) # 0)
  BY <1>2 DEF MetadataTailChecks, Check
<1>4. Len(NextUri) = U32(0)
  BY TailAgain, BlobLength
<1>. QED
  BY <1>3, <1>4

LEMMA SlabIsValid ==
    ASSUME Passes(SlabEntryChecks)
    PROVE  U32(40) # 0 /\ \A i \in DOMAIN slab_index : slab_index[i].slab_id # Bytes(0, 40)
<1>1. DOMAIN SlabEntryChecks = 1..6
  BY DEF SlabEntryChecks
<1>2. SlabEntryChecks[3] = "ok" /\ SlabEntryChecks[5] = "ok"
  BY <1>1 DEF Passes
<1>. QED
  BY <1>2 DEF SlabEntryChecks, Check, SLAB_ID_LEN

LEMMA EcHeadIsValid ==
    ASSUME Passes(EcHeadChecks)
    PROVE  ValidShards(U8(1), U8(2))
<1>1. DOMAIN EcHeadChecks = 1..8
  BY DEF EcHeadChecks
<1>2. EcHeadChecks[4] = "ok"
  BY <1>1 DEF Passes
<1>. QED
  BY <1>2 DEF EcHeadChecks, Check

LEMMA OverrideIsValid ==
    ASSUME Passes(OverrideChecks)
    PROVE  /\ ValidShards(U8(40), U8(41))
           /\ \A i \in DOMAIN ec_params.overrides : ec_params.overrides[i].slab_id # Bytes(0, 40)
<1>1. DOMAIN OverrideChecks = 1..3
  BY DEF OverrideChecks
<1>2. OverrideChecks[2] = "ok" /\ OverrideChecks[3] = "ok"
  BY <1>1 DEF Passes
<1>. QED
  BY <1>2 DEF OverrideChecks, Check

LEMMA DmsHeadIsValid ==
    ASSUME FileOK, Passes(DmsHeadChecks)
    PROVE  U8(2) \in 1..U8(3) /\ U32(4) = U8(3)
<1>1. DOMAIN DmsHeadChecks = 1..8
  BY DEF DmsHeadChecks
<1>2. DmsHeadChecks[6] = "ok" /\ DmsHeadChecks[8] = "ok"
  BY <1>1 DEF Passes
<1>3. PICK a, b : a = U8(2) /\ b = U8(3)
  OBVIOUS
<1>4. a # 0 /\ b # 0 /\ a <= b /\ U32(4) = b
  BY <1>2, <1>3 DEF DmsHeadChecks, Check
<1>5. a \in 0..255 /\ b \in 0..255
  BY <1>3, ByteRange DEF FileOK, U8Values
<1>. QED
  BY <1>3, <1>4, <1>5

LEMMA ShareIsValid ==
    ASSUME FileOK, Passes(ShareChecks)
    PROVE  /\ ValidShare(NextShare)
           /\ \A i \in DOMAIN dms_policy.shares :
                dms_policy.shares[i].custodian_id # NextShare.custodian_id
<1>1. DOMAIN ShareChecks = 1..9
  BY DEF ShareChecks
<1>2. /\ ShareChecks[2] = "ok" /\ ShareChecks[4] = "ok" /\ ShareChecks[5] = "ok"
      /\ ShareChecks[6] = "ok" /\ ShareChecks[8] = "ok"
  BY <1>1 DEF Passes
<1>3. /\ U32(0) <= DEFAULT_HINT_MAX_BYTES /\ IsUtf8(cid) /\ cid # <<>>
      /\ \A i \in DOMAIN dms_policy.shares : dms_policy.shares[i].custodian_id # cid
      /\ sd_len \in 1..DEFAULT_SHARE_DATA_MAX_BYTES
  BY <1>2 DEF ShareChecks, Check
<1>4. /\ NextShare.custodian_id = cid
      /\ NextShare.share_data = Bytes(8 + U32(0), sd_len)
  BY DEF NextShare
<1>5. /\ U32(0) \in Nat /\ sd_len \in Nat /\ position + ShareLen <= Len(buf)
      /\ ShareLen = 8 + U32(0) + sd_len
  BY SharePassed DEF FileOK
<1>6. CursorOK /\ position \in Nat /\ Len(buf) \in Nat
  BY FileNumbers
<1>7. PICK n, d : n = U32(0) /\ d = sd_len
  OBVIOUS
<1>8. /\ n \in Nat /\ d \in Nat /\ position + 4 + n <= Len(buf) /\ 8 + n \in Nat
      /\ position + (8 + n) + d <= Len(buf)
  BY <1>5, <1>6, <1>7
<1>9. Len(Bytes(4, n)) = n /\ Len(Bytes(8 + n, d)) = d
  <2>1. Len(Bytes(4, n)) = n
    BY <1>6, <1>8, BytesRead
  <2>2. Len(Bytes(8 + n, d)) = d
    BY <1>6, <1>8, BytesRead
  <2>. QED
    BY <2>1, <2>2
<1>10. cid = Bytes(4, n) /\ cid \in Seq(U8Values)
  <2>1. Bytes(4, n) \in Seq(U8Values)
    BY <1>6, <1>8, BytesRead
  <2>. QED
    BY <1>7, <2>1 DEF cid
<1>11. Len(cid) \in 1..DEFAULT_HINT_MAX_BYTES
  <2>1. Len(cid) # 0
    BY <1>3, <1>10
  <2>2. DEFAULT_HINT_MAX_BYTES \in Nat
    BY Ceilings
  <2>. QED
    BY <1>3, <1>7, <1>8, <1>9, <1>10, <2>1, <2>2
<1>12. Len(NextShare.share_data) \in 1..DEFAULT_SHARE_DATA_MAX_BYTES
  BY <1>3, <1>4, <1>7, <1>9
<1>. QED
  BY <1>3, <1>4, <1>11, <1>12 DEF ValidShare

LEMMA HintIsValid ==
    ASSUME FileOK, Passes(HintChecks)
    PROVE  Len(NextUri) <= DEFAULT_HINT_MAX_BYTES /\ IsUtf8(NextUri)
<1>1. DOMAIN HintChecks = 1..4
  BY DEF HintChecks
<1>2. HintChecks[2] = "ok" /\ HintChecks[4] = "ok"
  BY <1>1 DEF Passes
<1>3. U32(0) <= DEFAULT_HINT_MAX_BYTES /\ IsUtf8(NextUri)
  BY <1>2 DEF HintChecks, Check, NextUri
<1>4. Len(NextUri) = U32(0)
  BY TailAgain, BlobLength
<1>. QED
  BY <1>3, <1>4

LEMMA HistoryHeadIsValid ==
    ASSUME Passes(HistoryHeadChecks)
    PROVE  U32(1) # 0
<1>1. DOMAIN HistoryHeadChecks = 1..5
  BY DEF HistoryHeadChecks
<1>2. HistoryHeadChecks[4] = "ok"
  BY <1>1 DEF Passes
<1>. QED
  BY <1>2 DEF HistoryHeadChecks, Check

LEMMA HistoryEntryIsValid ==
    ASSUME FileOK, Passes(HistoryEntryChecks)
    PROVE  /\ HistoryEntry.op \in HistoryOps
           /\ Len(HistoryEntry.params) <= DEFAULT_HISTORY_PARAMS_MAX_BYTES
<1>1. DOMAIN HistoryEntryChecks = 1..8
  BY DEF HistoryEntryChecks
<1>2. HistoryEntryChecks[7] = "ok"
  BY <1>1 DEF Passes
<1>3. params_len <= DEFAULT_HISTORY_PARAMS_MAX_BYTES
  BY <1>2 DEF HistoryEntryChecks, Check
<1>4. /\ U8(0) \in HistoryOps
      /\ inputs_size \in Nat /\ params_len \in Nat
      /\ position + 17 + inputs_size + params_len <= Len(buf)
  BY HistoryEntryPassed DEF FileOK
<1>5. CursorOK /\ position \in Nat /\ Len(buf) \in Nat
  BY FileNumbers
<1>6. PICK n, d : n = 17 + inputs_size /\ d = params_len
  OBVIOUS
<1>7. n \in Nat /\ d \in Nat /\ position + n + d <= Len(buf)
  BY <1>4, <1>5, <1>6
<1>8. Len(Bytes(n, d)) = d
  BY <1>5, <1>7, BytesRead
<1>9. HistoryEntry.op = U8(0) /\ HistoryEntry.params = Bytes(n, d)
  BY <1>6 DEF HistoryEntry
<1>. QED
  BY <1>3, <1>4, <1>6, <1>8, <1>9
-----------------------------------------------------------------------------
\* Each parser keeps the rules of what it has parsed.

\* A list all of whose members have a key of their own, and one more.
LEMMA FlagsKept ==
    ASSUME CodecInv, ValidSoFar, FlagsStep
    PROVE  FlagsValid'
<1>1. TypeOK /\ FileOK
  BY CodecFile
<1>2. flags \in Seq(FlagType)
  BY <1>1 DEF TypeOK
<1>3. CASE ReadFlag
  <2>1. Passes(FlagChecks) /\ flags' = Append(flags, [flag_id |-> U16(0), required |-> U8(2) = 1])
    BY <1>3 DEF ReadFlag, Accept
  <2>2. PICK id, required : id = U16(0) /\ required = (U8(2) = 1)
    OBVIOUS
  <2>3. \A i \in DOMAIN flags : flags[i].flag_id # id
    BY <2>1, <2>2, FlagIsValid
  <2>4. flags' = Append(flags, [flag_id |-> id, required |-> required])
    BY <2>1, <2>2
  <2>5. \A i, j \in DOMAIN flags : i # j => flags[i].flag_id # flags[j].flag_id
    BY DEF ValidSoFar, FlagsValid
  <2>. QED
    BY <1>2, <2>3, <2>4, <2>5 DEF FlagsValid
<1>4. CASE ~ReadFlag
  <2>1. UNCHANGED flags
    BY <1>4 DEF FlagsStep, RejectFlags, ReadFlagsHead, FlagsEnd
  <2>. QED
    BY <2>1 DEF ValidSoFar, FlagsValid
<1>. QED
  BY <1>3, <1>4

LEMMA LocatorsKept ==
    ASSUME CodecInv, ValidSoFar, ReadLocator
    PROVE  ValidLocators(locators')
<1>1. TypeOK /\ FileOK
  BY CodecFile
<1>2. locators \in Seq(ByteString)
  BY <1>1 DEF TypeOK
<1>3. Passes(LocatorChecks) /\ locators' = Append(locators, NextUri)
  BY DEF ReadLocator, Accept, NextUri
<1>4. PICK uri : uri = NextUri
  OBVIOUS
<1>5. /\ Len(uri) \in MIN_LOCATOR_URI_BYTES..DEFAULT_LOCATOR_MAX_URI_BYTES
      /\ IsUri(uri) /\ uri \in ByteString
  BY <1>1, <1>3, <1>4, UriIsValid
<1>6. PICK list \in Seq(ByteString) : list = Append(locators, uri)
  <2>1. Append(locators, uri) \in Seq(ByteString)
    BY <1>2, <1>5
  <2>. QED
    BY <2>1, Zenon
<1>7. ASSUME NEW i \in DOMAIN list
      PROVE  /\ Len(list[i]) \in MIN_LOCATOR_URI_BYTES..DEFAULT_LOCATOR_MAX_URI_BYTES
             /\ IsUri(list[i])
  <2>1. CASE i \in DOMAIN locators
    <3>1. list[i] = locators[i]
      BY <1>2, <1>6, <2>1
    <3>. QED
      BY <2>1, <3>1 DEF ValidSoFar, ValidLocators
  <2>2. CASE i \notin DOMAIN locators
    <3>1. list[i] = uri
      BY <1>2, <1>5, <1>6, <2>2
    <3>. QED
      BY <1>5, <3>1
  <2>. QED
    BY <2>1, <2>2
<1>8. ValidLocators(list)
  BY <1>7 DEF ValidLocators
<1>. QED
  BY <1>3, <1>4, <1>6, <1>8

\* A call of parse_locator_entries begins with none.
LEMMA NoLocators == ValidLocators(<<>>)
BY DEF ValidLocators

LEMMA ReferenceKept ==
    ASSUME CodecInv, ValidSoFar, MetadataReferenceStep
    PROVE  ReferenceValid' /\ ValidLocators(locators')
<1>1. TypeOK /\ FileOK
  BY CodecFile
<1>2. CASE RejectMetadataReference
  BY <1>2 DEF RejectMetadataReference, Reject, Raise, At, ValidSoFar, ReferenceValid
<1>3. CASE ReadMetadataHead
  <2>1. section' = "metadata_reference" /\ locators' = <<>>
    BY <1>3 DEF ReadMetadataHead, Accept, At, BeginLocators
  <2>. QED
    BY <2>1, NoLocators DEF ReferenceValid
<1>4. CASE ReadMetadataTail
  <2>1. /\ Passes(MetadataTailChecks) /\ UNCHANGED locators
        /\ metadata_reference' = [metadata_reference EXCEPT
                                    !.locators = locators, !.inline_metadata = NextUri]
    BY <1>4 DEF ReadMetadataTail, NextUri
  <2>2. PICK inline : inline = NextUri
    OBVIOUS
  <2>3. /\ Len(inline) <= DEFAULT_INLINE_METADATA_MAX_BYTES
        /\ locators # <<>> \/ inline # <<>>
    BY <1>1, <2>1, <2>2, TailIsValid
  <2>4. metadata_reference \in MetadataReferenceType
    BY <1>1 DEF TypeOK
  <2>5. metadata_reference'.locators = locators /\ metadata_reference'.inline_metadata = inline
    BY <2>1, <2>2, <2>4 DEF MetadataReferenceType
  <2>. QED
    BY <2>1, <2>3, <2>5 DEF ValidSoFar, ReferenceValid, ValidReference
<1>. QED
  BY <1>2, <1>3, <1>4 DEF MetadataReferenceStep

\* An entry begun has an id of its own and at least one locator to come; an
\* entry complete has them.
LEMMA SlabsKept ==
    ASSUME CodecInv, ValidSoFar, SlabIndexStep
    PROVE  SlabsValid' /\ ValidLocators(locators')
<1>1. TypeOK /\ FileOK /\ LocatorsOpen
  BY CodecFile DEF CodecInv, IInv
<1>2. slab_index \in Seq(SlabEntryType) /\ Len(slab_index) \in Nat
  BY <1>1 DEF TypeOK
<1>3. CASE RejectSlabIndex \/ ReadSlabIndexHead \/ SlabIndexEnd
  <2>1. UNCHANGED <<slab_index, locators, locators_left>>
    BY <1>3 DEF RejectSlabIndex, ReadSlabIndexHead, SlabIndexEnd
  <2>2. OpenSlab' => OpenSlab
    BY <1>3, NextSectionsAre DEF RejectSlabIndex, Reject, Raise, ReadSlabIndexHead, SlabIndexEnd,
       EntriesEnd,
       Return, Accept, OpenSlab
  <2>3. OpenSlab => OpenSlab'
    BY <1>3 DEF RejectSlabIndex, Reject, Raise, ReadSlabIndexHead, SlabIndexEnd, EntriesEnd,
       At, Accept, OpenSlab
  <2>. QED
    BY <2>1, <2>2, <2>3 DEF ValidSoFar, SlabsValid
<1>4. CASE ReadSlabEntry
  <2>1. /\ Passes(SlabEntryChecks) /\ ~OpenSlab
        /\ locators' = <<>> /\ locators_left' = U32(40) /\ section' = "slab_index" /\ step' = "locators"
        /\ slab_index' = Append(slab_index, [slab_id |-> Bytes(0, 40), locators |-> <<>>])
    BY <1>4 DEF ReadSlabEntry, Accept, At, BeginLocators, SLAB_ID_LEN, OpenSlab
  <2>2. PICK id, count : id = Bytes(0, 40) /\ count = U32(40)
    OBVIOUS
  <2>3. count # 0 /\ \A i \in DOMAIN slab_index : slab_index[i].slab_id # id
    BY <2>1, <2>2, SlabIsValid
  <2>4. count \in Nat
    <3>1. 40 \in Nat
      OBVIOUS
    <3>. QED
      BY <1>1, <2>2, <3>1, U32Range DEF FileOK
  <2>5. slab_index' = Append(slab_index, [slab_id |-> id, locators |-> <<>>])
    BY <2>1, <2>2
  <2>6. \A i, j \in DOMAIN slab_index' : i # j => slab_index'[i].slab_id # slab_index'[j].slab_id
    <3>1. \A i, j \in DOMAIN slab_index : i # j => slab_index[i].slab_id # slab_index[j].slab_id
      BY DEF ValidSoFar, SlabsValid
    <3>. QED
      BY <1>2, <2>3, <2>5, <3>1
  <2>7. ASSUME NEW i \in DOMAIN slab_index', i # Len(slab_index')
        PROVE  slab_index'[i].locators # <<>> /\ ValidLocators(slab_index'[i].locators)
    <3>1. i \in DOMAIN slab_index /\ slab_index'[i] = slab_index[i]
      BY <1>2, <2>5, <2>7
    <3>. QED
      BY <2>1, <3>1 DEF ValidSoFar, SlabsValid
  <2>8. Len(locators') + locators_left' > 0
    BY <2>1, <2>2, <2>3, <2>4
  <2>. QED
    BY <2>1, <2>6, <2>7, <2>8, NoLocators DEF SlabsValid, OpenSlab
<1>5. CASE SlabEntryRead
  <2>1. /\ OpenSlab /\ ~OpenSlab' /\ UNCHANGED <<locators, locators_left>> /\ locators_left = 0
        /\ slab_index' = [slab_index EXCEPT ![Len(slab_index)].locators = locators]
    BY <1>1, <1>5 DEF SlabEntryRead, At, OpenSlab, MoreLocators, TypeOK
  <2>2. locators # <<>> /\ ValidLocators(locators)
    <3>1. Len(locators) + 0 > 0
      BY <2>1 DEF ValidSoFar, SlabsValid
    <3>. QED
      BY <3>1 DEF ValidSoFar
  <2>3. slab_index # <<>>
    BY <1>1, <2>1 DEF OpenSlab, LocatorsOpen
  <2>4. /\ DOMAIN slab_index' = DOMAIN slab_index
        /\ \A i \in DOMAIN slab_index : slab_index'[i].slab_id = slab_index[i].slab_id
        /\ \A i \in DOMAIN slab_index : i # Len(slab_index) => slab_index'[i] = slab_index[i]
        /\ slab_index'[Len(slab_index)].locators = locators
    BY <1>2, <2>1, <2>3 DEF SlabEntryType
  <2>5. ASSUME NEW i \in DOMAIN slab_index
        PROVE  slab_index'[i].locators # <<>> /\ ValidLocators(slab_index'[i].locators)
    <3>1. CASE i = Len(slab_index)
      BY <2>2, <2>4, <3>1
    <3>2. CASE i # Len(slab_index)
      BY <2>4, <3>2 DEF ValidSoFar, SlabsValid
    <3>. QED
      BY <3>1, <3>2
  <2>6. \A i, j \in DOMAIN slab_index : i # j => slab_index'[i].slab_id # slab_index'[j].slab_id
    BY <2>4 DEF ValidSoFar, SlabsValid
  <2>. QED
    BY <2>1, <2>2, <2>4, <2>5, <2>6 DEF SlabsValid
<1>. QED
  BY <1>3, <1>4, <1>5 DEF SlabIndexStep

\* A locator more leaves the sum of those read and those to come.
LEMMA OpenSlabKept ==
    ASSUME CodecInv, ValidSoFar, LocatorStep, UNCHANGED slab_index
    PROVE  SlabsValid' /\ ValidLocators(locators') /\ UNCHANGED <<section, step, left>>
<1>1. TypeOK /\ locators \in Seq(ByteString) /\ locators_left \in Nat
  BY CodecFile DEF TypeOK
<1>2. UNCHANGED <<section, step, left>>
  BY DEF LocatorStep, RejectLocator, ReadLocator, Reject, Raise, Accept
<1>3. CASE RejectLocator
  BY <1>2, <1>3 DEF RejectLocator, ValidSoFar, SlabsValid, OpenSlab
<1>4. CASE ReadLocator
  <2>1. ValidLocators(locators')
    BY <1>4, LocatorsKept
  <2>2. PICK uri : locators' = Append(locators, uri)
    BY <1>4 DEF ReadLocator
  <2>3. Len(locators') = Len(locators) + 1 /\ locators_left' = locators_left - 1
    BY <1>1, <1>4, <2>2 DEF ReadLocator
  <2>. QED
    BY <1>1, <1>2, <2>1, <2>3 DEF ValidSoFar, SlabsValid, OpenSlab
<1>. QED
  BY <1>2, <1>3, <1>4 DEF LocatorStep

LEMMA EcKept ==
    ASSUME CodecInv, ValidSoFar, HasFlag(EC_FLAG), EcParamsStep
    PROVE  ValidEcParams(ec_params') \/ (UNCHANGED ec_params /\ section' = "ec_params" /\ step' = step)
<1>1. TypeOK /\ FileOK /\ NotBegun
  BY CodecFile
<1>2. /\ ec_params \in EcParamsType
      /\ ec_params.overrides \in Seq(OverrideType)
  BY <1>1 DEF TypeOK, EcParamsType, OverrideType
<1>3. CASE RejectEcParams
  BY <1>3 DEF RejectEcParams, Reject, Raise, At
<1>4. CASE ReadEcHead
  <2>1. /\ Passes(EcHeadChecks) /\ section = "ec_params" /\ step = "head"
        /\ ec_params' = [ec_params EXCEPT !.k = U8(1), !.m = U8(2)]
    BY <1>4 DEF ReadEcHead, Accept, At
  <2>2. PICK k, m : k = U8(1) /\ m = U8(2)
    OBVIOUS
  <2>3. ValidShards(k, m)
    BY <2>1, <2>2, EcHeadIsValid
  <2>4. ec_params = NoEcParams
    BY <1>1, <2>1 DEF NotBegun, Ahead
  <2>5. ec_params' = [k |-> k, m |-> m, overrides |-> <<>>]
    BY <2>1, <2>2, <2>4 DEF NoEcParams
  <2>. QED
    BY <2>3, <2>5 DEF ValidEcParams, Distinct
<1>5. CASE ReadOverride
  <2>1. /\ Passes(OverrideChecks) /\ section = "ec_params" /\ step = "entries"
        /\ ec_params' = [ec_params EXCEPT !.overrides =
                            Append(@, [slab_id |-> Bytes(0, 40), k |-> U8(40), m |-> U8(41)])]
    BY <1>5 DEF ReadOverride, Accept, At
  <2>2. PICK id, k, m : id = Bytes(0, 40) /\ k = U8(40) /\ m = U8(41)
    OBVIOUS
  <2>3. /\ ValidShards(k, m)
        /\ \A i \in DOMAIN ec_params.overrides : ec_params.overrides[i].slab_id # id
    BY <2>1, <2>2, OverrideIsValid
  <2>4. ValidEcParams(ec_params)
    BY <2>1 DEF ValidSoFar, EcValid
  <2>5. /\ ec_params'.k = ec_params.k /\ ec_params'.m = ec_params.m
        /\ ec_params'.overrides = Append(ec_params.overrides, [slab_id |-> id, k |-> k, m |-> m])
    BY <1>2, <2>1, <2>2 DEF EcParamsType
  <2>6. PICK list, longer : list = ec_params.overrides /\ longer = ec_params'.overrides
    OBVIOUS
  <2>7. /\ list \in Seq(OverrideType) /\ longer = Append(list, [slab_id |-> id, k |-> k, m |-> m])
        /\ \A i \in DOMAIN list : list[i].slab_id # id
        /\ \A i \in DOMAIN list : ValidShards(list[i].k, list[i].m)
        /\ \A i, j \in DOMAIN list : i # j => list[i].slab_id # list[j].slab_id
    <3>1. Distinct(list, LAMBDA o : o.slab_id) /\ \A i \in DOMAIN list : ValidShards(list[i].k, list[i].m)
      BY <2>4, <2>6 DEF ValidEcParams
    <3>. QED
      BY <1>2, <2>3, <2>5, <2>6, <3>1 DEF Distinct
  <2>8. \A i \in DOMAIN longer : ValidShards(longer[i].k, longer[i].m)
    BY <2>3, <2>7
  <2>9. \A i, j \in DOMAIN longer : i # j => longer[i].slab_id # longer[j].slab_id
    BY <2>7
  <2>10. Distinct(longer, LAMBDA o : o.slab_id)
    BY <2>9 DEF Distinct
  <2>. QED
    BY <2>4, <2>5, <2>6, <2>8, <2>10 DEF ValidEcParams
<1>6. CASE EcParamsEnd
  <2>1. section = "ec_params" /\ step = "entries" /\ UNCHANGED ec_params
    BY <1>6 DEF EcParamsEnd, EntriesEnd, At
  <2>. QED
    BY <2>1 DEF ValidSoFar, EcValid
<1>. QED
  BY <1>3, <1>4, <1>5, <1>6 DEF EcParamsStep

LEMMA DmsKept ==
    ASSUME CodecInv, ValidSoFar, HasFlag(DMS_FLAG), DmsPolicyStep
    PROVE  /\ section' = "dms_policy" /\ step' # "head" =>
                 SharesValid' /\ Len(dms_policy'.shares) + left' = dms_policy'.n
           /\ section' = "history" => ValidDmsPolicy(dms_policy')
<1>1. TypeOK /\ FileOK /\ NotBegun
  BY CodecFile
<1>2. /\ dms_policy \in DmsPolicyType /\ left \in Nat
      /\ dms_policy.shares \in Seq(ShareType)
  BY <1>1 DEF TypeOK, DmsPolicyType, ShareType
<1>3. CASE RejectDmsPolicy
  BY <1>3 DEF RejectDmsPolicy, Reject, Raise, At, ValidSoFar, DmsValid, SharesValid
<1>4. CASE ReadDmsHead
  <2>1. /\ Passes(DmsHeadChecks) /\ section = "dms_policy" /\ step = "head"
        /\ section' = "dms_policy" /\ left' = U32(4)
        /\ dms_policy' = [dms_policy EXCEPT !.k = U8(2), !.n = U8(3)]
    BY <1>4 DEF ReadDmsHead, Accept, At
  <2>2. PICK k, n : k = U8(2) /\ n = U8(3)
    OBVIOUS
  <2>3. k \in 1..n /\ left' = n /\ n \in U8Values
    <3>1. U8(3) \in U8Values
      <4>1. 3 \in Nat
        OBVIOUS
      <4>. QED
        BY <1>1, <4>1, ByteRange DEF FileOK
    <3>. QED
      BY <1>1, <2>1, <2>2, <3>1, DmsHeadIsValid, Zenon
  <2>4. dms_policy = NoDmsPolicy
    BY <1>1, <2>1 DEF NotBegun, Ahead
  <2>5. dms_policy' = [k |-> k, n |-> n, shares |-> <<>>, reconstruction_hint |-> <<>>]
    BY <2>1, <2>2, <2>4 DEF NoDmsPolicy
  <2>. QED
    <3>1. SharesValid'
      BY <2>3, <2>5 DEF SharesValid
    <3>2. Len(dms_policy'.shares) + left' = dms_policy'.n
      BY <2>3, <2>5 DEF U8Values
    <3>. QED
      BY <2>1, <3>1, <3>2
<1>5. CASE ReadShare
  <2>1. /\ Passes(ShareChecks) /\ section = "dms_policy" /\ step = "entries" /\ section' = "dms_policy"
        /\ left' = left - 1
        /\ dms_policy' = [dms_policy EXCEPT !.shares = Append(@, NextShare)]
    BY <1>5 DEF ReadShare, Accept, At, NextShare
  <2>2. PICK share : share = NextShare
    OBVIOUS
  <2>3. /\ ValidShare(share)
        /\ \A i \in DOMAIN dms_policy.shares : dms_policy.shares[i].custodian_id # share.custodian_id
    BY <1>1, <2>1, <2>2, ShareIsValid
  <2>4. SharesValid /\ Len(dms_policy.shares) + left = dms_policy.n
    BY <2>1 DEF ValidSoFar, DmsValid
  <2>5. /\ dms_policy'.k = dms_policy.k /\ dms_policy'.n = dms_policy.n
        /\ dms_policy'.shares = Append(dms_policy.shares, share)
    BY <1>2, <2>1, <2>2 DEF DmsPolicyType
  <2>6. PICK list, longer : list = dms_policy.shares /\ longer = dms_policy'.shares
    OBVIOUS
  <2>7. /\ list \in Seq(ShareType) /\ longer = Append(list, share)
        /\ \A i \in DOMAIN list : list[i].custodian_id # share.custodian_id
        /\ \A i \in DOMAIN list : ValidShare(list[i])
        /\ \A i, j \in DOMAIN list : i # j => list[i].custodian_id # list[j].custodian_id
    BY <1>2, <2>3, <2>4, <2>5, <2>6 DEF SharesValid
  <2>8. \A i \in DOMAIN longer : ValidShare(longer[i])
    BY <2>3, <2>7
  <2>9. \A i, j \in DOMAIN longer : i # j => longer[i].custodian_id # longer[j].custodian_id
    BY <2>7
  <2>10. SharesValid'
    BY <2>4, <2>5, <2>6, <2>8, <2>9 DEF SharesValid
  <2>11. Len(longer) + left' = dms_policy.n
    BY <1>2, <2>1, <2>4, <2>6, <2>7
  <2>. QED
    BY <2>1, <2>5, <2>6, <2>10, <2>11
<1>6. CASE ReadHint
  <2>1. /\ Passes(HintChecks) /\ section = "dms_policy" /\ step = "entries" /\ left = 0
        /\ dms_policy' = [dms_policy EXCEPT !.reconstruction_hint = NextUri]
        /\ section' = NextSection("dms_policy")
    BY <1>2, <1>6 DEF ReadHint, At, MoreEntries, Return, NextUri
  <2>2. PICK hint : hint = NextUri
    OBVIOUS
  <2>3. Len(hint) <= DEFAULT_HINT_MAX_BYTES /\ IsUtf8(hint)
    BY <1>1, <2>1, <2>2, HintIsValid
  <2>4. SharesValid /\ Len(dms_policy.shares) + 0 = dms_policy.n
    BY <2>1 DEF ValidSoFar, DmsValid
  <2>5. /\ dms_policy'.k = dms_policy.k /\ dms_policy'.n = dms_policy.n
        /\ dms_policy'.shares = dms_policy.shares /\ dms_policy'.reconstruction_hint = hint
    BY <1>2, <2>1, <2>2 DEF DmsPolicyType
  <2>6. Len(dms_policy.shares) = dms_policy.n
    BY <1>2, <2>4
  <2>7. Distinct(dms_policy.shares, LAMBDA s : s.custodian_id)
    BY <2>4 DEF SharesValid, Distinct
  <2>8. ValidDmsPolicy(dms_policy')
    BY <2>3, <2>4, <2>5, <2>6, <2>7 DEF ValidDmsPolicy, SharesValid
  <2>. QED
    BY <2>1, <2>8, NextSectionsAre
<1>. QED
  BY <1>3, <1>4, <1>5, <1>6 DEF DmsPolicyStep

LEMMA HistoryKept ==
    ASSUME CodecInv, ValidSoFar, HistoryStep
    PROVE  HistoryValid' /\ section' = "history"
<1>1. TypeOK /\ FileOK /\ NotBegun
  BY CodecFile
<1>2. history \in Seq(HistoryEntryType) /\ left \in Nat /\ Len(history) \in Nat
  BY <1>1 DEF TypeOK
<1>3. section = "history" /\ section' = "history"
  BY DEF HistoryStep, RejectHistory, ReadHistoryHead, ReadHistoryEntry, HistoryEnd, Reject, Raise,
         Accept, At, EntriesEnd, Return
<1>4. HistoryValid
  BY DEF ValidSoFar
<1>5. CASE RejectHistory \/ HistoryEnd
  <2>1. UNCHANGED <<history, step, left>>
    BY <1>5 DEF RejectHistory, HistoryEnd, Reject, Raise, EntriesEnd, Return
  <2>. QED
    BY <1>3, <1>4, <2>1 DEF HistoryValid
<1>6. CASE ReadHistoryHead
  <2>1. Passes(HistoryHeadChecks) /\ left' = U32(1) /\ UNCHANGED history
    BY <1>6 DEF ReadHistoryHead, Accept
  <2>2. left' \in Nat /\ left' # 0
    <3>1. 1 \in Nat
      OBVIOUS
    <3>. QED
      BY <1>1, <2>1, <3>1, U32Range, HistoryHeadIsValid, Zenon DEF FileOK
  <2>. QED
    BY <1>2, <1>3, <1>4, <2>1, <2>2 DEF HistoryValid
<1>7. CASE ReadHistoryEntry
  <2>1. /\ Passes(HistoryEntryChecks) /\ step = "entries" /\ left' = left - 1 /\ left > 0
        /\ history' = Append(history, HistoryEntry)
    BY <1>7 DEF ReadHistoryEntry, Accept, At, MoreEntries
  <2>2. PICK entry : entry = HistoryEntry
    OBVIOUS
  <2>3. entry.op \in HistoryOps /\ Len(entry.params) <= DEFAULT_HISTORY_PARAMS_MAX_BYTES
    BY <1>1, <2>1, <2>2, HistoryEntryIsValid
  <2>4. history' = Append(history, entry)
    BY <2>1, <2>2
  <2>5. \A i \in DOMAIN history' :
          history'[i].op \in HistoryOps /\ Len(history'[i].params) <= DEFAULT_HISTORY_PARAMS_MAX_BYTES
    BY <1>2, <1>4, <2>3, <2>4 DEF HistoryValid
  <2>6. Len(history') + left' > 0
    <3>1. Len(history') = Len(history) + 1
      BY <1>2, <2>4
    <3>. QED
      BY <1>2, <2>1, <3>1
  <2>. QED
    BY <1>3, <2>5, <2>6 DEF HistoryValid
<1>. QED
  BY <1>5, <1>6, <1>7 DEF HistoryStep

-----------------------------------------------------------------------------
\* Every step of verify keeps the rules.

\* A step of another section.
LEMMA OthersStay ==
    ASSUME ValidSoFar
    PROVE  /\ UNCHANGED flags => FlagsValid'
           /\ UNCHANGED locators => ValidLocators(locators')
           /\ UNCHANGED metadata_reference /\ section' \notin {"slab_index", "ec_params", "dms_policy", "history"}
                => ReferenceValid'
           /\ UNCHANGED metadata_reference /\ section \in {"slab_index", "ec_params", "dms_policy", "history"}
                => ReferenceValid'
           /\ UNCHANGED slab_index /\ ~OpenSlab /\ ~OpenSlab' => SlabsValid'
           /\ section' \notin {"ec_params", "dms_policy", "history"} => EcValid'
           /\ section' = "ec_params" /\ step' = "head" => EcValid'
           /\ section' \notin {"dms_policy", "history"} => DmsValid'
           /\ section' = "dms_policy" /\ step' = "head" => DmsValid'
           /\ UNCHANGED history /\ section' # "history" => HistoryValid'
           /\ UNCHANGED history /\ section' = "history" /\ step' = "head" => HistoryValid'
BY DEF ValidSoFar, FlagsValid, ReferenceValid, SlabsValid, OpenSlab, EcValid, DmsValid, HistoryValid

LEMMA ValidKept ==
    ASSUME CodecInv, ValidSoFar, Step
    PROVE  ValidSoFar'
<1>1. TypeOK /\ LocatorsOpen /\ step \in {"head", "entries", "locators"}
  BY CodecFile DEF CodecInv, IInv, TypeOK
<1>2. CASE /\ HeaderStep
           /\ UNCHANGED <<locatorVars, flags, metadata_reference, slab_index, ec_params,
                          dms_policy, history>>
  <2>1. section = "header" /\ section' \in {"header", "feature_flags"}
    BY <1>2, NextSectionsAre DEF HeaderStep, RejectHeader, Reject, Raise, ReadHeader, At, Return
  <2>. QED
    BY <1>2, <2>1, OthersStay DEF ValidSoFar, OpenSlab, locatorVars
<1>3. CASE /\ FlagsStep
           /\ UNCHANGED <<locatorVars, header, metadata_reference, slab_index, ec_params,
                          dms_policy, history>>
  <2>1. section = "feature_flags" /\ section' \in {"feature_flags", "metadata_reference"}
    BY <1>3, NextSectionsAre DEF FlagsStep, RejectFlags, Reject, Raise, ReadFlagsHead, ReadFlag,
       FlagsEnd,
       EntriesEnd, At, Return, Accept
  <2>. QED
    BY <1>3, <2>1, FlagsKept, OthersStay DEF ValidSoFar, OpenSlab, locatorVars
<1>4. CASE /\ MetadataReferenceStep
           /\ UNCHANGED <<header, flags, slab_index, ec_params, dms_policy, history>>
  <2>1. section = "metadata_reference" /\ section' \in {"metadata_reference", "slab_index"}
        /\ (section' = "slab_index" => step' = "head")
    BY <1>4, NextSectionsAre DEF MetadataReferenceStep, RejectMetadataReference, Reject, Raise,
       ReadMetadataHead, ReadMetadataTail, At, Return, Accept
  <2>. QED
    BY <1>4, <2>1, ReferenceKept, OthersStay DEF ValidSoFar, OpenSlab
<1>5. CASE /\ LocatorStep
           /\ UNCHANGED <<header, flags, metadata_reference, slab_index, ec_params, dms_policy,
                          history>>
  <2>1. section \in {"metadata_reference", "slab_index"}
    BY <1>1, <1>5 DEF LocatorStep, RejectLocator, ReadLocator, Reject, Accept, At, LocatorsOpen
  <2>2. SlabsValid' /\ ValidLocators(locators') /\ UNCHANGED <<section, step, left>>
    BY <1>5, OpenSlabKept
  <2>. QED
    BY <1>5, <2>1, <2>2, OthersStay DEF ValidSoFar
<1>6. CASE /\ SlabIndexStep
           /\ UNCHANGED <<header, flags, metadata_reference, ec_params, dms_policy, history>>
  <2>1. section = "slab_index" /\ section' \in {"slab_index", "ec_params"}
        /\ (section' = "ec_params" => step' = "head")
    BY <1>6, NextSectionsAre DEF SlabIndexStep, RejectSlabIndex, Reject, Raise, ReadSlabIndexHead,
       ReadSlabEntry, SlabEntryRead, SlabIndexEnd, EntriesEnd, At, Return, Accept
  <2>. QED
    BY <1>6, <2>1, SlabsKept, OthersStay DEF ValidSoFar
<1>7. CASE /\ SkipEcParams \/ SkipDmsPolicy
           /\ UNCHANGED <<locatorVars, header, flags, metadata_reference, slab_index, ec_params,
                          dms_policy, history>>
  <2>1. CASE SkipEcParams
    <3>1. section = "ec_params" /\ section' = "dms_policy" /\ step' = "head" /\ ~HasFlag(EC_FLAG)
      BY <2>1, NextSectionsAre DEF SkipEcParams, At, Return
    <3>2. EcValid'
      BY <1>7, <3>1 DEF EcValid, HasFlag
    <3>. QED
      BY <1>7, <3>1, <3>2, OthersStay DEF ValidSoFar, OpenSlab, locatorVars
  <2>2. CASE SkipDmsPolicy
    <3>1. section = "dms_policy" /\ section' = "history" /\ step' = "head" /\ ~HasFlag(DMS_FLAG)
      BY <2>2, NextSectionsAre DEF SkipDmsPolicy, At, Return
    <3>2. EcValid' /\ DmsValid'
      BY <1>7, <3>1 DEF ValidSoFar, EcValid, DmsValid, HasFlag
    <3>. QED
      BY <1>7, <3>1, <3>2, OthersStay DEF ValidSoFar, OpenSlab, locatorVars
  <2>. QED
    BY <1>7, <2>1, <2>2
<1>8. CASE /\ HasFlag(EC_FLAG) /\ EcParamsStep
           /\ UNCHANGED <<locatorVars, header, flags, metadata_reference, slab_index, dms_policy,
                          history>>
  <2>1. section = "ec_params" /\ section' \in {"ec_params", "dms_policy"}
        /\ (section' = "dms_policy" => step' = "head")
    BY <1>8, NextSectionsAre DEF EcParamsStep, RejectEcParams, Reject, Raise, ReadEcHead,
       ReadOverride,
       EcParamsEnd, EntriesEnd, At, Return, Accept
  <2>2. EcValid'
    BY <1>8, <2>1, EcKept DEF ValidSoFar, EcValid
  <2>. QED
    BY <1>8, <2>1, <2>2, OthersStay DEF ValidSoFar, OpenSlab, locatorVars
<1>9. CASE /\ HasFlag(DMS_FLAG) /\ DmsPolicyStep
           /\ UNCHANGED <<locatorVars, header, flags, metadata_reference, slab_index, ec_params,
                          history>>
  <2>1. section = "dms_policy" /\ section' \in {"dms_policy", "history"}
        /\ (section' = "history" => step' = "head")
    BY <1>9, NextSectionsAre DEF DmsPolicyStep, RejectDmsPolicy, Reject, Raise, ReadDmsHead,
       ReadShare,
       ReadHint, At, Return, Accept
  <2>2. DmsValid'
    BY <1>9, <2>1, DmsKept DEF DmsValid
  <2>3. EcValid'
    BY <1>9, <2>1 DEF ValidSoFar, EcValid, HasFlag
  <2>. QED
    BY <1>9, <2>1, <2>2, <2>3, OthersStay DEF ValidSoFar, OpenSlab, locatorVars
<1>10. CASE /\ HistoryStep
            /\ UNCHANGED <<locatorVars, header, flags, metadata_reference, slab_index, ec_params,
                           dms_policy>>
  <2>1. section = "history" /\ section' = "history" /\ HistoryValid'
    BY <1>10, HistoryKept DEF HistoryStep, RejectHistory, ReadHistoryHead, ReadHistoryEntry,
       HistoryEnd,
       Reject, Accept, At, EntriesEnd
  <2>2. EcValid' /\ DmsValid'
    BY <1>10, <2>1 DEF ValidSoFar, EcValid, DmsValid, HasFlag
  <2>. QED
    BY <1>10, <2>1, <2>2, OthersStay DEF ValidSoFar, OpenSlab, locatorVars
<1>. QED
  BY <1>2, <1>3, <1>4, <1>5, <1>6, <1>7, <1>8, <1>9, <1>10 DEF Step

LEMMA ValidInit == Init => ValidSoFar
<1> SUFFICES ASSUME Init
             PROVE  ValidSoFar
  OBVIOUS
<1>1. /\ section = "header" /\ step = "head" /\ flags = <<>> /\ locators = <<>>
      /\ slab_index = <<>> /\ history = <<>>
  BY DEF Init, Start
<1>. QED
  BY <1>1, NoLocators DEF ValidSoFar, FlagsValid, ReferenceValid, SlabsValid, OpenSlab, EcValid,
     DmsValid,
     HistoryValid

LEMMA ValidNext == CodecInv /\ ValidSoFar /\ [Next]_vars => ValidSoFar'
<1> SUFFICES ASSUME CodecInv, ValidSoFar, [Next]_vars
             PROVE  ValidSoFar'
  OBVIOUS
<1>1. CASE Step
  BY <1>1, ValidKept
<1>2. CASE UNCHANGED vars
  BY <1>2 DEF vars, parserVars, locatorVars, ValidSoFar, FlagsValid, ReferenceValid, SlabsValid,
     OpenSlab,
     EcValid, DmsValid, HistoryValid, SharesValid, HasFlag
<1>. QED
  BY <1>1, <1>2 DEF Next, Finished

LEMMA ValidInvariance == Spec => [](CodecInv /\ ValidSoFar)
<1>1. Init => CodecInv /\ ValidSoFar
  BY CodecInit, ValidInit
<1>2. CodecInv /\ ValidSoFar /\ [Next]_vars => (CodecInv /\ ValidSoFar)'
  BY CodecStep, ValidNext
<1>. QED
  BY <1>1, <1>2, PTL DEF Spec

LEMMA InvValid == CodecInv /\ ValidSoFar => OnlyValidManifestsParsed
<1> SUFFICES ASSUME CodecInv, ValidSoFar, status = "verified"
             PROVE  Valid(Parsed)
  BY DEF OnlyValidManifestsParsed
<1>1. /\ section = "history" /\ step = "entries" /\ left = 0 /\ NotBegun
      /\ flags \in Seq(FlagType) /\ Len(history) \in Nat
  BY CodecFile DEF CodecInv, Ended, TypeOK
<1>2. ValidFlags(flags)
  <2>1. \A i \in DOMAIN flags : flags[i].flag_id # 0
    <3> TAKE i \in DOMAIN flags
    <3>1. flags[i] \in FlagType
      BY <1>1
    <3>2. flags[i].flag_id \in U16Values \ {0}
      BY <3>1, Zenon DEF FlagType
    <3>. QED
      BY <3>2
  <2>. QED
    BY <2>1 DEF ValidSoFar, FlagsValid, ValidFlags, Distinct
<1>3. ValidReference(metadata_reference)
  BY <1>1 DEF ValidSoFar, ReferenceValid
<1>4. ValidSlabIndex(slab_index)
  BY <1>1 DEF ValidSoFar, SlabsValid, OpenSlab, ValidSlabIndex, Distinct
<1>5. IF HasFlag(EC_FLAG) THEN ValidEcParams(ec_params) ELSE ec_params = NoEcParams
  BY <1>1 DEF ValidSoFar, EcValid, NotBegun
<1>6. IF HasFlag(DMS_FLAG) THEN ValidDmsPolicy(dms_policy) ELSE dms_policy = NoDmsPolicy
  BY <1>1 DEF ValidSoFar, DmsValid, NotBegun
<1>7. ValidHistory(history)
  <2>1. Len(history) + 0 > 0
    BY <1>1 DEF ValidSoFar, HistoryValid
  <2>. QED
    BY <1>1, <2>1 DEF ValidSoFar, HistoryValid, ValidHistory
<1>. QED
  BY <1>2, <1>3, <1>4, <1>5, <1>6, <1>7 DEF Valid, Parsed, Declares, HasFlag

\* Whatever the bytes, what _verify_bytes accepts keeps the rules of every section, item by
\* item: no flag 0, no flag, slab or custodian twice, URIs, texts and lengths within floor
\* and ceiling, shards within the limit, as many shares as n says, known ops; and a section
\* whose flag is not declared is absent.
THEOREM VerifiedIsValid == Spec => []OnlyValidManifestsParsed
BY InvValid, ValidInvariance, PTL
=============================================================================
