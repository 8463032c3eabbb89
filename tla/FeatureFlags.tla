---------------------------- MODULE FeatureFlags ----------------------------
(***************************************************************************)
(* limnifs/feature_flags.py: parse_feature_flags_section.                  *)
(***************************************************************************)
EXTENDS Sections

FEATURE_FLAGS_SECTION_VERSION == 1
FLAG_ENTRY_LEN == 3       \* ENTRY_LEN

VARIABLE flags            \* FeatureFlags.entries

\* Mutant: the count is believed.
FlagsHeadUnchecked ==
    << Read(1), Check(U8(0) = FEATURE_FLAGS_SECTION_VERSION, "Unsupported"), Read(5) >>

FlagsHeadChecks ==
    << Read(1), Check(U8(0) = FEATURE_FLAGS_SECTION_VERSION, "Unsupported"),
       Read(5), Check(remaining_len - 5 >= U32(1) * FLAG_ENTRY_LEN, "Truncated") >>

\* Mutant: the reserved id is a flag like any other.
FlagChecksReservedIdTaken ==
    << Read(2), Read(3), Check(U8(2) \in {0, 1}, "Corrupt"),
       Check(\A i \in DOMAIN flags : flags[i].flag_id # U16(0), "Corrupt") >>

FlagChecks ==
    << Read(2), Check(U16(0) # 0, "Corrupt"),
       Read(3), Check(U8(2) \in {0, 1}, "Corrupt"),
       Check(\A i \in DOMAIN flags : flags[i].flag_id # U16(0), "Corrupt") >>

RejectFlags ==
    /\ \/ Reject("feature_flags", "head", FlagsHeadChecks)
       \/ MoreEntries /\ Reject("feature_flags", "entries", FlagChecks)
    /\ UNCHANGED flags

ReadFlagsHead ==
    /\ Accept("feature_flags", "head", FlagsHeadChecks, 5)
    /\ step' = "entries"
    /\ left' = U32(1)
    /\ UNCHANGED flags

ReadFlag ==
    /\ MoreEntries
    /\ Accept("feature_flags", "entries", FlagChecks, FLAG_ENTRY_LEN)
    /\ left' = left - 1
    /\ flags' = Append(flags, [flag_id |-> U16(0), required |-> U8(2) = 1])
    /\ UNCHANGED step

FlagsEnd == EntriesEnd("feature_flags") /\ UNCHANGED flags

FlagsStep == RejectFlags \/ ReadFlagsHead \/ ReadFlag \/ FlagsEnd

\* FeatureFlags.get(flag_id) is not None
HasFlag(flag_id) == \E i \in DOMAIN flags : flags[i].flag_id = flag_id
=============================================================================
