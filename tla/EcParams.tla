------------------------------ MODULE EcParams ------------------------------
(***************************************************************************)
(* limnifs/ec_params.py: parse_ec_params_section, called when feature flag *)
(* 0x0001 is declared.                                                     *)
(***************************************************************************)
EXTENDS Sections

EC_PARAMS_SECTION_VERSION == 1
DEFAULT_EC_POLYNOMIAL == 285      \* 0x011D
MAX_SHARDS == 255
OVERRIDE_ENTRY_LEN == 42

VARIABLE ec_params     \* EcParams: [k, m, overrides]

\* _validate
ValidShards(k, m) == k >= 1 /\ m >= 1 /\ k + m <= MAX_SHARDS

EcHeadChecks ==
    << Read(1), Check(U8(0) = EC_PARAMS_SECTION_VERSION, "Unsupported"),
       Read(3), Check(ValidShards(U8(1), U8(2)), "Corrupt"),
       Read(5), Check(U16(3) = DEFAULT_EC_POLYNOMIAL, "Unsupported"),
       Read(9), Check(remaining_len - 9 >= U32(5) * OVERRIDE_ENTRY_LEN, "Truncated") >>

\* Mutant: a slab may be overridden twice.
OverrideChecksRepeated ==
    << Read(OVERRIDE_ENTRY_LEN), Check(ValidShards(U8(40), U8(41)), "Corrupt") >>

OverrideChecks ==
    << Read(OVERRIDE_ENTRY_LEN), Check(ValidShards(U8(40), U8(41)), "Corrupt"),
       Check(\A i \in DOMAIN ec_params.overrides : ec_params.overrides[i].slab_id # Bytes(0, 40),
             "Corrupt") >>

RejectEcParams ==
    /\ \/ Reject("ec_params", "head", EcHeadChecks)
       \/ MoreEntries /\ Reject("ec_params", "entries", OverrideChecks)
    /\ UNCHANGED ec_params

ReadEcHead ==
    /\ Accept("ec_params", "head", EcHeadChecks, 9)
    /\ step' = "entries"
    /\ left' = U32(5)
    /\ ec_params' = [ec_params EXCEPT !.k = U8(1), !.m = U8(2)]

ReadOverride ==
    /\ MoreEntries
    /\ Accept("ec_params", "entries", OverrideChecks, OVERRIDE_ENTRY_LEN)
    /\ left' = left - 1
    /\ ec_params' = [ec_params EXCEPT !.overrides =
                        Append(@, [slab_id |-> Bytes(0, 40), k |-> U8(40), m |-> U8(41)])]
    /\ UNCHANGED step

EcParamsEnd == EntriesEnd("ec_params") /\ UNCHANGED ec_params

EcParamsStep == RejectEcParams \/ ReadEcHead \/ ReadOverride \/ EcParamsEnd
=============================================================================
