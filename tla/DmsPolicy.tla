----------------------------- MODULE DmsPolicy -----------------------------
(***************************************************************************)
(* limnifs/dms_policy.py: parse_dms_policy_section, called when feature    *)
(* flag 0x0002 is declared.                                                *)
(***************************************************************************)
EXTENDS Sections, Utf8

CONSTANTS DEFAULT_SHARE_DATA_MAX_BYTES, DEFAULT_HINT_MAX_BYTES

DMS_POLICY_SECTION_VERSION == 1
DMS_SCHEME_SHAMIR == 0       \* 0xFF and every other scheme are unsupported alike

\* DmsPolicy: [k, n, shares, reconstruction_hint], where no hint (None) is <<>>.
VARIABLE dms_policy

DmsHeadChecks ==
    << Read(1), Check(U8(0) = DMS_POLICY_SECTION_VERSION, "Unsupported"),
       Read(2), Check(U8(1) = DMS_SCHEME_SHAMIR, "Unsupported"),
       Read(4), Check(U8(2) # 0 /\ U8(3) # 0 /\ U8(2) <= U8(3), "Corrupt"),
       Read(8), Check(U32(4) = U8(3), "Corrupt") >>

\* A share is cid_len, custodian_id, sd_len and share_data.
cid == Bytes(4, U32(0))
sd_len == U32(4 + U32(0))
ShareLen == 8 + U32(0) + sd_len

ShareChecks ==
    << Read(4), Check(U32(0) <= DEFAULT_HINT_MAX_BYTES, "Corrupt"),
       Read(4 + U32(0)), Check(IsUtf8(cid), "Corrupt"), Check(cid # <<>>, "Corrupt"),
       Check(\A i \in DOMAIN dms_policy.shares : dms_policy.shares[i].custodian_id # cid, "Corrupt"),
       Read(8 + U32(0)), Check(sd_len \in 1..DEFAULT_SHARE_DATA_MAX_BYTES, "Corrupt"),
       Read(ShareLen) >>

HintChecks ==
    << Read(4), Check(U32(0) <= DEFAULT_HINT_MAX_BYTES, "Corrupt"),
       Read(4 + U32(0)), Check(IsUtf8(Bytes(4, U32(0))), "Corrupt") >>

RejectDmsPolicy ==
    /\ \/ Reject("dms_policy", "head", DmsHeadChecks)
       \/ MoreEntries /\ Reject("dms_policy", "entries", ShareChecks)
       \/ ~MoreEntries /\ Reject("dms_policy", "entries", HintChecks)
    /\ UNCHANGED dms_policy

ReadDmsHead ==
    /\ Accept("dms_policy", "head", DmsHeadChecks, 8)
    /\ step' = "entries"
    /\ left' = U32(4)
    /\ dms_policy' = [dms_policy EXCEPT !.k = U8(2), !.n = U8(3)]

ReadShare ==
    /\ MoreEntries
    /\ Accept("dms_policy", "entries", ShareChecks, ShareLen)
    /\ left' = left - 1
    /\ dms_policy' = [dms_policy EXCEPT !.shares =
           Append(@, [custodian_id |-> cid, share_data |-> Bytes(8 + U32(0), sd_len)])]
    /\ UNCHANGED step

ReadHint ==
    /\ At("dms_policy", "entries")
    /\ ~MoreEntries
    /\ Passes(HintChecks)
    /\ dms_policy' = [dms_policy EXCEPT !.reconstruction_hint = Bytes(4, U32(0))]
    /\ Return("dms_policy", 4 + U32(0))

DmsPolicyStep == RejectDmsPolicy \/ ReadDmsHead \/ ReadShare \/ ReadHint
=============================================================================
