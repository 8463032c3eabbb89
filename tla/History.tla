------------------------------ MODULE History ------------------------------
(***************************************************************************)
(* limnifs/history.py: parse_history_section.                              *)
(***************************************************************************)
EXTENDS Sections

CONSTANT DEFAULT_HISTORY_PARAMS_MAX_BYTES

HISTORY_SECTION_VERSION == 1
HISTORY_ENTRY_FIXED_LEN == 13        \* ENTRY_FIXED_LEN
MIN_ENTRY_WIDTH == HISTORY_ENTRY_FIXED_LEN + 4

BUILD == 1
HistoryOps == BUILD..5               \* 0xFF and the reserved ones are unsupported alike

\* History.entries: [op, timestamp_ns, inputs, params].  The timestamp and the
\* roots of `inputs` are their bytes.
VARIABLE history

HistoryHeadChecks ==
    << Read(1), Check(U8(0) = HISTORY_SECTION_VERSION, "Unsupported"),
       Read(5), Check(U32(1) # 0, "Corrupt"),
       Check(remaining_len - 5 >= U32(1) * MIN_ENTRY_WIDTH, "Truncated") >>

\* _parse_history_entry
input_count == U32(9)
inputs_size == 32 * input_count
params_len == U32(13 + inputs_size)

\* Mutant: only the operations above the last are unsupported, and 0 is none of them.
HistoryEntryChecksOpZeroTaken ==
    << Read(1), Check(U8(0) <= 5, "Unsupported"),
       Read(9), Read(13), Read(13 + inputs_size),
       Read(17 + inputs_size), Check(params_len <= DEFAULT_HISTORY_PARAMS_MAX_BYTES, "Corrupt"),
       Read(17 + inputs_size + params_len) >>

HistoryEntryChecks ==
    << Read(1), Check(U8(0) \in HistoryOps, "Unsupported"),
       Read(9), Read(13), Read(13 + inputs_size),
       Read(17 + inputs_size), Check(params_len <= DEFAULT_HISTORY_PARAMS_MAX_BYTES, "Corrupt"),
       Read(17 + inputs_size + params_len) >>

HistoryEntry ==
    [op |-> U8(0), timestamp_ns |-> Bytes(1, 8),
     inputs |-> [i \in 1..input_count |-> Bytes(13 + 32 * (i - 1), 32)],
     params |-> Bytes(17 + inputs_size, params_len)]

RejectHistory ==
    /\ \/ Reject("history", "head", HistoryHeadChecks)
       \/ MoreEntries /\ Reject("history", "entries", HistoryEntryChecks)
    /\ UNCHANGED history

ReadHistoryHead ==
    /\ Accept("history", "head", HistoryHeadChecks, 5)
    /\ step' = "entries"
    /\ left' = U32(1)
    /\ UNCHANGED history

ReadHistoryEntry ==
    /\ MoreEntries
    /\ Accept("history", "entries", HistoryEntryChecks, 17 + inputs_size + params_len)
    /\ left' = left - 1
    /\ history' = Append(history, HistoryEntry)
    /\ UNCHANGED step

HistoryEnd == EntriesEnd("history") /\ UNCHANGED history

HistoryStep == RejectHistory \/ ReadHistoryHead \/ ReadHistoryEntry \/ HistoryEnd
=============================================================================
