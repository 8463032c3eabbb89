---------------------------- MODULE SlabReader ----------------------------
(***************************************************************************)
(* limnifs/slab_reader.py: parse_slab, which finds the drop records and    *)
(* the solid window of a slab although the format stores no drop count,    *)
(* and SlabView.plaintext_for, which reads one drop.                       *)
(*                                                                         *)
(* A slab is a buffer: a 56-byte header, then 48-byte drop records, then   *)
(* the solid window.  Where the window starts is not written anywhere:     *)
(* the reader takes one record after another until the bytes that remain   *)
(* are exactly the bytes the records read so far claim.                    *)
(*                                                                         *)
(* Lengths and offsets are the code's own numbers.  The bytes are          *)
(* abstracted to what they decode to: slab.record[i] is what the 48 bytes  *)
(* at 56 + 48*(i-1) decode to, whether a writer meant them as a record or  *)
(* as part of the window, and slab.lz4 is the set of ranges that hold LZ4  *)
(* output (module Codec).                                                  *)
(***************************************************************************)
EXTENDS ParseErrors, Codec

CONSTANTS
    Slabs,                            \* the buffers parse_slab may be given
    DropIds,                          \* the ids looked up or found in records
    DEFAULT_SLAB_MAX_BYTES,
    DEFAULT_DROP_MAX_PLAINTEXT_BYTES,
    U32_MAX                           \* the largest u32: 2^32 - 1 on the wire

SLAB_HEADER_LEN == 56
DROP_RECORD_LEN == 48
SLAB_MAGIC == "LIM1"
SLAB_FORMAT_VERSION == 1
EXTENDED == 255            \* EC_DESCRIPTOR_EXTENDED and CRYPTO_HINT_EXTENDED

U8 == 0..255
U32 == 0..U32_MAX

Representation == [codec : U8, aead : U8, ec : U8]

DropRecord ==
    [drop_id : DropIds, plaintext_len : U32, representation : Representation,
     solid_window_index : U8, offset_in_window : U32, len_in_window : U32]

SlabImage(s) ==
    /\ s.length \in Nat
    /\ s.magic \in STRING
    /\ s.format_version \in Nat
    /\ s.total_length \in Nat
    /\ s.ec_descriptor \in U8
    /\ s.crypto_hint \in U8
    /\ s.record \in Seq(DropRecord)
    /\ s.length >= SLAB_HEADER_LEN =>
         Len(s.record) = (s.length - SLAB_HEADER_LEN) \div DROP_RECORD_LEN
    /\ \A b \in s.lz4 : {b.start, b.end, b.len} \subseteq Nat

ASSUME SlabsAssumption == \A s \in Slabs : SlabImage(s)

ASSUME LimitsAssumption ==
    /\ U32_MAX \in Nat
    /\ DEFAULT_SLAB_MAX_BYTES \in Nat
    /\ DEFAULT_DROP_MAX_PLAINTEXT_BYTES \in Nat

VARIABLES
    slab,              \* the buffer given to parse_slab
    status,            \* where the reader is, or the error it raised
    position,          \* cursor.position; where the window starts once open
    window_len_sum,
    drop_records,
    answer             \* what the latest plaintext_for returned

vars == <<slab, status, position, window_len_sum, drop_records, answer>>

NoAnswer == [kind |-> "none"]
AnswerKinds == {"none", "plaintext", "missing"} \cup ErrorKinds

TypeOK ==
    /\ SlabImage(slab)
    /\ status \in {"header", "records", "open"} \cup ErrorKinds
    /\ position \in Nat
    /\ window_len_sum \in Nat
    /\ drop_records \in Seq(DropRecord)
    /\ answer.kind \in AnswerKinds

Init ==
    /\ slab \in Slabs
    /\ status = "header"
    /\ position = 0
    /\ window_len_sum = 0
    /\ drop_records = <<>>
    /\ answer = NoAnswer

-----------------------------------------------------------------------------
\* parse_slab

Raise(kind) ==
    /\ status' = kind
    /\ UNCHANGED <<slab, position, window_len_sum, drop_records, answer>>

\* cursor.read of n more bytes, `from` bytes into the buffer.
Fits(from, n) == Check(from + n <= slab.length, "Truncated")

\* parse_slab_header: its reads and validations in order.
HeaderChecks ==
    << Fits(0, 4),  Check(slab.magic = SLAB_MAGIC, "BadMagic"),
       Fits(0, 6),  Check(slab.format_version = SLAB_FORMAT_VERSION, "Unsupported"),
       Fits(0, 54), Check(slab.total_length >= SLAB_HEADER_LEN, "Corrupt"),
                    Check(slab.total_length <= DEFAULT_SLAB_MAX_BYTES, "Corrupt"),
       Fits(0, 55), Check(slab.ec_descriptor # EXTENDED, "Unsupported"),
       Fits(0, 56), Check(slab.crypto_hint # EXTENDED, "Unsupported") >>

RejectHeader ==
    /\ status = "header"
    /\ ~Passes(HeaderChecks)
    /\ Raise(FirstFailure(HeaderChecks))

RejectLength ==
    /\ status = "header"
    /\ Passes(HeaderChecks)
    /\ slab.total_length # slab.length
    /\ Raise("Corrupt")

ParseHeader ==
    /\ status = "header"
    /\ Passes(HeaderChecks)
    /\ slab.total_length = slab.length
    /\ status' = "records"
    /\ position' = SLAB_HEADER_LEN
    /\ UNCHANGED <<slab, window_len_sum, drop_records, answer>>

remaining_after_cursor == slab.total_length - position
trailing == remaining_after_cursor - window_len_sum

\* What the 48 bytes at the cursor decode to.
NextRecord == slab.record[Len(drop_records) + 1]

\* parse_drop_record: the last row is the "overflow check" of the code, which
\* compares Python integers and therefore never fails.
RecordChecks(r) ==
    << Fits(position, 36), Check(r.plaintext_len <= DEFAULT_DROP_MAX_PLAINTEXT_BYTES, "Corrupt"),
       Fits(position, 39), Check(slab.crypto_hint = 0 => r.representation.aead = 0, "Corrupt"),
                           Check(slab.ec_descriptor = 0 => r.representation.ec = 0, "Corrupt"),
       Fits(position, DROP_RECORD_LEN),
                           Check(r.offset_in_window + r.len_in_window >= r.offset_in_window,
                                 "Corrupt") >>

WindowReached ==
    /\ status = "records"
    /\ remaining_after_cursor = window_len_sum
    /\ status' = "open"
    /\ UNCHANGED <<slab, position, window_len_sum, drop_records, answer>>

OverranWindow ==
    /\ status = "records"
    /\ remaining_after_cursor < window_len_sum
    /\ Raise("Corrupt")

\* Mutant: no check of the trailing bytes: the record parser runs out of them.
TrailingBytesUnchecked ==
    /\ status = "records"
    /\ trailing \in 1..(DROP_RECORD_LEN - 1)
    /\ Raise("Truncated")

TrailingBytes ==
    /\ status = "records"
    /\ trailing \in 1..(DROP_RECORD_LEN - 1)
    /\ Raise("Corrupt")

RejectRecord ==
    /\ status = "records"
    /\ trailing >= DROP_RECORD_LEN
    /\ ~Passes(RecordChecks(NextRecord))
    /\ Raise(FirstFailure(RecordChecks(NextRecord)))

\* Mutant: sums the uncompressed sizes, as if every drop were stored.
ParseRecordSummingPlaintext ==
    /\ status = "records"
    /\ trailing >= DROP_RECORD_LEN
    /\ Passes(RecordChecks(NextRecord))
    /\ position' = position + DROP_RECORD_LEN
    /\ window_len_sum' = window_len_sum + NextRecord.plaintext_len
    /\ drop_records' = Append(drop_records, NextRecord)
    /\ UNCHANGED <<slab, status, answer>>

\* Mutant: takes the window bytes away instead of adding them up.
ParseRecordSubtracting ==
    /\ status = "records"
    /\ trailing >= DROP_RECORD_LEN
    /\ Passes(RecordChecks(NextRecord))
    /\ position' = position + DROP_RECORD_LEN
    /\ window_len_sum' = window_len_sum - NextRecord.len_in_window
    /\ drop_records' = Append(drop_records, NextRecord)
    /\ UNCHANGED <<slab, status, answer>>

\* Mutant: parses a record without advancing the cursor.
ParseRecordInPlace ==
    /\ status = "records"
    /\ trailing >= DROP_RECORD_LEN
    /\ Passes(RecordChecks(NextRecord))
    /\ UNCHANGED vars

ParseRecord ==
    /\ status = "records"
    /\ trailing >= DROP_RECORD_LEN
    /\ Passes(RecordChecks(NextRecord))
    /\ position' = position + DROP_RECORD_LEN
    /\ window_len_sum' = window_len_sum + NextRecord.len_in_window
    /\ drop_records' = Append(drop_records, NextRecord)
    /\ UNCHANGED <<slab, status, answer>>

-----------------------------------------------------------------------------
\* SlabView

\* Mutant: the window is taken to start where the records do.
window_after_header == SLAB_HEADER_LEN

solid_window_start == position

\* Mutant: the last record with the id.
IsLastRecord(i, id) ==
    /\ drop_records[i].drop_id = id
    /\ \A j \in DOMAIN drop_records : j > i => drop_records[j].drop_id # id

\* find_record: the first record with the id.
IsFirstRecord(i, id) ==
    /\ drop_records[i].drop_id = id
    /\ \A j \in DOMAIN drop_records : j < i => drop_records[j].drop_id # id

\* Mutant: takes offset_in_window for an offset into the slab.
StartInSlab(r) == r.offset_in_window

Start(r) == solid_window_start + r.offset_in_window
End(r) == Start(r) + r.len_in_window

ReadChecks(r) ==
    << Check(r.representation.aead = 0, "Unsupported"),
       Check(r.solid_window_index = 0, "Unsupported"),
       Check(End(r) <= slab.length, "Corrupt") >>

\* What plaintext_for may return for the record: an error, or the plaintext of
\* bytes_[start:end].
Answers(r) ==
    IF ~Passes(ReadChecks(r)) THEN {FirstFailure(ReadChecks(r))}
    ELSE Decompress(r.representation.codec, Start(r), End(r), r.plaintext_len, slab.lz4)

\* plaintext_for(id)
PlaintextFor(id) ==
    /\ status = "open"
    /\ \/ /\ \A i \in DOMAIN drop_records : drop_records[i].drop_id # id
          /\ answer' = [kind |-> "missing", id |-> id]
       \/ \E i \in DOMAIN drop_records :
            /\ IsFirstRecord(i, id)
            /\ \E kind \in Answers(drop_records[i]) :
                 answer' = [kind |-> kind, id |-> id, record |-> i,
                            start |-> Start(drop_records[i]), end |-> End(drop_records[i]),
                            len |-> drop_records[i].plaintext_len]
    /\ UNCHANGED <<slab, status, position, window_len_sum, drop_records>>

\* The parser raised: the caller has nothing to read from.
Failed == status \in ErrorKinds /\ UNCHANGED vars

ParseStep ==
    \/ RejectHeader \/ RejectLength \/ ParseHeader
    \/ WindowReached \/ OverranWindow \/ TrailingBytes
    \/ RejectRecord \/ ParseRecord

Next ==
    \/ ParseStep
    \/ \E id \in DropIds : PlaintextFor(id)
    \/ Failed

Spec == Init /\ [][Next]_vars

\* parse_slab is one call of straight-line code: it keeps running.
FairSpec == Spec /\ WF_vars(ParseStep)

-----------------------------------------------------------------------------
WellFormedHeader(s) ==
    /\ s.length >= SLAB_HEADER_LEN
    /\ s.magic = SLAB_MAGIC
    /\ s.format_version = SLAB_FORMAT_VERSION
    /\ s.total_length = s.length
    /\ s.length <= DEFAULT_SLAB_MAX_BYTES
    /\ EXTENDED \notin {s.ec_descriptor, s.crypto_hint}

\* A record that nothing in parse_drop_record rejects in slab s.
ValidRecord(s, r) ==
    /\ r.plaintext_len <= DEFAULT_DROP_MAX_PLAINTEXT_BYTES
    /\ r.representation.aead = 0 \/ s.crypto_hint # 0
    /\ r.representation.ec = 0 \/ s.ec_descriptor # 0

WindowEnd(r) == r.offset_in_window + r.len_in_window

\* s holds n drops the way a writer places them: each at the end of the window
\* so far, and nothing after the last.
LaidOut(s, n) ==
    /\ n <= Len(s.record)
    /\ \A i \in 1..n : ValidRecord(s, s.record[i])
    /\ n > 0 => s.record[1].offset_in_window = 0
    /\ \A i \in 1..n : i > 1 => s.record[i].offset_in_window = WindowEnd(s.record[i - 1])
    /\ s.length = SLAB_HEADER_LEN + n * DROP_RECORD_LEN
                    + (IF n = 0 THEN 0 ELSE WindowEnd(s.record[n]))

\* The format stores no drop count, so whatever the windows hold must not look
\* like more records, nor the records like a window: a slab whose n drops are
\* placed one after another is never refused, and it is opened with exactly
\* those n records.
LaidOutSlabAccepted ==
    \A n \in 0..Len(slab.record) :
        WellFormedHeader(slab) /\ LaidOut(slab, n) =>
            /\ status \notin ErrorKinds
            /\ status = "open" => drop_records = SubSeq(slab.record, 1, n)

\* The store a laid out slab is meant to be: of the drops written under one id,
\* the first.
LaidOutCounts == {n \in 0..Len(slab.record) : WellFormedHeader(slab) /\ LaidOut(slab, n)}

FirstWith(id) ==
    CHOOSE i \in DOMAIN slab.record :
        /\ slab.record[i].drop_id = id
        /\ \A j \in 1..(i - 1) : slab.record[j].drop_id # id

PlaceOf(r, window) ==
    [start |-> window + r.offset_in_window, end |-> window + WindowEnd(r),
     len |-> r.plaintext_len]

ContentsOf(n) ==
    [id \in {slab.record[i].drop_id : i \in 1..n} |->
        PlaceOf(slab.record[FirstWith(id)], SLAB_HEADER_LEN + n * DROP_RECORD_LEN)]

Store == INSTANCE DropStore WITH
    Ids <- DropIds,
    intact <- LaidOutCounts # {},
    contents <- ContentsOf(IF LaidOutCounts = {} THEN 0 ELSE CHOOSE n \in LaidOutCounts : TRUE),
    phase <- IF status \in {"header", "records"} THEN "closed" ELSE status,
    answer <- IF answer.kind \in {"none", "missing"} THEN answer
              ELSE [kind |-> answer.kind, id |-> answer.id,
                    place |-> [start |-> answer.start, end |-> answer.end, len |-> answer.len]]

\* parse_slab and plaintext_for implement the store of drops: the loop over the
\* records is one Open, whatever the slab, a laid out slab is never refused, and
\* every lookup in it, in any order, answers with the place where the drop was
\* put, counted from a window start that no byte of the slab records.
ImplementsDropStore == Store!Spec

\* Once the header is read the loop never runs out of bytes: it stops with
\* "Corrupt" before it asks the cursor for a record that is not there, so a
\* "Truncated" is always a header cut short.
TruncatedOnlyInHeader ==
    /\ status = "Truncated" => slab.length < SLAB_HEADER_LEN
    /\ status = "records" => position <= slab.length

\* plaintext_for hands out bytes of the solid window only, never of the header
\* or the records, and never past the end.
ReadsStayInWindow ==
    answer.kind = "plaintext" =>
        /\ solid_window_start <= answer.start
        /\ answer.start <= answer.end
        /\ answer.end <= slab.length

\* parse_slab returns or raises: its `while True` takes finitely many turns.
ParseEnds == <>(status \notin {"header", "records"})

\* What the comment at drop_record.py:68 promises, "Overflow check on offset +
\* len.": no record is accepted whose offset_in_window + len_in_window is not a u32.
OffsetPlusLenFitsU32 ==
    \A i \in DOMAIN drop_records :
        drop_records[i].offset_in_window + drop_records[i].len_in_window <= U32_MAX
=============================================================================
