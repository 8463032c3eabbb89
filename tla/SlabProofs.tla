------------------------------ MODULE SlabProofs ------------------------------
(***************************************************************************)
(* Proofs about parse_slab and plaintext_for, for every set of buffers and *)
(* all limits; about the number of records that parse_slab derives, and    *)
(* about the slabs a writer produces.                                      *)
(***************************************************************************)
EXTENDS SlabWriter, ParseErrorsProofs

-----------------------------------------------------------------------------
\* The lists of checks.

LEMMA HeaderTable ==
    ASSUME SlabImage(slab)
    PROVE  /\ HeaderChecks \in Seq(Outcomes)
           /\ Passes(HeaderChecks) <=>
                /\ slab.length >= SLAB_HEADER_LEN
                /\ slab.magic = SLAB_MAGIC
                /\ slab.format_version = SLAB_FORMAT_VERSION
                /\ slab.total_length >= SLAB_HEADER_LEN
                /\ slab.total_length <= DEFAULT_SLAB_MAX_BYTES
                /\ slab.ec_descriptor # EXTENDED
                /\ slab.crypto_hint # EXTENDED
           /\ \A i \in DOMAIN HeaderChecks :
                HeaderChecks[i] = "Truncated" => slab.length < SLAB_HEADER_LEN
<1> DEFINE C == HeaderChecks
<1>1. C \in Seq(Outcomes)
  BY DEF HeaderChecks, Outcomes, ErrorKinds, Fits, Check
<1>2. /\ DOMAIN C = 1..11
      /\ C[1] = Fits(0, 4)   /\ C[2] = Check(slab.magic = SLAB_MAGIC, "BadMagic")
      /\ C[3] = Fits(0, 6)
      /\ C[4] = Check(slab.format_version = SLAB_FORMAT_VERSION, "Unsupported")
      /\ C[5] = Fits(0, 54)
      /\ C[6] = Check(slab.total_length >= SLAB_HEADER_LEN, "Corrupt")
      /\ C[7] = Check(slab.total_length <= DEFAULT_SLAB_MAX_BYTES, "Corrupt")
      /\ C[8] = Fits(0, 55)  /\ C[9] = Check(slab.ec_descriptor # EXTENDED, "Unsupported")
      /\ C[10] = Fits(0, 56) /\ C[11] = Check(slab.crypto_hint # EXTENDED, "Unsupported")
  BY DEF HeaderChecks
<1> HIDE DEF C
<1>3. Passes(C) <=> /\ C[1] = "ok" /\ C[2] = "ok" /\ C[3] = "ok"  /\ C[4] = "ok"
                    /\ C[5] = "ok" /\ C[6] = "ok" /\ C[7] = "ok"  /\ C[8] = "ok"
                    /\ C[9] = "ok" /\ C[10] = "ok" /\ C[11] = "ok"
  BY <1>2 DEF Passes
<1>4. slab.length \in Nat /\ slab.total_length \in Nat
  BY DEF SlabImage
<1>5. \A n \in Nat : (Fits(0, n) = "ok" <=> n <= slab.length)
                   /\ (Fits(0, n) = "Truncated" <=> n > slab.length)
  BY <1>4 DEF Fits, Check
<1>6. Passes(C) <=>
                /\ slab.length >= SLAB_HEADER_LEN
                /\ slab.magic = SLAB_MAGIC
                /\ slab.format_version = SLAB_FORMAT_VERSION
                /\ slab.total_length >= SLAB_HEADER_LEN
                /\ slab.total_length <= DEFAULT_SLAB_MAX_BYTES
                /\ slab.ec_descriptor # EXTENDED
                /\ slab.crypto_hint # EXTENDED
  BY <1>2, <1>3, <1>4, <1>5 DEF Check, SLAB_HEADER_LEN
<1>7. ASSUME NEW i \in DOMAIN C, C[i] = "Truncated"
      PROVE  slab.length < SLAB_HEADER_LEN
  <2>1. i \in {1, 3, 5, 8, 10}
    BY <1>2, <1>7 DEF Check
  <2>. QED
    BY <1>2, <1>4, <1>5, <1>7, <2>1 DEF SLAB_HEADER_LEN
<1>. QED
  BY <1>1, <1>6, <1>7 DEF C

LEMMA RecordTable ==
    ASSUME SlabImage(slab), NEW r \in DropRecord, position \in Nat,
           position + DROP_RECORD_LEN <= slab.length
    PROVE  /\ RecordChecks(r) \in Seq(Outcomes)
           /\ Passes(RecordChecks(r)) <=> ValidRecord(slab, r)
           /\ \A i \in DOMAIN RecordChecks(r) : RecordChecks(r)[i] # "Truncated"
<1> DEFINE C == RecordChecks(r)
<1>1. C \in Seq(Outcomes)
  BY DEF RecordChecks, Outcomes, ErrorKinds, Fits, Check
<1>2. /\ DOMAIN C = 1..7
      /\ C[1] = Fits(position, 36)
      /\ C[2] = Check(r.plaintext_len <= DEFAULT_DROP_MAX_PLAINTEXT_BYTES, "Corrupt")
      /\ C[3] = Fits(position, 39)
      /\ C[4] = Check(slab.crypto_hint = 0 => r.representation.aead = 0, "Corrupt")
      /\ C[5] = Check(slab.ec_descriptor = 0 => r.representation.ec = 0, "Corrupt")
      /\ C[6] = Fits(position, DROP_RECORD_LEN)
      /\ C[7] = Check(r.offset_in_window + r.len_in_window >= r.offset_in_window, "Corrupt")
  BY DEF RecordChecks
<1> HIDE DEF C
<1>3. slab.length \in Nat
  BY DEF SlabImage
<1>4. r.offset_in_window \in Nat /\ r.len_in_window \in Nat
  BY LimitsAssumption DEF DropRecord, U32
<1>5. C[1] = "ok" /\ C[3] = "ok" /\ C[6] = "ok" /\ C[7] = "ok"
  BY <1>2, <1>3, <1>4 DEF Fits, Check, DROP_RECORD_LEN
<1>6. Passes(C) <=> C[2] = "ok" /\ C[4] = "ok" /\ C[5] = "ok"
  BY <1>2, <1>5 DEF Passes
<1>7. Passes(C) <=> ValidRecord(slab, r)
  BY <1>2, <1>6 DEF Check, ValidRecord
<1>8. ASSUME NEW i \in DOMAIN C
      PROVE  C[i] # "Truncated"
  <2>1. i \in {1, 3, 6, 7} \/ i \in {2, 4, 5}
    BY <1>2
  <2>. QED
    BY <1>2, <1>5, <2>1 DEF Check
<1>. QED
  BY <1>1, <1>7, <1>8 DEF C

-----------------------------------------------------------------------------
\* The shape of the loop: the cursor stands after the records parsed so far,
\* which are those of the buffer in order, and has not left the buffer.
LoopInv ==
    status \in {"records", "open"} =>
        /\ WellFormedHeader(slab)
        /\ position = SLAB_HEADER_LEN + DROP_RECORD_LEN * Len(drop_records)
        /\ position <= slab.length
        /\ Len(drop_records) <= Len(slab.record)
        /\ drop_records = SubSeq(slab.record, 1, Len(drop_records))

\* Before the loop nothing has been read.
HeaderInv == status = "header" => window_len_sum = 0 /\ drop_records = <<>>

\* What plaintext_for returned, it returned from a slab that was opened.
AnswerInv == answer.kind # "none" => status = "open"

IInv == TypeOK /\ HeaderInv /\ LoopInv /\ AnswerInv /\ TruncatedOnlyInHeader /\ ReadsStayInWindow

\* A turn of the loop that asks for a record finds one in the buffer.
LEMMA RecordIsThere ==
    ASSUME TypeOK, LoopInv, status = "records", trailing >= DROP_RECORD_LEN
    PROVE  /\ position + DROP_RECORD_LEN <= slab.length
           /\ Len(drop_records) + 1 \in 1..Len(slab.record)
           /\ NextRecord = slab.record[Len(drop_records) + 1]
           /\ NextRecord \in DropRecord
<1>1. /\ slab.length \in Nat /\ slab.total_length = slab.length
      /\ slab.length >= SLAB_HEADER_LEN
      /\ slab.record \in Seq(DropRecord)
      /\ Len(slab.record) = (slab.length - SLAB_HEADER_LEN) \div DROP_RECORD_LEN
  BY DEF TypeOK, SlabImage, LoopInv, WellFormedHeader
<1>2. /\ position \in Nat /\ window_len_sum \in Nat /\ Len(drop_records) \in Nat
      /\ position = SLAB_HEADER_LEN + DROP_RECORD_LEN * Len(drop_records)
  BY DEF TypeOK, LoopInv
<1>3. position + DROP_RECORD_LEN <= slab.length
  BY <1>1, <1>2 DEF trailing, remaining_after_cursor, DROP_RECORD_LEN
<1>4. Len(drop_records) + 1 <= Len(slab.record)
  BY <1>1, <1>2, <1>3 DEF SLAB_HEADER_LEN, DROP_RECORD_LEN
<1>. QED
  BY <1>1, <1>2, <1>3, <1>4 DEF NextRecord

\* What plaintext_for may answer for a record.
LEMMA AnswersTable ==
    ASSUME SlabImage(slab), NEW r \in DropRecord, position \in Nat,
           NEW kind \in Answers(r)
    PROVE  /\ kind \in {"plaintext"} \cup ErrorKinds
           /\ kind \in AnswerKinds \ {"none"}
           /\ kind = "plaintext" => End(r) <= slab.length
<1> DEFINE C == ReadChecks(r)
<1>1. C \in Seq(Outcomes)
  BY DEF ReadChecks, Outcomes, ErrorKinds, Check
<1>2. DOMAIN C = 1..3 /\ C[3] = Check(End(r) <= slab.length, "Corrupt")
  BY DEF ReadChecks
<1>3. CASE ~Passes(C)
  BY <1>1, <1>3, FirstFailureIsFirst DEF Answers, AnswerKinds, ErrorKinds
<1>4. CASE Passes(C)
  <2>1. End(r) <= slab.length
    BY <1>2, <1>4 DEF Passes, Check
  <2>2. kind \in {"plaintext", "Corrupt", "Unsupported"}
    BY <1>4 DEF Answers, Decompress, Lz4Outcomes
  <2>. QED
    BY <2>1, <2>2 DEF AnswerKinds, ErrorKinds
<1>. QED
  BY <1>3, <1>4

\* Raising an exception keeps the invariant, if a "Truncated" is justified.
LEMMA RaiseKeepsInv ==
    ASSUME IInv, status \in {"header", "records"}, NEW kind \in ErrorKinds, Raise(kind),
           kind = "Truncated" => slab.length < SLAB_HEADER_LEN
    PROVE  IInv'
<1> USE DEF IInv, Raise
<1>1. TypeOK'
  BY DEF TypeOK
<1>2. LoopInv' /\ HeaderInv'
  BY DEF LoopInv, HeaderInv, ErrorKinds
<1>3. AnswerInv' /\ ReadsStayInWindow'
  BY DEF AnswerInv, ReadsStayInWindow
<1>4. TruncatedOnlyInHeader'
  BY DEF TruncatedOnlyInHeader, ErrorKinds
<1>. QED
  BY <1>1, <1>2, <1>3, <1>4

LEMMA InitInv == Init => IInv
<1> SUFFICES ASSUME Init PROVE IInv
  OBVIOUS
<1>1. TypeOK
  BY SlabsAssumption DEF Init, TypeOK, NoAnswer, AnswerKinds
<1>. QED
  BY <1>1 DEF Init, IInv, LoopInv, HeaderInv, AnswerInv, NoAnswer, TruncatedOnlyInHeader, ReadsStayInWindow

LEMMA StepInv == IInv /\ [Next]_vars => IInv'
<1> SUFFICES ASSUME IInv, [Next]_vars PROVE IInv'
  OBVIOUS
<1>0. SlabImage(slab) /\ TypeOK /\ LoopInv
  BY DEF IInv, TypeOK
<1>1. CASE RejectHeader
  <2>1. PICK i \in DOMAIN HeaderChecks : /\ FirstFailure(HeaderChecks) = HeaderChecks[i]
                                         /\ HeaderChecks[i] \in ErrorKinds
    BY <1>0, <1>1, HeaderTable, FirstFailureIsFirst DEF RejectHeader
  <2>. QED
    BY <1>0, <1>1, <2>1, HeaderTable, RaiseKeepsInv DEF RejectHeader
<1>2. CASE RejectLength
  BY <1>2, RaiseKeepsInv DEF RejectLength, ErrorKinds
<1>3. CASE ParseHeader
  <2> USE <1>3 DEF IInv, ParseHeader
  <2>1. slab.length \in Nat /\ slab.record \in Seq(DropRecord)
    BY <1>0 DEF SlabImage
  <2>2. TypeOK'
    BY DEF TypeOK, SLAB_HEADER_LEN
  <2>3. WellFormedHeader(slab) /\ slab.length >= SLAB_HEADER_LEN
    BY <1>0, HeaderTable DEF WellFormedHeader
  <2>4. drop_records = <<>>
    BY DEF HeaderInv
  <2>5. LoopInv' /\ HeaderInv'
    BY <2>1, <2>3, <2>4 DEF LoopInv, HeaderInv, SLAB_HEADER_LEN, DROP_RECORD_LEN
  <2>6. AnswerInv' /\ ReadsStayInWindow'
    BY DEF AnswerInv, ReadsStayInWindow
  <2>7. TruncatedOnlyInHeader'
    BY <2>3 DEF TruncatedOnlyInHeader
  <2>. QED
    BY <2>2, <2>5, <2>6, <2>7
<1>4. CASE WindowReached
  BY <1>4 DEF IInv, WindowReached, TypeOK, LoopInv, HeaderInv, AnswerInv, ReadsStayInWindow,
              TruncatedOnlyInHeader
<1>5. CASE OverranWindow
  BY <1>5, RaiseKeepsInv DEF OverranWindow, ErrorKinds
<1>6. CASE TrailingBytes
  BY <1>6, RaiseKeepsInv DEF TrailingBytes, ErrorKinds
<1>7. CASE RejectRecord
  <2>1. position \in Nat /\ status = "records"
    BY <1>0, <1>7 DEF TypeOK, RejectRecord
  <2>2. position + DROP_RECORD_LEN <= slab.length /\ NextRecord \in DropRecord
    BY <1>0, <1>7, RecordIsThere DEF RejectRecord
  <2> DEFINE C == RecordChecks(NextRecord)
  <2>3. C \in Seq(Outcomes) /\ \A i \in DOMAIN C : C[i] # "Truncated"
    BY <1>0, <2>1, <2>2, RecordTable
  <2>4. FirstFailure(C) \in ErrorKinds /\ FirstFailure(C) # "Truncated"
    BY <1>7, <2>3, FirstFailureIsFirst DEF RejectRecord
  <2>. QED
    BY <1>7, <2>1, <2>4, RaiseKeepsInv DEF RejectRecord
<1>8. CASE ParseRecord
  <2> USE <1>8 DEF IInv, ParseRecord
  <2> DEFINE n == Len(drop_records)
             r == slab.record[n + 1]
  <2>1. /\ position + DROP_RECORD_LEN <= slab.length
        /\ n + 1 \in 1..Len(slab.record)
        /\ NextRecord = r /\ r \in DropRecord
    BY <1>0, RecordIsThere
  <2>2. /\ slab.length \in Nat /\ position \in Nat /\ window_len_sum \in Nat
        /\ slab.record \in Seq(DropRecord) /\ drop_records \in Seq(DropRecord)
    BY <1>0 DEF TypeOK, SlabImage
  <2>3. r.len_in_window \in Nat
    BY <2>1, LimitsAssumption DEF DropRecord, U32
  <2>4. TypeOK'
    BY <2>1, <2>2, <2>3 DEF TypeOK, DROP_RECORD_LEN
  <2>5. drop_records' = Append(drop_records, r) /\ Len(drop_records') = n + 1
    BY <2>1, <2>2
  <2>6. drop_records' = SubSeq(slab.record, 1, n + 1)
    BY <1>0, <2>1, <2>2, <2>5 DEF LoopInv
  <2>7. LoopInv' /\ HeaderInv'
    BY <1>0, <2>1, <2>2, <2>5, <2>6 DEF LoopInv, HeaderInv, DROP_RECORD_LEN, SLAB_HEADER_LEN
  <2>8. AnswerInv' /\ ReadsStayInWindow'
    BY DEF AnswerInv, ReadsStayInWindow
  <2>9. TruncatedOnlyInHeader'
    BY <2>1, <2>2 DEF TruncatedOnlyInHeader, DROP_RECORD_LEN
  <2>. QED
    BY <2>4, <2>7, <2>8, <2>9
<1>9. ASSUME NEW id \in DropIds, PlaintextFor(id)
      PROVE  IInv'
  <2> USE <1>9 DEF IInv
  <2>1. /\ status = "open"
        /\ UNCHANGED <<slab, status, position, window_len_sum, drop_records>>
    BY <1>9 DEF PlaintextFor
  <2>2. /\ answer'.kind \in AnswerKinds \ {"none"}
        /\ ReadsStayInWindow'
    <3>1. CASE answer' = [kind |-> "missing", id |-> id]
      BY <3>1 DEF AnswerKinds, ReadsStayInWindow
    <3>2. ASSUME NEW i \in DOMAIN drop_records, NEW kind \in Answers(drop_records[i]),
                 answer' = [kind |-> kind, id |-> id, record |-> i,
                            start |-> Start(drop_records[i]), end |-> End(drop_records[i]),
                            len |-> drop_records[i].plaintext_len]
          PROVE  answer'.kind \in AnswerKinds \ {"none"} /\ ReadsStayInWindow'
      <4> DEFINE r == drop_records[i]
      <4>1. position \in Nat /\ r \in DropRecord
        BY <1>0 DEF TypeOK
      <4>2. /\ kind \in AnswerKinds \ {"none"}
            /\ kind = "plaintext" => End(r) <= slab.length
        BY <1>0, <3>2, <4>1, AnswersTable
      <4>3. answer'.kind = kind /\ answer'.start = Start(r) /\ answer'.end = End(r)
        BY <3>2
      <4>4. r.offset_in_window \in Nat /\ r.len_in_window \in Nat
        BY <4>1, LimitsAssumption DEF DropRecord, U32
      <4>5. position <= Start(r) /\ Start(r) <= End(r)
        BY <4>1, <4>4 DEF Start, End, solid_window_start
      <4>. QED
        BY <2>1, <4>2, <4>3, <4>5 DEF ReadsStayInWindow, solid_window_start
    <3>. QED
      BY <1>9, <3>1, <3>2 DEF PlaintextFor
  <2>3. TypeOK' /\ LoopInv' /\ HeaderInv' /\ AnswerInv' /\ TruncatedOnlyInHeader'
    BY <2>1, <2>2 DEF TypeOK, LoopInv, HeaderInv, AnswerInv, TruncatedOnlyInHeader
  <2>. QED
    BY <2>2, <2>3
<1>10. CASE UNCHANGED vars
  BY <1>10 DEF IInv, vars, TypeOK, LoopInv, HeaderInv, AnswerInv, ReadsStayInWindow, TruncatedOnlyInHeader,
               solid_window_start
<1>. QED
  BY <1>1, <1>2, <1>3, <1>4, <1>5, <1>6, <1>7, <1>8, <1>9, <1>10 DEF Next, ParseStep, Failed

-----------------------------------------------------------------------------
\* A laid-out slab: the loop meets its end at the last record and not before.

\* The end of the window after the first k drops.
EndOf(s, k) == IF k = 0 THEN 0 ELSE WindowEnd(s.record[k])

\* In a laid-out slab the window only grows from drop to drop.
LEMMA WindowGrows ==
    ASSUME NEW s, SlabImage(s), NEW n \in 0..Len(s.record), LaidOut(s, n)
    PROVE  /\ \A k \in 0..n : EndOf(s, k) \in Nat /\ EndOf(s, k) <= EndOf(s, n)
           /\ \A k \in 0..(n - 1) :
                EndOf(s, k + 1) = EndOf(s, k) + s.record[k + 1].len_in_window
<1>0. n \in Nat /\ \A i \in 1..n : s.record[i] \in DropRecord
  BY DEF SlabImage
<1>1. ASSUME NEW i \in 1..n
      PROVE  s.record[i].offset_in_window \in Nat /\ s.record[i].len_in_window \in Nat
  BY <1>0, LimitsAssumption DEF DropRecord, U32
<1>2. \A k \in 0..n : EndOf(s, k) \in Nat
  BY <1>0, <1>1 DEF EndOf, WindowEnd
<1>3. ASSUME NEW k \in 0..(n - 1)
      PROVE  EndOf(s, k + 1) = EndOf(s, k) + s.record[k + 1].len_in_window
  <2>1. CASE k = 0
    BY <1>0, <1>1, <2>1 DEF EndOf, WindowEnd, LaidOut
  <2>2. CASE k > 0
    <3>1. k + 1 \in 1..n /\ k + 1 > 1 /\ (k + 1) - 1 = k
      BY <1>0, <2>2
    <3>2. s.record[k + 1].offset_in_window = WindowEnd(s.record[k])
      BY <3>1 DEF LaidOut
    <3>. QED
      BY <2>2, <3>2 DEF EndOf, WindowEnd
  <2>. QED
    BY <2>1, <2>2
<1>4. ASSUME NEW k \in 0..n, ~(EndOf(s, k) <= EndOf(s, n))
      PROVE  FALSE
  <2> DEFINE T == {d \in 0..n : EndOf(s, n - d) > EndOf(s, n)}
  <2>1. T \subseteq Nat /\ n - k \in T
    BY <1>2, <1>4
  <2>2. PICK d \in T : \A e \in T : d <= e
    BY <2>1, LeastNatural
  <2>3. d \in 1..n /\ EndOf(s, n - d) > EndOf(s, n)
    BY <1>2, <2>2
  <2>4. d - 1 \notin T /\ d - 1 \in 0..n
    BY <2>2, <2>3
  <2>5. EndOf(s, n - d) <= EndOf(s, (n - d) + 1)
    <3> DEFINE j == n - d
    <3>1. j \in 0..(n - 1) /\ j \in 0..n /\ j + 1 \in 1..n
      BY <1>0, <2>3
    <3> HIDE DEF j
    <3>2. /\ EndOf(s, j) \in Nat /\ s.record[j + 1].len_in_window \in Nat
          /\ EndOf(s, j + 1) = EndOf(s, j) + s.record[j + 1].len_in_window
      BY <1>1, <1>2, <1>3, <3>1
    <3>3. EndOf(s, j) <= EndOf(s, j + 1)
      BY <3>2
    <3>. QED
      BY <3>3 DEF j
  <2>6. (n - d) + 1 = n - (d - 1)
    BY <1>0, <2>3
  <2>7. EndOf(s, n - (d - 1)) <= EndOf(s, n)
    BY <1>2, <2>4
  <2>. QED
    BY <1>0, <1>2, <2>3, <2>4, <2>5, <2>6, <2>7
<1>. QED
  BY <1>2, <1>3, <1>4

\* The loop invariant on a slab that holds n drops.
LaidOutInv ==
    \A n \in 0..Len(slab.record) :
        WellFormedHeader(slab) /\ LaidOut(slab, n) =>
            /\ status \notin ErrorKinds
            /\ status \in {"records", "open"} =>
                 /\ Len(drop_records) <= n
                 /\ window_len_sum = EndOf(slab, Len(drop_records))
            /\ status = "open" => Len(drop_records) = n

\* What is left to read after k of the n records.
LEMMA Remaining ==
    ASSUME IInv, LaidOutInv, status = "records",
           NEW n \in 0..Len(slab.record), WellFormedHeader(slab), LaidOut(slab, n)
    PROVE  /\ Len(drop_records) \in 0..n
           /\ Len(drop_records) = n => trailing = 0
           /\ Len(drop_records) < n => trailing >= DROP_RECORD_LEN
           /\ remaining_after_cursor = window_len_sum + trailing
           /\ window_len_sum \in Nat
           /\ trailing \in Nat
<1> DEFINE k == Len(drop_records)
<1>1. /\ SlabImage(slab) /\ k \in Nat /\ position \in Nat /\ window_len_sum \in Nat
      /\ position = SLAB_HEADER_LEN + DROP_RECORD_LEN * k
  BY DEF IInv, TypeOK, LoopInv
<1>2. k \in 0..n /\ window_len_sum = EndOf(slab, k)
  BY <1>1 DEF LaidOutInv
<1>3. /\ EndOf(slab, n) \in Nat /\ EndOf(slab, k) \in Nat
      /\ EndOf(slab, k) <= EndOf(slab, n)
  BY <1>1, <1>2, WindowGrows
<1>4. slab.total_length = SLAB_HEADER_LEN + n * DROP_RECORD_LEN + EndOf(slab, n)
  BY DEF LaidOut, EndOf, WellFormedHeader
<1> HIDE DEF k
<1>5. trailing = (n - k) * DROP_RECORD_LEN + (EndOf(slab, n) - EndOf(slab, k))
  BY <1>1, <1>2, <1>3, <1>4 DEF trailing, remaining_after_cursor, DROP_RECORD_LEN, SLAB_HEADER_LEN
<1>6. remaining_after_cursor \in Int
  BY <1>1, <1>3, <1>4 DEF remaining_after_cursor, DROP_RECORD_LEN, SLAB_HEADER_LEN
<1>7. k = n => trailing = 0
  BY <1>2, <1>3, <1>5 DEF DROP_RECORD_LEN
<1>8. k < n => trailing >= DROP_RECORD_LEN
  BY <1>2, <1>3, <1>5 DEF DROP_RECORD_LEN
<1>9. remaining_after_cursor = window_len_sum + trailing
  BY <1>1, <1>6 DEF trailing
<1>10. trailing \in Nat
  BY <1>2, <1>3, <1>5 DEF DROP_RECORD_LEN
<1>. QED
  BY <1>1, <1>2, <1>7, <1>8, <1>9, <1>10 DEF k

LEMMA StepLaidOut == IInv /\ LaidOutInv /\ [Next]_vars => LaidOutInv'
<1> SUFFICES ASSUME IInv, LaidOutInv, [Next]_vars,
                    NEW n \in 0..Len(slab'.record),
                    WellFormedHeader(slab'), LaidOut(slab', n)
             PROVE  /\ status' \notin ErrorKinds
                    /\ status' \in {"records", "open"} =>
                         /\ Len(drop_records') <= n
                         /\ window_len_sum' = EndOf(slab', Len(drop_records'))
                    /\ status' = "open" => Len(drop_records') = n
  BY DEF LaidOutInv
<1> DEFINE k == Len(drop_records)
<1>1. slab' = slab
  BY DEF Next, ParseStep, vars, RejectHeader, RejectLength, ParseHeader, WindowReached,
         OverranWindow, TrailingBytes, RejectRecord, ParseRecord, PlaintextFor, Failed, Raise
<1>2. /\ n \in 0..Len(slab.record) /\ WellFormedHeader(slab) /\ LaidOut(slab, n)
      /\ SlabImage(slab) /\ drop_records \in Seq(DropRecord) /\ k \in Nat
  BY <1>1 DEF IInv, TypeOK
<1>3. /\ status \notin ErrorKinds
      /\ status \in {"records", "open"} => k <= n /\ window_len_sum = EndOf(slab, k)
      /\ status = "open" => k = n
  BY <1>2 DEF LaidOutInv
<1>4. Passes(HeaderChecks) /\ slab.total_length = slab.length
  BY <1>2, HeaderTable DEF WellFormedHeader, SlabImage
<1>5. status = "records" =>
        /\ k \in 0..n
        /\ k = n => trailing = 0
        /\ k < n => trailing >= DROP_RECORD_LEN
        /\ remaining_after_cursor = window_len_sum + trailing
        /\ window_len_sum \in Nat
        /\ trailing \in Nat
  BY <1>2, Remaining
<1>6. CASE RejectHeader
  BY <1>4, <1>6 DEF RejectHeader
<1>7. CASE RejectLength
  BY <1>4, <1>7 DEF RejectLength
<1>8. CASE ParseHeader
  <2>1. k = 0 /\ window_len_sum = 0
    BY <1>8 DEF ParseHeader, IInv, HeaderInv
  <2>. QED
    BY <1>2, <1>8, <2>1 DEF ParseHeader, EndOf, ErrorKinds
<1>9. CASE WindowReached
  <2>1. trailing = 0
    BY <1>5, <1>9 DEF WindowReached
  <2>2. k = n
    BY <1>2, <1>5, <1>9, <2>1 DEF WindowReached, DROP_RECORD_LEN
  <2>. QED
    BY <1>1, <1>3, <1>9, <2>2 DEF WindowReached, ErrorKinds
<1>10. CASE OverranWindow
  BY <1>5, <1>10 DEF OverranWindow
<1>11. CASE TrailingBytes
  BY <1>2, <1>5, <1>11 DEF TrailingBytes, DROP_RECORD_LEN
<1>12. status = "records" /\ trailing >= DROP_RECORD_LEN =>
         /\ k < n
         /\ NextRecord = slab.record[k + 1]
         /\ Passes(RecordChecks(NextRecord))
  <2> SUFFICES ASSUME status = "records", trailing >= DROP_RECORD_LEN
               PROVE  /\ k < n
                      /\ NextRecord = slab.record[k + 1]
                      /\ Passes(RecordChecks(NextRecord))
    OBVIOUS
  <2>1. k < n
    BY <1>2, <1>5 DEF DROP_RECORD_LEN
  <2>2. /\ position + DROP_RECORD_LEN <= slab.length /\ position \in Nat
        /\ NextRecord = slab.record[k + 1] /\ NextRecord \in DropRecord
    BY RecordIsThere DEF IInv, TypeOK
  <2>3. ValidRecord(slab, NextRecord)
    BY <1>2, <2>1, <2>2 DEF LaidOut
  <2>. QED
    BY <1>2, <2>1, <2>2, <2>3, RecordTable
<1>13. CASE RejectRecord
  BY <1>12, <1>13 DEF RejectRecord
<1>14. CASE ParseRecord
  <2>1. /\ status = "records" /\ status' = "records" /\ trailing >= DROP_RECORD_LEN
        /\ window_len_sum' = window_len_sum + NextRecord.len_in_window
        /\ drop_records' = Append(drop_records, NextRecord)
    BY <1>14 DEF ParseRecord
  <2>2. Len(drop_records') = k + 1
    BY <1>2, <2>1
  <2>3. EndOf(slab, k + 1) = EndOf(slab, k) + slab.record[k + 1].len_in_window
    BY <1>2, <1>12, <2>1, WindowGrows
  <2>. QED
    BY <1>1, <1>2, <1>3, <1>12, <2>1, <2>2, <2>3 DEF ErrorKinds
<1>15. ASSUME NEW id \in DropIds, PlaintextFor(id)
       PROVE  UNCHANGED <<slab, status, window_len_sum, drop_records>>
  BY <1>15 DEF PlaintextFor
<1>16. CASE UNCHANGED <<slab, status, window_len_sum, drop_records>>
  BY <1>3, <1>16
<1>. QED
  BY <1>6, <1>7, <1>8, <1>9, <1>10, <1>11, <1>13, <1>14, <1>15, <1>16
     DEF Next, ParseStep, Failed, vars

-----------------------------------------------------------------------------
\* The results.

LEMMA Invariance == Spec => []IInv
<1>. QED
  BY InitInv, StepInv, PTL DEF Spec

LEMMA LaidOutInvariance == Spec => []LaidOutInv
<1>1. Init => LaidOutInv
  BY DEF Init, LaidOutInv, ErrorKinds
<1>. QED
  BY <1>1, StepLaidOut, Invariance, PTL DEF Spec

\* Every variable keeps its type: in particular the cursor never goes negative
\* and whatever was read from the buffer are drop records.
THEOREM TypeCorrect == Spec => []TypeOK
<1>1. IInv => TypeOK
  BY DEF IInv
<1>. QED
  BY <1>1, Invariance, PTL

\* For every buffer: a "Truncated" is a header cut short, because the loop of
\* parse_slab never asks the cursor for bytes that are not there.
THEOREM LoopNeverTruncates == Spec => []TruncatedOnlyInHeader
<1>1. IInv => TruncatedOnlyInHeader
  BY DEF IInv
<1>. QED
  BY <1>1, Invariance, PTL

\* For every buffer and every drop id: plaintext_for reads inside the window.
THEOREM ReadsInsideWindow == Spec => []ReadsStayInWindow
<1>1. IInv => ReadsStayInWindow
  BY DEF IInv
<1>. QED
  BY <1>1, Invariance, PTL

\* For every number of drops of any sizes: parse_slab finds the boundary between
\* records and window of a laid-out slab, although nothing in the slab names it.
THEOREM LaidOutSlabsOpen == Spec => []LaidOutSlabAccepted
<1>1. IInv /\ LaidOutInv => LaidOutSlabAccepted
  BY DEF IInv, LoopInv, LaidOutInv, LaidOutSlabAccepted
<1>. QED
  BY <1>1, LaidOutInvariance, Invariance, PTL

-----------------------------------------------------------------------------
\* The store that parse_slab and plaintext_for implement.

Intact == LaidOutCounts # {}
Count == IF LaidOutCounts = {} THEN 0 ELSE CHOOSE n \in LaidOutCounts : TRUE
Contents == ContentsOf(Count)
Phase == IF status \in {"header", "records"} THEN "closed" ELSE status
Lookup == IF answer.kind \in {"none", "missing"} THEN answer
          ELSE [kind |-> answer.kind, id |-> answer.id,
                place |-> [start |-> answer.start, end |-> answer.end, len |-> answer.len]]

\* Of the records that carry an id, one is the first.
LEMMA FirstWithIsFirst ==
    ASSUME SlabImage(slab), NEW i \in DOMAIN slab.record, NEW id, slab.record[i].drop_id = id
    PROVE  /\ FirstWith(id) \in DOMAIN slab.record
           /\ slab.record[FirstWith(id)].drop_id = id
           /\ \A j \in 1..(FirstWith(id) - 1) : slab.record[j].drop_id # id
<1> DEFINE T == {j \in DOMAIN slab.record : slab.record[j].drop_id = id}
           First(f) == /\ slab.record[f].drop_id = id
                       /\ \A j \in 1..(f - 1) : slab.record[j].drop_id # id
<1>1. DOMAIN slab.record = 1..Len(slab.record) /\ Len(slab.record) \in Nat
  BY DEF SlabImage
<1>2. PICK f \in T : \A y \in T : f <= y
  <2>1. T \subseteq Nat /\ T # {}
    BY <1>1
  <2>. QED
    BY <2>1, LeastNatural
<1>3. f \in DOMAIN slab.record /\ First(f)
  <2>1. ASSUME NEW j \in 1..(f - 1)
        PROVE  slab.record[j].drop_id # id
    <3>1. j \in DOMAIN slab.record /\ ~(f <= j)
      BY <1>1, <1>2
    <3>. QED
      BY <1>2, <3>1
  <2>. QED
    BY <1>2, <2>1
<1>4. FirstWith(id) \in DOMAIN slab.record /\ First(FirstWith(id))
  BY <1>3, Zenon DEF FirstWith
<1>. QED
  BY <1>4

LEMMA CountIs ==
    ASSUME SlabImage(slab)
    PROVE  /\ Count \in 0..Len(slab.record)
           /\ Intact => WellFormedHeader(slab) /\ LaidOut(slab, Count)
<1>1. Len(slab.record) \in Nat
  BY DEF SlabImage
<1>2. CASE LaidOutCounts = {}
  BY <1>1, <1>2 DEF Count, Intact
<1>3. CASE LaidOutCounts # {}
  <2>1. Count \in LaidOutCounts
    BY <1>3 DEF Count
  <2>. QED
    BY <2>1 DEF LaidOutCounts
<1>. QED
  BY <1>2, <1>3

LEMMA RecordFields ==
    ASSUME NEW r \in DropRecord
    PROVE  r.drop_id \in DropIds /\ {r.offset_in_window, r.len_in_window, r.plaintext_len} \subseteq Nat
BY LimitsAssumption DEF DropRecord, U32

LEMMA PlaceTyped ==
    ASSUME NEW r \in DropRecord, NEW w \in Nat
    PROVE  PlaceOf(r, w) \in Store!Place
BY RecordFields DEF PlaceOf, WindowEnd, Store!Place

LEMMA InitStore == Init => Store!Init
<1> SUFFICES ASSUME Init
             PROVE  Store!Init
  OBVIOUS
<1>1. SlabImage(slab) /\ slab.record \in Seq(DropRecord) /\ Len(slab.record) \in Nat
  BY SlabsAssumption DEF Init, SlabImage
<1> DEFINE ids == {slab.record[i].drop_id : i \in 1..Count}
           w == SLAB_HEADER_LEN + Count * DROP_RECORD_LEN
<1>2. Count \in 0..Len(slab.record) /\ w \in Nat
  BY <1>1, CountIs DEF SLAB_HEADER_LEN, DROP_RECORD_LEN
<1>3. ids \subseteq DropIds
  BY <1>1, <1>2, RecordFields
<1> HIDE DEF w
<1>4. ASSUME NEW id \in ids
      PROVE  PlaceOf(slab.record[FirstWith(id)], w) \in Store!Place
  <2>1. PICK i \in 1..Count : slab.record[i].drop_id = id
    OBVIOUS
  <2>2. i \in DOMAIN slab.record
    BY <1>1, <1>2
  <2>3. FirstWith(id) \in DOMAIN slab.record
    BY <1>1, <2>1, <2>2, FirstWithIsFirst
  <2>. QED
    BY <1>1, <1>2, <2>3, PlaceTyped
<1>5. Contents = [id \in ids |-> PlaceOf(slab.record[FirstWith(id)], w)]
  BY DEF Contents, ContentsOf, w
<1> HIDE DEF ids
<1>6. Contents \in [ids -> Store!Place]
  BY <1>4, <1>5
<1>7. Phase = "closed" /\ Lookup = [kind |-> "none"]
  BY DEF Init, Phase, Lookup, NoAnswer
<1>8. \E s \in SUBSET DropIds : Contents \in [s -> Store!Place]
  BY <1>3, <1>6
<1>. QED
  BY <1>7, <1>8, Zenon DEF Store!Init, Contents, Count, Phase, Lookup

LEMMA StepStore == IInv /\ LaidOutInv /\ LaidOutInv' /\ [Next]_vars => [Store!Next]_Store!vars
<1> SUFFICES ASSUME IInv, LaidOutInv, LaidOutInv', [Next]_vars
             PROVE  [Store!Next]_Store!vars
  OBVIOUS
<1>0. SlabImage(slab) /\ slab.record \in Seq(DropRecord) /\ Len(slab.record) \in Nat
  BY DEF IInv, TypeOK, SlabImage
<1>1. slab' = slab
  BY DEF Next, ParseStep, vars, RejectHeader, RejectLength, ParseHeader, WindowReached,
         OverranWindow, TrailingBytes, RejectRecord, ParseRecord, PlaintextFor, Failed, Raise
<1>2. UNCHANGED <<Intact, Contents>>
  BY <1>1 DEF Intact, Contents, ContentsOf, Count, LaidOutCounts, FirstWith, PlaceOf
<1>3. ASSUME NEW kind \in ErrorKinds, status \in {"header", "records"}, Raise(kind)
      PROVE  Store!Refuse
  <2>1. Phase = "closed" /\ Phase' = kind /\ UNCHANGED Lookup
    BY <1>3 DEF Raise, Phase, Lookup, ErrorKinds
  <2>2. ~Intact
    <3> SUFFICES ASSUME Intact
                 PROVE  FALSE
      OBVIOUS
    <3>1. Count \in 0..Len(slab'.record) /\ WellFormedHeader(slab') /\ LaidOut(slab', Count)
      BY <1>0, <1>1, CountIs
    <3>2. status' \notin ErrorKinds
      BY <3>1 DEF LaidOutInv
    <3>. QED
      BY <1>3, <3>2 DEF Raise
  <2>. QED
    BY <1>2, <2>1, <2>2 DEF Store!Refuse, Store!ErrorKinds, ErrorKinds, Intact, Contents, Count, Phase, Lookup
<1>4. CASE UNCHANGED <<Phase, Lookup>>
  BY <1>2, <1>4 DEF Store!vars, Intact, Contents, Count, Phase, Lookup
<1>5. CASE RejectHeader
  <2>1. FirstFailure(HeaderChecks) \in ErrorKinds
    BY <1>0, <1>5, HeaderTable, FirstFailureIsFirst DEF RejectHeader
  <2>. QED
    BY <1>3, <1>5, <2>1 DEF RejectHeader, Store!Next
<1>6. CASE RejectLength \/ OverranWindow \/ TrailingBytes
  BY <1>3, <1>6 DEF RejectLength, OverranWindow, TrailingBytes, ErrorKinds, Store!Next
<1>7. CASE RejectRecord
  <2> DEFINE C == RecordChecks(NextRecord)
  <2>1. position + DROP_RECORD_LEN <= slab.length /\ NextRecord \in DropRecord /\ position \in Nat
    BY <1>7, RecordIsThere DEF IInv, TypeOK, RejectRecord
  <2>2. FirstFailure(C) \in ErrorKinds
    BY <1>0, <1>7, <2>1, RecordTable, FirstFailureIsFirst DEF RejectRecord
  <2>. QED
    BY <1>3, <1>7, <2>2 DEF RejectRecord, Store!Next
<1>8. CASE ParseHeader \/ ParseRecord
  BY <1>4, <1>8 DEF ParseHeader, ParseRecord, Phase, Lookup
<1>9. CASE WindowReached
  <2>1. Phase = "closed" /\ Phase' = "open" /\ UNCHANGED Lookup
    BY <1>9 DEF WindowReached, Phase, Lookup
  <2>. QED
    BY <1>2, <2>1 DEF Store!Next, Store!Open, Intact, Contents, Count, Phase, Lookup
<1>10. ASSUME NEW id \in DropIds, PlaintextFor(id)
       PROVE  Store!Get(id)
  <2>1. /\ status = "open" /\ Phase = "open" /\ Phase' = Phase /\ position' = position
    BY <1>10 DEF PlaintextFor, Phase
  <2>2. Intact => /\ Count \in 0..Len(slab.record)
                  /\ Len(drop_records) = Count
                  /\ slab.length \in Nat
                  /\ position = SLAB_HEADER_LEN + Count * DROP_RECORD_LEN
    <3> SUFFICES ASSUME Intact
                 PROVE  /\ Len(drop_records) = Count
                        /\ position = SLAB_HEADER_LEN + Count * DROP_RECORD_LEN
      BY <1>0, CountIs DEF SlabImage
    <3>1. Count \in 0..Len(slab.record) /\ WellFormedHeader(slab) /\ LaidOut(slab, Count)
      BY <1>0, CountIs
    <3>2. Len(drop_records) = Count
      BY <2>1, <3>1 DEF LaidOutInv
    <3>3. position = SLAB_HEADER_LEN + DROP_RECORD_LEN * Len(drop_records)
      BY <2>1 DEF IInv, LoopInv
    <3>. QED
      BY <1>0, <3>1, <3>2, <3>3 DEF SLAB_HEADER_LEN, DROP_RECORD_LEN
  <2>3. /\ drop_records \in Seq(DropRecord) /\ Len(drop_records) \in 0..Len(slab.record)
        /\ \A i \in DOMAIN drop_records : drop_records[i] = slab.record[i]
    <3>1. /\ drop_records \in Seq(DropRecord) /\ Len(drop_records) <= Len(slab.record)
          /\ drop_records = SubSeq(slab.record, 1, Len(drop_records))
      BY <2>1 DEF IInv, LoopInv, TypeOK
    <3> DEFINE k == Len(drop_records)
    <3>2. k \in Nat /\ k <= Len(slab.record) /\ DOMAIN drop_records = 1..k
      BY <3>1
    <3>3. ASSUME NEW i \in 1..k
          PROVE  SubSeq(slab.record, 1, k)[i] = slab.record[i]
      BY <1>0, <3>2
    <3>. QED
      BY <1>0, <3>1, <3>2, <3>3
  <2>4. Contents = [d \in {slab.record[i].drop_id : i \in 1..Count} |->
                      PlaceOf(slab.record[FirstWith(d)], SLAB_HEADER_LEN + Count * DROP_RECORD_LEN)]
    BY DEF Contents, ContentsOf
  <2>5. CASE /\ \A i \in DOMAIN drop_records : drop_records[i].drop_id # id
             /\ answer' = [kind |-> "missing", id |-> id]
    <3>1. Lookup' = Store!NotThere(id)
      BY <2>5 DEF Lookup, Store!NotThere
    <3>2. Intact => id \notin DOMAIN Contents
      <4> SUFFICES ASSUME Intact, NEW i \in 1..Count
                   PROVE  slab.record[i].drop_id # id
        BY <2>4
      <4>1. i \in DOMAIN drop_records
        BY <2>2, <2>3
      <4>. QED
        BY <2>3, <2>5, <4>1
    <3>3. Lookup' \in Store!Answers(id)
      BY <3>1, <3>2 DEF Store!Answers, Intact, Contents, Count
    <3>. QED
      BY <1>2, <2>1, <3>3, Zenon DEF Store!Get, Intact, Contents, Count, Phase, Lookup
  <2>6. ASSUME NEW i \in DOMAIN drop_records, IsFirstRecord(i, id),
               NEW kind \in Answers(drop_records[i]),
               answer' = [kind |-> kind, id |-> id, record |-> i,
                          start |-> Start(drop_records[i]), end |-> End(drop_records[i]),
                          len |-> drop_records[i].plaintext_len]
        PROVE  Store!Get(id)
    <3> DEFINE r == drop_records[i]
               place == [start |-> Start(r), end |-> End(r), len |-> r.plaintext_len]
    <3>1. r \in DropRecord /\ r = slab.record[i] /\ position \in Nat
      BY <2>3 DEF IInv, TypeOK
    <3>2. kind \in Store!Outcome
      <4>1. kind \in {"plaintext"} \cup ErrorKinds
        BY <1>0, <2>6, <3>1, AnswersTable
      <4>. QED
        BY <4>1 DEF ErrorKinds, Store!Outcome, Store!ErrorKinds
    <3>3. kind \notin {"none", "missing"}
      BY <3>2 DEF Store!Outcome, Store!ErrorKinds
    <3>4. Lookup' = [kind |-> kind, id |-> id, place |-> place]
      BY <2>6, <3>3 DEF Lookup
    <3>5. place = PlaceOf(r, position)
      BY <3>1, RecordFields DEF Start, End, PlaceOf, WindowEnd, solid_window_start
    <3>6. place \in Store!Place
      BY <3>1, <3>5, PlaceTyped
    <3>7. ASSUME Intact
          PROVE  id \in DOMAIN Contents /\ Contents[id] = place
      <4>1. i \in 1..Count /\ slab.record[i].drop_id = id /\ i \in DOMAIN slab.record
        BY <1>0, <2>2, <2>3, <2>6, <3>1, <3>7 DEF IsFirstRecord
      <4>2. /\ FirstWith(id) \in DOMAIN slab.record /\ slab.record[FirstWith(id)].drop_id = id
            /\ \A j \in 1..(FirstWith(id) - 1) : slab.record[j].drop_id # id
        BY <1>0, <4>1, FirstWithIsFirst
      <4>3. i \in Nat /\ FirstWith(id) \in Nat /\ i >= 1 /\ FirstWith(id) >= 1
        BY <1>0, <4>1, <4>2
      <4>4. ~(i < FirstWith(id))
        BY <4>1, <4>2, <4>3
      <4>5. ~(FirstWith(id) < i)
        <5> SUFFICES ASSUME FirstWith(id) < i
                     PROVE  FALSE
          OBVIOUS
        <5>1. FirstWith(id) \in DOMAIN drop_records
          BY <2>3, <4>3
        <5>. QED
          BY <2>3, <2>6, <4>2, <5>1 DEF IsFirstRecord
      <4>6. FirstWith(id) = i
        BY <4>3, <4>4, <4>5
      <4>. QED
        BY <2>2, <2>4, <3>1, <3>5, <3>7, <4>1, <4>6
    <3> HIDE DEF place
    <3>8. Lookup' \in Store!Answers(id)
      <4>1. CASE ~Intact
        BY <3>2, <3>4, <3>6, <4>1 DEF Store!Answers, Intact, Contents, Count
      <4>2. CASE Intact
        BY <3>2, <3>4, <3>7, <4>2 DEF Store!Answers, Store!At, Intact, Contents, Count
      <4>. QED
        BY <4>1, <4>2
    <3>. QED
      BY <1>2, <2>1, <3>8, Zenon DEF Store!Get, Intact, Contents, Count, Phase, Lookup
  <2>. QED
    BY <1>10, <2>5, <2>6 DEF PlaintextFor
<1>11. CASE Failed \/ UNCHANGED vars
  BY <1>4, <1>11 DEF Failed, vars, Phase, Lookup
<1>. QED
  BY <1>5, <1>6, <1>7, <1>8, <1>9, <1>10, <1>11 DEF Next, ParseStep, Store!Next

\* For every buffer, and in every order of lookups: parse_slab and plaintext_for
\* are one store.  A slab as a writer lays it out opens and answers each id with
\* the place of the first drop written under it; of any other slab nothing more
\* is promised than one refusal, or one opening.
THEOREM ImplementsTheStore == Spec => ImplementsDropStore
<1>1. Spec => Store!Init /\ [][Store!Next]_Store!vars
  BY InitStore, StepStore, Invariance, LaidOutInvariance, PTL DEF Spec
<1>. QED
  BY <1>1 DEF ImplementsDropStore, Store!Spec

-----------------------------------------------------------------------------
\* Written slabs, and the number of records.

\* f[s] is the sum of the members of seq whose places are in s.
Totals(f, seq, n) ==
    f = [s \in SUBSET (1..n) |-> IF s = {} THEN 0 ELSE f[s \ {Max(s)}] + seq[Max(s)]]

LEMMA SumDef ==
    ASSUME NEW seq, NEW n, DOMAIN seq = 1..n
    PROVE  Sum(seq) = (CHOOSE f : Totals(f, seq, n))[1..n]
BY DEF Sum, FoldLeft, MapThenFoldSet, Totals

\* The greatest of finitely many places.
LEMMA Greatest ==
    ASSUME NEW n \in Nat, NEW s \in SUBSET (1..n), s # {}
    PROVE  Max(s) \in s /\ \A y \in s : y <= Max(s)
<1> DEFINE Below == {n - y : y \in s}
<1>1. Below \subseteq Nat /\ Below # {}
  <2>1. \A y \in s : n - y \in Nat
    OBVIOUS
  <2>. QED
    BY <2>1
<1>2. PICK d \in Below : \A e \in Below : d <= e
  BY <1>1, LeastNatural
<1>3. PICK x \in s : d = n - x
  BY <1>2
<1>4. \A y \in s : y <= x
  <2> TAKE y \in s
  <2>1. n - y \in Below
    OBVIOUS
  <2>2. n - x <= n - y
    BY <1>2, <1>3, <2>1
  <2>3. x \in Int /\ y \in Int
    OBVIOUS
  <2> HIDE DEF Below
  <2>. QED
    BY <2>2, <2>3
<1>5. \E z \in s : \A y \in s : z >= y
  <2>1. \A y \in s : x >= y
    BY <1>4
  <2>. QED
    BY <2>1
<1>6. Max(s) \in s /\ \A y \in s : Max(s) >= y
  BY <1>5, Zenon DEF Max
<1>. QED
  BY <1>6

LEMMA TotalsExist ==
    ASSUME NEW seq, NEW n \in Nat
    PROVE  \E f : Totals(f, seq, n)
<1> DEFINE None == {m \in Nat : ~\E f : Totals(f, seq, m)}
<1> SUFFICES ASSUME None # {}
             PROVE  FALSE
  OBVIOUS
<1>1. PICK m \in None : \A k \in None : m <= k
  <2>1. None \subseteq Nat
    OBVIOUS
  <2>. QED
    BY <2>1, LeastNatural
<1>2. m # 0
  <2>1. Totals([s \in SUBSET (1..0) |-> 0], seq, 0)
    <3>1. \A s \in SUBSET (1..0) : s = {}
      OBVIOUS
    <3>. QED
      BY <3>1 DEF Totals
  <2>. QED
    BY <1>1, <2>1
<1>3. m \in Nat /\ m - 1 \in Nat /\ m - 1 \notin None
  BY <1>1, <1>2
<1>4. PICK f : Totals(f, seq, m - 1)
  BY <1>3
<1> DEFINE g == [s \in SUBSET (1..m) |-> IF m \in s THEN f[s \ {m}] + seq[m] ELSE f[s]]
<1>5. ASSUME NEW s \in SUBSET (1..m)
      PROVE  g[s] = IF s = {} THEN 0 ELSE g[s \ {Max(s)}] + seq[Max(s)]
  <2>1. CASE m \in s
    <3>1. Max(s) = m
      <4>1. Max(s) \in s /\ m <= Max(s)
        BY <1>3, <2>1, Greatest
      <4>2. PICK x \in 1..m : x = Max(s)
        BY <4>1
      <4>. QED
        BY <1>3, <4>1, <4>2
    <3>2. s \ {m} \in SUBSET (1..m) /\ m \notin s \ {m}
      OBVIOUS
    <3>3. g[s] = f[s \ {m}] + seq[m] /\ g[s \ {m}] = f[s \ {m}]
      BY <2>1, <3>2
    <3> HIDE DEF g
    <3>. QED
      BY <2>1, <3>1, <3>3
  <2>2. CASE m \notin s
    <3>1. s \in SUBSET (1..(m - 1))
      BY <1>3, <2>2
    <3>2. f[s] = IF s = {} THEN 0 ELSE f[s \ {Max(s)}] + seq[Max(s)]
      BY <1>4, <3>1 DEF Totals
    <3>3. g[s] = f[s] /\ g[s \ {Max(s)}] = f[s \ {Max(s)}]
      BY <2>2
    <3> HIDE DEF g
    <3>. QED
      BY <3>2, <3>3
  <2>. QED
    BY <2>1, <2>2
<1>6. Totals(g, seq, m)
  <2>1. g = [s \in SUBSET (1..m) |-> g[s]]
    OBVIOUS
  <2> HIDE DEF g
  <2>. QED
    BY <1>5, <2>1 DEF Totals
<1>. QED
  BY <1>1, <1>6

\* The members up to a place are the members before it and the one there.
LEMMA TotalsStep ==
    ASSUME NEW f, NEW seq, NEW n \in Nat, Totals(f, seq, n), NEW k \in 1..n
    PROVE  f[1..k] = f[1..(k - 1)] + seq[k]
<1>1. 1..k \in SUBSET (1..n) /\ k \in 1..k /\ 1..k # {}
  OBVIOUS
<1>2. Max(1..k) = k
  <2>1. Max(1..k) \in 1..k /\ k <= Max(1..k)
    BY <1>1, Greatest
  <2>. QED
    BY <2>1
<1>3. (1..k) \ {k} = 1..(k - 1)
  OBVIOUS
<1>4. f[1..k] = f[(1..k) \ {Max(1..k)}] + seq[Max(1..k)]
  BY <1>1 DEF Totals
<1>. QED
  BY <1>2, <1>3, <1>4

LEMMA TotalsAgree ==
    ASSUME NEW a, NEW b, NEW m \in Nat, NEW n \in Nat, NEW f, NEW g,
           Totals(f, a, m), Totals(g, b, n), NEW k \in 0..m, k <= n,
           \A i \in 1..k : a[i] = b[i]
    PROVE  f[1..k] = g[1..k]
<1> DEFINE Differ == {j \in 0..k : f[1..j] # g[1..j]}
<1> SUFFICES ASSUME Differ # {}
             PROVE  FALSE
  OBVIOUS
<1>1. PICK j \in Differ : \A l \in Differ : j <= l
  <2>1. Differ \subseteq Nat
    OBVIOUS
  <2>. QED
    BY <2>1, LeastNatural
<1>2. CASE j = 0
  <2>1. 1..0 = {} /\ {} \in SUBSET (1..m) /\ {} \in SUBSET (1..n)
    OBVIOUS
  <2>2. f[{}] = 0 /\ g[{}] = 0
    BY <2>1 DEF Totals
  <2>. QED
    BY <1>1, <1>2, <2>1, <2>2
<1>3. CASE j # 0
  <2>1. j \in 1..k /\ j \in 1..m /\ j \in 1..n /\ j - 1 \in 0..k /\ ~(j <= j - 1)
    BY <1>1, <1>3
  <2>2. f[1..(j - 1)] = g[1..(j - 1)]
    BY <1>1, <2>1
  <2>3. f[1..j] = f[1..(j - 1)] + a[j] /\ g[1..j] = g[1..(j - 1)] + b[j]
    BY <2>1, TotalsStep
  <2>. QED
    BY <1>1, <2>1, <2>2, <2>3
<1>. QED
  BY <1>2, <1>3

LEMMA SumEmpty == ASSUME NEW seq, DOMAIN seq = 1..0
                  PROVE  Sum(seq) = 0
<1> DEFINE f == CHOOSE h : Totals(h, seq, 0)
<1>1. Totals(f, seq, 0)
  <2>1. \E h : Totals(h, seq, 0)
    BY TotalsExist
  <2>. QED
    BY <2>1, Zenon
<1>2. Sum(seq) = f[1..0]
  BY SumDef
<1> HIDE DEF f
<1>3. 1..0 = {} /\ {} \in SUBSET (1..0)
  OBVIOUS
<1>. QED
  BY <1>1, <1>2, <1>3 DEF Totals

\* One member more, so much more.
LEMMA SumMore ==
    ASSUME NEW n \in Nat, NEW short, DOMAIN short = 1..n, NEW long, DOMAIN long = 1..(n + 1),
           \A i \in 1..n : short[i] = long[i]
    PROVE  Sum(long) = Sum(short) + long[n + 1]
<1> DEFINE f == CHOOSE h : Totals(h, short, n)
           g == CHOOSE h : Totals(h, long, n + 1)
<1>1. Totals(f, short, n) /\ Totals(g, long, n + 1)
  <2>1. n + 1 \in Nat
    OBVIOUS
  <2>2. (\E h : Totals(h, short, n)) /\ (\E h : Totals(h, long, n + 1))
    BY <2>1, TotalsExist, Zenon
  <2>. QED
    BY <2>2, Zenon
<1>2. Sum(short) = f[1..n] /\ Sum(long) = g[1..(n + 1)]
  BY SumDef
<1> HIDE DEF f, g
<1>3. f[1..n] = g[1..n]
  BY <1>1, TotalsAgree
<1>4. g[1..(n + 1)] = g[1..n] + long[n + 1]
  BY <1>1, TotalsStep
<1>. QED
  BY <1>2, <1>3, <1>4

-----------------------------------------------------------------------------
\* The number of records.

Claimed(s, k) == Sum([i \in 1..k |-> s.record[i].len_in_window])

\* Where a slab of k records would end.
Reach(s, k) == SLAB_HEADER_LEN + DROP_RECORD_LEN * k + Claimed(s, k)

\* A number of records that leaves the bytes they claim.
Counts(s) ==
    {n \in 0..Len(s.record) :
        /\ WellFormedHeader(s)
        /\ Reach(s, n) = s.length
        /\ \A i \in 1..n : ValidRecord(s, s.record[i])}

LEMMA ClaimedGrows ==
    ASSUME NEW s, SlabImage(s), NEW k \in 0..(Len(s.record) - 1)
    PROVE  /\ Claimed(s, k + 1) = Claimed(s, k) + s.record[k + 1].len_in_window
           /\ s.record[k + 1].len_in_window \in Nat
<1>1. s.record \in Seq(DropRecord) /\ Len(s.record) \in Nat
  BY DEF SlabImage
<1>2. s.record[k + 1] \in DropRecord
  BY <1>1
<1>3. s.record[k + 1].len_in_window \in Nat
  BY <1>2, RecordFields
<1> DEFINE short == [i \in 1..k |-> s.record[i].len_in_window]
           long == [i \in 1..(k + 1) |-> s.record[i].len_in_window]
<1>4. /\ DOMAIN short = 1..k /\ DOMAIN long = 1..(k + 1) /\ \A i \in 1..k : short[i] = long[i]
      /\ long[k + 1] = s.record[k + 1].len_in_window /\ k \in Nat
  OBVIOUS
<1> HIDE DEF short, long
<1>5. Sum(long) = Sum(short) + long[k + 1]
  BY <1>4, SumMore
<1>. QED
  BY <1>3, <1>4, <1>5 DEF Claimed, short, long

LEMMA ClaimedTyped ==
    ASSUME NEW s, SlabImage(s), NEW k \in 0..Len(s.record)
    PROVE  Claimed(s, k) \in Nat
<1> DEFINE Odd == {j \in 0..k : Claimed(s, j) \notin Nat}
<1>0. Len(s.record) \in Nat
  BY DEF SlabImage
<1> SUFFICES ASSUME Odd # {}
             PROVE  FALSE
  BY <1>0
<1>1. PICK j \in Odd : \A l \in Odd : j <= l
  <2>1. Odd \subseteq Nat
    OBVIOUS
  <2>. QED
    BY <2>1, LeastNatural
<1>2. CASE j = 0
  <2>1. DOMAIN [i \in 1..0 |-> s.record[i].len_in_window] = 1..0
    OBVIOUS
  <2>2. Claimed(s, 0) = 0
    BY <2>1, SumEmpty DEF Claimed
  <2>. QED
    BY <1>1, <1>2, <2>2
<1>3. CASE j # 0
  <2>1. j - 1 \in 0..k /\ ~(j <= j - 1) /\ j - 1 \in 0..(Len(s.record) - 1) /\ (j - 1) + 1 = j
    BY <1>0, <1>1, <1>3
  <2>2. Claimed(s, j - 1) \in Nat
    BY <1>1, <2>1
  <2>3. /\ Claimed(s, (j - 1) + 1) = Claimed(s, j - 1) + s.record[(j - 1) + 1].len_in_window
        /\ s.record[(j - 1) + 1].len_in_window \in Nat
    BY <2>1, ClaimedGrows
  <2>. QED
    BY <1>1, <2>1, <2>2, <2>3
<1>. QED
  BY <1>2, <1>3

\* One record more takes its own bytes at least, so no two numbers reach the same end.
LEMMA ReachGrows ==
    ASSUME NEW s, SlabImage(s), NEW j \in 0..Len(s.record), NEW k \in 0..Len(s.record), j < k
    PROVE  /\ Reach(s, j) \in Nat /\ Reach(s, k) \in Nat
           /\ Reach(s, j) + DROP_RECORD_LEN <= Reach(s, k)
<1> DEFINE Bad == {l \in 0..k : j < l /\ ~(Reach(s, j) + DROP_RECORD_LEN <= Reach(s, l))}
<1>0. Len(s.record) \in Nat /\ DROP_RECORD_LEN = 48 /\ SLAB_HEADER_LEN = 56
  BY DEF SlabImage, DROP_RECORD_LEN, SLAB_HEADER_LEN
<1>1. \A l \in 0..Len(s.record) : Reach(s, l) \in Nat
  <2> TAKE l \in 0..Len(s.record)
  <2>1. Claimed(s, l) \in Nat
    BY ClaimedTyped
  <2>. QED
    BY <1>0, <2>1 DEF Reach
<1>2. ASSUME NEW l \in 0..(Len(s.record) - 1)
      PROVE  Reach(s, l) + DROP_RECORD_LEN <= Reach(s, l + 1)
  <2>1. /\ Claimed(s, l + 1) = Claimed(s, l) + s.record[l + 1].len_in_window
        /\ s.record[l + 1].len_in_window \in Nat
    BY ClaimedGrows
  <2>2. Claimed(s, l) \in Nat
    BY <1>0, ClaimedTyped
  <2>. QED
    BY <1>0, <2>1, <2>2 DEF Reach
<1>3. Bad = {}
  <2> SUFFICES ASSUME Bad # {}
               PROVE  FALSE
    OBVIOUS
  <2>1. PICK l \in Bad : \A m \in Bad : l <= m
    <3>1. Bad \subseteq Nat
      OBVIOUS
    <3>. QED
      BY <3>1, LeastNatural
  <2>2. /\ l - 1 \in 0..k /\ ~(l <= l - 1) /\ l - 1 \in 0..(Len(s.record) - 1) /\ (l - 1) + 1 = l
        /\ l \in 0..Len(s.record) /\ l - 1 \in 0..Len(s.record)
        /\ l - 1 = j \/ j < l - 1
    BY <1>0, <2>1
  <2>3. Reach(s, l - 1) + DROP_RECORD_LEN <= Reach(s, l)
    BY <1>2, <2>2
  <2>4. l - 1 # j => Reach(s, j) + DROP_RECORD_LEN <= Reach(s, l - 1)
    BY <2>1, <2>2
  <2>5. Reach(s, j) \in Nat /\ Reach(s, l) \in Nat /\ Reach(s, l - 1) \in Nat
    BY <1>1, <2>2
  <2>6. Reach(s, j) + DROP_RECORD_LEN <= Reach(s, l)
    <3>1. CASE l - 1 = j
      BY <2>3, <3>1
    <3>2. CASE l - 1 # j
      BY <1>0, <2>3, <2>4, <2>5, <3>2
    <3>. QED
      BY <3>1, <3>2
  <2>. QED
    BY <2>1, <2>6
<1>. QED
  BY <1>0, <1>1, <1>3

\* What the loop has summed, that no smaller number of records would do, and that
\* once the loop has given up none would.
DerivedInv ==
    /\ status \in {"records", "open"} =>
         /\ window_len_sum = Claimed(slab, Len(drop_records))
         /\ \A i \in 1..Len(drop_records) : ValidRecord(slab, slab.record[i])
    /\ status = "records" =>
         \A n \in 0..(Len(drop_records) - 1) : Reach(slab, n) < slab.length
    /\ status = "open" => Reach(slab, Len(drop_records)) = slab.length
    /\ status \in ErrorKinds => Counts(slab) = {}

LEMMA NothingClaimed == ASSUME NEW s PROVE Claimed(s, 0) = 0
<1>1. DOMAIN [i \in 1..0 |-> s.record[i].len_in_window] = 1..0
  OBVIOUS
<1>. QED
  BY <1>1, SumEmpty DEF Claimed

\* Where the loop is: it has read k records, and they would reach as far as what
\* remains, less `trailing`.
LEMMA LoopReach ==
    ASSUME IInv, DerivedInv, status = "records", NEW k, k = Len(drop_records)
    PROVE  /\ k \in 0..Len(slab.record)
           /\ Reach(slab, k) \in Nat /\ slab.length \in Nat
           /\ trailing = slab.length - Reach(slab, k)
           /\ remaining_after_cursor - window_len_sum = slab.length - Reach(slab, k)
           /\ WellFormedHeader(slab)
           /\ \A i \in 1..k : ValidRecord(slab, slab.record[i])
<1>1. /\ SlabImage(slab) /\ drop_records \in Seq(DropRecord) /\ k \in Nat
      /\ position \in Nat /\ window_len_sum \in Nat /\ slab.length \in Nat
  BY DEF IInv, TypeOK, SlabImage
<1>2. /\ WellFormedHeader(slab) /\ slab.total_length = slab.length
      /\ position = SLAB_HEADER_LEN + DROP_RECORD_LEN * k
      /\ k <= Len(slab.record)
  BY DEF IInv, LoopInv, WellFormedHeader
<1>3. k \in 0..Len(slab.record) /\ Len(slab.record) \in Nat
  BY <1>1, <1>2 DEF SlabImage
<1>4. window_len_sum = Claimed(slab, k) /\ \A i \in 1..k : ValidRecord(slab, slab.record[i])
  BY DEF DerivedInv
<1>5. Reach(slab, k) = position + window_len_sum
  BY <1>2, <1>4 DEF Reach
<1>. QED
  BY <1>1, <1>2, <1>3, <1>4, <1>5 DEF trailing, remaining_after_cursor

\* No number of records up to the loop's own, and none beyond it, is a count.
LEMMA NoCount ==
    ASSUME IInv, DerivedInv, status = "records", NEW k, k = Len(drop_records),
           Reach(slab, k) # slab.length,
           \A n \in (k + 1)..Len(slab.record) :
              \/ Reach(slab, n) # slab.length
              \/ \E i \in 1..n : ~ValidRecord(slab, slab.record[i])
    PROVE  Counts(slab) = {}
<1>1. k \in Nat /\ Len(slab.record) \in Nat /\ slab.length \in Nat
  BY DEF IInv, TypeOK, SlabImage
<1>2. \A n \in 0..(k - 1) : Reach(slab, n) < slab.length
  BY DEF DerivedInv
<1> SUFFICES ASSUME NEW n \in Counts(slab)
             PROVE  FALSE
  OBVIOUS
<1>3. /\ n \in 0..Len(slab.record) /\ Reach(slab, n) = slab.length
      /\ \A i \in 1..n : ValidRecord(slab, slab.record[i])
  BY DEF Counts
<1>4. CASE n < k
  <2>1. n \in 0..(k - 1)
    BY <1>1, <1>3, <1>4
  <2>. QED
    BY <1>1, <1>2, <1>3, <2>1
<1>5. CASE n = k
  BY <1>3, <1>5
<1>6. CASE k < n
  <2>1. n \in (k + 1)..Len(slab.record)
    BY <1>1, <1>3, <1>6
  <2>. QED
    BY <1>3, <2>1
<1>. QED
  BY <1>1, <1>3, <1>4, <1>5, <1>6

LEMMA StepDerived == IInv /\ DerivedInv /\ [Next]_vars => DerivedInv'
<1> SUFFICES ASSUME IInv, DerivedInv, [Next]_vars
             PROVE  DerivedInv'
  OBVIOUS
<1> DEFINE k == Len(drop_records)
<1>1. slab' = slab
  BY DEF Next, ParseStep, vars, RejectHeader, RejectLength, ParseHeader, WindowReached,
         OverranWindow, TrailingBytes, RejectRecord, ParseRecord, PlaintextFor, Failed, Raise
<1>2. SlabImage(slab) /\ drop_records \in Seq(DropRecord) /\ k \in Nat /\ Len(slab.record) \in Nat
      /\ slab.length \in Nat /\ DROP_RECORD_LEN = 48
  BY DEF IInv, TypeOK, SlabImage, DROP_RECORD_LEN
<1>3. status = "records" =>
        /\ k \in 0..Len(slab.record)
        /\ Reach(slab, k) \in Nat
        /\ trailing = slab.length - Reach(slab, k)
        /\ remaining_after_cursor - window_len_sum = slab.length - Reach(slab, k)
        /\ \A i \in 1..k : ValidRecord(slab, slab.record[i])
  BY LoopReach
<1>4. ASSUME NEW kind \in ErrorKinds, Raise(kind), Counts(slab) = {}
      PROVE  DerivedInv'
  <2>1. status' = kind /\ kind \notin {"records", "open"}
    BY <1>4 DEF Raise, ErrorKinds
  <2>. QED
    BY <1>1, <1>4, <2>1 DEF DerivedInv
<1>5. CASE RejectHeader \/ RejectLength
  <2>1. ~WellFormedHeader(slab)
    BY <1>2, <1>5, HeaderTable DEF RejectHeader, RejectLength, WellFormedHeader, SlabImage
  <2>2. Counts(slab) = {}
    BY <2>1 DEF Counts
  <2>3. HeaderChecks \in Seq(Outcomes)
    BY <1>2, HeaderTable
  <2>4. \E kind \in ErrorKinds : Raise(kind)
    <3>1. CASE RejectHeader
      BY <2>3, <3>1, FirstFailureIsFirst DEF RejectHeader
    <3>2. CASE RejectLength
      BY <3>2 DEF RejectLength, ErrorKinds
    <3>. QED
      BY <1>5, <3>1, <3>2
  <2>. QED
    BY <1>4, <2>2, <2>4
<1>6. CASE ParseHeader
  <2>1. k = 0 /\ window_len_sum = 0 /\ status' = "records"
        /\ window_len_sum' = window_len_sum /\ drop_records' = drop_records
    BY <1>6 DEF ParseHeader, IInv, HeaderInv
  <2>. QED
    BY <1>1, <2>1, NothingClaimed DEF DerivedInv, ErrorKinds
<1>7. CASE WindowReached
  <2>1. status = "records" /\ remaining_after_cursor = window_len_sum /\ status' = "open"
        /\ window_len_sum' = window_len_sum /\ drop_records' = drop_records
    BY <1>7 DEF WindowReached
  <2>2. Reach(slab, k) = slab.length
    <3>1. window_len_sum \in Nat
      BY DEF IInv, TypeOK
    <3>2. remaining_after_cursor - window_len_sum = 0
      BY <2>1, <3>1
    <3>. QED
      BY <1>2, <1>3, <2>1, <3>2
  <2>. QED
    BY <1>1, <2>1, <2>2 DEF DerivedInv, ErrorKinds
<1>8. CASE OverranWindow
  <2>1. status = "records" /\ remaining_after_cursor < window_len_sum /\ Raise("Corrupt")
    BY <1>8 DEF OverranWindow
  <2>2. slab.length < Reach(slab, k)
    <3>1. window_len_sum \in Nat /\ remaining_after_cursor \in Int
      BY <1>2, <2>1 DEF IInv, TypeOK, SlabImage, remaining_after_cursor
    <3>. QED
      BY <1>2, <1>3, <2>1, <3>1
  <2>3. \A n \in (k + 1)..Len(slab.record) : Reach(slab, n) # slab.length
    <3> TAKE n \in (k + 1)..Len(slab.record)
    <3>1. n \in 0..Len(slab.record) /\ k < n
      BY <1>2
    <3>2. Reach(slab, n) \in Nat /\ Reach(slab, k) + DROP_RECORD_LEN <= Reach(slab, n)
      BY <1>2, <1>3, <2>1, <3>1, ReachGrows
    <3>. QED
      BY <1>2, <1>3, <2>1, <2>2, <3>2
  <2>4. Reach(slab, k) # slab.length
    BY <1>2, <1>3, <2>1, <2>2
  <2>5. Counts(slab) = {}
    BY <2>1, <2>3, <2>4, NoCount
  <2>. QED
    BY <1>4, <2>1, <2>5 DEF ErrorKinds
<1>9. CASE TrailingBytes
  <2>1. /\ status = "records" /\ Raise("Corrupt")
        /\ 0 < slab.length - Reach(slab, k) /\ slab.length - Reach(slab, k) < 48
    <3>1. status = "records" /\ trailing \in 1..(DROP_RECORD_LEN - 1) /\ Raise("Corrupt")
      BY <1>9 DEF TrailingBytes
    <3>. QED
      BY <1>2, <1>3, <3>1
  <2>2. \A n \in (k + 1)..Len(slab.record) : Reach(slab, n) # slab.length
    <3> TAKE n \in (k + 1)..Len(slab.record)
    <3>1. n \in 0..Len(slab.record) /\ k < n
      BY <1>2
    <3>2. Reach(slab, n) \in Nat /\ Reach(slab, k) + DROP_RECORD_LEN <= Reach(slab, n)
      BY <1>2, <1>3, <2>1, <3>1, ReachGrows
    <3>. QED
      BY <1>2, <1>3, <2>1, <3>2
  <2>3. Reach(slab, k) # slab.length
    BY <1>2, <1>3, <2>1
  <2>4. Counts(slab) = {}
    BY <2>1, <2>2, <2>3, NoCount
  <2>. QED
    BY <1>4, <2>1, <2>4 DEF ErrorKinds
<1>10. (status = "records" /\ trailing >= DROP_RECORD_LEN) =>
         /\ Reach(slab, k) + DROP_RECORD_LEN <= slab.length
         /\ k + 1 \in 1..Len(slab.record)
         /\ NextRecord = slab.record[k + 1]
         /\ RecordChecks(NextRecord) \in Seq(Outcomes)
         /\ Passes(RecordChecks(NextRecord)) <=> ValidRecord(slab, slab.record[k + 1])
  <2> SUFFICES ASSUME status = "records", trailing >= DROP_RECORD_LEN
               PROVE  /\ Reach(slab, k) + DROP_RECORD_LEN <= slab.length
                      /\ k + 1 \in 1..Len(slab.record)
                      /\ NextRecord = slab.record[k + 1]
                      /\ RecordChecks(NextRecord) \in Seq(Outcomes)
                      /\ Passes(RecordChecks(NextRecord)) <=> ValidRecord(slab, slab.record[k + 1])
    OBVIOUS
  <2>1. /\ position + DROP_RECORD_LEN <= slab.length
        /\ k + 1 \in 1..Len(slab.record)
        /\ NextRecord = slab.record[k + 1]
        /\ NextRecord \in DropRecord
    BY RecordIsThere DEF IInv
  <2>2. position \in Nat
    BY DEF IInv, TypeOK
  <2>3. /\ RecordChecks(NextRecord) \in Seq(Outcomes)
        /\ Passes(RecordChecks(NextRecord)) <=> ValidRecord(slab, NextRecord)
    BY <1>2, <2>1, <2>2, RecordTable
  <2>4. Reach(slab, k) + DROP_RECORD_LEN <= slab.length
    BY <1>2, <1>3
  <2>. QED
    BY <2>1, <2>3, <2>4
<1>11. CASE RejectRecord
  <2>1. /\ status = "records" /\ trailing >= DROP_RECORD_LEN
        /\ ~Passes(RecordChecks(NextRecord))
        /\ Raise(FirstFailure(RecordChecks(NextRecord)))
    BY <1>11 DEF RejectRecord
  <2>2. ~ValidRecord(slab, slab.record[k + 1])
    BY <1>10, <2>1
  <2>3. \A n \in (k + 1)..Len(slab.record) : \E i \in 1..n : ~ValidRecord(slab, slab.record[i])
    <3> TAKE n \in (k + 1)..Len(slab.record)
    <3>1. k + 1 \in 1..n
      BY <1>2
    <3>. QED
      BY <2>2, <3>1
  <2>4. Reach(slab, k) # slab.length
    BY <1>2, <1>3, <1>10, <2>1
  <2>5. Counts(slab) = {}
    BY <2>1, <2>3, <2>4, NoCount
  <2>6. FirstFailure(RecordChecks(NextRecord)) \in ErrorKinds
    BY <1>10, <2>1, FirstFailureIsFirst
  <2>. QED
    BY <1>4, <2>1, <2>5, <2>6
<1>12. CASE ParseRecord
  <2>1. /\ status = "records" /\ trailing >= DROP_RECORD_LEN
        /\ Passes(RecordChecks(NextRecord)) /\ status' = "records"
        /\ window_len_sum' = window_len_sum + NextRecord.len_in_window
        /\ drop_records' = Append(drop_records, NextRecord)
    BY <1>12 DEF ParseRecord
  <2>2. /\ k + 1 \in 1..Len(slab.record) /\ NextRecord = slab.record[k + 1]
        /\ ValidRecord(slab, slab.record[k + 1])
        /\ Reach(slab, k) + DROP_RECORD_LEN <= slab.length
    BY <1>10, <2>1
  <2>3. Len(drop_records') = k + 1
    BY <1>2, <2>1, <2>2
  <2>4. Claimed(slab, k + 1) = Claimed(slab, k) + slab.record[k + 1].len_in_window
    BY <1>2, <2>2, ClaimedGrows
  <2>5. window_len_sum' = Claimed(slab, k + 1)
    BY <2>1, <2>2, <2>4 DEF DerivedInv
  <2>6. \A i \in 1..(k + 1) : ValidRecord(slab, slab.record[i])
    <3> TAKE i \in 1..(k + 1)
    <3>1. i \in 1..k \/ i = k + 1
      BY <1>2
    <3>. QED
      BY <1>3, <2>1, <2>2, <3>1
  <2>7. \A n \in 0..((k + 1) - 1) : Reach(slab, n) < slab.length
    <3> TAKE n \in 0..((k + 1) - 1)
    <3>1. n \in 0..(k - 1) \/ n = k
      BY <1>2
    <3>2. n = k => Reach(slab, n) < slab.length
      BY <1>2, <1>3, <2>1, <2>2
    <3>3. n \in 0..(k - 1) => Reach(slab, n) < slab.length
      BY <2>1 DEF DerivedInv
    <3>. QED
      BY <3>1, <3>2, <3>3
  <2>8. status' # "open" /\ status' \notin ErrorKinds
    BY <2>1 DEF ErrorKinds
  <2> HIDE DEF k
  <2>. QED
    BY <1>1, <2>3, <2>5, <2>6, <2>7, <2>8 DEF DerivedInv
<1>13. CASE (\E id \in DropIds : PlaintextFor(id)) \/ Failed \/ UNCHANGED vars
  <2>1. UNCHANGED <<slab, status, window_len_sum, drop_records>>
    BY <1>13 DEF PlaintextFor, Failed, vars
  <2>. QED
    BY <2>1 DEF DerivedInv
<1>. QED
  BY <1>5, <1>6, <1>7, <1>8, <1>9, <1>11, <1>12, <1>13 DEF Next, ParseStep

LEMMA DerivedInvariance == Spec => [](IInv /\ DerivedInv)
<1>1. Init => DerivedInv
  BY DEF Init, DerivedInv, ErrorKinds
<1>2. Spec => []IInv
  BY Invariance
<1>. QED
  BY <1>1, <1>2, StepDerived, PTL DEF Spec

LEMMA DerivedCount == ASSUME IInv, DerivedInv PROVE DropCountDerived
<1> DEFINE counts == {n \in 0..Len(slab.record) :
                         /\ WellFormedHeader(slab)
                         /\ Balances(n)
                         /\ \A i \in 1..n : ValidRecord(slab, slab.record[i])}
<1>1. SlabImage(slab) /\ Len(slab.record) \in Nat /\ slab.length \in Nat
  BY DEF IInv, TypeOK, SlabImage
<1>2. counts = Counts(slab)
  <2>1. ASSUME NEW n \in 0..Len(slab.record)
        PROVE  Balances(n) <=> Reach(slab, n) = slab.length
    <3>1. Claimed(slab, n) = ClaimedBy(n)
      BY DEF Claimed, ClaimedBy
    <3>2. Claimed(slab, n) \in Nat
      BY <1>1, ClaimedTyped
    <3>. QED
      BY <1>1, <3>1, <3>2 DEF Balances, Reach, SLAB_HEADER_LEN, DROP_RECORD_LEN
  <2>. QED
    BY <2>1 DEF Counts
<1>3. CASE status = "open"
  <2> DEFINE k == Len(drop_records)
  <2>1. k \in 0..Len(slab.record) /\ WellFormedHeader(slab)
    BY <1>1, <1>3 DEF IInv, TypeOK, LoopInv
  <2>2. Reach(slab, k) = slab.length /\ \A i \in 1..k : ValidRecord(slab, slab.record[i])
    BY <1>3 DEF DerivedInv
  <2>3. \A n \in 0..Len(slab.record) : n # k => Reach(slab, n) # slab.length
    <3> HIDE DEF k
    <3> TAKE n \in 0..Len(slab.record)
    <3>1. CASE n < k
      BY <1>1, <2>1, <2>2, <3>1, ReachGrows DEF DROP_RECORD_LEN
    <3>2. CASE k < n
      BY <1>1, <2>1, <2>2, <3>2, ReachGrows DEF DROP_RECORD_LEN
    <3>. QED
      BY <1>1, <2>1, <3>1, <3>2
  <2>4. Counts(slab) = {k}
    <3> HIDE DEF k
    <3>. QED
      BY <2>1, <2>2, <2>3 DEF Counts
  <2> HIDE DEF counts
  <2>. QED
    BY <1>2, <1>3, <2>4 DEF DropCountDerived, counts
<1>4. CASE status \in ErrorKinds
  <2>1. Counts(slab) = {} /\ status # "open"
    BY <1>4 DEF DerivedInv, ErrorKinds
  <2>. QED
    BY <1>2, <2>1 DEF DropCountDerived
<1>5. status \in {"header", "records"} => DropCountDerived
  BY DEF DropCountDerived
<1>. QED
  BY <1>3, <1>4, <1>5 DEF IInv, TypeOK

\* The number of records is derived, and derived rightly: parse_slab opens a slab
\* exactly when some number of valid records leaves the bytes they claim, no other
\* number does, and it has read that many.
THEOREM DropCountIsDerived == Spec => []DropCountDerived
<1>1. IInv /\ DerivedInv => DropCountDerived
  BY DerivedCount
<1>. QED
  BY <1>1, DerivedInvariance, PTL

-----------------------------------------------------------------------------
\* What a writer makes.

\* The size of the window when k drops have been placed.
Placed(drops, k) == Sum(SubSeq(SizesOf(drops), 1, k))

LEMMA StoredTyped ==
    ASSUME NEW d \in Drop
    PROVE  /\ Stored(d) \in Nat
           /\ d.codec = CODEC_LZ4 => Stored(d) >= LZ4_SIZE_PREFIX
           /\ d.codec = CODEC_STORE => Stored(d) = d.plaintext_len
<1>1. /\ d.plaintext_len \in Nat /\ d.block \in Nat /\ d.codec \in {CODEC_STORE, CODEC_LZ4}
  BY LimitsAssumption DEF Drop
<1>. QED
  BY <1>1 DEF Stored, CompressedLen, CODEC_STORE, CODEC_LZ4, LZ4_SIZE_PREFIX

LEMMA PlacedSteps ==
    ASSUME NEW drops \in Seq(Drop)
    PROVE  /\ Placed(drops, 0) = 0
           /\ Placed(drops, Len(drops)) = Sum(SizesOf(drops))
           /\ \A k \in 1..Len(drops) :
                 /\ Placed(drops, k) = Placed(drops, k - 1) + Stored(drops[k])
                 /\ Stored(drops[k]) \in Nat
<1> DEFINE Z == SizesOf(drops)
           n == Len(drops)
<1>1. n \in Nat /\ Z = [i \in 1..n |-> Stored(drops[i])]
  BY DEF SizesOf
<1>2. \A i \in 1..n : Stored(drops[i]) \in Nat
  BY StoredTyped
<1>3. Z \in Seq(Nat) /\ Len(Z) = n /\ \A i \in 1..n : Z[i] = Stored(drops[i])
  BY <1>1, <1>2
<1> HIDE DEF Z, n
<1>4. \A k \in 0..n : /\ DOMAIN SubSeq(Z, 1, k) = 1..k
                      /\ \A i \in 1..k : SubSeq(Z, 1, k)[i] = Z[i]
  BY <1>1, <1>3
<1>5. Placed(drops, 0) = 0
  <2>1. DOMAIN SubSeq(Z, 1, 0) = 1..0
    BY <1>1, <1>4
  <2>. QED
    BY <2>1, SumEmpty DEF Placed, Z
<1>6. Placed(drops, n) = Sum(Z)
  <2>1. SubSeq(Z, 1, n) = Z
    BY <1>1, <1>3
  <2>. QED
    BY <2>1 DEF Placed, Z
<1>7. ASSUME NEW k \in 1..n
      PROVE  Placed(drops, k) = Placed(drops, k - 1) + Stored(drops[k])
  <2>1. k - 1 \in Nat /\ k - 1 \in 0..n /\ k \in 0..n /\ (k - 1) + 1 = k
    BY <1>1
  <2>2. PICK short : short = SubSeq(Z, 1, k - 1)
    OBVIOUS
  <2>3. PICK long : long = SubSeq(Z, 1, k)
    OBVIOUS
  <2>4. /\ DOMAIN short = 1..(k - 1) /\ DOMAIN long = 1..((k - 1) + 1)
        /\ \A i \in 1..(k - 1) : short[i] = long[i]
    BY <1>4, <2>1, <2>2, <2>3
  <2>5. Sum(long) = Sum(short) + long[(k - 1) + 1]
    BY <2>1, <2>4, SumMore
  <2>6. long[(k - 1) + 1] = Stored(drops[k])
    BY <1>3, <1>4, <2>1, <2>3
  <2>. QED
    BY <2>2, <2>3, <2>5, <2>6 DEF Placed, Z
<1>. QED
  BY <1>2, <1>5, <1>6, <1>7 DEF Z, n

\* A drop ends where a later one starts, or before.
LEMMA PlacedGrows ==
    ASSUME NEW drops \in Seq(Drop), NEW j \in 0..Len(drops), NEW k \in 0..Len(drops), j <= k
    PROVE  /\ Placed(drops, j) \in Nat /\ Placed(drops, k) \in Nat
           /\ Placed(drops, j) <= Placed(drops, k)
<1> DEFINE Bad == {l \in 0..k : \/ Placed(drops, l) \notin Nat
                                \/ j <= l /\ ~(Placed(drops, j) <= Placed(drops, l))}
<1>0. Len(drops) \in Nat
  OBVIOUS
<1>1. Bad = {}
  <2> SUFFICES ASSUME Bad # {}
               PROVE  FALSE
    OBVIOUS
  <2>1. PICK l \in Bad : \A m \in Bad : l <= m
    <3>1. Bad \subseteq Nat
      OBVIOUS
    <3>. QED
      BY <3>1, LeastNatural
  <2>2. \A m \in 0..k : m < l => m \notin Bad
    BY <1>0, <2>1
  <2>3. CASE l = 0
    <3>1. Placed(drops, 0) = 0
      BY PlacedSteps
    <3>2. j <= 0 => j = 0
      BY <1>0
    <3>. QED
      BY <2>1, <2>3, <3>1, <3>2
  <2>4. CASE l # 0
    <3>1. l - 1 \in 0..k /\ l - 1 < l /\ l \in 1..Len(drops)
      BY <1>0, <2>1, <2>4
    <3>2. /\ Placed(drops, l - 1) \in Nat
          /\ j <= l - 1 => Placed(drops, j) <= Placed(drops, l - 1)
      BY <2>2, <3>1
    <3>3. /\ Placed(drops, l) = Placed(drops, l - 1) + Stored(drops[l])
          /\ Stored(drops[l]) \in Nat
      BY <3>1, PlacedSteps
    <3>4. Placed(drops, l) \in Nat /\ Placed(drops, l - 1) <= Placed(drops, l)
      BY <3>2, <3>3
    <3>5. CASE j <= l - 1
      <4>1. Placed(drops, j) \in Nat
        <5>1. j \in 0..k /\ j < l
          BY <1>0, <3>1, <3>5
        <5>. QED
          BY <2>2, <5>1
      <4>. QED
        BY <2>1, <3>2, <3>4, <3>5, <4>1
    <3>6. CASE ~(j <= l - 1)
      <4>1. j <= l => j = l
        BY <1>0, <3>1, <3>6
      <4>. QED
        BY <2>1, <3>4, <4>1
    <3>. QED
      BY <3>5, <3>6
  <2>. QED
    BY <2>3, <2>4
<1>2. j \in 0..k /\ k \in 0..k
  BY <1>0
<1>. QED
  BY <1>1, <1>2

\* A written slab is laid out, and holds the records it was given.
LEMMA WrittenSlab ==
    ASSUME NEW drops \in DropLists, NEW s, s = MakeSlab(drops), SlabImage(s),
           NEW n, n = Len(drops)
    PROVE  /\ drops \in Seq(Drop)
           /\ n \in 0..Len(s.record)
           /\ \A i \in 1..n : s.record[i] = RecordFor(drops, i)
           /\ s.length = SLAB_HEADER_LEN + n * DROP_RECORD_LEN + Placed(drops, n)
           /\ WellFormedHeader(s)
           /\ LaidOut(s, n)
<1>1. drops \in Seq(Drop) /\ s.length <= DEFAULT_SLAB_MAX_BYTES
  BY DropListsAssumption
<1>2. n \in Nat /\ DOMAIN drops = 1..n
  BY <1>1
<1>3. /\ Placed(drops, 0) = 0
      /\ Placed(drops, n) = Sum(SizesOf(drops))
      /\ \A k \in 1..n : /\ Placed(drops, k) = Placed(drops, k - 1) + Stored(drops[k])
                         /\ Stored(drops[k]) \in Nat
  BY <1>1, PlacedSteps
<1>4. \A k \in 0..n : Placed(drops, k) \in Nat
  <2> TAKE k \in 0..n
  <2>1. k \in 0..Len(drops) /\ k <= k
    BY <1>2
  <2>. QED
    BY <1>1, <2>1, PlacedGrows
<1> DEFINE window == Sum(SizesOf(drops))
           m == window \div DROP_RECORD_LEN
           f == [i \in 1..n |-> RecordFor(drops, i)]
           g == [i \in 1..m |-> WindowPiece(drops)]
<1>5. /\ s.length = SLAB_HEADER_LEN + n * DROP_RECORD_LEN + window
      /\ s.total_length = s.length
      /\ s.magic = SLAB_MAGIC /\ s.format_version = SLAB_FORMAT_VERSION
      /\ s.ec_descriptor = 0 /\ s.crypto_hint = 0
      /\ s.record = f \o g
  BY DEF MakeSlab
<1>6. m \in Nat /\ window \in Nat
  BY <1>2, <1>3, <1>4 DEF DROP_RECORD_LEN
<1>7. n \in 0..Len(s.record) /\ \A i \in 1..n : s.record[i] = RecordFor(drops, i)
  <2> DEFINE R == {RecordFor(drops, i) : i \in 1..n} \cup {WindowPiece(drops)}
  <2>1. f \in Seq(R) /\ Len(f) = n /\ g \in Seq(R) /\ Len(g) = m
    BY <1>2, <1>6
  <2>2. \A i \in 1..n : f[i] = RecordFor(drops, i)
    OBVIOUS
  <2> HIDE DEF f, g, m, R
  <2>3. Len(f \o g) = n + m /\ \A i \in 1..n : (f \o g)[i] = f[i]
    BY <1>2, <1>6, <2>1
  <2>. QED
    BY <1>2, <1>5, <1>6, <2>2, <2>3
<1> HIDE DEF f, g, m, window
<1>8. WellFormedHeader(s)
  <2>1. s.length >= SLAB_HEADER_LEN
    BY <1>2, <1>5, <1>6 DEF SLAB_HEADER_LEN, DROP_RECORD_LEN
  <2>. QED
    BY <1>1, <1>5, <2>1 DEF WellFormedHeader, EXTENDED
<1>9. ASSUME NEW i \in 1..n
      PROVE  /\ s.record[i].offset_in_window = Placed(drops, i - 1)
             /\ WindowEnd(s.record[i]) = Placed(drops, i)
             /\ ValidRecord(s, s.record[i])
  <2>1. s.record[i] = RecordFor(drops, i)
    BY <1>7
  <2>2. /\ s.record[i].offset_in_window = Placed(drops, i - 1)
        /\ s.record[i].len_in_window = Stored(drops[i])
        /\ s.record[i].plaintext_len = drops[i].plaintext_len
        /\ s.record[i].representation.aead = 0
        /\ s.record[i].representation.ec = 0
    BY <2>1 DEF RecordFor, offset_in_window, Placed
  <2>3. drops[i] \in Drop
    BY <1>1
  <2>4. drops[i].plaintext_len <= DEFAULT_DROP_MAX_PLAINTEXT_BYTES
    BY <2>3, LimitsAssumption DEF Drop
  <2>. QED
    BY <1>3, <2>2, <2>4 DEF WindowEnd, ValidRecord
<1>10. LaidOut(s, n)
  <2>1. \A i \in 1..n : ValidRecord(s, s.record[i])
    BY <1>9
  <2>2. n > 0 => s.record[1].offset_in_window = 0
    <3> SUFFICES ASSUME n > 0
                 PROVE  s.record[1].offset_in_window = 0
      OBVIOUS
    <3>1. 1 \in 1..n /\ 1 - 1 = 0
      BY <1>2
    <3>. QED
      BY <1>3, <1>9, <3>1
  <2>3. ASSUME NEW i \in 1..n, i > 1
        PROVE  s.record[i].offset_in_window = WindowEnd(s.record[i - 1])
    <3>1. i - 1 \in 1..n
      BY <1>2, <2>3
    <3>. QED
      BY <1>9, <3>1
  <2>4. s.length = SLAB_HEADER_LEN + n * DROP_RECORD_LEN
                     + (IF n = 0 THEN 0 ELSE WindowEnd(s.record[n]))
    <3>1. n # 0 => WindowEnd(s.record[n]) = Placed(drops, n)
      <4>1. n # 0 => n \in 1..n
        BY <1>2
      <4>. QED
        BY <1>9, <4>1
    <3>. QED
      BY <1>3, <1>5, <3>1 DEF window
  <2>. QED
    BY <1>2, <1>7, <2>1, <2>2, <2>3, <2>4 DEF LaidOut
<1>. QED
  BY <1>1, <1>3, <1>5, <1>7, <1>8, <1>10 DEF window

\* Where drop i of the list starts in the slab written for it.
StartOf(drops, i) == SLAB_HEADER_LEN + Len(drops) * DROP_RECORD_LEN + Placed(drops, i - 1)

LEMMA WrittenBlocks ==
    ASSUME NEW drops
    PROVE  MakeSlab(drops).lz4 =
             {[start |-> StartOf(drops, i), end |-> StartOf(drops, i) + Stored(drops[i]),
               len |-> drops[i].plaintext_len] :
                 i \in {j \in 1..Len(drops) : drops[j].codec = CODEC_LZ4}}
BY DEF MakeSlab, StartOf, Placed, offset_in_window

LEMMA StartTyped ==
    ASSUME NEW drops \in Seq(Drop), NEW i \in 1..Len(drops)
    PROVE  StartOf(drops, i) \in Nat /\ Stored(drops[i]) \in Nat
<1>1. i - 1 \in 0..Len(drops) /\ i - 1 <= i - 1 /\ Len(drops) \in Nat
  OBVIOUS
<1>2. Placed(drops, i - 1) \in Nat
  BY <1>1, PlacedGrows
<1>3. Stored(drops[i]) \in Nat
  BY PlacedSteps
<1>. QED
  BY <1>1, <1>2, <1>3 DEF StartOf, SLAB_HEADER_LEN, DROP_RECORD_LEN

\* No two compressed drops start at one place, because each has a size prefix.
LEMMA StartsDiffer ==
    ASSUME NEW drops \in Seq(Drop), NEW i \in 1..Len(drops), NEW j \in 1..Len(drops), i < j,
           drops[i].codec = CODEC_LZ4
    PROVE  StartOf(drops, i) < StartOf(drops, j)
<1>1. /\ i \in 0..Len(drops) /\ j - 1 \in 0..Len(drops) /\ i <= j - 1 /\ Len(drops) \in Nat
      /\ i - 1 \in 0..Len(drops) /\ i - 1 <= i
  OBVIOUS
<1>2. Placed(drops, i - 1) \in Nat /\ Placed(drops, i) \in Nat
  BY <1>1, PlacedGrows
<1>3. Placed(drops, j - 1) \in Nat /\ Placed(drops, i) <= Placed(drops, j - 1)
  BY <1>1, PlacedGrows
<1>4. Placed(drops, i) = Placed(drops, i - 1) + Stored(drops[i])
  BY PlacedSteps
<1>5. Stored(drops[i]) \in Nat /\ Stored(drops[i]) >= 4
  <2>1. drops[i] \in Drop
    OBVIOUS
  <2>. QED
    BY <2>1, StoredTyped DEF LZ4_SIZE_PREFIX
<1>6. Placed(drops, i - 1) < Placed(drops, j - 1)
  BY <1>2, <1>3, <1>4, <1>5
<1>. QED
  BY <1>1, <1>2, <1>3, <1>6 DEF StartOf, SLAB_HEADER_LEN, DROP_RECORD_LEN

\* What decompress makes of the place of a written drop: its plaintext.
LEMMA WrittenDropDecompresses ==
    ASSUME NEW drops \in Seq(Drop), NEW i \in 1..Len(drops)
    PROVE  Decompress(drops[i].codec, StartOf(drops, i), StartOf(drops, i) + Stored(drops[i]),
                      drops[i].plaintext_len, MakeSlab(drops).lz4) = {"plaintext"}
<1> DEFINE d == drops[i]
           start == StartOf(drops, i)
           end == start + Stored(d)
           blocks == MakeSlab(drops).lz4
           known == {b \in blocks : b.start = start /\ b.end = end}
<1>1. d \in Drop /\ d.codec \in {CODEC_STORE, CODEC_LZ4}
  <2>1. d \in Drop
    OBVIOUS
  <2> HIDE DEF d
  <2>. QED
    BY <2>1 DEF Drop
<1>2. start \in Nat /\ Stored(d) \in Nat /\ end - start = Stored(d)
  <2>1. start \in Nat /\ Stored(d) \in Nat
    BY StartTyped
  <2> HIDE DEF start, d
  <2>. QED
    BY <2>1
<1>3. CASE d.codec = CODEC_STORE
  <2>1. Stored(d) = d.plaintext_len
    BY <1>1, <1>3, StoredTyped
  <2> HIDE DEF start, end, d, blocks
  <2>2. Decompress(d.codec, start, end, d.plaintext_len, blocks) = {"plaintext"}
    BY <1>2, <1>3, <2>1 DEF Decompress, CODEC_STORE, CODEC_LZ4
  <2>. QED
    BY <2>2 DEF start, end, d, blocks
<1>4. CASE d.codec = CODEC_LZ4
  <2>1. ASSUME NEW b \in known
        PROVE  b.len = d.plaintext_len
    <3>1. b \in blocks /\ b.start = start
      OBVIOUS
    <3>2. PICK j \in 1..Len(drops) :
            /\ drops[j].codec = CODEC_LZ4
            /\ b.start = StartOf(drops, j) /\ b.len = drops[j].plaintext_len
      BY <3>1, WrittenBlocks
    <3>3. StartOf(drops, j) = start /\ StartOf(drops, j) \in Nat
      BY <3>1, <3>2, StartTyped
    <3>4. ~(i < j)
      <4>1. i < j => start < StartOf(drops, j)
        BY <1>4, StartsDiffer
      <4> HIDE DEF start
      <4>. QED
        BY <1>2, <3>3, <4>1
    <3>5. ~(j < i)
      <4>1. j < i => StartOf(drops, j) < start
        BY <3>2, StartsDiffer
      <4> HIDE DEF start
      <4>. QED
        BY <1>2, <3>3, <4>1
    <3>6. i = j
      BY <3>4, <3>5
    <3>. QED
      BY <3>2, <3>6
  <2>2. known # {}
    <3>1. [start |-> start, end |-> end, len |-> d.plaintext_len] \in blocks
      BY <1>4, WrittenBlocks
    <3>. QED
      BY <3>1
  <2>3. Stored(d) >= LZ4_SIZE_PREFIX
    BY <1>1, <1>4, StoredTyped
  <2>4. Decompress(d.codec, start, end, d.plaintext_len, blocks)
          = Lz4Outcomes(start, end, d.plaintext_len, blocks)
    <3> HIDE DEF start, end, d, blocks
    <3>1. ~(end - start < LZ4_SIZE_PREFIX)
      BY <1>2, <2>3 DEF LZ4_SIZE_PREFIX
    <3>. QED
      BY <1>4, <3>1 DEF Decompress, CODEC_STORE, CODEC_LZ4
  <2>5. Lz4Outcomes(start, end, d.plaintext_len, blocks)
          = {IF b.len = d.plaintext_len THEN "plaintext" ELSE "Corrupt" : b \in known}
    <3> HIDE DEF start, end, d, blocks
    <3>. QED
      BY <2>2 DEF Lz4Outcomes
  <2>6. {IF b.len = d.plaintext_len THEN "plaintext" ELSE "Corrupt" : b \in known} = {"plaintext"}
    <3> HIDE DEF known
    <3>. QED
      BY <2>1, <2>2
  <2>. QED
    BY <2>4, <2>5, <2>6
<1>. QED
  BY <1>1, <1>3, <1>4

-----------------------------------------------------------------------------
\* The answer is that of plaintext_for for its id: of the first record with the
\* id, or "missing" because there is none.
AnsweredInv ==
    answer.kind # "none" =>
        \/ /\ answer.kind = "missing"
           /\ \A i \in DOMAIN drop_records : drop_records[i].drop_id # answer.id
        \/ \E i \in DOMAIN drop_records :
              /\ IsFirstRecord(i, answer.id)
              /\ answer.kind \in Answers(drop_records[i])
              /\ answer.start = Start(drop_records[i])
              /\ answer.end = End(drop_records[i])
              /\ answer.len = drop_records[i].plaintext_len

LEMMA StepAnswered == IInv /\ AnsweredInv /\ [Next]_vars => AnsweredInv'
<1> SUFFICES ASSUME IInv, AnsweredInv, [Next]_vars
             PROVE  AnsweredInv'
  OBVIOUS
<1>1. ASSUME NEW id \in DropIds, PlaintextFor(id)
      PROVE  AnsweredInv'
  <2>1. UNCHANGED <<slab, status, position, window_len_sum, drop_records>>
    BY <1>1 DEF PlaintextFor
  <2>2. CASE /\ \A i \in DOMAIN drop_records : drop_records[i].drop_id # id
             /\ answer' = [kind |-> "missing", id |-> id]
    <3>1. answer'.kind = "missing" /\ answer'.id = id
      BY <2>2
    <3>. QED
      BY <2>1, <2>2, <3>1 DEF AnsweredInv
  <2>3. ASSUME NEW i \in DOMAIN drop_records, IsFirstRecord(i, id),
               NEW kind \in Answers(drop_records[i]),
               answer' = [kind |-> kind, id |-> id, record |-> i,
                          start |-> Start(drop_records[i]), end |-> End(drop_records[i]),
                          len |-> drop_records[i].plaintext_len]
        PROVE  AnsweredInv'
    <3>1. /\ answer'.kind = kind /\ answer'.id = id
          /\ answer'.start = Start(drop_records[i]) /\ answer'.end = End(drop_records[i])
          /\ answer'.len = drop_records[i].plaintext_len
      BY <2>3
    <3>2. /\ IsFirstRecord(i, id)' /\ Start(drop_records[i])' = Start(drop_records[i])
          /\ End(drop_records[i])' = End(drop_records[i])
          /\ Answers(drop_records[i])' = Answers(drop_records[i])
      BY <2>1, <2>3 DEF IsFirstRecord, Start, End, solid_window_start, Answers, ReadChecks
    <3>. QED
      BY <2>1, <2>3, <3>1, <3>2 DEF AnsweredInv, IsFirstRecord
  <2>. QED
    BY <1>1, <2>2, <2>3 DEF PlaintextFor
<1>2. CASE UNCHANGED vars
  <2>1. /\ answer' = answer /\ drop_records' = drop_records /\ slab' = slab /\ position' = position
    BY <1>2 DEF vars
  <2>. QED
    BY <2>1 DEF AnsweredInv, IsFirstRecord, Start, End, solid_window_start, Answers, ReadChecks
<1>3. CASE ParseStep
  <2>1. status \in {"header", "records"} /\ answer' = answer
    BY <1>3 DEF ParseStep, RejectHeader, RejectLength, ParseHeader, WindowReached,
                OverranWindow, TrailingBytes, RejectRecord, ParseRecord, Raise
  <2>2. answer.kind = "none"
    BY <2>1 DEF IInv, AnswerInv
  <2>. QED
    BY <2>1, <2>2 DEF AnsweredInv
<1>. QED
  BY <1>1, <1>2, <1>3 DEF Next, Failed

LEMMA AnsweredInvariance == Spec => []AnsweredInv
<1>1. Init => AnsweredInv
  BY DEF Init, AnsweredInv, NoAnswer
<1>. QED
  BY <1>1, StepAnswered, Invariance, PTL DEF Spec

\* A record that was read is the one the writer made for its drop, and what it
\* answers is the plaintext.
LEMMA WrittenRecordAnswers ==
    ASSUME IInv, status = "open", NEW drops \in DropLists, slab = MakeSlab(drops),
           Len(drop_records) = Len(drops), NEW i \in 1..Len(drops)
    PROVE  /\ drop_records[i] = RecordFor(drops, i)
           /\ Start(drop_records[i]) = StartOf(drops, i)
           /\ End(drop_records[i]) = StartOf(drops, i) + Stored(drops[i])
           /\ Answers(drop_records[i]) = {"plaintext"}
<1> DEFINE n == Len(drops)
           r == drop_records[i]
<1>1. SlabImage(slab)
  BY DEF IInv, TypeOK
<1>2. /\ drops \in Seq(Drop) /\ n \in 0..Len(slab.record)
      /\ \A j \in 1..n : slab.record[j] = RecordFor(drops, j)
      /\ slab.length = SLAB_HEADER_LEN + n * DROP_RECORD_LEN + Placed(drops, n)
  BY <1>1, WrittenSlab
<1>3. n \in Nat /\ i \in 1..n /\ slab.record \in Seq(DropRecord)
  BY <1>1, <1>2 DEF SlabImage
<1>4. /\ position = SLAB_HEADER_LEN + DROP_RECORD_LEN * n
      /\ drop_records = SubSeq(slab.record, 1, n)
  BY DEF IInv, LoopInv
<1>5. r = slab.record[i]
  BY <1>2, <1>3, <1>4
<1>6. r = RecordFor(drops, i)
  BY <1>2, <1>5
<1>7. /\ r.offset_in_window = Placed(drops, i - 1) /\ r.len_in_window = Stored(drops[i])
      /\ r.plaintext_len = drops[i].plaintext_len /\ r.solid_window_index = 0
      /\ r.representation.codec = drops[i].codec /\ r.representation.aead = 0
  BY <1>6 DEF RecordFor, offset_in_window, Placed
<1>8. Start(r) = StartOf(drops, i) /\ End(r) = StartOf(drops, i) + Stored(drops[i])
  <2>1. SLAB_HEADER_LEN + DROP_RECORD_LEN * n = SLAB_HEADER_LEN + n * DROP_RECORD_LEN
    BY <1>3 DEF SLAB_HEADER_LEN, DROP_RECORD_LEN
  <2>. QED
    BY <1>4, <1>7, <2>1 DEF Start, End, StartOf, solid_window_start
<1>9. End(r) <= slab.length
  <2>1. i \in 0..n /\ n \in 0..n /\ i <= n /\ i - 1 \in 0..n /\ i - 1 <= i
    BY <1>3
  <2>2. Placed(drops, i) \in Nat /\ Placed(drops, n) \in Nat /\ Placed(drops, i) <= Placed(drops, n)
    BY <1>2, <2>1, PlacedGrows
  <2>3. Placed(drops, i - 1) \in Nat
    BY <1>2, <2>1, PlacedGrows
  <2>4. Placed(drops, i) = Placed(drops, i - 1) + Stored(drops[i]) /\ Stored(drops[i]) \in Nat
    BY <1>2, PlacedSteps
  <2>. QED
    BY <1>2, <1>3, <1>8, <2>2, <2>3, <2>4 DEF StartOf, SLAB_HEADER_LEN, DROP_RECORD_LEN
<1>10. Answers(r) = {"plaintext"}
  <2>1. ReadChecks(r) = <<"ok", "ok", "ok">>
    BY <1>7, <1>9 DEF ReadChecks, Check
  <2>2. Passes(ReadChecks(r))
    BY <2>1 DEF Passes
  <2>3. Decompress(drops[i].codec, StartOf(drops, i), StartOf(drops, i) + Stored(drops[i]),
                   drops[i].plaintext_len, slab.lz4) = {"plaintext"}
    BY <1>2, WrittenDropDecompresses
  <2> HIDE DEF r
  <2>. QED
    BY <1>7, <1>8, <2>2, <2>3 DEF Answers
<1>. QED
  BY <1>6, <1>8, <1>10

LEMMA WrittenSlabRead == ASSUME IInv, LaidOutInv, AnsweredInv PROVE WrittenSlabReadsBack
<1> SUFFICES ASSUME NEW w \in Written, w.slab = slab
             PROVE  /\ status \notin ErrorKinds
                    /\ status = "open" => Len(drop_records) = Len(w.drops)
                    /\ answer.kind # "none" =>
                         LET drops == w.drops
                             places == {i \in DOMAIN drops : drops[i].drop_id = answer.id}
                         IN  IF places = {} THEN answer.kind = "missing"
                             ELSE LET i == Min(places)
                                      start == slab.length - Sum(SizesOf(drops))
                                                 + offset_in_window(drops, i)
                                  IN  /\ answer.kind = "plaintext"
                                      /\ answer.start = start
                                      /\ answer.end = start + Stored(drops[i])
                                      /\ answer.len = drops[i].plaintext_len
  BY DEF WrittenSlabReadsBack
<1>1. PICK drops \in DropLists : w.drops = drops /\ slab = MakeSlab(drops)
  BY DEF Written
<1> DEFINE n == Len(drops)
           places == {i \in DOMAIN drops : drops[i].drop_id = answer.id}
<1>2. /\ drops \in Seq(Drop) /\ n \in 0..Len(slab.record)
      /\ slab.length = SLAB_HEADER_LEN + n * DROP_RECORD_LEN + Placed(drops, n)
      /\ WellFormedHeader(slab) /\ LaidOut(slab, n)
  BY <1>1, WrittenSlab DEF IInv, TypeOK
<1>3. status \notin ErrorKinds /\ (status = "open" => Len(drop_records) = n)
  BY <1>2 DEF LaidOutInv
<1>4. ASSUME answer.kind # "none"
      PROVE  IF places = {} THEN answer.kind = "missing"
             ELSE LET i == Min(places)
                      start == slab.length - Sum(SizesOf(drops)) + offset_in_window(drops, i)
                  IN  /\ answer.kind = "plaintext"
                      /\ answer.start = start
                      /\ answer.end = start + Stored(drops[i])
                      /\ answer.len = drops[i].plaintext_len
  <2>1. status = "open" /\ Len(drop_records) = n /\ n \in Nat
    BY <1>2, <1>3, <1>4 DEF IInv, AnswerInv
  <2>2. DOMAIN drop_records = 1..n /\ DOMAIN drops = 1..n
    BY <1>2, <2>1 DEF IInv, TypeOK
  <2>3. ASSUME NEW i \in 1..n
        PROVE  /\ drop_records[i] = RecordFor(drops, i)
               /\ Start(drop_records[i]) = StartOf(drops, i)
               /\ End(drop_records[i]) = StartOf(drops, i) + Stored(drops[i])
               /\ Answers(drop_records[i]) = {"plaintext"}
    BY <1>1, <2>1, WrittenRecordAnswers
  <2>4. \A i \in 1..n : /\ drop_records[i].drop_id = drops[i].drop_id
                        /\ drop_records[i].plaintext_len = drops[i].plaintext_len
    <3> TAKE i \in 1..n
    <3>1. drop_records[i] = RecordFor(drops, i)
      BY <2>3
    <3>. QED
      BY <3>1 DEF RecordFor
  <2>5. CASE /\ answer.kind = "missing"
             /\ \A i \in DOMAIN drop_records : drop_records[i].drop_id # answer.id
    <3>1. places = {}
      BY <2>2, <2>4, <2>5
    <3>. QED
      BY <2>5, <3>1
  <2>6. ASSUME NEW i \in DOMAIN drop_records, IsFirstRecord(i, answer.id),
               answer.kind \in Answers(drop_records[i]),
               answer.start = Start(drop_records[i]), answer.end = End(drop_records[i]),
               answer.len = drop_records[i].plaintext_len
        PROVE  /\ places # {} /\ Min(places) = i
               /\ answer.kind = "plaintext"
               /\ answer.start = StartOf(drops, i)
               /\ answer.end = StartOf(drops, i) + Stored(drops[i])
               /\ answer.len = drops[i].plaintext_len
               /\ slab.length - Sum(SizesOf(drops)) + offset_in_window(drops, i) = StartOf(drops, i)
    <3>1. i \in 1..n
      BY <2>2
    <3>2. i \in places
      BY <2>2, <2>4, <2>6, <3>1 DEF IsFirstRecord
    <3>3. \A j \in places : i <= j
      <4> TAKE j \in places
      <4>1. j \in 1..n /\ drop_records[j].drop_id = answer.id
        BY <2>2, <2>4
      <4>2. ~(j < i)
        BY <2>2, <2>6, <4>1 DEF IsFirstRecord
      <4>. QED
        BY <3>1, <4>1, <4>2
    <3>4. Min(places) = i
      <4>1. places \subseteq Nat
        BY <2>2
      <4> HIDE DEF places
      <4>2. Min(places) \in places /\ \A y \in places : Min(places) <= y
        BY <3>2, <3>3, Zenon DEF Min
      <4>3. Min(places) \in Nat /\ Min(places) <= i /\ i <= Min(places) /\ i \in Nat
        BY <3>2, <3>3, <4>1, <4>2
      <4>. QED
        BY <4>3
    <3>5. answer.kind = "plaintext"
      BY <2>3, <2>6, <3>1
    <3>6. slab.length - Sum(SizesOf(drops)) + offset_in_window(drops, i) = StartOf(drops, i)
      <4>1. n \in 0..n /\ n <= n /\ i - 1 \in 0..n /\ i - 1 <= n
        BY <2>1, <3>1
      <4>2. Placed(drops, i - 1) \in Nat /\ Placed(drops, n) \in Nat
        BY <1>2, <4>1, PlacedGrows
      <4>3. Sum(SizesOf(drops)) = Placed(drops, n)
        BY <1>2, PlacedSteps
      <4>4. offset_in_window(drops, i) = Placed(drops, i - 1)
        BY DEF offset_in_window, Placed
      <4>. QED
        BY <1>2, <2>1, <4>2, <4>3, <4>4 DEF StartOf, SLAB_HEADER_LEN, DROP_RECORD_LEN
    <3>. QED
      BY <2>3, <2>4, <2>6, <3>1, <3>2, <3>4, <3>5, <3>6
  <2> HIDE DEF places
  <2>. QED
    BY <1>4, <2>5, <2>6 DEF AnsweredInv
<1>. QED
  BY <1>1, <1>3, <1>4

\* Whatever drops are written, stored or compressed, of any sizes within the limits
\* and under any ids: parse_slab opens the slab with all of them, and every lookup
\* answers with the plaintext of the first drop written under its id.
THEOREM WrittenSlabsReadBack == Spec => []WrittenSlabReadsBack
<1>1. IInv /\ LaidOutInv /\ AnsweredInv => WrittenSlabReadsBack
  BY WrittenSlabRead
<1>. QED
  BY <1>1, Invariance, LaidOutInvariance, AnsweredInvariance, PTL
=============================================================================
