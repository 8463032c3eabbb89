---------------------------- MODULE DeltaProofs ----------------------------
(***************************************************************************)
(* Proofs about parse_delta_linkage_section, for every buffer: what it     *)
(* returns, written again, is the bytes it read.                           *)
(***************************************************************************)
EXTENDS DeltaLinkage, BytesProofs

TreeOp == [kind : TreeOpKinds, path : Seq(U8Values), inode_number : Seq(U8Values)]

Encoded(ops) == [i \in DOMAIN ops |-> EncodeOp(ops[i])]

\* The head, for n ops on the image with this root.
HeadOf(root, n) == <<DELTA_LINKAGE_SECTION_VERSION>> \o root \o Pack32(n)

-----------------------------------------------------------------------------
\* The inductive invariant.

TypesOK ==
    /\ buf \in Seq(U8Values) /\ Len(buf) < TOO_LARGE
    /\ position \in 0..Len(buf)
    /\ status \in {"parsing", "parsed"} \cup ErrorKinds
    /\ step \in {"head", "ops"}
    /\ left \in Nat
    /\ base_root \in Seq(U8Values)
    /\ tree_ops \in Seq(TreeOp)

AtHead == step = "head" => position = 0 /\ tree_ops = <<>>

\* The ops read and those still announced are the count of the head.
ReadSoFar ==
    step = "ops" =>
        /\ Len(tree_ops) + left < TOO_LARGE
        /\ SubSeq(buf, 1, position)
             = HeadOf(base_root, Len(tree_ops) + left) \o FlattenSeq(Encoded(tree_ops))

OpsValid == \A i \in DOMAIN tree_ops : ValidOp(tree_ops[i])

AtEnd == status = "parsed" => step = "ops" /\ left = 0

IInv == TypesOK /\ AtHead /\ ReadSoFar /\ OpsValid /\ AtEnd

-----------------------------------------------------------------------------
\* The lists of checks.

LEMMA HeadPassed ==
    ASSUME CursorOK, Passes(DeltaHeadChecks)
    PROVE  /\ U8(0) = DELTA_LINKAGE_SECTION_VERSION
           /\ position + 37 <= Len(buf)
           /\ U32(33) * MIN_TREE_OP_LEN <= remaining_len - 37
<1> DEFINE C == DeltaHeadChecks
<1>1. /\ DOMAIN C = 1..4
      /\ C[2] = Check(U8(0) = DELTA_LINKAGE_SECTION_VERSION, "Unsupported")
      /\ C[3] = Read(37)
      /\ C[4] = Check(remaining_len - 37 >= U32(33) * MIN_TREE_OP_LEN, "Truncated")
  BY DEF DeltaHeadChecks
<1> HIDE DEF C
<1>2. C[2] = "ok" /\ C[3] = "ok" /\ C[4] = "ok"
  BY <1>1 DEF Passes, C
<1>3. position + 37 <= Len(buf)
  BY <1>1, <1>2, ReadRow
<1>4. remaining_len \in Nat /\ U32(33) \in Nat
  BY ReadRow, U32Range
<1>. QED
  BY <1>1, <1>2, <1>3, <1>4 DEF Check, MIN_TREE_OP_LEN

LEMMA OpPassed ==
    ASSUME CursorOK, Passes(OpChecks)
    PROVE  /\ U8(0) \in TreeOpKinds
           /\ U32(1) \in Nat \ {0}
           /\ IsUtf8(path) /\ 0 \notin Range(path) /\ ~HasEmptyComponent(path)
           /\ InodeNumberLen \in {0, 8}
           /\ position + OpLen <= Len(buf)
<1> DEFINE C == OpChecks
<1>1. /\ DOMAIN C = 1..9
      /\ C[2] = Check(U8(0) \in TreeOpKinds, "Unsupported")
      /\ C[4] = Check(U32(1) # 0, "Corrupt")
      /\ C[6] = Check(IsUtf8(path), "Corrupt")
      /\ C[7] = Check(0 \notin Range(path), "Corrupt")
      /\ C[8] = Check(~HasEmptyComponent(path), "Corrupt")
      /\ C[9] = Read(OpLen)
  BY DEF OpChecks
<1> HIDE DEF C
<1>2. C[2] = "ok" /\ C[4] = "ok" /\ C[6] = "ok" /\ C[7] = "ok" /\ C[8] = "ok" /\ C[9] = "ok"
  BY <1>1 DEF Passes, C
<1>3. U32(1) \in Nat /\ InodeNumberLen \in {0, 8}
  BY U32Range DEF InodeNumberLen
<1>4. OpLen \in Int
  BY <1>3 DEF OpLen
<1>5. position + OpLen <= Len(buf)
  BY <1>1, <1>2, <1>4, ReadRow
<1>. QED
  BY <1>1, <1>2, <1>3, <1>5 DEF Check

-----------------------------------------------------------------------------
\* What is read, written again.

NextOp == [kind |-> U8(0), path |-> path, inode_number |-> Bytes(5 + U32(1), InodeNumberLen)]

LEMMA OpAgain ==
    ASSUME CursorOK, Len(buf) < TOO_LARGE, Passes(OpChecks)
    PROVE  /\ NextOp \in TreeOp
           /\ ValidOp(NextOp)
           /\ OpLen \in Nat
           /\ EncodeOp(NextOp) = Bytes(0, OpLen)
<1> DEFINE n == U32(1)
           w == InodeNumberLen
<1>1. /\ U8(0) \in TreeOpKinds /\ n \in Nat \ {0}
      /\ IsUtf8(path) /\ 0 \notin Range(path) /\ ~HasEmptyComponent(path)
      /\ w \in {0, 8} /\ position + OpLen <= Len(buf)
  BY OpPassed
<1>2. OpLen = 5 + n + w
  BY DEF OpLen
<1>3. position \in Nat /\ Len(buf) \in Nat
  BY DEF CursorOK
<1>4. path = Bytes(5, n)
  BY DEF path
<1>5. NextOp = [kind |-> U8(0), path |-> path, inode_number |-> Bytes(5 + n, w)]
  BY DEF NextOp
<1> HIDE DEF n, w
<1>6. path \in Seq(U8Values) /\ Len(path) = n
  BY <1>1, <1>2, <1>3, <1>4, BytesRead
<1>7. Bytes(5 + n, w) \in Seq(U8Values)
  BY <1>1, <1>2, <1>3, BytesRead
<1>8. NextOp \in TreeOp
  BY <1>1, <1>5, <1>6, <1>7 DEF TreeOp
<1>9. ValidOp(NextOp)
  <2>1. path # <<>>
    BY <1>1, <1>6
  <2>2. ASSUME NEW i \in 2..Len(path), {path[i - 1], path[i]} = {SLASH}
        PROVE  FALSE
    <3>1. path[i - 1] = SLASH /\ path[i] = SLASH
      BY <2>2, Zenon
    <3>2. i - 1 \in 1..(Len(path) - 1) /\ (i - 1) + 1 = i
      BY <1>6, <1>1
    <3>. QED
      BY <1>1, <3>1, <3>2 DEF HasEmptyComponent
  <2>. QED
    BY <1>1, <1>5, <2>1, <2>2 DEF ValidOp
<1>10. EncodeOp(NextOp) = Bytes(0, OpLen)
  <2>0. /\ w \in Nat /\ 5 + n \in Nat
        /\ position + 1 + 4 <= Len(buf) /\ position + 5 + n <= Len(buf)
        /\ position + (5 + n) + w <= Len(buf)
    BY <1>1, <1>2, <1>3
  <2>1. <<U8(0)>> = Bytes(0, 1)
    BY <1>1, <1>2, <1>3, ByteAgain
  <2>2. n < TOO_LARGE
    BY <1>1, <1>2, <1>3 DEF TOO_LARGE
  <2>3. Pack32(Len(path)) = Bytes(1, 4)
    BY <1>1, <1>2, <1>3, <1>6, <2>2, U32Again DEF Pack32, n
  <2>4. Bytes(0, 1) \o Bytes(1, 4) = Bytes(0, 5)
    <3>1. Bytes(0, 1) \o Bytes(1, 4) = Bytes(0, 1 + 4)
      BY <1>1, <1>2, <2>0, BytesGrow
    <3>. QED
      BY <3>1
  <2>5. Bytes(0, 5) \o Bytes(5, n) = Bytes(0, 5 + n)
    <3>1. Bytes(0, 5) \o Bytes(5, n) = Bytes(0, 5 + n)
      BY <1>1, <1>2, <2>0, BytesGrow
    <3>. QED
      BY <3>1
  <2>6. Bytes(0, 5 + n) \o Bytes(5 + n, w) = Bytes(0, OpLen)
    <3>1. Bytes(0, 5 + n) \o Bytes(5 + n, w) = Bytes(0, (5 + n) + w)
      BY <1>1, <1>2, <2>0, BytesGrow
    <3>. QED
      BY <1>1, <1>2, <3>1
  <2>7. EncodeOp(NextOp) = <<U8(0)>> \o Pack32(Len(path)) \o path \o Bytes(5 + n, w)
    BY <1>5 DEF EncodeOp
  <2>. QED
    BY <1>4, <2>1, <2>3, <2>4, <2>5, <2>6, <2>7
<1>. QED
  BY <1>1, <1>2, <1>8, <1>9, <1>10

LEMMA Pack32Typed ==
    ASSUME NEW n \in Nat
    PROVE  Pack32(n) \in Seq(Nat)
BY PackedTyped DEF Pack32

LEMMA Pack32Bytes ==
    ASSUME NEW n \in Nat, n < TOO_LARGE
    PROVE  Pack32(n) \in Seq(U8Values)
<1> DEFINE a == n % 256
           b == (n \div 256) % 256
           c == n \div 65536
<1>1. n < 16777216
  BY DEF TOO_LARGE
<1>2. a \in 0..255 /\ b \in 0..255 /\ c \in 0..255
  <2>1. n % 256 \in 0..255
    OBVIOUS
  <2>2. n \div 256 \in Int
    OBVIOUS
  <2>3. (n \div 256) % 256 \in 0..255
    BY <2>2
  <2>4. n \div 65536 \in 0..255
    BY <1>1
  <2>. QED
    BY <2>1, <2>3, <2>4
<1> HIDE DEF a, b, c
<1>3. <<a, b, c, 0>> \in Seq(0..255)
  BY <1>2
<1>. QED
  BY <1>3 DEF Pack32, U8Values, a, b, c

\* One op more is its encoding more.
LEMMA EncodedAppend ==
    ASSUME NEW ops \in Seq(TreeOp), NEW op \in TreeOp
    PROVE  /\ Encoded(ops) \in Seq(Seq(Nat))
           /\ EncodeOp(op) \in Seq(Nat)
           /\ FlattenSeq(Encoded(Append(ops, op))) = FlattenSeq(Encoded(ops)) \o EncodeOp(op)
<1>1. ASSUME NEW o \in TreeOp
      PROVE  EncodeOp(o) \in Seq(Nat)
  <2>1. /\ o.kind \in Nat /\ o.path \in Seq(Nat) /\ o.inode_number \in Seq(Nat)
        /\ Len(o.path) \in Nat
    <3>1. o.kind \in 1..3 /\ o.path \in Seq(U8Values) /\ o.inode_number \in Seq(U8Values)
      BY DEF TreeOp, TreeOpKinds, ADD, REMOVE, REPLACE
    <3>2. U8Values \subseteq Nat
      BY DEF U8Values
    <3>3. \A s \in Seq(U8Values) : s \in Seq(Nat)
      BY <3>2, SeqMonotonic
    <3>. QED
      BY <3>1, <3>3
  <2>2. Pack32(Len(o.path)) \in Seq(Nat)
    BY <2>1, Pack32Typed
  <2>. QED
    BY <2>1, <2>2 DEF EncodeOp
<1>2. Encoded(ops) \in Seq(Seq(Nat))
  <2>1. Len(ops) \in Nat /\ DOMAIN ops = 1..Len(ops) /\ \A i \in 1..Len(ops) : ops[i] \in TreeOp
    OBVIOUS
  <2>2. \A i \in 1..Len(ops) : EncodeOp(ops[i]) \in Seq(Nat)
    BY <1>1, <2>1
  <2>. QED
    BY <2>1, <2>2 DEF Encoded
<1>3. Encoded(Append(ops, op)) = Append(Encoded(ops), EncodeOp(op))
  BY <1>1, <1>2 DEF Encoded
<1>. QED
  BY <1>1, <1>2, <1>3, FlattenAppend

-----------------------------------------------------------------------------
\* The invariant holds.

LEMMA Rows == DeltaHeadChecks \in Seq(Outcomes) /\ OpChecks \in Seq(Outcomes)
BY DEF DeltaHeadChecks, OpChecks, Outcomes, ErrorKinds, Read, Check

LEMMA InitInv == Init => IInv
<1> SUFFICES ASSUME Init
             PROVE  IInv
  OBVIOUS
<1>1. buf \in Seq(U8Values) /\ Len(buf) < TOO_LARGE /\ Len(buf) \in Nat
  BY BuffersAssumption DEF Init
<1>2. TypesOK
  BY <1>1 DEF Init, TypesOK
<1>. QED
  BY <1>2 DEF Init, IInv, AtHead, ReadSoFar, OpsValid, AtEnd

LEMMA StepInv == IInv /\ [Next]_vars => IInv'
<1> SUFFICES ASSUME IInv, [Next]_vars
             PROVE  IInv'
  OBVIOUS
<1>1. /\ CursorOK /\ Len(buf) < TOO_LARGE /\ buf \in Seq(U8Values)
      /\ position \in Nat /\ Len(buf) \in Nat /\ left \in Nat
      /\ tree_ops \in Seq(TreeOp) /\ Len(tree_ops) \in Nat
  BY DEF IInv, TypesOK, CursorOK
<1>2. CASE ReadDeltaHead
  <2>1. /\ step = "head" /\ status = "parsing" /\ Passes(DeltaHeadChecks)
        /\ position' = position + 37 /\ buf' = buf /\ status' = status
        /\ step' = "ops" /\ left' = U32(33) /\ base_root' = Bytes(1, 32) /\ tree_ops' = tree_ops
    BY <1>2 DEF ReadDeltaHead, Accept, At, Advance
  <2>2. position = 0 /\ tree_ops = <<>>
    BY <2>1 DEF IInv, AtHead
  <2>3. /\ U8(0) = DELTA_LINKAGE_SECTION_VERSION /\ 37 <= Len(buf)
        /\ U32(33) * MIN_TREE_OP_LEN <= remaining_len - 37
    BY <1>1, <2>1, <2>2, HeadPassed
  <2>4. U32(33) \in Nat /\ U32(33) < TOO_LARGE
    <3>1. U32(33) \in Nat
      BY <1>1, U32Range
    <3>2. remaining_len - 37 < TOO_LARGE
      BY <1>1, <2>2 DEF remaining_len, TOO_LARGE
    <3>. QED
      BY <1>1, <2>2, <2>3, <3>1, <3>2 DEF MIN_TREE_OP_LEN, remaining_len, TOO_LARGE
  <2>5. TypesOK'
    <3>1. Bytes(1, 32) \in Seq(U8Values)
      BY <1>1, <2>2, <2>3, BytesRead
    <3>. QED
      BY <1>1, <2>1, <2>2, <2>3, <2>4, <3>1 DEF IInv, TypesOK
  <2>6. SubSeq(buf, 1, 37) = <<U8(0)>> \o Bytes(1, 32) \o Pack32(U32(33))
    <3>0. /\ 0 + 0 + 1 <= Len(buf) /\ 0 + 1 + 32 <= Len(buf) /\ 0 + 33 + 4 <= Len(buf)
      BY <1>1, <2>3
    <3>1. <<U8(0)>> = Bytes(0, 1)
      BY <1>1, <2>2, <3>0, ByteAgain
    <3>2. Pack32(U32(33)) = Bytes(33, 4)
      BY <1>1, <2>2, <2>4, <3>0, U32Again DEF Pack32
    <3>3. Bytes(0, 1) \o Bytes(1, 32) = Bytes(0, 33)
      <4>1. Bytes(0, 1) \o Bytes(1, 32) = Bytes(0, 1 + 32)
        BY <1>1, <2>2, <3>0, BytesGrow
      <4>. QED
        BY <4>1
    <3>4. Bytes(0, 33) \o Bytes(33, 4) = Bytes(0, 37)
      <4>1. Bytes(0, 33) \o Bytes(33, 4) = Bytes(0, 33 + 4)
        BY <1>1, <2>2, <3>0, BytesGrow
      <4>. QED
        BY <4>1
    <3>5. Bytes(0, 37) = SubSeq(buf, 1, 37)
      BY <1>1, <2>2, <2>3 DEF Bytes, remaining_len
    <3>. QED
      BY <3>1, <3>2, <3>3, <3>4, <3>5
  <2>7. ReadSoFar'
    <3> DEFINE head == <<U8(0)>> \o Bytes(1, 32) \o Pack32(U32(33))
    <3>1. Len(tree_ops') + left' = U32(33) /\ position' = 37
      BY <2>1, <2>2, <2>4
    <3>2. HeadOf(base_root', U32(33)) = head
      BY <2>1, <2>3 DEF HeadOf
    <3>4. FlattenSeq(Encoded(tree_ops')) = <<>>
      BY <2>1, <2>2, FlattenEmpty DEF Encoded
    <3>5. head = SubSeq(buf, 1, 37) /\ head \in Seq(U8Values)
      <4>1. head = SubSeq(buf, 1, 37)
        BY <2>6
      <4>2. SubSeq(buf, 1, 37) \in Seq(U8Values)
        <5>1. \A i \in 1..37 : buf[i] \in U8Values
          BY <1>1, <2>3
        <5>. QED
          BY <5>1, SubSeqProperties
      <4>. QED
        BY <4>1, <4>2
    <3> HIDE DEF head
    <3>6. head \o <<>> = head
      BY <3>5, ConcatEmptySeq
    <3>. QED
      BY <2>1, <2>4, <3>1, <3>2, <3>4, <3>5, <3>6 DEF ReadSoFar
  <2>8. AtHead' /\ OpsValid' /\ AtEnd'
    BY <2>1, <2>2 DEF AtHead, OpsValid, AtEnd
  <2>. QED
    BY <2>5, <2>7, <2>8 DEF IInv
<1>3. CASE ReadOp
  <2> DEFINE op == NextOp
             all == Encoded(tree_ops)
             so_far == SubSeq(buf, 1, position)
  <2>1. /\ step = "ops" /\ status = "parsing" /\ left > 0 /\ Passes(OpChecks)
        /\ position' = position + OpLen /\ buf' = buf /\ status' = status
        /\ step' = step /\ left' = left - 1 /\ base_root' = base_root
        /\ tree_ops' = Append(tree_ops, op)
    BY <1>3, Zenon DEF ReadOp, Accept, At, Advance, Turned, MoreItems, NextOp
  <2>2. op \in TreeOp /\ ValidOp(op) /\ OpLen \in Nat /\ EncodeOp(op) = Bytes(0, OpLen)
    BY <1>1, <2>1, OpAgain
  <2>3. position + OpLen <= Len(buf)
    BY <1>1, <2>1, OpPassed
  <2>4. /\ Len(tree_ops) + left < TOO_LARGE
        /\ so_far = HeadOf(base_root, Len(tree_ops) + left) \o FlattenSeq(all)
    BY <2>1 DEF IInv, ReadSoFar
  <2> HIDE DEF op
  <2>5. Len(tree_ops') = Len(tree_ops) + 1 /\ tree_ops' \in Seq(TreeOp)
    BY <1>1, <2>1, <2>2
  <2>6. TypesOK'
    BY <1>1, <2>1, <2>2, <2>3, <2>5 DEF IInv, TypesOK
  <2>7. ReadSoFar'
    <3> DEFINE n == Len(tree_ops) + left
               head == HeadOf(base_root, n)
    <3>1. Len(tree_ops') + left' = n
      BY <1>1, <2>1, <2>5
    <3>2. SubSeq(buf, 1, position + OpLen) = so_far \o Bytes(0, OpLen)
      BY <1>1, <2>2, <2>3, NextBytes
    <3>3. /\ all \in Seq(Seq(Nat)) /\ EncodeOp(op) \in Seq(Nat)
          /\ FlattenSeq(Encoded(tree_ops')) = FlattenSeq(all) \o EncodeOp(op)
      BY <1>1, <2>1, <2>2, EncodedAppend
    <3>4. FlattenSeq(all) \in Seq(Nat)
      BY <3>3, FlattenTyped
    <3>5. head \in Seq(Nat)
      <4>1. n \in Nat
        BY <1>1
      <4>2. Pack32(n) \in Seq(Nat)
        BY <4>1, Pack32Typed
      <4>3. base_root \in Seq(Nat)
        <5>1. U8Values \subseteq Nat /\ base_root \in Seq(U8Values)
          BY DEF U8Values, IInv, TypesOK
        <5>. QED
          BY <5>1, SeqMonotonic
      <4> HIDE DEF n
      <4>. QED
        BY <4>2, <4>3 DEF HeadOf, DELTA_LINKAGE_SECTION_VERSION
    <3> HIDE DEF head, all, n
    <3>6. (head \o FlattenSeq(all)) \o EncodeOp(op) = head \o (FlattenSeq(all) \o EncodeOp(op))
      <4>1. \A s, t, u \in Seq(Nat) : (s \o t) \o u = s \o (t \o u)
        BY ConcatAssociative
      <4>. QED
        BY <3>3, <3>4, <3>5, <4>1
    <3>7. SubSeq(buf, 1, position + OpLen) = head \o FlattenSeq(Encoded(tree_ops'))
      BY <2>2, <2>4, <3>2, <3>3, <3>6 DEF head, n
    <3>. QED
      BY <2>1, <2>4, <3>1, <3>7 DEF ReadSoFar, head, n
  <2>8. OpsValid'
    <3>1. \A i \in 1..Len(tree_ops) : tree_ops'[i] = tree_ops[i]
      BY <1>1, <2>1
    <3>2. tree_ops'[Len(tree_ops) + 1] = op
      BY <1>1, <2>1
    <3>3. DOMAIN tree_ops' = 1..(Len(tree_ops) + 1)
      BY <2>5
    <3>. QED
      BY <1>1, <2>2, <3>1, <3>2, <3>3 DEF IInv, OpsValid
  <2>9. AtHead' /\ AtEnd'
    BY <2>1 DEF AtHead, AtEnd
  <2>. QED
    BY <2>6, <2>7, <2>8, <2>9 DEF IInv
<1>4. CASE DeltaParsed
  BY <1>4 DEF DeltaParsed, At, MoreItems, IInv, TypesOK, AtHead, ReadSoFar, OpsValid, AtEnd
<1>5. CASE RejectDelta
  <2>1. /\ status' \in ErrorKinds /\ UNCHANGED <<buf, position, step, left, base_root, tree_ops>>
    BY <1>5, Rows, FirstFailureIsFirst DEF RejectDelta, Reject
  <2>. QED
    BY <2>1 DEF IInv, TypesOK, AtHead, ReadSoFar, OpsValid, AtEnd, ErrorKinds
<1>6. CASE UNCHANGED vars
  BY <1>6 DEF vars, IInv, TypesOK, AtHead, ReadSoFar, OpsValid, AtEnd
<1>. QED
  BY <1>2, <1>3, <1>4, <1>5, <1>6 DEF Next, Step, Finished

-----------------------------------------------------------------------------
\* The results.

LEMMA Invariance == Spec => []IInv
<1>. QED
  BY InitInv, StepInv, PTL DEF Spec

\* For every buffer: a delta linkage that is returned has only ops this version
\* knows, on paths it allows, and written again it is the bytes that were read,
\* so no two sections are taken for one delta linkage.
THEOREM ParsedIsWhatWasRead == Spec => []OnlyValidDeltasParsed
<1>1. IInv => OnlyValidDeltasParsed
  <2> SUFFICES ASSUME IInv, status = "parsed"
               PROVE  /\ \A i \in DOMAIN tree_ops : ValidOp(tree_ops[i])
                      /\ SubSeq(buf, 1, position)
                           = EncodeDelta([base_root |-> base_root, tree_ops |-> tree_ops])
    BY DEF OnlyValidDeltasParsed
  <2>1. Len(tree_ops) + left = Len(tree_ops) /\ step = "ops"
    BY DEF IInv, TypesOK, AtEnd
  <2>2. SubSeq(buf, 1, position) = HeadOf(base_root, Len(tree_ops)) \o FlattenSeq(Encoded(tree_ops))
    BY <2>1 DEF IInv, ReadSoFar
  <2>. QED
    BY <2>2 DEF IInv, OpsValid, HeadOf, Encoded, EncodeDelta
<1>. QED
  BY <1>1, Invariance, PTL

-----------------------------------------------------------------------------
\* A delta linkage that was written, met by the parser.

\* The ops DeltasAssumption speaks of, when they are valid.
Writable(op) ==
    /\ op \in TreeOp
    /\ ValidOp(op)
    /\ Len(op.path) < TOO_LARGE
    /\ Len(op.inode_number) = IF has_inode_number(op.kind) THEN 8 ELSE 0

\* Where the parts of an op of this kind, path and inode number lie.
Layout(e, kind, p, q) ==
    /\ e \in Seq(U8Values)
    /\ Len(e) = 5 + Len(p) + Len(q)
    /\ e[1] = kind
    /\ e[2] = Len(p) % 256
    /\ e[3] = (Len(p) \div 256) % 256
    /\ e[4] = Len(p) \div 65536
    /\ e[5] = 0
    /\ \A j \in 1..Len(p) : e[5 + j] = p[j]
    /\ \A j \in 1..Len(q) : e[5 + Len(p) + j] = q[j]

LEMMA OpLayout ==
    ASSUME NEW kind \in U8Values, NEW p \in Seq(U8Values), NEW q \in Seq(U8Values),
           Len(p) < TOO_LARGE
    PROVE  Layout(<<kind>> \o Pack32(Len(p)) \o p \o q, kind, p, q)
<1> DEFINE s == <<kind>>
           t == Pack32(Len(p))
           a == s \o t
           e == a \o p \o q
<1>1. s \in Seq(U8Values) /\ Len(s) = 1 /\ s[1] = kind
  OBVIOUS
<1>2. t \in Seq(U8Values) /\ Len(p) \in Nat /\ Len(q) \in Nat
  BY Pack32Bytes
<1>3. /\ Len(t) = 4
      /\ t[1] = Len(p) % 256 /\ t[2] = (Len(p) \div 256) % 256 /\ t[3] = Len(p) \div 65536
      /\ t[4] = 0
  BY DEF Pack32
<1> HIDE DEF s, t
<1>4. a \in Seq(U8Values) /\ Joined(s, t, a)
  BY <1>1, <1>2, TwoParts, Zenon
<1>5. /\ Len(a) = 5
      /\ a[1] = kind /\ a[1 + 1] = t[1] /\ a[1 + 2] = t[2] /\ a[1 + 3] = t[3] /\ a[1 + 4] = t[4]
  <2> HIDE DEF a
  <2>1. Len(a) = 5 /\ (\A j \in 1..1 : a[j] = s[j]) /\ \A j \in 1..4 : a[1 + j] = t[j]
    BY <1>1, <1>3, <1>4 DEF Joined
  <2>2. 1 \in 1..1 /\ 1 \in 1..4 /\ 2 \in 1..4 /\ 3 \in 1..4 /\ 4 \in 1..4
    OBVIOUS
  <2>. QED
    BY <1>1, <2>1, <2>2
<1> HIDE DEF a
<1>5a. e \in Seq(U8Values) /\ JoinedThree(a, p, q, e)
  BY <1>4, ThreeParts, Zenon
<1> HIDE DEF e
<1>6. /\ e \in Seq(U8Values) /\ Len(e) = Len(a) + Len(p) + Len(q)
      /\ \A j \in 1..Len(a) : e[j] = a[j]
      /\ \A j \in 1..Len(p) : e[Len(a) + j] = p[j]
      /\ \A j \in 1..Len(q) : e[Len(a) + Len(p) + j] = q[j]
  BY <1>5a DEF JoinedThree
<1>7. e[1] = a[1] /\ e[2] = a[2] /\ e[3] = a[3] /\ e[4] = a[4] /\ e[5] = a[5]
  BY <1>5, <1>6
<1>8. Layout(e, kind, p, q)
  BY <1>2, <1>3, <1>5, <1>6, <1>7 DEF Layout
<1>. QED
  BY <1>8 DEF e, a, s, t

\* What the parser reads of it, as far as the buffer goes.
LEMMA LayoutRead ==
    ASSUME CursorOK, NEW e, NEW kind \in U8Values, NEW p \in Seq(U8Values), NEW q \in Seq(U8Values),
           Layout(e, kind, p, q), LiesHere(e)
    PROVE  /\ remaining_len >= 1 => U8(0) = kind
           /\ remaining_len >= 5 => U32(1) = Len(p)
           /\ remaining_len >= 5 + Len(p) => Bytes(5, Len(p)) = p
           /\ remaining_len >= 5 + Len(p) + Len(q) => Bytes(5 + Len(p), Len(q)) = q
<1>1. /\ remaining_len \in Nat /\ Len(p) \in Nat /\ Len(q) \in Nat
      /\ e \in Seq(U8Values) /\ Len(e) = 5 + Len(p) + Len(q)
  <2>1. remaining_len \in Nat
    BY DEF CursorOK, remaining_len
  <2>2. Len(p) \in Nat /\ Len(q) \in Nat
    OBVIOUS
  <2>. QED
    BY <2>1, <2>2 DEF Layout
<1>2. \A j \in 1..5 : j <= remaining_len => U8(j - 1) = e[j]
  BY <1>1 DEF LiesHere
<1>3. remaining_len >= 1 => U8(0) = kind
  BY <1>1, <1>2 DEF Layout
<1>4. ASSUME remaining_len >= 5
      PROVE  U32(1) = Len(p)
  <2>1. U8(1) = e[2] /\ U8(2) = e[3] /\ U8(3) = e[4] /\ U8(4) = e[5]
    BY <1>1, <1>2, <1>4
  <2>2. /\ U8(1) = Len(p) % 256 /\ U8(1 + 1) = (Len(p) \div 256) % 256
        /\ U8(1 + 2) = Len(p) \div 65536 /\ U8(1 + 3) = 0
    BY <2>1 DEF Layout
  <2>. QED
    BY <1>1, <2>2, U32Unpacked DEF PackedAt
<1>5. ASSUME remaining_len >= 5 + Len(p)
      PROVE  Bytes(5, Len(p)) = p
  <2>1. \A j \in 1..Len(p) : e[5 + j] = p[j]
    BY DEF Layout
  <2>2. 5 + Len(p) <= Len(e) /\ 5 + Len(p) <= remaining_len /\ 5 \in Nat
    BY <1>1, <1>5
  <2>. QED
    BY <1>1, <2>1, <2>2, HerePart
<1>6. ASSUME remaining_len >= 5 + Len(p) + Len(q)
      PROVE  Bytes(5 + Len(p), Len(q)) = q
  <2> DEFINE o == 5 + Len(p)
  <2>1. \A j \in 1..Len(q) : e[o + j] = q[j]
    BY DEF Layout
  <2>2. o + Len(q) <= Len(e) /\ o + Len(q) <= remaining_len /\ o \in Nat
    BY <1>1, <1>6
  <2> HIDE DEF o
  <2>3. Bytes(o, Len(q)) = q
    BY <1>1, <2>1, <2>2, HerePart
  <2>. QED
    BY <2>3 DEF o
<1>. QED
  BY <1>3, <1>4, <1>5, <1>6

LEMMA OpFollows ==
    ASSUME CursorOK, NEW op, Writable(op), LiesHere(EncodeOp(op))
    PROVE  /\ EncodeOp(op) \in Seq(U8Values)
           /\ Passes(OpChecks) => NextOp = op /\ OpLen = Len(EncodeOp(op))
           /\ ~Passes(OpChecks) => /\ FirstFailure(OpChecks) = "Truncated"
                                   /\ remaining_len < Len(EncodeOp(op))
<1> DEFINE e == EncodeOp(op)
           L == Len(op.path)
           W == Len(op.inode_number)
           C == OpChecks
<1>1. /\ op.kind \in TreeOpKinds /\ op.kind \in U8Values
      /\ op.path \in Seq(U8Values) /\ op.inode_number \in Seq(U8Values)
      /\ L < TOO_LARGE /\ W = IF has_inode_number(op.kind) THEN 8 ELSE 0
  BY DEF Writable, TreeOp, TreeOpKinds, ADD, REMOVE, REPLACE, U8Values
<1>2. L \in Nat /\ W \in Nat /\ L # 0 /\ remaining_len \in Nat
  BY <1>1 DEF Writable, ValidOp, CursorOK, remaining_len
<1>3. IsUtf8(op.path) /\ 0 \notin Range(op.path) /\ ~HasEmptyComponent(op.path)
  <2>1. ASSUME NEW i \in 1..(Len(op.path) - 1), op.path[i] = SLASH, op.path[i + 1] = SLASH
        PROVE  FALSE
    <3>1. i + 1 \in 2..Len(op.path) /\ (i + 1) - 1 = i
      BY <1>2
    <3>2. {op.path[(i + 1) - 1], op.path[i + 1]} = {SLASH}
      BY <2>1, <3>1
    <3>. QED
      BY <3>1, <3>2 DEF Writable, ValidOp
  <2>. QED
    BY <2>1 DEF Writable, ValidOp, HasEmptyComponent
<1>4. Layout(e, op.kind, op.path, op.inode_number)
  <2>1. e = <<op.kind>> \o Pack32(Len(op.path)) \o op.path \o op.inode_number
    BY DEF EncodeOp
  <2>. QED
    BY <1>1, <2>1, OpLayout
<1>5. e \in Seq(U8Values) /\ Len(e) = 5 + L + W
  BY <1>4 DEF Layout
<1> HIDE DEF e
<1>6. /\ remaining_len >= 1 => U8(0) = op.kind
      /\ remaining_len >= 5 => U32(1) = L
      /\ remaining_len >= 5 + L => Bytes(5, L) = op.path
      /\ remaining_len >= 5 + L + W => Bytes(5 + L, W) = op.inode_number
  <2>1. LiesHere(e)
    BY DEF e
  <2>. QED
    <3>1. PICK k, p, q : k = op.kind /\ p = op.path /\ q = op.inode_number
      OBVIOUS
    <3>2. k \in U8Values /\ p \in Seq(U8Values) /\ q \in Seq(U8Values) /\ Layout(e, k, p, q)
      BY <1>1, <1>4, <3>1
    <3>3. /\ remaining_len >= 1 => U8(0) = k
          /\ remaining_len >= 5 => U32(1) = Len(p)
          /\ remaining_len >= 5 + Len(p) => Bytes(5, Len(p)) = p
          /\ remaining_len >= 5 + Len(p) + Len(q) => Bytes(5 + Len(p), Len(q)) = q
      BY <2>1, <3>2, LayoutRead
    <3>. QED
      BY <3>1, <3>3
<1> HIDE DEF L, W
<1>7. remaining_len >= 1 => InodeNumberLen = W
  BY <1>1, <1>6 DEF InodeNumberLen
<1>8. remaining_len >= 5 => OpLen = 5 + L + W
  BY <1>2, <1>6, <1>7 DEF OpLen
<1>9. remaining_len >= 5 + L => path = op.path
  BY <1>2, <1>6 DEF path
<1>10. ASSUME Passes(C)
       PROVE  NextOp = op /\ OpLen = Len(e)
  <2>1. remaining_len >= 5 + L + W
    <3>1. position + OpLen <= Len(buf) /\ U32(1) \in Nat /\ InodeNumberLen \in {0, 8}
      BY <1>10, OpPassed
    <3>2. OpLen \in Nat /\ OpLen >= 5 /\ remaining_len >= OpLen
      BY <3>1 DEF OpLen, remaining_len, CursorOK
    <3>. QED
      BY <1>2, <1>8, <3>2
  <2>2. U8(0) = op.kind /\ U32(1) = L /\ path = op.path /\ InodeNumberLen = W
    BY <1>2, <1>6, <1>7, <1>9, <2>1
  <2>3. NextOp = [kind |-> op.kind, path |-> op.path, inode_number |-> op.inode_number]
    BY <1>2, <1>6, <2>1, <2>2 DEF NextOp
  <2>4. op = [kind |-> op.kind, path |-> op.path, inode_number |-> op.inode_number]
    BY DEF Writable, TreeOp
  <2>5. OpLen = Len(e)
    BY <1>2, <1>5, <1>8, <2>1
  <2>. QED
    BY <2>3, <2>4, <2>5
<1>11. ASSUME ~Passes(C)
       PROVE  FirstFailure(C) = "Truncated" /\ remaining_len < Len(e)
  <2>1. PICK i \in DOMAIN C : /\ FirstFailure(C) = C[i] /\ C[i] \in ErrorKinds
                              /\ \A j \in DOMAIN C : j < i => C[j] = "ok"
    BY <1>11, Rows, FirstFailureIsFirst
  <2>2. /\ DOMAIN C = 1..9
        /\ C[1] = Read(1) /\ C[2] = Check(U8(0) \in TreeOpKinds, "Unsupported")
        /\ C[3] = Read(5) /\ C[4] = Check(U32(1) # 0, "Corrupt")
        /\ C[5] = Read(5 + U32(1))
        /\ C[6] = Check(IsUtf8(path), "Corrupt") /\ C[7] = Check(0 \notin Range(path), "Corrupt")
        /\ C[8] = Check(~HasEmptyComponent(path), "Corrupt")
        /\ C[9] = Read(OpLen)
    BY DEF OpChecks
  <2> HIDE DEF C
  <2>3. C[i] # "ok" /\ \A j \in 1..9 : j < i => C[j] = "ok"
    BY <2>1, <2>2 DEF ErrorKinds
  <2>4. i > 1 => remaining_len >= 1
    BY <1>2, <2>2, <2>3 DEF Read, Check
  <2>5. i > 3 => remaining_len >= 5
    BY <1>2, <2>2, <2>3 DEF Read, Check
  <2>6. i > 5 => remaining_len >= 5 + L
    BY <1>2, <1>6, <2>2, <2>3, <2>5 DEF Read, Check
  <2>7. i \notin {2, 4, 6, 7, 8}
    BY <1>1, <1>2, <1>3, <1>6, <1>9, <2>2, <2>3, <2>4, <2>5, <2>6 DEF Check
  <2>8. CASE i = 1
    BY <1>2, <1>5, <2>1, <2>2, <2>3, <2>8 DEF Read, Check
  <2>9. CASE i = 3
    BY <1>2, <1>5, <2>1, <2>2, <2>3, <2>9 DEF Read, Check
  <2>10. CASE i = 5
    BY <1>2, <1>5, <1>6, <2>1, <2>2, <2>3, <2>5, <2>10 DEF Read, Check
  <2>11. CASE i = 9
    BY <1>2, <1>5, <1>8, <2>1, <2>2, <2>3, <2>5, <2>11 DEF Read, Check
  <2>. QED
    BY <2>1, <2>2, <2>7, <2>8, <2>9, <2>10, <2>11
<1>. QED
  BY <1>5, <1>10, <1>11 DEF e

HeadLaidOut(h, root, n) ==
    /\ h \in Seq(U8Values)
    /\ Len(h) = 37
    /\ h[1] = DELTA_LINKAGE_SECTION_VERSION
    /\ \A j \in 1..32 : h[1 + j] = root[j]
    /\ \A j \in 1..4 : h[33 + j] = Pack32(n)[j]

LEMMA HeadLayout ==
    ASSUME NEW root \in Seq(U8Values), Len(root) = 32, NEW n \in Nat, n < TOO_LARGE
    PROVE  HeadLaidOut(HeadOf(root, n), root, n)
<1> DEFINE s == <<DELTA_LINKAGE_SECTION_VERSION>>
           t == Pack32(n)
           h == s \o root \o t
<1>1. s \in Seq(U8Values) /\ Len(s) = 1 /\ s[1] = DELTA_LINKAGE_SECTION_VERSION
  BY DEF DELTA_LINKAGE_SECTION_VERSION, U8Values
<1>2. t \in Seq(U8Values) /\ Len(t) = 4
  BY Pack32Bytes DEF Pack32
<1> HIDE DEF s, t
<1>2a. h \in Seq(U8Values) /\ JoinedThree(s, root, t, h)
  BY <1>1, <1>2, ThreeParts, Zenon
<1> HIDE DEF h
<1>3. /\ h \in Seq(U8Values) /\ Len(h) = Len(s) + Len(root) + Len(t)
      /\ \A j \in 1..Len(s) : h[j] = s[j]
      /\ \A j \in 1..Len(root) : h[Len(s) + j] = root[j]
      /\ \A j \in 1..Len(t) : h[Len(s) + Len(root) + j] = t[j]
  BY <1>2a DEF JoinedThree
<1>4. h \in Seq(U8Values) /\ Len(h) = 37 /\ h[1] = s[1]
  BY <1>1, <1>2, <1>3
<1>5. \A j \in 1..32 : h[1 + j] = root[j]
  BY <1>1, <1>3
<1>6. \A j \in 1..4 : h[33 + j] = t[j]
  <2>1. Len(s) + Len(root) = 33 /\ 1..Len(t) = 1..4
    BY <1>1, <1>2
  <2>. QED
    BY <1>3, <2>1
<1>7. HeadOf(root, n) = h
  BY DEF HeadOf, h, s, t
<1>. QED
  BY <1>1, <1>4, <1>5, <1>6, <1>7 DEF HeadLaidOut, t

\* The head of a section of this size is read, or the buffer is shorter.
LEMMA HeadFollows ==
    ASSUME CursorOK, NEW root \in Seq(U8Values), Len(root) = 32, NEW n \in Nat, n < TOO_LARGE,
           LiesHere(HeadOf(root, n)), NEW size \in Nat, 37 + MIN_TREE_OP_LEN * n <= size
    PROVE  /\ Passes(DeltaHeadChecks) => U32(33) = n /\ Bytes(1, 32) = root
           /\ ~Passes(DeltaHeadChecks) => /\ FirstFailure(DeltaHeadChecks) = "Truncated"
                                          /\ remaining_len < size
<1> DEFINE h == HeadOf(root, n)
           C == DeltaHeadChecks
<1>1. /\ h \in Seq(U8Values) /\ Len(h) = 37 /\ h[1] = DELTA_LINKAGE_SECTION_VERSION
      /\ \A j \in 1..32 : h[1 + j] = root[j]
      /\ \A j \in 1..4 : h[33 + j] = Pack32(n)[j]
      /\ LiesHere(h)
  <2>1. HeadLaidOut(h, root, n)
    BY HeadLayout
  <2>. QED
    BY <2>1 DEF HeadLaidOut
<1> HIDE DEF h
<1>2. remaining_len \in Nat
  BY DEF CursorOK, remaining_len
<1>3. \A j \in 1..37 : j <= remaining_len => U8(j - 1) = h[j]
  BY <1>1 DEF LiesHere
<1>4. remaining_len >= 1 => U8(0) = DELTA_LINKAGE_SECTION_VERSION
  BY <1>1, <1>2, <1>3
<1>5. ASSUME remaining_len >= 37
      PROVE  U32(33) = n /\ Bytes(1, 32) = root
  <2>1. h[34] = Pack32(n)[1] /\ h[35] = Pack32(n)[2] /\ h[36] = Pack32(n)[3] /\ h[37] = Pack32(n)[4]
    <3>1. 1 \in 1..4 /\ 2 \in 1..4 /\ 3 \in 1..4 /\ 4 \in 1..4
      OBVIOUS
    <3>. QED
      BY <1>1, <3>1
  <2>2. U8(33) = h[34] /\ U8(34) = h[35] /\ U8(35) = h[36] /\ U8(36) = h[37]
    BY <1>2, <1>3, <1>5
  <2>3. PackedAt(33, n)
    BY <2>1, <2>2 DEF Pack32, PackedAt
  <2>4. U32(33) = n
    BY <2>3, U32Unpacked
  <2>5. Bytes(1, Len(root)) = root
    <3>1. 1 + Len(root) <= Len(h) /\ 1 + Len(root) <= remaining_len /\ 1 \in Nat
      BY <1>1, <1>2, <1>5
    <3>2. \A j \in 1..Len(root) : h[1 + j] = root[j]
      BY <1>1
    <3>. QED
      BY <1>1, <3>1, <3>2, HerePart
  <2>. QED
    BY <2>4, <2>5
<1>6. /\ DOMAIN C = 1..4
      /\ C[1] = Read(1)
      /\ C[2] = Check(U8(0) = DELTA_LINKAGE_SECTION_VERSION, "Unsupported")
      /\ C[3] = Read(37)
      /\ C[4] = Check(remaining_len - 37 >= U32(33) * MIN_TREE_OP_LEN, "Truncated")
  BY DEF DeltaHeadChecks
<1>7. ASSUME Passes(C)
      PROVE  remaining_len >= 37
  BY <1>2, <1>6, <1>7 DEF Passes, Read, Check
<1>8. ASSUME ~Passes(C)
      PROVE  FirstFailure(C) = "Truncated" /\ remaining_len < size
  <2>1. PICK i \in DOMAIN C : /\ FirstFailure(C) = C[i] /\ C[i] \in ErrorKinds
                              /\ \A j \in DOMAIN C : j < i => C[j] = "ok"
    BY <1>8, Rows, FirstFailureIsFirst
  <2> HIDE DEF C
  <2>2. C[i] # "ok" /\ \A j \in 1..4 : j < i => C[j] = "ok"
    BY <1>6, <2>1 DEF ErrorKinds
  <2>3. i > 1 => remaining_len >= 1
    BY <1>2, <1>6, <2>2 DEF Read, Check
  <2>4. i > 3 => remaining_len >= 37
    BY <1>2, <1>6, <2>2 DEF Read, Check
  <2>5. 37 <= size
    BY DEF MIN_TREE_OP_LEN
  <2>6. CASE i = 1
    BY <1>2, <1>6, <2>1, <2>2, <2>5, <2>6 DEF Read, Check
  <2>7. i # 2
    BY <1>4, <1>6, <2>2, <2>3 DEF Check
  <2>8. CASE i = 3
    BY <1>2, <1>6, <2>1, <2>2, <2>5, <2>8 DEF Read, Check
  <2>9. CASE i = 4
    BY <1>2, <1>5, <1>6, <2>1, <2>2, <2>4, <2>9 DEF Check, MIN_TREE_OP_LEN
  <2>. QED
    BY <1>6, <2>1, <2>6, <2>7, <2>8, <2>9
<1>. QED
  BY <1>5, <1>7, <1>8

\* A valid delta linkage that is written.
Sound(d) == d \in Deltas /\ \A i \in DOMAIN d.tree_ops : ValidOp(d.tree_ops[i])

LEMMA SoundDelta ==
    ASSUME NEW d, Sound(d)
    PROVE  /\ d.base_root \in Seq(U8Values) /\ Len(d.base_root) = 32
           /\ d = [base_root |-> d.base_root, tree_ops |-> d.tree_ops]
           /\ d.tree_ops \in Seq(TreeOp) /\ Len(d.tree_ops) \in Nat /\ Len(d.tree_ops) < TOO_LARGE
           /\ \A i \in 1..Len(d.tree_ops) : Writable(d.tree_ops[i])
           /\ EncodeDelta(d) = HeadOf(d.base_root, Len(d.tree_ops)) \o FlattenSeq(Encoded(d.tree_ops))
<1> DEFINE ops == d.tree_ops
           Op == [kind : U8Values, path : Seq(U8Values), inode_number : Seq(U8Values)]
<1>1. /\ d \in [base_root : Seq(U8Values), tree_ops : Seq(Op)]
      /\ Len(d.base_root) = 32 /\ Len(ops) < TOO_LARGE
      /\ \A i \in DOMAIN ops :
           /\ Len(ops[i].path) < TOO_LARGE
           /\ Len(ops[i].inode_number) = IF has_inode_number(ops[i].kind) THEN 8 ELSE 0
  BY DeltasAssumption, Zenon DEF Sound
<1>2. /\ d.base_root \in Seq(U8Values) /\ ops \in Seq(Op)
      /\ d = [base_root |-> d.base_root, tree_ops |-> ops]
  BY <1>1
<1> HIDE DEF ops, Op
<1>3. DOMAIN ops = 1..Len(ops) /\ Len(ops) \in Nat /\ \A i \in 1..Len(ops) : ops[i] \in Op
  BY <1>2
<1>4. ASSUME NEW i \in 1..Len(ops)
      PROVE  Writable(ops[i])
  <2>1. PICK op : op = ops[i]
    OBVIOUS
  <2>2. /\ op \in Op /\ ValidOp(op) /\ Len(op.path) < TOO_LARGE
        /\ Len(op.inode_number) = IF has_inode_number(op.kind) THEN 8 ELSE 0
    BY <1>1, <1>3, <1>4, <2>1 DEF Sound, ops
  <2>3. op \in TreeOp
    BY <2>2 DEF ValidOp, TreeOp, Op
  <2>. QED
    BY <2>1, <2>2, <2>3 DEF Writable
<1>5. ops \in Seq(TreeOp)
  <2>1. \A i \in 1..Len(ops) : ops[i] \in TreeOp
    BY <1>4 DEF Writable
  <2>. QED
    BY <1>2, <2>1, SeqOfParts
<1>6. EncodeDelta(d) = HeadOf(d.base_root, Len(ops)) \o FlattenSeq(Encoded(ops))
  BY DEF EncodeDelta, HeadOf, Encoded, ops
<1>. QED
  BY <1>1, <1>2, <1>3, <1>4, <1>5, <1>6 DEF ops

LEMMA SoundEncoding ==
    ASSUME NEW d, Sound(d)
    PROVE  /\ HeadOf(d.base_root, Len(d.tree_ops)) \in Seq(Nat)
           /\ Len(HeadOf(d.base_root, Len(d.tree_ops))) = 37
           /\ Encoded(d.tree_ops) \in Seq(Seq(Nat))
           /\ Len(Encoded(d.tree_ops)) = Len(d.tree_ops)
           /\ \A i \in 1..Len(d.tree_ops) : Encoded(d.tree_ops)[i] = EncodeOp(d.tree_ops[i])
           /\ \A i \in 1..Len(d.tree_ops) :
                EncodeOp(d.tree_ops[i]) \in Seq(Nat) /\ Len(EncodeOp(d.tree_ops[i])) >= MIN_TREE_OP_LEN
<1> DEFINE ops == d.tree_ops
           h == HeadOf(d.base_root, Len(ops))
<1>1. /\ d.base_root \in Seq(U8Values) /\ Len(d.base_root) = 32
      /\ ops \in Seq(TreeOp) /\ Len(ops) \in Nat /\ Len(ops) < TOO_LARGE
      /\ \A i \in 1..Len(ops) : Writable(ops[i])
  BY SoundDelta
<1>2. HeadLaidOut(h, d.base_root, Len(ops))
  BY <1>1, HeadLayout
<1>3. \A s \in Seq(U8Values) : s \in Seq(Nat)
  <2>1. U8Values \subseteq Nat
    BY DEF U8Values
  <2>. QED
    BY <2>1, SeqMonotonic
<1>4. h \in Seq(Nat) /\ Len(h) = 37
  BY <1>2, <1>3 DEF HeadLaidOut
<1>5. ASSUME NEW i \in 1..Len(ops)
      PROVE  EncodeOp(ops[i]) \in Seq(Nat) /\ Len(EncodeOp(ops[i])) >= MIN_TREE_OP_LEN
  <2>1. PICK op : op = ops[i]
    OBVIOUS
  <2>2. PICK kind, p, q : kind = op.kind /\ p = op.path /\ q = op.inode_number
    OBVIOUS
  <2>3. /\ kind \in U8Values /\ p \in Seq(U8Values) /\ q \in Seq(U8Values)
        /\ Len(p) < TOO_LARGE /\ Len(p) \in Nat \ {0} /\ Len(q) \in Nat
    <3>1. Writable(op)
      BY <1>1, <2>1
    <3>2. kind \in U8Values /\ p \in Seq(U8Values) /\ q \in Seq(U8Values) /\ Len(p) < TOO_LARGE /\ p # <<>>
      BY <2>2, <3>1 DEF Writable, ValidOp, TreeOp, TreeOpKinds, ADD, REMOVE, REPLACE, U8Values
    <3>. QED
      BY <3>2
  <2>4. PICK e : e = <<kind>> \o Pack32(Len(p)) \o p \o q
    OBVIOUS
  <2>5. EncodeOp(op) = e
    BY <2>2, <2>4 DEF EncodeOp
  <2>6. Layout(e, kind, p, q)
    BY <2>3, <2>4, OpLayout
  <2>7. e \in Seq(U8Values) /\ Len(e) = 5 + Len(p) + Len(q)
    BY <2>6 DEF Layout
  <2>8. Len(e) >= MIN_TREE_OP_LEN /\ e \in Seq(Nat)
    BY <1>3, <2>3, <2>7 DEF MIN_TREE_OP_LEN
  <2>. QED
    BY <2>1, <2>5, <2>8
<1>6. /\ Encoded(ops) \in Seq(Seq(Nat)) /\ Len(Encoded(ops)) = Len(ops)
      /\ \A i \in 1..Len(ops) : Encoded(ops)[i] = EncodeOp(ops[i])
  <2> DEFINE E(i) == EncodeOp(ops[i])
  <2>1. DOMAIN ops = 1..Len(ops)
    BY <1>1
  <2>2. Encoded(ops) = [i \in 1..Len(ops) |-> E(i)]
    BY <2>1 DEF Encoded
  <2>3. \A i \in 1..Len(ops) : E(i) \in Seq(Nat)
    BY <1>5
  <2> HIDE DEF E
  <2>4. [i \in 1..Len(ops) |-> E(i)] \in Seq(Seq(Nat))
    BY <1>1, <2>3
  <2>5. Len([i \in 1..Len(ops) |-> E(i)]) = Len(ops)
    BY <1>1
  <2>. QED
    BY <2>2, <2>4, <2>5 DEF E
<1>. QED
  BY <1>4, <1>5, <1>6

LEMMA SoundLength ==
    ASSUME NEW d, Sound(d)
    PROVE  /\ EncodeDelta(d) \in Seq(Nat) /\ Len(EncodeDelta(d)) \in Nat
           /\ Len(EncodeDelta(d)) >= 37 + MIN_TREE_OP_LEN * Len(d.tree_ops)
           /\ \A j \in 1..37 : EncodeDelta(d)[j] = HeadOf(d.base_root, Len(d.tree_ops))[j]
<1> DEFINE ops == d.tree_ops
           h == HeadOf(d.base_root, Len(ops))
           all == Encoded(ops)
           f == FlattenSeq(all)
<1>1. h \in Seq(Nat) /\ Len(h) = 37 /\ all \in Seq(Seq(Nat)) /\ Len(all) = Len(ops) /\ Len(ops) \in Nat
  BY SoundEncoding, SoundDelta
<1>2. \A i \in 1..Len(all) : Len(all[i]) >= MIN_TREE_OP_LEN
  BY SoundEncoding
<1>3. EncodeDelta(d) = h \o f
  BY SoundDelta
<1> HIDE DEF ops, h, all
<1>4. MIN_TREE_OP_LEN \in Nat
  BY DEF MIN_TREE_OP_LEN
<1>5. Len(f) \in Nat /\ Len(f) >= MIN_TREE_OP_LEN * Len(all)
  BY <1>1, <1>2, <1>4, FlattenLong
<1>6. f \in Seq(Nat)
  BY <1>1, FlattenTyped
<1> HIDE DEF f
<1>7. h \o f \in Seq(Nat) /\ Joined(h, f, h \o f)
  BY <1>1, <1>6, TwoParts, Zenon
<1>8. /\ Len(h \o f) = Len(h) + Len(f)
      /\ \A j \in 1..Len(h) : (h \o f)[j] = h[j]
  BY <1>7 DEF Joined
<1>9. Len(h \o f) >= 37 + MIN_TREE_OP_LEN * Len(ops)
  BY <1>1, <1>5, <1>8 DEF MIN_TREE_OP_LEN
<1>10. \A j \in 1..37 : (h \o f)[j] = h[j]
  BY <1>1, <1>8
<1>11. EncodeDelta(d) \in Seq(Nat) /\ Len(EncodeDelta(d)) \in Nat
  BY <1>3, <1>7
<1>12. Len(EncodeDelta(d)) >= 37 + MIN_TREE_OP_LEN * Len(ops)
  BY <1>3, <1>9
<1>13. \A j \in 1..37 : EncodeDelta(d)[j] = h[j]
  BY <1>3, <1>10
<1>. QED
  BY <1>11, <1>12, <1>13, Zenon DEF ops, h

\* What is written up to the op after the first k, that op, and the rest.
LEMMA OpInPlace ==
    ASSUME NEW d, Sound(d), NEW k \in 0..(Len(d.tree_ops) - 1)
    PROVE  LET before == HeadOf(d.base_root, Len(d.tree_ops))
                           \o FlattenSeq(Encoded(SubSeq(d.tree_ops, 1, k)))
               e == EncodeOp(d.tree_ops[k + 1])
           IN  /\ before \in Seq(Nat) /\ e \in Seq(Nat)
               /\ \E rest \in Seq(Nat) : EncodeDelta(d) = before \o e \o rest
<1> DEFINE ops == d.tree_ops
           h == HeadOf(d.base_root, Len(ops))
           all == Encoded(ops)
           first == SubSeq(ops, 1, k)
           f == FlattenSeq(Encoded(first))
           e == EncodeOp(ops[k + 1])
<1>1. /\ h \in Seq(Nat) /\ all \in Seq(Seq(Nat)) /\ Len(all) = Len(ops) /\ Len(ops) \in Nat
      /\ ops \in Seq(TreeOp)
  BY SoundEncoding, SoundDelta
<1>2. EncodeDelta(d) = h \o FlattenSeq(all)
  BY SoundDelta
<1>3. all = [i \in DOMAIN ops |-> EncodeOp(ops[i])]
  BY DEF Encoded
<1> HIDE DEF h, ops
<1>4. k + 1 \in 1..Len(ops) /\ k \in Nat /\ k + 1 \in 0..Len(ops)
  BY <1>1 DEF ops
<1>5. /\ first \in Seq(TreeOp) /\ Len(first) = k /\ ops[k + 1] \in TreeOp
      /\ SubSeq(ops, 1, k + 1) = Append(first, ops[k + 1])
  BY <1>1, <1>4
<1>6. SubSeq(all, 1, k + 1) = Encoded(SubSeq(ops, 1, k + 1))
  <2> DEFINE s == SubSeq(ops, 1, k + 1)
             t == SubSeq(all, 1, k + 1)
  <2>1. DOMAIN s = 1..(k + 1) /\ \A i \in 1..(k + 1) : s[i] = ops[i]
    BY <1>1, <1>4
  <2>2. t = [i \in 1..(k + 1) |-> all[i]]
    <3>1. t \in Seq(Seq(Nat)) /\ Len(t) = k + 1 /\ \A i \in 1..(k + 1) : t[i] = all[i]
      BY <1>1, <1>4
    <3>2. t = [i \in 1..Len(t) |-> t[i]]
      BY <3>1
    <3>. QED
      BY <3>1, <3>2
  <2>3. \A i \in 1..(k + 1) : i \in DOMAIN ops /\ all[i] = EncodeOp(ops[i])
    BY <1>1, <1>3, <1>4
  <2> HIDE DEF s, t
  <2>4. Encoded(s) = [i \in 1..(k + 1) |-> EncodeOp(s[i])]
    BY <2>1 DEF Encoded
  <2>5. \A i \in 1..(k + 1) : EncodeOp(s[i]) = all[i]
    BY <2>1, <2>3
  <2>6. Encoded(s) = t
    BY <2>2, <2>4, <2>5
  <2>. QED
    BY <2>6 DEF s, t
<1>7. /\ Encoded(first) \in Seq(Seq(Nat)) /\ e \in Seq(Nat)
      /\ FlattenSeq(SubSeq(all, 1, k + 1)) = f \o e
  <2> HIDE DEF first
  <2>1. PICK op \in TreeOp : op = ops[k + 1]
    BY <1>5
  <2>2. /\ Encoded(first) \in Seq(Seq(Nat)) /\ EncodeOp(op) \in Seq(Nat)
        /\ FlattenSeq(Encoded(Append(first, op))) = FlattenSeq(Encoded(first)) \o EncodeOp(op)
    BY <1>5, EncodedAppend
  <2>. QED
    BY <1>5, <1>6, <2>1, <2>2
<1>8. f \in Seq(Nat)
  BY <1>7, FlattenTyped
<1>9. PICK rest \in Seq(Nat) : FlattenSeq(all) = FlattenSeq(SubSeq(all, 1, k + 1)) \o rest
  <2> HIDE DEF all
  <2>1. PICK m \in 0..Len(all) : m = k + 1
    BY <1>1, <1>4
  <2>2. \E rest \in Seq(Nat) : FlattenSeq(all) = FlattenSeq(SubSeq(all, 1, m)) \o rest
    BY <1>1, FlattenPrefix
  <2>. QED
    BY <2>1, <2>2
<1> HIDE DEF f, e, all
<1>10. \A x, y, z \in Seq(Nat) : (x \o y) \o z = x \o (y \o z)
  BY GroupedAtWill, Zenon
<1>11. \A x, y \in Seq(Nat) : x \o y \in Seq(Nat)
  BY TwoParts, Zenon
<1>12. h \o ((f \o e) \o rest) = (h \o f) \o e \o rest
  <2>1. f \o e \in Seq(Nat) /\ h \o f \in Seq(Nat)
    BY <1>1, <1>7, <1>8, <1>11, Zenon
  <2>2. h \o ((f \o e) \o rest) = (h \o (f \o e)) \o rest
    BY <1>1, <1>10, <2>1, Zenon
  <2>3. h \o (f \o e) = (h \o f) \o e
    BY <1>1, <1>7, <1>8, <1>10, Zenon
  <2>. QED
    BY <2>2, <2>3
<1>13. EncodeDelta(d) = (h \o f) \o e \o rest
  BY <1>2, <1>7, <1>9, <1>12
<1>14. h \o f \in Seq(Nat)
  BY <1>1, <1>8, <1>11, Zenon
<1>. QED
  BY <1>7, <1>13, <1>14 DEF h, f, e, ops

-----------------------------------------------------------------------------
\* The parser on a buffer that has, as far as it goes, what was written.

Meets(bytes) == \A j \in 1..Len(bytes) : j <= Len(buf) => buf[j] = bytes[j]

FollowsDelta(d) ==
    /\ status \in ErrorKinds => status = "Truncated" /\ Len(buf) < Len(EncodeDelta(d))
    /\ step = "ops" => /\ base_root = d.base_root
                       /\ Len(tree_ops) + left = Len(d.tree_ops)
                       /\ tree_ops = SubSeq(d.tree_ops, 1, Len(tree_ops))

\* With IInv, the invariant of the theorems about what was written.
Follows == \A d \in Deltas : Sound(d) /\ Meets(EncodeDelta(d)) => FollowsDelta(d)

LEMMA HeadIsHere ==
    ASSUME CursorOK, position = 0, NEW d, Sound(d), Meets(EncodeDelta(d))
    PROVE  LiesHere(HeadOf(d.base_root, Len(d.tree_ops)))
<1> DEFINE w == EncodeDelta(d)
           h == HeadOf(d.base_root, Len(d.tree_ops))
<1>1. /\ Len(h) = 37 /\ Len(w) \in Nat /\ Len(w) >= 37 + MIN_TREE_OP_LEN * Len(d.tree_ops)
      /\ Len(d.tree_ops) \in Nat
      /\ \A j \in 1..37 : w[j] = h[j]
  <2>1. Len(h) = 37 /\ Len(d.tree_ops) \in Nat
    BY SoundEncoding, SoundDelta
  <2>. QED
    BY <2>1, SoundLength
<1>2. \A j \in 1..Len(w) : j <= Len(buf) => buf[j] = w[j]
  BY DEF Meets
<1> HIDE DEF w, h
<1>3. Len(w) >= 37
  BY <1>1 DEF MIN_TREE_OP_LEN
<1>4. ASSUME NEW j \in 1..37, j <= Len(buf)
      PROVE  U8(j - 1) = h[j]
  <2>1. U8(j - 1) = buf[j]
    BY <1>4 DEF U8, CursorOK
  <2>2. j \in 1..Len(w) /\ w[j] = h[j]
    <3>1. Len(w) \in Nat /\ Len(w) >= 37
      BY <1>1, <1>3
    <3>2. w[j] = h[j]
      BY <1>1, Zenon
    <3>. QED
      BY <3>1, <3>2
  <2>. QED
    BY <1>2, <1>4, <2>1, <2>2
<1>5. remaining_len = Len(buf)
  BY DEF remaining_len, CursorOK
<1>6. LiesHere(h)
  BY <1>1, <1>4, <1>5 DEF LiesHere
<1>. QED
  BY <1>6 DEF h

LEMMA OpIsHere ==
    ASSUME CursorOK, NEW d, Sound(d), Meets(EncodeDelta(d)),
           NEW k \in 0..(Len(d.tree_ops) - 1),
           SubSeq(buf, 1, position)
             = HeadOf(d.base_root, Len(d.tree_ops)) \o FlattenSeq(Encoded(SubSeq(d.tree_ops, 1, k)))
    PROVE  /\ LiesHere(EncodeOp(d.tree_ops[k + 1]))
           /\ position + Len(EncodeOp(d.tree_ops[k + 1])) <= Len(EncodeDelta(d))
<1> DEFINE w == EncodeDelta(d)
           before == HeadOf(d.base_root, Len(d.tree_ops))
                       \o FlattenSeq(Encoded(SubSeq(d.tree_ops, 1, k)))
           e == EncodeOp(d.tree_ops[k + 1])
<1>1. before \in Seq(Nat) /\ e \in Seq(Nat) /\ \E rest \in Seq(Nat) : w = before \o e \o rest
  BY OpInPlace
<1>2. \A j \in 1..Len(w) : j <= Len(buf) => buf[j] = w[j]
  BY DEF Meets
<1>3. SubSeq(buf, 1, position) = before
  OBVIOUS
<1> HIDE DEF w, before, e
<1>4. PICK rest \in Seq(Nat) : w = before \o e \o rest
  BY <1>1
<1>5. JoinedThree(before, e, rest, w)
  BY <1>1, <1>4, ThreeParts, Zenon
<1>6. Len(before) = position
  BY <1>3 DEF CursorOK
<1>7. position \in Nat /\ Len(buf) \in Nat /\ Len(e) \in Nat /\ Len(rest) \in Nat
  BY <1>1 DEF CursorOK
<1>8. /\ Len(w) = position + Len(e) + Len(rest)
      /\ \A j \in 1..Len(e) : w[position + j] = e[j]
  BY <1>5, <1>6 DEF JoinedThree
<1>9. ASSUME NEW j \in 1..Len(e), j <= remaining_len
      PROVE  U8(j - 1) = e[j]
  <2>1. position + j \in 1..Len(w) /\ position + j <= Len(buf)
    BY <1>7, <1>8, <1>9 DEF remaining_len
  <2>2. U8(j - 1) = buf[position + j]
    BY <1>7, <2>1 DEF U8
  <2>. QED
    BY <1>2, <1>8, <2>1, <2>2
<1>10. LiesHere(e)
  BY <1>9 DEF LiesHere
<1>11. position + Len(e) <= Len(w)
  BY <1>7, <1>8
<1>. QED
  BY <1>10, <1>11 DEF e, w

LEMMA InitFollows == Init => Follows
BY DEF Init, Follows, FollowsDelta, ErrorKinds

LEMMA StepFollows == IInv /\ Follows /\ [Next]_vars => Follows'
<1> SUFFICES ASSUME IInv, Follows, [Next]_vars,
                    NEW d \in Deltas, Sound(d), Meets(EncodeDelta(d))'
             PROVE  FollowsDelta(d)'
  BY DEF Follows
<1> DEFINE ops == d.tree_ops
           n == Len(ops)
           w == EncodeDelta(d)
<1>1. /\ CursorOK /\ Len(buf) < TOO_LARGE /\ buf \in Seq(U8Values)
      /\ position \in Nat /\ Len(buf) \in Nat /\ left \in Nat
      /\ tree_ops \in Seq(TreeOp) /\ Len(tree_ops) \in Nat
      /\ remaining_len = Len(buf) - position
  BY DEF IInv, TypesOK, CursorOK, remaining_len
<1>2. buf' = buf
  BY DEF Next, Step, Finished, vars, ReadDeltaHead, ReadOp, DeltaParsed, RejectDelta,
         Accept, Reject, Advance
<1>3. Meets(w)
  BY <1>2 DEF Meets
<1>4. FollowsDelta(d)
  BY <1>3 DEF Follows
<1>5. /\ d.base_root \in Seq(U8Values) /\ Len(d.base_root) = 32
      /\ ops \in Seq(TreeOp) /\ n \in Nat /\ n < TOO_LARGE
      /\ \A i \in 1..n : Writable(ops[i])
  BY SoundDelta
<1>6. Len(w) \in Nat /\ Len(w) >= 37 + MIN_TREE_OP_LEN * n
  BY SoundLength
<1> HIDE DEF ops, n, w
<1>7. ASSUME step = "head"
      PROVE  /\ Passes(DeltaHeadChecks) => U32(33) = n /\ Bytes(1, 32) = d.base_root
             /\ ~Passes(DeltaHeadChecks) => /\ FirstFailure(DeltaHeadChecks) = "Truncated"
                                            /\ Len(buf) < Len(w)
  <2>1. position = 0
    BY <1>7 DEF IInv, AtHead
  <2>2. LiesHere(HeadOf(d.base_root, n))
    BY <1>1, <1>3, <2>1, HeadIsHere DEF n, ops, w
  <2>3. PICK root, size : root = d.base_root /\ size = Len(w)
    OBVIOUS
  <2>4. /\ root \in Seq(U8Values) /\ Len(root) = 32 /\ LiesHere(HeadOf(root, n))
        /\ size \in Nat /\ 37 + MIN_TREE_OP_LEN * n <= size
    BY <1>5, <1>6, <2>2, <2>3 DEF MIN_TREE_OP_LEN
  <2>5. /\ Passes(DeltaHeadChecks) => U32(33) = n /\ Bytes(1, 32) = root
        /\ ~Passes(DeltaHeadChecks) => /\ FirstFailure(DeltaHeadChecks) = "Truncated"
                                       /\ remaining_len < size
    BY <1>1, <1>5, <2>4, HeadFollows
  <2>. QED
    BY <1>1, <2>1, <2>3, <2>5
<1>8. ASSUME step = "ops", left > 0
      PROVE  /\ Len(tree_ops) + 1 <= n
             /\ Passes(OpChecks) => NextOp = ops[Len(tree_ops) + 1]
             /\ ~Passes(OpChecks) => FirstFailure(OpChecks) = "Truncated" /\ Len(buf) < Len(w)
  <2> DEFINE k == Len(tree_ops)
             op == ops[k + 1]
  <2>1. /\ d.base_root = base_root /\ k + left = n /\ tree_ops = SubSeq(ops, 1, k)
    BY <1>4, <1>8 DEF FollowsDelta, n, ops
  <2>2. k \in 0..(n - 1) /\ k + 1 \in 1..n
    BY <1>1, <1>5, <1>8, <2>1
  <2>3. SubSeq(buf, 1, position) = HeadOf(d.base_root, n) \o FlattenSeq(Encoded(SubSeq(ops, 1, k)))
    BY <1>8, <2>1 DEF IInv, ReadSoFar
  <2>4. LiesHere(EncodeOp(op)) /\ position + Len(EncodeOp(op)) <= Len(w)
    <3> HIDE DEF k
    <3>. QED
      BY <1>1, <1>3, <2>2, <2>3, OpIsHere DEF n, ops, w
  <2>5. Writable(op)
    BY <1>5, <2>2
  <2> HIDE DEF op, k
  <2>6. /\ EncodeOp(op) \in Seq(U8Values)
        /\ Passes(OpChecks) => NextOp = op /\ OpLen = Len(EncodeOp(op))
        /\ ~Passes(OpChecks) => /\ FirstFailure(OpChecks) = "Truncated"
                                /\ remaining_len < Len(EncodeOp(op))
    BY <1>1, <2>4, <2>5, OpFollows
  <2>7. remaining_len < Len(EncodeOp(op)) => Len(buf) < Len(w)
    <3>1. Len(EncodeOp(op)) \in Nat
      BY <2>6
    <3>. QED
      BY <1>1, <1>6, <2>4, <3>1
  <2>8. k + 1 <= n
    BY <1>5, <2>2
  <2>. QED
    BY <2>6, <2>7, <2>8 DEF op, k
<1>9. CASE ReadDeltaHead
  <2>1. /\ step = "head" /\ status = "parsing" /\ Passes(DeltaHeadChecks)
        /\ status' = status /\ step' = "ops" /\ left' = U32(33)
        /\ base_root' = Bytes(1, 32) /\ tree_ops' = tree_ops
    BY <1>9 DEF ReadDeltaHead, Accept, At, Advance
  <2>2. tree_ops = <<>>
    BY <2>1 DEF IInv, AtHead
  <2>3. left' = n /\ base_root' = d.base_root
    BY <1>7, <2>1
  <2>4. SubSeq(ops, 1, 0) = <<>> /\ Len(tree_ops') = 0
    BY <1>5, <2>1, <2>2
  <2>5. Len(tree_ops') + left' = n /\ tree_ops' = SubSeq(ops, 1, Len(tree_ops'))
    BY <1>5, <2>1, <2>2, <2>3, <2>4
  <2>6. status' \notin ErrorKinds
    BY <2>1 DEF ErrorKinds
  <2>. QED
    BY <2>3, <2>5, <2>6 DEF FollowsDelta, n, ops
<1>10. CASE ReadOp
  <2>1. /\ step = "ops" /\ status = "parsing" /\ left > 0 /\ Passes(OpChecks)
        /\ status' = status /\ step' = step /\ left' = left - 1 /\ base_root' = base_root
        /\ tree_ops' = Append(tree_ops, NextOp)
    BY <1>10, Zenon DEF ReadOp, Accept, At, Advance, Turned, MoreItems, NextOp
  <2>2. NextOp = ops[Len(tree_ops) + 1] /\ Len(tree_ops) + 1 <= n
    BY <1>8, <2>1
  <2>3. base_root = d.base_root /\ Len(tree_ops) + left = n /\ tree_ops = SubSeq(ops, 1, Len(tree_ops))
    BY <1>4, <2>1 DEF FollowsDelta, n, ops
  <2>4. Len(tree_ops') = Len(tree_ops) + 1
    BY <1>1, <2>1
  <2>5. Append(SubSeq(ops, 1, Len(tree_ops)), ops[Len(tree_ops) + 1]) = SubSeq(ops, 1, Len(tree_ops) + 1)
    BY <1>1, <1>5, <2>2 DEF n
  <2>6. Len(tree_ops') + left' = n /\ tree_ops' = SubSeq(ops, 1, Len(tree_ops'))
    BY <1>1, <2>1, <2>2, <2>3, <2>4, <2>5
  <2>7. status' \notin ErrorKinds
    BY <2>1 DEF ErrorKinds
  <2>. QED
    BY <2>1, <2>3, <2>6, <2>7 DEF FollowsDelta, n, ops
<1>11. CASE DeltaParsed
  <2>1. status' = "parsed" /\ UNCHANGED <<step, left, base_root, tree_ops>>
    BY <1>11 DEF DeltaParsed
  <2>. QED
    BY <1>4, <2>1 DEF FollowsDelta, ErrorKinds
<1>12. CASE RejectDelta
  <2>1. /\ UNCHANGED <<buf, step, left, base_root, tree_ops>>
        /\ \/ step = "head" /\ ~Passes(DeltaHeadChecks) /\ status' = FirstFailure(DeltaHeadChecks)
           \/ step = "ops" /\ left > 0 /\ ~Passes(OpChecks) /\ status' = FirstFailure(OpChecks)
    BY <1>12, Zenon DEF RejectDelta, Reject, At, MoreItems
  <2>2. status' = "Truncated" /\ Len(buf) < Len(w)
    BY <1>7, <1>8, <2>1
  <2>. QED
    BY <1>4, <2>1, <2>2 DEF FollowsDelta, w
<1>13. CASE UNCHANGED vars
  BY <1>4, <1>13 DEF vars, FollowsDelta
<1>. QED
  BY <1>9, <1>10, <1>11, <1>12, <1>13 DEF Next, Step, Finished

LEMMA FollowsInvariance == Spec => [](IInv /\ Follows)
<1>1. Init => IInv /\ Follows
  BY InitInv, InitFollows
<1>2. (IInv /\ Follows) /\ [Next]_vars => (IInv /\ Follows)'
  BY StepInv, StepFollows
<1>. QED
  BY <1>1, <1>2, PTL DEF Spec

LEMMA BytesMeet ==
    ASSUME NEW a \in Seq(Nat), NEW b \in Seq(Nat), IsPrefix(a, b)
    PROVE  /\ Len(a) \in Nat /\ Len(b) \in Nat /\ Len(a) <= Len(b)
           /\ \A j \in 1..Len(a) : a[j] = b[j]
           /\ a # b => Len(a) < Len(b)
<1>1. Len(a) \in Nat /\ Len(b) \in Nat /\ Len(a) <= Len(b) /\ SubSeq(a, 1, Len(a)) = SubSeq(b, 1, Len(a))
  BY DEF IsPrefix
<1>2. ASSUME NEW j \in 1..Len(a)
      PROVE  a[j] = b[j]
  <2>1. SubSeq(a, 1, Len(a))[j] = a[j] /\ SubSeq(b, 1, Len(a))[j] = b[j]
    BY <1>1
  <2>. QED
    BY <1>1, <2>1
<1>3. ASSUME Len(a) = Len(b)
      PROVE  a = b
  BY <1>2, <1>3, SeqEqual
<1>. QED
  BY <1>1, <1>2, <1>3

LEMMA BufferIsNaturals == ASSUME IInv PROVE buf \in Seq(Nat)
<1>1. buf \in Seq(U8Values) /\ U8Values \subseteq Nat
  BY DEF IInv, TypesOK, U8Values
<1>. QED
  BY <1>1, SeqMonotonic

\* The parser returns just what was written.
LEMMA ParsedFollows ==
    ASSUME IInv, Follows, status = "parsed", NEW d \in Deltas, Sound(d), Meets(EncodeDelta(d))
    PROVE  /\ [base_root |-> base_root, tree_ops |-> tree_ops] = d
           /\ position = Len(EncodeDelta(d))
<1> DEFINE ops == d.tree_ops
<1>1. step = "ops" /\ left = 0
  BY DEF IInv, AtEnd
<1>2. /\ base_root = d.base_root /\ Len(tree_ops) + left = Len(ops)
      /\ tree_ops = SubSeq(ops, 1, Len(tree_ops))
  BY <1>1 DEF Follows, FollowsDelta
<1>3. Len(tree_ops) \in Nat /\ position \in 0..Len(buf) /\ buf \in Seq(U8Values) /\ Len(buf) \in Nat
  BY DEF IInv, TypesOK
<1>4. ops \in Seq(TreeOp) /\ d = [base_root |-> d.base_root, tree_ops |-> ops]
  BY SoundDelta
<1>5. Len(tree_ops) = Len(ops) /\ tree_ops = ops
  <2> HIDE DEF ops
  <2>1. Len(tree_ops) = Len(ops)
    BY <1>1, <1>2, <1>3
  <2>2. SubSeq(ops, 1, Len(ops)) = ops
    BY <1>4
  <2>. QED
    BY <1>2, <2>1, <2>2
<1>6. SubSeq(buf, 1, position) = HeadOf(base_root, Len(tree_ops) + left) \o FlattenSeq(Encoded(tree_ops))
  BY <1>1 DEF IInv, ReadSoFar
<1>7. SubSeq(buf, 1, position) = EncodeDelta(d)
  <2>1. Len(tree_ops) + left = Len(ops)
    BY <1>2
  <2>2. EncodeDelta(d) = HeadOf(d.base_root, Len(ops)) \o FlattenSeq(Encoded(ops))
    BY SoundDelta
  <2>. QED
    BY <1>2, <1>5, <1>6, <2>1, <2>2
<1>8. Len(SubSeq(buf, 1, position)) = position
  BY <1>3
<1>. QED
  BY <1>2, <1>4, <1>5, <1>7, <1>8

\* For every buffer and every delta linkage of the section's widths: when the
\* buffer begins with what was written, the parser returns it and stops where it
\* ends, whatever follows.
THEOREM WrittenReadsBack == Spec => []DeltaReadsBack
<1>1. IInv /\ Follows => DeltaReadsBack
  <2> SUFFICES ASSUME IInv, Follows, status # "parsing",
                      NEW w \in Written, w.valid, IsPrefix(w.bytes, buf)
               PROVE  /\ status = "parsed"
                      /\ [base_root |-> base_root, tree_ops |-> tree_ops] = w.delta
                      /\ position = Len(w.bytes)
    BY DEF DeltaReadsBack
  <2>1. PICK d \in Deltas : Sound(d) /\ w.delta = d /\ w.bytes = EncodeDelta(d)
    BY DEF Written, Sound
  <2>2. EncodeDelta(d) \in Seq(Nat) /\ buf \in Seq(Nat)
    BY <2>1, SoundLength, BufferIsNaturals
  <2>3. IsPrefix(EncodeDelta(d), buf)
    BY <2>1
  <2>4. /\ Len(EncodeDelta(d)) \in Nat /\ Len(buf) \in Nat /\ Len(EncodeDelta(d)) <= Len(buf)
        /\ \A j \in 1..Len(EncodeDelta(d)) : EncodeDelta(d)[j] = buf[j]
    BY <2>2, <2>3, BytesMeet
  <2>5. Meets(EncodeDelta(d))
    BY <2>4 DEF Meets
  <2>6. FollowsDelta(d)
    BY <2>1, <2>5 DEF Follows
  <2>7. status = "parsed"
    <3>1. status \notin ErrorKinds
      BY <2>4, <2>6 DEF FollowsDelta
    <3>. QED
      BY <3>1 DEF IInv, TypesOK
  <2>. QED
    BY <2>1, <2>5, <2>7, ParsedFollows
<1>. QED
  BY <1>1, FollowsInvariance, PTL

\* For every buffer: a valid delta linkage that is cut short anywhere is
\* "Truncated", and nothing else.
THEOREM CutShortIsTruncated == Spec => []DeltaPrefixIsTruncated
<1>1. IInv /\ Follows => DeltaPrefixIsTruncated
  <2> SUFFICES ASSUME IInv, Follows, status \notin {"parsing", "Truncated"},
                      NEW w \in Written, w.valid, IsStrictPrefix(buf, w.bytes)
               PROVE  FALSE
    BY DEF DeltaPrefixIsTruncated
  <2>1. PICK d \in Deltas : Sound(d) /\ w.delta = d /\ w.bytes = EncodeDelta(d)
    BY DEF Written, Sound
  <2>2. EncodeDelta(d) \in Seq(Nat) /\ buf \in Seq(Nat)
    BY <2>1, SoundLength, BufferIsNaturals
  <2>3. IsPrefix(buf, EncodeDelta(d)) /\ buf # EncodeDelta(d)
    BY <2>1 DEF IsStrictPrefix
  <2>4. /\ Len(EncodeDelta(d)) \in Nat /\ Len(buf) \in Nat /\ Len(buf) < Len(EncodeDelta(d))
        /\ \A j \in 1..Len(buf) : buf[j] = EncodeDelta(d)[j]
    BY <2>2, <2>3, BytesMeet
  <2>5. Meets(EncodeDelta(d))
    BY <2>4 DEF Meets
  <2>6. FollowsDelta(d)
    BY <2>1, <2>5 DEF Follows
  <2>7. status = "parsed"
    BY <2>6 DEF FollowsDelta, IInv, TypesOK
  <2>8. position = Len(EncodeDelta(d))
    BY <2>1, <2>5, <2>7, ParsedFollows
  <2>9. position <= Len(buf)
    BY DEF IInv, TypesOK
  <2>. QED
    BY <2>4, <2>8, <2>9
<1>. QED
  BY <1>1, FollowsInvariance, PTL
=============================================================================
