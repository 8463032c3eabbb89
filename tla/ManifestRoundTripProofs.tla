------------------------ MODULE ManifestRoundTripProofs -----------------------
(***************************************************************************)
(* Proofs about what _verify_bytes makes of a manifest that was sent, for  *)
(* every file, every manifest and all ceilings: it parses just what was    *)
(* written, refuses what is valid only when it is not all there, and       *)
(* computes the root the writer did.                                       *)
(***************************************************************************)
EXTENDS ManifestProofs

-----------------------------------------------------------------------------
\* What the reads return of what was written.

\* A u16 and a u32.
LEMMA ReadsU16 ==
    ASSUME CursorOK, NEW o \in Nat, NEW n \in Nat, HereAt(o, PackU16(n)), o + 2 <= remaining_len
    PROVE  U16(o) = n
<1> DEFINE a == n % 256
           b == n \div 256
<1>1. PICK f : f = PackU16(n)
  OBVIOUS
<1>2. Len(f) = 2 /\ f[1] = a /\ f[2] = b
  BY <1>1 DEF PackU16
<1>3. remaining_len \in Int
  BY DEF CursorOK, remaining_len
<1>4. 1 \in 1..Len(f) /\ 2 \in 1..Len(f) /\ o + 1 - 1 = o /\ o + 2 - 1 = o + 1 /\ o + 1 <= remaining_len
  BY <1>2, <1>3
<1>5. U8(o) = f[1] /\ U8(o + 1) = f[2]
  BY <1>1, <1>4 DEF HereAt
<1>6. a + 256 * b = n
  OBVIOUS
<1> HIDE DEF a, b
<1>. QED
  BY <1>2, <1>5, <1>6 DEF U16

LEMMA ReadsU32 ==
    ASSUME CursorOK, NEW o \in Nat, NEW n \in Nat, HereAt(o, PackU32(n)), o + 4 <= remaining_len
    PROVE  U32(o) = n
<1>1. PICK f : f = PackU32(n)
  OBVIOUS
<1>2. Len(f) = 4 /\ f[1] = n % 256 /\ f[2] = (n \div 256) % 256 /\ f[3] = n \div 65536 /\ f[4] = 0
  BY <1>1 DEF PackU32
<1>3. remaining_len \in Int
  BY DEF CursorOK, remaining_len
<1>4. \A j \in 1..4 : j \in 1..Len(f) /\ o + j <= remaining_len
  BY <1>2, <1>3
<1>5. \A j \in 1..4 : U8(o + j - 1) = f[j]
  BY <1>1, <1>4 DEF HereAt
<1>6. /\ o + 1 - 1 = o /\ o + 2 - 1 = o + 1 /\ o + 3 - 1 = o + 2 /\ o + 4 - 1 = o + 3
      /\ 1 \in 1..4 /\ 2 \in 1..4 /\ 3 \in 1..4 /\ 4 \in 1..4
  OBVIOUS
<1>7. U8(o) = f[1] /\ U8(o + 1) = f[2] /\ U8(o + 2) = f[3] /\ U8(o + 3) = f[4]
  BY <1>5, <1>6
<1>8. PackedAt(o, n)
  BY <1>2, <1>7 DEF PackedAt
<1>. QED
  BY <1>8, U32Unpacked

\* Bytes that follow their length.
BlobRead(o, b) ==
    /\ Len(b) \in Nat /\ EncodeBytes(b) \in Seq(Nat) /\ Len(EncodeBytes(b)) = 4 + Len(b)
    /\ o + 4 <= remaining_len => U32(o) = Len(b)
    /\ o + 4 + Len(b) <= remaining_len => Bytes(o + 4, Len(b)) = b

LEMMA ReadsBlob ==
    ASSUME CursorOK, NEW o \in Nat, NEW b \in Seq(Nat), HereAt(o, EncodeBytes(b))
    PROVE  BlobRead(o, b)
<1>1. PICK head : head = PackU32(Len(b))
  OBVIOUS
<1>2. head \in Seq(Nat) /\ Len(head) = 4 /\ Len(b) \in Nat
  <2>1. Len(b) \in Nat
    OBVIOUS
  <2>2. head \in Seq(Nat)
    BY <1>1, <2>1, PackTyped
  <2>. QED
    BY <1>1, <2>1, <2>2 DEF PackU32
<1>3. EncodeBytes(b) = head \o b
  BY <1>1 DEF EncodeBytes
<1>4. HereBoth(o, head, b)
  BY <1>2, <1>3, HereSplit
<1>5. HereAt(o, PackU32(Len(b))) /\ HereAt(o + 4, b) /\ Len(head \o b) = 4 + Len(b)
  BY <1>1, <1>2, <1>4, Zenon DEF HereBoth
<1>6. ASSUME o + 4 <= remaining_len
      PROVE  U32(o) = Len(b)
  BY <1>2, <1>5, <1>6, ReadsU32
<1>7. ASSUME o + 4 + Len(b) <= remaining_len
      PROVE  Bytes(o + 4, Len(b)) = b
  <2>1. o + 4 \in Nat /\ (o + 4) + Len(b) <= remaining_len
    BY <1>7
  <2>. QED
    BY <1>5, <2>1, ReadsBytes
<1>. QED
  BY <1>2, <1>3, <1>4, <1>5, <1>6, <1>7 DEF BlobRead, HereBoth

-----------------------------------------------------------------------------
\* The fields of what is written.

LEMMA WidthOf == \A n \in Nat : \A b \in BytesOf(n) : b \in ByteString /\ b \in Seq(Nat) /\ Len(b) = n
<1> TAKE n \in Nat
<1> TAKE b \in BytesOf(n)
<1>1. b \in ByteString /\ Len(b) = n
  BY Zenon DEF BytesOf
<1>. QED
  BY <1>1, BytesAreNumbers

LEMMA FlagFields ==
    \A x \in WrittenFlag : /\ x.flag_id \in Nat /\ x.required \in BOOLEAN
                           /\ x = [flag_id |-> x.flag_id, required |-> x.required]
<1> TAKE x \in WrittenFlag
<1>1. x.flag_id \in U16Values /\ x.required \in BOOLEAN
  BY Zenon DEF WrittenFlag
<1>2. x = [flag_id |-> x.flag_id, required |-> x.required]
  BY DEF WrittenFlag
<1>. QED
  BY <1>1, <1>2, WidthsAreNumbers

LEMMA ReferenceFields ==
    \A x \in WrittenReference :
        /\ x.metadata_hash \in Seq(Nat) /\ Len(x.metadata_hash) = 32
        /\ x.locators \in Seq(ByteString) /\ x.inline_metadata \in Seq(Nat)
        /\ x.inline_metadata \in ByteString
        /\ x = [metadata_hash |-> x.metadata_hash, locators |-> x.locators,
                inline_metadata |-> x.inline_metadata]
<1> TAKE x \in WrittenReference
<1>1. /\ x.metadata_hash \in BytesOf(32) /\ x.locators \in Seq(ByteString)
      /\ x.inline_metadata \in ByteString
  BY Zenon DEF WrittenReference
<1>2. x = [metadata_hash |-> x.metadata_hash, locators |-> x.locators,
           inline_metadata |-> x.inline_metadata]
  BY DEF WrittenReference
<1>3. 32 \in Nat
  OBVIOUS
<1>. QED
  BY <1>1, <1>2, <1>3, WidthOf, BytesAreNumbers, Zenon

LEMMA SlabFields ==
    \A x \in WrittenSlab : /\ x.slab_id \in Seq(Nat) /\ Len(x.slab_id) = 40
                           /\ x.slab_id \in ByteString /\ x.locators \in Seq(ByteString)
                           /\ x = [slab_id |-> x.slab_id, locators |-> x.locators]
<1> TAKE x \in WrittenSlab
<1>1. x.slab_id \in BytesOf(40) /\ x.locators \in Seq(ByteString)
  BY Zenon DEF WrittenSlab, SLAB_ID_LEN
<1>2. x = [slab_id |-> x.slab_id, locators |-> x.locators]
  BY DEF WrittenSlab
<1>3. 40 \in Nat
  OBVIOUS
<1>. QED
  BY <1>1, <1>2, <1>3, WidthOf, Zenon

LEMMA OverrideFields ==
    \A x \in WrittenOverride : /\ x.slab_id \in Seq(Nat) /\ Len(x.slab_id) = 40
                               /\ x.k \in Nat /\ x.m \in Nat /\ x \in OverrideType
                               /\ x = [slab_id |-> x.slab_id, k |-> x.k, m |-> x.m]
<1> TAKE x \in WrittenOverride
<1>1. x.slab_id \in BytesOf(40) /\ x.k \in U8Values /\ x.m \in U8Values
  BY Zenon DEF WrittenOverride, SLAB_ID_LEN
<1>2. x = [slab_id |-> x.slab_id, k |-> x.k, m |-> x.m]
  BY DEF WrittenOverride
<1>3. 40 \in Nat
  OBVIOUS
<1>4. x.slab_id \in Seq(Nat) /\ Len(x.slab_id) = 40 /\ x.slab_id \in ByteString
  BY <1>1, <1>3, WidthOf, Zenon
<1>5. x \in OverrideType
  BY <1>1, <1>2, <1>4 DEF OverrideType
<1>. QED
  BY <1>1, <1>2, <1>4, <1>5, WidthsAreNumbers

LEMMA ShareFields ==
    \A x \in WrittenShare : /\ x.custodian_id \in Seq(Nat) /\ x.share_data \in Seq(Nat)
                            /\ x.custodian_id \in ByteString /\ x.share_data \in ByteString
                            /\ x = [custodian_id |-> x.custodian_id, share_data |-> x.share_data]
<1> TAKE x \in WrittenShare
<1>1. x.custodian_id \in ByteString /\ x.share_data \in ByteString
  BY Zenon DEF WrittenShare
<1>2. x = [custodian_id |-> x.custodian_id, share_data |-> x.share_data]
  BY DEF WrittenShare
<1>. QED
  BY <1>1, <1>2, BytesAreNumbers, Zenon

LEMMA EntryFields ==
    \A x \in WrittenEntry :
        /\ x.op \in Nat /\ x.timestamp_ns \in Seq(Nat) /\ Len(x.timestamp_ns) = 8
        /\ x.inputs \in Seq(BytesOf(32)) /\ x.params \in Seq(Nat)
        /\ x = [op |-> x.op, timestamp_ns |-> x.timestamp_ns, inputs |-> x.inputs, params |-> x.params]
<1> TAKE x \in WrittenEntry
<1>1. /\ x.op \in U8Values /\ x.timestamp_ns \in BytesOf(8) /\ x.inputs \in Seq(BytesOf(32))
      /\ x.params \in ByteString
  BY Zenon DEF WrittenEntry
<1>2. x = [op |-> x.op, timestamp_ns |-> x.timestamp_ns, inputs |-> x.inputs, params |-> x.params]
  BY DEF WrittenEntry
<1>3. 8 \in Nat
  OBVIOUS
<1>4. x.timestamp_ns \in Seq(Nat) /\ Len(x.timestamp_ns) = 8 /\ x.params \in Seq(Nat)
  BY <1>1, <1>3, WidthOf, BytesAreNumbers, Zenon
<1>. QED
  BY <1>1, <1>2, <1>4, WidthsAreNumbers

-----------------------------------------------------------------------------
\* The entries of the lists: what the reads return, what is taken from them, and why a
\* row fails.

\* A flag.
FlagRead(x) ==
    /\ Len(EncodeFlag(x)) = 3
    /\ 2 <= remaining_len => U16(0) = x.flag_id
    /\ 3 <= remaining_len => U8(2) = (IF x.required THEN 1 ELSE 0)

LEMMA FlagReads ==
    ASSUME CursorOK, NEW x \in WrittenFlag, HereAt(0, EncodeFlag(x))
    PROVE  FlagRead(x)
<1>1. PICK id, b : id = x.flag_id /\ b = (IF x.required THEN 1 ELSE 0)
  OBVIOUS
<1>2. id \in Nat /\ b \in Nat
  BY <1>1, FlagFields
<1>3. PICK pack : pack = PackU16(id)
  OBVIOUS
<1>4. pack \in Seq(Nat) /\ Len(pack) = 2 /\ <<b>> \in Seq(Nat) /\ Len(<<b>>) = 1
  <2>1. pack \in Seq(Nat)
    BY <1>2, <1>3, PackTyped
  <2>. QED
    BY <1>2, <1>3, <2>1 DEF PackU16
<1>5. EncodeFlag(x) = pack \o <<b>>
  BY <1>1, <1>3 DEF EncodeFlag
<1>6. 0 \in Nat /\ HereAt(0, pack \o <<b>>)
  BY <1>5
<1>7. HereBoth(0, pack, <<b>>)
  BY <1>4, <1>6, HereSplit, Zenon
<1>8. HereAt(0, PackU16(id)) /\ HereAt(2, <<b>>) /\ Len(EncodeFlag(x)) = 3
  BY <1>3, <1>4, <1>5, <1>7 DEF HereBoth
<1>9. 2 <= remaining_len => U16(0) = id
  BY <1>2, <1>8, ReadsU16
<1>10. 3 <= remaining_len => U8(2) = b
  BY <1>2, <1>8, ReadsU8
<1>. QED
  BY <1>1, <1>8, <1>9, <1>10 DEF FlagRead

LEMMA FlagMet ==
    ASSUME CursorOK, NEW x \in WrittenFlag, HereAt(0, EncodeFlag(x)), Passes(FlagChecks)
    PROVE  NextFlag = x
<1>1. FlagRead(x)
  BY FlagReads
<1>2. position + 3 <= Len(buf)
  BY FlagPassed
<1>3. 2 <= remaining_len /\ 3 <= remaining_len
  BY <1>2 DEF CursorOK, remaining_len
<1>4. U16(0) = x.flag_id /\ (U8(2) = 1) = x.required
  BY <1>1, <1>3, FlagFields DEF FlagRead
<1>. QED
  BY <1>4, FlagFields DEF NextFlag

LEMMA FlagShort ==
    ASSUME CursorOK, NEW x \in WrittenFlag, HereAt(0, EncodeFlag(x)),
           x.flag_id # 0, \A i \in DOMAIN flags : flags[i].flag_id # x.flag_id
    PROVE  OnlyShort(FlagChecks, 3)
<1>1. FlagRead(x) /\ remaining_len \in Int
  BY FlagReads DEF CursorOK, remaining_len
<1>2. Short(Read(2), 3) /\ (Read(2) = "ok" => 2 <= remaining_len)
  BY <1>1, ReadShort
<1>3. Short(Read(3), 3) /\ (Read(3) = "ok" => 3 <= remaining_len)
  BY <1>1, ReadShort
<1>4. Read(2) = "ok" => Short(Check(U16(0) # 0, "Corrupt"), 3)
  BY <1>1, <1>2 DEF FlagRead, Short, Check
<1>5. Read(3) = "ok" => Short(Check(U8(2) \in {0, 1}, "Corrupt"), 3)
  BY <1>1, <1>3 DEF FlagRead, Short, Check
<1>6. Read(2) = "ok" => Short(Check(\A i \in DOMAIN flags : flags[i].flag_id # U16(0), "Corrupt"), 3)
  <2>1. ASSUME Read(2) = "ok"
        PROVE  \A i \in DOMAIN flags : flags[i].flag_id # U16(0)
    BY <1>1, <1>2, <2>1 DEF FlagRead
  <2>. QED
    BY <2>1 DEF Short, Check
<1>. QED
  BY <1>2, <1>3, <1>4, <1>5, <1>6, Short5, Zenon DEF FlagChecks

\* A length and its bytes: a URI, the inline metadata, the hint.
LEMMA BlobMet ==
    ASSUME CursorOK, NEW b \in Seq(Nat), HereAt(0, EncodeBytes(b)),
           position + 4 + U32(0) <= Len(buf)
    PROVE  /\ NextUri = b /\ U32(0) = Len(b) /\ Len(EncodeBytes(b)) = 4 + Len(b) /\ Len(b) \in Nat
<1>1. BlobRead(0, b)
  BY ReadsBlob
<1>2. PICK n \in Nat : n = U32(0)
  BY U32Range
<1>3. 4 <= remaining_len /\ 4 + n <= remaining_len
  BY <1>2 DEF CursorOK, remaining_len
<1>4. n = Len(b)
  BY <1>1, <1>2, <1>3 DEF BlobRead
<1>5. Bytes(4, Len(b)) = b
  BY <1>1, <1>3, <1>4 DEF BlobRead
<1>. QED
  BY <1>1, <1>2, <1>4, <1>5 DEF BlobRead, NextUri

LEMMA LocatorShort ==
    ASSUME CursorOK, NEW b \in Seq(Nat), HereAt(0, EncodeBytes(b)),
           Len(b) \in MIN_LOCATOR_URI_BYTES..DEFAULT_LOCATOR_MAX_URI_BYTES, IsUri(b)
    PROVE  OnlyShort(LocatorChecks, Len(EncodeBytes(b)))
<1>1. BlobRead(0, b) /\ remaining_len \in Int
  BY ReadsBlob DEF CursorOK, remaining_len
<1>2. PICK n \in Nat : n = 4 + Len(b) /\ n = Len(EncodeBytes(b)) /\ 4 <= n
  BY <1>1 DEF BlobRead
<1>3. Short(Read(4), n) /\ (Read(4) = "ok" => 4 <= remaining_len)
  BY <1>1, <1>2, ReadShort
<1>4. Read(4) = "ok" => U32(0) = Len(b)
  BY <1>1, <1>3 DEF BlobRead
<1>5. Read(4) = "ok" => Short(Check(U32(0) >= MIN_LOCATOR_URI_BYTES, "Corrupt"), n)
  BY <1>4, Ceilings DEF Short, Check, MIN_LOCATOR_URI_BYTES
<1>6. Read(4) = "ok" => Short(Check(U32(0) <= DEFAULT_LOCATOR_MAX_URI_BYTES, "Corrupt"), n)
  BY <1>4, Ceilings DEF Short, Check, MIN_LOCATOR_URI_BYTES
<1>7. Read(4) = "ok" => Short(Read(4 + U32(0)), n)
  BY <1>1, <1>2, <1>4, ReadShort
<1>8. Read(4) = "ok" /\ Read(4 + U32(0)) = "ok" => Short(Check(IsUri(Bytes(4, U32(0))), "Corrupt"), n)
  <2>1. ASSUME Read(4) = "ok", Read(4 + U32(0)) = "ok"
        PROVE  IsUri(Bytes(4, U32(0)))
    <3>1. Read(n) = "ok" /\ U32(0) = Len(b)
      BY <1>2, <1>4, <2>1
    <3>2. n <= remaining_len
      BY <1>1, <1>2, <3>1, ReadShort
    <3>3. Bytes(4, Len(b)) = b
      BY <1>1, <1>2, <3>2 DEF BlobRead
    <3>. QED
      BY <3>1, <3>3
  <2>. QED
    BY <2>1 DEF Short, Check
<1>9. OnlyShort(LocatorChecks, n)
  BY <1>3, <1>5, <1>6, <1>7, <1>8, Short5, Zenon DEF LocatorChecks
<1>. QED
  BY <1>2, <1>9

LEMMA TailShort ==
    ASSUME CursorOK, NEW b \in Seq(Nat), HereAt(0, EncodeBytes(b)),
           Len(b) <= DEFAULT_INLINE_METADATA_MAX_BYTES, locators # <<>> \/ b # <<>>
    PROVE  OnlyShort(MetadataTailChecks, Len(EncodeBytes(b)))
<1>1. BlobRead(0, b) /\ remaining_len \in Int
  BY ReadsBlob DEF CursorOK, remaining_len
<1>2. PICK n \in Nat : n = 4 + Len(b) /\ n = Len(EncodeBytes(b)) /\ 4 <= n
  BY <1>1 DEF BlobRead
<1>3. Short(Read(4), n) /\ (Read(4) = "ok" => 4 <= remaining_len)
  BY <1>1, <1>2, ReadShort
<1>4. Read(4) = "ok" => U32(0) = Len(b)
  BY <1>1, <1>3 DEF BlobRead
<1>5. Read(4) = "ok" => Short(Check(U32(0) <= DEFAULT_INLINE_METADATA_MAX_BYTES, "Corrupt"), n)
  BY <1>4 DEF Short, Check
<1>6. Read(4) = "ok" => Short(Read(4 + U32(0)), n)
  BY <1>1, <1>2, <1>4, ReadShort
<1>7. Read(4) = "ok" => Short(Check(locators # <<>> \/ U32(0) # 0, "Corrupt"), n)
  <2>1. b # <<>> => Len(b) # 0
    OBVIOUS
  <2>. QED
    BY <1>4, <2>1 DEF Short, Check
<1>8. OnlyShort(MetadataTailChecks, n)
  BY <1>3, <1>5, <1>6, <1>7, Short4, Zenon DEF MetadataTailChecks
<1>. QED
  BY <1>2, <1>8

LEMMA HintShort ==
    ASSUME CursorOK, NEW b \in Seq(Nat), HereAt(0, EncodeBytes(b)),
           Len(b) <= DEFAULT_HINT_MAX_BYTES, IsUtf8(b)
    PROVE  OnlyShort(HintChecks, Len(EncodeBytes(b)))
<1>1. BlobRead(0, b) /\ remaining_len \in Int
  BY ReadsBlob DEF CursorOK, remaining_len
<1>2. PICK n \in Nat : n = 4 + Len(b) /\ n = Len(EncodeBytes(b)) /\ 4 <= n
  BY <1>1 DEF BlobRead
<1>3. Short(Read(4), n) /\ (Read(4) = "ok" => 4 <= remaining_len)
  BY <1>1, <1>2, ReadShort
<1>4. Read(4) = "ok" => U32(0) = Len(b)
  BY <1>1, <1>3 DEF BlobRead
<1>5. Read(4) = "ok" => Short(Check(U32(0) <= DEFAULT_HINT_MAX_BYTES, "Corrupt"), n)
  BY <1>4 DEF Short, Check
<1>6. Read(4) = "ok" => Short(Read(4 + U32(0)), n)
  BY <1>1, <1>2, <1>4, ReadShort
<1>7. Read(4) = "ok" /\ Read(4 + U32(0)) = "ok" =>
        Short(Check(IsUtf8(Bytes(4, U32(0))), "Corrupt"), n)
  <2>1. ASSUME Read(4) = "ok", Read(4 + U32(0)) = "ok"
        PROVE  IsUtf8(Bytes(4, U32(0)))
    <3>1. Read(n) = "ok" /\ U32(0) = Len(b)
      BY <1>2, <1>4, <2>1
    <3>2. n <= remaining_len
      BY <1>1, <1>2, <3>1, ReadShort
    <3>3. Bytes(4, Len(b)) = b
      BY <1>1, <1>2, <3>2 DEF BlobRead
    <3>. QED
      BY <3>1, <3>3
  <2>. QED
    BY <2>1 DEF Short, Check
<1>8. OnlyShort(HintChecks, n)
  BY <1>3, <1>5, <1>6, <1>7, Short4, Zenon DEF HintChecks
<1>. QED
  BY <1>2, <1>8

\* An override.
OverrideRead(x) ==
    /\ Len(EncodeOverride(x)) = 42
    /\ 42 <= remaining_len => Bytes(0, 40) = x.slab_id /\ U8(40) = x.k /\ U8(41) = x.m

LEMMA OverrideReads ==
    ASSUME CursorOK, NEW x \in WrittenOverride, HereAt(0, EncodeOverride(x))
    PROVE  OverrideRead(x)
<1>1. PICK id, k, m : id = x.slab_id /\ k = x.k /\ m = x.m
  OBVIOUS
<1>2. id \in Seq(Nat) /\ Len(id) = 40 /\ k \in Nat /\ m \in Nat
  BY <1>1, OverrideFields
<1>3. PICK pair : pair = <<k, m>>
  OBVIOUS
<1>4. pair \in Seq(Nat) /\ Len(pair) = 2 /\ pair[1] = k /\ pair[2] = m
  BY <1>2, <1>3
<1>5. EncodeOverride(x) = id \o pair
  BY <1>1, <1>3 DEF EncodeOverride
<1>6. 0 \in Nat /\ HereAt(0, id \o pair)
  BY <1>5
<1>7. HereBoth(0, id, pair)
  BY <1>2, <1>4, <1>6, HereSplit, Zenon
<1>8. HereAt(0, id) /\ HereAt(40, pair) /\ Len(EncodeOverride(x)) = 42
  BY <1>2, <1>4, <1>5, <1>7 DEF HereBoth
<1>9. ASSUME 42 <= remaining_len
      PROVE  Bytes(0, 40) = id /\ U8(40) = k /\ U8(41) = m
  <2>1. remaining_len \in Int /\ 0 + 40 <= remaining_len
    BY <1>9 DEF CursorOK, remaining_len
  <2>2. Bytes(0, 40) = id
    BY <1>2, <1>8, <2>1, ReadsBytes
  <2>3. 1 \in 1..Len(pair) /\ 2 \in 1..Len(pair) /\ 40 + 1 <= remaining_len /\ 40 + 2 <= remaining_len
    BY <1>4, <1>9, <2>1
  <2>4. U8(40 + 1 - 1) = pair[1] /\ U8(40 + 2 - 1) = pair[2]
    BY <1>8, <2>3 DEF HereAt
  <2>5. 40 + 1 - 1 = 40 /\ 40 + 2 - 1 = 41
    OBVIOUS
  <2>. QED
    BY <1>4, <2>2, <2>4, <2>5
<1>. QED
  BY <1>1, <1>8, <1>9 DEF OverrideRead

LEMMA OverrideMet ==
    ASSUME CursorOK, NEW x \in WrittenOverride, HereAt(0, EncodeOverride(x)), Passes(OverrideChecks)
    PROVE  NextOverride = x
<1>1. OverrideRead(x)
  BY OverrideReads
<1>2. position + 42 <= Len(buf)
  BY OverridePassed
<1>3. 42 <= remaining_len
  BY <1>2 DEF CursorOK, remaining_len
<1>. QED
  BY <1>1, <1>3, OverrideFields DEF OverrideRead, NextOverride

LEMMA OverrideShort ==
    ASSUME CursorOK, NEW x \in WrittenOverride, HereAt(0, EncodeOverride(x)), ValidShards(x.k, x.m),
           \A i \in DOMAIN ec_params.overrides : ec_params.overrides[i].slab_id # x.slab_id
    PROVE  OnlyShort(OverrideChecks, 42)
<1>1. OverrideRead(x) /\ remaining_len \in Int
  BY OverrideReads DEF CursorOK, remaining_len
<1>2. Short(Read(OVERRIDE_ENTRY_LEN), 42) /\ (Read(OVERRIDE_ENTRY_LEN) = "ok" => 42 <= remaining_len)
  BY <1>1, ReadShort DEF OVERRIDE_ENTRY_LEN
<1>3. Read(OVERRIDE_ENTRY_LEN) = "ok" => Short(Check(ValidShards(U8(40), U8(41)), "Corrupt"), 42)
  BY <1>1, <1>2 DEF OverrideRead, Short, Check
<1>4. Read(OVERRIDE_ENTRY_LEN) = "ok" =>
        Short(Check(\A i \in DOMAIN ec_params.overrides : ec_params.overrides[i].slab_id # Bytes(0, 40),
                    "Corrupt"), 42)
  <2>1. ASSUME Read(OVERRIDE_ENTRY_LEN) = "ok"
        PROVE  \A i \in DOMAIN ec_params.overrides : ec_params.overrides[i].slab_id # Bytes(0, 40)
    BY <1>1, <1>2, <2>1 DEF OverrideRead
  <2>. QED
    BY <2>1 DEF Short, Check
<1>. QED
  BY <1>2, <1>3, <1>4, Short3, Zenon DEF OverrideChecks

\* A share.
ShareRead(x) ==
    LET c == x.custodian_id
        d == x.share_data
    IN  /\ Len(c) \in Nat /\ Len(d) \in Nat /\ Len(EncodeShare(x)) = 8 + Len(c) + Len(d)
        /\ 4 <= remaining_len => U32(0) = Len(c)
        /\ 4 + Len(c) <= remaining_len => Bytes(4, Len(c)) = c
        /\ 8 + Len(c) <= remaining_len => U32(4 + Len(c)) = Len(d)
        /\ 8 + Len(c) + Len(d) <= remaining_len => Bytes(8 + Len(c), Len(d)) = d

LEMMA ShareReads ==
    ASSUME CursorOK, NEW x \in WrittenShare, HereAt(0, EncodeShare(x))
    PROVE  ShareRead(x)
<1>1. PICK c, d : c = x.custodian_id /\ d = x.share_data
  OBVIOUS
<1>2. c \in Seq(Nat) /\ d \in Seq(Nat) /\ c \in ByteString /\ d \in ByteString
  BY <1>1, ShareFields
<1>3. PICK a, b : a = EncodeBytes(c) /\ b = EncodeBytes(d)
  OBVIOUS
<1>4. a \in Seq(Nat) /\ b \in Seq(Nat)
  BY <1>2, <1>3, BytesTyped
<1>5. EncodeShare(x) = a \o b
  BY <1>1, <1>3 DEF EncodeShare
<1>6. 0 \in Nat /\ HereAt(0, a \o b)
  BY <1>5
<1>7. HereBoth(0, a, b)
  BY <1>4, <1>6, HereSplit, Zenon
<1>8. HereAt(0, EncodeBytes(c)) /\ HereAt(0 + Len(a), EncodeBytes(d)) /\ 0 + Len(a) \in Nat
      /\ Len(a \o b) = Len(a) + Len(b)
  BY <1>3, <1>7, Zenon DEF HereBoth
<1>9. BlobRead(0, c)
  BY <1>2, <1>6, <1>8, ReadsBlob
<1>10. BlobRead(0 + Len(a), d)
  BY <1>2, <1>8, ReadsBlob, Zenon
<1>11. /\ Len(c) \in Nat /\ Len(a) = 4 + Len(c)
       /\ 0 + 4 <= remaining_len => U32(0) = Len(c)
       /\ 0 + 4 + Len(c) <= remaining_len => Bytes(0 + 4, Len(c)) = c
  BY <1>3, <1>9, Zenon DEF BlobRead
<1>12. PICK o \in Nat : o = 0 + Len(a)
  BY <1>8
<1>13. /\ Len(d) \in Nat /\ Len(b) = 4 + Len(d)
       /\ o + 4 <= remaining_len => U32(o) = Len(d)
       /\ o + 4 + Len(d) <= remaining_len => Bytes(o + 4, Len(d)) = d
  BY <1>3, <1>10, <1>12, Zenon DEF BlobRead
<1>14. o = 4 + Len(c) /\ o + 4 = 8 + Len(c) /\ remaining_len \in Int
  BY <1>11, <1>12 DEF CursorOK, remaining_len
<1>15. Len(EncodeShare(x)) = 8 + Len(c) + Len(d)
  BY <1>5, <1>8, <1>11, <1>13
<1>16. /\ 4 <= remaining_len => U32(0) = Len(c)
       /\ 4 + Len(c) <= remaining_len => Bytes(4, Len(c)) = c
  BY <1>11, <1>14
<1>17. /\ 8 + Len(c) <= remaining_len => U32(4 + Len(c)) = Len(d)
       /\ 8 + Len(c) + Len(d) <= remaining_len => Bytes(8 + Len(c), Len(d)) = d
  BY <1>11, <1>13, <1>14
<1>. QED
  BY <1>1, <1>11, <1>13, <1>15, <1>16, <1>17 DEF ShareRead

LEMMA ShareMet ==
    ASSUME CursorOK, NEW x \in WrittenShare, HereAt(0, EncodeShare(x)), Passes(ShareChecks)
    PROVE  NextShare = x
<1>1. ShareRead(x)
  BY ShareReads
<1>2. U32(0) \in Nat /\ sd_len \in Nat /\ position + ShareLen <= Len(buf) /\ ShareLen = 8 + U32(0) + sd_len
  BY SharePassed
<1>3. PICK c, d : c = x.custodian_id /\ d = x.share_data
  OBVIOUS
<1>4. PICK m, n \in Nat : m = U32(0) /\ n = sd_len
  BY <1>2
<1>5. remaining_len \in Int /\ 8 + m + n <= remaining_len
  BY <1>2, <1>4 DEF CursorOK, remaining_len
<1>6. Len(c) \in Nat /\ Len(d) \in Nat /\ m = Len(c)
  BY <1>1, <1>3, <1>4, <1>5 DEF ShareRead
<1>7. Bytes(4, Len(c)) = c /\ U32(4 + Len(c)) = Len(d)
  BY <1>1, <1>3, <1>5, <1>6 DEF ShareRead
<1>8. n = Len(d)
  BY <1>4, <1>6, <1>7 DEF sd_len
<1>9. Bytes(8 + Len(c), Len(d)) = d
  BY <1>1, <1>3, <1>5, <1>6, <1>8 DEF ShareRead
<1>10. NextShare = [custodian_id |-> c, share_data |-> d]
  BY <1>4, <1>6, <1>7, <1>8, <1>9 DEF NextShare, cid
<1>. QED
  BY <1>3, <1>10, ShareFields

LEMMA ShareShort ==
    ASSUME CursorOK, NEW x \in WrittenShare, HereAt(0, EncodeShare(x)), ValidShare(x),
           \A i \in DOMAIN dms_policy.shares : dms_policy.shares[i].custodian_id # x.custodian_id
    PROVE  OnlyShort(ShareChecks, Len(EncodeShare(x)))
<1>1. ShareRead(x) /\ remaining_len \in Int
  BY ShareReads DEF CursorOK, remaining_len
<1>2. PICK c, d : c = x.custodian_id /\ d = x.share_data
  OBVIOUS
<1>3. PICK n \in Nat : n = Len(EncodeShare(x)) /\ n = 8 + Len(c) + Len(d)
  <2>1. Len(c) \in Nat /\ Len(d) \in Nat /\ Len(EncodeShare(x)) = 8 + Len(c) + Len(d)
    BY <1>1, <1>2 DEF ShareRead
  <2>2. 8 + Len(c) + Len(d) \in Nat
    BY <2>1
  <2>. QED
    BY <2>1, <2>2, Zenon
<1>4. /\ Len(c) \in Nat /\ Len(d) \in Nat /\ IsUtf8(c) /\ c \in Seq(Nat)
      /\ Len(c) \in 1..DEFAULT_HINT_MAX_BYTES /\ Len(d) \in 1..DEFAULT_SHARE_DATA_MAX_BYTES
  BY <1>1, <1>2, ShareFields DEF ValidShare, ShareRead
<1>5. Short(Read(4), n) /\ (Read(4) = "ok" => 4 <= remaining_len)
  BY <1>1, <1>3, <1>4, ReadShort
<1>6. Read(4) = "ok" => U32(0) = Len(c)
  BY <1>1, <1>2, <1>5 DEF ShareRead
<1>7. Read(4) = "ok" => Short(Check(U32(0) <= DEFAULT_HINT_MAX_BYTES, "Corrupt"), n)
  BY <1>4, <1>6, Ceilings DEF Short, Check
<1>8. Read(4) = "ok" => Short(Read(4 + U32(0)), n)
  BY <1>1, <1>3, <1>4, <1>6, ReadShort
<1>9. Read(4) = "ok" /\ Read(4 + U32(0)) = "ok" => cid = c
  <2>1. ASSUME Read(4) = "ok", Read(4 + U32(0)) = "ok"
        PROVE  cid = c
    <3>1. Read(4 + Len(c)) = "ok" /\ U32(0) = Len(c)
      BY <1>6, <2>1
    <3>2. 4 + Len(c) <= remaining_len
      BY <1>1, <1>4, <3>1, ReadShort
    <3>3. Bytes(4, Len(c)) = c
      BY <1>1, <1>2, <3>2 DEF ShareRead
    <3>. QED
      BY <3>1, <3>3 DEF cid
  <2>. QED
    BY <2>1
<1>10. Read(4) = "ok" /\ Read(4 + U32(0)) = "ok" => Short(Check(IsUtf8(cid), "Corrupt"), n)
  BY <1>4, <1>9 DEF Short, Check
<1>11. Read(4) = "ok" /\ Read(4 + U32(0)) = "ok" => Short(Check(cid # <<>>, "Corrupt"), n)
  <2>1. c # <<>>
    BY <1>4
  <2>. QED
    BY <1>9, <2>1 DEF Short, Check
<1>12. Read(4) = "ok" /\ Read(4 + U32(0)) = "ok" =>
         Short(Check(\A i \in DOMAIN dms_policy.shares : dms_policy.shares[i].custodian_id # cid, "Corrupt"), n)
  <2>1. ASSUME cid = c
        PROVE  \A i \in DOMAIN dms_policy.shares : dms_policy.shares[i].custodian_id # cid
    BY <1>2, <2>1
  <2>. QED
    BY <1>9, <2>1 DEF Short, Check
<1>13. Read(4) = "ok" => Short(Read(8 + U32(0)), n)
  BY <1>1, <1>3, <1>4, <1>6, ReadShort
<1>14. Read(4) = "ok" /\ Read(8 + U32(0)) = "ok" => sd_len = Len(d)
  <2>1. ASSUME Read(4) = "ok", Read(8 + U32(0)) = "ok"
        PROVE  sd_len = Len(d)
    <3>1. Read(8 + Len(c)) = "ok" /\ U32(0) = Len(c)
      BY <1>6, <2>1
    <3>2. 8 + Len(c) <= remaining_len
      BY <1>1, <1>4, <3>1, ReadShort
    <3>3. U32(4 + Len(c)) = Len(d)
      BY <1>1, <1>2, <3>2 DEF ShareRead
    <3>. QED
      BY <3>1, <3>3 DEF sd_len
  <2>. QED
    BY <2>1
<1>15. Read(4) = "ok" /\ Read(8 + U32(0)) = "ok" =>
         Short(Check(sd_len \in 1..DEFAULT_SHARE_DATA_MAX_BYTES, "Corrupt"), n)
  BY <1>4, <1>14 DEF Short, Check
<1>16. Read(4) = "ok" /\ Read(8 + U32(0)) = "ok" => Short(Read(ShareLen), n)
  BY <1>1, <1>3, <1>4, <1>6, <1>14, ReadShort DEF ShareLen
<1>17. OnlyShort(ShareChecks, n)
  <2>1. PICK r1, r2, r3, r4, r5, r6, r7, r8, r9 :
          /\ r1 = Read(4) /\ r2 = Check(U32(0) <= DEFAULT_HINT_MAX_BYTES, "Corrupt")
          /\ r3 = Read(4 + U32(0)) /\ r4 = Check(IsUtf8(cid), "Corrupt")
          /\ r5 = Check(cid # <<>>, "Corrupt")
          /\ r6 = Check(\A i \in DOMAIN dms_policy.shares :
                          dms_policy.shares[i].custodian_id # cid, "Corrupt")
          /\ r7 = Read(8 + U32(0))
          /\ r8 = Check(sd_len \in 1..DEFAULT_SHARE_DATA_MAX_BYTES, "Corrupt")
          /\ r9 = Read(ShareLen)
    OBVIOUS
  <2>2. ShareChecks = <<r1, r2, r3, r4, r5, r6, r7, r8, r9>>
    BY <2>1 DEF ShareChecks
  <2>3. /\ Short(r1, n)
        /\ r1 = "ok" => Short(r2, n) /\ Short(r3, n) /\ Short(r7, n)
        /\ r1 = "ok" /\ r3 = "ok" => Short(r4, n) /\ Short(r5, n) /\ Short(r6, n)
        /\ r1 = "ok" /\ r7 = "ok" => Short(r8, n) /\ Short(r9, n)
    BY <1>5, <1>7, <1>8, <1>10, <1>11, <1>12, <1>13, <1>15, <1>16, <2>1
  <2>4. OnlyShort(<<r1, r2, r3, r4, r5, r6, r7, r8, r9>>, n)
    BY <2>3, Short9
  <2>. QED
    BY <2>2, <2>4
<1>. QED
  BY <1>3, <1>17

-----------------------------------------------------------------------------
\* The lists that are written, each entry of its width at least.

ItemsOf(items, n, w) ==
    /\ items \in Seq(Seq(Nat)) /\ Len(items) = n /\ n \in Nat
    /\ \A i \in 1..n : Len(items[i]) >= w

LEMMA ItemsAre ==
    ASSUME NEW n \in Nat, NEW items, NEW w \in Nat, items = [i \in 1..n |-> items[i]],
           \A i \in 1..n : items[i] \in Seq(Nat) /\ Len(items[i]) >= w
    PROVE  ItemsOf(items, n, w)
<1>1. items \in [1..n -> Seq(Nat)]
  OBVIOUS
<1>2. items \in Seq(Seq(Nat)) /\ Len(items) = n
  BY <1>1
<1>. QED
  BY <1>2 DEF ItemsOf

LEMMA ItemsLong ==
    ASSUME NEW n, NEW items, NEW w \in Nat, ItemsOf(items, n, w)
    PROVE  Len(FlattenSeq(items)) \in Nat /\ Len(FlattenSeq(items)) >= w * n /\ FlattenSeq(items) \in Seq(Nat)
<1>1. items \in Seq(Seq(Nat)) /\ Len(items) = n /\ \A i \in 1..Len(items) : Len(items[i]) >= w
  BY DEF ItemsOf
<1>. QED
  BY <1>1, FlattenLong, FlattenTyped

\* What is appended, with its length.
LEMMA Lengths == \A x, y \in Seq(Nat) : /\ x \o y \in Seq(Nat) /\ Len(x \o y) = Len(x) + Len(y)
                                        /\ Len(x) \in Nat /\ Len(y) \in Nat
<1> TAKE x, y \in Seq(Nat)
<1>1. x \o y \in Seq(Nat) /\ Joined(x, y, x \o y)
  BY TwoParts, Zenon
<1>. QED
  BY <1>1 DEF Joined

LEMMA FlagWidth == \A x \in WrittenFlag : EncodeFlag(x) \in Seq(Nat) /\ Len(EncodeFlag(x)) = 3
<1> TAKE x \in WrittenFlag
<1>1. PICK id, b : id = x.flag_id /\ b = (IF x.required THEN 1 ELSE 0)
  OBVIOUS
<1>2. id \in Nat /\ b \in Nat
  BY <1>1, FlagFields
<1>3. EncodeFlag(x) = <<id % 256, id \div 256>> \o <<b>>
  BY <1>1 DEF EncodeFlag, PackU16
<1>4. <<id % 256, id \div 256>> \in Seq(Nat) /\ <<b>> \in Seq(Nat)
  <2>1. id % 256 \in Nat /\ id \div 256 \in Nat
    BY <1>2
  <2>. QED
    BY <1>2, <2>1
<1>5. Len(<<id % 256, id \div 256>>) = 2 /\ Len(<<b>>) = 1
  OBVIOUS
<1>. QED
  BY <1>3, <1>4, <1>5, Lengths

LEMMA BlobWidth == \A b \in Seq(Nat) : /\ EncodeBytes(b) \in Seq(Nat) /\ Len(b) \in Nat
                                       /\ Len(EncodeBytes(b)) = 4 + Len(b)
<1> TAKE b \in Seq(Nat)
<1>1. PICK head : head = PackU32(Len(b))
  OBVIOUS
<1>2. Len(b) \in Nat
  OBVIOUS
<1>3. head \in Seq(Nat)
  BY <1>1, <1>2, PackTyped
<1>4. Len(head) = 4
  BY <1>1 DEF PackU32
<1>5. EncodeBytes(b) = head \o b
  BY <1>1 DEF EncodeBytes
<1>. QED
  BY <1>2, <1>3, <1>4, <1>5, Lengths

LEMMA OverrideWidth == \A x \in WrittenOverride : EncodeOverride(x) \in Seq(Nat) /\ Len(EncodeOverride(x)) = 42
<1> TAKE x \in WrittenOverride
<1>1. x.slab_id \in Seq(Nat) /\ Len(x.slab_id) = 40 /\ x.k \in Nat /\ x.m \in Nat
  BY OverrideFields
<1>2. PICK id, pair : id = x.slab_id /\ pair = <<x.k, x.m>>
  OBVIOUS
<1>3. id \in Seq(Nat) /\ pair \in Seq(Nat) /\ Len(id) = 40 /\ Len(pair) = 2
  BY <1>1, <1>2
<1>4. EncodeOverride(x) = id \o pair
  BY <1>2 DEF EncodeOverride
<1>5. EncodeOverride(x) \in Seq(Nat) /\ Len(EncodeOverride(x)) = Len(id) + Len(pair)
  BY <1>3, <1>4, Lengths, Zenon
<1>. QED
  BY <1>3, <1>5

LEMMA ShareWidth == \A x \in WrittenShare : EncodeShare(x) \in Seq(Nat) /\ Len(EncodeShare(x)) >= 0
<1> TAKE x \in WrittenShare
<1>1. x.custodian_id \in Seq(Nat) /\ x.share_data \in Seq(Nat)
  BY ShareFields
<1>2. EncodeBytes(x.custodian_id) \in Seq(Nat) /\ EncodeBytes(x.share_data) \in Seq(Nat)
  BY <1>1, BlobWidth
<1>. QED
  BY <1>2, Lengths DEF EncodeShare

LEMMA FlagItems ==
    ASSUME NEW list \in Seq(WrittenFlag)
    PROVE  /\ ItemsOf(FlagBytes(list), Len(list), 3)
           /\ \A i \in 1..Len(list) : FlagBytes(list)[i] = EncodeFlag(list[i]) /\ list[i] \in WrittenFlag
<1>1. DOMAIN list = 1..Len(list) /\ Len(list) \in Nat /\ \A i \in 1..Len(list) : list[i] \in WrittenFlag
  OBVIOUS
<1>2. PICK items : items = FlagBytes(list)
  OBVIOUS
<1>3. items = [i \in 1..Len(list) |-> items[i]] /\ \A i \in 1..Len(list) : items[i] = EncodeFlag(list[i])
  BY <1>1, <1>2 DEF FlagBytes
<1>4. \A i \in 1..Len(list) : items[i] \in Seq(Nat) /\ Len(items[i]) >= 3
  <2> TAKE i \in 1..Len(list)
  <2>1. PICK x \in WrittenFlag : items[i] = EncodeFlag(x)
    BY <1>1, <1>3
  <2>2. items[i] \in Seq(Nat) /\ Len(items[i]) = 3
    BY <2>1, FlagWidth, Zenon
  <2>. QED
    BY <2>2
<1>5. ItemsOf(items, Len(list), 3)
  BY <1>1, <1>3, <1>4, ItemsAre
<1>. QED
  BY <1>1, <1>2, <1>3, <1>5

LEMMA UriItems ==
    ASSUME NEW list \in Seq(ByteString)
    PROVE  /\ ItemsOf(UriBytes(list), Len(list), 4)
           /\ \A i \in 1..Len(list) : UriBytes(list)[i] = EncodeBytes(list[i]) /\ list[i] \in Seq(Nat)
           /\ ValidLocators(list) => ItemsOf(UriBytes(list), Len(list), 8)
<1>1. DOMAIN list = 1..Len(list) /\ Len(list) \in Nat
  OBVIOUS
<1>2. \A i \in 1..Len(list) : list[i] \in Seq(Nat)
  BY BytesAreNumbers
<1>3. PICK items : items = UriBytes(list)
  OBVIOUS
<1>4. items = [i \in 1..Len(list) |-> items[i]] /\ \A i \in 1..Len(list) : items[i] = EncodeBytes(list[i])
  BY <1>1, <1>3 DEF UriBytes
<1>5. \A i \in 1..Len(list) : items[i] \in Seq(Nat) /\ Len(items[i]) = 4 + Len(list[i]) /\ Len(list[i]) \in Nat
  BY <1>2, <1>4, BlobWidth
<1>6. ItemsOf(items, Len(list), 4)
  <2>1. \A i \in 1..Len(list) : items[i] \in Seq(Nat) /\ Len(items[i]) >= 4
    <3> TAKE i \in 1..Len(list)
    <3>. QED
      BY <1>5
  <2>2. 4 \in Nat
    OBVIOUS
  <2>. QED
    BY <1>1, <1>4, <2>1, <2>2, ItemsAre, Zenon
<1>7. ASSUME ValidLocators(list)
      PROVE  ItemsOf(items, Len(list), 8)
  <2>1. \A i \in 1..Len(list) : Len(list[i]) >= 4
    <3> TAKE i \in 1..Len(list)
    <3>1. Len(list[i]) \in MIN_LOCATOR_URI_BYTES..DEFAULT_LOCATOR_MAX_URI_BYTES
      BY <1>1, <1>7 DEF ValidLocators
    <3>. QED
      BY <3>1, Ceilings DEF MIN_LOCATOR_URI_BYTES
  <2>2. \A i \in 1..Len(list) : items[i] \in Seq(Nat) /\ Len(items[i]) >= 8
    <3> TAKE i \in 1..Len(list)
    <3>. QED
      BY <1>5, <2>1
  <2>3. 8 \in Nat
    OBVIOUS
  <2>. QED
    BY <1>1, <1>4, <2>2, <2>3, ItemsAre, Zenon
<1>. QED
  BY <1>2, <1>3, <1>4, <1>6, <1>7

LEMMA OverrideItems ==
    ASSUME NEW list \in Seq(WrittenOverride)
    PROVE  /\ ItemsOf(OverrideBytes(list), Len(list), 42)
           /\ \A i \in 1..Len(list) :
                OverrideBytes(list)[i] = EncodeOverride(list[i]) /\ list[i] \in WrittenOverride
<1>1. DOMAIN list = 1..Len(list) /\ Len(list) \in Nat /\ \A i \in 1..Len(list) : list[i] \in WrittenOverride
  OBVIOUS
<1>2. PICK items : items = OverrideBytes(list)
  OBVIOUS
<1>3. items = [i \in 1..Len(list) |-> items[i]] /\ \A i \in 1..Len(list) : items[i] = EncodeOverride(list[i])
  BY <1>1, <1>2 DEF OverrideBytes
<1>4. \A i \in 1..Len(list) : items[i] \in Seq(Nat) /\ Len(items[i]) >= 42
  <2> TAKE i \in 1..Len(list)
  <2>1. PICK x \in WrittenOverride : items[i] = EncodeOverride(x)
    BY <1>1, <1>3
  <2>2. items[i] \in Seq(Nat) /\ Len(items[i]) = 42
    BY <2>1, OverrideWidth, Zenon
  <2>. QED
    BY <2>2
<1>5. ItemsOf(items, Len(list), 42)
  BY <1>1, <1>3, <1>4, ItemsAre
<1>. QED
  BY <1>1, <1>2, <1>3, <1>5

LEMMA ShareItems ==
    ASSUME NEW list \in Seq(WrittenShare)
    PROVE  /\ ItemsOf(ShareBytes(list), Len(list), 0)
           /\ \A i \in 1..Len(list) : ShareBytes(list)[i] = EncodeShare(list[i]) /\ list[i] \in WrittenShare
<1>1. DOMAIN list = 1..Len(list) /\ Len(list) \in Nat /\ \A i \in 1..Len(list) : list[i] \in WrittenShare
  OBVIOUS
<1>2. PICK items : items = ShareBytes(list)
  OBVIOUS
<1>3. items = [i \in 1..Len(list) |-> items[i]] /\ \A i \in 1..Len(list) : items[i] = EncodeShare(list[i])
  BY <1>1, <1>2 DEF ShareBytes
<1>4. \A i \in 1..Len(list) : items[i] \in Seq(Nat) /\ Len(items[i]) >= 0
  <2> TAKE i \in 1..Len(list)
  <2>1. PICK x \in WrittenShare : items[i] = EncodeShare(x)
    BY <1>1, <1>3
  <2>. QED
    BY <2>1, ShareWidth
<1>5. ItemsOf(items, Len(list), 0)
  BY <1>1, <1>3, <1>4, ItemsAre
<1>. QED
  BY <1>1, <1>2, <1>3, <1>5

LEMMA InputItems ==
    ASSUME NEW list \in Seq(BytesOf(32))
    PROVE  /\ ItemsOf(InputBytes(list), Len(list), 32)
           /\ \A i \in 1..Len(list) : /\ InputBytes(list)[i] = list[i] /\ list[i] \in Seq(Nat)
                                      /\ Len(list[i]) = 32
<1>1. DOMAIN list = 1..Len(list) /\ Len(list) \in Nat
  OBVIOUS
<1>2. \A i \in 1..Len(list) : list[i] \in Seq(Nat) /\ Len(list[i]) = 32
  <2> TAKE i \in 1..Len(list)
  <2>1. list[i] \in BytesOf(32) /\ 32 \in Nat
    OBVIOUS
  <2>. QED
    BY <2>1, WidthOf, Zenon
<1>3. PICK items : items = InputBytes(list)
  OBVIOUS
<1>4. items = [i \in 1..Len(list) |-> items[i]] /\ \A i \in 1..Len(list) : items[i] = list[i]
  BY <1>1, <1>3 DEF InputBytes, EncodeInput
<1>5. \A i \in 1..Len(list) : items[i] \in Seq(Nat) /\ Len(items[i]) >= 32
  <2> TAKE i \in 1..Len(list)
  <2>1. items[i] \in Seq(Nat) /\ Len(items[i]) = 32
    BY <1>2, <1>4
  <2>. QED
    BY <2>1
<1>6. ItemsOf(items, Len(list), 32)
  <2>1. 32 \in Nat
    OBVIOUS
  <2>. QED
    BY <1>1, <1>4, <1>5, <2>1, ItemsAre, Zenon
<1>. QED
  BY <1>2, <1>3, <1>4, <1>6

\* A head h, the count of a list, and its items.
ListWidth(h, n, items) ==
    /\ Listed(n, items) \in Seq(Nat) /\ h \o Listed(n, items) \in Seq(Nat)
    /\ Len(h) \in Nat /\ Len(FlattenSeq(items)) \in Nat
    /\ Len(h \o Listed(n, items)) = Len(h) + 4 + Len(FlattenSeq(items))

LEMMA ListLength ==
    ASSUME NEW h \in Seq(Nat), NEW n \in Nat, NEW items \in Seq(Seq(Nat))
    PROVE  ListWidth(h, n, items)
<1>1. PICK p, f : p = PackU32(n) /\ f = FlattenSeq(items)
  OBVIOUS
<1>2. Listed(n, items) \in Seq(Nat) /\ f \in Seq(Nat) /\ p \in Seq(Nat)
  BY <1>1, ListedTyped
<1>3. Len(p) = 4 /\ Listed(n, items) = p \o f
  BY <1>1 DEF PackU32, Listed
<1>4. PICK g \in Seq(Nat) : g = p \o f /\ Len(g) = 4 + Len(f) /\ Len(f) \in Nat
  BY <1>2, <1>3, Lengths
<1>5. Len(h \o g) = Len(h) + 4 + Len(f) /\ h \o g \in Seq(Nat) /\ Len(h) \in Nat
  <2>1. Len(h \o g) = Len(h) + Len(g) /\ h \o g \in Seq(Nat) /\ Len(h) \in Nat
    BY Lengths
  <2>. QED
    BY <1>4, <2>1
<1>. QED
  BY <1>1, <1>2, <1>3, <1>4, <1>5, Zenon DEF ListWidth

LEMMA SlabWidth == \A x \in WrittenSlab : EncodeSlabEntry(x) \in Seq(Nat) /\ Len(EncodeSlabEntry(x)) >= 44
<1> TAKE x \in WrittenSlab
<1>1. PICK id, list : id = x.slab_id /\ list = x.locators
  OBVIOUS
<1>2. id \in Seq(Nat) /\ Len(id) = 40 /\ list \in Seq(ByteString) /\ Len(list) \in Nat
  BY <1>1, SlabFields
<1>3. UriBytes(list) \in Seq(Seq(Nat))
  BY <1>2, UriItems DEF ItemsOf
<1>4. ListWidth(id, Len(list), UriBytes(list))
  BY <1>2, <1>3, ListLength
<1>5. EncodeSlabEntry(x) = id \o Listed(Len(list), UriBytes(list))
  BY <1>1, WholeLists, Zenon DEF EncodeSlabEntry
<1>. QED
  BY <1>2, <1>4, <1>5 DEF ListWidth

LEMMA SlabItems ==
    ASSUME NEW list \in Seq(WrittenSlab)
    PROVE  /\ ItemsOf(SlabBytes(list), Len(list), 44)
           /\ \A i \in 1..Len(list) : SlabBytes(list)[i] = EncodeSlabEntry(list[i]) /\ list[i] \in WrittenSlab
<1>1. DOMAIN list = 1..Len(list) /\ Len(list) \in Nat /\ \A i \in 1..Len(list) : list[i] \in WrittenSlab
  OBVIOUS
<1>2. PICK items : items = SlabBytes(list)
  OBVIOUS
<1>3. items = [i \in 1..Len(list) |-> items[i]] /\ \A i \in 1..Len(list) : items[i] = EncodeSlabEntry(list[i])
  BY <1>1, <1>2 DEF SlabBytes
<1>4. \A i \in 1..Len(list) : items[i] \in Seq(Nat) /\ Len(items[i]) >= 44
  <2> TAKE i \in 1..Len(list)
  <2>1. PICK x \in WrittenSlab : items[i] = EncodeSlabEntry(x)
    BY <1>1, <1>3
  <2>. QED
    BY <2>1, SlabWidth
<1>5. ItemsOf(items, Len(list), 44)
  BY <1>1, <1>3, <1>4, ItemsAre
<1>. QED
  BY <1>1, <1>2, <1>3, <1>5

\* An entry of the history: what comes before its inputs, and its length.
EntryHead(x) == <<x.op>> \o x.timestamp_ns

LEMMA EntryWidth ==
    \A x \in WrittenEntry :
        /\ EntryHead(x) \in Seq(Nat) /\ Len(EntryHead(x)) = 9
        /\ ListWidth(EntryHead(x), Len(x.inputs), InputBytes(x.inputs))
        /\ EncodeHistoryEntry(x)
             = (EntryHead(x) \o Listed(Len(x.inputs), InputBytes(x.inputs))) \o EncodeBytes(x.params)
        /\ EncodeHistoryEntry(x) \in Seq(Nat) /\ Len(EncodeHistoryEntry(x)) >= 17
<1> TAKE x \in WrittenEntry
<1>1. PICK op, ts, list, params :
        op = x.op /\ ts = x.timestamp_ns /\ list = x.inputs /\ params = x.params
  OBVIOUS
<1>2. /\ op \in Nat /\ ts \in Seq(Nat) /\ Len(ts) = 8 /\ list \in Seq(BytesOf(32)) /\ params \in Seq(Nat)
      /\ Len(list) \in Nat
  BY <1>1, EntryFields
<1>3. PICK h : h = <<op>> \o ts
  OBVIOUS
<1>4. h \in Seq(Nat) /\ Len(h) = 9
  <2>1. <<op>> \in Seq(Nat) /\ Len(<<op>>) = 1
    BY <1>2
  <2>2. PICK b \in Seq(Nat) : b = <<op>> /\ Len(b) = 1
    BY <2>1
  <2>3. h \in Seq(Nat) /\ Len(h) = Len(b) + Len(ts)
    BY <1>2, <1>3, <2>2, Lengths, Zenon
  <2>. QED
    BY <1>2, <2>2, <2>3
<1>5. InputBytes(list) \in Seq(Seq(Nat))
  BY <1>2, InputItems DEF ItemsOf
<1>6. ListWidth(h, Len(list), InputBytes(list))
  BY <1>2, <1>4, <1>5, ListLength
<1>7. PICK a, b : a = h \o Listed(Len(list), InputBytes(list)) /\ b = EncodeBytes(params)
  OBVIOUS
<1>8. b \in Seq(Nat) /\ Len(b) = 4 + Len(params) /\ Len(params) \in Nat
  BY <1>2, <1>7, BlobWidth
<1>9. a \in Seq(Nat) /\ Len(a) >= 13 /\ Len(a) \in Nat
  BY <1>4, <1>6, <1>7 DEF ListWidth
<1>10. EncodeHistoryEntry(x) = a \o b
  BY <1>1, <1>3, <1>7, WholeLists, Zenon DEF EncodeHistoryEntry
<1>11. a \o b \in Seq(Nat) /\ Len(a \o b) >= 17
  BY <1>8, <1>9, Lengths
<1>. QED
  BY <1>1, <1>3, <1>4, <1>6, <1>7, <1>10, <1>11 DEF EntryHead

LEMMA EntryItems ==
    ASSUME NEW list \in Seq(WrittenEntry)
    PROVE  /\ ItemsOf(HistoryBytes(list), Len(list), 17)
           /\ \A i \in 1..Len(list) :
                HistoryBytes(list)[i] = EncodeHistoryEntry(list[i]) /\ list[i] \in WrittenEntry
<1>1. DOMAIN list = 1..Len(list) /\ Len(list) \in Nat /\ \A i \in 1..Len(list) : list[i] \in WrittenEntry
  OBVIOUS
<1>2. PICK items : items = HistoryBytes(list)
  OBVIOUS
<1>3. items = [i \in 1..Len(list) |-> items[i]] /\ \A i \in 1..Len(list) : items[i] = EncodeHistoryEntry(list[i])
  BY <1>1, <1>2 DEF HistoryBytes
<1>4. \A i \in 1..Len(list) : items[i] \in Seq(Nat) /\ Len(items[i]) >= 17
  <2> TAKE i \in 1..Len(list)
  <2>1. PICK x \in WrittenEntry : items[i] = EncodeHistoryEntry(x)
    BY <1>1, <1>3
  <2>. QED
    BY <2>1, EntryWidth
<1>5. ItemsOf(items, Len(list), 17)
  BY <1>1, <1>3, <1>4, ItemsAre
<1>. QED
  BY <1>1, <1>2, <1>3, <1>5

-----------------------------------------------------------------------------
\* The heads of the lists: what the reads return, and why a row fails.

\* What comes before the count, and the count.
ListRead(h, n) ==
    /\ Len(h) \in Nat
    /\ HereAt(0, h)
    /\ Len(h) + 4 <= remaining_len => U32(Len(h)) = n

LEMMA ListReads ==
    ASSUME CursorOK, NEW h \in Seq(Nat), NEW n \in Nat, NEW items \in Seq(Seq(Nat)),
           HereAt(0, h \o Listed(n, items))
    PROVE  ListRead(h, n) /\ HereAt(Len(h) + 4, FlattenSeq(items))
<1>1. PICK p, f : p = PackU32(n) /\ f = FlattenSeq(items)
  OBVIOUS
<1>2. Listed(n, items) \in Seq(Nat) /\ f \in Seq(Nat) /\ p \in Seq(Nat) /\ 0 \in Nat
  BY <1>1, ListedTyped
<1>3. Len(p) = 4 /\ Listed(n, items) = p \o f
  BY <1>1 DEF PackU32, Listed
<1>4. HereBoth(0, h, Listed(n, items))
  BY <1>2, HereSplit, Zenon
<1>5. PICK o \in Nat : o = 0 + Len(h) /\ HereAt(o, p \o f)
  BY <1>3, <1>4 DEF HereBoth
<1>6. HereBoth(o, p, f)
  BY <1>2, <1>5, HereSplit, Zenon
<1>7. HereAt(0, h) /\ HereAt(o, PackU32(n)) /\ HereAt(o + Len(p), f)
  BY <1>1, <1>4, <1>6, Zenon DEF HereBoth
<1>8. o = Len(h) /\ o + Len(p) = Len(h) + 4
  BY <1>3, <1>5
<1>9. o + 4 <= remaining_len => U32(o) = n
  BY <1>7, ReadsU32
<1>. QED
  BY <1>1, <1>7, <1>8, <1>9 DEF ListRead

\* A byte of what comes before the count.
LEMMA HeadByte ==
    ASSUME NEW h, NEW n, ListRead(h, n), NEW j \in 1..Len(h), j <= remaining_len
    PROVE  U8(j - 1) = h[j]
<1>1. 0 + j = j /\ j \in Nat
  BY DEF ListRead
<1>. QED
  BY <1>1 DEF ListRead, HereAt

OneListRead(n) ==
    /\ remaining_len \in Int
    /\ 1 <= remaining_len => U8(0) = 1
    /\ 5 <= remaining_len => U32(1) = n

LEMMA OneListReads ==
    ASSUME CursorOK, NEW n \in Nat, NEW items \in Seq(Seq(Nat)),
           HereAt(0, << 1 >> \o Listed(n, items))
    PROVE  OneListRead(n)
<1>1. PICK h : h = << 1 >>
  OBVIOUS
<1>2. h \in Seq(Nat) /\ Len(h) = 1 /\ h[1] = 1 /\ HereAt(0, h \o Listed(n, items))
  BY <1>1
<1>3. ListRead(h, n)
  BY <1>2, ListReads
<1>4. 1 <= remaining_len => U8(1 - 1) = h[1]
  BY <1>2, <1>3, HeadByte
<1>. QED
  BY <1>2, <1>3, <1>4 DEF ListRead, OneListRead, CursorOK, remaining_len

\* A list of n items of w bytes at least, after h.
LongList(h, n, items, w) ==
    /\ Len(h \o Listed(n, items)) \in Nat /\ Len(h) \in Nat /\ n \in Nat /\ w * n \in Nat
    /\ Len(h \o Listed(n, items)) >= Len(h) + 4 + w * n
    /\ items \in Seq(Seq(Nat))

LEMMA ListLong ==
    ASSUME NEW h \in Seq(Nat), NEW n, NEW items, NEW w \in Nat, ItemsOf(items, n, w)
    PROVE  LongList(h, n, items, w)
<1>1. n \in Nat /\ items \in Seq(Seq(Nat))
  BY DEF ItemsOf
<1>2. ListWidth(h, n, items)
  BY <1>1, ListLength
<1>3. PICK f \in Nat : f = Len(FlattenSeq(items)) /\ f >= w * n
  BY ItemsLong
<1>4. Len(h \o Listed(n, items)) = Len(h) + 4 + f /\ Len(h) \in Nat
  BY <1>2, <1>3 DEF ListWidth
<1>5. w * n \in Nat
  BY <1>1
<1>6. Len(h) + 4 + f \in Nat /\ Len(h) + 4 + f >= Len(h) + 4 + w * n
  BY <1>3, <1>4, <1>5
<1>. QED
  BY <1>1, <1>4, <1>5, <1>6, Zenon DEF LongList

\* The bytes a count announces are there, or fewer than the list takes.
LEMMA CountShort ==
    ASSUME remaining_len \in Int, NEW N \in Nat, NEW o \in Nat, NEW n \in Nat, NEW w \in Nat,
           N >= o + w * n
    PROVE  Short(Check(remaining_len - o >= n * w, "Truncated"), N)
<1>1. PICK k \in Nat : k = w * n /\ k = n * w
  OBVIOUS
<1>. QED
  BY <1>1 DEF Short, Check

LEMMA FlagsHeadShort ==
    ASSUME CursorOK, NEW n, NEW items, ItemsOf(items, n, 3), HereAt(0, << 1 >> \o Listed(n, items))
    PROVE  OnlyShort(FlagsHeadChecks, Len(<< 1 >> \o Listed(n, items)))
<1>1. << 1 >> \in Seq(Nat) /\ Len(<< 1 >>) = 1 /\ 3 \in Nat
  OBVIOUS
<1>2. PICK N : N = Len(<< 1 >> \o Listed(n, items))
  OBVIOUS
<1>3. N \in Nat /\ n \in Nat /\ N >= 5 + 3 * n /\ items \in Seq(Seq(Nat)) /\ 3 * n \in Nat
  <2>1. LongList(<< 1 >>, n, items, 3)
    BY <1>1, ListLong, Zenon
  <2>. QED
    BY <1>1, <1>2, <2>1 DEF LongList
<1>4. OneListRead(n) /\ remaining_len \in Int
  BY <1>3, OneListReads DEF OneListRead
<1>5. Short(Read(1), N) /\ (Read(1) = "ok" => 1 <= remaining_len)
  BY <1>3, <1>4, ReadShort
<1>6. Read(1) = "ok" => Short(Check(U8(0) = FEATURE_FLAGS_SECTION_VERSION, "Unsupported"), N)
  BY <1>4, <1>5 DEF OneListRead, Short, Check, FEATURE_FLAGS_SECTION_VERSION
<1>7. Short(Read(5), N) /\ (Read(5) = "ok" => 5 <= remaining_len)
  BY <1>3, <1>4, ReadShort
<1>8. Read(5) = "ok" => Short(Check(remaining_len - 5 >= U32(1) * FLAG_ENTRY_LEN, "Truncated"), N)
  <2>1. ASSUME Read(5) = "ok"
        PROVE  U32(1) = n
    BY <1>4, <1>7, <2>1 DEF OneListRead
  <2>2. Short(Check(remaining_len - 5 >= n * 3, "Truncated"), N)
    BY <1>3, <1>4, CountShort
  <2>. QED
    BY <2>1, <2>2 DEF FLAG_ENTRY_LEN
<1>9. OnlyShort(FlagsHeadChecks, N)
  BY <1>5, <1>6, <1>7, <1>8, Short4, Zenon DEF FlagsHeadChecks
<1>. QED
  BY <1>2, <1>9

LEMMA SlabIndexHeadShort ==
    ASSUME CursorOK, NEW n, NEW items, ItemsOf(items, n, 44), HereAt(0, << 1 >> \o Listed(n, items))
    PROVE  OnlyShort(SlabIndexHeadChecks, Len(<< 1 >> \o Listed(n, items)))
<1>1. << 1 >> \in Seq(Nat) /\ Len(<< 1 >>) = 1 /\ 44 \in Nat
  OBVIOUS
<1>2. PICK N : N = Len(<< 1 >> \o Listed(n, items))
  OBVIOUS
<1>3. N \in Nat /\ n \in Nat /\ N >= 5 + 44 * n /\ items \in Seq(Seq(Nat)) /\ 44 * n \in Nat
  <2>1. LongList(<< 1 >>, n, items, 44)
    BY <1>1, ListLong, Zenon
  <2>. QED
    BY <1>1, <1>2, <2>1 DEF LongList
<1>4. OneListRead(n) /\ remaining_len \in Int
  BY <1>3, OneListReads DEF OneListRead
<1>5. Short(Read(1), N) /\ (Read(1) = "ok" => 1 <= remaining_len)
  BY <1>3, <1>4, ReadShort
<1>6. Read(1) = "ok" => Short(Check(U8(0) = SLAB_INDEX_SECTION_VERSION, "Unsupported"), N)
  BY <1>4, <1>5 DEF OneListRead, Short, Check, SLAB_INDEX_SECTION_VERSION
<1>7. Short(Read(5), N) /\ (Read(5) = "ok" => 5 <= remaining_len)
  BY <1>3, <1>4, ReadShort
<1>8. Read(5) = "ok" => Short(Check(remaining_len - 5 >= U32(1) * SLAB_ENTRY_FIXED_LEN, "Truncated"), N)
  <2>1. ASSUME Read(5) = "ok"
        PROVE  U32(1) = n
    BY <1>4, <1>7, <2>1 DEF OneListRead
  <2>2. Short(Check(remaining_len - 5 >= n * 44, "Truncated"), N)
    BY <1>3, <1>4, CountShort
  <2>3. SLAB_ENTRY_FIXED_LEN = 44
    BY DEF SLAB_ENTRY_FIXED_LEN, SLAB_ID_LEN
  <2>. QED
    BY <2>1, <2>2, <2>3
<1>9. OnlyShort(SlabIndexHeadChecks, N)
  BY <1>5, <1>6, <1>7, <1>8, Short4, Zenon DEF SlabIndexHeadChecks
<1>. QED
  BY <1>2, <1>9

LEMMA HistoryHeadShort ==
    ASSUME CursorOK, NEW n, NEW items, ItemsOf(items, n, 17), HereAt(0, << 1 >> \o Listed(n, items)),
           n # 0
    PROVE  OnlyShort(HistoryHeadChecks, Len(<< 1 >> \o Listed(n, items)))
<1>1. << 1 >> \in Seq(Nat) /\ Len(<< 1 >>) = 1 /\ 17 \in Nat
  OBVIOUS
<1>2. PICK N : N = Len(<< 1 >> \o Listed(n, items))
  OBVIOUS
<1>3. N \in Nat /\ n \in Nat /\ N >= 5 + 17 * n /\ items \in Seq(Seq(Nat)) /\ 17 * n \in Nat
  <2>1. LongList(<< 1 >>, n, items, 17)
    BY <1>1, ListLong, Zenon
  <2>. QED
    BY <1>1, <1>2, <2>1 DEF LongList
<1>4. OneListRead(n) /\ remaining_len \in Int
  BY <1>3, OneListReads DEF OneListRead
<1>5. Short(Read(1), N) /\ (Read(1) = "ok" => 1 <= remaining_len)
  BY <1>3, <1>4, ReadShort
<1>6. Read(1) = "ok" => Short(Check(U8(0) = HISTORY_SECTION_VERSION, "Unsupported"), N)
  BY <1>4, <1>5 DEF OneListRead, Short, Check, HISTORY_SECTION_VERSION
<1>7. Short(Read(5), N) /\ (Read(5) = "ok" => 5 <= remaining_len)
  BY <1>3, <1>4, ReadShort
<1>8. Read(5) = "ok" => U32(1) = n
  BY <1>4, <1>7 DEF OneListRead
<1>9. Read(5) = "ok" => Short(Check(U32(1) # 0, "Corrupt"), N)
  BY <1>8 DEF Short, Check
<1>10. Read(5) = "ok" => Short(Check(remaining_len - 5 >= U32(1) * MIN_ENTRY_WIDTH, "Truncated"), N)
  <2>1. Short(Check(remaining_len - 5 >= n * 17, "Truncated"), N)
    BY <1>3, <1>4, CountShort
  <2>2. MIN_ENTRY_WIDTH = 17
    BY DEF MIN_ENTRY_WIDTH, HISTORY_ENTRY_FIXED_LEN
  <2>. QED
    BY <1>8, <2>1, <2>2
<1>11. OnlyShort(HistoryHeadChecks, N)
  BY <1>5, <1>6, <1>7, <1>9, <1>10, Short5, Zenon DEF HistoryHeadChecks
<1>. QED
  BY <1>2, <1>11

\* The count a head of one byte has.
LEMMA OneListMet ==
    ASSUME CursorOK, NEW n \in Nat, NEW items \in Seq(Seq(Nat)),
           HereAt(0, << 1 >> \o Listed(n, items)),
           position + 5 <= Len(buf)
    PROVE  U32(1) = n
<1>1. OneListRead(n)
  BY OneListReads
<1>. QED
  BY <1>1 DEF OneListRead, CursorOK, remaining_len

\* The metadata reference: its version and its hash come before the count.
ReferenceHead(hash) == << 1 >> \o hash

ReferenceHeadRead(hash, n) ==
    /\ remaining_len \in Int
    /\ 1 <= remaining_len => U8(0) = 1
    /\ 33 <= remaining_len => Bytes(1, 32) = hash
    /\ 37 <= remaining_len => U32(33) = n
    /\ ReferenceHead(hash) \in Seq(Nat) /\ Len(ReferenceHead(hash)) = 33

LEMMA ReferenceReads ==
    ASSUME CursorOK, NEW hash \in Seq(Nat), Len(hash) = 32, NEW n \in Nat,
           NEW items \in Seq(Seq(Nat)),
           HereAt(0, ReferenceHead(hash) \o Listed(n, items))
    PROVE  ReferenceHeadRead(hash, n)
<1>1. PICK one, h : one = << 1 >> /\ h = ReferenceHead(hash)
  OBVIOUS
<1>2. one \in Seq(Nat) /\ Len(one) = 1 /\ one[1] = 1 /\ 0 \in Nat /\ remaining_len \in Int
  BY <1>1 DEF CursorOK, remaining_len
<1>3. h = one \o hash
  BY <1>1 DEF ReferenceHead
<1>4. h \in Seq(Nat) /\ Len(h) = Len(one) + Len(hash)
  BY <1>2, <1>3, Lengths, Zenon
<1>5. Len(h) = 33
  BY <1>2, <1>4
<1>6. ListRead(h, n)
  BY <1>1, <1>4, ListReads
<1>7. HereAt(0, one \o hash)
  BY <1>3, <1>6 DEF ListRead
<1>8. HereBoth(0, one, hash)
  BY <1>2, <1>7, HereSplit, Zenon
<1>9. HereAt(0, << 1 >>) /\ HereAt(0 + Len(one), hash)
  BY <1>1, <1>8 DEF HereBoth
<1>10. 1 <= remaining_len => U8(0) = 1
  BY <1>9, ReadsU8
<1>11. 33 <= remaining_len => Bytes(1, 32) = hash
  <2>1. HereAt(1, hash) /\ 1 \in Nat /\ 1 + Len(hash) = 33
    BY <1>2, <1>9
  <2>. QED
    BY <2>1, ReadsBytes
<1>12. 37 <= remaining_len => U32(33) = n
  BY <1>5, <1>6 DEF ListRead
<1>. QED
  BY <1>1, <1>2, <1>4, <1>5, <1>10, <1>11, <1>12 DEF ReferenceHeadRead

LEMMA ReferenceHeadMet ==
    ASSUME CursorOK, NEW hash \in Seq(Nat), Len(hash) = 32, NEW n \in Nat,
           NEW items \in Seq(Seq(Nat)),
           HereAt(0, ReferenceHead(hash) \o Listed(n, items)), position + 37 <= Len(buf)
    PROVE  Bytes(1, 32) = hash /\ U32(33) = n
<1>1. ReferenceHeadRead(hash, n)
  BY ReferenceReads
<1>. QED
  BY <1>1 DEF ReferenceHeadRead, CursorOK, remaining_len

LEMMA ReferenceHeadShort ==
    ASSUME CursorOK, NEW hash \in Seq(Nat), Len(hash) = 32, NEW n, NEW items, ItemsOf(items, n, 8),
           HereAt(0, ReferenceHead(hash) \o Listed(n, items))
    PROVE  OnlyShort(MetadataHeadChecks, Len(ReferenceHead(hash) \o Listed(n, items)))
<1>1. PICK h, N : h = ReferenceHead(hash) /\ N = Len(h \o Listed(n, items))
  OBVIOUS
<1>2. n \in Nat /\ items \in Seq(Seq(Nat)) /\ 8 \in Nat
  BY DEF ItemsOf
<1>3. ReferenceHeadRead(hash, n)
  BY <1>2, ReferenceReads
<1>4. h \in Seq(Nat) /\ Len(h) = 33 /\ remaining_len \in Int
  BY <1>1, <1>3 DEF ReferenceHeadRead
<1>5. N \in Nat /\ N >= 37 + 8 * n /\ 8 * n \in Nat
  <2>1. LongList(h, n, items, 8)
    BY <1>2, <1>4, ListLong, Zenon
  <2>. QED
    BY <1>1, <1>4, <2>1 DEF LongList
<1>6. Short(Read(1), N) /\ (Read(1) = "ok" => 1 <= remaining_len)
  BY <1>4, <1>5, ReadShort
<1>7. Read(1) = "ok" => Short(Check(U8(0) = METADATA_REFERENCE_SECTION_VERSION, "Unsupported"), N)
  BY <1>3, <1>6 DEF ReferenceHeadRead, Short, Check, METADATA_REFERENCE_SECTION_VERSION
<1>8. Short(Read(33), N)
  BY <1>4, <1>5, ReadShort
<1>9. Short(Read(37), N) /\ (Read(37) = "ok" => 37 <= remaining_len)
  BY <1>4, <1>5, ReadShort
<1>10. Read(37) = "ok" => Short(CountCheck(37, U32(33)), N)
  <2>1. ASSUME Read(37) = "ok"
        PROVE  U32(33) = n
    BY <1>3, <1>9, <2>1 DEF ReferenceHeadRead
  <2>2. Short(Check(remaining_len - 37 >= n * 8, "Truncated"), N)
    BY <1>2, <1>4, <1>5, CountShort
  <2>3. LOCATOR_LENGTH_PREFIX_LEN + MIN_LOCATOR_URI_BYTES = 8
    BY DEF LOCATOR_LENGTH_PREFIX_LEN, MIN_LOCATOR_URI_BYTES
  <2>. QED
    BY <2>1, <2>2, <2>3 DEF CountCheck
<1>11. OnlyShort(MetadataHeadChecks, N)
  <2>1. PICK r1, r2, r3, r4, r5 :
          /\ r1 = Read(1) /\ r2 = Check(U8(0) = METADATA_REFERENCE_SECTION_VERSION, "Unsupported")
          /\ r3 = Read(33) /\ r4 = Read(37) /\ r5 = CountCheck(37, U32(33))
    OBVIOUS
  <2>2. MetadataHeadChecks = <<r1, r2, r3, r4, r5>>
    BY <2>1 DEF MetadataHeadChecks
  <2>3. /\ Short(r1, N) /\ Short(r3, N) /\ Short(r4, N)
        /\ r1 = "ok" => Short(r2, N)
        /\ r4 = "ok" => Short(r5, N)
    BY <1>6, <1>7, <1>8, <1>9, <1>10, <2>1
  <2>4. OnlyShort(<<r1, r2, r3, r4, r5>>, N)
    BY <2>3, Short5
  <2>. QED
    BY <2>2, <2>4
<1>. QED
  BY <1>1, <1>11

\* An entry of the slab index, up to its locators.
SlabRead(id, n) ==
    /\ remaining_len \in Int
    /\ 40 <= remaining_len => Bytes(0, 40) = id
    /\ 44 <= remaining_len => U32(40) = n

LEMMA SlabReads ==
    ASSUME CursorOK, NEW id \in Seq(Nat), Len(id) = 40, NEW n \in Nat, NEW items \in Seq(Seq(Nat)),
           HereAt(0, id \o Listed(n, items))
    PROVE  SlabRead(id, n)
<1>1. ListRead(id, n) /\ remaining_len \in Int
  BY ListReads DEF CursorOK, remaining_len
<1>2. 40 <= remaining_len => Bytes(0, 40) = id
  <2>1. 0 \in Nat /\ 0 + Len(id) = 40 /\ HereAt(0, id)
    BY <1>1 DEF ListRead
  <2>. QED
    BY <2>1, ReadsBytes
<1>. QED
  BY <1>1, <1>2 DEF SlabRead, ListRead

LEMMA SlabMet ==
    ASSUME CursorOK, NEW id \in Seq(Nat), Len(id) = 40, NEW n \in Nat, NEW items \in Seq(Seq(Nat)),
           HereAt(0, id \o Listed(n, items)), position + 44 <= Len(buf)
    PROVE  Bytes(0, 40) = id /\ U32(40) = n
<1>1. SlabRead(id, n)
  BY SlabReads
<1>. QED
  BY <1>1 DEF SlabRead, CursorOK, remaining_len

LEMMA SlabShort ==
    ASSUME CursorOK, NEW id \in Seq(Nat), Len(id) = 40, NEW n, NEW items, ItemsOf(items, n, 8),
           HereAt(0, id \o Listed(n, items)), n # 0,
           \A i \in DOMAIN slab_index : slab_index[i].slab_id # id
    PROVE  OnlyShort(SlabEntryChecks, Len(id \o Listed(n, items)))
<1>1. PICK N : N = Len(id \o Listed(n, items))
  OBVIOUS
<1>2. n \in Nat /\ items \in Seq(Seq(Nat)) /\ 8 \in Nat
  BY DEF ItemsOf
<1>3. SlabRead(id, n) /\ remaining_len \in Int
  BY <1>2, SlabReads DEF SlabRead
<1>4. N \in Nat /\ N >= 44 + 8 * n /\ 8 * n \in Nat
  <2>1. LongList(id, n, items, 8)
    BY <1>2, ListLong, Zenon
  <2>. QED
    BY <1>1, <2>1 DEF LongList
<1>5. Short(Read(8), N)
  BY <1>3, <1>4, ReadShort
<1>6. Short(Read(SLAB_ID_LEN), N) /\ (Read(SLAB_ID_LEN) = "ok" => 40 <= remaining_len)
  BY <1>3, <1>4, ReadShort DEF SLAB_ID_LEN
<1>7. Read(SLAB_ID_LEN) = "ok" =>
        Short(Check(\A i \in DOMAIN slab_index : slab_index[i].slab_id # Bytes(0, SLAB_ID_LEN), "Corrupt"), N)
  <2>1. ASSUME Read(SLAB_ID_LEN) = "ok"
        PROVE  \A i \in DOMAIN slab_index : slab_index[i].slab_id # Bytes(0, SLAB_ID_LEN)
    BY <1>3, <1>6, <2>1 DEF SlabRead, SLAB_ID_LEN
  <2>. QED
    BY <2>1 DEF Short, Check
<1>8. Short(Read(44), N) /\ (Read(44) = "ok" => 44 <= remaining_len)
  BY <1>3, <1>4, ReadShort
<1>9. Read(44) = "ok" => U32(SLAB_ID_LEN) = n
  BY <1>3, <1>8 DEF SlabRead, SLAB_ID_LEN
<1>10. Read(44) = "ok" => Short(Check(U32(SLAB_ID_LEN) # 0, "Corrupt"), N)
  BY <1>9 DEF Short, Check
<1>11. Read(44) = "ok" => Short(CountCheck(44, U32(SLAB_ID_LEN)), N)
  <2>1. Short(Check(remaining_len - 44 >= n * 8, "Truncated"), N)
    BY <1>2, <1>3, <1>4, CountShort
  <2>2. LOCATOR_LENGTH_PREFIX_LEN + MIN_LOCATOR_URI_BYTES = 8
    BY DEF LOCATOR_LENGTH_PREFIX_LEN, MIN_LOCATOR_URI_BYTES
  <2>. QED
    BY <1>9, <2>1, <2>2 DEF CountCheck
<1>12. OnlyShort(SlabEntryChecks, N)
  <2>1. PICK r1, r2, r3, r4, r5, r6 :
          /\ r1 = Read(8) /\ r2 = Read(SLAB_ID_LEN)
          /\ r3 = Check(\A i \in DOMAIN slab_index : slab_index[i].slab_id # Bytes(0, SLAB_ID_LEN), "Corrupt")
          /\ r4 = Read(44) /\ r5 = Check(U32(SLAB_ID_LEN) # 0, "Corrupt")
          /\ r6 = CountCheck(44, U32(SLAB_ID_LEN))
    OBVIOUS
  <2>2. SlabEntryChecks = <<r1, r2, r3, r4, r5, r6>>
    BY <2>1 DEF SlabEntryChecks
  <2>3. /\ Short(r1, N) /\ Short(r2, N) /\ Short(r4, N)
        /\ r2 = "ok" => Short(r3, N)
        /\ r4 = "ok" => Short(r5, N) /\ Short(r6, N)
    BY <1>5, <1>6, <1>7, <1>8, <1>10, <1>11, <2>1
  <2>4. OnlyShort(<<r1, r2, r3, r4, r5, r6>>, N)
    BY <2>3, Short6
  <2>. QED
    BY <2>2, <2>4
<1>. QED
  BY <1>1, <1>12

-----------------------------------------------------------------------------
\* The manifest header.
LEMMA HeaderReads ==
    ASSUME CursorOK, NEW x \in ManifestHeaderType, HereAt(0, EncodeHeader(x))
    PROVE  /\ Len(EncodeHeader(x)) = 16
           /\ 4 <= remaining_len => Bytes(0, 4) = MANIFEST_MAGIC
           /\ 6 <= remaining_len => U16(4) = x.drop_store_version
           /\ 8 <= remaining_len => U16(6) = x.metadata_version
           /\ 10 <= remaining_len => U16(8) = x.manifest_version
           /\ 16 <= remaining_len => \A o \in 10..15 : U8(o) = 0
<1>1. PICK d, e, v : d = x.drop_store_version /\ e = x.metadata_version /\ v = x.manifest_version
  OBVIOUS
<1>2. d \in Nat /\ e \in Nat /\ v \in Nat
  <2>1. d \in U16Values /\ e \in U16Values /\ v \in U16Values
    BY <1>1 DEF ManifestHeaderType
  <2>. QED
    BY <2>1, WidthsAreNumbers
<1>3. PICK magic, pd, pe, pv, zeros :
        /\ magic = <<76, 77, 70, 83>> /\ pd = PackU16(d) /\ pe = PackU16(e) /\ pv = PackU16(v)
        /\ zeros = <<0, 0, 0, 0, 0, 0>>
  OBVIOUS
<1>4. /\ magic \in Seq(Nat) /\ Len(magic) = 4 /\ zeros \in Seq(Nat) /\ Len(zeros) = 6
      /\ \A j \in 1..6 : zeros[j] = 0
  BY <1>3
<1>5. pd \in Seq(Nat) /\ pe \in Seq(Nat) /\ pv \in Seq(Nat)
  BY <1>2, <1>3, PackTyped
<1>6. Len(pd) = 2 /\ Len(pe) = 2 /\ Len(pv) = 2
  BY <1>3 DEF PackU16
<1>7. EncodeHeader(x) = (((magic \o pd) \o pe) \o pv) \o zeros
  BY <1>1, <1>3 DEF EncodeHeader
<1>8. PICK a, b, c : a = magic \o pd /\ b = a \o pe /\ c = b \o pv
  OBVIOUS
<1>9. a \in Seq(Nat) /\ Len(a) = Len(magic) + Len(pd)
  BY <1>4, <1>5, <1>8, Lengths, Zenon
<1>10. b \in Seq(Nat) /\ Len(b) = Len(a) + Len(pe)
  BY <1>5, <1>8, <1>9, Lengths, Zenon
<1>11. c \in Seq(Nat) /\ Len(c) = Len(b) + Len(pv)
  BY <1>5, <1>8, <1>10, Lengths, Zenon
<1>12. 0 \in Nat /\ EncodeHeader(x) = c \o zeros
  BY <1>7, <1>8
<1>13. HereBoth(0, c, zeros)
  BY <1>4, <1>11, <1>12, HereSplit, Zenon
<1>14. HereAt(0, b \o pv)
  BY <1>8, <1>13, Zenon DEF HereBoth
<1>15. HereBoth(0, b, pv)
  BY <1>5, <1>10, <1>12, <1>14, HereSplit, Zenon
<1>16. HereAt(0, a \o pe)
  BY <1>8, <1>15, Zenon DEF HereBoth
<1>17. HereBoth(0, a, pe)
  BY <1>5, <1>9, <1>12, <1>16, HereSplit, Zenon
<1>18. HereAt(0, magic \o pd)
  BY <1>8, <1>17, Zenon DEF HereBoth
<1>19. HereBoth(0, magic, pd)
  BY <1>4, <1>5, <1>12, <1>18, HereSplit, Zenon
<1>20. /\ HereAt(0 + Len(c), zeros) /\ HereAt(0 + Len(b), pv) /\ HereAt(0 + Len(a), pe)
       /\ HereAt(0 + Len(magic), pd) /\ HereAt(0, magic) /\ Len(c \o zeros) = Len(c) + Len(zeros)
  BY <1>13, <1>15, <1>17, <1>19, Zenon DEF HereBoth
<1>21. /\ 0 + Len(magic) = 4 /\ 0 + Len(a) = 6 /\ 0 + Len(b) = 8 /\ 0 + Len(c) = 10
       /\ Len(c) + Len(zeros) = 16
  BY <1>4, <1>6, <1>9, <1>10, <1>11
<1>22. Len(EncodeHeader(x)) = 16
  BY <1>12, <1>20, <1>21, Zenon
<1>23. remaining_len \in Int /\ 4 \in Nat /\ 6 \in Nat /\ 8 \in Nat
  BY DEF CursorOK, remaining_len
<1>24. 4 <= remaining_len => Bytes(0, 4) = MANIFEST_MAGIC
  <2>1. 0 + Len(magic) = 4 /\ HereAt(0, magic)
    BY <1>4, <1>20
  <2>2. 4 <= remaining_len => Bytes(0, Len(magic)) = magic
    BY <1>4, <1>12, <2>1, ReadsBytes
  <2>. QED
    BY <1>3, <1>4, <2>2 DEF MANIFEST_MAGIC
<1>25. 6 <= remaining_len => U16(4) = d
  <2>1. HereAt(4, PackU16(d))
    BY <1>3, <1>20, <1>21, Zenon
  <2>2. 4 + 2 = 6
    OBVIOUS
  <2>. QED
    BY <1>2, <1>23, <2>1, <2>2, ReadsU16
<1>26. 8 <= remaining_len => U16(6) = e
  <2>1. HereAt(6, PackU16(e))
    BY <1>3, <1>20, <1>21, Zenon
  <2>2. 6 + 2 = 8
    OBVIOUS
  <2>. QED
    BY <1>2, <1>23, <2>1, <2>2, ReadsU16
<1>27. 10 <= remaining_len => U16(8) = v
  <2>1. HereAt(8, PackU16(v))
    BY <1>3, <1>20, <1>21, Zenon
  <2>2. 8 + 2 = 10
    OBVIOUS
  <2>. QED
    BY <1>2, <1>23, <2>1, <2>2, ReadsU16
<1>28. ASSUME 16 <= remaining_len, NEW o \in 10..15
       PROVE  U8(o) = 0
  <2>1. PICK j \in 1..6 : j = o - 9 /\ 10 + j - 1 = o /\ 10 + j <= remaining_len
    BY <1>23, <1>28
  <2>2. j \in 1..Len(zeros) /\ zeros[j] = 0
    BY <1>4, <2>1
  <2>3. HereAt(10, zeros)
    BY <1>20, <1>21, Zenon
  <2>4. U8(10 + j - 1) = zeros[j]
    BY <2>1, <2>2, <2>3 DEF HereAt
  <2>. QED
    BY <2>1, <2>2, <2>4
<1>. QED
  BY <1>1, <1>22, <1>24, <1>25, <1>26, <1>27, <1>28

LEMMA HeaderMet ==
    ASSUME CursorOK, NEW x \in ManifestHeaderType, HereAt(0, EncodeHeader(x)), Passes(HeaderChecks)
    PROVE  [drop_store_version |-> U16(4), metadata_version |-> U16(6), manifest_version |-> U16(8)] = x
<1>1. position + 16 <= Len(buf)
  BY HeaderPassed
<1>2. 6 <= remaining_len /\ 8 <= remaining_len /\ 10 <= remaining_len
  BY <1>1 DEF CursorOK, remaining_len
<1>3. U16(4) = x.drop_store_version /\ U16(6) = x.metadata_version /\ U16(8) = x.manifest_version
  BY <1>2, HeaderReads
<1>. QED
  BY <1>3 DEF ManifestHeaderType

LEMMA HeaderShort ==
    ASSUME CursorOK, NEW x \in ManifestHeaderType, HereAt(0, EncodeHeader(x))
    PROVE  OnlyShort(HeaderChecks, 16)
<1>1. /\ 4 <= remaining_len => Bytes(0, 4) = MANIFEST_MAGIC
      /\ 16 <= remaining_len => \A o \in 10..15 : U8(o) = 0
  BY HeaderReads
<1>2. remaining_len \in Int
  BY DEF CursorOK, remaining_len
<1>3. Short(Read(4), 16) /\ (Read(4) = "ok" => 4 <= remaining_len)
  BY <1>2, ReadShort
<1>4. Read(4) = "ok" => Short(Check(Bytes(0, 4) = MANIFEST_MAGIC, "BadMagic"), 16)
  BY <1>1, <1>3 DEF Short, Check
<1>5. Short(Read(6), 16) /\ Short(Read(8), 16) /\ Short(Read(10), 16)
  BY <1>2, ReadShort
<1>6. Short(Read(16), 16) /\ (Read(16) = "ok" => 16 <= remaining_len)
  BY <1>2, ReadShort
<1>7. Read(16) = "ok" => Short(Check(\A o \in 10..15 : U8(o) = 0, "Corrupt"), 16)
  BY <1>1, <1>6 DEF Short, Check
<1>8. PICK r1, r2, r3, r4, r5, r6, r7 :
        /\ r1 = Read(4) /\ r2 = Check(Bytes(0, 4) = MANIFEST_MAGIC, "BadMagic")
        /\ r3 = Read(6) /\ r4 = Read(8) /\ r5 = Read(10) /\ r6 = Read(16)
        /\ r7 = Check(\A o \in 10..15 : U8(o) = 0, "Corrupt")
  OBVIOUS
<1>9. HeaderChecks = <<r1, r2, r3, r4, r5, r6, r7>>
  BY <1>8 DEF HeaderChecks
<1>10. /\ Short(r1, 16) /\ Short(r3, 16) /\ Short(r4, 16) /\ Short(r5, 16) /\ Short(r6, 16)
       /\ r1 = "ok" => Short(r2, 16)
       /\ r6 = "ok" => Short(r7, 16)
  BY <1>3, <1>4, <1>5, <1>6, <1>7, <1>8
<1>11. OnlyShort(<<r1, r2, r3, r4, r5, r6, r7>>, 16)
  BY <1>10, Short7
<1>. QED
  BY <1>9, <1>11

\* The EC parameters: their version, the two widths and the polynomial come before the count.
EcHead(k, m) == <<1, k, m>> \o PackU16(DEFAULT_EC_POLYNOMIAL)

EcHeadRead(k, m, n) ==
    /\ remaining_len \in Int
    /\ 1 <= remaining_len => U8(0) = 1
    /\ 3 <= remaining_len => U8(1) = k /\ U8(2) = m
    /\ 5 <= remaining_len => U16(3) = 285
    /\ 9 <= remaining_len => U32(5) = n
    /\ EcHead(k, m) \in Seq(Nat) /\ Len(EcHead(k, m)) = 5

LEMMA EcReads ==
    ASSUME CursorOK, NEW k \in Nat, NEW m \in Nat, NEW n \in Nat, NEW items \in Seq(Seq(Nat)),
           HereAt(0, EcHead(k, m) \o Listed(n, items))
    PROVE  EcHeadRead(k, m, n)
<1>1. PICK a, b, h : a = <<1, k, m>> /\ b = PackU16(285) /\ h = EcHead(k, m)
  OBVIOUS
<1>2. /\ a \in Seq(Nat) /\ Len(a) = 3 /\ a[1] = 1 /\ a[2] = k /\ a[3] = m
      /\ 0 \in Nat /\ 285 \in Nat /\ 3 \in Nat
  BY <1>1
<1>3. b \in Seq(Nat)
  BY <1>1, <1>2, PackTyped, Zenon
<1>4. Len(b) = 2
  BY <1>1 DEF PackU16
<1>5. h = a \o b
  BY <1>1, Zenon DEF EcHead, DEFAULT_EC_POLYNOMIAL
<1>6. h \in Seq(Nat) /\ Len(h) = Len(a) + Len(b)
  BY <1>2, <1>3, <1>5, Lengths, Zenon
<1>7. Len(h) = 5
  BY <1>2, <1>4, <1>6
<1>8. ListRead(h, n)
  BY <1>1, <1>6, ListReads
<1>9. HereAt(0, a \o b)
  BY <1>5, <1>8 DEF ListRead
<1>10. HereBoth(0, a, b)
  BY <1>2, <1>3, <1>9, HereSplit, Zenon
<1>11. HereAt(0, a) /\ HereAt(0 + Len(a), b) /\ 0 + Len(a) = 3
  BY <1>2, <1>10 DEF HereBoth
<1>12. remaining_len \in Int
  BY DEF CursorOK, remaining_len
<1>13. 1 <= remaining_len => U8(0) = 1
  <2>1. 1 \in 1..Len(a) /\ 0 + 1 - 1 = 0 /\ 0 + 1 = 1
    BY <1>2
  <2>. QED
    BY <1>2, <1>11, <2>1 DEF HereAt
<1>14. 3 <= remaining_len => U8(1) = k /\ U8(2) = m
  <2>1. 2 \in 1..Len(a) /\ 0 + 2 - 1 = 1 /\ 0 + 2 = 2 /\ 3 \in 1..Len(a) /\ 0 + 3 - 1 = 2 /\ 0 + 3 = 3
    BY <1>2
  <2>2. 3 <= remaining_len => 2 <= remaining_len
    BY <1>12
  <2>. QED
    BY <1>2, <1>11, <2>1, <2>2 DEF HereAt
<1>15. 5 <= remaining_len => U16(3) = 285
  <2>1. HereAt(3, PackU16(285)) /\ 3 + 2 = 5
    BY <1>1, <1>11
  <2>. QED
    BY <1>2, <2>1, ReadsU16
<1>16. 9 <= remaining_len => U32(5) = n
  BY <1>7, <1>8 DEF ListRead
<1>. QED
  BY <1>1, <1>6, <1>7, <1>12, <1>13, <1>14, <1>15, <1>16 DEF EcHeadRead

LEMMA EcMet ==
    ASSUME CursorOK, NEW k \in Nat, NEW m \in Nat, NEW n \in Nat, NEW items \in Seq(Seq(Nat)),
           HereAt(0, EcHead(k, m) \o Listed(n, items)), position + 9 <= Len(buf)
    PROVE  U8(1) = k /\ U8(2) = m /\ U32(5) = n
<1>1. EcHeadRead(k, m, n)
  BY EcReads
<1>. QED
  BY <1>1 DEF EcHeadRead, CursorOK, remaining_len

LEMMA EcShort ==
    ASSUME CursorOK, NEW k \in Nat, NEW m \in Nat, NEW n, NEW items, ItemsOf(items, n, 42),
           HereAt(0, EcHead(k, m) \o Listed(n, items)), ValidShards(k, m)
    PROVE  OnlyShort(EcHeadChecks, Len(EcHead(k, m) \o Listed(n, items)))
<1>1. PICK h, N : h = EcHead(k, m) /\ N = Len(h \o Listed(n, items))
  OBVIOUS
<1>2. n \in Nat /\ items \in Seq(Seq(Nat)) /\ 42 \in Nat
  BY DEF ItemsOf
<1>3. EcHeadRead(k, m, n)
  BY <1>2, EcReads
<1>4. h \in Seq(Nat) /\ Len(h) = 5 /\ remaining_len \in Int
  BY <1>1, <1>3 DEF EcHeadRead
<1>5. N \in Nat /\ N >= 9 + 42 * n /\ 42 * n \in Nat
  <2>1. LongList(h, n, items, 42)
    BY <1>2, <1>4, ListLong, Zenon
  <2>. QED
    BY <1>1, <1>4, <2>1 DEF LongList
<1>6. Short(Read(1), N) /\ (Read(1) = "ok" => 1 <= remaining_len)
  BY <1>4, <1>5, ReadShort
<1>7. Read(1) = "ok" => Short(Check(U8(0) = EC_PARAMS_SECTION_VERSION, "Unsupported"), N)
  BY <1>3, <1>6 DEF EcHeadRead, Short, Check, EC_PARAMS_SECTION_VERSION
<1>8. Short(Read(3), N) /\ (Read(3) = "ok" => 3 <= remaining_len)
  BY <1>4, <1>5, ReadShort
<1>9. Read(3) = "ok" => Short(Check(ValidShards(U8(1), U8(2)), "Corrupt"), N)
  BY <1>3, <1>8 DEF EcHeadRead, Short, Check
<1>10. Short(Read(5), N) /\ (Read(5) = "ok" => 5 <= remaining_len)
  BY <1>4, <1>5, ReadShort
<1>11. Read(5) = "ok" => Short(Check(U16(3) = DEFAULT_EC_POLYNOMIAL, "Unsupported"), N)
  BY <1>3, <1>10 DEF EcHeadRead, Short, Check, DEFAULT_EC_POLYNOMIAL
<1>12. Short(Read(9), N) /\ (Read(9) = "ok" => 9 <= remaining_len)
  BY <1>4, <1>5, ReadShort
<1>13. Read(9) = "ok" => Short(Check(remaining_len - 9 >= U32(5) * OVERRIDE_ENTRY_LEN, "Truncated"), N)
  <2>1. ASSUME Read(9) = "ok"
        PROVE  U32(5) = n
    BY <1>3, <1>12, <2>1 DEF EcHeadRead
  <2>2. Short(Check(remaining_len - 9 >= n * 42, "Truncated"), N)
    BY <1>2, <1>4, <1>5, CountShort
  <2>. QED
    BY <2>1, <2>2 DEF OVERRIDE_ENTRY_LEN
<1>14. OnlyShort(EcHeadChecks, N)
  <2>1. PICK r1, r2, r3, r4, r5, r6, r7, r8 :
          /\ r1 = Read(1) /\ r2 = Check(U8(0) = EC_PARAMS_SECTION_VERSION, "Unsupported")
          /\ r3 = Read(3) /\ r4 = Check(ValidShards(U8(1), U8(2)), "Corrupt")
          /\ r5 = Read(5) /\ r6 = Check(U16(3) = DEFAULT_EC_POLYNOMIAL, "Unsupported")
          /\ r7 = Read(9)
          /\ r8 = Check(remaining_len - 9 >= U32(5) * OVERRIDE_ENTRY_LEN, "Truncated")
    OBVIOUS
  <2>2. EcHeadChecks = <<r1, r2, r3, r4, r5, r6, r7, r8>>
    BY <2>1 DEF EcHeadChecks
  <2>3. /\ Short(r1, N) /\ Short(r3, N) /\ Short(r5, N) /\ Short(r7, N)
        /\ r1 = "ok" => Short(r2, N)
        /\ r3 = "ok" => Short(r4, N)
        /\ r5 = "ok" => Short(r6, N)
        /\ r7 = "ok" => Short(r8, N)
    BY <1>6, <1>7, <1>8, <1>9, <1>10, <1>11, <1>12, <1>13, <2>1
  <2>4. OnlyShort(<<r1, r2, r3, r4, r5, r6, r7, r8>>, N)
    BY <2>3, Short8
  <2>. QED
    BY <2>2, <2>4
<1>. QED
  BY <1>1, <1>14

\* The DMS policy: its version, its scheme, the threshold and n come before the count.
DmsHead(k, n) == <<1, DMS_SCHEME_SHAMIR, k, n>>

DmsHeadRead(k, n, count) ==
    /\ remaining_len \in Int
    /\ 1 <= remaining_len => U8(0) = 1
    /\ 2 <= remaining_len => U8(1) = DMS_SCHEME_SHAMIR
    /\ 4 <= remaining_len => U8(2) = k /\ U8(3) = n
    /\ 8 <= remaining_len => U32(4) = count

LEMMA DmsReads ==
    ASSUME CursorOK, NEW k \in Nat, NEW n \in Nat, NEW count \in Nat, NEW items \in Seq(Seq(Nat)),
           HereAt(0, DmsHead(k, n) \o Listed(count, items))
    PROVE  DmsHeadRead(k, n, count)
<1>1. PICK h : h = DmsHead(k, n)
  OBVIOUS
<1>2. /\ h \in Seq(Nat) /\ Len(h) = 4 /\ h[1] = 1 /\ h[2] = DMS_SCHEME_SHAMIR /\ h[3] = k /\ h[4] = n
  BY <1>1 DEF DmsHead, DMS_SCHEME_SHAMIR
<1>3. ListRead(h, count)
  BY <1>1, <1>2, ListReads
<1>4. remaining_len \in Int
  BY DEF CursorOK, remaining_len
<1>5. \A j \in 1..4 : j <= remaining_len => U8(j - 1) = h[j]
  BY <1>2, <1>3, HeadByte
<1>6. 1 - 1 = 0 /\ 2 - 1 = 1 /\ 3 - 1 = 2 /\ 4 - 1 = 3 /\ 1 \in 1..4 /\ 2 \in 1..4 /\ 3 \in 1..4 /\ 4 \in 1..4
  OBVIOUS
<1>7. 4 <= remaining_len => 3 <= remaining_len
  BY <1>4
<1>8. /\ 1 <= remaining_len => U8(0) = 1
      /\ 2 <= remaining_len => U8(1) = DMS_SCHEME_SHAMIR
      /\ 4 <= remaining_len => U8(2) = k /\ U8(3) = n
  BY <1>2, <1>5, <1>6, <1>7
<1>9. 8 <= remaining_len => U32(4) = count
  BY <1>2, <1>3 DEF ListRead
<1>. QED
  BY <1>4, <1>8, <1>9 DEF DmsHeadRead

LEMMA DmsMet ==
    ASSUME CursorOK, NEW k \in Nat, NEW n \in Nat, NEW count \in Nat, NEW items \in Seq(Seq(Nat)),
           HereAt(0, DmsHead(k, n) \o Listed(count, items)), position + 8 <= Len(buf)
    PROVE  U8(2) = k /\ U8(3) = n /\ U32(4) = count
<1>1. DmsHeadRead(k, n, count)
  BY DmsReads
<1>. QED
  BY <1>1 DEF DmsHeadRead, CursorOK, remaining_len

LEMMA DmsShort ==
    ASSUME CursorOK, NEW k \in Nat, NEW n \in Nat, NEW count, NEW items, ItemsOf(items, count, 0),
           HereAt(0, DmsHead(k, n) \o Listed(count, items)), k \in 1..n, count = n
    PROVE  OnlyShort(DmsHeadChecks, Len(DmsHead(k, n) \o Listed(count, items)))
<1>1. PICK h, N : h = DmsHead(k, n) /\ N = Len(h \o Listed(count, items))
  OBVIOUS
<1>2. count \in Nat /\ items \in Seq(Seq(Nat)) /\ 0 \in Nat
  BY DEF ItemsOf
<1>3. DmsHeadRead(k, n, count)
  BY <1>2, DmsReads
<1>4. h \in Seq(Nat) /\ Len(h) = 4 /\ remaining_len \in Int
  BY <1>1, <1>3 DEF DmsHeadRead, DmsHead, DMS_SCHEME_SHAMIR
<1>5. N \in Nat /\ N >= 8
  <2>1. LongList(h, count, items, 0)
    BY <1>2, <1>4, ListLong, Zenon
  <2>. QED
    BY <1>1, <1>4, <2>1 DEF LongList
<1>6. Short(Read(1), N) /\ (Read(1) = "ok" => 1 <= remaining_len)
  BY <1>4, <1>5, ReadShort
<1>7. Read(1) = "ok" => Short(Check(U8(0) = DMS_POLICY_SECTION_VERSION, "Unsupported"), N)
  BY <1>3, <1>6 DEF DmsHeadRead, Short, Check, DMS_POLICY_SECTION_VERSION
<1>8. Short(Read(2), N) /\ (Read(2) = "ok" => 2 <= remaining_len)
  BY <1>4, <1>5, ReadShort
<1>9. Read(2) = "ok" => Short(Check(U8(1) = DMS_SCHEME_SHAMIR, "Unsupported"), N)
  BY <1>3, <1>8 DEF DmsHeadRead, Short, Check
<1>10. Short(Read(4), N) /\ (Read(4) = "ok" => 4 <= remaining_len)
  BY <1>4, <1>5, ReadShort
<1>11. Read(4) = "ok" => Short(Check(U8(2) # 0 /\ U8(3) # 0 /\ U8(2) <= U8(3), "Corrupt"), N)
  BY <1>3, <1>10 DEF DmsHeadRead, Short, Check
<1>12. Short(Read(8), N) /\ (Read(8) = "ok" => 8 <= remaining_len /\ 4 <= remaining_len)
  <2>1. Short(Read(8), N) /\ (Read(8) = "ok" => 8 <= remaining_len)
    BY <1>4, <1>5, ReadShort
  <2>. QED
    BY <1>4, <2>1
<1>13. Read(8) = "ok" => Short(Check(U32(4) = U8(3), "Corrupt"), N)
  BY <1>3, <1>12 DEF DmsHeadRead, Short, Check
<1>14. OnlyShort(DmsHeadChecks, N)
  <2>1. PICK r1, r2, r3, r4, r5, r6, r7, r8 :
          /\ r1 = Read(1) /\ r2 = Check(U8(0) = DMS_POLICY_SECTION_VERSION, "Unsupported")
          /\ r3 = Read(2) /\ r4 = Check(U8(1) = DMS_SCHEME_SHAMIR, "Unsupported")
          /\ r5 = Read(4) /\ r6 = Check(U8(2) # 0 /\ U8(3) # 0 /\ U8(2) <= U8(3), "Corrupt")
          /\ r7 = Read(8) /\ r8 = Check(U32(4) = U8(3), "Corrupt")
    OBVIOUS
  <2>2. DmsHeadChecks = <<r1, r2, r3, r4, r5, r6, r7, r8>>
    BY <2>1 DEF DmsHeadChecks
  <2>3. /\ Short(r1, N) /\ Short(r3, N) /\ Short(r5, N) /\ Short(r7, N)
        /\ r1 = "ok" => Short(r2, N)
        /\ r3 = "ok" => Short(r4, N)
        /\ r5 = "ok" => Short(r6, N)
        /\ r7 = "ok" => Short(r8, N)
    BY <1>6, <1>7, <1>8, <1>9, <1>10, <1>11, <1>12, <1>13, <2>1
  <2>4. OnlyShort(<<r1, r2, r3, r4, r5, r6, r7, r8>>, N)
    BY <2>3, Short8
  <2>. QED
    BY <2>2, <2>4
<1>. QED
  BY <1>1, <1>14

-----------------------------------------------------------------------------
\* An entry of the history.

\* A member of what lies at offset o.
LEMMA HereItem ==
    ASSUME NEW o \in Nat, NEW items \in Seq(Seq(Nat)), HereAt(o, FlattenSeq(items)),
           NEW k \in 0..(Len(items) - 1)
    PROVE  /\ Reach(items, k) \in Nat /\ items[k + 1] \in Seq(Nat)
           /\ HereAt(o + Reach(items, k), items[k + 1])
<1>1. PICK f, item : f = FlattenSeq(items) /\ item = items[k + 1]
  OBVIOUS
<1>2. f \in Seq(Nat) /\ 0 \in Nat
  BY <1>1, FlattenTyped
<1>3. Lies(f, 0, f)
  <2>1. 0 + Len(f) <= Len(f)
    BY <1>2
  <2>2. \A j \in 1..Len(f) : f[0 + j] = f[j]
    BY <1>2
  <2>. QED
    BY <2>1, <2>2 DEF Lies
<1>4. Lies(f, 0, FlattenSeq(items))
  BY <1>1, <1>3
<1>5. /\ Reach(items, k) \in Nat /\ item \in Seq(Nat) /\ Len(item) \in Nat
      /\ Lies(f, 0 + Reach(items, k), item)
  BY <1>1, <1>2, <1>4, LiesItem
<1>6. PICK u \in Nat : u = Reach(items, k)
  BY <1>5
<1>7. Lies(f, u, item) /\ Len(f) \in Nat /\ HereAt(o, f)
  <2>1. 0 + u = u
    OBVIOUS
  <2>2. Lies(f, u, item)
    BY <1>5, <1>6, <2>1, Zenon
  <2>. QED
    BY <1>1, <1>2, <2>2
<1>8. ASSUME NEW j \in 1..Len(item), (o + u) + j <= remaining_len
      PROVE  U8((o + u) + j - 1) = item[j]
  <2>1. PICK i \in 1..Len(f) : i = u + j /\ f[i] = item[j]
    <3>1. u + j \in 1..Len(f) /\ f[u + j] = item[j]
      <4>1. u + Len(item) <= Len(f) /\ \A n \in 1..Len(item) : f[u + n] = item[n]
        BY <1>7, Zenon DEF Lies
      <4>2. f[u + j] = item[j]
        BY <4>1, Zenon
      <4>3. u + j \in 1..Len(f)
        BY <1>5, <1>7, <4>1
      <4>. QED
        BY <4>2, <4>3
    <3>. QED
      BY <3>1
  <2>2. o + i = (o + u) + j /\ o + i - 1 = (o + u) + j - 1
    BY <1>7, <2>1
  <2>3. o + i <= remaining_len => U8(o + i - 1) = f[i]
    BY <1>7 DEF HereAt
  <2>. QED
    BY <1>8, <2>1, <2>2, <2>3
<1>. QED
  BY <1>1, <1>5, <1>6, <1>8 DEF HereAt

\* The roots of the inputs are 32 bytes each.
LEMMA InputsReach ==
    ASSUME NEW list \in Seq(BytesOf(32)), NEW k \in 0..Len(list)
    PROVE  Reach(InputBytes(list), k) = 32 * k
<1>1. PICK items, n : items = InputBytes(list) /\ n = Len(list) /\ n \in Nat
  <2>1. Len(list) \in Nat
    OBVIOUS
  <2>. QED
    BY <2>1
<1>2. /\ items \in Seq(Seq(Nat)) /\ Len(items) = n
      /\ \A i \in 1..n : Len(items[i]) = 32
  BY <1>1, InputItems DEF ItemsOf
<1>3. Reach(items, 0) = 0
  BY <1>2, ReachEnds
<1>4. ASSUME NEW i \in 0..(n - 1)
      PROVE  Reach(items, i + 1) = Reach(items, i) + 32 /\ Reach(items, i) \in Nat
  <2>1. PICK f : f = FlattenSeq(items)
    OBVIOUS
  <2>2. f \in Seq(Nat) /\ 0 \in Nat
    BY <1>2, <2>1, FlattenTyped
  <2>3. 0 + Len(f) <= Len(f) /\ \A j \in 1..Len(f) : f[0 + j] = f[j]
    BY <2>2
  <2>4. Lies(f, 0, FlattenSeq(items))
    BY <2>1, <2>3 DEF Lies
  <2>5. i \in 0..(Len(items) - 1) /\ i + 1 \in 1..n
    BY <1>2
  <2>6. Reach(items, i) \in Nat /\ Reach(items, i + 1) = Reach(items, i) + Len(items[i + 1])
    BY <1>2, <2>2, <2>4, <2>5, LiesItem
  <2>. QED
    BY <1>2, <2>5, <2>6
<1> DEFINE Bad == {i \in 0..n : Reach(items, i) # 32 * i}
<1>5. Bad = {}
  <2> SUFFICES ASSUME Bad # {}
               PROVE  FALSE
    OBVIOUS
  <2>1. PICK i \in Bad : \A l \in Bad : i <= l
    <3>1. Bad \subseteq Nat
      OBVIOUS
    <3>. QED
      BY <3>1, LeastNatural
  <2>2. i \in 0..n /\ i # 0 /\ Reach(items, i) # 32 * i /\ n \in Nat
    BY <1>1, <1>3
  <2>3. PICK j \in 0..(n - 1) : j + 1 = i /\ j \in 0..n
    <3>1. i - 1 \in 0..(n - 1) /\ (i - 1) + 1 = i /\ i - 1 \in 0..n
      BY <2>2
    <3>. QED
      BY <3>1
  <2>4. j \notin Bad
    <3>1. ~(i <= j)
      BY <2>3
    <3>. QED
      BY <2>1, <3>1
  <2>5. Reach(items, j) = 32 * j
    BY <2>3, <2>4
  <2>6. Reach(items, i) = 32 * j + 32
    BY <1>4, <2>3, <2>5
  <2>. QED
    BY <2>2, <2>3, <2>6
<1>. QED
  BY <1>1, <1>5

EntryRead(x) ==
    LET n == Len(x.inputs)
        p == Len(x.params)
    IN  /\ n \in Nat /\ p \in Nat /\ remaining_len \in Int
        /\ Len(EncodeHistoryEntry(x)) = 17 + 32 * n + p
        /\ 1 <= remaining_len => U8(0) = x.op
        /\ 9 <= remaining_len => Bytes(1, 8) = x.timestamp_ns
        /\ 13 <= remaining_len => U32(9) = n
        /\ 13 + 32 * n <= remaining_len =>
             \A i \in 1..n : Bytes(13 + 32 * (i - 1), 32) = x.inputs[i]
        /\ 17 + 32 * n <= remaining_len => U32(13 + 32 * n) = p
        /\ 17 + 32 * n + p <= remaining_len => Bytes(17 + 32 * n, p) = x.params

LEMMA EntryReads ==
    ASSUME CursorOK, NEW x \in WrittenEntry, HereAt(0, EncodeHistoryEntry(x))
    PROVE  EntryRead(x)
<1>1. PICK op, ts, list, params :
        op = x.op /\ ts = x.timestamp_ns /\ list = x.inputs /\ params = x.params
  OBVIOUS
<1>2. /\ op \in Nat /\ ts \in Seq(Nat) /\ Len(ts) = 8 /\ list \in Seq(BytesOf(32)) /\ params \in Seq(Nat)
      /\ Len(list) \in Nat /\ Len(params) \in Nat
  BY <1>1, EntryFields
<1>3. PICK n \in Nat, p \in Nat : n = Len(list) /\ p = Len(params)
  BY <1>2
<1>4. PICK h, items, one : h = EntryHead(x) /\ items = InputBytes(list) /\ one = <<op>>
  OBVIOUS
<1>5. /\ items \in Seq(Seq(Nat)) /\ Len(items) = n
      /\ \A i \in 1..n : items[i] = list[i] /\ list[i] \in Seq(Nat) /\ Len(list[i]) = 32
  BY <1>2, <1>3, <1>4, InputItems DEF ItemsOf
<1>6. one \in Seq(Nat) /\ Len(one) = 1 /\ 0 \in Nat /\ remaining_len \in Int
  BY <1>2, <1>4 DEF CursorOK, remaining_len
<1>7. h \in Seq(Nat) /\ Len(h) = 9 /\ h = one \o ts /\ ListWidth(h, n, items)
      /\ EncodeHistoryEntry(x) = (h \o Listed(n, items)) \o EncodeBytes(params)
  BY <1>1, <1>3, <1>4, EntryWidth DEF EntryHead
<1>8. Len(FlattenSeq(items)) = 32 * n
  <2>1. n \in 0..Len(list)
    BY <1>3
  <2>2. Reach(items, n) = 32 * n
    BY <1>2, <1>4, <2>1, InputsReach
  <2>3. Reach(items, n) = Len(FlattenSeq(items))
    BY <1>5, ReachEnds
  <2>. QED
    BY <2>2, <2>3
<1>9. PICK a, b : a = h \o Listed(n, items) /\ b = EncodeBytes(params)
  OBVIOUS
<1>10. a \in Seq(Nat) /\ Len(a) = 13 + 32 * n
  BY <1>7, <1>8, <1>9 DEF ListWidth
<1>11. b \in Seq(Nat) /\ Len(b) = 4 + p
  BY <1>2, <1>3, <1>9, BlobWidth
<1>12. HereAt(0, a \o b) /\ EncodeHistoryEntry(x) = a \o b
  BY <1>7, <1>9
<1>13. HereBoth(0, a, b)
  BY <1>6, <1>10, <1>11, <1>12, HereSplit, Zenon
<1>14. PICK o \in Nat : o = 13 + 32 * n /\ HereAt(o, b) /\ HereAt(0, a)
  BY <1>10, <1>13 DEF HereBoth
<1>15. BlobRead(o, params)
  BY <1>2, <1>9, <1>14, ReadsBlob
<1>16. ListRead(h, n) /\ HereAt(Len(h) + 4, FlattenSeq(items))
  <2>1. HereAt(0, h \o Listed(n, items))
    BY <1>9, <1>14
  <2>. QED
    BY <1>5, <1>7, <2>1, ListReads
<1>17. HereAt(0, one \o ts)
  BY <1>7, <1>16 DEF ListRead
<1>18. HereBoth(0, one, ts)
  BY <1>2, <1>6, <1>17, HereSplit, Zenon
<1>19. HereAt(0, <<op>>) /\ HereAt(1, ts)
  BY <1>4, <1>6, <1>18 DEF HereBoth
<1>20. 1 <= remaining_len => U8(0) = op
  BY <1>2, <1>6, <1>19, ReadsU8
<1>21. 9 <= remaining_len => Bytes(1, 8) = ts
  <2>1. 1 \in Nat /\ 1 + Len(ts) = 9
    BY <1>2
  <2>. QED
    BY <1>2, <1>19, <2>1, ReadsBytes
<1>22. 13 <= remaining_len => U32(9) = n
  BY <1>7, <1>16 DEF ListRead
<1>23. ASSUME 13 + 32 * n <= remaining_len, NEW i \in 1..n
       PROVE  Bytes(13 + 32 * (i - 1), 32) = list[i]
  <2>1. PICK k \in 0..(n - 1) : k = i - 1 /\ k + 1 = i /\ 13 + 32 * k \in Nat /\ 32 * k + 32 <= 32 * n
    OBVIOUS
  <2>2. k \in 0..Len(list) /\ k \in 0..(Len(items) - 1)
    BY <1>3, <1>5, <2>1
  <2>3. Reach(items, k) = 32 * k
    BY <1>2, <1>4, <2>2, InputsReach
  <2>4. HereAt(13, FlattenSeq(items)) /\ 13 \in Nat
    BY <1>7, <1>16
  <2>5. HereAt(13 + Reach(items, k), items[k + 1])
    BY <1>5, <2>2, <2>4, HereItem
  <2>6. HereAt(13 + 32 * k, list[i])
    BY <1>5, <2>1, <2>3, <2>5
  <2>7. list[i] \in Seq(Nat) /\ Len(list[i]) = 32 /\ (13 + 32 * k) + 32 <= remaining_len
    <3>1. list[i] \in Seq(Nat) /\ Len(list[i]) = 32
      BY <1>5
    <3>2. (13 + 32 * k) + 32 <= 13 + 32 * n
      BY <2>1
    <3>. QED
      BY <1>6, <1>23, <2>1, <3>1, <3>2
  <2>8. Bytes(13 + 32 * k, Len(list[i])) = list[i]
    BY <2>1, <2>6, <2>7, ReadsBytes
  <2>. QED
    BY <2>1, <2>7, <2>8
<1>24. 17 + 32 * n <= remaining_len => U32(13 + 32 * n) = p
  <2>1. o + 4 = 17 + 32 * n
    BY <1>14
  <2>2. o + 4 <= remaining_len => U32(o) = Len(params)
    BY <1>15 DEF BlobRead
  <2>. QED
    BY <1>3, <1>14, <2>1, <2>2, Zenon
<1>25. 17 + 32 * n + p <= remaining_len => Bytes(17 + 32 * n, p) = params
  <2>1. o + 4 = 17 + 32 * n
    BY <1>14
  <2>2. o + 4 + Len(params) <= remaining_len => Bytes(o + 4, Len(params)) = params
    BY <1>15 DEF BlobRead
  <2>. QED
    BY <1>3, <2>1, <2>2, Zenon
<1>26. Len(EncodeHistoryEntry(x)) = 17 + 32 * n + p
  <2>1. Len(a \o b) = Len(a) + Len(b)
    BY <1>13 DEF HereBoth
  <2>. QED
    BY <1>10, <1>11, <1>12, <2>1
<1>. QED
  BY <1>1, <1>3, <1>6, <1>20, <1>21, <1>22, <1>23, <1>24, <1>25, <1>26 DEF EntryRead

LEMMA EntryMet ==
    ASSUME CursorOK, NEW x \in WrittenEntry, HereAt(0, EncodeHistoryEntry(x)),
           Passes(HistoryEntryChecks)
    PROVE  /\ HistoryEntry = x
           /\ 17 + inputs_size + params_len = Len(EncodeHistoryEntry(x))
<1>1. EntryRead(x)
  BY EntryReads
<1>2. /\ input_count \in Nat /\ inputs_size \in Nat /\ params_len \in Nat
      /\ position + 17 + inputs_size + params_len <= Len(buf)
  BY HistoryEntryPassed
<1>3. PICK n, p, c, s, q :
        /\ n = Len(x.inputs) /\ p = Len(x.params)
        /\ c = input_count /\ s = inputs_size /\ q = params_len
        /\ c \in Nat /\ s \in Nat /\ q \in Nat
  BY <1>2
<1>4. n \in Nat /\ p \in Nat /\ remaining_len \in Int /\ 17 + s + q <= remaining_len
  BY <1>1, <1>2, <1>3 DEF EntryRead, CursorOK, remaining_len
<1>5. c = n
  <2>1. 13 <= remaining_len
    BY <1>3, <1>4
  <2>. QED
    BY <1>1, <1>3, <2>1 DEF EntryRead, input_count
<1>6. s = 32 * n
  BY <1>3, <1>5 DEF inputs_size
<1>7. q = p
  <2>1. 17 + 32 * n <= remaining_len
    BY <1>3, <1>4, <1>6
  <2>2. U32(13 + 32 * n) = p
    BY <1>1, <1>3, <2>1 DEF EntryRead
  <2>. QED
    BY <1>3, <1>6, <2>2 DEF params_len
<1>8. 1 <= remaining_len /\ 9 <= remaining_len /\ 13 + 32 * n <= remaining_len /\ 17 + 32 * n + p <= remaining_len
  BY <1>4, <1>6, <1>7
<1>9. /\ U8(0) = x.op /\ Bytes(1, 8) = x.timestamp_ns /\ Bytes(17 + 32 * n, p) = x.params
      /\ \A i \in 1..n : Bytes(13 + 32 * (i - 1), 32) = x.inputs[i]
  BY <1>1, <1>3, <1>8 DEF EntryRead
<1>10. x.inputs \in Seq(BytesOf(32))
       /\ x = [op |-> x.op, timestamp_ns |-> x.timestamp_ns, inputs |-> x.inputs, params |-> x.params]
  BY EntryFields
<1>11. [i \in 1..n |-> Bytes(13 + 32 * (i - 1), 32)] = x.inputs
  <2>1. x.inputs = [i \in 1..n |-> x.inputs[i]]
    BY <1>3, <1>10
  <2>. QED
    BY <1>9, <2>1
<1>12. HistoryEntry = [op |-> x.op, timestamp_ns |-> x.timestamp_ns, inputs |-> x.inputs, params |-> x.params]
  BY <1>3, <1>5, <1>6, <1>7, <1>9, <1>11, Zenon DEF HistoryEntry
<1>13. 17 + inputs_size + params_len = Len(EncodeHistoryEntry(x))
  BY <1>1, <1>3, <1>6, <1>7, Zenon DEF EntryRead
<1>. QED
  BY <1>10, <1>12, <1>13

LEMMA EntryShort ==
    ASSUME CursorOK, NEW x \in WrittenEntry, HereAt(0, EncodeHistoryEntry(x)),
           x.op \in HistoryOps, Len(x.params) <= DEFAULT_HISTORY_PARAMS_MAX_BYTES
    PROVE  OnlyShort(HistoryEntryChecks, Len(EncodeHistoryEntry(x)))
<1>1. EntryRead(x)
  BY EntryReads
<1>2. PICK n, p : n = Len(x.inputs) /\ p = Len(x.params)
  OBVIOUS
<1>3. n \in Nat /\ p \in Nat /\ remaining_len \in Int
  BY <1>1, <1>2 DEF EntryRead
<1>4. PICK i \in Nat : i = 32 * n
  BY <1>3
<1>5. PICK N \in Nat : N = Len(EncodeHistoryEntry(x)) /\ N = 17 + i + p
  <2>1. Len(EncodeHistoryEntry(x)) = 17 + i + p
    BY <1>1, <1>2, <1>4, Zenon DEF EntryRead
  <2>2. 17 + i + p \in Nat
    BY <1>3, <1>4
  <2>. QED
    BY <2>1, <2>2, Zenon
<1>6. Short(Read(1), N) /\ (Read(1) = "ok" => 1 <= remaining_len)
  BY <1>3, <1>4, <1>5, ReadShort
<1>7. Read(1) = "ok" => Short(Check(U8(0) \in HistoryOps, "Unsupported"), N)
  BY <1>1, <1>6 DEF EntryRead, Short, Check
<1>8. Short(Read(9), N)
  BY <1>3, <1>4, <1>5, ReadShort
<1>9. Short(Read(13), N) /\ (Read(13) = "ok" => 13 <= remaining_len)
  BY <1>3, <1>4, <1>5, ReadShort
<1>10. Read(13) = "ok" => inputs_size = i
  BY <1>1, <1>2, <1>4, <1>9 DEF EntryRead, inputs_size, input_count
<1>11. Read(13) = "ok" => Short(Read(13 + inputs_size), N)
  <2>1. Short(Read(13 + i), N)
    BY <1>3, <1>4, <1>5, ReadShort
  <2>. QED
    BY <1>10, <2>1
<1>12. Read(13) = "ok" => Short(Read(17 + inputs_size), N)
                          /\ (Read(17 + inputs_size) = "ok" => 17 + i <= remaining_len)
  <2>1. Short(Read(17 + i), N) /\ (Read(17 + i) = "ok" => 17 + i <= remaining_len)
    BY <1>3, <1>4, <1>5, ReadShort
  <2>. QED
    BY <1>10, <2>1
<1>13. Read(13) = "ok" /\ Read(17 + inputs_size) = "ok" => params_len = p
  <2>1. 17 + i <= remaining_len => U32(13 + i) = p
    BY <1>1, <1>2, <1>4 DEF EntryRead
  <2>. QED
    BY <1>10, <1>12, <2>1 DEF params_len
<1>14. Read(13) = "ok" /\ Read(17 + inputs_size) = "ok" =>
         Short(Check(params_len <= DEFAULT_HISTORY_PARAMS_MAX_BYTES, "Corrupt"), N)
  BY <1>2, <1>13 DEF Short, Check
<1>15. Read(13) = "ok" /\ Read(17 + inputs_size) = "ok" =>
         Short(Read(17 + inputs_size + params_len), N)
  <2>1. Short(Read(17 + i + p), N)
    BY <1>3, <1>4, <1>5, ReadShort
  <2>. QED
    BY <1>10, <1>13, <2>1
<1>16. PICK r1, r2, r3, r4, r5, r6, r7, r8 :
         /\ r1 = Read(1) /\ r2 = Check(U8(0) \in HistoryOps, "Unsupported")
         /\ r3 = Read(9) /\ r4 = Read(13) /\ r5 = Read(13 + inputs_size) /\ r6 = Read(17 + inputs_size)
         /\ r7 = Check(params_len <= DEFAULT_HISTORY_PARAMS_MAX_BYTES, "Corrupt")
         /\ r8 = Read(17 + inputs_size + params_len)
  OBVIOUS
<1>17. HistoryEntryChecks = <<r1, r2, r3, r4, r5, r6, r7, r8>>
  BY <1>16 DEF HistoryEntryChecks
<1>18. /\ Short(r1, N) /\ Short(r3, N) /\ Short(r4, N)
       /\ r1 = "ok" => Short(r2, N)
       /\ r4 = "ok" => Short(r5, N) /\ Short(r6, N)
       /\ r4 = "ok" /\ r6 = "ok" => Short(r7, N) /\ Short(r8, N)
  BY <1>6, <1>7, <1>8, <1>9, <1>11, <1>12, <1>14, <1>15, <1>16
<1>19. OnlyShort(<<r1, r2, r3, r4, r5, r6, r7, r8>>, N)
  BY <1>18, Short8
<1>. QED
  BY <1>5, <1>17, <1>19

-----------------------------------------------------------------------------
\* Where the next item of a list lies.

\* Of the list after h that was written at `at`, the items done have been read.
ItemLies(W, at, h, items, done, p) ==
    /\ p \in Nat /\ at \in Nat /\ Len(h \o Listed(Len(items), items)) \in Nat
    /\ Len(done) < Len(items) => Lies(W, p, items[Len(done) + 1])
    /\ Len(done) = Len(items) => p = at + Len(h \o Listed(Len(items), items))

LEMMA NextItem ==
    ASSUME NEW W \in Seq(Nat), NEW before \in Seq(Nat), NEW h \in Seq(Nat),
           NEW items \in Seq(Seq(Nat)),
           Lies(W, Len(before), h \o Listed(Len(items), items)),
           NEW k \in 0..Len(items), NEW done, done = SubSeq(items, 1, k)
    PROVE  ItemLies(W, Len(before), h, items, done, Len(before \o (h \o Listed(Len(items), done))))
<1>1. PICK n \in Nat, at \in Nat : n = Len(items) /\ at = Len(before)
  <2>1. Len(items) \in Nat /\ Len(before) \in Nat
    OBVIOUS
  <2>. QED
    BY <2>1
<1>2. done \in Seq(Seq(Nat)) /\ Len(done) = k /\ k \in Nat
  OBVIOUS
<1>3. ListWidth(h, n, items) /\ ListWidth(h, n, done)
  BY <1>2, ListLength
<1>4. PICK u \in Nat : u = Len(FlattenSeq(done)) /\ u = Reach(items, k)
  BY <1>3 DEF ListWidth, Reach
<1>5. PICK front, f : front = h \o PackU32(n) /\ f = FlattenSeq(items)
  OBVIOUS
<1>6. PICK w \in Nat : w = Len(h)
  BY <1>3 DEF ListWidth
<1>7. PICK p \in Nat : p = Len(before \o (h \o Listed(n, done))) /\ p = (at + (w + 4)) + u
                     /\ p = at + (w + 4 + u)
  <2>1. h \o Listed(n, done) \in Seq(Nat) /\ Len(h \o Listed(n, done)) = w + 4 + u
    BY <1>3, <1>4, <1>6 DEF ListWidth
  <2>2. Len(before \o (h \o Listed(n, done))) = Len(before) + Len(h \o Listed(n, done))
    BY <2>1, Lengths, Zenon
  <2>3. PICK q \in Nat : q = (at + (w + 4)) + u /\ q = at + (w + 4 + u)
    OBVIOUS
  <2>4. Len(before \o (h \o Listed(n, done))) = q
    BY <1>1, <2>1, <2>2, <2>3, Zenon
  <2>. QED
    BY <2>3, <2>4, Zenon
<1>8. Len(done) < Len(items) => Lies(W, p, items[Len(done) + 1])
  <2> SUFFICES ASSUME k < n
               PROVE  Lies(W, p, items[k + 1])
    BY <1>1, <1>2
  <2>1. PICK head : head = PackU32(n)
    OBVIOUS
  <2>2. head \in Seq(Nat) /\ Len(head) = 4 /\ f \in Seq(Nat)
    <3>1. head \in Seq(Nat) /\ f \in Seq(Nat)
      BY <1>5, <2>1, PackTyped, FlattenTyped
    <3>. QED
      BY <2>1, <3>1 DEF PackU32
  <2>3. Lies(W, at, h \o (head \o f)) /\ head \o f \in Seq(Nat)
    <3>1. head \o f \in Seq(Nat)
      BY <2>2, Lengths, Zenon
    <3>2. Listed(n, items) = head \o f
      BY <1>5, <2>1 DEF Listed
    <3>. QED
      BY <1>1, <3>1, <3>2
  <2>4. SplitAt(W, at, h, head \o f)
    BY <2>3, LiesSplit, Zenon
  <2>5. PICK a \in Nat : a = at + w /\ Lies(W, a, head \o f)
    <3>1. at + w \in Nat
      OBVIOUS
    <3>. QED
      BY <1>6, <2>4, <3>1, Zenon DEF SplitAt
  <2>6. SplitAt(W, a, head, f)
    BY <2>2, <2>5, LiesSplit, Zenon
  <2>7. PICK b \in Nat : b = at + (w + 4) /\ Lies(W, b, f)
    <3>1. a + 4 = at + (w + 4) /\ a + 4 \in Nat
      BY <2>5
    <3>2. Lies(W, a + 4, f)
      BY <2>2, <2>6, Zenon DEF SplitAt
    <3>. QED
      BY <3>1, <3>2, Zenon
  <2>8. k \in 0..(Len(items) - 1)
    BY <1>1, <1>2
  <2>9. Lies(W, b + Reach(items, k), items[k + 1])
    BY <1>5, <2>7, <2>8, LiesItem
  <2>10. b + Reach(items, k) = p
    BY <1>4, <1>7, <2>7
  <2>. QED
    BY <2>9, <2>10
<1>9. Len(done) = Len(items) => p = at + Len(h \o Listed(Len(items), items))
  <2> SUFFICES ASSUME k = n
               PROVE  p = at + Len(h \o Listed(n, items))
    BY <1>1, <1>2
  <2>1. Reach(items, n) = Len(FlattenSeq(items))
    BY <1>1, ReachEnds
  <2>2. u = Len(FlattenSeq(items))
    BY <1>4, <2>1
  <2>3. Len(h \o Listed(n, items)) = w + 4 + u
    BY <1>3, <1>6, <2>2, Zenon DEF ListWidth
  <2>. QED
    BY <1>7, <2>3, Zenon
<1>. QED
  BY <1>1, <1>3, <1>7, <1>8, <1>9 DEF ItemLies, ListWidth

-----------------------------------------------------------------------------
\* The part of a list that has been parsed is encoded as the part of its items.

LEMMA PartAt ==
    ASSUME NEW T, NEW whole \in Seq(T), NEW list, NEW more \in Nat, Len(list) \in Nat,
           Part(list, more, whole)
    PROVE  /\ Len(list) \in 0..Len(whole) /\ Len(whole) \in Nat
           /\ DOMAIN list = 1..Len(list) /\ DOMAIN whole = 1..Len(whole)
           /\ \A i \in 1..Len(list) : list[i] = whole[i] /\ i \in 1..Len(whole)
<1>1. PICK k \in Nat : k = Len(list)
  OBVIOUS
<1>2. k + more = Len(whole) /\ list = SubSeq(whole, 1, k) /\ Len(whole) \in Nat
  BY <1>1 DEF Part
<1>3. k \in 0..Len(whole)
  BY <1>2
<1>4. DOMAIN list = 1..k /\ DOMAIN whole = 1..Len(whole)
  BY <1>2, <1>3
<1>5. \A i \in 1..k : list[i] = whole[i] /\ i \in 1..Len(whole)
  BY <1>2, <1>3
<1>. QED
  BY <1>1, <1>2, <1>3, <1>4, <1>5

LEMMA FlagPart ==
    ASSUME NEW whole \in Seq(WrittenFlag), NEW list, NEW more \in Nat, Len(list) \in Nat,
           Part(list, more, whole)
    PROVE  FlagBytes(list) = SubSeq(FlagBytes(whole), 1, Len(list))
<1>1. PICK a, b, n : a = FlagBytes(list) /\ b = FlagBytes(whole) /\ n = Len(whole)
  OBVIOUS
<1>2. PICK k : k = Len(list)
  OBVIOUS
<1>3. /\ k \in 0..n /\ n \in Nat /\ DOMAIN list = 1..k /\ DOMAIN whole = 1..n
      /\ \A i \in 1..k : list[i] = whole[i] /\ i \in 1..n
  BY <1>1, <1>2, PartAt, Zenon
<1>4. b \in Seq(Seq(Nat)) /\ Len(b) = n
  BY <1>1, FlagItems DEF ItemsOf
<1>5. a = [i \in 1..k |-> a[i]]
  BY <1>1, <1>3 DEF FlagBytes
<1>6. \A i \in 1..k : a[i] = b[i]
  <2> TAKE i \in 1..k
  <2>1. a[i] = EncodeFlag(list[i])
    BY <1>1, <1>3 DEF FlagBytes
  <2>2. b[i] = EncodeFlag(whole[i])
    BY <1>1, <1>3 DEF FlagBytes
  <2>. QED
    BY <1>3, <2>1, <2>2
<1>7. SubSeq(b, 1, k) = [i \in 1..k |-> b[i]]
  BY <1>3, <1>4
<1>8. a = [i \in 1..k |-> b[i]]
  BY <1>5, <1>6
<1>. QED
  BY <1>1, <1>2, <1>7, <1>8

LEMMA UriPart ==
    ASSUME NEW whole \in Seq(ByteString), NEW list, NEW more \in Nat, Len(list) \in Nat,
           Part(list, more, whole)
    PROVE  UriBytes(list) = SubSeq(UriBytes(whole), 1, Len(list))
<1>1. PICK a, b, n : a = UriBytes(list) /\ b = UriBytes(whole) /\ n = Len(whole)
  OBVIOUS
<1>2. PICK k : k = Len(list)
  OBVIOUS
<1>3. /\ k \in 0..n /\ n \in Nat /\ DOMAIN list = 1..k /\ DOMAIN whole = 1..n
      /\ \A i \in 1..k : list[i] = whole[i] /\ i \in 1..n
  BY <1>1, <1>2, PartAt, Zenon
<1>4. b \in Seq(Seq(Nat)) /\ Len(b) = n
  BY <1>1, UriItems DEF ItemsOf
<1>5. a = [i \in 1..k |-> a[i]]
  BY <1>1, <1>3 DEF UriBytes
<1>6. \A i \in 1..k : a[i] = b[i]
  <2> TAKE i \in 1..k
  <2>1. a[i] = EncodeBytes(list[i])
    BY <1>1, <1>3 DEF UriBytes
  <2>2. b[i] = EncodeBytes(whole[i])
    BY <1>1, <1>3 DEF UriBytes
  <2>. QED
    BY <1>3, <2>1, <2>2
<1>7. SubSeq(b, 1, k) = [i \in 1..k |-> b[i]]
  BY <1>3, <1>4
<1>8. a = [i \in 1..k |-> b[i]]
  BY <1>5, <1>6
<1>. QED
  BY <1>1, <1>2, <1>7, <1>8

LEMMA SlabPart ==
    ASSUME NEW whole \in Seq(WrittenSlab), NEW list, NEW more \in Nat, Len(list) \in Nat,
           Part(list, more, whole)
    PROVE  SlabBytes(list) = SubSeq(SlabBytes(whole), 1, Len(list))
<1>1. PICK a, b, n : a = SlabBytes(list) /\ b = SlabBytes(whole) /\ n = Len(whole)
  OBVIOUS
<1>2. PICK k : k = Len(list)
  OBVIOUS
<1>3. /\ k \in 0..n /\ n \in Nat /\ DOMAIN list = 1..k /\ DOMAIN whole = 1..n
      /\ \A i \in 1..k : list[i] = whole[i] /\ i \in 1..n
  BY <1>1, <1>2, PartAt, Zenon
<1>4. b \in Seq(Seq(Nat)) /\ Len(b) = n
  BY <1>1, SlabItems DEF ItemsOf
<1>5. a = [i \in 1..k |-> a[i]]
  BY <1>1, <1>3 DEF SlabBytes
<1>6. \A i \in 1..k : a[i] = b[i]
  <2> TAKE i \in 1..k
  <2>1. a[i] = EncodeSlabEntry(list[i])
    BY <1>1, <1>3 DEF SlabBytes
  <2>2. b[i] = EncodeSlabEntry(whole[i])
    BY <1>1, <1>3 DEF SlabBytes
  <2>. QED
    BY <1>3, <2>1, <2>2
<1>7. SubSeq(b, 1, k) = [i \in 1..k |-> b[i]]
  BY <1>3, <1>4
<1>8. a = [i \in 1..k |-> b[i]]
  BY <1>5, <1>6
<1>. QED
  BY <1>1, <1>2, <1>7, <1>8

LEMMA OverridePart ==
    ASSUME NEW whole \in Seq(WrittenOverride), NEW list, NEW more \in Nat, Len(list) \in Nat,
           Part(list, more, whole)
    PROVE  OverrideBytes(list) = SubSeq(OverrideBytes(whole), 1, Len(list))
<1>1. PICK a, b, n : a = OverrideBytes(list) /\ b = OverrideBytes(whole) /\ n = Len(whole)
  OBVIOUS
<1>2. PICK k : k = Len(list)
  OBVIOUS
<1>3. /\ k \in 0..n /\ n \in Nat /\ DOMAIN list = 1..k /\ DOMAIN whole = 1..n
      /\ \A i \in 1..k : list[i] = whole[i] /\ i \in 1..n
  BY <1>1, <1>2, PartAt, Zenon
<1>4. b \in Seq(Seq(Nat)) /\ Len(b) = n
  BY <1>1, OverrideItems DEF ItemsOf
<1>5. a = [i \in 1..k |-> a[i]]
  BY <1>1, <1>3 DEF OverrideBytes
<1>6. \A i \in 1..k : a[i] = b[i]
  <2> TAKE i \in 1..k
  <2>1. a[i] = EncodeOverride(list[i])
    BY <1>1, <1>3 DEF OverrideBytes
  <2>2. b[i] = EncodeOverride(whole[i])
    BY <1>1, <1>3 DEF OverrideBytes
  <2>. QED
    BY <1>3, <2>1, <2>2
<1>7. SubSeq(b, 1, k) = [i \in 1..k |-> b[i]]
  BY <1>3, <1>4
<1>8. a = [i \in 1..k |-> b[i]]
  BY <1>5, <1>6
<1>. QED
  BY <1>1, <1>2, <1>7, <1>8

LEMMA SharePart ==
    ASSUME NEW whole \in Seq(WrittenShare), NEW list, NEW more \in Nat, Len(list) \in Nat,
           Part(list, more, whole)
    PROVE  ShareBytes(list) = SubSeq(ShareBytes(whole), 1, Len(list))
<1>1. PICK a, b, n : a = ShareBytes(list) /\ b = ShareBytes(whole) /\ n = Len(whole)
  OBVIOUS
<1>2. PICK k : k = Len(list)
  OBVIOUS
<1>3. /\ k \in 0..n /\ n \in Nat /\ DOMAIN list = 1..k /\ DOMAIN whole = 1..n
      /\ \A i \in 1..k : list[i] = whole[i] /\ i \in 1..n
  BY <1>1, <1>2, PartAt, Zenon
<1>4. b \in Seq(Seq(Nat)) /\ Len(b) = n
  BY <1>1, ShareItems DEF ItemsOf
<1>5. a = [i \in 1..k |-> a[i]]
  BY <1>1, <1>3 DEF ShareBytes
<1>6. \A i \in 1..k : a[i] = b[i]
  <2> TAKE i \in 1..k
  <2>1. a[i] = EncodeShare(list[i])
    BY <1>1, <1>3 DEF ShareBytes
  <2>2. b[i] = EncodeShare(whole[i])
    BY <1>1, <1>3 DEF ShareBytes
  <2>. QED
    BY <1>3, <2>1, <2>2
<1>7. SubSeq(b, 1, k) = [i \in 1..k |-> b[i]]
  BY <1>3, <1>4
<1>8. a = [i \in 1..k |-> b[i]]
  BY <1>5, <1>6
<1>. QED
  BY <1>1, <1>2, <1>7, <1>8

LEMMA EntryPart ==
    ASSUME NEW whole \in Seq(WrittenEntry), NEW list, NEW more \in Nat, Len(list) \in Nat,
           Part(list, more, whole)
    PROVE  HistoryBytes(list) = SubSeq(HistoryBytes(whole), 1, Len(list))
<1>1. PICK a, b, n : a = HistoryBytes(list) /\ b = HistoryBytes(whole) /\ n = Len(whole)
  OBVIOUS
<1>2. PICK k : k = Len(list)
  OBVIOUS
<1>3. /\ k \in 0..n /\ n \in Nat /\ DOMAIN list = 1..k /\ DOMAIN whole = 1..n
      /\ \A i \in 1..k : list[i] = whole[i] /\ i \in 1..n
  BY <1>1, <1>2, PartAt, Zenon
<1>4. b \in Seq(Seq(Nat)) /\ Len(b) = n
  BY <1>1, EntryItems DEF ItemsOf
<1>5. a = [i \in 1..k |-> a[i]]
  BY <1>1, <1>3 DEF HistoryBytes
<1>6. \A i \in 1..k : a[i] = b[i]
  <2> TAKE i \in 1..k
  <2>1. a[i] = EncodeHistoryEntry(list[i])
    BY <1>1, <1>3 DEF HistoryBytes
  <2>2. b[i] = EncodeHistoryEntry(whole[i])
    BY <1>1, <1>3 DEF HistoryBytes
  <2>. QED
    BY <1>3, <2>1, <2>2
<1>7. SubSeq(b, 1, k) = [i \in 1..k |-> b[i]]
  BY <1>3, <1>4
<1>8. a = [i \in 1..k |-> b[i]]
  BY <1>5, <1>6
<1>. QED
  BY <1>1, <1>2, <1>7, <1>8

-----------------------------------------------------------------------------
\* What is written of a manifest.

\* With the sections its flags declare, or as the builder writes it, without them.
EcBytes(m, full) ==
    IF full /\ Declares(m, EC_FLAG) THEN EncodeEcParams(m.ec_params) ELSE <<>>
DmsBytes(m, full) ==
    IF full /\ Declares(m, DMS_FLAG) THEN EncodeDmsPolicy(m.dms_policy) ELSE <<>>

ThroughHeader(m) == EncodeHeader(m.header)
ThroughFlags(m) == ThroughHeader(m) \o EncodeFeatureFlags(m.feature_flags)
ThroughReference(m) == ThroughFlags(m) \o EncodeMetadataReference(m.metadata_reference)
ThroughSlabs(m) == ThroughReference(m) \o EncodeSlabIndex(m.slab_index)
ThroughEc(m, full) == ThroughSlabs(m) \o EcBytes(m, full)
ThroughDms(m, full) == ThroughEc(m, full) \o DmsBytes(m, full)
Written(m, full) == ThroughDms(m, full) \o EncodeHistory(m.history)

WrittenAs(m, full) ==
    /\ m \in WrittenManifests /\ full \in BOOLEAN
    /\ (Declares(m, EC_FLAG) /\ full) \/ m.ec_params = NoEcParams
    /\ (Declares(m, DMS_FLAG) /\ full) \/ m.dms_policy = NoDmsPolicy
    /\ ~full => m.history # <<>> /\ \A i \in DOMAIN m.history : m.history[i].op \in HistoryOps

LEMMA ManifestFields ==
    \A m \in WrittenManifests :
        /\ m.header \in ManifestHeaderType /\ m.feature_flags \in Seq(WrittenFlag)
        /\ m.metadata_reference \in WrittenReference /\ m.slab_index \in Seq(WrittenSlab)
        /\ m.ec_params \in WrittenEcParams /\ m.dms_policy \in WrittenDmsPolicy
        /\ m.history \in Seq(WrittenEntry)
        /\ m = [header |-> m.header, feature_flags |-> m.feature_flags,
                metadata_reference |-> m.metadata_reference, slab_index |-> m.slab_index,
                ec_params |-> m.ec_params, dms_policy |-> m.dms_policy, history |-> m.history]
<1> TAKE m \in WrittenManifests
<1>1. /\ m.header \in ManifestHeaderType /\ m.feature_flags \in Seq(WrittenFlag)
      /\ m.metadata_reference \in WrittenReference /\ m.slab_index \in Seq(WrittenSlab)
      /\ m.ec_params \in WrittenEcParams /\ m.dms_policy \in WrittenDmsPolicy
      /\ m.history \in Seq(WrittenEntry)
  BY Zenon DEF WrittenManifests
<1>2. m = [header |-> m.header, feature_flags |-> m.feature_flags,
           metadata_reference |-> m.metadata_reference, slab_index |-> m.slab_index,
           ec_params |-> m.ec_params, dms_policy |-> m.dms_policy, history |-> m.history]
  BY DEF WrittenManifests
<1>. QED
  BY <1>1, <1>2

LEMMA EcFields ==
    \A p \in WrittenEcParams :
        /\ p.k \in Nat /\ p.m \in Nat /\ p.overrides \in Seq(WrittenOverride)
        /\ p = [k |-> p.k, m |-> p.m, overrides |-> p.overrides]
<1> TAKE p \in WrittenEcParams
<1>1. p.k \in U8Values /\ p.m \in U8Values /\ p.overrides \in Seq(WrittenOverride)
  BY Zenon DEF WrittenEcParams
<1>2. p = [k |-> p.k, m |-> p.m, overrides |-> p.overrides]
  BY DEF WrittenEcParams
<1>. QED
  BY <1>1, <1>2, WidthsAreNumbers

LEMMA DmsFields ==
    \A p \in WrittenDmsPolicy :
        /\ p.k \in Nat /\ p.n \in Nat /\ p.shares \in Seq(WrittenShare)
        /\ p.reconstruction_hint \in Seq(Nat) /\ p.reconstruction_hint \in ByteString
        /\ p = [k |-> p.k, n |-> p.n, reconstruction_hint |-> p.reconstruction_hint, shares |-> p.shares]
<1> TAKE p \in WrittenDmsPolicy
<1>1. /\ p.k \in U8Values /\ p.n \in U8Values /\ p.shares \in Seq(WrittenShare)
      /\ p.reconstruction_hint \in ByteString
  BY Zenon DEF WrittenDmsPolicy
<1>2. p = [k |-> p.k, n |-> p.n, reconstruction_hint |-> p.reconstruction_hint, shares |-> p.shares]
  BY DEF WrittenDmsPolicy
<1>. QED
  BY <1>1, <1>2, WidthsAreNumbers, BytesAreNumbers

\* The sections, as lists after their heads.
LEMMA SectionForms ==
    /\ \A list : EncodeFeatureFlags(list) = << 1 >> \o Listed(Len(list), FlagBytes(list))
    /\ \A r : EncodeMetadataReference(r)
                = (ReferenceHead(r.metadata_hash) \o Listed(Len(r.locators), UriBytes(r.locators)))
                    \o EncodeBytes(r.inline_metadata)
    /\ \A e : EncodeSlabEntry(e) = e.slab_id \o Listed(Len(e.locators), UriBytes(e.locators))
    /\ \A list : EncodeSlabIndex(list) = << 1 >> \o Listed(Len(list), SlabBytes(list))
    /\ \A p : EncodeEcParams(p)
                = EcHead(p.k, p.m) \o Listed(Len(p.overrides), OverrideBytes(p.overrides))
    /\ \A p : EncodeDmsPolicy(p)
                = (DmsHead(p.k, p.n) \o Listed(Len(p.shares), ShareBytes(p.shares)))
                    \o EncodeBytes(p.reconstruction_hint)
    /\ \A list : EncodeHistory(list) = << 1 >> \o Listed(Len(list), HistoryBytes(list))
BY WholeLists, Zenon DEF EncodeFeatureFlags, EncodeMetadataReference, EncodeSlabEntry,
   EncodeSlabIndex,
   EncodeEcParams, EncodeDmsPolicy, EncodeHistory, ReferenceHead, EcHead, DmsHead

-----------------------------------------------------------------------------
\* Where the sections lie in what is written.

LEMMA SectionsWritten ==
    ASSUME NEW m \in WrittenManifests, NEW full
    PROVE  /\ EncodeHeader(m.header) \in Seq(Nat)
           /\ EncodeFeatureFlags(m.feature_flags) \in Seq(Nat)
           /\ EncodeMetadataReference(m.metadata_reference) \in Seq(Nat)
           /\ EncodeSlabIndex(m.slab_index) \in Seq(Nat)
           /\ EcBytes(m, full) \in Seq(Nat) /\ DmsBytes(m, full) \in Seq(Nat)
           /\ EncodeHistory(m.history) \in Seq(Nat)
<1>1. EncodeHeader(m.header) \in Seq(Nat)
  BY ManifestFields, HeaderTyped
<1>2. << 1 >> \in Seq(Nat) /\ <<>> \in Seq(Nat)
  OBVIOUS
<1>3. ASSUME NEW h \in Seq(Nat), NEW n, NEW items, NEW w, ItemsOf(items, n, w)
      PROVE  h \o Listed(n, items) \in Seq(Nat)
  <2>1. n \in Nat /\ items \in Seq(Seq(Nat))
    BY <1>3 DEF ItemsOf
  <2>. QED
    BY <2>1, ListLength DEF ListWidth
<1>4. EncodeFeatureFlags(m.feature_flags) \in Seq(Nat)
  <2>1. PICK list \in Seq(WrittenFlag) : list = m.feature_flags
    BY ManifestFields
  <2>2. ItemsOf(FlagBytes(list), Len(list), 3)
    BY FlagItems
  <2>3. << 1 >> \o Listed(Len(list), FlagBytes(list)) \in Seq(Nat)
    BY <1>2, <1>3, <2>2
  <2>. QED
    BY <2>1, <2>3, SectionForms, Zenon
<1>5. EncodeMetadataReference(m.metadata_reference) \in Seq(Nat)
  <2>1. PICK r \in WrittenReference : r = m.metadata_reference
    BY ManifestFields
  <2>2. PICK list, h, b : list = r.locators /\ h = r.metadata_hash /\ b = r.inline_metadata
    OBVIOUS
  <2>3. list \in Seq(ByteString) /\ h \in Seq(Nat) /\ b \in Seq(Nat)
    BY <2>2, ReferenceFields
  <2>4. ItemsOf(UriBytes(list), Len(list), 4)
    BY <2>3, UriItems
  <2>5. ReferenceHead(h) \in Seq(Nat)
    BY <1>2, <2>3, Lengths, Zenon DEF ReferenceHead
  <2>6. ReferenceHead(h) \o Listed(Len(list), UriBytes(list)) \in Seq(Nat)
    BY <1>3, <2>4, <2>5
  <2>7. EncodeBytes(b) \in Seq(Nat)
    BY <2>3, BlobWidth
  <2>8. (ReferenceHead(h) \o Listed(Len(list), UriBytes(list))) \o EncodeBytes(b) \in Seq(Nat)
    BY <2>6, <2>7, Lengths, Zenon
  <2>. QED
    BY <2>1, <2>2, <2>8, SectionForms, Zenon
<1>6. EncodeSlabIndex(m.slab_index) \in Seq(Nat)
  <2>1. PICK list \in Seq(WrittenSlab) : list = m.slab_index
    BY ManifestFields
  <2>2. ItemsOf(SlabBytes(list), Len(list), 44)
    BY SlabItems
  <2>3. << 1 >> \o Listed(Len(list), SlabBytes(list)) \in Seq(Nat)
    BY <1>2, <1>3, <2>2
  <2>. QED
    BY <2>1, <2>3, SectionForms, Zenon
<1>7. EncodeEcParams(m.ec_params) \in Seq(Nat)
  <2>1. PICK p \in WrittenEcParams : p = m.ec_params
    BY ManifestFields
  <2>2. PICK list, k, s : list = p.overrides /\ k = p.k /\ s = p.m
    OBVIOUS
  <2>3. list \in Seq(WrittenOverride) /\ k \in Nat /\ s \in Nat
    BY <2>2, EcFields
  <2>4. ItemsOf(OverrideBytes(list), Len(list), 42)
    BY <2>3, OverrideItems
  <2>5. EcHead(k, s) \in Seq(Nat)
    <3>1. <<1, k, s>> \in Seq(Nat)
      BY <2>3
    <3>2. PackU16(DEFAULT_EC_POLYNOMIAL) \in Seq(Nat)
      BY PackTyped DEF DEFAULT_EC_POLYNOMIAL
    <3>. QED
      BY <3>1, <3>2, Lengths, Zenon DEF EcHead
  <2>6. EcHead(k, s) \o Listed(Len(list), OverrideBytes(list)) \in Seq(Nat)
    BY <1>3, <2>4, <2>5
  <2>. QED
    BY <2>1, <2>2, <2>6, SectionForms, Zenon
<1>8. EncodeDmsPolicy(m.dms_policy) \in Seq(Nat)
  <2>1. PICK p \in WrittenDmsPolicy : p = m.dms_policy
    BY ManifestFields
  <2>2. PICK list, k, n, b : list = p.shares /\ k = p.k /\ n = p.n /\ b = p.reconstruction_hint
    OBVIOUS
  <2>3. list \in Seq(WrittenShare) /\ k \in Nat /\ n \in Nat /\ b \in Seq(Nat)
    BY <2>2, DmsFields
  <2>4. ItemsOf(ShareBytes(list), Len(list), 0)
    BY <2>3, ShareItems
  <2>5. DmsHead(k, n) \in Seq(Nat)
    BY <2>3 DEF DmsHead, DMS_SCHEME_SHAMIR
  <2>6. DmsHead(k, n) \o Listed(Len(list), ShareBytes(list)) \in Seq(Nat)
    BY <1>3, <2>4, <2>5
  <2>7. EncodeBytes(b) \in Seq(Nat)
    BY <2>3, BlobWidth
  <2>8. (DmsHead(k, n) \o Listed(Len(list), ShareBytes(list))) \o EncodeBytes(b) \in Seq(Nat)
    BY <2>6, <2>7, Lengths, Zenon
  <2>. QED
    BY <2>1, <2>2, <2>8, SectionForms, Zenon
<1>9. EncodeHistory(m.history) \in Seq(Nat)
  <2>1. PICK list \in Seq(WrittenEntry) : list = m.history
    BY ManifestFields
  <2>2. ItemsOf(HistoryBytes(list), Len(list), 17)
    BY EntryItems
  <2>3. << 1 >> \o Listed(Len(list), HistoryBytes(list)) \in Seq(Nat)
    BY <1>2, <1>3, <2>2
  <2>. QED
    BY <2>1, <2>3, SectionForms, Zenon
<1>10. EcBytes(m, full) \in Seq(Nat) /\ DmsBytes(m, full) \in Seq(Nat)
  BY <1>2, <1>7, <1>8, Zenon DEF EcBytes, DmsBytes
<1>. QED
  BY <1>1, <1>4, <1>5, <1>6, <1>9, <1>10

\* b lies in e where a would end, or after a.
Starts(e, a, b) == a \in Seq(Nat) /\ Lies(e, Len(a), b)
Succeeds(e, a, b) == Lies(e, 0, a) /\ Starts(e, a, b)

LEMMA LiesFirst ==
    ASSUME NEW e \in Seq(Nat), NEW a \in Seq(Nat), NEW b \in Seq(Nat), Lies(e, 0, a \o b)
    PROVE  Succeeds(e, a, b)
<1>1. 0 \in Nat /\ Len(a) \in Nat
  OBVIOUS
<1>2. SplitAt(e, 0, a, b)
  BY <1>1, LiesSplit, Zenon
<1>3. 0 + Len(a) = Len(a)
  BY <1>1
<1>. QED
  BY <1>2, <1>3, Zenon DEF SplitAt, Succeeds, Starts

SectionsLie(m, full) ==
    LET W == Written(m, full)
    IN  /\ W \in Seq(Nat)
        /\ Lies(W, 0, EncodeHeader(m.header))
        /\ Starts(W, ThroughHeader(m), EncodeFeatureFlags(m.feature_flags))
        /\ Starts(W, ThroughFlags(m), EncodeMetadataReference(m.metadata_reference))
        /\ Starts(W, ThroughReference(m), EncodeSlabIndex(m.slab_index))
        /\ Starts(W, ThroughSlabs(m), EcBytes(m, full))
        /\ Starts(W, ThroughEc(m, full), DmsBytes(m, full))
        /\ Starts(W, ThroughDms(m, full), EncodeHistory(m.history))
        /\ Len(W) = Len(ThroughDms(m, full)) + Len(EncodeHistory(m.history))

LEMMA SectionsOfWritten ==
    ASSUME NEW m \in WrittenManifests, NEW full
    PROVE  SectionsLie(m, full)
<1>1. PICK s1, s2, s3, s4, s5, s6, s7 :
        /\ s1 = EncodeHeader(m.header) /\ s2 = EncodeFeatureFlags(m.feature_flags)
        /\ s3 = EncodeMetadataReference(m.metadata_reference) /\ s4 = EncodeSlabIndex(m.slab_index)
        /\ s5 = EcBytes(m, full) /\ s6 = DmsBytes(m, full) /\ s7 = EncodeHistory(m.history)
  OBVIOUS
<1>2. /\ s1 \in Seq(Nat) /\ s2 \in Seq(Nat) /\ s3 \in Seq(Nat) /\ s4 \in Seq(Nat)
      /\ s5 \in Seq(Nat) /\ s6 \in Seq(Nat) /\ s7 \in Seq(Nat)
  BY <1>1, SectionsWritten, Zenon
<1>3. PICK w2, w3, w4, w5, w6, W :
        /\ w2 = s1 \o s2 /\ w3 = w2 \o s3 /\ w4 = w3 \o s4 /\ w5 = w4 \o s5
        /\ w6 = w5 \o s6 /\ W = w6 \o s7
  OBVIOUS
<1>4. w2 \in Seq(Nat)
  BY <1>2, <1>3, Lengths, Zenon
<1>5. w3 \in Seq(Nat)
  BY <1>2, <1>3, <1>4, Lengths, Zenon
<1>6. w4 \in Seq(Nat)
  BY <1>2, <1>3, <1>5, Lengths, Zenon
<1>7. w5 \in Seq(Nat)
  BY <1>2, <1>3, <1>6, Lengths, Zenon
<1>8. w6 \in Seq(Nat)
  BY <1>2, <1>3, <1>7, Lengths, Zenon
<1>9. W \in Seq(Nat) /\ Len(W) = Len(w6) + Len(s7)
  BY <1>2, <1>3, <1>8, Lengths, Zenon
<1>10. Lies(W, 0, W)
  BY <1>9 DEF Lies
<1>11. Succeeds(W, w6, s7)
  BY <1>2, <1>3, <1>8, <1>9, <1>10, LiesFirst
<1>12. Succeeds(W, w5, s6)
  BY <1>2, <1>3, <1>7, <1>9, <1>11, LiesFirst DEF Succeeds, Starts
<1>13. Succeeds(W, w4, s5)
  BY <1>2, <1>3, <1>6, <1>9, <1>12, LiesFirst DEF Succeeds, Starts
<1>14. Succeeds(W, w3, s4)
  BY <1>2, <1>3, <1>5, <1>9, <1>13, LiesFirst DEF Succeeds, Starts
<1>15. Succeeds(W, w2, s3)
  BY <1>2, <1>3, <1>4, <1>9, <1>14, LiesFirst DEF Succeeds, Starts
<1>16. Succeeds(W, s1, s2) /\ Lies(W, 0, s1)
  BY <1>2, <1>3, <1>9, <1>15, LiesFirst DEF Succeeds, Starts
<1>17. /\ ThroughHeader(m) = s1 /\ ThroughFlags(m) = w2 /\ ThroughReference(m) = w3
       /\ ThroughSlabs(m) = w4 /\ ThroughEc(m, full) = w5 /\ ThroughDms(m, full) = w6
       /\ Written(m, full) = W
  BY <1>1, <1>3, Zenon DEF ThroughHeader, ThroughFlags, ThroughReference, ThroughSlabs, ThroughEc,
     ThroughDms, Written
<1>. QED
  BY <1>1, <1>9, <1>11, <1>12, <1>13, <1>14, <1>15, <1>16, <1>17, Zenon DEF SectionsLie, Succeeds

-----------------------------------------------------------------------------
\* What has been parsed is what was written.

HeaderIs(m) == header = m.header
FlagsAre(m) == HeaderIs(m) /\ flags = m.feature_flags
ReferenceIs(m) == FlagsAre(m) /\ metadata_reference = m.metadata_reference
SlabsAre(m) == ReferenceIs(m) /\ slab_index = m.slab_index
EcIs(m, full) == SlabsAre(m) /\ (HasFlag(EC_FLAG) => full /\ ec_params = m.ec_params)
DmsIs(m, full) == EcIs(m, full) /\ (HasFlag(DMS_FLAG) => full /\ dms_policy = m.dms_policy)

\* In the section that is being parsed, it is the first part of it.
FlagsFollow(m) == HeaderIs(m) /\ (step # "head" => Part(flags, left, m.feature_flags))

ReferenceFollows(m) ==
    /\ FlagsAre(m)
    /\ step # "head" =>
         /\ metadata_reference.metadata_hash = m.metadata_reference.metadata_hash
         /\ Part(locators, locators_left, m.metadata_reference.locators)

SlabsFollow(m) ==
    /\ ReferenceIs(m)
    /\ step = "entries" => Part(slab_index, left, m.slab_index)
    /\ step = "locators" =>
         /\ Part(Front(slab_index), left, m.slab_index) /\ Len(slab_index) \in 1..Len(m.slab_index)
         /\ Last(slab_index).slab_id = m.slab_index[Len(slab_index)].slab_id
         /\ Part(locators, locators_left, m.slab_index[Len(slab_index)].locators)

EcFollows(m, full) ==
    /\ SlabsAre(m)
    /\ step # "head" =>
         /\ full /\ ec_params.k = m.ec_params.k /\ ec_params.m = m.ec_params.m
         /\ Part(ec_params.overrides, left, m.ec_params.overrides)

DmsFollows(m, full) ==
    /\ EcIs(m, full)
    /\ step # "head" =>
         /\ full /\ dms_policy.k = m.dms_policy.k /\ dms_policy.n = m.dms_policy.n
         /\ Part(dms_policy.shares, left, m.dms_policy.shares)

HistoryFollows(m, full) == DmsIs(m, full) /\ (step # "head" => Part(history, left, m.history))

ParsedFollows(m, full) ==
    /\ section = "feature_flags" => FlagsFollow(m)
    /\ section = "metadata_reference" => ReferenceFollows(m)
    /\ section = "slab_index" => SlabsFollow(m)
    /\ section = "ec_params" => EcFollows(m, full)
    /\ section = "dms_policy" => DmsFollows(m, full)
    /\ section = "history" => HistoryFollows(m, full)

\* A valid manifest is refused only when it is not all there.
RefusedShort(m, full) ==
    status \in ErrorKinds /\ Valid(m) => status = "Truncated" /\ Len(buf) < Len(Written(m, full))

\* The file is, as far as it goes, what was written of m.
Faces(m, full) == CodecInv /\ WrittenAs(m, full) /\ Agrees(Written(m, full))

-----------------------------------------------------------------------------
\* What is read next is e, of what was written.
Meets(W, e) ==
    /\ e \in Seq(Nat) /\ HereAt(0, e) /\ position + Len(e) <= Len(W)
    /\ Len(e) \in Nat /\ Len(W) \in Nat /\ position \in Nat /\ Len(buf) \in Nat

LEMMA MeetsNext ==
    ASSUME CodecInv, NEW W \in Seq(Nat), Agrees(W), NEW e \in Seq(Nat), Lies(W, position, e)
    PROVE  Meets(W, e)
<1>1. CursorOK /\ position \in Nat /\ Len(buf) \in Nat
  BY CodecFile
<1>2. HereAt(0, e)
  BY <1>1, Faced
<1>3. Len(e) \in Nat /\ Len(W) \in Nat /\ position + Len(e) <= Len(W)
  BY DEF Lies
<1>. QED
  BY <1>1, <1>2, <1>3 DEF Meets

\* A row that finds too little of e.
LEMMA MeetsShort ==
    ASSUME NEW W, NEW e, Meets(W, e), NEW checks \in Seq(Outcomes), OnlyShort(checks, Len(e)),
           NEW s, NEW st, Reject(s, st, checks)
    PROVE  status' = "Truncated" /\ Len(buf) < Len(W)
<1>1. ~Passes(checks) /\ status' = FirstFailure(checks)
  BY DEF Reject, Raise
<1>2. FirstFailure(checks) = "Truncated" /\ remaining_len < Len(e)
  BY <1>1, FailsShort
<1>3. Len(buf) < Len(W)
  BY <1>2 DEF Meets, remaining_len
<1>. QED
  BY <1>1, <1>2, <1>3

LEMMA ReadLength ==
    ASSUME CodecInv
    PROVE  Len(ReadBytes) = position
<1>1. position \in 0..Len(buf) /\ buf \in Seq(U8Values)
  BY CodecFile DEF TypeOK, ByteString
<1>. QED
  BY <1>1 DEF ReadBytes

\* Where the reader is when it has read the first k items of a list.
LEMMA AtItem ==
    ASSUME CodecInv, NEW W \in Seq(Nat), NEW before, NEW h \in Seq(Nat),
           NEW items \in Seq(Seq(Nat)),
           Starts(W, before, h \o Listed(Len(items), items)),
           NEW k \in 0..Len(items), NEW done, done = SubSeq(items, 1, k), NEW count,
           count = Len(items),
           ReadBytes = before \o (h \o Listed(count, done))
    PROVE  ItemLies(W, Len(before), h, items, done, position)
<1>1. before \in Seq(Nat) /\ Lies(W, Len(before), h \o Listed(Len(items), items))
  BY DEF Starts
<1>2. ItemLies(W, Len(before), h, items, done, Len(before \o (h \o Listed(Len(items), done))))
  BY <1>1, NextItem
<1>3. Len(before \o (h \o Listed(Len(items), done))) = position
  BY ReadLength
<1>. QED
  BY <1>2, <1>3

\* The next item is met; after the last one comes the end of the list.
ItemMet(W, at, h, items, n, k) ==
    /\ k # n => Meets(W, items[k + 1])
    /\ k = n => position = at + Len(h \o Listed(n, items))

LEMMA MeetsItem ==
    ASSUME CodecInv, NEW W \in Seq(Nat), Agrees(W), NEW before, NEW h \in Seq(Nat),
           NEW items \in Seq(Seq(Nat)), NEW n \in Nat, Len(items) = n,
           Starts(W, before, h \o Listed(n, items)),
           NEW k \in 0..n, NEW done, done = SubSeq(items, 1, k),
           ReadBytes = before \o (h \o Listed(n, done))
    PROVE  ItemMet(W, Len(before), h, items, n, k)
<1>1. ItemLies(W, Len(before), h, items, done, position)
  BY AtItem
<1>2. Len(done) = k /\ (k # n => k < n)
  OBVIOUS
<1>3. ASSUME k # n
      PROVE  Meets(W, items[k + 1])
  <2>1. Lies(W, position, items[k + 1])
    BY <1>1, <1>2, <1>3 DEF ItemLies
  <2>2. items[k + 1] \in Seq(Nat)
    BY <1>2, <1>3
  <2>. QED
    BY <2>1, <2>2, MeetsNext
<1>. QED
  BY <1>1, <1>2, <1>3 DEF ItemLies, ItemMet

-----------------------------------------------------------------------------
\* The manifest header.
LEMMA HeaderFollowsOn ==
    ASSUME NEW m, NEW full, Faces(m, full), HeaderStep
    PROVE  /\ section' = "header" \/ (section' = "feature_flags" /\ step' = "head" /\ HeaderIs(m)')
           /\ RefusedShort(m, full)'
<1>1. PICK W, e : W = Written(m, full) /\ e = EncodeHeader(m.header)
  OBVIOUS
<1>2. /\ CursorOK /\ CodecInv /\ Agrees(W) /\ W \in Seq(Nat) /\ Lies(W, 0, e) /\ e \in Seq(Nat)
      /\ m.header \in ManifestHeaderType
  BY <1>1, CodecFile, SectionsOfWritten, ManifestFields, SectionsWritten, Zenon
     DEF Faces, WrittenAs, SectionsLie
<1>3. section = "header" /\ position = 0
  BY <1>2, CodecFile DEF HeaderStep, RejectHeader, Reject, ReadHeader, At, ReadSoFar
<1>4. Meets(W, e)
  BY <1>2, <1>3, MeetsNext
<1>5. HereAt(0, EncodeHeader(m.header))
  BY <1>1, <1>4 DEF Meets
<1>6. CASE RejectHeader
  <2>1. Reject("header", "head", HeaderChecks) /\ section' = section
    BY <1>6 DEF RejectHeader, Reject, Raise
  <2>2. OnlyShort(HeaderChecks, Len(e))
    <3>1. Len(e) = 16
      BY <1>1, <1>2, <1>5, HeaderReads
    <3>. QED
      BY <1>2, <1>5, <3>1, HeaderShort
  <2>3. status' = "Truncated" /\ Len(buf) < Len(W) /\ UNCHANGED buf
    BY <1>4, <2>1, <2>2, Rows, MeetsShort DEF Reject, Raise
  <2>. QED
    BY <1>1, <1>3, <2>1, <2>3 DEF RefusedShort
<1>7. CASE ReadHeader
  <2>1. /\ Passes(HeaderChecks) /\ section' = "feature_flags" /\ step' = "head" /\ status' = "parsing"
        /\ header' = [drop_store_version |-> U16(4), metadata_version |-> U16(6),
                      manifest_version |-> U16(8)]
    BY <1>7, NextSectionsAre DEF ReadHeader, At, Return
  <2>2. header' = m.header
    BY <1>2, <1>5, <2>1, HeaderMet
  <2>. QED
    BY <2>1, <2>2 DEF HeaderIs, RefusedShort, ErrorKinds
<1>. QED
  BY <1>6, <1>7 DEF HeaderStep

-----------------------------------------------------------------------------
\* The feature flags.
LEMMA FlagsFollowOn ==
    ASSUME NEW m, NEW full, Faces(m, full), ParsedFollows(m, full), FlagsStep, UNCHANGED header
    PROVE  /\ \/ section' = "feature_flags" /\ FlagsFollow(m)'
              \/ section' = "metadata_reference" /\ step' = "head" /\ FlagsAre(m)'
           /\ RefusedShort(m, full)'
<1>1. PICK W, whole, items, before :
        /\ W = Written(m, full) /\ whole = m.feature_flags /\ items = FlagBytes(whole)
        /\ before = ThroughHeader(m)
  OBVIOUS
<1>2. CodecInv /\ CursorOK /\ TypeOK /\ ReadSoFar /\ NotBegun /\ Agrees(W) /\ m \in WrittenManifests
  BY <1>1, CodecFile DEF Faces, WrittenAs
<1>3. /\ W \in Seq(Nat) /\ Starts(W, before, EncodeFeatureFlags(whole)) /\ whole \in Seq(WrittenFlag)
  BY <1>1, <1>2, SectionsOfWritten, ManifestFields, Zenon DEF SectionsLie
<1>4. PICK n \in Nat : n = Len(whole)
  BY <1>3
<1>5. PICK one : one = << 1 >> /\ one \in Seq(Nat)
  <2>1. << 1 >> \in Seq(Nat)
    OBVIOUS
  <2>. QED
    BY <2>1
<1>6. /\ items \in Seq(Seq(Nat)) /\ Len(items) = n /\ ItemsOf(items, n, 3)
      /\ \A i \in 1..n : items[i] = EncodeFlag(whole[i]) /\ whole[i] \in WrittenFlag
  BY <1>1, <1>3, <1>4, FlagItems DEF ItemsOf
<1>7. Starts(W, before, one \o Listed(n, items)) /\ one \o Listed(n, items) \in Seq(Nat)
  <2>1. EncodeFeatureFlags(whole) = one \o Listed(n, items)
    BY <1>1, <1>4, <1>5, SectionForms, Zenon
  <2>2. one \o Listed(n, items) \in Seq(Nat)
    BY <1>5, <1>6, ListLength DEF ListWidth
  <2>. QED
    BY <1>3, <2>1, <2>2, Zenon
<1>8. section = "feature_flags" /\ FlagsFollow(m)
  BY DEF ParsedFollows, FlagsStep, RejectFlags, ReadFlagsHead, ReadFlag, FlagsEnd, Reject, Accept,
     EntriesEnd, At
<1>9. BeforeFlags = before
  BY <1>1, <1>8 DEF BeforeFlags, ThroughHeader, FlagsFollow, HeaderIs
<1>10. header' = m.header
  BY <1>8 DEF FlagsFollow, HeaderIs
<1>11. ASSUME step = "head"
       PROVE  Meets(W, one \o Listed(n, items)) /\ flags = <<>>
  <2>1. ReadBytes = before
    BY <1>2, <1>8, <1>9, <1>11, Zenon DEF ReadSoFar, FlagsRead
  <2>2. Lies(W, position, one \o Listed(n, items))
    BY <1>2, <1>7, <2>1, ReadLength DEF Starts
  <2>3. Meets(W, one \o Listed(n, items))
    BY <1>2, <1>3, <1>7, <2>2, MeetsNext
  <2>4. flags = <<>>
    BY <1>2, <1>8, <1>11 DEF NotBegun, Ahead
  <2>. QED
    BY <2>3, <2>4
<1>12. flags \in Seq(FlagType) /\ Len(flags) \in Nat /\ left \in Nat
  BY <1>2 DEF TypeOK
<1>13. ASSUME step # "head", left # 0
       PROVE  LET x == whole[Len(flags) + 1]
              IN  /\ x \in WrittenFlag /\ Meets(W, EncodeFlag(x)) /\ NextInList(flags, left, whole)
                  /\ Len(EncodeFlag(x)) = 3
  <2>1. Part(flags, left, whole)
    BY <1>1, <1>8, <1>13 DEF FlagsFollow
  <2>2. NextInList(flags, left, whole) /\ whole[Len(flags) + 1] \in WrittenFlag
    BY <1>3, <1>12, <1>13, <2>1, PartGrows
  <2>3. PICK k, x : k = Len(flags) /\ x = whole[k + 1]
    OBVIOUS
  <2>4. k \in Nat /\ k + 1 \in 1..n /\ k \in 0..n /\ k < n
    BY <1>4, <2>2, <2>3 DEF NextInList
  <2>5. PICK done : done = FlagBytes(flags) /\ done = SubSeq(items, 1, k)
    BY <1>1, <1>3, <1>12, <2>1, <2>3, FlagPart
  <2>6. ReadBytes = before \o (one \o Listed(n, done))
    <3>1. Len(flags) + left = n
      BY <1>4, <2>1 DEF Part
    <3>. QED
      BY <1>2, <1>5, <1>8, <1>9, <1>13, <2>5, <3>1, Zenon DEF ReadSoFar, FlagsRead, FlagsSoFar
  <2>7. ItemMet(W, Len(before), one, items, n, k)
    BY <1>2, <1>3, <1>5, <1>6, <1>7, <2>4, <2>5, <2>6, MeetsItem, Zenon
  <2>8. items[k + 1] = EncodeFlag(x) /\ x \in WrittenFlag
    BY <1>6, <2>2, <2>3, <2>4
  <2>. QED
    BY <2>2, <2>3, <2>4, <2>7, <2>8, FlagWidth DEF ItemMet
<1>14. CASE RejectFlags
  <2>1. section' = section /\ step' = step /\ left' = left /\ UNCHANGED <<flags, buf>>
    BY <1>14 DEF RejectFlags, Reject, Raise
  <2>2. FlagsFollow(m)'
    BY <1>8, <1>10, <2>1 DEF FlagsFollow, HeaderIs
  <2>3. ASSUME Valid(m)
        PROVE  status' = "Truncated" /\ Len(buf) < Len(W)
    <3>1. CASE Reject("feature_flags", "head", FlagsHeadChecks)
      <4>1. step = "head"
        BY <3>1 DEF Reject, At
      <4>2. PICK e : e = one \o Listed(n, items)
        OBVIOUS
      <4>3. Meets(W, e)
        BY <1>11, <4>1, <4>2
      <4>4. OnlyShort(FlagsHeadChecks, Len(e))
        <5>1. HereAt(0, << 1 >> \o Listed(n, items))
          BY <1>5, <4>2, <4>3 DEF Meets
        <5>. QED
          BY <1>2, <1>5, <1>6, <4>2, <5>1, FlagsHeadShort
      <4>. QED
        BY <3>1, <4>3, <4>4, Rows, MeetsShort, Zenon
    <3>2. CASE MoreEntries /\ Reject("feature_flags", "entries", FlagChecks)
      <4>1. step # "head" /\ left # 0
        BY <1>12, <3>2 DEF Reject, At, MoreEntries
      <4>2. PICK k, x : k = Len(flags) /\ x = whole[k + 1]
        OBVIOUS
      <4>3. x \in WrittenFlag /\ Meets(W, EncodeFlag(x)) /\ NextInList(flags, left, whole) /\ Len(EncodeFlag(x)) = 3
        BY <1>13, <4>1, <4>2
      <4>4. ValidFlags(whole)
        BY <1>1, <2>3 DEF Valid
      <4>5. x.flag_id # 0 /\ \A i \in DOMAIN flags : flags[i].flag_id # x.flag_id
        BY <4>2, <4>3, <4>4 DEF NextInList, ValidFlags, Distinct
      <4>6. OnlyShort(FlagChecks, Len(EncodeFlag(x)))
        BY <1>2, <4>3, <4>5, FlagShort DEF Meets
      <4>. QED
        BY <3>2, <4>3, <4>6, Rows, MeetsShort, Zenon
    <3>. QED
      BY <1>14, <3>1, <3>2 DEF RejectFlags
  <2>. QED
    BY <1>1, <1>8, <2>1, <2>2, <2>3 DEF RefusedShort
<1>15. CASE ReadFlagsHead
  <2>1. /\ Passes(FlagsHeadChecks) /\ step = "head" /\ section' = "feature_flags" /\ status' = "parsing"
        /\ left' = U32(1) /\ UNCHANGED flags
    BY <1>15 DEF ReadFlagsHead, Accept, At
  <2>2. position + 5 <= Len(buf)
    BY <1>2, <2>1, FlagsHeadPassed
  <2>3. HereAt(0, << 1 >> \o Listed(n, items)) /\ flags = <<>>
    BY <1>5, <1>11, <2>1 DEF Meets
  <2>4. U32(1) = n
    BY <1>2, <1>6, <2>2, <2>3, OneListMet
  <2>5. Part(<<>>, n, whole)
    BY <1>3, <1>4, PartBegins
  <2>. QED
    BY <1>1, <1>10, <2>1, <2>3, <2>4, <2>5 DEF FlagsFollow, HeaderIs, RefusedShort, ErrorKinds
<1>16. CASE ReadFlag
  <2>1. /\ Passes(FlagChecks) /\ step # "head" /\ left # 0 /\ section' = "feature_flags" /\ status' = "parsing"
        /\ left' = left - 1 /\ flags' = Append(flags, NextFlag)
    BY <1>12, <1>16 DEF ReadFlag, Accept, At, MoreEntries, NextFlag
  <2>2. PICK k, x : k = Len(flags) /\ x = whole[k + 1]
    OBVIOUS
  <2>3. x \in WrittenFlag /\ Meets(W, EncodeFlag(x)) /\ NextInList(flags, left, whole)
    BY <1>13, <2>1, <2>2
  <2>4. NextFlag = x
    BY <1>2, <2>1, <2>3, FlagMet DEF Meets
  <2>5. Part(Append(flags, x), left - 1, whole)
    BY <2>2, <2>3 DEF NextInList
  <2>. QED
    BY <1>1, <1>10, <2>1, <2>4, <2>5 DEF FlagsFollow, HeaderIs, RefusedShort, ErrorKinds
<1>17. CASE FlagsEnd
  <2>1. /\ step # "head" /\ left = 0 /\ section' = "metadata_reference" /\ step' = "head" /\ status' = "parsing"
        /\ UNCHANGED flags
    BY <1>17, NextSectionsAre DEF FlagsEnd, EntriesEnd, At, Return
  <2>2. flags = whole
    BY <1>1, <1>3, <1>8, <1>12, <2>1, PartEnds DEF FlagsFollow
  <2>. QED
    BY <1>1, <1>10, <2>1, <2>2 DEF FlagsAre, HeaderIs, RefusedShort, ErrorKinds
<1>. QED
  BY <1>14, <1>15, <1>16, <1>17 DEF FlagsStep

-----------------------------------------------------------------------------
\* The locators of the metadata reference or of a slab: uris, written in W after before and h.

LocatorsAt(W, before, h, uris) ==
    /\ W \in Seq(Nat) /\ Agrees(W) /\ h \in Seq(Nat) /\ uris \in Seq(ByteString)
    /\ Starts(W, before, h \o Listed(Len(uris), UriBytes(uris)))
    /\ Part(locators, locators_left, uris)
    /\ ReadBytes = before \o (h \o Listed(Len(locators) + locators_left, UriBytes(locators)))

LEMMA LocatorsMet ==
    ASSUME CodecInv, NEW W, NEW before, NEW h, NEW uris, LocatorsAt(W, before, h, uris)
    PROVE  /\ locators_left # 0 =>
                LET b == uris[Len(locators) + 1]
                IN  /\ b \in ByteString /\ Meets(W, EncodeBytes(b)) /\ NextInList(locators, locators_left, uris)
           /\ locators_left = 0 =>
                /\ locators = uris
                /\ position = Len(before) + Len(h \o Listed(Len(uris), UriBytes(uris)))
<1>1. /\ W \in Seq(Nat) /\ Agrees(W) /\ h \in Seq(Nat) /\ uris \in Seq(ByteString)
      /\ Part(locators, locators_left, uris)
  BY DEF LocatorsAt
<1>2. Len(locators) \in Nat /\ locators_left \in Nat /\ Len(uris) \in Nat
  BY <1>1, CodecFile DEF TypeOK
<1>3. PICK k \in Nat, n \in Nat : k = Len(locators) /\ n = Len(uris)
  BY <1>2
<1>4. PICK items : items = UriBytes(uris)
  OBVIOUS
<1>5. /\ items \in Seq(Seq(Nat)) /\ Len(items) = n
      /\ \A i \in 1..n : items[i] = EncodeBytes(uris[i]) /\ uris[i] \in Seq(Nat)
  BY <1>1, <1>3, <1>4, UriItems DEF ItemsOf
<1>6. PICK done : done = UriBytes(locators) /\ done = SubSeq(items, 1, k)
  BY <1>1, <1>2, <1>3, <1>4, UriPart
<1>7. k + locators_left = n /\ k \in 0..n
  <2>1. k + locators_left = n
    BY <1>1, <1>3 DEF Part
  <2>. QED
    BY <1>2, <2>1
<1>8. Starts(W, before, h \o Listed(n, items)) /\ ReadBytes = before \o (h \o Listed(n, done))
  BY <1>3, <1>4, <1>6, <1>7, Zenon DEF LocatorsAt
<1>9. ItemMet(W, Len(before), h, items, n, k)
  BY <1>1, <1>5, <1>6, <1>7, <1>8, MeetsItem, Zenon
<1>10. ASSUME locators_left # 0
       PROVE  LET b == uris[Len(locators) + 1]
              IN  b \in ByteString /\ Meets(W, EncodeBytes(b)) /\ NextInList(locators, locators_left, uris)
  <2>1. NextInList(locators, locators_left, uris) /\ uris[Len(locators) + 1] \in ByteString
    BY <1>1, <1>2, <1>10, PartGrows
  <2>2. k # n /\ k + 1 \in 1..n
    BY <1>2, <1>7, <1>10
  <2>3. items[k + 1] = EncodeBytes(uris[k + 1])
    BY <1>5, <2>2
  <2>. QED
    BY <1>3, <1>9, <2>1, <2>2, <2>3 DEF ItemMet
<1>11. ASSUME locators_left = 0
       PROVE  /\ locators = uris
              /\ position = Len(before) + Len(h \o Listed(Len(uris), UriBytes(uris)))
  <2>1. locators = uris
    BY <1>1, <1>2, <1>11, PartEnds
  <2>2. k = n
    BY <1>7, <1>11
  <2>. QED
    BY <1>3, <1>4, <1>9, <2>1, <2>2 DEF ItemMet
<1>. QED
  BY <1>10, <1>11

LEMMA LocatorFollowsOn ==
    ASSUME CodecInv, NEW W, NEW before, NEW h, NEW uris, LocatorsAt(W, before, h, uris), LocatorStep
    PROVE  /\ UNCHANGED <<section, step, left, buf>>
           /\ Part(locators', locators_left', uris)
           /\ status' = "parsing" \/ (ValidLocators(uris) => status' = "Truncated" /\ Len(buf) < Len(W))
<1>1. UNCHANGED <<section, step, left, buf>>
  BY DEF LocatorStep, RejectLocator, ReadLocator, Reject, Raise, Accept, Advance
<1>2. locators_left # 0 /\ CursorOK
  BY CodecFile DEF LocatorStep, RejectLocator, ReadLocator, MoreLocators, TypeOK
<1>3. PICK b : b = uris[Len(locators) + 1]
  OBVIOUS
<1>4. b \in ByteString /\ b \in Seq(Nat) /\ Meets(W, EncodeBytes(b)) /\ NextInList(locators, locators_left, uris)
  BY <1>2, <1>3, LocatorsMet, BytesAreNumbers
<1>5. HereAt(0, EncodeBytes(b))
  BY <1>4 DEF Meets
<1>6. CASE RejectLocator
  <2>1. Part(locators', locators_left', uris)
    BY <1>6 DEF RejectLocator, LocatorsAt
  <2>2. ASSUME ValidLocators(uris)
        PROVE  status' = "Truncated" /\ Len(buf) < Len(W)
    <3>1. Len(b) \in MIN_LOCATOR_URI_BYTES..DEFAULT_LOCATOR_MAX_URI_BYTES /\ IsUri(b)
      BY <1>3, <1>4, <2>2 DEF ValidLocators, NextInList
    <3>2. OnlyShort(LocatorChecks, Len(EncodeBytes(b)))
      BY <1>2, <1>4, <1>5, <3>1, LocatorShort
    <3>. QED
      BY <1>4, <1>6, <3>2, Rows, MeetsShort, Zenon DEF RejectLocator
  <2>. QED
    BY <1>1, <2>1, <2>2
<1>7. CASE ReadLocator
  <2>1. /\ Passes(LocatorChecks) /\ status' = "parsing" /\ locators' = Append(locators, NextUri)
        /\ locators_left' = locators_left - 1
    BY <1>7 DEF ReadLocator, Accept, At, NextUri
  <2>2. NextUri = b
    BY <1>2, <1>4, <1>5, <2>1, LocatorPassed, BlobMet
  <2>3. Part(Append(locators, b), locators_left - 1, uris)
    BY <1>3, <1>4 DEF NextInList
  <2>. QED
    BY <1>1, <2>1, <2>2, <2>3
<1>. QED
  BY <1>6, <1>7 DEF LocatorStep

-----------------------------------------------------------------------------
\* The metadata reference.

ReferenceAt(m, full) ==
    LET r == m.metadata_reference
        h == ReferenceHead(r.metadata_hash)
    IN  /\ Written(m, full) \in Seq(Nat) /\ Agrees(Written(m, full)) /\ r \in WrittenReference
        /\ h \in Seq(Nat) /\ h \o Listed(Len(r.locators), UriBytes(r.locators)) \in Seq(Nat)
        /\ ItemsOf(UriBytes(r.locators), Len(r.locators), 4)
        /\ Starts(Written(m, full), ThroughFlags(m), h \o Listed(Len(r.locators), UriBytes(r.locators)))
        /\ BeforeReference = ThroughFlags(m)

LEMMA ReferenceLies ==
    ASSUME NEW m, NEW full, Faces(m, full), FlagsAre(m)
    PROVE  ReferenceAt(m, full)
<1>1. PICK W, r, before : W = Written(m, full) /\ r = m.metadata_reference /\ before = ThroughFlags(m)
  OBVIOUS
<1>2. CodecInv /\ Agrees(W) /\ m \in WrittenManifests
  BY <1>1 DEF Faces, WrittenAs
<1>3. W \in Seq(Nat) /\ Starts(W, before, EncodeMetadataReference(r)) /\ r \in WrittenReference
  BY <1>1, <1>2, SectionsOfWritten, ManifestFields, Zenon DEF SectionsLie
<1>4. PICK hash, uris, b : hash = r.metadata_hash /\ uris = r.locators /\ b = r.inline_metadata
  OBVIOUS
<1>5. hash \in Seq(Nat) /\ Len(hash) = 32 /\ uris \in Seq(ByteString) /\ b \in Seq(Nat)
  BY <1>3, <1>4, ReferenceFields
<1>6. PICK h, items, n : h = ReferenceHead(hash) /\ items = UriBytes(uris) /\ n = Len(uris)
  OBVIOUS
<1>7. ItemsOf(items, n, 4) /\ n \in Nat /\ items \in Seq(Seq(Nat))
  BY <1>5, <1>6, UriItems DEF ItemsOf
<1>8. h \in Seq(Nat)
  <2>1. << 1 >> \in Seq(Nat)
    OBVIOUS
  <2>. QED
    BY <1>5, <1>6, <2>1, Lengths, Zenon DEF ReferenceHead
<1>9. PICK g : g = h \o Listed(n, items) /\ g \in Seq(Nat)
  BY <1>7, <1>8, ListLength DEF ListWidth
<1>10. EncodeMetadataReference(r) = g \o EncodeBytes(b) /\ EncodeBytes(b) \in Seq(Nat)
  BY <1>4, <1>5, <1>6, <1>9, SectionForms, BlobWidth, Zenon
<1>11. before \in Seq(Nat) /\ Len(before) \in Nat /\ Lies(W, Len(before), g \o EncodeBytes(b))
  BY <1>3, <1>10 DEF Starts
<1>12. SplitAt(W, Len(before), g, EncodeBytes(b))
  BY <1>3, <1>9, <1>10, <1>11, LiesSplit, Zenon
<1>13. Starts(W, before, g)
  BY <1>11, <1>12 DEF SplitAt, Starts
<1>14. BeforeReference = before
  BY <1>1, Zenon DEF FlagsAre, HeaderIs, BeforeReference, BeforeFlags, ThroughFlags, ThroughHeader
<1>. QED
  BY <1>1, <1>2, <1>3, <1>4, <1>6, <1>7, <1>8, <1>9, <1>13, <1>14, Zenon DEF ReferenceAt

\* What is left of the section when its locators have been read.
LEMMA ReferenceTail ==
    ASSUME NEW m, NEW full, Faces(m, full), NEW before, before = ThroughFlags(m),
           LET r == m.metadata_reference
           IN  position = Len(before) + Len(ReferenceHead(r.metadata_hash) \o Listed(Len(r.locators), UriBytes(r.locators)))
    PROVE  Meets(Written(m, full), EncodeBytes(m.metadata_reference.inline_metadata))
<1>1. PICK W, r : W = Written(m, full) /\ r = m.metadata_reference
  OBVIOUS
<1>2. CodecInv /\ Agrees(W) /\ m \in WrittenManifests
  BY <1>1 DEF Faces, WrittenAs
<1>3. W \in Seq(Nat) /\ Starts(W, before, EncodeMetadataReference(r)) /\ r \in WrittenReference
  BY <1>1, <1>2, SectionsOfWritten, ManifestFields, Zenon DEF SectionsLie
<1>4. PICK hash, uris, b : hash = r.metadata_hash /\ uris = r.locators /\ b = r.inline_metadata
  OBVIOUS
<1>5. hash \in Seq(Nat) /\ Len(hash) = 32 /\ uris \in Seq(ByteString) /\ b \in Seq(Nat)
  BY <1>3, <1>4, ReferenceFields
<1>6. PICK h, items, n : h = ReferenceHead(hash) /\ items = UriBytes(uris) /\ n = Len(uris)
  OBVIOUS
<1>7. n \in Nat /\ items \in Seq(Seq(Nat))
  BY <1>5, <1>6, UriItems DEF ItemsOf
<1>8. h \in Seq(Nat)
  <2>1. << 1 >> \in Seq(Nat)
    OBVIOUS
  <2>. QED
    BY <1>5, <1>6, <2>1, Lengths, Zenon DEF ReferenceHead
<1>9. PICK g : g = h \o Listed(n, items) /\ g \in Seq(Nat)
  BY <1>7, <1>8, ListLength DEF ListWidth
<1>10. EncodeMetadataReference(r) = g \o EncodeBytes(b) /\ EncodeBytes(b) \in Seq(Nat)
  BY <1>4, <1>5, <1>6, <1>9, SectionForms, BlobWidth, Zenon
<1>11. before \in Seq(Nat) /\ Len(before) \in Nat /\ Lies(W, Len(before), g \o EncodeBytes(b))
  BY <1>3, <1>10 DEF Starts
<1>12. SplitAt(W, Len(before), g, EncodeBytes(b))
  BY <1>3, <1>9, <1>10, <1>11, LiesSplit, Zenon
<1>13. position = Len(before) + Len(g)
  BY <1>1, <1>4, <1>6, <1>9, Zenon
<1>14. Lies(W, position, EncodeBytes(b))
  BY <1>12, <1>13, Zenon DEF SplitAt
<1>. QED
  BY <1>1, <1>2, <1>3, <1>4, <1>10, <1>14, MeetsNext

LEMMA ReferenceLocators ==
    ASSUME NEW m, NEW full, Faces(m, full), ReferenceFollows(m), section = "metadata_reference",
           step # "head"
    PROVE  LET r == m.metadata_reference
           IN  LocatorsAt(Written(m, full), ThroughFlags(m), ReferenceHead(r.metadata_hash), r.locators)
<1>1. PICK W, r, h : W = Written(m, full) /\ r = m.metadata_reference /\ h = ReferenceHead(r.metadata_hash)
  OBVIOUS
<1>2. /\ FlagsAre(m) /\ metadata_reference.metadata_hash = r.metadata_hash
      /\ Part(locators, locators_left, r.locators)
  BY <1>1 DEF ReferenceFollows
<1>3. ReferenceAt(m, full)
  BY <1>2, ReferenceLies
<1>4. /\ W \in Seq(Nat) /\ Agrees(W) /\ r \in WrittenReference /\ h \in Seq(Nat)
      /\ Starts(W, ThroughFlags(m), h \o Listed(Len(r.locators), UriBytes(r.locators)))
      /\ BeforeReference = ThroughFlags(m)
  BY <1>1, <1>3 DEF ReferenceAt
<1>5. ReadSoFar
  BY CodecFile DEF Faces
<1>6. ReadBytes = BeforeReference \o ReferenceSoFar
  BY <1>5 DEF ReadSoFar, ReferenceRead
<1>7. ReferenceSoFar = h \o Listed(Len(locators) + locators_left, UriBytes(locators))
  BY <1>1, <1>2, Zenon DEF ReferenceSoFar, ReferenceHead
<1>8. r.locators \in Seq(ByteString)
  BY <1>4, ReferenceFields
<1>. QED
  BY <1>1, <1>2, <1>4, <1>6, <1>7, <1>8 DEF LocatorsAt

\* A valid reference announces as many locators as can follow.
LEMMA ReferenceHeadMeets ==
    ASSUME NEW m, NEW full, Faces(m, full), ReferenceFollows(m), section = "metadata_reference",
           step = "head"
    PROVE  LET r == m.metadata_reference
           IN  Meets(Written(m, full), ReferenceHead(r.metadata_hash) \o Listed(Len(r.locators), UriBytes(r.locators)))
<1>1. PICK W, r, e : /\ W = Written(m, full) /\ r = m.metadata_reference
                     /\ e = ReferenceHead(r.metadata_hash) \o Listed(Len(r.locators), UriBytes(r.locators))
  OBVIOUS
<1>2. FlagsAre(m)
  BY DEF ReferenceFollows
<1>3. ReferenceAt(m, full)
  BY <1>2, ReferenceLies
<1>4. /\ W \in Seq(Nat) /\ Agrees(W) /\ e \in Seq(Nat) /\ Starts(W, ThroughFlags(m), e)
      /\ BeforeReference = ThroughFlags(m)
  BY <1>1, <1>3 DEF ReferenceAt
<1>5. CodecInv /\ ReadSoFar
  BY CodecFile DEF Faces
<1>6. ReadBytes = ThroughFlags(m)
  BY <1>4, <1>5 DEF ReadSoFar, ReferenceRead
<1>7. Lies(W, position, e)
  BY <1>4, <1>5, <1>6, ReadLength DEF Starts
<1>. QED
  BY <1>1, <1>4, <1>5, <1>7, MeetsNext

LEMMA ReferenceFollowsOn ==
    ASSUME NEW m, NEW full, Faces(m, full), ParsedFollows(m, full), MetadataReferenceStep,
           UNCHANGED <<header, flags>>
    PROVE  /\ \/ section' = "metadata_reference" /\ ReferenceFollows(m)'
              \/ section' = "slab_index" /\ step' = "head" /\ ReferenceIs(m)'
           /\ RefusedShort(m, full)'
<1>1. PICK W, r, hash, uris, b, n, before :
        /\ W = Written(m, full) /\ r = m.metadata_reference /\ hash = r.metadata_hash
        /\ uris = r.locators /\ b = r.inline_metadata /\ n = Len(uris) /\ before = ThroughFlags(m)
  OBVIOUS
<1>2. CodecInv /\ CursorOK /\ TypeOK /\ m \in WrittenManifests
  BY CodecFile DEF Faces, WrittenAs
<1>3. section = "metadata_reference" /\ ReferenceFollows(m)
  BY DEF ParsedFollows, MetadataReferenceStep, RejectMetadataReference, ReadMetadataHead,
     ReadMetadataTail,
         Reject, Accept, At
<1>4. r \in WrittenReference /\ n \in Nat
  BY <1>1, <1>2, ManifestFields, ReferenceFields
<1>5. /\ hash \in Seq(Nat) /\ Len(hash) = 32 /\ uris \in Seq(ByteString) /\ b \in Seq(Nat)
      /\ r = [metadata_hash |-> hash, locators |-> uris, inline_metadata |-> b]
  BY <1>1, <1>4, ReferenceFields
<1>6. PICK items : items = UriBytes(uris)
  OBVIOUS
<1>7. items \in Seq(Seq(Nat)) /\ (ValidLocators(uris) => ItemsOf(items, n, 8))
  BY <1>1, <1>5, <1>6, UriItems DEF ItemsOf
<1>8. ASSUME step = "head"
      PROVE  Meets(W, ReferenceHead(hash) \o Listed(n, items))
  BY <1>1, <1>3, <1>6, <1>8, ReferenceHeadMeets
<1>9. ASSUME step # "head"
      PROVE  LocatorsAt(W, before, ReferenceHead(hash), uris)
  BY <1>1, <1>3, <1>9, ReferenceLocators
<1>10. locators_left \in Nat
  BY <1>2 DEF TypeOK
<1>11. ASSUME step # "head", ~MoreLocators
       PROVE  locators = uris /\ Meets(W, EncodeBytes(b))
  <2>1. locators_left = 0
    BY <1>10, <1>11 DEF MoreLocators
  <2>2. /\ locators = uris
        /\ position = Len(before) + Len(ReferenceHead(hash) \o Listed(Len(uris), UriBytes(uris)))
    BY <1>2, <1>9, <1>11, <2>1, LocatorsMet
  <2>. QED
    BY <1>1, <2>2, ReferenceTail
<1>12. FlagsAre(m) /\ FlagsAre(m)'
  BY <1>3 DEF ReferenceFollows, FlagsAre, HeaderIs
<1>13. CASE RejectMetadataReference
  <2>1. /\ section' = section /\ step' = step
        /\ UNCHANGED <<locators, locators_left, metadata_reference, buf>>
    BY <1>13 DEF RejectMetadataReference, Reject, Raise
  <2>2. ReferenceFollows(m)'
    BY <1>3, <1>12, <2>1 DEF ReferenceFollows
  <2>3. ASSUME Valid(m)
        PROVE  status' = "Truncated" /\ Len(buf) < Len(W)
    <3>1. ValidReference(r)
      BY <1>1, <2>3 DEF Valid
    <3>2. /\ ValidLocators(uris) /\ Len(b) <= DEFAULT_INLINE_METADATA_MAX_BYTES
          /\ uris # <<>> \/ b # <<>>
      BY <1>1, <3>1 DEF ValidReference
    <3>3. CASE Reject("metadata_reference", "head", MetadataHeadChecks)
      <4>1. step = "head"
        BY <3>3 DEF Reject, At
      <4>2. PICK e : e = ReferenceHead(hash) \o Listed(n, items)
        OBVIOUS
      <4>3. Meets(W, e)
        BY <1>8, <4>1, <4>2
      <4>4. OnlyShort(MetadataHeadChecks, Len(e))
        <5>1. HereAt(0, ReferenceHead(hash) \o Listed(n, items))
          BY <4>2, <4>3 DEF Meets
        <5>. QED
          BY <1>2, <1>5, <1>7, <3>2, <4>2, <5>1, ReferenceHeadShort
      <4>. QED
        BY <3>3, <4>3, <4>4, Rows, MeetsShort, Zenon
    <3>4. CASE ~MoreLocators /\ Reject("metadata_reference", "locators", MetadataTailChecks)
      <4>1. step # "head" /\ ~MoreLocators
        BY <3>4 DEF Reject, At
      <4>2. locators = uris /\ Meets(W, EncodeBytes(b))
        BY <1>11, <4>1
      <4>3. OnlyShort(MetadataTailChecks, Len(EncodeBytes(b)))
        BY <1>2, <1>5, <3>2, <4>2, TailShort DEF Meets
      <4>. QED
        BY <3>4, <4>2, <4>3, Rows, MeetsShort, Zenon
    <3>. QED
      BY <1>13, <3>3, <3>4 DEF RejectMetadataReference
  <2>. QED
    BY <1>1, <1>3, <2>1, <2>2, <2>3 DEF RefusedShort
<1>14. CASE ReadMetadataHead
  <2>1. /\ Passes(MetadataHeadChecks) /\ step = "head" /\ section' = "metadata_reference"
        /\ status' = "parsing" /\ locators' = <<>> /\ locators_left' = U32(33)
    BY <1>14 DEF ReadMetadataHead, Accept, At, BeginLocators
  <2>2. metadata_reference'.metadata_hash = Bytes(1, 32)
    BY <1>2, <1>14 DEF ReadMetadataHead, TypeOK, MetadataReferenceType
  <2>3. position + 37 <= Len(buf)
    BY <1>2, <2>1, MetadataHeadPassed
  <2>4. HereAt(0, ReferenceHead(hash) \o Listed(n, items))
    BY <1>8, <2>1 DEF Meets
  <2>5. Bytes(1, 32) = hash /\ U32(33) = n
    BY <1>2, <1>4, <1>5, <1>7, <2>3, <2>4, ReferenceHeadMet
  <2>6. Part(<<>>, n, uris)
    BY <1>1, <1>5, PartBegins
  <2>. QED
    BY <1>1, <1>12, <2>1, <2>2, <2>5, <2>6 DEF ReferenceFollows, RefusedShort, ErrorKinds
<1>15. CASE ReadMetadataTail
  <2>1. /\ Passes(MetadataTailChecks) /\ step = "locators" /\ ~MoreLocators
        /\ section' = "slab_index" /\ step' = "head" /\ status' = "parsing"
    BY <1>15, NextSectionsAre DEF ReadMetadataTail, Return, At
  <2>2. locators = uris /\ Meets(W, EncodeBytes(b))
    BY <1>11, <2>1
  <2>3. position + 4 + U32(0) <= Len(buf)
    BY <1>2, <2>1, MetadataTailPassed
  <2>4. NextUri = b
    BY <1>2, <1>5, <2>2, <2>3, BlobMet DEF Meets
  <2>5. metadata_reference.metadata_hash = hash
    BY <1>1, <1>3, <2>1 DEF ReferenceFollows
  <2>6. metadata_reference' = [metadata_hash |-> metadata_reference.metadata_hash, locators |-> locators,
                               inline_metadata |-> NextUri]
    BY <1>2, <1>15 DEF ReadMetadataTail, TypeOK, MetadataReferenceType, NextUri
  <2>7. metadata_reference' = r
    BY <1>5, <2>2, <2>4, <2>5, <2>6, Zenon
  <2>. QED
    BY <1>1, <1>12, <2>1, <2>7 DEF ReferenceIs, RefusedShort, ErrorKinds
<1>. QED
  BY <1>13, <1>14, <1>15 DEF MetadataReferenceStep

\* A locator of the metadata reference.
LEMMA ReferenceLocatorFollowsOn ==
    ASSUME NEW m, NEW full, Faces(m, full), ParsedFollows(m, full), section = "metadata_reference",
           LocatorStep, UNCHANGED <<header, flags, metadata_reference>>
    PROVE  section' = "metadata_reference" /\ ReferenceFollows(m)' /\ RefusedShort(m, full)'
<1>1. PICK W, r, h, uris, before :
        /\ W = Written(m, full) /\ r = m.metadata_reference /\ h = ReferenceHead(r.metadata_hash)
        /\ uris = r.locators /\ before = ThroughFlags(m)
  OBVIOUS
<1>2. CodecInv /\ ReferenceFollows(m) /\ step # "head"
  BY DEF Faces, ParsedFollows, LocatorStep, RejectLocator, ReadLocator, Reject, Accept, At
<1>3. LocatorsAt(W, before, h, uris)
  BY <1>1, <1>2, ReferenceLocators
<1>4. /\ UNCHANGED <<section, step, left, buf>> /\ Part(locators', locators_left', uris)
      /\ status' = "parsing" \/ (ValidLocators(uris) => status' = "Truncated" /\ Len(buf) < Len(W))
  BY <1>2, <1>3, LocatorFollowsOn
<1>5. ReferenceFollows(m)'
  BY <1>1, <1>2, <1>4 DEF ReferenceFollows, FlagsAre, HeaderIs
<1>6. Valid(m) => ValidLocators(uris)
  BY <1>1 DEF Valid, ValidReference
<1>. QED
  BY <1>1, <1>4, <1>5, <1>6 DEF RefusedShort, ErrorKinds

-----------------------------------------------------------------------------
\* The slab index.

\* Where the index lies, and what has been read of it.
SlabsAt(m, full, one, items, n) ==
    LET W == Written(m, full)
    IN  /\ W \in Seq(Nat) /\ Agrees(W) /\ m.slab_index \in Seq(WrittenSlab) /\ n = Len(m.slab_index)
        /\ n \in Nat /\ one = << 1 >> /\ one \in Seq(Nat)
        /\ items = SlabBytes(m.slab_index) /\ items \in Seq(Seq(Nat)) /\ Len(items) = n
        /\ ItemsOf(items, n, 44)
        /\ \A i \in 1..n : items[i] = EncodeSlabEntry(m.slab_index[i]) /\ m.slab_index[i] \in WrittenSlab
        /\ Starts(W, ThroughReference(m), one \o Listed(n, items))
        /\ one \o Listed(n, items) \in Seq(Nat)
        /\ BeforeSlabIndex = ThroughReference(m)

LEMMA SlabsLie ==
    ASSUME NEW m, NEW full, Faces(m, full), ReferenceIs(m), NEW one, one = << 1 >>,
           NEW items, items = SlabBytes(m.slab_index), NEW n, n = Len(m.slab_index)
    PROVE  SlabsAt(m, full, one, items, n)
<1>1. PICK W, whole, before :
        W = Written(m, full) /\ whole = m.slab_index /\ before = ThroughReference(m)
  OBVIOUS
<1>2. CodecInv /\ Agrees(W) /\ m \in WrittenManifests
  BY <1>1 DEF Faces, WrittenAs
<1>3. W \in Seq(Nat) /\ Starts(W, before, EncodeSlabIndex(whole)) /\ whole \in Seq(WrittenSlab)
  BY <1>1, <1>2, SectionsOfWritten, ManifestFields, Zenon DEF SectionsLie
<1>4. n \in Nat /\ one \in Seq(Nat)
  <2>1. << 1 >> \in Seq(Nat) /\ Len(whole) \in Nat
    BY <1>3
  <2>. QED
    BY <1>1, <2>1
<1>5. /\ items \in Seq(Seq(Nat)) /\ Len(items) = n /\ ItemsOf(items, n, 44)
      /\ \A i \in 1..n : items[i] = EncodeSlabEntry(whole[i]) /\ whole[i] \in WrittenSlab
  BY <1>1, <1>3, SlabItems DEF ItemsOf
<1>6. Starts(W, before, one \o Listed(n, items)) /\ one \o Listed(n, items) \in Seq(Nat)
  <2>1. EncodeSlabIndex(whole) = one \o Listed(n, items)
    BY <1>1, SectionForms, Zenon
  <2>2. one \o Listed(n, items) \in Seq(Nat)
    BY <1>4, <1>5, ListLength DEF ListWidth
  <2>. QED
    BY <1>3, <2>1, <2>2, Zenon
<1>7. BeforeSlabIndex = before
  BY <1>1, Zenon DEF ReferenceIs, FlagsAre, HeaderIs, BeforeSlabIndex, BeforeReference, BeforeFlags,
                     ThroughReference, ThroughFlags, ThroughHeader
<1>. QED
  BY <1>1, <1>2, <1>3, <1>4, <1>5, <1>6, <1>7 DEF SlabsAt

LEMMA SlabHeadMeets ==
    ASSUME NEW m, NEW full, Faces(m, full), SlabsFollow(m), section = "slab_index", step = "head",
           NEW one, NEW items, NEW n, SlabsAt(m, full, one, items, n)
    PROVE  Meets(Written(m, full), one \o Listed(n, items)) /\ slab_index = <<>>
<1>1. PICK W, before, e : /\ W = Written(m, full) /\ before = ThroughReference(m)
                          /\ e = one \o Listed(n, items)
  OBVIOUS
<1>2. CodecInv /\ ReadSoFar /\ NotBegun
  BY CodecFile DEF Faces
<1>3. ReadBytes = before
  BY <1>1, <1>2 DEF ReadSoFar, SlabsRead, SlabsAt
<1>4. W \in Seq(Nat) /\ Agrees(W) /\ e \in Seq(Nat) /\ Starts(W, before, e)
  BY <1>1 DEF SlabsAt
<1>5. Lies(W, position, e)
  BY <1>2, <1>3, <1>4, ReadLength DEF Starts
<1>6. Meets(W, e)
  BY <1>2, <1>4, <1>5, MeetsNext
<1>7. slab_index = <<>>
  BY <1>2 DEF NotBegun, Ahead
<1>. QED
  BY <1>1, <1>6, <1>7

LEMMA SlabEntryMeets ==
    ASSUME NEW m, NEW full, Faces(m, full), SlabsFollow(m), section = "slab_index",
           step = "entries",
           left # 0, NEW one, NEW items, NEW n, SlabsAt(m, full, one, items, n)
    PROVE  LET x == m.slab_index[Len(slab_index) + 1]
           IN  /\ x \in WrittenSlab /\ Meets(Written(m, full), EncodeSlabEntry(x))
               /\ NextInList(slab_index, left, m.slab_index)
<1>1. PICK W, whole, before : W = Written(m, full) /\ whole = m.slab_index /\ before = ThroughReference(m)
  OBVIOUS
<1>2. CodecInv /\ TypeOK /\ ReadSoFar
  BY CodecFile DEF Faces
<1>3. /\ W \in Seq(Nat) /\ Agrees(W) /\ whole \in Seq(WrittenSlab) /\ n = Len(whole) /\ n \in Nat
      /\ one = << 1 >> /\ one \in Seq(Nat) /\ items = SlabBytes(whole) /\ items \in Seq(Seq(Nat))
      /\ Len(items) = n
      /\ \A i \in 1..n : items[i] = EncodeSlabEntry(whole[i]) /\ whole[i] \in WrittenSlab
      /\ Starts(W, before, one \o Listed(n, items)) /\ BeforeSlabIndex = before
  BY <1>1 DEF SlabsAt
<1>4. Len(slab_index) \in Nat /\ left \in Nat
  BY <1>2, CursorKept DEF TypeOK
<1>5. Part(slab_index, left, whole)
  BY <1>1 DEF SlabsFollow
<1>6. NextInList(slab_index, left, whole) /\ whole[Len(slab_index) + 1] \in WrittenSlab
  BY <1>3, <1>4, <1>5, PartGrows
<1>7. PICK k, x : k = Len(slab_index) /\ x = whole[k + 1]
  OBVIOUS
<1>8. k \in Nat /\ k + 1 \in 1..n /\ k \in 0..n /\ k < n
  BY <1>3, <1>6, <1>7 DEF NextInList
<1>9. PICK done : done = SlabBytes(slab_index) /\ done = SubSeq(items, 1, k)
  BY <1>3, <1>4, <1>5, <1>7, SlabPart
<1>10. ReadBytes = before \o (one \o Listed(n, done))
  <2>1. Len(slab_index) + left = n
    BY <1>3, <1>5 DEF Part
  <2>2. ReadBytes = BeforeSlabIndex \o SlabsSoFar
    BY <1>2 DEF ReadSoFar, SlabsRead
  <2>. QED
    BY <1>3, <1>9, <2>1, <2>2, Zenon DEF SlabsSoFar
<1>11. ItemMet(W, Len(before), one, items, n, k)
  BY <1>2, <1>3, <1>8, <1>9, <1>10, MeetsItem, Zenon
<1>12. items[k + 1] = EncodeSlabEntry(x) /\ x \in WrittenSlab
  BY <1>3, <1>6, <1>7, <1>8
<1>. QED
  BY <1>1, <1>6, <1>7, <1>8, <1>11, <1>12 DEF ItemMet

\* The entry whose locators are read, and the part of the index before it.
LEMMA OpenSlabIs ==
    ASSUME NEW m, NEW full, Faces(m, full), SlabsFollow(m), section = "slab_index",
           step = "locators"
    PROVE  LET list == Front(slab_index)
               x == m.slab_index[Len(slab_index)]
           IN  /\ slab_index # <<>> /\ slab_index \in Seq(SlabEntryType) /\ left \in Nat /\ left # 0
               /\ Len(list) \in Nat /\ Len(slab_index) = Len(list) + 1 /\ Len(slab_index) - 1 = Len(list)
               /\ x \in WrittenSlab /\ NextInList(list, left, m.slab_index) /\ Last(slab_index).slab_id = x.slab_id
<1>1. PICK whole : whole = m.slab_index
  OBVIOUS
<1>2. TypeOK /\ m \in WrittenManifests
  BY CodecFile DEF Faces, WrittenAs
<1>3. /\ Part(Front(slab_index), left, whole) /\ Len(slab_index) \in 1..Len(whole)
      /\ Last(slab_index).slab_id = whole[Len(slab_index)].slab_id
  BY <1>1 DEF SlabsFollow
<1>4. whole \in Seq(WrittenSlab) /\ slab_index \in Seq(SlabEntryType) /\ left \in Nat
  BY <1>1, <1>2, ManifestFields, CursorKept DEF TypeOK
<1>5. slab_index # <<>> /\ Len(slab_index) \in Nat
  BY <1>3, <1>4
<1>6. Len(Front(slab_index)) = Len(slab_index) - 1
  BY <1>4, <1>5, LastSlab
<1>7. PICK k : k = Len(Front(slab_index))
  OBVIOUS
<1>8. k \in Nat /\ Len(slab_index) = k + 1 /\ left # 0 /\ k + left = Len(whole)
  <2>1. k + left = Len(whole) /\ k = Len(slab_index) - 1
    BY <1>3, <1>6, <1>7 DEF Part
  <2>. QED
    BY <1>3, <1>4, <1>5, <2>1
<1>9. NextInList(Front(slab_index), left, whole) /\ whole[k + 1] \in WrittenSlab
  BY <1>3, <1>4, <1>7, <1>8, PartGrows
<1>. QED
  BY <1>1, <1>3, <1>4, <1>5, <1>6, <1>7, <1>8, <1>9

LEMMA SlabLocators ==
    ASSUME NEW m, NEW full, Faces(m, full), SlabsFollow(m), section = "slab_index",
           step = "locators",
           NEW one, NEW items, NEW n, SlabsAt(m, full, one, items, n)
    PROVE  LET x == m.slab_index[Len(slab_index)]
           IN  LocatorsAt(Written(m, full), BeforeOpenSlab, x.slab_id, x.locators)
<1>1. PICK W, whole, before, list, x :
        /\ W = Written(m, full) /\ whole = m.slab_index /\ before = ThroughReference(m)
        /\ list = Front(slab_index) /\ x = whole[Len(slab_index)]
  OBVIOUS
<1>2. CodecInv /\ TypeOK /\ ReadSoFar
  BY CodecFile DEF Faces
<1>3. /\ W \in Seq(Nat) /\ Agrees(W) /\ whole \in Seq(WrittenSlab) /\ n = Len(whole) /\ n \in Nat
      /\ one = << 1 >> /\ one \in Seq(Nat) /\ items = SlabBytes(whole) /\ items \in Seq(Seq(Nat))
      /\ Len(items) = n
      /\ \A i \in 1..n : items[i] = EncodeSlabEntry(whole[i]) /\ whole[i] \in WrittenSlab
      /\ Starts(W, before, one \o Listed(n, items)) /\ BeforeSlabIndex = before
  BY <1>1 DEF SlabsAt
<1>4. PICK k : k = Len(list)
  OBVIOUS
<1>5. /\ slab_index # <<>> /\ left \in Nat /\ k \in Nat /\ Len(slab_index) = k + 1
      /\ Len(slab_index) - 1 = k /\ x \in WrittenSlab /\ NextInList(list, left, whole)
      /\ Last(slab_index).slab_id = x.slab_id
  BY <1>1, <1>4, OpenSlabIs
<1>6. Part(list, left, whole) /\ Part(locators, locators_left, x.locators)
  BY <1>1 DEF SlabsFollow
<1>7. k + left = n
  BY <1>3, <1>4, <1>6 DEF Part
<1>8. PICK done : done = SlabBytes(list) /\ done = SubSeq(items, 1, k)
  BY <1>3, <1>4, <1>5, <1>6, SlabPart
<1>9. BeforeOpenSlab = before \o (one \o Listed(n, done)) /\ BeforeOpenSlab \in Seq(Nat)
  <2>1. BeforeOpenSlab = before \o (one \o Listed(n, done))
    BY <1>1, <1>3, <1>5, <1>7, <1>8, Zenon DEF BeforeOpenSlab
  <2>. QED
    BY <1>2, <1>5, <2>1, OpenSlabTyped
<1>10. k \in 0..Len(items) /\ k + 1 \in 1..n /\ k < n
  BY <1>3, <1>4, <1>5 DEF NextInList
<1>11. ItemLies(W, Len(before), one, items, done, Len(before \o (one \o Listed(Len(items), done))))
  BY <1>3, <1>8, <1>10, NextItem DEF Starts
<1>12. Len(done) = k
  BY <1>3, <1>8, <1>10
<1>13. Lies(W, Len(BeforeOpenSlab), items[k + 1])
  BY <1>3, <1>9, <1>10, <1>11, <1>12 DEF ItemLies
<1>14. items[k + 1] = x.slab_id \o Listed(Len(x.locators), UriBytes(x.locators))
  <2>1. items[k + 1] = EncodeSlabEntry(x)
    BY <1>1, <1>3, <1>5, <1>10
  <2>. QED
    BY <2>1, SectionForms, Zenon
<1>15. Starts(W, BeforeOpenSlab, x.slab_id \o Listed(Len(x.locators), UriBytes(x.locators)))
  BY <1>9, <1>13, <1>14, Zenon DEF Starts
<1>16. ReadBytes = BeforeOpenSlab \o (x.slab_id \o Listed(Len(locators) + locators_left, UriBytes(locators)))
  <2>1. ReadBytes = BeforeOpenSlab \o OpenSlabSoFar
    BY <1>2 DEF ReadSoFar, SlabsRead
  <2>. QED
    BY <1>5, <2>1, Zenon DEF OpenSlabSoFar
<1>17. x.slab_id \in Seq(Nat) /\ x.locators \in Seq(ByteString)
  BY <1>5, SlabFields
<1>. QED
  BY <1>1, <1>3, <1>6, <1>15, <1>16, <1>17 DEF LocatorsAt

\* What a valid index says of its next entry.
LEMMA ValidSlabNext ==
    ASSUME NEW whole, ValidSlabIndex(whole), whole \in Seq(WrittenSlab), NEW list, NEW more,
           NextInList(list, more, whole)
    PROVE  LET x == whole[Len(list) + 1]
           IN  /\ x.locators # <<>> /\ ValidLocators(x.locators)
               /\ \A i \in DOMAIN list : list[i].slab_id # x.slab_id
<1>1. PICK k, x : k = Len(list) /\ x = whole[k + 1]
  OBVIOUS
<1>2. /\ k + 1 \in DOMAIN whole /\ DOMAIN list = 1..k
      /\ \A i \in 1..k : list[i] = whole[i] /\ i # k + 1 /\ i \in DOMAIN whole
  BY <1>1 DEF NextInList
<1>3. x.locators # <<>> /\ ValidLocators(x.locators)
  BY <1>1, <1>2 DEF ValidSlabIndex
<1>4. \A i \in DOMAIN list : list[i].slab_id # x.slab_id
  BY <1>1, <1>2 DEF ValidSlabIndex, Distinct
<1>. QED
  BY <1>1, <1>3, <1>4

LEMMA SlabRefused ==
    ASSUME NEW m, NEW full, Faces(m, full), SlabsFollow(m), section = "slab_index", RejectSlabIndex,
           NEW one, NEW items, NEW n, SlabsAt(m, full, one, items, n), Valid(m)
    PROVE  status' = "Truncated" /\ Len(buf) < Len(Written(m, full))
<1>1. PICK W, whole : W = Written(m, full) /\ whole = m.slab_index
  OBVIOUS
<1>2. CodecInv /\ CursorOK /\ TypeOK
  BY CodecFile DEF Faces
<1>3. CASE Reject("slab_index", "head", SlabIndexHeadChecks)
  <2>1. step = "head"
    BY <1>3 DEF Reject, At
  <2>2. PICK e : e = one \o Listed(n, items)
    OBVIOUS
  <2>3. Meets(W, e)
    BY <1>1, <2>1, <2>2, SlabHeadMeets
  <2>4. OnlyShort(SlabIndexHeadChecks, Len(e))
    <3>1. HereAt(0, << 1 >> \o Listed(n, items)) /\ one = << 1 >> /\ ItemsOf(items, n, 44)
      BY <2>2, <2>3 DEF Meets, SlabsAt
    <3>. QED
      BY <1>2, <2>2, <3>1, SlabIndexHeadShort
  <2>. QED
    BY <1>1, <1>3, <2>3, <2>4, Rows, MeetsShort, Zenon
<1>4. CASE MoreEntries /\ Reject("slab_index", "entries", SlabEntryChecks)
  <2>1. step = "entries" /\ left # 0
    BY <1>2, <1>4, CursorKept DEF Reject, At, MoreEntries
  <2>2. PICK x : x = whole[Len(slab_index) + 1]
    OBVIOUS
  <2>3. x \in WrittenSlab /\ Meets(W, EncodeSlabEntry(x)) /\ NextInList(slab_index, left, whole)
    BY <1>1, <2>1, <2>2, SlabEntryMeets
  <2>4. ValidSlabIndex(whole) /\ whole \in Seq(WrittenSlab)
    BY <1>1 DEF Valid, SlabsAt
  <2>5. /\ x.locators # <<>> /\ ValidLocators(x.locators)
        /\ \A i \in DOMAIN slab_index : slab_index[i].slab_id # x.slab_id
    BY <2>2, <2>3, <2>4, ValidSlabNext
  <2>6. PICK id, uris, a, c : id = x.slab_id /\ uris = x.locators /\ a = UriBytes(uris) /\ c = Len(uris)
    OBVIOUS
  <2>7. id \in Seq(Nat) /\ Len(id) = 40 /\ uris \in Seq(ByteString)
    BY <2>3, <2>6, SlabFields
  <2>8. ItemsOf(a, c, 8) /\ c # 0
    BY <2>5, <2>6, <2>7, UriItems
  <2>9. EncodeSlabEntry(x) = id \o Listed(c, a)
    BY <2>6, SectionForms, Zenon
  <2>10. OnlyShort(SlabEntryChecks, Len(EncodeSlabEntry(x)))
    <3>1. HereAt(0, id \o Listed(c, a))
      BY <2>3, <2>9 DEF Meets
    <3>2. \A i \in DOMAIN slab_index : slab_index[i].slab_id # id
      BY <2>5, <2>6
    <3>. QED
      BY <1>2, <2>7, <2>8, <2>9, <3>1, <3>2, SlabShort
  <2>. QED
    BY <1>1, <1>4, <2>3, <2>10, Rows, MeetsShort, Zenon
<1>. QED
  BY <1>3, <1>4 DEF RejectSlabIndex

LEMMA SlabsFollowOn ==
    ASSUME NEW m, NEW full, Faces(m, full), ParsedFollows(m, full), SlabIndexStep,
           UNCHANGED <<header, flags, metadata_reference>>
    PROVE  /\ \/ section' = "slab_index" /\ SlabsFollow(m)'
              \/ section' = "ec_params" /\ step' = "head" /\ SlabsAre(m)'
           /\ RefusedShort(m, full)'
<1>1. PICK W, whole, items, n, one :
        /\ W = Written(m, full) /\ whole = m.slab_index /\ items = SlabBytes(whole) /\ n = Len(whole)
        /\ one = << 1 >>
  OBVIOUS
<1>2. CodecInv /\ CursorOK /\ TypeOK /\ slab_index \in Seq(SlabEntryType) /\ left \in Nat /\ locators_left \in Nat
  BY CodecFile, CursorKept DEF Faces, TypeOK
<1>3. section = "slab_index" /\ SlabsFollow(m)
  BY DEF ParsedFollows, SlabIndexStep, RejectSlabIndex, ReadSlabIndexHead, ReadSlabEntry,
     SlabEntryRead,
         SlabIndexEnd, EntriesEnd, Reject, Accept, At
<1>4. ReferenceIs(m) /\ ReferenceIs(m)'
  BY <1>3 DEF SlabsFollow, ReferenceIs, FlagsAre, HeaderIs
<1>5. SlabsAt(m, full, one, items, n)
  BY <1>1, <1>4, SlabsLie
<1>6. /\ W \in Seq(Nat) /\ whole \in Seq(WrittenSlab) /\ n = Len(whole) /\ n \in Nat /\ one = << 1 >>
      /\ items \in Seq(Seq(Nat)) /\ ItemsOf(items, n, 44)
  BY <1>1, <1>5 DEF SlabsAt
<1>7. CASE RejectSlabIndex
  <2>1. /\ section' = section /\ step' = step /\ left' = left
        /\ UNCHANGED <<locators, locators_left, slab_index, buf>>
    BY <1>7 DEF RejectSlabIndex, Reject, Raise
  <2>2. SlabsFollow(m)'
    BY <1>3, <1>4, <2>1 DEF SlabsFollow
  <2>3. Valid(m) => status' = "Truncated" /\ Len(buf) < Len(W)
    BY <1>1, <1>3, <1>5, <1>7, SlabRefused
  <2>. QED
    BY <1>1, <1>3, <2>1, <2>2, <2>3 DEF RefusedShort
<1>8. CASE ReadSlabIndexHead
  <2>1. /\ Passes(SlabIndexHeadChecks) /\ step = "head" /\ section' = "slab_index" /\ status' = "parsing"
        /\ step' = "entries" /\ left' = U32(1) /\ UNCHANGED slab_index
    BY <1>8 DEF ReadSlabIndexHead, Accept, At
  <2>2. position + 5 <= Len(buf)
    BY <1>2, <2>1, SlabIndexHeadPassed
  <2>3. Meets(W, one \o Listed(n, items)) /\ slab_index = <<>>
    BY <1>1, <1>3, <1>5, <2>1, SlabHeadMeets
  <2>4. HereAt(0, << 1 >> \o Listed(n, items))
    BY <1>6, <2>3 DEF Meets
  <2>5. U32(1) = n
    BY <1>2, <1>6, <2>2, <2>4, OneListMet
  <2>6. Part(<<>>, n, whole)
    BY <1>6, PartBegins
  <2>. QED
    BY <1>1, <1>4, <2>1, <2>3, <2>5, <2>6 DEF SlabsFollow, RefusedShort, ErrorKinds
<1>9. CASE ReadSlabEntry
  <2>1. /\ Passes(SlabEntryChecks) /\ step = "entries" /\ left # 0
        /\ section' = "slab_index" /\ status' = "parsing" /\ step' = "locators" /\ left' = left
        /\ locators' = <<>> /\ locators_left' = U32(40)
        /\ slab_index' = Append(slab_index, [slab_id |-> Bytes(0, 40), locators |-> <<>>])
    BY <1>2, <1>9 DEF ReadSlabEntry, Accept, At, MoreEntries, BeginLocators, SLAB_ID_LEN
  <2>2. position + 44 <= Len(buf)
    BY <1>2, <2>1, SlabEntryPassed
  <2>3. PICK x : x = whole[Len(slab_index) + 1]
    OBVIOUS
  <2>4. x \in WrittenSlab /\ Meets(W, EncodeSlabEntry(x)) /\ NextInList(slab_index, left, whole)
    BY <1>1, <1>3, <1>5, <2>1, <2>3, SlabEntryMeets
  <2>5. PICK id, uris, a, c : id = x.slab_id /\ uris = x.locators /\ a = UriBytes(uris) /\ c = Len(uris)
    OBVIOUS
  <2>6. id \in Seq(Nat) /\ Len(id) = 40 /\ id \in ByteString /\ uris \in Seq(ByteString)
    BY <2>4, <2>5, SlabFields
  <2>7. a \in Seq(Seq(Nat)) /\ c \in Nat
    BY <2>5, <2>6, UriItems DEF ItemsOf
  <2>8. HereAt(0, id \o Listed(c, a))
    <3>1. EncodeSlabEntry(x) = id \o Listed(c, a)
      BY <2>5, SectionForms, Zenon
    <3>. QED
      BY <2>4, <3>1 DEF Meets
  <2>9. Bytes(0, 40) = id /\ U32(40) = c
    BY <1>2, <2>2, <2>6, <2>7, <2>8, SlabMet
  <2>10. PICK e : e = [slab_id |-> id, locators |-> <<>>]
    OBVIOUS
  <2>11. e \in SlabEntryType /\ e.slab_id = id
    <3>1. <<>> \in Seq(ByteString)
      OBVIOUS
    <3>. QED
      BY <2>6, <2>10, <3>1 DEF SlabEntryType
  <2>12. slab_index' = Append(slab_index, e)
    BY <2>1, <2>9, <2>10
  <2>13. Front(slab_index') = slab_index /\ Last(slab_index') = e
    BY <1>2, <2>11, <2>12, SlabAppended
  <2>14. PICK k : k = Len(slab_index) /\ k \in Nat /\ k + 1 \in 1..Len(whole)
    BY <2>4 DEF NextInList
  <2>15. Len(slab_index') = k + 1
    BY <1>2, <2>11, <2>12, <2>14
  <2>16. Part(<<>>, c, uris)
    BY <2>5, <2>6, PartBegins
  <2>17. Part(slab_index, left, whole)
    BY <1>1, <1>3, <2>1 DEF SlabsFollow
  <2>18. whole[k + 1] = x
    BY <2>3, <2>14
  <2>19. SlabsFollow(m)'
    <3>1. Part(Front(slab_index'), left', m.slab_index) /\ Len(slab_index') \in 1..Len(m.slab_index)
      BY <1>1, <2>1, <2>13, <2>14, <2>15, <2>17
    <3>2. /\ Last(slab_index').slab_id = m.slab_index[Len(slab_index')].slab_id
          /\ Part(locators', locators_left', m.slab_index[Len(slab_index')].locators)
      BY <1>1, <2>1, <2>5, <2>9, <2>11, <2>13, <2>15, <2>16, <2>18
    <3>. QED
      BY <1>4, <2>1, <3>1, <3>2 DEF SlabsFollow
  <2>. QED
    BY <2>1, <2>19 DEF RefusedShort, ErrorKinds
<1>10. CASE SlabEntryRead
  <2>1. /\ step = "locators" /\ locators_left = 0 /\ section' = section /\ status' = "parsing"
        /\ step' = "entries" /\ left' = left - 1
        /\ slab_index' = [slab_index EXCEPT ![Len(slab_index)].locators = locators]
    BY <1>2, <1>10 DEF SlabEntryRead, At, MoreLocators
  <2>2. PICK list, x : list = Front(slab_index) /\ x = whole[Len(slab_index)]
    OBVIOUS
  <2>3. /\ slab_index # <<>> /\ Len(list) \in Nat /\ Len(slab_index) = Len(list) + 1
        /\ x \in WrittenSlab /\ NextInList(list, left, whole) /\ Last(slab_index).slab_id = x.slab_id
    BY <1>1, <1>3, <2>1, <2>2, OpenSlabIs
  <2>4. LocatorsAt(W, BeforeOpenSlab, x.slab_id, x.locators)
    BY <1>1, <1>3, <1>5, <2>1, <2>2, SlabLocators
  <2>5. locators = x.locators
    BY <1>2, <2>1, <2>4, LocatorsMet
  <2>6. x = [slab_id |-> x.slab_id, locators |-> x.locators] /\ x.locators \in Seq(ByteString)
    BY <2>3, SlabFields
  <2>7. slab_index' = Append(list, [slab_id |-> Last(slab_index).slab_id, locators |-> locators])
    BY <1>2, <2>1, <2>2, <2>3, <2>5, <2>6, SlabCompleted
  <2>8. slab_index' = Append(list, x)
    BY <2>3, <2>5, <2>6, <2>7, Zenon
  <2>9. Part(Append(list, x), left - 1, whole)
    BY <2>2, <2>3 DEF NextInList
  <2>10. SlabsFollow(m)'
    BY <1>1, <1>4, <2>1, <2>8, <2>9 DEF SlabsFollow
  <2>. QED
    BY <1>3, <2>1, <2>10 DEF RefusedShort, ErrorKinds
<1>11. CASE SlabIndexEnd
  <2>1. /\ step = "entries" /\ left = 0 /\ section' = "ec_params" /\ step' = "head" /\ status' = "parsing"
        /\ UNCHANGED slab_index
    BY <1>11, NextSectionsAre DEF SlabIndexEnd, EntriesEnd, At, Return
  <2>2. slab_index = whole
    <3>1. Part(slab_index, 0, whole)
      BY <1>1, <1>3, <2>1 DEF SlabsFollow
    <3>2. Len(slab_index) \in Nat
      BY <1>2
    <3>. QED
      BY <1>6, <3>1, <3>2, PartEnds
  <2>. QED
    BY <1>1, <1>4, <2>1, <2>2 DEF SlabsAre, RefusedShort, ErrorKinds
<1>. QED
  BY <1>7, <1>8, <1>9, <1>10, <1>11 DEF SlabIndexStep

\* A locator of a slab.
LEMMA SlabLocatorFollowsOn ==
    ASSUME NEW m, NEW full, Faces(m, full), ParsedFollows(m, full), section = "slab_index",
           LocatorStep, UNCHANGED <<header, flags, metadata_reference, slab_index>>
    PROVE  section' = "slab_index" /\ SlabsFollow(m)' /\ RefusedShort(m, full)'
<1>1. PICK W, x, one, items, n :
        /\ W = Written(m, full) /\ x = m.slab_index[Len(slab_index)] /\ one = << 1 >>
        /\ items = SlabBytes(m.slab_index) /\ n = Len(m.slab_index)
  OBVIOUS
<1>2. CodecInv /\ SlabsFollow(m) /\ step = "locators"
  BY DEF Faces, ParsedFollows, LocatorStep, RejectLocator, ReadLocator, Reject, Accept, At
<1>3. SlabsAt(m, full, one, items, n)
  BY <1>1, <1>2, SlabsLie DEF SlabsFollow
<1>4. LocatorsAt(W, BeforeOpenSlab, x.slab_id, x.locators)
  BY <1>1, <1>2, <1>3, SlabLocators
<1>5. /\ UNCHANGED <<section, step, left, buf>> /\ Part(locators', locators_left', x.locators)
      /\ status' = "parsing" \/ (ValidLocators(x.locators) => status' = "Truncated" /\ Len(buf) < Len(W))
  BY <1>2, <1>4, LocatorFollowsOn
<1>6. SlabsFollow(m)'
  BY <1>1, <1>2, <1>5 DEF SlabsFollow, ReferenceIs, FlagsAre, HeaderIs
<1>7. Valid(m) => ValidLocators(x.locators)
  <2>1. Len(slab_index) \in 1..Len(m.slab_index) /\ DOMAIN m.slab_index = 1..Len(m.slab_index)
    BY <1>2, <1>3 DEF SlabsFollow, SlabsAt
  <2>. QED
    BY <1>1, <2>1 DEF Valid, ValidSlabIndex
<1>. QED
  BY <1>1, <1>5, <1>6, <1>7 DEF RefusedShort, ErrorKinds

-----------------------------------------------------------------------------
\* The builder writes no optional section: where a declared one would be, the history
\* is, and the reader does not take it for one.

LEMMA EntryFirst ==
    ASSUME CursorOK, NEW o \in Nat, NEW x \in WrittenEntry, HereAt(o, EncodeHistoryEntry(x)),
           o + 1 <= remaining_len
    PROVE  U8(o) = x.op
<1>1. PICK a, g, b, op, ts :
        /\ a = EntryHead(x) /\ g = Listed(Len(x.inputs), InputBytes(x.inputs))
        /\ b = EncodeBytes(x.params) /\ op = <<x.op>> /\ ts = x.timestamp_ns
  OBVIOUS
<1>2. a \in Seq(Nat) /\ ListWidth(a, Len(x.inputs), InputBytes(x.inputs)) /\ EncodeHistoryEntry(x) = (a \o g) \o b
  BY <1>1, EntryWidth
<1>3. x.op \in Nat /\ ts \in Seq(Nat) /\ x.params \in Seq(Nat) /\ x.inputs \in Seq(BytesOf(32))
  BY <1>1, EntryFields
<1>4. a \o g \in Seq(Nat)
  BY <1>1, <1>2 DEF ListWidth
<1>5. b \in Seq(Nat)
  BY <1>1, <1>3, BlobWidth
<1>6. HereAt(o, (a \o g) \o b)
  BY <1>2
<1>7. HereBoth(o, a \o g, b)
  BY <1>4, <1>5, <1>6, HereSplit, Zenon
<1>8. HereAt(o, a \o g)
  BY <1>7 DEF HereBoth
<1>9. g \in Seq(Nat)
  <2>1. Len(x.inputs) \in Nat /\ InputBytes(x.inputs) \in Seq(Seq(Nat))
    BY <1>3, InputItems DEF ItemsOf
  <2>. QED
    BY <1>1, <2>1, ListedTyped
<1>10. HereBoth(o, a, g)
  BY <1>2, <1>8, <1>9, HereSplit, Zenon
<1>11. HereAt(o, op \o ts) /\ op \in Seq(Nat)
  <2>1. HereAt(o, a)
    BY <1>10 DEF HereBoth
  <2>2. a = op \o ts
    BY <1>1 DEF EntryHead
  <2>3. op \in Seq(Nat)
    BY <1>1, <1>3
  <2>. QED
    BY <2>1, <2>2, <2>3, Zenon
<1>12. HereBoth(o, op, ts)
  BY <1>3, <1>11, HereSplit, Zenon
<1>13. HereAt(o, <<x.op>>)
  BY <1>1, <1>12 DEF HereBoth
<1>. QED
  BY <1>3, <1>13, ReadsU8

\* The first bytes of a history: the top byte of its count, the first operation.
HistoryBegins(list) ==
    /\ remaining_len \in Int
    /\ 5 <= remaining_len => U8(4) = 0
    /\ 6 <= remaining_len => U8(5) = list[1].op

LEMMA HistoryFirst ==
    ASSUME CursorOK, NEW list \in Seq(WrittenEntry), list # <<>>, NEW n, n = Len(list),
           HereAt(0, << 1 >> \o Listed(n, HistoryBytes(list)))
    PROVE  HistoryBegins(list)
<1>1. PICK one, items, p, f :
        one = << 1 >> /\ items = HistoryBytes(list) /\ p = PackU32(n) /\ f = FlattenSeq(items)
  OBVIOUS
<1>2. n \in Nat /\ n >= 1 /\ remaining_len \in Int
  BY DEF CursorOK, remaining_len
<1>3. /\ items \in Seq(Seq(Nat)) /\ Len(items) = n
      /\ items[1] = EncodeHistoryEntry(list[1]) /\ list[1] \in WrittenEntry
  <2>1. 1 \in 1..n
    BY <1>2
  <2>. QED
    BY <1>1, <2>1, EntryItems DEF ItemsOf
<1>4. /\ one \in Seq(Nat) /\ Len(one) = 1 /\ p \in Seq(Nat) /\ Len(p) = 4 /\ p[4] = 0
      /\ f \in Seq(Nat) /\ 0 \in Nat /\ 1 \in Nat /\ 5 \in Nat
  <2>1. one \in Seq(Nat) /\ Len(one) = 1
    BY <1>1
  <2>2. p \in Seq(Nat)
    BY <1>1, <1>2, PackTyped
  <2>3. Len(p) = 4 /\ p[4] = 0
    BY <1>1 DEF PackU32
  <2>4. f \in Seq(Nat)
    BY <1>1, <1>3, FlattenTyped
  <2>. QED
    BY <2>1, <2>2, <2>3, <2>4
<1>5. p \o f \in Seq(Nat) /\ HereAt(0, one \o (p \o f))
  <2>1. p \o f \in Seq(Nat)
    BY <1>4, Lengths, Zenon
  <2>2. Listed(n, items) = p \o f
    BY <1>1 DEF Listed
  <2>. QED
    BY <1>1, <2>1, <2>2, Zenon
<1>6. HereBoth(0, one, p \o f)
  BY <1>4, <1>5, HereSplit, Zenon
<1>7. HereAt(1, p \o f)
  BY <1>4, <1>6 DEF HereBoth
<1>8. HereBoth(1, p, f)
  BY <1>4, <1>7, HereSplit, Zenon
<1>9. HereAt(1, p) /\ HereAt(5, f)
  BY <1>4, <1>8 DEF HereBoth
<1>10. 5 <= remaining_len => U8(4) = 0
  <2>1. 4 \in 1..Len(p) /\ 1 + 4 = 5 /\ 1 + 4 - 1 = 4
    BY <1>4
  <2>. QED
    BY <1>4, <1>9, <2>1 DEF HereAt
<1>11. HereAt(5, items[1])
  <2>1. 0 \in 0..(Len(items) - 1)
    BY <1>2, <1>3
  <2>2. HereAt(5 + Reach(items, 0), items[0 + 1])
    BY <1>1, <1>3, <1>4, <1>9, <2>1, HereItem
  <2>3. 5 + Reach(items, 0) = 5 /\ 0 + 1 = 1
    BY <1>3, ReachEnds
  <2>. QED
    BY <2>2, <2>3
<1>12. 6 <= remaining_len => U8(5) = list[1].op
  <2>1. HereAt(5, EncodeHistoryEntry(list[1]))
    BY <1>3, <1>11
  <2>2. 6 <= remaining_len => 5 + 1 <= remaining_len
    BY <1>2
  <2>. QED
    BY <1>3, <1>4, <2>1, <2>2, EntryFirst
<1>. QED
  BY <1>2, <1>10, <1>12 DEF HistoryBegins

\* A byte is a byte.
LEMMA OneByte ==
    ASSUME CursorOK, NEW o \in Nat
    PROVE  U8(o) \in Nat /\ U8(o) <= 255
BY ByteRange DEF U8Values

LEMMA NoEcHead ==
    ASSUME CursorOK, NEW list, HistoryBegins(list)
    PROVE  ~Passes(EcHeadChecks)
<1> SUFFICES ASSUME Passes(EcHeadChecks)
             PROVE  FALSE
  OBVIOUS
<1>1. position + 9 <= Len(buf) /\ position \in Nat /\ Len(buf) \in Nat
  BY EcHeadPassed DEF CursorOK
<1>2. U8(4) = 0
  BY <1>1 DEF HistoryBegins, remaining_len
<1>3. 3 \in Nat /\ 3 + 1 = 4
  OBVIOUS
<1>4. U8(3) \in Nat /\ U8(3) <= 255
  BY <1>3, OneByte
<1>5. U16(3) = U8(3) + 256 * U8(4)
  BY <1>3 DEF U16
<1>6. U16(3) = 285
  <2>1. 6 \in DOMAIN EcHeadChecks /\ EcHeadChecks[6] = Check(U16(3) = DEFAULT_EC_POLYNOMIAL, "Unsupported")
    BY DEF EcHeadChecks
  <2>2. EcHeadChecks[6] = "ok"
    BY <2>1 DEF Passes
  <2>. QED
    BY <2>1, <2>2 DEF Check, DEFAULT_EC_POLYNOMIAL
<1>7. PICK a, b : a = U8(3) /\ b = U8(4)
  OBVIOUS
<1>8. a + 256 * b # 285
  BY <1>2, <1>4, <1>7
<1>. QED
  BY <1>5, <1>6, <1>7, <1>8

LEMMA NoDmsHead ==
    ASSUME CursorOK, NEW list, HistoryBegins(list), list[1].op \in HistoryOps
    PROVE  ~Passes(DmsHeadChecks)
<1> SUFFICES ASSUME Passes(DmsHeadChecks)
             PROVE  FALSE
  OBVIOUS
<1>1. position + 8 <= Len(buf) /\ position \in Nat /\ Len(buf) \in Nat /\ U32(4) = U8(3)
  BY DmsHeadPassed DEF CursorOK
<1>2. U8(4) = 0 /\ U8(5) \in 1..5
  BY <1>1 DEF HistoryBegins, remaining_len, HistoryOps, BUILD
<1>3. 3 \in Nat /\ 6 \in Nat /\ 7 \in Nat /\ 4 + 1 = 5 /\ 4 + 2 = 6 /\ 4 + 3 = 7
  OBVIOUS
<1>4. U8(3) \in Nat /\ U8(3) <= 255 /\ U8(6) \in Nat /\ U8(7) \in Nat
  BY <1>3, OneByte
<1>5. U32(4) = IF U8(7) # 0 THEN TOO_LARGE ELSE U8(4) + 256 * (U8(5) + 256 * U8(6))
  BY <1>3 DEF U32
<1>6. PICK a, b, c, d : a = U8(4) /\ b = U8(5) /\ c = U8(6) /\ d = U8(3)
  OBVIOUS
<1>7. a + 256 * (b + 256 * c) > 255
  BY <1>2, <1>4, <1>6
<1>8. TOO_LARGE > 255
  BY DEF TOO_LARGE
<1>. QED
  BY <1>1, <1>4, <1>5, <1>6, <1>7, <1>8

\* The history of a manifest without the sections it declares.
LEMMA HistoryInstead ==
    ASSUME NEW m, Faces(m, FALSE), ReadBytes = ThroughSlabs(m)
    PROVE  HistoryBegins(m.history) /\ m.history[1].op \in HistoryOps /\ CursorOK
<1>1. PICK W, list, before : W = Written(m, FALSE) /\ list = m.history /\ before = ThroughSlabs(m)
  OBVIOUS
<1>2. /\ CodecInv /\ CursorOK /\ Agrees(W) /\ m \in WrittenManifests
      /\ list # <<>> /\ \A i \in DOMAIN list : list[i].op \in HistoryOps
  BY <1>1, CodecFile DEF Faces, WrittenAs
<1>3. /\ W \in Seq(Nat) /\ Starts(W, ThroughDms(m, FALSE), EncodeHistory(list)) /\ list \in Seq(WrittenEntry)
      /\ Starts(W, before, EcBytes(m, FALSE))
  BY <1>1, <1>2, SectionsOfWritten, ManifestFields, Zenon DEF SectionsLie
<1>4. ThroughDms(m, FALSE) = before
  <2>1. before \in Seq(Nat)
    BY <1>3 DEF Starts
  <2>2. (before \o <<>>) \o <<>> = before
    BY <2>1
  <2>. QED
    BY <1>1, <2>2 DEF ThroughDms, ThroughEc, EcBytes, DmsBytes
<1>5. PICK e : e = EncodeHistory(list)
  OBVIOUS
<1>6. e \in Seq(Nat) /\ e = << 1 >> \o Listed(Len(list), HistoryBytes(list))
  BY <1>1, <1>2, <1>5, SectionsWritten, SectionForms, Zenon
<1>7. Lies(W, position, e)
  BY <1>1, <1>2, <1>3, <1>4, <1>5, ReadLength DEF Starts
<1>8. HereAt(0, e)
  BY <1>2, <1>3, <1>6, <1>7, Faced
<1>9. HistoryBegins(list)
  BY <1>2, <1>3, <1>6, <1>8, HistoryFirst
<1>10. 1 \in DOMAIN list
  BY <1>2, <1>3
<1>. QED
  BY <1>1, <1>2, <1>9, <1>10

-----------------------------------------------------------------------------
\* The EC parameters.

\* The flags of the manifest are those that were parsed.
LEMMA SameFlags ==
    ASSUME NEW m, flags = m.feature_flags, NEW flag_id
    PROVE  HasFlag(flag_id) <=> Declares(m, flag_id)
BY DEF HasFlag, Declares

LEMMA BeforeEcIs ==
    ASSUME NEW m, SlabsAre(m)
    PROVE  BeforeEc = ThroughSlabs(m)
BY Zenon DEF SlabsAre, ReferenceIs, FlagsAre, HeaderIs, BeforeEc, BeforeSlabIndex, BeforeReference,
   BeforeFlags,
             ThroughSlabs, ThroughReference, ThroughFlags, ThroughHeader

\* Where the section lies, if it was written.
EcAt(m, W, h, items, n) ==
    LET p == m.ec_params
    IN  /\ W \in Seq(Nat) /\ Agrees(W) /\ p.k \in Nat /\ p.m \in Nat /\ p.overrides \in Seq(WrittenOverride)
        /\ p = [k |-> p.k, m |-> p.m, overrides |-> p.overrides]
        /\ h = EcHead(p.k, p.m) /\ h \in Seq(Nat) /\ n = Len(p.overrides) /\ n \in Nat
        /\ items = OverrideBytes(p.overrides) /\ items \in Seq(Seq(Nat)) /\ Len(items) = n
        /\ ItemsOf(items, n, 42)
        /\ \A i \in 1..n : items[i] = EncodeOverride(p.overrides[i]) /\ p.overrides[i] \in WrittenOverride
        /\ Starts(W, ThroughSlabs(m), h \o Listed(n, items)) /\ h \o Listed(n, items) \in Seq(Nat)
        /\ BeforeEc = ThroughSlabs(m)

LEMMA EcLies ==
    ASSUME NEW m, Faces(m, TRUE), SlabsAre(m), HasFlag(EC_FLAG),
           NEW W, W = Written(m, TRUE), NEW h, h = EcHead(m.ec_params.k, m.ec_params.m),
           NEW items, items = OverrideBytes(m.ec_params.overrides),
           NEW n, n = Len(m.ec_params.overrides)
    PROVE  EcAt(m, W, h, items, n)
<1>1. PICK p, list, before : p = m.ec_params /\ list = p.overrides /\ before = ThroughSlabs(m)
  OBVIOUS
<1>2. CodecInv /\ Agrees(W) /\ m \in WrittenManifests
  BY DEF Faces, WrittenAs
<1>3. Declares(m, EC_FLAG)
  BY SameFlags DEF SlabsAre, ReferenceIs, FlagsAre
<1>4. W \in Seq(Nat) /\ Starts(W, before, EcBytes(m, TRUE)) /\ p \in WrittenEcParams
  BY <1>1, <1>2, SectionsOfWritten, ManifestFields, Zenon DEF SectionsLie
<1>5. EcBytes(m, TRUE) = EncodeEcParams(p)
  BY <1>1, <1>3 DEF EcBytes
<1>6. /\ p.k \in Nat /\ p.m \in Nat /\ list \in Seq(WrittenOverride)
      /\ p = [k |-> p.k, m |-> p.m, overrides |-> list]
  BY <1>1, <1>4, EcFields
<1>7. /\ items \in Seq(Seq(Nat)) /\ Len(items) = n /\ ItemsOf(items, n, 42) /\ n \in Nat
      /\ \A i \in 1..n : items[i] = EncodeOverride(list[i]) /\ list[i] \in WrittenOverride
  BY <1>1, <1>6, OverrideItems DEF ItemsOf
<1>8. h \in Seq(Nat)
  <2>1. <<1, p.k, p.m>> \in Seq(Nat)
    BY <1>6
  <2>2. PackU16(DEFAULT_EC_POLYNOMIAL) \in Seq(Nat)
    BY PackTyped DEF DEFAULT_EC_POLYNOMIAL
  <2>. QED
    BY <1>1, <2>1, <2>2, Lengths, Zenon DEF EcHead
<1>9. EncodeEcParams(p) = h \o Listed(n, items) /\ h \o Listed(n, items) \in Seq(Nat)
  <2>1. EncodeEcParams(p) = h \o Listed(n, items)
    BY <1>1, SectionForms, Zenon
  <2>2. h \o Listed(n, items) \in Seq(Nat)
    BY <1>7, <1>8, ListLength DEF ListWidth
  <2>. QED
    BY <2>1, <2>2
<1>10. Starts(W, before, h \o Listed(n, items))
  BY <1>4, <1>5, <1>9, Zenon
<1>11. BeforeEc = before
  BY <1>1, BeforeEcIs
<1>. QED
  BY <1>1, <1>2, <1>4, <1>6, <1>7, <1>8, <1>9, <1>10, <1>11 DEF EcAt

LEMMA EcHeadMeets ==
    ASSUME NEW m, CodecInv, section = "ec_params", step = "head",
           NEW W, NEW h, NEW items, NEW n, EcAt(m, W, h, items, n)
    PROVE  Meets(W, h \o Listed(n, items)) /\ ec_params = NoEcParams
<1>1. PICK before, e : before = ThroughSlabs(m) /\ e = h \o Listed(n, items)
  OBVIOUS
<1>2. ReadSoFar /\ NotBegun
  BY CodecFile
<1>3. ReadBytes = before
  BY <1>1, <1>2 DEF ReadSoFar, EcRead, EcAt
<1>4. W \in Seq(Nat) /\ Agrees(W) /\ e \in Seq(Nat) /\ Starts(W, before, e)
  BY <1>1 DEF EcAt
<1>5. Lies(W, position, e)
  BY <1>3, <1>4, ReadLength DEF Starts
<1>6. Meets(W, e)
  BY <1>4, <1>5, MeetsNext
<1>7. ec_params = NoEcParams
  BY <1>2 DEF NotBegun, Ahead
<1>. QED
  BY <1>1, <1>6, <1>7

LEMMA EcEntryMeets ==
    ASSUME NEW m, NEW full, CodecInv, EcFollows(m, full), section = "ec_params", step # "head",
           left # 0,
           NEW W, NEW h, NEW items, NEW n, EcAt(m, W, h, items, n)
    PROVE  LET x == m.ec_params.overrides[Len(ec_params.overrides) + 1]
           IN  /\ x \in WrittenOverride /\ Meets(W, EncodeOverride(x)) /\ Len(EncodeOverride(x)) = 42
               /\ NextInList(ec_params.overrides, left, m.ec_params.overrides)
<1>1. PICK whole, list, before, p :
        /\ p = m.ec_params /\ whole = p.overrides /\ list = ec_params.overrides /\ before = ThroughSlabs(m)
  OBVIOUS
<1>2. TypeOK /\ ReadSoFar
  BY CodecFile
<1>3. /\ W \in Seq(Nat) /\ Agrees(W) /\ whole \in Seq(WrittenOverride) /\ n = Len(whole) /\ n \in Nat
      /\ h = EcHead(p.k, p.m) /\ h \in Seq(Nat) /\ items = OverrideBytes(whole)
      /\ items \in Seq(Seq(Nat)) /\ Len(items) = n
      /\ \A i \in 1..n : items[i] = EncodeOverride(whole[i]) /\ whole[i] \in WrittenOverride
      /\ Starts(W, before, h \o Listed(n, items)) /\ BeforeEc = before
  BY <1>1 DEF EcAt
<1>4. Len(list) \in Nat /\ left \in Nat
  BY <1>1, <1>2, CursorKept DEF TypeOK, EcParamsType
<1>5. Part(list, left, whole) /\ ec_params.k = p.k /\ ec_params.m = p.m
  BY <1>1 DEF EcFollows
<1>6. NextInList(list, left, whole) /\ whole[Len(list) + 1] \in WrittenOverride
  BY <1>3, <1>4, <1>5, PartGrows
<1>7. PICK k, x : k = Len(list) /\ x = whole[k + 1]
  OBVIOUS
<1>8. k \in Nat /\ k + 1 \in 1..n /\ k \in 0..n /\ k < n
  BY <1>3, <1>6, <1>7 DEF NextInList
<1>9. PICK done : done = OverrideBytes(list) /\ done = SubSeq(items, 1, k)
  BY <1>3, <1>4, <1>5, <1>7, OverridePart
<1>10. ReadBytes = before \o (h \o Listed(n, done))
  <2>1. Len(list) + left = n
    BY <1>3, <1>5 DEF Part
  <2>2. ReadBytes = BeforeEc \o EcSoFar
    BY <1>2 DEF ReadSoFar, EcRead
  <2>3. EcSoFar = h \o Listed(n, done)
    BY <1>1, <1>3, <1>5, <1>9, <2>1, Zenon DEF EcSoFar, EcHead
  <2>. QED
    BY <1>3, <2>2, <2>3, Zenon
<1>11. ItemMet(W, Len(before), h, items, n, k)
  BY <1>3, <1>8, <1>9, <1>10, MeetsItem, Zenon
<1>12. items[k + 1] = EncodeOverride(x) /\ x \in WrittenOverride
  BY <1>3, <1>6, <1>7, <1>8
<1>13. Len(EncodeOverride(x)) = 42
  BY <1>12, OverrideWidth
<1>. QED
  BY <1>1, <1>6, <1>7, <1>8, <1>11, <1>12, <1>13 DEF ItemMet

LEMMA EcRefused ==
    ASSUME NEW m, NEW full, CodecInv, EcFollows(m, full), section = "ec_params", RejectEcParams,
           NEW W, NEW h, NEW items, NEW n, EcAt(m, W, h, items, n), ValidEcParams(m.ec_params)
    PROVE  status' = "Truncated" /\ Len(buf) < Len(W)
<1>1. PICK whole, p : p = m.ec_params /\ whole = p.overrides
  OBVIOUS
<1>2. CursorOK /\ TypeOK /\ left \in Nat
  BY CodecFile, CursorKept DEF TypeOK
<1>3. CASE Reject("ec_params", "head", EcHeadChecks)
  <2>1. step = "head"
    BY <1>3 DEF Reject, At
  <2>2. PICK e : e = h \o Listed(n, items)
    OBVIOUS
  <2>3. Meets(W, e)
    BY <2>1, <2>2, EcHeadMeets
  <2>4. OnlyShort(EcHeadChecks, Len(e))
    <3>1. HereAt(0, EcHead(p.k, p.m) \o Listed(n, items)) /\ ItemsOf(items, n, 42) /\ p.k \in Nat /\ p.m \in Nat
      BY <1>1, <2>2, <2>3 DEF Meets, EcAt
    <3>2. ValidShards(p.k, p.m) /\ e = EcHead(p.k, p.m) \o Listed(n, items)
      BY <1>1, <2>2 DEF ValidEcParams, EcAt
    <3>. QED
      BY <1>2, <3>1, <3>2, EcShort
  <2>. QED
    BY <1>3, <2>3, <2>4, Rows, MeetsShort, Zenon
<1>4. CASE MoreEntries /\ Reject("ec_params", "entries", OverrideChecks)
  <2>1. step # "head" /\ left # 0
    BY <1>2, <1>4 DEF Reject, At, MoreEntries
  <2>2. PICK k, x : k = Len(ec_params.overrides) /\ x = whole[k + 1]
    OBVIOUS
  <2>3. /\ x \in WrittenOverride /\ Meets(W, EncodeOverride(x)) /\ Len(EncodeOverride(x)) = 42
        /\ NextInList(ec_params.overrides, left, whole)
    BY <1>1, <2>1, <2>2, EcEntryMeets
  <2>4. /\ k + 1 \in DOMAIN whole /\ DOMAIN ec_params.overrides = 1..k
        /\ \A i \in 1..k : ec_params.overrides[i] = whole[i] /\ i # k + 1 /\ i \in DOMAIN whole
    BY <2>2, <2>3 DEF NextInList
  <2>5. /\ ValidShards(x.k, x.m)
        /\ \A i \in DOMAIN ec_params.overrides : ec_params.overrides[i].slab_id # x.slab_id
    BY <1>1, <2>2, <2>4 DEF ValidEcParams, Distinct
  <2>6. OnlyShort(OverrideChecks, Len(EncodeOverride(x)))
    BY <1>2, <2>3, <2>5, OverrideShort DEF Meets
  <2>. QED
    BY <1>4, <2>3, <2>6, Rows, MeetsShort, Zenon
<1>. QED
  BY <1>3, <1>4 DEF RejectEcParams

LEMMA SlabsAreStill ==
    ASSUME NEW m, SlabsAre(m), UNCHANGED <<header, flags, metadata_reference, slab_index>>
    PROVE  SlabsAre(m)' /\ (HasFlag(EC_FLAG)' <=> HasFlag(EC_FLAG)) /\ (HasFlag(DMS_FLAG)' <=> HasFlag(DMS_FLAG))
BY DEF SlabsAre, ReferenceIs, FlagsAre, HeaderIs, HasFlag

\* The section is not there.
LEMMA EcSkipped ==
    ASSUME NEW m, NEW full, ParsedFollows(m, full), SkipEcParams,
           UNCHANGED <<header, flags, metadata_reference, slab_index, ec_params, dms_policy>>
    PROVE  section' = "dms_policy" /\ step' = "head" /\ EcIs(m, full)' /\ RefusedShort(m, full)'
<1>1. section = "ec_params" /\ section' = "dms_policy" /\ step' = "head" /\ status' = "parsing" /\ ~HasFlag(EC_FLAG)
  BY NextSectionsAre DEF SkipEcParams, At, Return
<1>2. SlabsAre(m)
  BY <1>1 DEF ParsedFollows, EcFollows
<1>. QED
  BY <1>1, <1>2, SlabsAreStill DEF EcIs, RefusedShort, ErrorKinds

\* The section was not written.
LEMMA EcUnwritten ==
    ASSUME NEW m, Faces(m, FALSE), ParsedFollows(m, FALSE), HasFlag(EC_FLAG), EcParamsStep,
           UNCHANGED <<header, flags, metadata_reference, slab_index>>
    PROVE  section' = "ec_params" /\ EcFollows(m, FALSE)' /\ ~Valid(m)
<1>1. section = "ec_params" /\ EcFollows(m, FALSE)
  BY DEF ParsedFollows, EcParamsStep, RejectEcParams, ReadEcHead, ReadOverride, EcParamsEnd,
     EntriesEnd,
         Reject, Accept, At
<1>2. SlabsAre(m) /\ step = "head"
  BY <1>1 DEF EcFollows
<1>3. ReadSoFar /\ CursorOK
  BY CodecFile DEF Faces
<1>4. ReadBytes = ThroughSlabs(m)
  BY <1>1, <1>2, <1>3, BeforeEcIs DEF ReadSoFar, EcRead
<1>5. ~Passes(EcHeadChecks)
  BY <1>4, HistoryInstead, NoEcHead
<1>6. RejectEcParams
  BY <1>2, <1>5 DEF EcParamsStep, ReadEcHead, ReadOverride, EcParamsEnd, EntriesEnd, Accept, At
<1>7. section' = section /\ step' = step
  BY <1>6 DEF RejectEcParams, Reject, Raise
<1>8. Declares(m, EC_FLAG) /\ m.ec_params = NoEcParams
  <2>1. Declares(m, EC_FLAG)
    BY <1>2, SameFlags DEF SlabsAre, ReferenceIs, FlagsAre
  <2>. QED
    BY <2>1 DEF Faces, WrittenAs
<1>9. ~Valid(m)
  BY <1>8 DEF Valid, ValidEcParams, ValidShards, NoEcParams
<1>. QED
  BY <1>1, <1>2, <1>7, <1>9, SlabsAreStill DEF EcFollows

LEMMA EcFollowsOn ==
    ASSUME NEW m, Faces(m, TRUE), ParsedFollows(m, TRUE), HasFlag(EC_FLAG), EcParamsStep,
           UNCHANGED <<header, flags, metadata_reference, slab_index>>
    PROVE  /\ \/ section' = "ec_params" /\ EcFollows(m, TRUE)'
              \/ section' = "dms_policy" /\ step' = "head" /\ EcIs(m, TRUE)'
           /\ RefusedShort(m, TRUE)'
<1>1. PICK W, p, whole, h, items, n :
        /\ W = Written(m, TRUE) /\ p = m.ec_params /\ whole = p.overrides /\ h = EcHead(p.k, p.m)
        /\ items = OverrideBytes(whole) /\ n = Len(whole)
  OBVIOUS
<1>2. CodecInv /\ CursorOK /\ TypeOK /\ left \in Nat /\ ec_params \in EcParamsType
  BY CodecFile, CursorKept DEF Faces, TypeOK
<1>3. section = "ec_params" /\ EcFollows(m, TRUE)
  BY DEF ParsedFollows, EcParamsStep, RejectEcParams, ReadEcHead, ReadOverride, EcParamsEnd,
     EntriesEnd,
         Reject, Accept, At
<1>4. SlabsAre(m) /\ SlabsAre(m)' /\ HasFlag(EC_FLAG)'
  BY <1>3, SlabsAreStill DEF EcFollows
<1>5. EcAt(m, W, h, items, n)
  BY <1>1, <1>4, EcLies
<1>6. /\ whole \in Seq(WrittenOverride) /\ n \in Nat /\ p.k \in Nat /\ p.m \in Nat
      /\ items \in Seq(Seq(Nat)) /\ p = [k |-> p.k, m |-> p.m, overrides |-> whole]
  BY <1>1, <1>5 DEF EcAt
<1>7. Declares(m, EC_FLAG)
  BY <1>4, SameFlags DEF SlabsAre, ReferenceIs, FlagsAre
<1>8. CASE RejectEcParams
  <2>1. section' = section /\ step' = step /\ left' = left /\ UNCHANGED <<ec_params, buf>>
    BY <1>8 DEF RejectEcParams, Reject, Raise
  <2>2. EcFollows(m, TRUE)'
    BY <1>3, <1>4, <2>1 DEF EcFollows
  <2>3. Valid(m) => status' = "Truncated" /\ Len(buf) < Len(W)
    BY <1>2, <1>3, <1>5, <1>7, <1>8, EcRefused DEF Valid
  <2>. QED
    BY <1>1, <1>3, <2>1, <2>2, <2>3 DEF RefusedShort
<1>9. CASE ReadEcHead
  <2>1. /\ Passes(EcHeadChecks) /\ step = "head" /\ section' = "ec_params" /\ status' = "parsing"
        /\ left' = U32(5)
    BY <1>9 DEF ReadEcHead, Accept, At
  <2>2. position + 9 <= Len(buf)
    BY <1>2, <2>1, EcHeadPassed
  <2>3. Meets(W, h \o Listed(n, items)) /\ ec_params = NoEcParams
    BY <1>2, <1>3, <1>5, <2>1, EcHeadMeets
  <2>4. HereAt(0, EcHead(p.k, p.m) \o Listed(n, items))
    BY <1>1, <2>3 DEF Meets
  <2>5. U8(1) = p.k /\ U8(2) = p.m /\ U32(5) = n
    BY <1>2, <1>6, <2>2, <2>4, EcMet
  <2>6. ec_params'.k = U8(1) /\ ec_params'.m = U8(2) /\ ec_params'.overrides = <<>>
    BY <1>9, <2>3 DEF ReadEcHead, NoEcParams
  <2>7. Part(<<>>, n, whole)
    BY <1>1, <1>6, PartBegins
  <2>. QED
    BY <1>1, <1>4, <2>1, <2>5, <2>6, <2>7 DEF EcFollows, RefusedShort, ErrorKinds
<1>10. CASE ReadOverride
  <2>1. /\ Passes(OverrideChecks) /\ step # "head" /\ left # 0 /\ section' = "ec_params" /\ status' = "parsing"
        /\ left' = left - 1
    BY <1>2, <1>10 DEF ReadOverride, Accept, At, MoreEntries
  <2>2. PICK k, x : k = Len(ec_params.overrides) /\ x = whole[k + 1]
    OBVIOUS
  <2>3. x \in WrittenOverride /\ Meets(W, EncodeOverride(x)) /\ NextInList(ec_params.overrides, left, whole)
    BY <1>1, <1>2, <1>3, <1>5, <2>1, <2>2, EcEntryMeets
  <2>4. NextOverride = x
    BY <1>2, <2>1, <2>3, OverrideMet DEF Meets
  <2>5. Part(Append(ec_params.overrides, x), left - 1, whole)
    BY <2>2, <2>3 DEF NextInList
  <2>6. /\ ec_params'.k = ec_params.k /\ ec_params'.m = ec_params.m
        /\ ec_params'.overrides = Append(ec_params.overrides, NextOverride)
    BY <1>2, <1>10 DEF ReadOverride, EcParamsType, NextOverride
  <2>. QED
    BY <1>1, <1>3, <1>4, <2>1, <2>4, <2>5, <2>6 DEF EcFollows, RefusedShort, ErrorKinds
<1>11. CASE EcParamsEnd
  <2>1. /\ step # "head" /\ left = 0 /\ section' = "dms_policy" /\ step' = "head" /\ status' = "parsing"
        /\ UNCHANGED ec_params
    BY <1>11, NextSectionsAre DEF EcParamsEnd, EntriesEnd, At, Return
  <2>2. ec_params.overrides = whole
    <3>1. Part(ec_params.overrides, 0, whole)
      BY <1>1, <1>3, <2>1 DEF EcFollows
    <3>2. Len(ec_params.overrides) \in Nat
      BY <1>2 DEF EcParamsType
    <3>. QED
      BY <1>6, <3>1, <3>2, PartEnds
  <2>3. ec_params = [k |-> ec_params.k, m |-> ec_params.m, overrides |-> ec_params.overrides]
    BY <1>2 DEF EcParamsType
  <2>4. ec_params.k = p.k /\ ec_params.m = p.m
    BY <1>1, <1>3, <2>1 DEF EcFollows
  <2>5. ec_params = p
    BY <1>6, <2>2, <2>3, <2>4, Zenon
  <2>. QED
    BY <1>1, <1>4, <2>1, <2>5 DEF EcIs, RefusedShort, ErrorKinds
<1>. QED
  BY <1>8, <1>9, <1>10, <1>11 DEF EcParamsStep

-----------------------------------------------------------------------------
\* The DMS policy.

LEMMA BeforeDmsIs ==
    ASSUME NEW m, NEW full, EcIs(m, full)
    PROVE  BeforeDms = ThroughEc(m, full)
<1>1. SlabsAre(m) /\ (HasFlag(EC_FLAG) => full /\ ec_params = m.ec_params)
  BY DEF EcIs
<1>2. HasFlag(EC_FLAG) <=> Declares(m, EC_FLAG)
  BY <1>1, SameFlags DEF SlabsAre, ReferenceIs, FlagsAre
<1>3. BeforeEc = ThroughSlabs(m)
  BY <1>1, BeforeEcIs
<1>4. EcBytes(m, full) = IF HasFlag(EC_FLAG) THEN EncodeEcParams(ec_params) ELSE <<>>
  BY <1>1, <1>2, Zenon DEF EcBytes
<1>. QED
  BY <1>3, <1>4, Zenon DEF BeforeDms, ThroughEc

LEMMA EcIsStill ==
    ASSUME NEW m, NEW full, EcIs(m, full),
           UNCHANGED <<header, flags, metadata_reference, slab_index, ec_params>>
    PROVE  EcIs(m, full)' /\ (HasFlag(DMS_FLAG)' <=> HasFlag(DMS_FLAG))
BY SlabsAreStill DEF EcIs

\* Where the section lies, if it was written; g is all of it but the hint.
DmsAt(m, W, h, items, n, g) ==
    LET p == m.dms_policy
    IN  /\ W \in Seq(Nat) /\ Agrees(W) /\ p.k \in Nat /\ p.n \in Nat /\ p.shares \in Seq(WrittenShare)
        /\ p.reconstruction_hint \in Seq(Nat)
        /\ p = [k |-> p.k, n |-> p.n, reconstruction_hint |-> p.reconstruction_hint, shares |-> p.shares]
        /\ h = DmsHead(p.k, p.n) /\ h \in Seq(Nat) /\ n = Len(p.shares) /\ n \in Nat
        /\ items = ShareBytes(p.shares) /\ items \in Seq(Seq(Nat)) /\ Len(items) = n
        /\ ItemsOf(items, n, 0)
        /\ \A i \in 1..n : items[i] = EncodeShare(p.shares[i]) /\ p.shares[i] \in WrittenShare
        /\ g = h \o Listed(n, items) /\ g \in Seq(Nat) /\ Starts(W, ThroughEc(m, TRUE), g)
        /\ Lies(W, Len(ThroughEc(m, TRUE)) + Len(g), EncodeBytes(p.reconstruction_hint))
        /\ EncodeBytes(p.reconstruction_hint) \in Seq(Nat)
        /\ BeforeDms = ThroughEc(m, TRUE)

LEMMA DmsLies ==
    ASSUME NEW m, Faces(m, TRUE), EcIs(m, TRUE), HasFlag(DMS_FLAG),
           NEW W, W = Written(m, TRUE), NEW h, h = DmsHead(m.dms_policy.k, m.dms_policy.n),
           NEW items, items = ShareBytes(m.dms_policy.shares),
           NEW n, n = Len(m.dms_policy.shares), NEW g, g = h \o Listed(n, items)
    PROVE  DmsAt(m, W, h, items, n, g)
<1>1. PICK p, list, before, b :
        p = m.dms_policy /\ list = p.shares /\ before = ThroughEc(m, TRUE) /\ b = p.reconstruction_hint
  OBVIOUS
<1>2. CodecInv /\ Agrees(W) /\ m \in WrittenManifests
  BY DEF Faces, WrittenAs
<1>3. Declares(m, DMS_FLAG)
  BY SameFlags DEF EcIs, SlabsAre, ReferenceIs, FlagsAre
<1>4. W \in Seq(Nat) /\ Starts(W, before, DmsBytes(m, TRUE)) /\ p \in WrittenDmsPolicy
  BY <1>1, <1>2, SectionsOfWritten, ManifestFields, Zenon DEF SectionsLie
<1>5. DmsBytes(m, TRUE) = EncodeDmsPolicy(p)
  BY <1>1, <1>3 DEF DmsBytes
<1>6. /\ p.k \in Nat /\ p.n \in Nat /\ list \in Seq(WrittenShare) /\ b \in Seq(Nat)
      /\ p = [k |-> p.k, n |-> p.n, reconstruction_hint |-> b, shares |-> list]
  BY <1>1, <1>4, DmsFields
<1>7. /\ items \in Seq(Seq(Nat)) /\ Len(items) = n /\ ItemsOf(items, n, 0) /\ n \in Nat
      /\ \A i \in 1..n : items[i] = EncodeShare(list[i]) /\ list[i] \in WrittenShare
  BY <1>1, <1>6, ShareItems DEF ItemsOf
<1>8. h \in Seq(Nat)
  BY <1>1, <1>6 DEF DmsHead, DMS_SCHEME_SHAMIR
<1>9. EncodeDmsPolicy(p) = g \o EncodeBytes(b) /\ g \in Seq(Nat) /\ EncodeBytes(b) \in Seq(Nat)
  <2>1. EncodeDmsPolicy(p) = g \o EncodeBytes(b)
    BY <1>1, SectionForms, Zenon
  <2>2. g \in Seq(Nat)
    BY <1>7, <1>8, ListLength DEF ListWidth
  <2>3. EncodeBytes(b) \in Seq(Nat)
    BY <1>6, BlobWidth
  <2>. QED
    BY <2>1, <2>2, <2>3
<1>10. before \in Seq(Nat) /\ Len(before) \in Nat /\ Lies(W, Len(before), g \o EncodeBytes(b))
  <2>1. Starts(W, before, g \o EncodeBytes(b))
    BY <1>4, <1>5, <1>9, Zenon
  <2>2. before \in Seq(Nat) /\ Lies(W, Len(before), g \o EncodeBytes(b))
    BY <2>1, Zenon DEF Starts
  <2>3. \A s \in Seq(Nat) : Len(s) \in Nat
    OBVIOUS
  <2>. QED
    BY <2>2, <2>3, Zenon
<1>11. SplitAt(W, Len(before), g, EncodeBytes(b))
  BY <1>4, <1>9, <1>10, LiesSplit, Zenon
<1>12. Starts(W, before, g) /\ Lies(W, Len(before) + Len(g), EncodeBytes(b))
  BY <1>10, <1>11 DEF SplitAt, Starts
<1>13. BeforeDms = before
  BY <1>1, BeforeDmsIs
<1>. QED
  BY <1>1, <1>2, <1>4, <1>6, <1>7, <1>8, <1>9, <1>12, <1>13 DEF DmsAt

LEMMA DmsHeadMeets ==
    ASSUME NEW m, CodecInv, section = "dms_policy", step = "head",
           NEW W, NEW h, NEW items, NEW n, NEW g, DmsAt(m, W, h, items, n, g)
    PROVE  Meets(W, g) /\ dms_policy = NoDmsPolicy
<1>1. PICK before : before = ThroughEc(m, TRUE)
  OBVIOUS
<1>2. ReadSoFar /\ NotBegun
  BY CodecFile
<1>3. ReadBytes = before
  BY <1>1, <1>2 DEF ReadSoFar, DmsRead, DmsAt
<1>4. W \in Seq(Nat) /\ Agrees(W) /\ g \in Seq(Nat) /\ Starts(W, before, g)
  BY <1>1 DEF DmsAt
<1>5. Lies(W, position, g)
  BY <1>3, <1>4, ReadLength DEF Starts
<1>6. Meets(W, g)
  BY <1>4, <1>5, MeetsNext
<1>7. dms_policy = NoDmsPolicy
  BY <1>2 DEF NotBegun, Ahead
<1>. QED
  BY <1>6, <1>7

\* After the last share comes the hint.
LEMMA DmsMeets ==
    ASSUME NEW m, NEW full, CodecInv, DmsFollows(m, full), section = "dms_policy", step # "head",
           NEW W, NEW h, NEW items, NEW n, NEW g, DmsAt(m, W, h, items, n, g)
    PROVE  /\ left # 0 =>
                LET x == m.dms_policy.shares[Len(dms_policy.shares) + 1]
                IN  /\ x \in WrittenShare /\ Meets(W, EncodeShare(x))
                    /\ NextInList(dms_policy.shares, left, m.dms_policy.shares)
           /\ left = 0 =>
                /\ dms_policy.shares = m.dms_policy.shares
                /\ Meets(W, EncodeBytes(m.dms_policy.reconstruction_hint))
<1>1. PICK whole, list, before, p :
        /\ p = m.dms_policy /\ whole = p.shares /\ list = dms_policy.shares /\ before = ThroughEc(m, TRUE)
  OBVIOUS
<1>2. TypeOK /\ CursorOK /\ ReadSoFar
  BY CodecFile
<1>3. /\ W \in Seq(Nat) /\ Agrees(W) /\ whole \in Seq(WrittenShare) /\ n = Len(whole) /\ n \in Nat
      /\ h = DmsHead(p.k, p.n) /\ h \in Seq(Nat) /\ items = ShareBytes(whole)
      /\ items \in Seq(Seq(Nat)) /\ Len(items) = n
      /\ \A i \in 1..n : items[i] = EncodeShare(whole[i]) /\ whole[i] \in WrittenShare
      /\ g = h \o Listed(n, items) /\ Starts(W, before, g) /\ BeforeDms = before
  BY <1>1 DEF DmsAt
<1>4. Len(list) \in Nat /\ left \in Nat
  <2>1. left \in Nat /\ dms_policy \in DmsPolicyType
    BY <1>2 DEF TypeOK
  <2>. QED
    BY <1>1, <2>1 DEF DmsPolicyType
<1>5. Part(list, left, whole) /\ dms_policy.k = p.k /\ dms_policy.n = p.n
  BY <1>1 DEF DmsFollows
<1>6. PICK k : k = Len(list)
  OBVIOUS
<1>7. k + left = n /\ k \in 0..n
  <2>1. k + left = n
    BY <1>3, <1>5, <1>6 DEF Part
  <2>. QED
    BY <1>3, <1>4, <1>6, <2>1
<1>8. PICK done : done = ShareBytes(list) /\ done = SubSeq(items, 1, k)
  BY <1>3, <1>4, <1>5, <1>6, SharePart
<1>9. ReadBytes = before \o (h \o Listed(n, done))
  <2>1. ReadBytes = BeforeDms \o DmsSoFar
    BY <1>2 DEF ReadSoFar, DmsRead
  <2>2. DmsSoFar = h \o Listed(n, done)
    BY <1>1, <1>3, <1>5, <1>6, <1>7, <1>8, Zenon DEF DmsSoFar, DmsHead
  <2>. QED
    BY <1>3, <2>1, <2>2, Zenon
<1>10. Starts(W, before, h \o Listed(n, items))
  BY <1>3
<1>11. ItemMet(W, Len(before), h, items, n, k)
  BY <1>3, <1>7, <1>8, <1>9, <1>10, MeetsItem, Zenon
<1>12. ASSUME left # 0
       PROVE  LET x == whole[Len(list) + 1]
              IN  x \in WrittenShare /\ Meets(W, EncodeShare(x)) /\ NextInList(list, left, whole)
  <2>1. NextInList(list, left, whole) /\ whole[Len(list) + 1] \in WrittenShare
    BY <1>3, <1>4, <1>5, <1>12, PartGrows
  <2>2. k # n /\ k + 1 \in 1..n
    BY <1>3, <1>4, <1>7, <1>12
  <2>3. items[k + 1] = EncodeShare(whole[k + 1])
    BY <1>3, <2>2
  <2>. QED
    BY <1>6, <1>11, <2>1, <2>2, <2>3 DEF ItemMet
<1>13. ASSUME left = 0
       PROVE  list = whole /\ Meets(W, EncodeBytes(p.reconstruction_hint))
  <2>1. list = whole
    BY <1>3, <1>4, <1>5, <1>13, PartEnds
  <2>2. k = n
    BY <1>3, <1>4, <1>6, <1>7, <1>13
  <2>3. position = Len(before) + Len(g)
    BY <1>3, <1>11, <2>2, Zenon DEF ItemMet
  <2>4. /\ Lies(W, position, EncodeBytes(p.reconstruction_hint))
        /\ EncodeBytes(p.reconstruction_hint) \in Seq(Nat)
    BY <1>1, <2>3, Zenon DEF DmsAt
  <2>. QED
    BY <1>3, <2>1, <2>4, MeetsNext
<1>. QED
  BY <1>1, <1>12, <1>13

LEMMA DmsRefused ==
    ASSUME NEW m, NEW full, CodecInv, DmsFollows(m, full), section = "dms_policy", RejectDmsPolicy,
           NEW W, NEW h, NEW items, NEW n, NEW g, DmsAt(m, W, h, items, n, g), ValidDmsPolicy(m.dms_policy)
    PROVE  status' = "Truncated" /\ Len(buf) < Len(W)
<1>1. PICK whole, p, b : p = m.dms_policy /\ whole = p.shares /\ b = p.reconstruction_hint
  OBVIOUS
<1>2. CursorOK /\ TypeOK /\ left \in Nat
  <2>1. CursorOK /\ TypeOK
    BY CodecFile
  <2>. QED
    BY <2>1 DEF TypeOK
<1>3. CASE Reject("dms_policy", "head", DmsHeadChecks)
  <2>1. step = "head"
    BY <1>3 DEF Reject, At
  <2>2. Meets(W, g)
    BY <2>1, DmsHeadMeets
  <2>3. OnlyShort(DmsHeadChecks, Len(g))
    <3>1. HereAt(0, DmsHead(p.k, p.n) \o Listed(n, items)) /\ ItemsOf(items, n, 0) /\ p.k \in Nat /\ p.n \in Nat
      BY <1>1, <2>2 DEF Meets, DmsAt
    <3>2. p.k \in 1..p.n /\ n = p.n /\ g = DmsHead(p.k, p.n) \o Listed(n, items)
      BY <1>1 DEF ValidDmsPolicy, DmsAt
    <3>. QED
      BY <1>2, <3>1, <3>2, DmsShort
  <2>. QED
    BY <1>3, <2>2, <2>3, Rows, MeetsShort, Zenon
<1>4. CASE MoreEntries /\ Reject("dms_policy", "entries", ShareChecks)
  <2>1. step # "head" /\ left # 0
    BY <1>2, <1>4 DEF Reject, At, MoreEntries
  <2>2. PICK k, x : k = Len(dms_policy.shares) /\ x = whole[k + 1]
    OBVIOUS
  <2>3. x \in WrittenShare /\ Meets(W, EncodeShare(x)) /\ NextInList(dms_policy.shares, left, whole)
    BY <1>1, <2>1, <2>2, DmsMeets
  <2>4. /\ k + 1 \in DOMAIN whole /\ DOMAIN dms_policy.shares = 1..k
        /\ \A i \in 1..k : dms_policy.shares[i] = whole[i] /\ i # k + 1 /\ i \in DOMAIN whole
    BY <2>2, <2>3 DEF NextInList
  <2>5. /\ ValidShare(x)
        /\ \A i \in DOMAIN dms_policy.shares : dms_policy.shares[i].custodian_id # x.custodian_id
    BY <1>1, <2>2, <2>4 DEF ValidDmsPolicy, Distinct
  <2>6. OnlyShort(ShareChecks, Len(EncodeShare(x)))
    BY <1>2, <2>3, <2>5, ShareShort DEF Meets
  <2>. QED
    BY <1>4, <2>3, <2>6, Rows, MeetsShort, Zenon
<1>5. CASE ~MoreEntries /\ Reject("dms_policy", "entries", HintChecks)
  <2>1. step # "head" /\ left = 0
    BY <1>2, <1>5 DEF Reject, At, MoreEntries
  <2>2. Meets(W, EncodeBytes(b))
    BY <1>1, <2>1, DmsMeets
  <2>3. Len(b) <= DEFAULT_HINT_MAX_BYTES /\ IsUtf8(b) /\ b \in Seq(Nat)
    BY <1>1 DEF ValidDmsPolicy, DmsAt
  <2>4. OnlyShort(HintChecks, Len(EncodeBytes(b)))
    BY <1>2, <2>2, <2>3, HintShort DEF Meets
  <2>. QED
    BY <1>5, <2>2, <2>4, Rows, MeetsShort, Zenon
<1>. QED
  BY <1>3, <1>4, <1>5 DEF RejectDmsPolicy

\* The section is not there.
LEMMA DmsSkipped ==
    ASSUME NEW m, NEW full, ParsedFollows(m, full), SkipDmsPolicy,
           UNCHANGED <<header, flags, metadata_reference, slab_index, ec_params, dms_policy>>
    PROVE  section' = "history" /\ step' = "head" /\ DmsIs(m, full)' /\ RefusedShort(m, full)'
<1>1. section = "dms_policy" /\ section' = "history" /\ step' = "head" /\ status' = "parsing" /\ ~HasFlag(DMS_FLAG)
  BY NextSectionsAre DEF SkipDmsPolicy, At, Return
<1>2. EcIs(m, full)
  BY <1>1 DEF ParsedFollows, DmsFollows
<1>. QED
  BY <1>1, <1>2, EcIsStill DEF DmsIs, RefusedShort, ErrorKinds

\* The section was not written.
LEMMA DmsUnwritten ==
    ASSUME NEW m, Faces(m, FALSE), ParsedFollows(m, FALSE), HasFlag(DMS_FLAG), DmsPolicyStep,
           UNCHANGED <<header, flags, metadata_reference, slab_index, ec_params>>
    PROVE  section' = "dms_policy" /\ DmsFollows(m, FALSE)' /\ ~Valid(m)
<1>1. section = "dms_policy" /\ DmsFollows(m, FALSE)
  BY DEF ParsedFollows, DmsPolicyStep, RejectDmsPolicy, ReadDmsHead, ReadShare, ReadHint, Reject,
     Accept, At
<1>2. EcIs(m, FALSE) /\ step = "head"
  BY <1>1 DEF DmsFollows
<1>3. ReadSoFar /\ CursorOK /\ m \in WrittenManifests
  BY CodecFile DEF Faces, WrittenAs
<1>4. ThroughEc(m, FALSE) = ThroughSlabs(m)
  <2>1. ThroughSlabs(m) \in Seq(Nat)
    BY <1>3, SectionsOfWritten DEF SectionsLie, Starts
  <2>2. ThroughSlabs(m) \o <<>> = ThroughSlabs(m)
    BY <2>1
  <2>. QED
    BY <2>2 DEF ThroughEc, EcBytes
<1>5. ReadBytes = ThroughSlabs(m)
  BY <1>1, <1>2, <1>3, <1>4, BeforeDmsIs DEF ReadSoFar, DmsRead
<1>6. ~Passes(DmsHeadChecks)
  BY <1>5, HistoryInstead, NoDmsHead
<1>7. RejectDmsPolicy
  BY <1>2, <1>6 DEF DmsPolicyStep, ReadDmsHead, ReadShare, ReadHint, Accept, At
<1>8. section' = section /\ step' = step
  BY <1>7 DEF RejectDmsPolicy, Reject, Raise
<1>9. Declares(m, DMS_FLAG) /\ m.dms_policy = NoDmsPolicy
  <2>1. Declares(m, DMS_FLAG)
    BY <1>2, SameFlags DEF EcIs, SlabsAre, ReferenceIs, FlagsAre
  <2>. QED
    BY <2>1 DEF Faces, WrittenAs
<1>10. ~Valid(m)
  BY <1>9 DEF Valid, ValidDmsPolicy, NoDmsPolicy
<1>. QED
  BY <1>1, <1>2, <1>8, <1>10, EcIsStill DEF DmsFollows

LEMMA DmsFollowsOn ==
    ASSUME NEW m, Faces(m, TRUE), ParsedFollows(m, TRUE), HasFlag(DMS_FLAG), DmsPolicyStep,
           UNCHANGED <<header, flags, metadata_reference, slab_index, ec_params>>
    PROVE  /\ \/ section' = "dms_policy" /\ DmsFollows(m, TRUE)'
              \/ section' = "history" /\ step' = "head" /\ DmsIs(m, TRUE)'
           /\ RefusedShort(m, TRUE)'
<1>1. PICK W, p, whole, h, items, n, b :
        /\ W = Written(m, TRUE) /\ p = m.dms_policy /\ whole = p.shares /\ h = DmsHead(p.k, p.n)
        /\ items = ShareBytes(whole) /\ n = Len(whole) /\ b = p.reconstruction_hint
  OBVIOUS
<1>2. PICK g : g = h \o Listed(n, items)
  OBVIOUS
<1>3. CodecInv /\ CursorOK /\ TypeOK /\ left \in Nat /\ dms_policy \in DmsPolicyType
  <2>1. CodecInv /\ CursorOK /\ TypeOK
    BY CodecFile DEF Faces
  <2>. QED
    BY <2>1 DEF TypeOK
<1>4. section = "dms_policy" /\ DmsFollows(m, TRUE)
  BY DEF ParsedFollows, DmsPolicyStep, RejectDmsPolicy, ReadDmsHead, ReadShare, ReadHint, Reject,
     Accept, At
<1>5. EcIs(m, TRUE) /\ EcIs(m, TRUE)' /\ HasFlag(DMS_FLAG)'
  BY <1>4, EcIsStill DEF DmsFollows
<1>6. DmsAt(m, W, h, items, n, g)
  BY <1>1, <1>2, <1>5, DmsLies
<1>7. /\ whole \in Seq(WrittenShare) /\ n \in Nat /\ p.k \in Nat /\ p.n \in Nat
      /\ items \in Seq(Seq(Nat)) /\ b \in Seq(Nat)
      /\ p = [k |-> p.k, n |-> p.n, reconstruction_hint |-> b, shares |-> whole]
  BY <1>1, <1>6 DEF DmsAt
<1>8. Declares(m, DMS_FLAG)
  BY <1>5, SameFlags DEF EcIs, SlabsAre, ReferenceIs, FlagsAre
<1>9. CASE RejectDmsPolicy
  <2>1. section' = section /\ step' = step /\ left' = left /\ UNCHANGED <<dms_policy, buf>>
    BY <1>9 DEF RejectDmsPolicy, Reject, Raise
  <2>2. DmsFollows(m, TRUE)'
    BY <1>4, <1>5, <2>1 DEF DmsFollows
  <2>3. Valid(m) => status' = "Truncated" /\ Len(buf) < Len(W)
    BY <1>3, <1>4, <1>6, <1>8, <1>9, DmsRefused DEF Valid
  <2>. QED
    BY <1>1, <1>4, <2>1, <2>2, <2>3 DEF RefusedShort
<1>10. CASE ReadDmsHead
  <2>1. /\ Passes(DmsHeadChecks) /\ step = "head" /\ section' = "dms_policy" /\ status' = "parsing"
        /\ left' = U32(4)
    BY <1>10 DEF ReadDmsHead, Accept, At
  <2>2. position + 8 <= Len(buf)
    BY <1>3, <2>1, DmsHeadPassed
  <2>3. Meets(W, g) /\ dms_policy = NoDmsPolicy
    BY <1>3, <1>4, <1>6, <2>1, DmsHeadMeets
  <2>4. HereAt(0, DmsHead(p.k, p.n) \o Listed(n, items))
    BY <1>1, <1>2, <2>3 DEF Meets
  <2>5. U8(2) = p.k /\ U8(3) = p.n /\ U32(4) = n
    BY <1>3, <1>7, <2>2, <2>4, DmsMet
  <2>6. dms_policy'.k = U8(2) /\ dms_policy'.n = U8(3) /\ dms_policy'.shares = <<>>
    BY <1>10, <2>3 DEF ReadDmsHead, NoDmsPolicy
  <2>7. Part(<<>>, n, whole)
    BY <1>1, <1>7, PartBegins
  <2>. QED
    BY <1>1, <1>5, <2>1, <2>5, <2>6, <2>7 DEF DmsFollows, RefusedShort, ErrorKinds
<1>11. CASE ReadShare
  <2>1. /\ Passes(ShareChecks) /\ step # "head" /\ left # 0 /\ section' = "dms_policy" /\ status' = "parsing"
        /\ left' = left - 1
    BY <1>3, <1>11 DEF ReadShare, Accept, At, MoreEntries
  <2>2. PICK k, x : k = Len(dms_policy.shares) /\ x = whole[k + 1]
    OBVIOUS
  <2>3. x \in WrittenShare /\ Meets(W, EncodeShare(x)) /\ NextInList(dms_policy.shares, left, whole)
    BY <1>1, <1>3, <1>4, <1>6, <2>1, <2>2, DmsMeets
  <2>4. NextShare = x
    BY <1>3, <2>1, <2>3, ShareMet DEF Meets
  <2>5. Part(Append(dms_policy.shares, x), left - 1, whole)
    BY <2>2, <2>3 DEF NextInList
  <2>6. /\ dms_policy'.k = dms_policy.k /\ dms_policy'.n = dms_policy.n
        /\ dms_policy'.shares = Append(dms_policy.shares, NextShare)
    BY <1>3, <1>11 DEF ReadShare, DmsPolicyType, NextShare
  <2>. QED
    BY <1>1, <1>4, <1>5, <2>1, <2>4, <2>5, <2>6 DEF DmsFollows, RefusedShort, ErrorKinds
<1>12. CASE ReadHint
  <2>1. /\ Passes(HintChecks) /\ step # "head" /\ left = 0 /\ section' = "history" /\ step' = "head"
        /\ status' = "parsing"
    BY <1>3, <1>12, NextSectionsAre DEF ReadHint, At, Return, MoreEntries
  <2>2. dms_policy.shares = whole /\ Meets(W, EncodeBytes(b))
    BY <1>1, <1>3, <1>4, <1>6, <2>1, DmsMeets
  <2>3. position + 4 + U32(0) <= Len(buf)
    BY <1>3, <2>1, HintPassed
  <2>4. NextUri = b
    BY <1>3, <1>7, <2>2, <2>3, BlobMet DEF Meets
  <2>5. dms_policy' = [k |-> dms_policy.k, n |-> dms_policy.n, reconstruction_hint |-> NextUri,
                       shares |-> dms_policy.shares]
    BY <1>3, <1>12 DEF ReadHint, DmsPolicyType, NextUri
  <2>6. dms_policy.k = p.k /\ dms_policy.n = p.n
    BY <1>1, <1>4, <2>1 DEF DmsFollows
  <2>7. dms_policy' = p
    BY <1>7, <2>2, <2>4, <2>5, <2>6, Zenon
  <2>. QED
    BY <1>1, <1>5, <2>1, <2>7 DEF DmsIs, RefusedShort, ErrorKinds
<1>. QED
  BY <1>9, <1>10, <1>11, <1>12 DEF DmsPolicyStep

-----------------------------------------------------------------------------
\* The history.

LEMMA BeforeHistoryIs ==
    ASSUME NEW m, NEW full, DmsIs(m, full)
    PROVE  BeforeHistory = ThroughDms(m, full)
<1>1. EcIs(m, full) /\ (HasFlag(DMS_FLAG) => full /\ dms_policy = m.dms_policy)
  BY DEF DmsIs
<1>2. HasFlag(DMS_FLAG) <=> Declares(m, DMS_FLAG)
  BY <1>1, SameFlags DEF EcIs, SlabsAre, ReferenceIs, FlagsAre
<1>3. BeforeDms = ThroughEc(m, full)
  BY <1>1, BeforeDmsIs
<1>4. DmsBytes(m, full) = IF HasFlag(DMS_FLAG) THEN EncodeDmsPolicy(dms_policy) ELSE <<>>
  BY <1>1, <1>2, Zenon DEF DmsBytes
<1>. QED
  BY <1>3, <1>4, Zenon DEF BeforeHistory, ThroughDms

LEMMA DmsIsStill ==
    ASSUME NEW m, NEW full, DmsIs(m, full),
           UNCHANGED <<header, flags, metadata_reference, slab_index, ec_params, dms_policy>>
    PROVE  DmsIs(m, full)'
BY EcIsStill DEF DmsIs

HistoryAt(m, full, W, one, items, n) ==
    /\ W \in Seq(Nat) /\ Agrees(W) /\ m.history \in Seq(WrittenEntry) /\ n = Len(m.history)
    /\ n \in Nat /\ one = << 1 >> /\ one \in Seq(Nat)
    /\ items = HistoryBytes(m.history) /\ items \in Seq(Seq(Nat)) /\ Len(items) = n
    /\ ItemsOf(items, n, 17)
    /\ \A i \in 1..n : items[i] = EncodeHistoryEntry(m.history[i]) /\ m.history[i] \in WrittenEntry
    /\ Starts(W, ThroughDms(m, full), one \o Listed(n, items)) /\ one \o Listed(n, items) \in Seq(Nat)
    /\ BeforeHistory = ThroughDms(m, full)

LEMMA HistoryLies ==
    ASSUME NEW m, NEW full, Faces(m, full), DmsIs(m, full), NEW W, W = Written(m, full),
           NEW one, one = << 1 >>, NEW items, items = HistoryBytes(m.history), NEW n, n = Len(m.history)
    PROVE  HistoryAt(m, full, W, one, items, n)
<1>1. PICK whole, before : whole = m.history /\ before = ThroughDms(m, full)
  OBVIOUS
<1>2. CodecInv /\ Agrees(W) /\ m \in WrittenManifests
  BY DEF Faces, WrittenAs
<1>3. W \in Seq(Nat) /\ Starts(W, before, EncodeHistory(whole)) /\ whole \in Seq(WrittenEntry)
  BY <1>1, <1>2, SectionsOfWritten, ManifestFields, Zenon DEF SectionsLie
<1>4. n \in Nat /\ one \in Seq(Nat)
  <2>1. << 1 >> \in Seq(Nat) /\ Len(whole) \in Nat
    BY <1>3
  <2>. QED
    BY <1>1, <2>1
<1>5. /\ items \in Seq(Seq(Nat)) /\ Len(items) = n /\ ItemsOf(items, n, 17)
      /\ \A i \in 1..n : items[i] = EncodeHistoryEntry(whole[i]) /\ whole[i] \in WrittenEntry
  BY <1>1, <1>3, EntryItems DEF ItemsOf
<1>6. Starts(W, before, one \o Listed(n, items)) /\ one \o Listed(n, items) \in Seq(Nat)
  <2>1. EncodeHistory(whole) = one \o Listed(n, items)
    BY <1>1, SectionForms, Zenon
  <2>2. one \o Listed(n, items) \in Seq(Nat)
    BY <1>4, <1>5, ListLength DEF ListWidth
  <2>. QED
    BY <1>3, <2>1, <2>2, Zenon
<1>7. BeforeHistory = before
  BY <1>1, BeforeHistoryIs
<1>. QED
  BY <1>1, <1>2, <1>3, <1>4, <1>5, <1>6, <1>7 DEF HistoryAt

LEMMA HistoryHeadMeets ==
    ASSUME NEW m, NEW full, CodecInv, section = "history", step = "head",
           NEW W, NEW one, NEW items, NEW n, HistoryAt(m, full, W, one, items, n)
    PROVE  Meets(W, one \o Listed(n, items)) /\ history = <<>>
<1>1. PICK before, e : before = ThroughDms(m, full) /\ e = one \o Listed(n, items)
  OBVIOUS
<1>2. ReadSoFar /\ NotBegun
  BY CodecFile
<1>3. ReadBytes = before
  BY <1>1, <1>2 DEF ReadSoFar, HistoryRead, HistoryAt
<1>4. W \in Seq(Nat) /\ Agrees(W) /\ e \in Seq(Nat) /\ Starts(W, before, e)
  BY <1>1 DEF HistoryAt
<1>5. Lies(W, position, e)
  BY <1>3, <1>4, ReadLength DEF Starts
<1>6. Meets(W, e)
  BY <1>4, <1>5, MeetsNext
<1>7. history = <<>>
  BY <1>2 DEF NotBegun, Ahead
<1>. QED
  BY <1>1, <1>6, <1>7

LEMMA HistoryEntryMeets ==
    ASSUME NEW m, NEW full, CodecInv, HistoryFollows(m, full), section = "history", step # "head",
           left # 0,
           NEW W, NEW one, NEW items, NEW n, HistoryAt(m, full, W, one, items, n)
    PROVE  LET x == m.history[Len(history) + 1]
           IN  x \in WrittenEntry /\ Meets(W, EncodeHistoryEntry(x)) /\ NextInList(history, left, m.history)
<1>1. PICK whole, before : whole = m.history /\ before = ThroughDms(m, full)
  OBVIOUS
<1>2. TypeOK /\ CursorOK /\ ReadSoFar
  BY CodecFile
<1>3. /\ W \in Seq(Nat) /\ Agrees(W) /\ whole \in Seq(WrittenEntry) /\ n = Len(whole) /\ n \in Nat
      /\ one = << 1 >> /\ one \in Seq(Nat) /\ items = HistoryBytes(whole)
      /\ items \in Seq(Seq(Nat)) /\ Len(items) = n
      /\ \A i \in 1..n : items[i] = EncodeHistoryEntry(whole[i]) /\ whole[i] \in WrittenEntry
      /\ Starts(W, before, one \o Listed(n, items)) /\ BeforeHistory = before
  BY <1>1 DEF HistoryAt
<1>4. Len(history) \in Nat /\ left \in Nat
  BY <1>2, CursorKept DEF TypeOK
<1>5. Part(history, left, whole)
  BY <1>1 DEF HistoryFollows
<1>6. NextInList(history, left, whole) /\ whole[Len(history) + 1] \in WrittenEntry
  BY <1>3, <1>4, <1>5, PartGrows
<1>7. PICK k, x : k = Len(history) /\ x = whole[k + 1]
  OBVIOUS
<1>8. k \in Nat /\ k + 1 \in 1..n /\ k \in 0..n /\ k < n
  BY <1>3, <1>6, <1>7 DEF NextInList
<1>9. PICK done : done = HistoryBytes(history) /\ done = SubSeq(items, 1, k)
  BY <1>3, <1>4, <1>5, <1>7, EntryPart
<1>10. ReadBytes = before \o (one \o Listed(n, done))
  <2>1. Len(history) + left = n
    BY <1>3, <1>5 DEF Part
  <2>2. ReadBytes = BeforeHistory \o HistorySoFar
    BY <1>2 DEF ReadSoFar, HistoryRead
  <2>3. HistorySoFar = one \o Listed(n, done)
    BY <1>3, <1>9, <2>1, Zenon DEF HistorySoFar
  <2>. QED
    BY <1>3, <2>2, <2>3, Zenon
<1>11. ItemMet(W, Len(before), one, items, n, k)
  BY <1>3, <1>8, <1>9, <1>10, MeetsItem, Zenon
<1>12. items[k + 1] = EncodeHistoryEntry(x) /\ x \in WrittenEntry
  BY <1>3, <1>6, <1>7, <1>8
<1>. QED
  BY <1>1, <1>6, <1>7, <1>8, <1>11, <1>12 DEF ItemMet

LEMMA HistoryRefused ==
    ASSUME NEW m, NEW full, CodecInv, HistoryFollows(m, full), section = "history", RejectHistory,
           NEW W, NEW one, NEW items, NEW n, HistoryAt(m, full, W, one, items, n), ValidHistory(m.history)
    PROVE  status' = "Truncated" /\ Len(buf) < Len(W)
<1>1. PICK whole : whole = m.history
  OBVIOUS
<1>2. CursorOK /\ TypeOK /\ left \in Nat
  BY CodecFile, CursorKept DEF TypeOK
<1>3. CASE Reject("history", "head", HistoryHeadChecks)
  <2>1. step = "head"
    BY <1>3 DEF Reject, At
  <2>2. PICK e : e = one \o Listed(n, items)
    OBVIOUS
  <2>3. Meets(W, e)
    BY <2>1, <2>2, HistoryHeadMeets
  <2>4. OnlyShort(HistoryHeadChecks, Len(e))
    <3>1. HereAt(0, << 1 >> \o Listed(n, items)) /\ ItemsOf(items, n, 17) /\ one = << 1 >>
      BY <2>2, <2>3 DEF Meets, HistoryAt
    <3>2. n # 0
      BY DEF HistoryAt, ValidHistory
    <3>. QED
      BY <1>2, <2>2, <3>1, <3>2, HistoryHeadShort
  <2>. QED
    BY <1>3, <2>3, <2>4, Rows, MeetsShort, Zenon
<1>4. CASE MoreEntries /\ Reject("history", "entries", HistoryEntryChecks)
  <2>1. step # "head" /\ left # 0
    BY <1>2, <1>4 DEF Reject, At, MoreEntries
  <2>2. PICK k, x : k = Len(history) /\ x = whole[k + 1]
    OBVIOUS
  <2>3. x \in WrittenEntry /\ Meets(W, EncodeHistoryEntry(x)) /\ NextInList(history, left, whole)
    BY <1>1, <2>1, <2>2, HistoryEntryMeets
  <2>4. k + 1 \in DOMAIN whole
    BY <2>2, <2>3 DEF NextInList
  <2>5. x.op \in HistoryOps /\ Len(x.params) <= DEFAULT_HISTORY_PARAMS_MAX_BYTES
    BY <1>1, <2>2, <2>4 DEF ValidHistory
  <2>6. OnlyShort(HistoryEntryChecks, Len(EncodeHistoryEntry(x)))
    BY <1>2, <2>3, <2>5, EntryShort DEF Meets
  <2>. QED
    BY <1>4, <2>3, <2>6, Rows, MeetsShort, Zenon
<1>. QED
  BY <1>3, <1>4 DEF RejectHistory

LEMMA HistoryFollowsOn ==
    ASSUME NEW m, NEW full, Faces(m, full), ParsedFollows(m, full), HistoryStep,
           UNCHANGED <<header, flags, metadata_reference, slab_index, ec_params, dms_policy>>
    PROVE  section' = "history" /\ HistoryFollows(m, full)' /\ RefusedShort(m, full)'
<1>1. PICK W, whole, one, items, n :
        /\ W = Written(m, full) /\ whole = m.history /\ one = << 1 >>
        /\ items = HistoryBytes(whole) /\ n = Len(whole)
  OBVIOUS
<1>2. CodecInv /\ CursorOK /\ TypeOK /\ left \in Nat /\ history \in Seq(HistoryEntryType)
  BY CodecFile, CursorKept DEF Faces, TypeOK
<1>3. section = "history" /\ HistoryFollows(m, full)
  BY DEF ParsedFollows, HistoryStep, RejectHistory, ReadHistoryHead, ReadHistoryEntry, HistoryEnd,
     EntriesEnd,
         Reject, Accept, At
<1>4. DmsIs(m, full) /\ DmsIs(m, full)'
  BY <1>3, DmsIsStill DEF HistoryFollows
<1>5. HistoryAt(m, full, W, one, items, n)
  BY <1>1, <1>4, HistoryLies
<1>6. whole \in Seq(WrittenEntry) /\ n \in Nat /\ items \in Seq(Seq(Nat))
  BY <1>1, <1>5 DEF HistoryAt
<1>7. CASE RejectHistory
  <2>1. section' = section /\ step' = step /\ left' = left /\ UNCHANGED <<history, buf>>
    BY <1>7 DEF RejectHistory, Reject, Raise
  <2>2. HistoryFollows(m, full)'
    BY <1>3, <1>4, <2>1 DEF HistoryFollows
  <2>3. Valid(m) => status' = "Truncated" /\ Len(buf) < Len(W)
    BY <1>2, <1>3, <1>5, <1>7, HistoryRefused DEF Valid
  <2>. QED
    BY <1>1, <1>3, <2>1, <2>2, <2>3 DEF RefusedShort
<1>8. CASE ReadHistoryHead
  <2>1. /\ Passes(HistoryHeadChecks) /\ step = "head" /\ section' = "history" /\ status' = "parsing"
        /\ left' = U32(1) /\ UNCHANGED history
    BY <1>8 DEF ReadHistoryHead, Accept, At
  <2>2. position + 5 <= Len(buf)
    BY <1>2, <2>1, HistoryHeadPassed
  <2>3. Meets(W, one \o Listed(n, items)) /\ history = <<>>
    BY <1>2, <1>3, <1>5, <2>1, HistoryHeadMeets
  <2>4. HereAt(0, << 1 >> \o Listed(n, items))
    BY <1>1, <2>3 DEF Meets
  <2>5. U32(1) = n
    BY <1>2, <1>6, <2>2, <2>4, OneListMet
  <2>6. Part(<<>>, n, whole)
    BY <1>1, <1>6, PartBegins
  <2>. QED
    BY <1>1, <1>4, <2>1, <2>3, <2>5, <2>6 DEF HistoryFollows, RefusedShort, ErrorKinds
<1>9. CASE ReadHistoryEntry
  <2>1. /\ Passes(HistoryEntryChecks) /\ step # "head" /\ left # 0 /\ section' = "history" /\ status' = "parsing"
        /\ left' = left - 1 /\ history' = Append(history, HistoryEntry)
    BY <1>2, <1>9 DEF ReadHistoryEntry, Accept, At, MoreEntries
  <2>2. PICK k, x : k = Len(history) /\ x = whole[k + 1]
    OBVIOUS
  <2>3. x \in WrittenEntry /\ Meets(W, EncodeHistoryEntry(x)) /\ NextInList(history, left, whole)
    BY <1>1, <1>2, <1>3, <1>5, <2>1, <2>2, HistoryEntryMeets
  <2>4. HistoryEntry = x
    BY <1>2, <2>1, <2>3, EntryMet DEF Meets
  <2>5. Part(Append(history, x), left - 1, whole)
    BY <2>2, <2>3 DEF NextInList
  <2>. QED
    BY <1>1, <1>4, <2>1, <2>4, <2>5 DEF HistoryFollows, RefusedShort, ErrorKinds
<1>10. CASE HistoryEnd
  <2>1. /\ step # "head" /\ left = 0 /\ section' = "history" /\ step' = step /\ left' = left
        /\ status' = "verified" /\ UNCHANGED history
    BY <1>10 DEF HistoryEnd, EntriesEnd, At, Return
  <2>2. HistoryFollows(m, full)'
    BY <1>3, <1>4, <2>1 DEF HistoryFollows
  <2>. QED
    BY <2>1, <2>2 DEF RefusedShort, ErrorKinds
<1>. QED
  BY <1>7, <1>8, <1>9, <1>10 DEF HistoryStep

-----------------------------------------------------------------------------
\* Every step keeps what has been parsed what was written.

\* A section is reached at its head, when those before it are what was written.
LEMMA FollowsHere ==
    ASSUME NEW m, NEW full
    PROVE  /\ section' = "header" => ParsedFollows(m, full)'
           /\ section' = "feature_flags" /\ (FlagsFollow(m)' \/ (step' = "head" /\ HeaderIs(m)'))
                => ParsedFollows(m, full)'
           /\ section' = "metadata_reference" /\ (ReferenceFollows(m)' \/ (step' = "head" /\ FlagsAre(m)'))
                => ParsedFollows(m, full)'
           /\ section' = "slab_index" /\ (SlabsFollow(m)' \/ (step' = "head" /\ ReferenceIs(m)'))
                => ParsedFollows(m, full)'
           /\ section' = "ec_params" /\ (EcFollows(m, full)' \/ (step' = "head" /\ SlabsAre(m)'))
                => ParsedFollows(m, full)'
           /\ section' = "dms_policy" /\ (DmsFollows(m, full)' \/ (step' = "head" /\ EcIs(m, full)'))
                => ParsedFollows(m, full)'
           /\ section' = "history" /\ (HistoryFollows(m, full)' \/ (step' = "head" /\ DmsIs(m, full)'))
                => ParsedFollows(m, full)'
BY DEF ParsedFollows, FlagsFollow, ReferenceFollows, SlabsFollow, EcFollows, DmsFollows,
   HistoryFollows

LEMMA StepFollows ==
    ASSUME NEW m, NEW full, Faces(m, full), ParsedFollows(m, full), Step
    PROVE  ParsedFollows(m, full)' /\ RefusedShort(m, full)'
<1>1. CodecInv /\ LocatorsOpen /\ full \in BOOLEAN
  BY DEF Faces, WrittenAs, CodecInv, IInv
<1>2. CASE /\ HeaderStep
           /\ UNCHANGED <<locatorVars, flags, metadata_reference, slab_index, ec_params,
                          dms_policy, history>>
  BY <1>2, HeaderFollowsOn, FollowsHere
<1>3. CASE /\ FlagsStep
           /\ UNCHANGED <<locatorVars, header, metadata_reference, slab_index, ec_params,
                          dms_policy, history>>
  BY <1>3, FlagsFollowOn, FollowsHere
<1>4. CASE /\ MetadataReferenceStep
           /\ UNCHANGED <<header, flags, slab_index, ec_params, dms_policy, history>>
  BY <1>4, ReferenceFollowsOn, FollowsHere
<1>5. CASE /\ LocatorStep
           /\ UNCHANGED <<header, flags, metadata_reference, slab_index, ec_params, dms_policy,
                          history>>
  <2>1. section = "metadata_reference" \/ section = "slab_index"
    BY <1>1, <1>5 DEF LocatorStep, RejectLocator, ReadLocator, Reject, Accept, At, LocatorsOpen
  <2>2. CASE section = "metadata_reference"
    BY <1>5, <2>2, ReferenceLocatorFollowsOn, FollowsHere
  <2>3. CASE section = "slab_index"
    BY <1>5, <2>3, SlabLocatorFollowsOn, FollowsHere
  <2>. QED
    BY <2>1, <2>2, <2>3
<1>6. CASE /\ SlabIndexStep
           /\ UNCHANGED <<header, flags, metadata_reference, ec_params, dms_policy, history>>
  BY <1>6, SlabsFollowOn, FollowsHere
<1>7. CASE /\ SkipEcParams \/ SkipDmsPolicy
           /\ UNCHANGED <<locatorVars, header, flags, metadata_reference, slab_index, ec_params,
                          dms_policy, history>>
  BY <1>7, EcSkipped, DmsSkipped, FollowsHere
<1>8. CASE /\ HasFlag(EC_FLAG) /\ EcParamsStep
           /\ UNCHANGED <<locatorVars, header, flags, metadata_reference, slab_index, dms_policy,
                          history>>
  <2>1. CASE full
    <3>1. full = TRUE
      BY <1>1, <2>1
    <3>. QED
      BY <1>8, <3>1, EcFollowsOn, FollowsHere
  <2>2. CASE ~full
    <3>1. full = FALSE
      BY <1>1, <2>2
    <3>2. section' = "ec_params" /\ EcFollows(m, FALSE)' /\ ~Valid(m)
      BY <1>8, <3>1, EcUnwritten
    <3>. QED
      BY <3>1, <3>2, FollowsHere DEF RefusedShort
  <2>. QED
    BY <2>1, <2>2
<1>9. CASE /\ HasFlag(DMS_FLAG) /\ DmsPolicyStep
           /\ UNCHANGED <<locatorVars, header, flags, metadata_reference, slab_index, ec_params,
                          history>>
  <2>1. CASE full
    <3>1. full = TRUE
      BY <1>1, <2>1
    <3>. QED
      BY <1>9, <3>1, DmsFollowsOn, FollowsHere
  <2>2. CASE ~full
    <3>1. full = FALSE
      BY <1>1, <2>2
    <3>2. section' = "dms_policy" /\ DmsFollows(m, FALSE)' /\ ~Valid(m)
      BY <1>9, <3>1, DmsUnwritten
    <3>. QED
      BY <3>1, <3>2, FollowsHere DEF RefusedShort
  <2>. QED
    BY <2>1, <2>2
<1>10. CASE /\ HistoryStep
            /\ UNCHANGED <<locatorVars, header, flags, metadata_reference, slab_index, ec_params,
                           dms_policy>>
  BY <1>10, HistoryFollowsOn, FollowsHere
<1>. QED
  BY <1>2, <1>3, <1>4, <1>5, <1>6, <1>7, <1>8, <1>9, <1>10 DEF Step

\* Of every manifest the file agrees with, verify parses what was written.
FollowsAll ==
    \A m, full : WrittenAs(m, full) /\ Agrees(Written(m, full)) =>
        ParsedFollows(m, full) /\ RefusedShort(m, full)

LEMMA FollowsInit == Init => FollowsAll
<1> SUFFICES ASSUME Init
             PROVE  FollowsAll
  OBVIOUS
<1>1. section = "header" /\ status = "parsing"
  BY DEF Init, Start
<1>. QED
  BY <1>1 DEF FollowsAll, ParsedFollows, RefusedShort, ErrorKinds

LEMMA FollowsNext == CodecInv /\ FollowsAll /\ [Next]_vars => FollowsAll'
<1> SUFFICES ASSUME CodecInv, FollowsAll, [Next]_vars
             PROVE  FollowsAll'
  OBVIOUS
<1>1. CASE Step
  <2>1. buf' = buf
    BY <1>1, StepShape, ShapeKeepsFile DEF CodecInv
  <2> SUFFICES ASSUME NEW m, NEW full, WrittenAs(m, full), Agrees(Written(m, full))'
               PROVE  ParsedFollows(m, full)' /\ RefusedShort(m, full)'
    BY DEF FollowsAll
  <2>2. Agrees(Written(m, full))
    BY <2>1 DEF Agrees
  <2>3. ParsedFollows(m, full) /\ Faces(m, full)
    BY <2>2 DEF FollowsAll, Faces
  <2>. QED
    BY <1>1, <2>3, StepFollows
<1>2. CASE UNCHANGED vars
  <2>1. UNCHANGED <<buf, position, status, section, step, left, locators, locators_left, header, flags,
                    metadata_reference, slab_index, ec_params, dms_policy, history>>
    BY <1>2 DEF vars, parserVars, locatorVars
  <2> SUFFICES ASSUME NEW m, NEW full, WrittenAs(m, full), Agrees(Written(m, full))'
               PROVE  ParsedFollows(m, full)' /\ RefusedShort(m, full)'
    BY DEF FollowsAll
  <2>2. Agrees(Written(m, full))
    BY <2>1 DEF Agrees
  <2>3. ParsedFollows(m, full) /\ RefusedShort(m, full)
    BY <2>2 DEF FollowsAll
  <2>4. RefusedShort(m, full)'
    BY <2>1, <2>3 DEF RefusedShort
  <2>5. ParsedFollows(m, full)'
    BY <2>1, <2>3 DEF ParsedFollows, FlagsFollow, ReferenceFollows, SlabsFollow, EcFollows,
       DmsFollows,
       HistoryFollows, HeaderIs, FlagsAre, ReferenceIs, SlabsAre, EcIs, DmsIs, HasFlag
  <2>. QED
    BY <2>4, <2>5
<1>. QED
  BY <1>1, <1>2 DEF Next, Finished

LEMMA FollowsInvariance == Spec => [](CodecInv /\ FollowsAll)
<1>1. Init => CodecInv /\ FollowsAll
  BY CodecInit, FollowsInit
<1>2. CodecInv /\ FollowsAll /\ [Next]_vars => (CodecInv /\ FollowsAll)'
  BY CodecStep, FollowsNext
<1>. QED
  BY <1>1, <1>2, PTL DEF Spec

-----------------------------------------------------------------------------
\* Where each section ended is where its encoding ends.
EndsSoFar ==
    /\ section # "header" => ends["header"] = Len(BeforeFlags)
    /\ section \notin {"header", "feature_flags"} => ends["feature_flags"] = Len(BeforeReference)
    /\ section \notin {"header", "feature_flags", "metadata_reference"} =>
         ends["metadata_reference"] = Len(BeforeSlabIndex)
    /\ section \in {"ec_params", "dms_policy", "history"} => ends["slab_index"] = Len(BeforeEc)
    /\ section \in {"dms_policy", "history"} => ends["ec_params"] = Len(BeforeDms)
    /\ section = "history" => ends["dms_policy"] = Len(BeforeHistory)

\* A step of a section changes nothing of the sections before it.
LEMMA EarlierStay ==
    ASSUME CodecInv, Step
    PROVE  /\ section # "header" => UNCHANGED BeforeFlags
           /\ section \notin {"header", "feature_flags"} => UNCHANGED BeforeReference
           /\ section \notin {"header", "feature_flags", "metadata_reference"} => UNCHANGED BeforeSlabIndex
           /\ section \in {"ec_params", "dms_policy", "history"} => UNCHANGED BeforeEc
           /\ section \in {"dms_policy", "history"} => UNCHANGED BeforeDms
           /\ section = "history" => UNCHANGED BeforeHistory
<1>1. section \in SectionNames /\ LocatorsOpen
  BY CodecFile DEF TypeOK, CodecInv, IInv
<1>2. UNCHANGED header \/ section = "header"
  BY DEF Step, HeaderStep, RejectHeader, ReadHeader, Reject, At
<1>3. UNCHANGED metadata_reference \/ section = "metadata_reference"
  BY DEF Step, MetadataReferenceStep, RejectMetadataReference, ReadMetadataHead, ReadMetadataTail,
     Reject,
         Accept, At
<1>4. /\ UNCHANGED flags \/ section = "feature_flags"
      /\ UNCHANGED slab_index \/ section = "slab_index"
      /\ UNCHANGED ec_params \/ section = "ec_params"
      /\ UNCHANGED dms_policy \/ section = "dms_policy"
  BY OnlyItsOwn DEF CodecInv, Begun
<1>5. UNCHANGED flags => /\ HasFlag(EC_FLAG)' = HasFlag(EC_FLAG)
                         /\ HasFlag(DMS_FLAG)' = HasFlag(DMS_FLAG)
  BY DEF HasFlag
<1>6. section # "header" => UNCHANGED BeforeFlags
  BY <1>2 DEF BeforeFlags
<1>7. section \notin {"header", "feature_flags"} => UNCHANGED BeforeReference
  BY <1>4, <1>6 DEF BeforeReference
<1>8. section \notin {"header", "feature_flags", "metadata_reference"} => UNCHANGED BeforeSlabIndex
  BY <1>3, <1>7 DEF BeforeSlabIndex
<1>9. section \in {"ec_params", "dms_policy", "history"} => UNCHANGED BeforeEc
  BY <1>4, <1>8 DEF BeforeEc
<1>10. section \in {"dms_policy", "history"} => UNCHANGED BeforeDms
  BY <1>4, <1>5, <1>9 DEF BeforeDms
<1>11. section = "history" => UNCHANGED BeforeHistory
  BY <1>4, <1>5, <1>10 DEF BeforeHistory
<1>. QED
  BY <1>6, <1>7, <1>8, <1>9, <1>10, <1>11

\* A parser that returns has read its section.
LEMMA ReturnEnds ==
    ASSUME CodecInv, CodecInv', NEW n, Return(section, n), section # "history"
    PROVE  /\ ends'[section] = Len(ReadBytes') /\ \A s \in SectionNames : s # section => ends'[s] = ends[s]
           /\ section' = NextSection(section) /\ step' = "head" /\ ReadSoFar'
<1>1. TypeOK /\ TypeOK' /\ ReadSoFar'
  BY DEF CodecInv, IInv
<1>2. /\ ends' = [ends EXCEPT ![section] = position + n] /\ position' = position + n
      /\ section' = NextSection(section) /\ step' = "head"
  BY DEF Return, Advance
<1>3. ends \in [SectionNames -> 0..position] /\ section \in SectionNames
  BY <1>1 DEF TypeOK
<1>4. Len(ReadBytes') = position'
  <2>1. position' \in 0..Len(buf') /\ buf' \in Seq(U8Values)
    BY <1>1 DEF TypeOK, ByteString
  <2>2. \A b \in Seq(U8Values) : \A p \in 0..Len(b) : Len(SubSeq(b, 1, p)) = p
    OBVIOUS
  <2>. QED
    BY <2>1, <2>2, Zenon DEF ReadBytes
<1>5. ends'[section] = position' /\ \A s \in SectionNames : s # section => ends'[s] = ends[s]
  BY <1>2, <1>3
<1>. QED
  BY <1>1, <1>2, <1>4, <1>5

LEMMA EndsKept ==
    ASSUME CodecInv, CodecInv', EndsSoFar, Step
    PROVE  EndsSoFar'
<1>1. IInv /\ TypeOK /\ section \in SectionNames
  BY CodecFile DEF CodecInv, TypeOK
<1>2. Raises \/ Advances \/ Returns
  BY <1>1, StepShape
<1>3. ASSUME UNCHANGED <<section, ends>>
      PROVE  EndsSoFar'
  <2>1. /\ section # "header" => UNCHANGED BeforeFlags
        /\ section \notin {"header", "feature_flags"} => UNCHANGED BeforeReference
        /\ section \notin {"header", "feature_flags", "metadata_reference"} => UNCHANGED BeforeSlabIndex
        /\ section \in {"ec_params", "dms_policy", "history"} => UNCHANGED BeforeEc
        /\ section \in {"dms_policy", "history"} => UNCHANGED BeforeDms
        /\ section = "history" => UNCHANGED BeforeHistory
    BY EarlierStay
  <2>. QED
    BY <1>3, <2>1 DEF EndsSoFar
<1>4. CASE Raises \/ Advances
  BY <1>3, <1>4 DEF Raises, Advances
<1>5. CASE Returns /\ section = "history"
  <2>1. PICK n : Return("history", n)
    BY <1>5 DEF Returns
  <2>2. section' = "history" /\ ends' = [ends EXCEPT !["history"] = position + n]
    BY <1>5, <2>1 DEF Return
  <2>3. ends \in [SectionNames -> 0..position]
    BY <1>1 DEF TypeOK
  <2>4. \A s \in SectionNames : s # "history" => ends'[s] = ends[s]
    BY <2>2, <2>3
  <2>5. /\ UNCHANGED BeforeFlags /\ UNCHANGED BeforeReference /\ UNCHANGED BeforeSlabIndex
        /\ UNCHANGED BeforeEc /\ UNCHANGED BeforeDms /\ UNCHANGED BeforeHistory
    BY <1>5, EarlierStay
  <2>. QED
    BY <1>5, <2>2, <2>4, <2>5, SectionNamesAre DEF EndsSoFar
<1>6. CASE Returns /\ section # "history"
  <2>1. PICK n : Return(section, n)
    BY <1>6 DEF Returns
  <2>2. /\ ends'[section] = Len(ReadBytes') /\ \A s \in SectionNames : s # section => ends'[s] = ends[s]
        /\ section' = NextSection(section) /\ step' = "head" /\ ReadSoFar'
    BY <1>6, <2>1, ReturnEnds
  <2>3. /\ section # "header" => UNCHANGED BeforeFlags
        /\ section \notin {"header", "feature_flags"} => UNCHANGED BeforeReference
        /\ section \notin {"header", "feature_flags", "metadata_reference"} => UNCHANGED BeforeSlabIndex
        /\ section \in {"ec_params", "dms_policy", "history"} => UNCHANGED BeforeEc
        /\ section \in {"dms_policy", "history"} => UNCHANGED BeforeDms
    BY EarlierStay
  <2>4. CASE section = "header"
    <3>1. section' = "feature_flags" /\ ReadBytes' = BeforeFlags'
      BY <2>2, <2>4, NextSectionsAre DEF ReadSoFar, FlagsRead
    <3>. QED
      BY <2>2, <2>4, <3>1 DEF EndsSoFar
  <2>5. CASE section = "feature_flags"
    <3>1. section' = "metadata_reference" /\ ReadBytes' = BeforeReference'
      BY <2>2, <2>5, NextSectionsAre DEF ReadSoFar, ReferenceRead
    <3>. QED
      BY <2>2, <2>3, <2>5, <3>1, SectionNamesAre DEF EndsSoFar
  <2>6. CASE section = "metadata_reference"
    <3>1. section' = "slab_index" /\ ReadBytes' = BeforeSlabIndex'
      BY <2>2, <2>6, NextSectionsAre DEF ReadSoFar, SlabsRead
    <3>. QED
      BY <2>2, <2>3, <2>6, <3>1, SectionNamesAre DEF EndsSoFar
  <2>7. CASE section = "slab_index"
    <3>1. section' = "ec_params" /\ ReadBytes' = BeforeEc'
      BY <2>2, <2>7, NextSectionsAre DEF ReadSoFar, EcRead
    <3>. QED
      BY <2>2, <2>3, <2>7, <3>1, SectionNamesAre DEF EndsSoFar
  <2>8. CASE section = "ec_params"
    <3>1. section' = "dms_policy" /\ ReadBytes' = BeforeDms'
      BY <2>2, <2>8, NextSectionsAre DEF ReadSoFar, DmsRead
    <3>. QED
      BY <2>2, <2>3, <2>8, <3>1, SectionNamesAre DEF EndsSoFar
  <2>9. CASE section = "dms_policy"
    <3>1. section' = "history" /\ ReadBytes' = BeforeHistory'
      BY <2>2, <2>9, NextSectionsAre DEF ReadSoFar, HistoryRead
    <3>. QED
      BY <2>2, <2>3, <2>9, <3>1, SectionNamesAre DEF EndsSoFar
  <2>. QED
    BY <1>1, <1>6, <2>4, <2>5, <2>6, <2>7, <2>8, <2>9, SectionNamesAre
<1>. QED
  BY <1>2, <1>4, <1>5, <1>6

LEMMA EndsInit == Init => EndsSoFar
BY DEF Init, Start, EndsSoFar

LEMMA EndsNext == CodecInv /\ CodecInv' /\ EndsSoFar /\ [Next]_vars => EndsSoFar'
<1> SUFFICES ASSUME CodecInv, CodecInv', EndsSoFar, [Next]_vars
             PROVE  EndsSoFar'
  OBVIOUS
<1>1. CASE Step
  BY <1>1, EndsKept
<1>2. CASE UNCHANGED vars
  <2>1. UNCHANGED <<section, ends, header, flags, metadata_reference, slab_index, ec_params, dms_policy>>
    BY <1>2 DEF vars, parserVars
  <2>2. UNCHANGED BeforeFlags
    BY <2>1 DEF BeforeFlags
  <2>3. UNCHANGED BeforeReference
    BY <2>1, <2>2 DEF BeforeReference
  <2>4. UNCHANGED BeforeSlabIndex
    BY <2>1, <2>3 DEF BeforeSlabIndex
  <2>5. UNCHANGED BeforeEc
    BY <2>1, <2>4 DEF BeforeEc
  <2>6. UNCHANGED BeforeDms
    BY <2>1, <2>5 DEF BeforeDms, HasFlag
  <2>7. UNCHANGED BeforeHistory
    BY <2>1, <2>6 DEF BeforeHistory, HasFlag
  <2>. QED
    BY <2>1, <2>2, <2>3, <2>4, <2>5, <2>6, <2>7 DEF EndsSoFar
<1>. QED
  BY <1>1, <1>2 DEF Next, Finished

LEMMA EndsInvariance == Spec => [](CodecInv /\ EndsSoFar)
<1>1. Init => CodecInv /\ EndsSoFar
  BY CodecInit, EndsInit
<1>2. CodecInv /\ EndsSoFar /\ [Next]_vars => (CodecInv /\ EndsSoFar)'
  BY CodecStep, EndsNext
<1>. QED
  BY <1>1, <1>2, PTL DEF Spec

-----------------------------------------------------------------------------
\* The root that is computed is the root of what was parsed.

\* Of what was read, f follows a: it is the piece of the file between the ends of the two.
PieceIs(a, f) == SubSeq(buf, Len(a) + 1, Len(a \o f)) = f

LEMMA PieceRead ==
    ASSUME CodecInv, NEW a, NEW f \in Seq(Nat), Starts(ReadBytes, a, f)
    PROVE  PieceIs(a, f)
<1>1. PICK p, n, q : p = Len(a) /\ n = Len(f) /\ q = position
  OBVIOUS
<1>2. /\ buf \in Seq(U8Values) /\ q \in 0..Len(buf) /\ p \in Nat /\ n \in Nat /\ a \in Seq(Nat)
      /\ f = [j \in 1..n |-> f[j]]
  <2>1. a \in Seq(Nat)
    BY DEF Starts
  <2>2. TypeOK
    BY CodecFile
  <2>. QED
    BY <1>1, <2>1, <2>2 DEF TypeOK, ByteString
<1>3. ReadBytes = SubSeq(buf, 1, q) /\ Len(ReadBytes) = q
  BY <1>1, ReadLength DEF ReadBytes
<1>4. p + n <= q /\ \A j \in 1..n : ReadBytes[p + j] = f[j]
  BY <1>1, <1>3 DEF Starts, Lies
<1>5. \A j \in 1..n : buf[p + j] = f[j]
  <2> TAKE j \in 1..n
  <2>1. p + j \in 1..q
    BY <1>2, <1>4
  <2>2. ReadBytes[p + j] = buf[p + j]
    BY <1>2, <1>3, <2>1
  <2>. QED
    BY <1>4, <2>2
<1>6. SubSeq(buf, p + 1, p + n) = f
  <2>1. SubSeq(buf, p + 1, p + n) = [j \in 1..n |-> buf[p + j]]
    <3>1. SubSeq(buf, p + 1, p + n) \in Seq(U8Values) /\ Len(SubSeq(buf, p + 1, p + n)) = n
      BY <1>2, <1>4
    <3>2. \A j \in 1..n : SubSeq(buf, p + 1, p + n)[j] = buf[p + j]
      BY <1>2, <1>4
    <3>. QED
      BY <3>1, <3>2
  <2>2. [j \in 1..n |-> buf[p + j]] = [j \in 1..n |-> f[j]]
    BY <1>5
  <2>. QED
    BY <1>2, <2>1, <2>2, Zenon
<1>7. Len(a \o f) = Len(a) + Len(f)
  BY <1>2, Lengths, Zenon
<1>. QED
  BY <1>1, <1>6, <1>7, Zenon DEF PieceIs

\* The encoding of each section of what has been parsed.
EcParsed == IF HasFlag(EC_FLAG) THEN EncodeEcParams(ec_params) ELSE <<>>
DmsParsed == IF HasFlag(DMS_FLAG) THEN EncodeDmsPolicy(dms_policy) ELSE <<>>

Pieces ==
    /\ PieceIs(<<>>, BeforeFlags)
    /\ PieceIs(BeforeFlags, EncodeFeatureFlags(flags))
    /\ PieceIs(BeforeReference, EncodeMetadataReference(metadata_reference))
    /\ PieceIs(BeforeSlabIndex, EncodeSlabIndex(slab_index))
    /\ PieceIs(BeforeEc, EcParsed)
    /\ PieceIs(BeforeDms, DmsParsed)
    /\ PieceIs(BeforeHistory, EncodeHistory(history))
    /\ ReadBytes = BeforeHistory \o EncodeHistory(history)

LEMMA PiecesRead ==
    ASSUME CodecInv, status = "verified"
    PROVE  Pieces
<1>1. section = "history" /\ step = "entries" /\ left = 0 /\ ReadSoFar /\ TypeOK
  BY CodecFile DEF CodecInv, Ended
<1>2. PICK s1, s2, s3, s4, s5, s6, s7, W :
        /\ s1 = EncodeHeader(header) /\ s2 = EncodeFeatureFlags(flags)
        /\ s3 = EncodeMetadataReference(metadata_reference) /\ s4 = EncodeSlabIndex(slab_index)
        /\ s5 = EcParsed /\ s6 = DmsParsed /\ s7 = EncodeHistory(history) /\ W = ReadBytes
  OBVIOUS
<1>3. /\ s1 \in Seq(Nat) /\ s2 \in Seq(Nat) /\ s3 \in Seq(Nat) /\ s4 \in Seq(Nat)
      /\ s5 \in Seq(Nat) /\ s6 \in Seq(Nat)
  <2>1. <<>> \in Seq(Nat)
    OBVIOUS
  <2>. QED
    BY <1>1, <1>2, <2>1, SectionsTypedSeq, Zenon DEF EcParsed, DmsParsed
<1>4. s7 \in Seq(Nat)
  <2>1. PICK list \in Seq(HistoryEntryType) : list = history
    BY <1>1 DEF TypeOK
  <2>2. HistoryBytes(list) \in Seq(Seq(Nat)) /\ Len(list) \in Nat /\ << 1 >> \in Seq(Nat)
    BY EntriesTyped
  <2>3. Listed(Len(list), HistoryBytes(list)) \in Seq(Nat)
    BY <2>2, ListedTyped
  <2>4. << 1 >> \o Listed(Len(list), HistoryBytes(list)) \in Seq(Nat)
    BY <2>2, <2>3, Lengths, Zenon
  <2>. QED
    BY <1>2, <2>1, <2>4, SectionForms, Zenon
<1>5. /\ BeforeFlags = s1 /\ BeforeReference = BeforeFlags \o s2 /\ BeforeSlabIndex = BeforeReference \o s3
      /\ BeforeEc = BeforeSlabIndex \o s4 /\ BeforeDms = BeforeEc \o s5 /\ BeforeHistory = BeforeDms \o s6
  BY <1>2, Zenon DEF BeforeFlags, BeforeReference, BeforeSlabIndex, BeforeEc, BeforeDms,
     BeforeHistory,
     EcParsed, DmsParsed
<1>6. /\ BeforeFlags \in Seq(Nat) /\ BeforeReference \in Seq(Nat) /\ BeforeSlabIndex \in Seq(Nat)
      /\ BeforeEc \in Seq(Nat) /\ BeforeDms \in Seq(Nat) /\ BeforeHistory \in Seq(Nat)
  BY <1>1, BeforesTyped
<1>7. W = BeforeHistory \o s7
  <2>1. ReadBytes = BeforeHistory \o HistorySoFar
    BY <1>1 DEF ReadSoFar, HistoryRead
  <2>2. Len(history) + left = Len(history)
    BY <1>1 DEF TypeOK
  <2>. QED
    BY <1>2, <2>1, <2>2, WholeLists, Zenon DEF HistorySoFar, EncodeHistory
<1>8. W \in Seq(Nat)
  BY <1>4, <1>6, <1>7, Lengths, Zenon
<1>9. Lies(W, 0, W)
  BY <1>8 DEF Lies
<1>10. Succeeds(W, BeforeHistory, s7)
  BY <1>4, <1>6, <1>7, <1>8, <1>9, LiesFirst
<1>11. Succeeds(W, BeforeDms, s6)
  BY <1>3, <1>5, <1>6, <1>8, <1>10, LiesFirst DEF Succeeds, Starts
<1>12. Succeeds(W, BeforeEc, s5)
  BY <1>3, <1>5, <1>6, <1>8, <1>11, LiesFirst DEF Succeeds, Starts
<1>13. Succeeds(W, BeforeSlabIndex, s4)
  BY <1>3, <1>5, <1>6, <1>8, <1>12, LiesFirst DEF Succeeds, Starts
<1>14. Succeeds(W, BeforeReference, s3)
  BY <1>3, <1>5, <1>6, <1>8, <1>13, LiesFirst DEF Succeeds, Starts
<1>15. Succeeds(W, BeforeFlags, s2)
  BY <1>3, <1>5, <1>6, <1>8, <1>14, LiesFirst DEF Succeeds, Starts
<1>16. Starts(W, <<>>, BeforeFlags)
  <2>1. Lies(W, 0, BeforeFlags) /\ <<>> \in Seq(Nat) /\ Len(<<>>) = 0
    BY <1>15 DEF Succeeds
  <2>. QED
    BY <2>1, Zenon DEF Starts
<1>17. /\ PieceIs(<<>>, BeforeFlags) /\ PieceIs(BeforeFlags, s2) /\ PieceIs(BeforeReference, s3)
       /\ PieceIs(BeforeSlabIndex, s4) /\ PieceIs(BeforeEc, s5) /\ PieceIs(BeforeDms, s6)
       /\ PieceIs(BeforeHistory, s7)
  BY <1>2, <1>3, <1>4, <1>6, <1>10, <1>11, <1>12, <1>13, <1>14, <1>15, <1>16, PieceRead,
     Zenon DEF Succeeds
<1>. QED
  BY <1>2, <1>7, <1>17, Zenon DEF Pieces

LEMMA SectionsAreEncoded ==
    ASSUME CodecInv, EndsSoFar, status = "verified"
    PROVE  /\ SectionBytes("header") = EncodeHeader(header)
           /\ SectionBytes("feature_flags") = EncodeFeatureFlags(flags)
           /\ SectionBytes("metadata_reference") = EncodeMetadataReference(metadata_reference)
           /\ SectionBytes("slab_index") = EncodeSlabIndex(slab_index)
           /\ SectionBytes("ec_params") = EcParsed
           /\ SectionBytes("dms_policy") = DmsParsed
           /\ SectionBytes("history") = EncodeHistory(history)
<1>1. Pieces /\ section = "history" /\ ends["history"] = position
  BY PiecesRead DEF CodecInv, Ended
<1>2. /\ ends["header"] = Len(BeforeFlags) /\ ends["feature_flags"] = Len(BeforeReference)
      /\ ends["metadata_reference"] = Len(BeforeSlabIndex) /\ ends["slab_index"] = Len(BeforeEc)
      /\ ends["ec_params"] = Len(BeforeDms) /\ ends["dms_policy"] = Len(BeforeHistory)
  BY <1>1 DEF EndsSoFar
<1>3. ends["history"] = Len(BeforeHistory \o EncodeHistory(history))
  BY <1>1, ReadLength DEF Pieces
<1>4. /\ SectionBytes("header") = SubSeq(buf, 0 + 1, ends["header"])
      /\ SectionBytes("feature_flags") = SubSeq(buf, ends["header"] + 1, ends["feature_flags"])
      /\ SectionBytes("metadata_reference")
           = SubSeq(buf, ends["feature_flags"] + 1, ends["metadata_reference"])
      /\ SectionBytes("slab_index") = SubSeq(buf, ends["metadata_reference"] + 1, ends["slab_index"])
      /\ SectionBytes("ec_params") = SubSeq(buf, ends["slab_index"] + 1, ends["ec_params"])
      /\ SectionBytes("dms_policy") = SubSeq(buf, ends["ec_params"] + 1, ends["dms_policy"])
      /\ SectionBytes("history") = SubSeq(buf, ends["dms_policy"] + 1, ends["history"])
  <2>1. /\ SectionOrder[1] = "header" /\ SectionOrder[2] = "feature_flags"
        /\ SectionOrder[3] = "metadata_reference" /\ SectionOrder[4] = "slab_index"
        /\ SectionOrder[5] = "ec_params" /\ SectionOrder[6] = "dms_policy" /\ SectionOrder[7] = "history"
    BY DEF SectionOrder
  <2>2. \A i \in 1..7 : SectionBytes(SectionOrder[i]) = SubSeq(buf, EndAt(i - 1) + 1, EndAt(i))
    BY SectionStarts
  <2>3. /\ EndAt(0) = 0 /\ EndAt(1) = ends["header"] /\ EndAt(2) = ends["feature_flags"]
        /\ EndAt(3) = ends["metadata_reference"] /\ EndAt(4) = ends["slab_index"]
        /\ EndAt(5) = ends["ec_params"] /\ EndAt(6) = ends["dms_policy"] /\ EndAt(7) = ends["history"]
    BY <2>1 DEF EndAt
  <2>4. \A i \in 1..7 : SubSeq(buf, EndAt(i - 1) + 1, EndAt(i)) = SectionBytes(SectionOrder[i])
    BY <2>2
  <2>5. /\ SectionBytes(SectionOrder[1]) = SubSeq(buf, EndAt(0) + 1, EndAt(1))
        /\ SectionBytes(SectionOrder[2]) = SubSeq(buf, EndAt(1) + 1, EndAt(2))
        /\ SectionBytes(SectionOrder[3]) = SubSeq(buf, EndAt(2) + 1, EndAt(3))
        /\ SectionBytes(SectionOrder[4]) = SubSeq(buf, EndAt(3) + 1, EndAt(4))
        /\ SectionBytes(SectionOrder[5]) = SubSeq(buf, EndAt(4) + 1, EndAt(5))
        /\ SectionBytes(SectionOrder[6]) = SubSeq(buf, EndAt(5) + 1, EndAt(6))
        /\ SectionBytes(SectionOrder[7]) = SubSeq(buf, EndAt(6) + 1, EndAt(7))
    <3>1. 1 - 1 = 0 /\ 2 - 1 = 1 /\ 3 - 1 = 2 /\ 4 - 1 = 3 /\ 5 - 1 = 4 /\ 6 - 1 = 5 /\ 7 - 1 = 6
      OBVIOUS
    <3>. QED
      BY <2>2, <3>1
  <2>. QED
    BY <2>1, <2>3, <2>5, Zenon
<1>5. /\ BeforeFlags = EncodeHeader(header) /\ BeforeReference = BeforeFlags \o EncodeFeatureFlags(flags)
      /\ BeforeSlabIndex = BeforeReference \o EncodeMetadataReference(metadata_reference)
      /\ BeforeEc = BeforeSlabIndex \o EncodeSlabIndex(slab_index)
      /\ BeforeDms = BeforeEc \o EcParsed /\ BeforeHistory = BeforeDms \o DmsParsed
  BY Zenon DEF BeforeFlags, BeforeReference, BeforeSlabIndex, BeforeEc, BeforeDms, BeforeHistory,
     EcParsed,
     DmsParsed
<1>6. <<>> \o BeforeFlags = BeforeFlags /\ Len(<<>>) = 0
  <2>1. BeforeFlags \in Seq(Nat)
    BY CodecFile, BeforesTyped
  <2>. QED
    BY <2>1
<1>. QED
  BY <1>1, <1>2, <1>3, <1>4, <1>5, <1>6, Zenon DEF Pieces, PieceIs

\* The root verify reports is that of what it has parsed.
RootIsOfParsed == status = "verified" => MerkleRoot = RootOf(Parsed)

LEMMA InvParsedRoot == CodecInv /\ EndsSoFar => RootIsOfParsed
<1> SUFFICES ASSUME CodecInv, EndsSoFar, status = "verified"
             PROVE  MerkleRoot = RootOf(Parsed)
  BY DEF RootIsOfParsed
<1>1. Declares(Parsed, EC_FLAG) = HasFlag(EC_FLAG) /\ Declares(Parsed, DMS_FLAG) = HasFlag(DMS_FLAG)
  BY DEF Declares, HasFlag, Parsed
<1>2. EncodedSections(Parsed) =
        [header |-> SectionBytes("header"), feature_flags |-> SectionBytes("feature_flags"),
         metadata_reference |-> SectionBytes("metadata_reference"),
         slab_index |-> SectionBytes("slab_index"), ec_params |-> SectionBytes("ec_params"),
         dms_policy |-> SectionBytes("dms_policy"), history |-> SectionBytes("history")]
  BY <1>1, SectionsAreEncoded, Zenon DEF EncodedSections, Parsed, EcParsed, DmsParsed
<1>3. /\ ~HasFlag(EC_FLAG) => hash_section(SectionBytes("ec_params")) = hash_empty_section
      /\ ~HasFlag(DMS_FLAG) => hash_section(SectionBytes("dms_policy")) = hash_empty_section
  BY SectionsAreEncoded, Zenon DEF EcParsed, DmsParsed, hash_empty_section
<1>4. Parsed.metadata_reference = metadata_reference
  BY DEF Parsed
<1>. QED
  BY <1>2, <1>3, <1>4 DEF MerkleRoot, RootOf

\* The root verify prints is computed from the bytes it sliced out section by section; it is
\* the root compute_root has for the sections as they were parsed, also where a section is
\* absent and its leaf is hash_empty_section.
THEOREM RootIsThatOfTheParsed == Spec => []RootIsOfParsed
BY InvParsedRoot, EndsInvariance, PTL

-----------------------------------------------------------------------------
\* What it all says of the manifests that are sent.

\* A file that verifies is read as the manifest it agrees with, to the last of its bytes.
LEMMA VerifiedIs ==
    ASSUME CodecInv, FollowsAll, status = "verified", NEW m, NEW full, WrittenAs(m, full),
           Agrees(Written(m, full))
    PROVE  Parsed = m /\ position = Len(Written(m, full))
<1>1. section = "history" /\ step = "entries" /\ left = 0 /\ NotBegun /\ TypeOK
  BY CodecFile DEF CodecInv, Ended
<1>2. DmsIs(m, full) /\ Part(history, 0, m.history)
  BY <1>1 DEF FollowsAll, ParsedFollows, HistoryFollows
<1>3. m \in WrittenManifests
  BY DEF WrittenAs
<1>4. history = m.history
  <2>1. PICK whole \in Seq(WrittenEntry) : whole = m.history
    BY <1>3, ManifestFields
  <2>2. Len(history) \in Nat
    BY <1>1 DEF TypeOK
  <2>. QED
    BY <1>2, <2>1, <2>2, PartEnds
<1>5. /\ header = m.header /\ flags = m.feature_flags /\ metadata_reference = m.metadata_reference
      /\ slab_index = m.slab_index
  BY <1>2 DEF DmsIs, EcIs, SlabsAre, ReferenceIs, FlagsAre, HeaderIs
<1>6. (HasFlag(EC_FLAG) <=> Declares(m, EC_FLAG)) /\ (HasFlag(DMS_FLAG) <=> Declares(m, DMS_FLAG))
  BY <1>5, SameFlags
<1>7. ec_params = m.ec_params /\ dms_policy = m.dms_policy
  BY <1>1, <1>2, <1>6 DEF NotBegun, DmsIs, EcIs, WrittenAs
<1>8. Parsed = m
  BY <1>3, <1>4, <1>5, <1>7, ManifestFields, Zenon DEF Parsed
<1>9. ReadBytes = Written(m, full)
  <2>1. ReadBytes = BeforeHistory \o EncodeHistory(history)
    BY PiecesRead DEF Pieces
  <2>2. BeforeHistory = ThroughDms(m, full)
    BY <1>2, BeforeHistoryIs
  <2>. QED
    BY <1>4, <2>1, <2>2, Zenon DEF Written
<1>10. position = Len(Written(m, full))
  BY <1>9, ReadLength
<1>. QED
  BY <1>8, <1>10

\* What is sent was written, with the root its manifest has if it is valid.
SentAs(s, m, full) ==
    /\ WrittenAs(m, full) /\ s.manifest = m /\ s.valid = Valid(m) /\ s.bytes = Written(m, full)
    /\ Valid(m) => s.root = RootOf(m)

LEMMA BuiltIsWritten ==
    ASSUME NEW spec, WrittenSpec(spec)
    PROVE  /\ WrittenAs(ManifestOf(spec), FALSE)
           /\ Build(spec).bytes = Written(ManifestOf(spec), FALSE)
           /\ Valid(ManifestOf(spec)) => Build(spec).merkle_root = RootOf(ManifestOf(spec))
<1>1. PICK m : m = ManifestOf(spec)
  OBVIOUS
<1>2. /\ m.header = spec.header /\ m.feature_flags = spec.feature_flags
      /\ m.metadata_reference = ReferenceOf(spec.metadata_reference)
      /\ m.slab_index = spec.slab_index /\ m.history = spec.history
      /\ m.ec_params = NoEcParams /\ m.dms_policy = NoDmsPolicy
  BY <1>1 DEF ManifestOf
<1>3. m \in WrittenManifests /\ \A i \in DOMAIN spec.history : spec.history[i].op \in HistoryOps
  BY <1>1 DEF WrittenSpec
<1>4. WrittenAs(m, FALSE)
  BY <1>2, <1>3 DEF WrittenAs, WrittenSpec
<1>5. Build(spec).bytes = Written(m, FALSE)
  <2>1. PICK w, h : w = ThroughSlabs(m) /\ h = EncodeHistory(m.history)
    OBVIOUS
  <2>2. w \in Seq(Nat)
    BY <1>3, <2>1, SectionsOfWritten DEF SectionsLie, Starts
  <2>3. w \o <<>> = w
    BY <2>2
  <2>4. Written(m, FALSE) = ((w \o <<>>) \o <<>>) \o h
    BY <2>1 DEF Written, ThroughDms, ThroughEc, EcBytes, DmsBytes
  <2>5. Written(m, FALSE) = w \o h
    BY <2>3, <2>4, Zenon
  <2>6. Build(spec).bytes = w \o h
    BY <1>2, <2>1 DEF Build, ThroughSlabs, ThroughReference, ThroughFlags, ThroughHeader
  <2>. QED
    BY <2>5, <2>6
<1>6. ASSUME Valid(m)
      PROVE  Build(spec).merkle_root = RootOf(m)
  <2>1. ~Declares(m, EC_FLAG)
    BY <1>2, <1>6 DEF Valid, ValidEcParams, ValidShards, NoEcParams
  <2>2. ~Declares(m, DMS_FLAG)
    BY <1>2, <1>6 DEF Valid, ValidDmsPolicy, NoDmsPolicy
  <2>3. EncodedSections(m) =
          [header |-> EncodeHeader(spec.header), feature_flags |-> EncodeFeatureFlags(spec.feature_flags),
           metadata_reference |-> EncodeMetadataReference(ReferenceOf(spec.metadata_reference)),
           slab_index |-> EncodeSlabIndex(spec.slab_index), ec_params |-> <<>>, dms_policy |-> <<>>,
           history |-> EncodeHistory(spec.history)]
    BY <1>2, <2>1, <2>2, Zenon DEF EncodedSections
  <2>. QED
    BY <1>2, <2>3 DEF Build, RootOf, hash_empty_section
<1>. QED
  BY <1>1, <1>4, <1>5, <1>6

LEMMA FullIsWritten ==
    ASSUME NEW m \in FullManifests
    PROVE  WrittenAs(m, TRUE) /\ EncodeManifest(m) = Written(m, TRUE)
<1>1. WrittenAs(m, TRUE)
  BY WrittenAssumption DEF WrittenAs
<1>2. EncodeManifest(m) = Written(m, TRUE)
  BY Zenon DEF EncodeManifest, EncodedSections, Written, ThroughDms, ThroughEc, ThroughSlabs,
     ThroughReference, ThroughFlags, ThroughHeader, EcBytes, DmsBytes
<1>. QED
  BY <1>1, <1>2

LEMMA SentIsWritten ==
    ASSUME NEW s \in Sent
    PROVE  \E m, full : SentAs(s, m, full)
<1>1. CASE \E spec \in Specs : s = [manifest |-> ManifestOf(spec), valid |-> Valid(ManifestOf(spec)),
                                    bytes |-> Build(spec).bytes, root |-> Build(spec).merkle_root]
  <2>1. PICK spec \in Specs : s = [manifest |-> ManifestOf(spec), valid |-> Valid(ManifestOf(spec)),
                                   bytes |-> Build(spec).bytes, root |-> Build(spec).merkle_root]
    BY <1>1
  <2>2. /\ s.manifest = ManifestOf(spec) /\ s.valid = Valid(ManifestOf(spec))
        /\ s.bytes = Build(spec).bytes /\ s.root = Build(spec).merkle_root
    BY <2>1
  <2>3. SentAs(s, ManifestOf(spec), FALSE)
    BY <2>2, WrittenAssumption, BuiltIsWritten DEF SentAs
  <2>. QED
    BY <2>3
<1>2. CASE \E m \in FullManifests : s = [manifest |-> m, valid |-> Valid(m),
                                         bytes |-> EncodeManifest(m), root |-> RootOf(m)]
  <2>1. PICK m \in FullManifests : s = [manifest |-> m, valid |-> Valid(m),
                                        bytes |-> EncodeManifest(m), root |-> RootOf(m)]
    BY <1>2
  <2>2. /\ s.manifest = m /\ s.valid = Valid(m) /\ s.bytes = EncodeManifest(m) /\ s.root = RootOf(m)
    BY <2>1
  <2>3. SentAs(s, m, TRUE)
    BY <2>2, FullIsWritten DEF SentAs
  <2>. QED
    BY <2>3
<1>. QED
  BY <1>1, <1>2 DEF Sent

LEMMA WrittenTyped ==
    ASSUME CodecInv, NEW m, NEW full, WrittenAs(m, full)
    PROVE  Written(m, full) \in Seq(Nat) /\ buf \in Seq(Nat) /\ Len(buf) \in Nat /\ Len(Written(m, full)) \in Nat
<1>1. Written(m, full) \in Seq(Nat)
  BY SectionsOfWritten DEF WrittenAs, SectionsLie
<1>2. buf \in Seq(Nat)
  BY CodecFile, BytesAreNumbers DEF TypeOK
<1>. QED
  BY <1>1, <1>2

LEMMA InvSentVerifies == CodecInv /\ FollowsAll /\ EndsSoFar => SentManifestVerifies
<1> SUFFICES ASSUME CodecInv, FollowsAll, EndsSoFar, status # "parsing",
                    NEW s \in Sent, s.valid, IsPrefix(s.bytes, buf)
             PROVE  /\ status = "verified"
                    /\ Parsed = s.manifest
                    /\ MerkleRoot = s.root
                    /\ extra_bytes_after_history = Len(buf) - Len(s.bytes)
  BY DEF SentManifestVerifies
<1>1. PICK m, full : SentAs(s, m, full)
  BY SentIsWritten
<1>2. WrittenAs(m, full) /\ Valid(m) /\ IsPrefix(Written(m, full), buf)
  BY <1>1 DEF SentAs
<1>3. Agrees(Written(m, full)) /\ Len(Written(m, full)) <= Len(buf)
  BY <1>2, WrittenTyped, PrefixAgrees
<1>4. RefusedShort(m, full)
  BY <1>2, <1>3 DEF FollowsAll
<1>5. status = "verified"
  <2>1. status \in {"parsing", "verified"} \cup ErrorKinds
    BY CodecFile DEF TypeOK
  <2>2. status \notin ErrorKinds
    BY <1>2, <1>3, <1>4, WrittenTyped DEF RefusedShort
  <2>. QED
    BY <2>1, <2>2
<1>6. Parsed = m /\ position = Len(Written(m, full))
  BY <1>2, <1>3, <1>5, VerifiedIs
<1>7. MerkleRoot = RootOf(m)
  BY <1>5, <1>6, InvParsedRoot DEF RootIsOfParsed
<1>. QED
  BY <1>1, <1>2, <1>5, <1>6, <1>7 DEF SentAs, extra_bytes_after_history, remaining_len

LEMMA InvPrefixTruncated == CodecInv /\ FollowsAll => PrefixIsTruncated
<1> SUFFICES ASSUME CodecInv, FollowsAll, status \notin {"parsing", "Truncated"},
                    NEW s \in Sent, s.valid, IsStrictPrefix(buf, s.bytes)
             PROVE  FALSE
  BY DEF PrefixIsTruncated
<1>1. PICK m, full : SentAs(s, m, full)
  BY SentIsWritten
<1>2. WrittenAs(m, full) /\ Valid(m) /\ IsStrictPrefix(buf, Written(m, full))
  BY <1>1 DEF SentAs
<1>3. Agrees(Written(m, full)) /\ Len(buf) < Len(Written(m, full))
  BY <1>2, WrittenTyped, PrefixAgrees DEF IsStrictPrefix
<1>4. RefusedShort(m, full)
  BY <1>2, <1>3 DEF FollowsAll
<1>5. status = "verified"
  <2>1. status \in {"parsing", "verified"} \cup ErrorKinds
    BY CodecFile DEF TypeOK
  <2>. QED
    BY <1>2, <1>4, <2>1 DEF RefusedShort
<1>6. position = Len(Written(m, full)) /\ position <= Len(buf)
  <2>1. position \in 0..Len(buf)
    BY CodecFile DEF TypeOK
  <2>. QED
    BY <1>2, <1>3, <1>5, <2>1, VerifiedIs, WrittenTyped
<1>. QED
  BY <1>2, <1>3, <1>6, WrittenTyped

LEMMA InvInvalidRefused == CodecInv /\ ValidSoFar /\ FollowsAll => InvalidManifestRefused
<1> SUFFICES ASSUME CodecInv, ValidSoFar, FollowsAll, status = "verified", NEW s \in Sent, buf = s.bytes
             PROVE  s.valid
  BY DEF InvalidManifestRefused
<1>1. PICK m, full : SentAs(s, m, full)
  BY SentIsWritten
<1>2. WrittenAs(m, full) /\ buf = Written(m, full)
  BY <1>1 DEF SentAs
<1>3. Agrees(Written(m, full))
  BY <1>2 DEF Agrees
<1>4. Parsed = m
  BY <1>2, <1>3, VerifiedIs
<1>5. Valid(Parsed)
  BY InvValid DEF OnlyValidManifestsParsed
<1>. QED
  BY <1>1, <1>4, <1>5 DEF SentAs

\* The bytes of a valid manifest, encoded whole by to_bytes, verify: _verify_bytes parses the
\* manifest that was written, field for field, and computes the root of its writer.
THEOREM SentIsReadBack == Spec => []SentManifestVerifies
BY InvSentVerifies, FollowsInvariance, EndsInvariance, PTL

\* A proper prefix of the bytes of a valid manifest is refused, wherever it is cut, and the
\* error is "Truncated": no shorter text is taken for another error, or for a manifest.
THEOREM CutShortIsTruncated == Spec => []PrefixIsTruncated
BY InvPrefixTruncated, FollowsInvariance, PTL

\* The bytes of a manifest that breaks a rule of a section, or one between sections, do not
\* verify, though to_bytes encodes it without complaint.
THEOREM InvalidIsRefused == Spec => []InvalidManifestRefused
BY InvInvalidRefused, ValidInvariance, FollowsInvariance, PTL
=============================================================================
