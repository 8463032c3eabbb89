--------------------------- MODULE MetadataProofs ---------------------------
(***************************************************************************)
(* Proofs about parse_metadata_blob, for every buffer: what it returns     *)
(* keeps every rule of the format, its nodes, encoded again, are the bytes *)
(* they were read from, and a blob that was written reads back as it was   *)
(* written, is "Truncated" wherever it is cut, and is refused if it breaks *)
(* a rule.                                                                 *)
(***************************************************************************)
EXTENDS MetadataImage, BytesProofs

XattrType == [namespace : U8Values, key : Seq(U8Values), value : Seq(U8Values)]
SliceType ==
    [file_byte_start : Seq(U8Values), file_byte_end : Seq(U8Values), drop_id : Seq(U8Values),
     drop_byte_start : Seq(U8Values), drop_byte_len : Seq(U8Values)]
ContentType ==
    [kind : {"none", "INLINE_DATA", "DIRECTORY", "SYMLINK", "DEVICE", "PIPE"}, value : Seq(U8Values)]
        \cup [kind : {"SLICE_MAP"}, value : Seq(SliceType)]
InodeType ==
    [number : Seq(U8Values), mode : Seq(U8Values), uid : Seq(U8Values), gid : Seq(U8Values),
     mtime_ns : Seq(U8Values), ctime_ns : Seq(U8Values), nlink : Seq(U8Values),
     atime_ns : Seq(U8Values), xattrs : Seq(XattrType), content_handle : ContentType]
EntryType == [name : Seq(U8Values), inode_number : Seq(U8Values), entry_type : EntryTypes]

Entries(node) == [i \in DOMAIN node |-> EncodeEntry(node[i])]
Nodes(list) == [i \in DOMAIN list |-> EncodeNode(list[i])]

-----------------------------------------------------------------------------
\* The inductive invariant.

TypesOK ==
    /\ buf \in Seq(U8Values) /\ Len(buf) < TOO_LARGE
    /\ position \in 0..Len(buf)
    /\ status \in {"parsing", "parsed"} \cup ErrorKinds
    /\ step \in {"inode_count", "inodes", "xattrs", "slices", "dir_nodes", "entries"}
    /\ left \in 0..TOO_LARGE /\ inodes_left \in 0..TOO_LARGE /\ nodes_left \in 0..TOO_LARGE
    /\ inode_flags \in 0..7
    /\ inodes \in Seq(InodeType)
    /\ dir_nodes \in Seq(Seq(EntryType))
    /\ entries \in Seq(EntryType)

\* The inode that is being read.
XattrsRead == \A j \in DOMAIN inode.xattrs : ValidXattr(inode.xattrs[j])

InodeBegun ==
    step \in {"xattrs", "slices"} =>
        /\ inodes_left > 0
        /\ inode \in InodeType
        /\ XattrsRead

SlicesRead ==
    step = "slices" =>
        /\ FileType = S_IFREG
        /\ inode.content_handle.kind = "SLICE_MAP"
        /\ ValidContent(inode.content_handle)

InodesRead == \A i \in DOMAIN inodes : ValidInode(inodes[i])

\* The node that is being read.
NodeBegun ==
    step = "entries" =>
        /\ nodes_left > 0
        /\ Len(entries) <= position
        /\ ValidNode(entries)

NodesRead == \A i \in DOMAIN dir_nodes : ValidNode(dir_nodes[i])

NodesNotYet ==
    step \notin {"dir_nodes", "entries"} => dir_nodes = <<>> /\ entries = <<>> /\ status # "parsed"

\* The bytes of the nodes end where the cursor is.
NodesHere ==
    step = "dir_nodes" =>
        \E head \in Seq(Nat) : SubSeq(buf, 1, position) = head \o FlattenSeq(Nodes(dir_nodes))

\* So do those of the nodes and of the entries that the next node has so far.  A
\* count that was read as TOO_LARGE is not known, and the loop does not end.
EntriesHere ==
    step = "entries" =>
        \E head \in Seq(Nat), count \in Seq(Nat) :
            /\ Len(entries) + left < TOO_LARGE => count = Pack32(Len(entries) + left)
            /\ SubSeq(buf, 1, position)
                 = (head \o FlattenSeq(Nodes(dir_nodes)))
                      \o ((<<1>> \o count) \o FlattenSeq(Entries(entries)))

BytesHere == NodesHere /\ EntriesHere

AtEnd == status = "parsed" => step = "dir_nodes"

IInv ==
    /\ TypesOK /\ InodeBegun /\ SlicesRead /\ InodesRead
    /\ NodeBegun /\ NodesRead /\ NodesNotYet /\ BytesHere /\ AtEnd

-----------------------------------------------------------------------------
\* The order of names and of integers.

\* i is the place at which name a is before name b.
FirstAt(a, b, i) ==
    /\ \A j \in 1..(i - 1) : j <= Len(a) /\ a[j] = b[j]
    /\ i = Len(a) + 1 \/ (i <= Len(a) /\ a[i] < b[i])

LEMMA NameBeforeAt ==
    ASSUME NEW a \in Seq(Nat), NEW b \in Seq(Nat)
    PROVE  NameBefore(a, b) <=> \E i \in 1..Len(b) : FirstAt(a, b, i)
<1>0. Len(a) \in Nat /\ Len(b) \in Nat /\ DOMAIN a = 1..Len(a) /\ DOMAIN b = 1..Len(b)
  OBVIOUS
<1>1. ASSUME IsStrictPrefix(a, b)
      PROVE  Len(a) + 1 \in 1..Len(b) /\ FirstAt(a, b, Len(a) + 1)
  <2>1. Len(a) <= Len(b) /\ SubSeq(a, 1, Len(a)) = SubSeq(b, 1, Len(a)) /\ a # b
    BY <1>1 DEF IsStrictPrefix, IsPrefix
  <2>2. \A j \in 1..Len(a) : a[j] = b[j]
    <3> TAKE j \in 1..Len(a)
    <3>1. SubSeq(a, 1, Len(a))[j] = a[j] /\ SubSeq(b, 1, Len(a))[j] = b[j]
      BY <1>0, <2>1
    <3>. QED
      BY <2>1, <3>1
  <2>3. Len(a) # Len(b)
    BY <1>0, <2>1, <2>2, SeqEqual
  <2>4. PICK i \in Nat : i = Len(a) + 1
    BY <1>0
  <2>5. i \in 1..Len(b)
    <3>1. Len(a) <= Len(b) /\ Len(a) # Len(b)
      BY <2>1, <2>3, Zenon
    <3>2. Len(a) < Len(b)
      <4>1. \A m, n \in Nat : m <= n /\ m # n => m < n
        OBVIOUS
      <4>. QED
        BY <1>0, <3>1, <4>1, Zenon
    <3>. QED
      BY <1>0, <3>2, <2>4
  <2>6. \A j \in 1..(i - 1) : j <= Len(a) /\ a[j] = b[j]
    BY <1>0, <2>2, <2>4
  <2>. QED
    BY <2>4, <2>5, <2>6 DEF FirstAt
<1>2. ASSUME NEW i \in DOMAIN a \cap DOMAIN b, a[i] < b[i], SubSeq(a, 1, i - 1) = SubSeq(b, 1, i - 1)
      PROVE  i \in 1..Len(b) /\ FirstAt(a, b, i)
  <2>1. i \in 1..Len(a) /\ i \in 1..Len(b)
    BY <1>0
  <2>2. \A j \in 1..(i - 1) : j <= Len(a) /\ a[j] = b[j]
    <3> TAKE j \in 1..(i - 1)
    <3>1. SubSeq(a, 1, i - 1)[j] = a[j] /\ SubSeq(b, 1, i - 1)[j] = b[j]
      BY <1>0, <2>1
    <3>. QED
      BY <1>0, <1>2, <2>1, <3>1
  <2>. QED
    BY <1>2, <2>1, <2>2 DEF FirstAt
<1>3. ASSUME NEW i \in 1..Len(b), FirstAt(a, b, i)
      PROVE  NameBefore(a, b)
  <2>1. CASE i = Len(a) + 1
    <3>1. Len(a) < Len(b) /\ \A j \in 1..Len(a) : a[j] = b[j]
      BY <1>0, <1>3, <2>1 DEF FirstAt
    <3>2. SubSeq(a, 1, Len(a)) = SubSeq(b, 1, Len(a))
      <4>1. /\ Len(SubSeq(a, 1, Len(a))) = Len(a) /\ Len(SubSeq(b, 1, Len(a))) = Len(a)
            /\ SubSeq(a, 1, Len(a)) \in Seq(Nat) /\ SubSeq(b, 1, Len(a)) \in Seq(Nat)
        BY <1>0, <3>1
      <4>2. \A j \in 1..Len(a) : SubSeq(a, 1, Len(a))[j] = SubSeq(b, 1, Len(a))[j]
        BY <1>0, <3>1
      <4>. QED
        BY <4>1, <4>2, SeqEqual
    <3>. QED
      BY <1>0, <3>1, <3>2 DEF NameBefore, IsStrictPrefix, IsPrefix
  <2>2. CASE i <= Len(a) /\ a[i] < b[i]
    <3>1. \A j \in 1..(i - 1) : a[j] = b[j]
      BY <1>3 DEF FirstAt
    <3>2. SubSeq(a, 1, i - 1) = SubSeq(b, 1, i - 1)
      <4>1. /\ Len(SubSeq(a, 1, i - 1)) = i - 1 /\ Len(SubSeq(b, 1, i - 1)) = i - 1
            /\ SubSeq(a, 1, i - 1) \in Seq(Nat) /\ SubSeq(b, 1, i - 1) \in Seq(Nat)
        BY <1>0, <2>2
      <4>2. \A j \in 1..(i - 1) : SubSeq(a, 1, i - 1)[j] = SubSeq(b, 1, i - 1)[j]
        BY <1>0, <2>2, <3>1
      <4>. QED
        BY <4>1, <4>2, SeqEqual
    <3>3. i \in DOMAIN a \cap DOMAIN b
      BY <1>0, <2>2
    <3>. QED
      BY <2>2, <3>2, <3>3 DEF NameBefore
  <2>. QED
    BY <1>3, <2>1, <2>2 DEF FirstAt
<1>. QED
  BY <1>1, <1>2, <1>3 DEF NameBefore

\* The order of names is transitive: comparing neighbours is comparing all.
LEMMA NameBeforeTransitive ==
    ASSUME NEW a \in Seq(Nat), NEW b \in Seq(Nat), NEW c \in Seq(Nat),
           NameBefore(a, b), NameBefore(b, c)
    PROVE  NameBefore(a, c)
<1>0. /\ Len(a) \in Nat /\ Len(b) \in Nat /\ Len(c) \in Nat
      /\ \A j \in 1..Len(a) : a[j] \in Nat
      /\ \A j \in 1..Len(b) : b[j] \in Nat
      /\ \A j \in 1..Len(c) : c[j] \in Nat
  <2>1. \A s \in Seq(Nat) : Len(s) \in Nat /\ \A j \in 1..Len(s) : s[j] \in Nat
    OBVIOUS
  <2>. QED
    BY <2>1, Zenon
<1>1. PICK i \in 1..Len(b) : FirstAt(a, b, i)
  BY NameBeforeAt, Zenon
<1>2. PICK k \in 1..Len(c) : FirstAt(b, c, k)
  BY NameBeforeAt, Zenon
<1>4. \A j \in 1..(i - 1) : j <= Len(a) /\ a[j] = b[j]
  BY <1>1 DEF FirstAt
<1>5. \A j \in 1..(k - 1) : j <= Len(b) /\ b[j] = c[j]
  BY <1>2 DEF FirstAt
<1>3. \E m \in 1..Len(c) : FirstAt(a, c, m)
  <2>1. CASE i < k
    <3>1. i \in 1..Len(c) /\ i \in 1..(k - 1) /\ b[i] = c[i]
      BY <1>0, <1>2, <2>1 DEF FirstAt
    <3>2. \A j \in 1..(i - 1) : j \in 1..(k - 1)
      BY <2>1
    <3>3. \A j \in 1..(i - 1) : j <= Len(a) /\ a[j] = c[j]
      BY <1>4, <1>5, <3>2
    <3>. QED
      BY <1>1, <3>1, <3>3 DEF FirstAt
  <2>2. CASE i = k
    <3>1. b[i] < c[i]
      BY <1>0, <1>2, <2>2 DEF FirstAt
    <3>2. \A j \in 1..(i - 1) : j <= Len(a) /\ a[j] = c[j]
      BY <1>4, <1>5, <2>2
    <3>3. i <= Len(a) /\ a[i] < b[i] => a[i] < c[i]
      BY <1>0, <2>2, <3>1
    <3>. QED
      BY <1>1, <2>2, <3>2, <3>3 DEF FirstAt
  <2>3. CASE i > k
    <3>1. k \in 1..(i - 1) /\ k <= Len(a) /\ a[k] = b[k] /\ k <= Len(b)
      BY <1>0, <1>1, <2>3 DEF FirstAt
    <3>2. b[k] < c[k]
      BY <1>0, <1>2, <3>1 DEF FirstAt
    <3>3. \A j \in 1..(k - 1) : j \in 1..(i - 1)
      BY <2>3
    <3>4. \A j \in 1..(k - 1) : j <= Len(a) /\ a[j] = c[j]
      BY <1>4, <1>5, <3>3
    <3>. QED
      BY <3>1, <3>2, <3>4 DEF FirstAt
  <2>. QED
    BY <1>0, <2>1, <2>2, <2>3
<1>. QED
  BY <1>3, NameBeforeAt

\* The parser's comparison of two little-endian integers is that of the rule.
LEMMA BelowIsLess ==
    ASSUME NEW a \in Seq(Nat), NEW b \in Seq(Nat), Len(a) = Len(b), Below(a, b)
    PROVE  LessThan(a, b)
<1> DEFINE places == {i \in DOMAIN a : a[i] # b[i]}
<1>1. /\ Len(a) \in Nat /\ DOMAIN a = 1..Len(a) /\ DOMAIN b = 1..Len(a)
      /\ \A j \in 1..Len(a) : a[j] \in Nat /\ b[j] \in Nat
  OBVIOUS
<1>0. DOMAIN a \cap DOMAIN b = 1..Len(a)
  BY <1>1
<1>2. PICK i \in 1..Len(a) : a[i] < b[i] /\ \A j \in 1..Len(a) : j > i => a[j] = b[j]
  BY <1>0, Zenon DEF Below
<1>3. i \in places /\ \A p \in places : i >= p
  BY <1>1, <1>2
<1>4. places \subseteq Nat
  BY <1>1
<1> HIDE DEF places
<1>5. Max(places) \in places /\ Max(places) >= i
  BY <1>3, Zenon DEF Max
<1>6. Max(places) = i
  <2>1. PICK m \in Nat : m = Max(places)
    BY <1>4, <1>5
  <2>2. i >= m /\ m >= i /\ i \in Nat
    BY <1>3, <1>4, <1>5, <2>1
  <2>. QED
    BY <2>1, <2>2
<1>. QED
  BY <1>2, <1>3, <1>6 DEF LessThan, places

-----------------------------------------------------------------------------
\* The lists of checks.

LEMMA Rows ==
    /\ << Read(4) >> \in Seq(Outcomes)
    /\ InodeHeadChecks \in Seq(Outcomes) /\ XattrChecks \in Seq(Outcomes)
    /\ ContentChecks \in Seq(Outcomes) /\ SliceChecks \in Seq(Outcomes)
    /\ NodeHeadChecks \in Seq(Outcomes) /\ EntryChecks \in Seq(Outcomes)
<1>1. \A holds \in BOOLEAN, kind \in ErrorKinds : Check(holds, kind) \in Outcomes
  BY DEF Check, Outcomes
<1>2. \A n : Read(n) \in Outcomes
  BY DEF Read, Check, Outcomes, ErrorKinds
<1>3. InodeHeadChecks \in Seq(Outcomes)
  BY <1>2 DEF InodeHeadChecks, Check, Outcomes, ErrorKinds
<1>4. XattrChecks \in Seq(Outcomes)
  BY <1>2 DEF XattrChecks, Check, Outcomes, ErrorKinds
<1>5. SliceChecks \in Seq(Outcomes)
  BY <1>2 DEF SliceChecks, Check, Outcomes, ErrorKinds
<1>6. NodeHeadChecks \in Seq(Outcomes)
  BY <1>2 DEF NodeHeadChecks, Check, Outcomes, ErrorKinds
<1>7. EntryChecks \in Seq(Outcomes)
  BY <1>2 DEF EntryChecks, Check, Outcomes, ErrorKinds
<1>8. ContentChecks \in Seq(Outcomes)
  <2> DEFINE few == << Read(4) >>
             inline == << Read(4), Check(U32(0) <= DEFAULT_INLINE_DATA_MAX_BYTES, "Corrupt"), Read(4 + U32(0)) >>
             hash == << Read(32) >>
             link == << Read(4), Read(4 + U32(0)), Check(IsUtf8(Bytes(4, U32(0))), "Corrupt") >>
             device == << Read(8) >>
             none == << Check(FALSE, "Corrupt") >>
  <2>1. /\ few \in Seq(Outcomes) /\ inline \in Seq(Outcomes) /\ hash \in Seq(Outcomes)
        /\ link \in Seq(Outcomes) /\ device \in Seq(Outcomes) /\ none \in Seq(Outcomes)
    BY <1>2 DEF Check, Outcomes, ErrorKinds
  <2> HIDE DEF few, inline, hash, link, device, none
  <2>2. ContentChecks =
          CASE HasSliceMap -> few [] FileType = S_IFREG /\ ~HasSliceMap -> inline [] FileType = S_IFDIR -> hash
            [] FileType = S_IFLNK -> link [] FileType \in DeviceTypes \cup PipeTypes -> device
            [] OTHER -> none
    BY DEF ContentChecks, few, inline, hash, link, device, none
  <2>. QED
    BY <2>1, <2>2 DEF HasSliceMap, S_IFREG, S_IFDIR, S_IFLNK, DeviceTypes, PipeTypes
<1>. QED
  BY <1>2, <1>3, <1>4, <1>5, <1>6, <1>7, <1>8

LEMMA CountPassed ==
    ASSUME CursorOK, Passes(<< Read(4) >>)
    PROVE  position + 4 <= Len(buf)
<1> DEFINE C == << Read(4) >>
<1>1. DOMAIN C = 1..1 /\ C[1] = Read(4)
  OBVIOUS
<1> HIDE DEF C
<1>2. Passes(C)
  BY DEF C
<1>3. Read(4) = "ok"
  BY <1>1, <1>2 DEF Passes
<1>. QED
  BY <1>3, ReadRow

LEMMA CountRange ==
    ASSUME CursorOK, NEW o \in Nat
    PROVE  U32(o) \in 0..TOO_LARGE
<1>1. U32(o) \in Nat /\ U32(o) <= TOO_LARGE
  BY U32Range
<1>2. TOO_LARGE \in Nat
  BY DEF TOO_LARGE
<1>. QED
  BY <1>1, <1>2

LEMMA InodeHeadPassed ==
    ASSUME CursorOK, Passes(InodeHeadChecks)
    PROVE  /\ U8(40) \in 0..7
           /\ AtimeLen \in {0, 8} /\ XattrCountLen \in {0, 4}
           /\ InodeHeadLen = 41 + AtimeLen + XattrCountLen
           /\ position + InodeHeadLen <= Len(buf)
<1> DEFINE C == InodeHeadChecks
<1>1. /\ DOMAIN C = 1..3
      /\ C[2] = Check(ReservedClear(U8(40)), "Corrupt")
      /\ C[3] = Read(InodeHeadLen)
  BY DEF InodeHeadChecks
<1> HIDE DEF C
<1>2. C[2] = "ok" /\ C[3] = "ok"
  BY <1>1 DEF Passes, C
<1>3. U8(40) \in 0..7
  BY <1>1, <1>2, ByteRange DEF Check, ReservedClear, U8Values
<1>4. /\ AtimeLen \in {0, 8} /\ XattrCountLen \in {0, 4}
      /\ InodeHeadLen = 41 + AtimeLen + XattrCountLen
  BY DEF AtimeLen, XattrCountLen, InodeHeadLen, INODE_FIXED_PREFIX_LEN
<1>5. InodeHeadLen \in Int
  BY <1>4
<1>. QED
  BY <1>1, <1>2, <1>3, <1>4, <1>5, ReadRow

LEMMA XattrPassed ==
    ASSUME CursorOK, Passes(XattrChecks)
    PROVE  /\ U8(0) \in 0..3
           /\ IsUtf8(key) /\ 0 \notin Range(key)
           /\ U32(1) \in Nat /\ value_len \in Nat
           /\ XattrLen = 9 + U32(1) + value_len
           /\ position + XattrLen <= Len(buf)
<1> DEFINE C == XattrChecks
<1>1. /\ DOMAIN C = 1..7
      /\ C[2] = Check(U8(0) <= 3, "Corrupt")
      /\ C[4] = Check(IsUtf8(key), "Corrupt")
      /\ C[5] = Check(0 \notin Range(key), "Corrupt")
      /\ C[7] = Read(XattrLen)
  BY DEF XattrChecks
<1> HIDE DEF C
<1>2. C[2] = "ok" /\ C[4] = "ok" /\ C[5] = "ok" /\ C[7] = "ok"
  BY <1>1 DEF Passes, C
<1>3. U32(1) \in Nat
  BY U32Range
<1>4. value_len \in Nat
  <2>1. 5 + U32(1) \in Nat
    BY <1>3
  <2>. QED
    BY <2>1, U32Range DEF value_len
<1>5. XattrLen = 9 + U32(1) + value_len
  BY DEF XattrLen
<1>6. XattrLen \in Int
  BY <1>3, <1>4, <1>5
<1>7. U8(0) \in 0..3
  BY <1>1, <1>2, ByteRange DEF Check, U8Values
<1>. QED
  BY <1>1, <1>2, <1>3, <1>4, <1>5, <1>6, <1>7, ReadRow DEF Check

NextXattr == [namespace |-> U8(0), key |-> key, value |-> Bytes(9 + U32(1), value_len)]

LEMMA XattrRead ==
    ASSUME CursorOK, Passes(XattrChecks)
    PROVE  NextXattr \in XattrType /\ ValidXattr(NextXattr)
<1>0. position \in Nat /\ Len(buf) \in Nat
  BY DEF CursorOK
<1>1. /\ U8(0) \in 0..3 /\ IsUtf8(key) /\ 0 \notin Range(key)
      /\ U32(1) \in Nat /\ value_len \in Nat
      /\ position + 5 + U32(1) <= Len(buf)
      /\ position + (9 + U32(1)) + value_len <= Len(buf)
  BY <1>0, XattrPassed
<1>2. key \in Seq(U8Values)
  BY <1>1, BytesRead DEF key
<1>3. Bytes(9 + U32(1), value_len) \in Seq(U8Values)
  BY <1>1, BytesRead
<1>. QED
  BY <1>1, <1>2, <1>3 DEF NextXattr, XattrType, ValidXattr, U8Values

LEMMA SlicePassed ==
    ASSUME CursorOK, Passes(SliceChecks)
    PROVE  Below(Bytes(0, 8), Bytes(8, 8)) /\ position + 56 <= Len(buf)
<1> DEFINE C == SliceChecks
<1>1. /\ DOMAIN C = 1..3
      /\ C[2] = Check(Below(Bytes(0, 8), Bytes(8, 8)), "Corrupt")
      /\ C[3] = Read(56)
  BY DEF SliceChecks, SLICE_LEN
<1> HIDE DEF C
<1>2. C[2] = "ok" /\ C[3] = "ok"
  BY <1>1 DEF Passes, C
<1>. QED
  BY <1>1, <1>2, ReadRow DEF Check

NextSlice ==
    [file_byte_start |-> Bytes(0, 8), file_byte_end |-> Bytes(8, 8), drop_id |-> Bytes(16, 32),
     drop_byte_start |-> Bytes(48, 4), drop_byte_len |-> Bytes(52, 4)]

LEMMA SliceRead ==
    ASSUME CursorOK, Passes(SliceChecks)
    PROVE  NextSlice \in SliceType /\ LessThan(NextSlice.file_byte_start, NextSlice.file_byte_end)
<1>0. position \in Nat /\ Len(buf) \in Nat
  BY DEF CursorOK
<1>1. Below(Bytes(0, 8), Bytes(8, 8)) /\ position + 56 <= Len(buf)
  BY SlicePassed
<1>2. /\ Bytes(0, 8) \in Seq(U8Values) /\ Len(Bytes(0, 8)) = 8
      /\ Bytes(8, 8) \in Seq(U8Values) /\ Len(Bytes(8, 8)) = 8
      /\ Bytes(16, 32) \in Seq(U8Values) /\ Bytes(48, 4) \in Seq(U8Values)
      /\ Bytes(52, 4) \in Seq(U8Values)
  <2>1. /\ position + 0 + 8 <= Len(buf) /\ position + 8 + 8 <= Len(buf)
        /\ position + 16 + 32 <= Len(buf) /\ position + 48 + 4 <= Len(buf)
        /\ position + 52 + 4 <= Len(buf)
    BY <1>0, <1>1
  <2>. QED
    BY <2>1, BytesRead
<1>3. Bytes(0, 8) \in Seq(Nat) /\ Bytes(8, 8) \in Seq(Nat)
  <2>1. U8Values \subseteq Nat
    BY DEF U8Values
  <2>. QED
    BY <1>2, <2>1, SeqMonotonic
<1>4. LessThan(Bytes(0, 8), Bytes(8, 8))
  BY <1>1, <1>2, <1>3, BelowIsLess
<1>. QED
  BY <1>2, <1>4 DEF NextSlice, SliceType

LEMMA ContentRead ==
    ASSUME CursorOK, Passes(ContentChecks), ~HasSliceMap
    PROVE  /\ ContentLen \in Nat
           /\ position + ContentLen <= Len(buf)
           /\ Content \in ContentType
           /\ Content.kind \in KindsOf(inode.mode)
           /\ ValidContent(Content)
<1> DEFINE C == ContentChecks
<1>0. position \in Nat /\ Len(buf) \in Nat /\ U32(0) \in Nat /\ 4 + U32(0) \in Int
  <2>1. U32(0) \in Nat
    BY U32Range
  <2>. QED
    BY <2>1 DEF CursorOK
<1>1. CASE FileType = S_IFREG
  <2>1. C = << Read(4), Check(U32(0) <= DEFAULT_INLINE_DATA_MAX_BYTES, "Corrupt"), Read(4 + U32(0)) >>
    BY <1>1 DEF ContentChecks, S_IFREG, S_IFDIR, S_IFLNK, DeviceTypes, PipeTypes
  <2>2. /\ DOMAIN C = 1..3
        /\ C[2] = Check(U32(0) <= DEFAULT_INLINE_DATA_MAX_BYTES, "Corrupt") /\ C[3] = Read(4 + U32(0))
    BY <2>1
  <2> HIDE DEF C
  <2>3. C[2] = "ok" /\ C[3] = "ok"
    BY <2>2 DEF Passes, C
  <2>4. U32(0) <= DEFAULT_INLINE_DATA_MAX_BYTES /\ position + (4 + U32(0)) <= Len(buf)
    BY <1>0, <2>2, <2>3, ReadRow DEF Check
  <2>5. Bytes(4, U32(0)) \in Seq(U8Values) /\ Len(Bytes(4, U32(0))) = U32(0)
    BY <1>0, <2>4, BytesRead
  <2>6. Content = [kind |-> "INLINE_DATA", value |-> Bytes(4, U32(0))]
    BY <1>1 DEF Content, S_IFREG, S_IFDIR, S_IFLNK, DeviceTypes, PipeTypes
  <2>7. ContentLen = 4 + U32(0)
    BY <1>1 DEF ContentLen, S_IFREG, S_IFDIR, S_IFLNK, DeviceTypes, PipeTypes
  <2>8. "INLINE_DATA" \in KindsOf(inode.mode)
    BY <1>1 DEF KindsOf, FileType, S_IFREG, S_IFDIR, S_IFLNK, DeviceTypes, PipeTypes
  <2>9. Content \in ContentType /\ ValidContent(Content)
    BY <2>4, <2>5, <2>6 DEF ContentType, ValidContent
  <2>. QED
    BY <1>0, <2>4, <2>6, <2>7, <2>8, <2>9
<1>2. CASE FileType = S_IFDIR
  <2>1. C = << Read(32) >>
    BY <1>2 DEF ContentChecks, HasSliceMap, S_IFREG, S_IFDIR, S_IFLNK, DeviceTypes, PipeTypes
  <2>2. DOMAIN C = 1..1 /\ C[1] = Read(32)
    BY <2>1
  <2> HIDE DEF C
  <2>3. C[1] = "ok"
    BY <2>2 DEF Passes, C
  <2>4. position + 32 <= Len(buf)
    BY <1>0, <2>2, <2>3, ReadRow
  <2>5. Bytes(0, 32) \in Seq(U8Values)
    BY <1>0, <2>4, BytesRead
  <2>6. Content = [kind |-> "DIRECTORY", value |-> Bytes(0, 32)]
    BY <1>2 DEF Content, S_IFREG, S_IFDIR, S_IFLNK, DeviceTypes, PipeTypes
  <2>7. ContentLen = 32
    BY <1>2 DEF ContentLen, S_IFREG, S_IFDIR, S_IFLNK, DeviceTypes, PipeTypes
  <2>8. "DIRECTORY" \in KindsOf(inode.mode)
    BY <1>2 DEF KindsOf, FileType, S_IFREG, S_IFDIR, S_IFLNK, DeviceTypes, PipeTypes
  <2>9. Content \in ContentType /\ ValidContent(Content)
    BY <2>5, <2>6 DEF ContentType, ValidContent
  <2>. QED
    BY <2>4, <2>6, <2>7, <2>8, <2>9
<1>3. CASE FileType = S_IFLNK
  <2>1. C = << Read(4), Read(4 + U32(0)), Check(IsUtf8(Bytes(4, U32(0))), "Corrupt") >>
    BY <1>3 DEF ContentChecks, HasSliceMap, S_IFREG, S_IFDIR, S_IFLNK, DeviceTypes, PipeTypes
  <2>2. /\ DOMAIN C = 1..3
        /\ C[2] = Read(4 + U32(0)) /\ C[3] = Check(IsUtf8(Bytes(4, U32(0))), "Corrupt")
    BY <2>1
  <2> HIDE DEF C
  <2>3. C[2] = "ok" /\ C[3] = "ok"
    BY <2>2 DEF Passes, C
  <2>4. IsUtf8(Bytes(4, U32(0))) /\ position + (4 + U32(0)) <= Len(buf)
    BY <1>0, <2>2, <2>3, ReadRow DEF Check
  <2>5. Bytes(4, U32(0)) \in Seq(U8Values)
    BY <1>0, <2>4, BytesRead
  <2>6. Content = [kind |-> "SYMLINK", value |-> Bytes(4, U32(0))]
    BY <1>3 DEF Content, S_IFREG, S_IFDIR, S_IFLNK, DeviceTypes, PipeTypes
  <2>7. ContentLen = 4 + U32(0)
    BY <1>3 DEF ContentLen, S_IFREG, S_IFDIR, S_IFLNK, DeviceTypes, PipeTypes
  <2>8. "SYMLINK" \in KindsOf(inode.mode)
    BY <1>3 DEF KindsOf, FileType, S_IFREG, S_IFDIR, S_IFLNK, DeviceTypes, PipeTypes
  <2>9. Content \in ContentType /\ ValidContent(Content)
    BY <2>4, <2>5, <2>6 DEF ContentType, ValidContent
  <2>. QED
    BY <1>0, <2>4, <2>6, <2>7, <2>8, <2>9
<1>4. CASE FileType \in DeviceTypes \cup PipeTypes
  <2>1. C = << Read(8) >>
    BY <1>4 DEF ContentChecks, HasSliceMap, S_IFREG, S_IFDIR, S_IFLNK, DeviceTypes, PipeTypes
  <2>2. DOMAIN C = 1..1 /\ C[1] = Read(8)
    BY <2>1
  <2> HIDE DEF C
  <2>3. C[1] = "ok"
    BY <2>2 DEF Passes, C
  <2>4. position + 8 <= Len(buf)
    BY <1>0, <2>2, <2>3, ReadRow
  <2>5. Bytes(0, 8) \in Seq(U8Values)
    BY <1>0, <2>4, BytesRead
  <2>6. PICK k \in {"DEVICE", "PIPE"} :
          /\ Content = [kind |-> k, value |-> Bytes(0, 8)]
          /\ k \in KindsOf(inode.mode)
    <3>1. CASE FileType \in DeviceTypes
      BY <3>1 DEF Content, KindsOf, FileType, S_IFREG, S_IFDIR, S_IFLNK, DeviceTypes, PipeTypes
    <3>2. CASE FileType \in PipeTypes
      BY <3>2 DEF Content, KindsOf, FileType, S_IFREG, S_IFDIR, S_IFLNK, DeviceTypes, PipeTypes
    <3>. QED
      BY <1>4, <3>1, <3>2
  <2>7. ContentLen = 8
    BY <1>4 DEF ContentLen, S_IFREG, S_IFDIR, S_IFLNK, DeviceTypes, PipeTypes
  <2>9. Content \in ContentType /\ ValidContent(Content)
    BY <2>5, <2>6 DEF ContentType, ValidContent
  <2>. QED
    BY <2>4, <2>6, <2>7, <2>9
<1>5. ASSUME FileType \notin {S_IFREG, S_IFDIR, S_IFLNK} \cup DeviceTypes \cup PipeTypes
      PROVE  FALSE
  <2>1. C = << Check(FALSE, "Corrupt") >>
    BY <1>5 DEF ContentChecks, HasSliceMap, S_IFREG, S_IFDIR, S_IFLNK, DeviceTypes, PipeTypes
  <2>2. DOMAIN C = 1..1 /\ C[1] = "Corrupt"
    BY <2>1 DEF Check
  <2>. QED
    BY <2>2 DEF Passes
<1>. QED
  BY <1>1, <1>2, <1>3, <1>4, <1>5

NextInode ==
    [number |-> Bytes(0, 8), mode |-> Bytes(8, 4), uid |-> Bytes(12, 4),
     gid |-> Bytes(16, 4), mtime_ns |-> Bytes(20, 8), ctime_ns |-> Bytes(28, 8),
     nlink |-> Bytes(36, 4), atime_ns |-> Bytes(INODE_FIXED_PREFIX_LEN, AtimeLen),
     xattrs |-> <<>>, content_handle |-> NoContent]

LEMMA InodeHeadRead ==
    ASSUME CursorOK, Passes(InodeHeadChecks)
    PROVE  /\ NextInode \in InodeType
           /\ U32(INODE_FIXED_PREFIX_LEN + AtimeLen) \in 0..TOO_LARGE
<1>0. position \in Nat /\ Len(buf) \in Nat
  BY DEF CursorOK
<1>1. /\ AtimeLen \in {0, 8} /\ XattrCountLen \in {0, 4}
      /\ InodeHeadLen = 41 + AtimeLen + XattrCountLen
      /\ position + InodeHeadLen <= Len(buf)
  BY InodeHeadPassed
<1>2. position + 41 + AtimeLen <= Len(buf) /\ AtimeLen \in Nat
  BY <1>0, <1>1
<1>3. /\ position + 0 + 8 <= Len(buf) /\ position + 8 + 4 <= Len(buf)
      /\ position + 12 + 4 <= Len(buf) /\ position + 16 + 4 <= Len(buf)
      /\ position + 20 + 8 <= Len(buf) /\ position + 28 + 8 <= Len(buf)
      /\ position + 36 + 4 <= Len(buf)
  BY <1>0, <1>2
<1>4. /\ Bytes(0, 8) \in Seq(U8Values) /\ Bytes(8, 4) \in Seq(U8Values)
      /\ Bytes(12, 4) \in Seq(U8Values) /\ Bytes(16, 4) \in Seq(U8Values)
      /\ Bytes(20, 8) \in Seq(U8Values) /\ Bytes(28, 8) \in Seq(U8Values)
      /\ Bytes(36, 4) \in Seq(U8Values)
      /\ Bytes(INODE_FIXED_PREFIX_LEN, AtimeLen) \in Seq(U8Values)
  BY <1>2, <1>3, BytesRead DEF INODE_FIXED_PREFIX_LEN
<1>5. NoContent \in ContentType
  BY DEF NoContent, ContentType
<1>6. U32(INODE_FIXED_PREFIX_LEN + AtimeLen) \in 0..TOO_LARGE
  <2>1. INODE_FIXED_PREFIX_LEN + AtimeLen \in Nat
    BY <1>1 DEF INODE_FIXED_PREFIX_LEN
  <2>. QED
    BY <2>1, CountRange
<1>. QED
  BY <1>4, <1>5, <1>6 DEF NextInode, InodeType

LEMMA NodeHeadPassed ==
    ASSUME CursorOK, Passes(NodeHeadChecks)
    PROVE  U8(0) = 1 /\ position + 5 <= Len(buf)
<1> DEFINE C == NodeHeadChecks
<1>1. /\ DOMAIN C = 1..3
      /\ C[2] = Check(U8(0) = 1, "Unsupported") /\ C[3] = Read(5)
  BY DEF NodeHeadChecks, DIRECTORY_NODE_VERSION
<1> HIDE DEF C
<1>2. C[2] = "ok" /\ C[3] = "ok"
  BY <1>1 DEF Passes, C
<1>. QED
  BY <1>1, <1>2, ReadRow DEF Check

LEMMA EntryPassed ==
    ASSUME CursorOK, Passes(EntryChecks)
    PROVE  /\ name # <<>> /\ SLASH \notin Range(name) /\ 0 \notin Range(name) /\ IsUtf8(name)
           /\ entries # <<>> => NameBefore(Last(entries).name, name)
           /\ entry_type \in EntryTypes
           /\ U32(0) \in Nat /\ EntryLen = 13 + U32(0)
           /\ position + EntryLen <= Len(buf)
<1> DEFINE C == EntryChecks
<1>1. /\ DOMAIN C = 1..8
      /\ C[2] = Check(name # <<>>, "Corrupt")
      /\ C[3] = Check(SLASH \notin Range(name), "Corrupt")
      /\ C[4] = Check(0 \notin Range(name), "Corrupt")
      /\ C[5] = Check(IsUtf8(name), "Corrupt")
      /\ C[6] = Check(entries # <<>> => NameBefore(Last(entries).name, name), "Corrupt")
      /\ C[7] = Read(EntryLen)
      /\ C[8] = Check(entry_type \in EntryTypes, "Corrupt")
  BY DEF EntryChecks
<1> HIDE DEF C
<1>2. C[2] = "ok" /\ C[3] = "ok" /\ C[4] = "ok" /\ C[5] = "ok" /\ C[6] = "ok" /\ C[7] = "ok" /\ C[8] = "ok"
  BY <1>1 DEF Passes, C
<1>3. U32(0) \in Nat
  BY U32Range
<1>4. EntryLen = 13 + U32(0) /\ EntryLen \in Int
  BY <1>3 DEF EntryLen
<1>5. position + EntryLen <= Len(buf)
  BY <1>1, <1>2, <1>4, ReadRow
<1>. QED
  BY <1>1, <1>2, <1>3, <1>4, <1>5 DEF Check

NextEntry == [name |-> name, inode_number |-> Bytes(4 + U32(0), 8), entry_type |-> entry_type]

\* An entry, encoded again, is the bytes it was read from.
LEMMA EntryAgain ==
    ASSUME CursorOK, Len(buf) < TOO_LARGE, Passes(EntryChecks)
    PROVE  /\ NextEntry \in EntryType
           /\ ValidEntry(NextEntry)
           /\ EncodeEntry(NextEntry) = Bytes(0, EntryLen)
<1> DEFINE n == U32(0)
<1>1. /\ name # <<>> /\ SLASH \notin Range(name) /\ 0 \notin Range(name) /\ IsUtf8(name)
      /\ entry_type \in EntryTypes
      /\ n \in Nat /\ EntryLen = 13 + n /\ position + EntryLen <= Len(buf)
  BY EntryPassed
<1>2. name = Bytes(4, n) /\ entry_type = U8(12 + n)
  BY DEF name, entry_type
<1>3. position \in Nat /\ Len(buf) \in Nat
  BY DEF CursorOK
<1>4. NextEntry = [name |-> name, inode_number |-> Bytes(4 + n, 8), entry_type |-> entry_type]
  BY DEF NextEntry
<1>5. n < TOO_LARGE
  BY <1>1, <1>3 DEF TOO_LARGE
<1>6. Pack32(n) = Bytes(0, 4)
  <2>1. position + 0 + 4 <= Len(buf)
    BY <1>1, <1>3
  <2>. QED
    BY <1>5, <2>1, U32Again DEF Pack32
<1> HIDE DEF n
<1>7. /\ position + 4 + n <= Len(buf) /\ position + (4 + n) + 8 <= Len(buf)
      /\ position + (12 + n) + 1 <= Len(buf)
      /\ 4 + n \in Nat /\ 12 + n \in Nat /\ (4 + n) + 8 = 12 + n /\ (12 + n) + 1 = 13 + n
  BY <1>1, <1>3
<1>8. name \in Seq(U8Values) /\ Len(name) = n
  BY <1>1, <1>2, <1>7, BytesRead
<1>9. Bytes(4 + n, 8) \in Seq(U8Values)
  BY <1>7, BytesRead
<1>10. NextEntry \in EntryType
  BY <1>1, <1>4, <1>8, <1>9 DEF EntryType
<1>11. ValidEntry(NextEntry)
  <2>1. {0, SLASH} \cap Range(name) = {}
    BY <1>1
  <2>. QED
    BY <1>1, <1>4, <2>1 DEF ValidEntry
<1>12. EncodeEntry(NextEntry) = Pack32(n) \o name \o Bytes(4 + n, 8) \o <<entry_type>>
  BY <1>4, <1>8 DEF EncodeEntry
<1>13. Bytes(0, 4) \o Bytes(4, n) = Bytes(0, 4 + n)
  BY <1>1, <1>7, BytesGrow
<1>14. Bytes(0, 4 + n) \o Bytes(4 + n, 8) = Bytes(0, 12 + n)
  <2>1. Bytes(0, 4 + n) \o Bytes(4 + n, 8) = Bytes(0, (4 + n) + 8)
    BY <1>7, BytesGrow
  <2>. QED
    BY <1>7, <2>1
<1>15. Bytes(0, 12 + n) \o Bytes(12 + n, 1) = Bytes(0, 13 + n)
  <2>1. Bytes(0, 12 + n) \o Bytes(12 + n, 1) = Bytes(0, (12 + n) + 1)
    BY <1>7, BytesGrow
  <2>. QED
    BY <1>7, <2>1
<1>16. <<entry_type>> = Bytes(12 + n, 1)
  BY <1>2, <1>7, ByteAgain
<1>. QED
  BY <1>1, <1>2, <1>6, <1>10, <1>11, <1>12, <1>13, <1>14, <1>15, <1>16

-----------------------------------------------------------------------------
\* Encodings, one item after another.

LEMMA BytesAreNumbers ==
    /\ \A s \in Seq(U8Values) : s \in Seq(Nat) /\ Len(s) \in Nat
    /\ \A n \in Nat : Pack32(n) \in Seq(Nat)
<1>1. \A s \in Seq(U8Values) : s \in Seq(Nat) /\ Len(s) \in Nat
  <2>1. U8Values \subseteq Nat
    BY DEF U8Values
  <2>2. \A s \in Seq(U8Values) : s \in Seq(Nat)
    BY <2>1, SeqMonotonic
  <2>3. \A s \in Seq(U8Values) : Len(s) \in Nat
    OBVIOUS
  <2>. QED
    BY <2>2, <2>3
<1>2. \A n \in Nat : Pack32(n) \in Seq(Nat)
  BY PackedTyped DEF Pack32
<1>. QED
  BY <1>1, <1>2

LEMMA EntryEncoded ==
    ASSUME NEW e \in EntryType
    PROVE  EncodeEntry(e) \in Seq(Nat)
<1>1. e.name \in Seq(U8Values) /\ e.inode_number \in Seq(U8Values) /\ e.entry_type \in Nat
  BY DEF EntryType, EntryTypes
<1>2. e.name \in Seq(Nat) /\ e.inode_number \in Seq(Nat) /\ Len(e.name) \in Nat
  BY <1>1, BytesAreNumbers, Zenon
<1>3. Pack32(Len(e.name)) \in Seq(Nat)
  BY <1>2, BytesAreNumbers, Zenon
<1>. QED
  BY <1>1, <1>2, <1>3 DEF EncodeEntry

LEMMA EntriesEncoded ==
    ASSUME NEW es \in Seq(EntryType)
    PROVE  /\ Entries(es) \in Seq(Seq(Nat))
           /\ FlattenSeq(Entries(es)) \in Seq(Nat)
<1>1. \A e \in EntryType : EncodeEntry(e) \in Seq(Nat)
  BY EntryEncoded
<1>2. Len(es) \in Nat /\ DOMAIN es = 1..Len(es) /\ \A i \in 1..Len(es) : es[i] \in EntryType
  OBVIOUS
<1>3. Entries(es) \in Seq(Seq(Nat))
  BY <1>1, <1>2 DEF Entries
<1>. QED
  BY <1>3, FlattenTyped

LEMMA EntryAppended ==
    ASSUME NEW es \in Seq(EntryType), NEW e \in EntryType
    PROVE  /\ EncodeEntry(e) \in Seq(Nat)
           /\ FlattenSeq(Entries(Append(es, e))) = FlattenSeq(Entries(es)) \o EncodeEntry(e)
<1>1. Entries(es) \in Seq(Seq(Nat))
  BY EntriesEncoded
<1>2. EncodeEntry(e) \in Seq(Nat)
  BY EntryEncoded
<1>3. Entries(Append(es, e)) = Append(Entries(es), EncodeEntry(e))
  BY <1>1, <1>2 DEF Entries
<1>. QED
  BY <1>1, <1>2, <1>3, FlattenAppend

LEMMA NodeEncoded ==
    ASSUME NEW node \in Seq(EntryType)
    PROVE  EncodeNode(node) = (<<1>> \o Pack32(Len(node))) \o FlattenSeq(Entries(node))
           /\ EncodeNode(node) \in Seq(Nat)
<1>1. FlattenSeq(Entries(node)) \in Seq(Nat)
  BY EntriesEncoded
<1>2. Pack32(Len(node)) \in Seq(Nat)
  <2>1. Len(node) \in Nat
    OBVIOUS
  <2>. QED
    BY <2>1, BytesAreNumbers, Zenon
<1>3. EncodeNode(node) = (<<1>> \o Pack32(Len(node))) \o FlattenSeq(Entries(node))
  BY DEF EncodeNode, Entries
<1>. QED
  BY <1>1, <1>2, <1>3

LEMMA NodesEncoded ==
    ASSUME NEW list \in Seq(Seq(EntryType))
    PROVE  /\ Nodes(list) \in Seq(Seq(Nat))
           /\ FlattenSeq(Nodes(list)) \in Seq(Nat)
<1>1. \A node \in Seq(EntryType) : EncodeNode(node) \in Seq(Nat)
  BY NodeEncoded
<1>2. Len(list) \in Nat /\ DOMAIN list = 1..Len(list) /\ \A i \in 1..Len(list) : list[i] \in Seq(EntryType)
  OBVIOUS
<1>3. Nodes(list) \in Seq(Seq(Nat))
  BY <1>1, <1>2 DEF Nodes
<1>. QED
  BY <1>3, FlattenTyped

LEMMA NodeAppended ==
    ASSUME NEW list \in Seq(Seq(EntryType)), NEW node \in Seq(EntryType)
    PROVE  FlattenSeq(Nodes(Append(list, node))) = FlattenSeq(Nodes(list)) \o EncodeNode(node)
<1>1. Nodes(list) \in Seq(Seq(Nat)) /\ EncodeNode(node) \in Seq(Nat)
  BY NodesEncoded, NodeEncoded
<1>2. Nodes(Append(list, node)) = Append(Nodes(list), EncodeNode(node))
  BY <1>1 DEF Nodes
<1>. QED
  BY <1>1, <1>2, FlattenAppend

-----------------------------------------------------------------------------
\* The invariant holds.

LEMMA InitInv == Init => IInv
<1> SUFFICES ASSUME NEW b \in Blobs, Start(b)
             PROVE  IInv
  BY DEF Init
<1>1. buf \in Seq(U8Values) /\ Len(buf) < TOO_LARGE
  BY BlobsAssumption DEF Start
<1>4. TOO_LARGE \in Nat
  BY DEF TOO_LARGE
<1>3. Len(buf) \in Nat /\ 0 \in 0..TOO_LARGE
  BY <1>1, <1>4
<1>2. TypesOK
  BY <1>1, <1>3 DEF Start, TypesOK
<1>. QED
  BY <1>2 DEF Start, IInv, InodeBegun, SlicesRead, InodesRead, NodeBegun, NodesRead, NodesNotYet,
              BytesHere, NodesHere, EntriesHere, AtEnd

LEMMA CursorKept ==
    ASSUME IInv
    PROVE  /\ CursorOK /\ Len(buf) < TOO_LARGE /\ buf \in Seq(U8Values)
           /\ position \in Nat /\ Len(buf) \in Nat /\ position <= Len(buf)
           /\ TOO_LARGE \in Nat
<1>1. buf \in Seq(U8Values) /\ Len(buf) < TOO_LARGE /\ position \in 0..Len(buf)
  BY DEF IInv, TypesOK
<1>2. TOO_LARGE \in Nat
  BY DEF TOO_LARGE
<1>3. Len(buf) \in Nat /\ position \in Nat /\ position <= Len(buf)
  BY <1>1
<1>. QED
  BY <1>1, <1>2, <1>3 DEF CursorOK

\* Before the nodes nothing is known of them.
LEMMA OutsideNodes ==
    ASSUME IInv, UNCHANGED nodeVars, step \notin {"dir_nodes", "entries"},
           step' \notin {"dir_nodes", "entries"}, status' # "parsed"
    PROVE  NodeBegun' /\ NodesRead' /\ NodesNotYet' /\ BytesHere' /\ AtEnd'
BY DEF IInv, nodeVars, NodeBegun, NodesRead, NodesNotYet, BytesHere, NodesHere, EntriesHere, AtEnd

\* Among the nodes, nothing happens to the inodes.
LEMMA OutsideInodes ==
    ASSUME IInv, UNCHANGED inodeVars, step' \notin {"xattrs", "slices"}
    PROVE  InodeBegun' /\ SlicesRead' /\ InodesRead'
BY DEF IInv, inodeVars, InodeBegun, SlicesRead, InodesRead

\* The cursor moves over an item.
LEMMA Moved ==
    ASSUME IInv, NEW n \in Nat, position + n <= Len(buf), Advance(n)
    PROVE  /\ buf' = buf /\ position' = position + n
           /\ buf' \in Seq(U8Values) /\ Len(buf') < TOO_LARGE /\ position' \in 0..Len(buf')
BY CursorKept DEF Advance

Raised ==
    /\ status = "parsing" /\ status' \in ErrorKinds
    /\ buf' = buf /\ position' = position /\ step' = step /\ left' = left

LEMMA RejectInv == IInv /\ (RejectCount \/ (RejectInode /\ UNCHANGED nodeVars)
                              \/ (RejectNode /\ UNCHANGED inodeVars)) => IInv'
<1> SUFFICES ASSUME IInv, RejectCount \/ (RejectInode /\ UNCHANGED nodeVars)
                              \/ (RejectNode /\ UNCHANGED inodeVars)
             PROVE  IInv'
  OBVIOUS
<1>1. /\ status = "parsing" /\ status' \in ErrorKinds
      /\ UNCHANGED <<buf, position, step, left>>
      /\ UNCHANGED <<inodes_left, inodes, inode, inode_flags>>
      /\ UNCHANGED <<nodes_left, dir_nodes, entries>>
  <2>1. \A checks \in Seq(Outcomes) : ~Passes(checks) => FirstFailure(checks) \in ErrorKinds
    BY FirstFailureIsFirst
  <2>2. \A st : \A checks \in Seq(Outcomes) : Reject(st, checks) => Raised
    BY <2>1 DEF Reject, At, Raised
  <2>3. Raised
    BY <2>2, Rows, Zenon DEF RejectCount, RejectInode, RejectNode
  <2>4. UNCHANGED inodeVars /\ UNCHANGED nodeVars
    BY Zenon DEF RejectCount, RejectInode, RejectNode, inodeVars, nodeVars
  <2>. QED
    BY <2>3, <2>4 DEF Raised, inodeVars, nodeVars
<1>2. status' # "parsed"
  BY <1>1 DEF ErrorKinds
<1>3. TypesOK'
  BY <1>1 DEF IInv, TypesOK
<1>4. InodeBegun' /\ SlicesRead' /\ InodesRead'
  BY <1>1 DEF IInv, InodeBegun, XattrsRead, SlicesRead, InodesRead, FileType
<1>5. NodeBegun' /\ NodesRead' /\ NodesNotYet' /\ AtEnd'
  BY <1>1, <1>2 DEF IInv, NodeBegun, NodesRead, NodesNotYet, AtEnd
<1>6. BytesHere'
  BY <1>1 DEF IInv, BytesHere, NodesHere, EntriesHere
<1>. QED
  BY <1>3, <1>4, <1>5, <1>6 DEF IInv

LEMMA CountInv == IInv /\ (ReadInodeCount \/ ReadNodeCount) => IInv'
<1>1. ASSUME IInv, ReadInodeCount
      PROVE  IInv'
  <2>1. /\ step = "inode_count" /\ status = "parsing" /\ Passes(<< Read(4) >>) /\ Advance(4)
        /\ status' = status /\ step' = "inodes" /\ inodes_left' = U32(0)
        /\ UNCHANGED <<left, inodes, inode, inode_flags>> /\ UNCHANGED nodeVars
    BY <1>1 DEF ReadInodeCount, Accept, At
  <2>2. CursorOK /\ position + 4 <= Len(buf) /\ U32(0) \in 0..TOO_LARGE
    BY <1>1, <2>1, CursorKept, CountPassed, CountRange
  <2>3. buf' \in Seq(U8Values) /\ Len(buf') < TOO_LARGE /\ position' \in 0..Len(buf')
    BY <1>1, <2>1, <2>2, Moved
  <2>4. TypesOK'
    BY <1>1, <2>1, <2>2, <2>3 DEF IInv, TypesOK, nodeVars
  <2>5. InodeBegun' /\ SlicesRead' /\ InodesRead'
    BY <1>1, <2>1 DEF IInv, InodeBegun, SlicesRead, InodesRead
  <2>6. NodeBegun' /\ NodesRead' /\ NodesNotYet' /\ BytesHere' /\ AtEnd'
    BY <1>1, <2>1, OutsideNodes
  <2>. QED
    BY <2>4, <2>5, <2>6 DEF IInv
<1>2. ASSUME IInv, ReadNodeCount
      PROVE  IInv'
  <2>1. /\ step = "inodes" /\ status = "parsing" /\ Passes(<< Read(4) >>) /\ Advance(4)
        /\ status' = status /\ step' = "dir_nodes" /\ nodes_left' = U32(0)
        /\ UNCHANGED <<left, dir_nodes, entries>> /\ UNCHANGED inodeVars
    BY <1>2 DEF ReadNodeCount, Accept, At
  <2>2. CursorOK /\ position + 4 <= Len(buf) /\ U32(0) \in 0..TOO_LARGE
    BY <1>2, <2>1, CursorKept, CountPassed, CountRange
  <2>3. buf' \in Seq(U8Values) /\ Len(buf') < TOO_LARGE /\ position' \in 0..Len(buf')
    BY <1>2, <2>1, <2>2, Moved
  <2>4. TypesOK'
    BY <1>2, <2>1, <2>2, <2>3 DEF IInv, TypesOK, inodeVars
  <2>5. InodeBegun' /\ SlicesRead' /\ InodesRead'
    BY <1>2, <2>1, OutsideInodes
  <2>6. dir_nodes' = <<>> /\ entries' = <<>>
    BY <1>2, <2>1 DEF IInv, NodesNotYet
  <2>7. NodeBegun' /\ NodesRead' /\ NodesNotYet' /\ AtEnd'
    BY <2>1, <2>6 DEF NodeBegun, NodesRead, NodesNotYet, AtEnd
  <2>8. BytesHere'
    <3> DEFINE head == SubSeq(buf', 1, position')
    <3>1. head \in Seq(Nat)
      <4>1. head \in Seq(U8Values)
        BY <2>3
      <4>. QED
        BY <4>1, BytesAreNumbers, Zenon
    <3>2. FlattenSeq(Nodes(dir_nodes')) = <<>>
      BY <2>6, FlattenEmpty DEF Nodes
    <3> HIDE DEF head
    <3>3. head = head \o <<>>
      BY <3>1
    <3>. QED
      BY <2>1, <3>1, <3>2, <3>3 DEF BytesHere, NodesHere, EntriesHere, head
  <2>. QED
    BY <2>4, <2>5, <2>7, <2>8 DEF IInv
<1>. QED
  BY <1>1, <1>2

-----------------------------------------------------------------------------
\* The inodes.

LEMMA InodeCompleted ==
    ASSUME inode \in InodeType, XattrsRead,
           NEW c \in ContentType, c.kind \in KindsOf(inode.mode), ValidContent(c)
    PROVE  WithContent(c) \in InodeType /\ ValidInode(WithContent(c))
<1> DEFINE i == WithContent(c)
<1>1. /\ i.number = inode.number /\ i.mode = inode.mode /\ i.uid = inode.uid /\ i.gid = inode.gid
      /\ i.mtime_ns = inode.mtime_ns /\ i.ctime_ns = inode.ctime_ns /\ i.nlink = inode.nlink
      /\ i.atime_ns = inode.atime_ns /\ i.xattrs = inode.xattrs /\ i.content_handle = c
  BY DEF WithContent, InodeType
<1>2. i \in InodeType
  BY DEF WithContent, InodeType
<1> HIDE DEF i
<1>3. ValidInode(i)
  BY <1>1 DEF ValidInode, XattrsRead
<1>. QED
  BY <1>2, <1>3 DEF i

\* The inode that was read is returned.
LEMMA InodeReturned ==
    ASSUME IInv, NEW i \in InodeType, ValidInode(i), InodeDone(i), inodes_left > 0,
           buf' = buf, position' \in 0..Len(buf), status' = "parsing",
           step \in {"xattrs", "slices"}, UNCHANGED nodeVars
    PROVE  IInv'
<1>1. /\ inodes' = Append(inodes, i) /\ inodes_left' = inodes_left - 1 /\ step' = "inodes"
      /\ left' = 0 /\ inode' = inode /\ inode_flags' = inode_flags
  BY DEF InodeDone
<1>2. inodes \in Seq(InodeType) /\ inodes_left \in 0..TOO_LARGE /\ TOO_LARGE \in Nat
  BY CursorKept DEF IInv, TypesOK
<1>3. inodes' \in Seq(InodeType)
  BY <1>1, <1>2
<1>4. inodes_left' \in 0..TOO_LARGE /\ left' \in 0..TOO_LARGE
  BY <1>1, <1>2
<1>5. TypesOK'
  BY <1>1, <1>3, <1>4 DEF IInv, TypesOK, nodeVars
<1>6. InodesRead'
  <2>1. \A j \in DOMAIN inodes' : inodes'[j] = i \/ (j \in DOMAIN inodes /\ inodes'[j] = inodes[j])
    BY <1>1, <1>2
  <2>. QED
    BY <2>1 DEF IInv, InodesRead
<1>7. InodeBegun' /\ SlicesRead'
  BY <1>1 DEF InodeBegun, SlicesRead
<1>8. NodeBegun' /\ NodesRead' /\ NodesNotYet' /\ BytesHere' /\ AtEnd'
  BY <1>1, OutsideNodes
<1>. QED
  BY <1>5, <1>6, <1>7, <1>8 DEF IInv

LEMMA InodeHeadInv ==
    ASSUME IInv, ReadInodeHead, UNCHANGED nodeVars
    PROVE  IInv'
<1>1. /\ inodes_left > 0 /\ step = "inodes" /\ status = "parsing" /\ Passes(InodeHeadChecks)
      /\ Advance(InodeHeadLen) /\ status' = status /\ step' = "xattrs"
      /\ left' = (IF HasXattrs(U8(40)) THEN U32(INODE_FIXED_PREFIX_LEN + AtimeLen) ELSE 0)
      /\ inode_flags' = U8(40) /\ inode' = NextInode
      /\ inodes_left' = inodes_left /\ inodes' = inodes
  BY Zenon DEF ReadInodeHead, Accept, At, NextInode
<1>2. CursorOK /\ TOO_LARGE \in Nat
  BY CursorKept
<1>3. NextInode \in InodeType /\ U32(INODE_FIXED_PREFIX_LEN + AtimeLen) \in 0..TOO_LARGE
  BY <1>1, <1>2, InodeHeadRead
<1>4. U8(40) \in 0..7 /\ InodeHeadLen \in Nat /\ position + InodeHeadLen <= Len(buf)
  BY <1>1, <1>2, InodeHeadPassed
<1>5. buf' \in Seq(U8Values) /\ Len(buf') < TOO_LARGE /\ position' \in 0..Len(buf')
  BY <1>1, <1>4, Moved
<1>6. left' \in 0..TOO_LARGE
  BY <1>1, <1>2, <1>3
<1>7. TypesOK'
  BY <1>1, <1>4, <1>5, <1>6 DEF IInv, TypesOK, nodeVars
<1>8. InodeBegun'
  <2>1. inode'.xattrs = <<>>
    BY <1>1 DEF NextInode
  <2>2. XattrsRead'
    BY <2>1 DEF XattrsRead
  <2>. QED
    BY <1>1, <1>3, <2>2 DEF InodeBegun
<1>9. SlicesRead' /\ InodesRead'
  BY <1>1 DEF IInv, SlicesRead, InodesRead
<1>10. NodeBegun' /\ NodesRead' /\ NodesNotYet' /\ BytesHere' /\ AtEnd'
  BY <1>1, OutsideNodes
<1>. QED
  BY <1>7, <1>8, <1>9, <1>10 DEF IInv

LEMMA XattrInv ==
    ASSUME IInv, ReadXattr, UNCHANGED nodeVars
    PROVE  IInv'
<1>1. /\ left > 0 /\ step = "xattrs" /\ status = "parsing" /\ Passes(XattrChecks)
      /\ Advance(XattrLen) /\ status' = status /\ step' = step /\ left' = left - 1
      /\ inode' = [inode EXCEPT !.xattrs = Append(@, NextXattr)]
      /\ inodes_left' = inodes_left /\ inodes' = inodes /\ inode_flags' = inode_flags
  BY Zenon DEF ReadXattr, Accept, At, Turned, MoreItems, NextXattr
<1>2. CursorOK /\ TOO_LARGE \in Nat /\ left \in 0..TOO_LARGE /\ position \in Nat /\ Len(buf) \in Nat
  BY CursorKept DEF IInv, TypesOK
<1>3. XattrLen \in Nat /\ position + XattrLen <= Len(buf)
  <2>1. /\ U32(1) \in Nat /\ value_len \in Nat /\ XattrLen = 9 + U32(1) + value_len
        /\ position + XattrLen <= Len(buf)
    BY <1>1, <1>2, XattrPassed
  <2>. QED
    BY <2>1
<1>4. buf' \in Seq(U8Values) /\ Len(buf') < TOO_LARGE /\ position' \in 0..Len(buf')
  BY <1>1, <1>3, Moved
<1>5. left' \in 0..TOO_LARGE
  BY <1>1, <1>2
<1>6. TypesOK'
  BY <1>1, <1>4, <1>5 DEF IInv, TypesOK, nodeVars
<1>7. PICK x \in XattrType : x = NextXattr /\ ValidXattr(x)
  BY <1>1, <1>2, XattrRead, Zenon
<1>8. inode \in InodeType /\ inodes_left > 0 /\ XattrsRead /\ inode.xattrs \in Seq(XattrType)
  BY <1>1 DEF IInv, InodeBegun, InodeType
<1>9. inode'.xattrs = Append(inode.xattrs, x) /\ inode' \in InodeType
  <2>1. inode' = [inode EXCEPT !.xattrs = Append(inode.xattrs, x)]
    BY <1>1, <1>7, Zenon
  <2>2. Append(inode.xattrs, x) \in Seq(XattrType)
    BY <1>8
  <2>3. inode'.xattrs = Append(inode.xattrs, x)
    BY <1>8, <2>1 DEF InodeType
  <2>4. inode' \in InodeType
    BY <1>8, <2>1, <2>2 DEF InodeType
  <2>. QED
    BY <2>3, <2>4
<1>10. XattrsRead'
  <2>1. \A j \in DOMAIN Append(inode.xattrs, x) :
          \/ Append(inode.xattrs, x)[j] = x
          \/ j \in DOMAIN inode.xattrs /\ Append(inode.xattrs, x)[j] = inode.xattrs[j]
    BY <1>8
  <2>. QED
    BY <1>7, <1>8, <1>9, <2>1 DEF XattrsRead
<1>11. InodeBegun' /\ SlicesRead' /\ InodesRead'
  BY <1>1, <1>8, <1>9, <1>10 DEF IInv, InodeBegun, SlicesRead, InodesRead
<1>12. NodeBegun' /\ NodesRead' /\ NodesNotYet' /\ BytesHere' /\ AtEnd'
  BY <1>1, OutsideNodes
<1>. QED
  BY <1>6, <1>11, <1>12 DEF IInv

LEMMA ContentInv ==
    ASSUME IInv, ReadContent, UNCHANGED nodeVars
    PROVE  IInv'
<1>1. /\ ~HasSliceMap /\ step = "xattrs" /\ status = "parsing" /\ Passes(ContentChecks)
      /\ Advance(ContentLen) /\ status' = status /\ InodeDone(WithContent(Content))
  BY Zenon DEF ReadContent, Accept, At
<1>2. CursorOK
  BY CursorKept
<1>3. PICK c : c = Content
  OBVIOUS
<1>4. /\ ContentLen \in Nat /\ position + ContentLen <= Len(buf)
      /\ c \in ContentType /\ c.kind \in KindsOf(inode.mode) /\ ValidContent(c)
  BY <1>1, <1>2, <1>3, ContentRead
<1>5. inode \in InodeType /\ XattrsRead /\ inodes_left > 0
  BY <1>1 DEF IInv, InodeBegun
<1>6. WithContent(c) \in InodeType /\ ValidInode(WithContent(c))
  BY <1>4, <1>5, InodeCompleted
<1>7. buf' = buf /\ position' \in 0..Len(buf)
  BY <1>1, <1>4, Moved
<1>. QED
  BY <1>1, <1>3, <1>5, <1>6, <1>7, InodeReturned

LEMMA SlicesBeginInv ==
    ASSUME IInv, BeginSlices, UNCHANGED nodeVars
    PROVE  IInv'
<1> DEFINE c == [kind |-> "SLICE_MAP", value |-> <<>>]
<1>1. /\ HasSliceMap /\ step = "xattrs" /\ status = "parsing" /\ Passes(ContentChecks)
      /\ Advance(4) /\ status' = status /\ step' = "slices" /\ left' = U32(0)
      /\ inode' = WithContent(c)
      /\ inodes_left' = inodes_left /\ inodes' = inodes /\ inode_flags' = inode_flags
  BY Zenon DEF BeginSlices, Accept, At
<1>2. CursorOK
  BY CursorKept
<1>3. FileType = S_IFREG
  BY <1>1 DEF HasSliceMap
<1>4. position + 4 <= Len(buf)
  <2>1. ContentChecks = << Read(4) >>
    BY <1>1, <1>3 DEF ContentChecks, S_IFREG, S_IFDIR, S_IFLNK, DeviceTypes, PipeTypes
  <2>. QED
    BY <1>1, <1>2, <2>1, CountPassed
<1>5. buf' \in Seq(U8Values) /\ Len(buf') < TOO_LARGE /\ position' \in 0..Len(buf')
  BY <1>1, <1>4, Moved
<1>6. left' \in 0..TOO_LARGE
  BY <1>1, <1>2, CountRange
<1>7. TypesOK'
  BY <1>1, <1>5, <1>6 DEF IInv, TypesOK, nodeVars
<1>8. inode \in InodeType /\ XattrsRead /\ inodes_left > 0
  BY <1>1 DEF IInv, InodeBegun
<1>9. c \in ContentType /\ ValidContent(c)
  BY DEF ContentType, ValidContent
<1>10. c.kind = "SLICE_MAP" /\ c.kind \in KindsOf(inode.mode)
  BY <1>3 DEF KindsOf, FileType, S_IFREG, S_IFDIR, S_IFLNK, DeviceTypes, PipeTypes
<1> HIDE DEF c
<1>11. /\ inode' \in InodeType /\ inode'.xattrs = inode.xattrs /\ inode'.mode = inode.mode
       /\ inode'.content_handle = c
  <2>1. WithContent(c) \in InodeType
    BY <1>8, <1>9, <1>10, InodeCompleted
  <2>2. /\ WithContent(c).xattrs = inode.xattrs /\ WithContent(c).mode = inode.mode
        /\ WithContent(c).content_handle = c
    BY <1>8 DEF WithContent, InodeType
  <2>. QED
    BY <1>1, <2>1, <2>2
<1>12. InodeBegun'
  BY <1>1, <1>8, <1>11 DEF InodeBegun, XattrsRead
<1>13. SlicesRead'
  BY <1>3, <1>9, <1>10, <1>11 DEF SlicesRead, FileType
<1>14. InodesRead'
  BY <1>1 DEF IInv, InodesRead
<1>15. NodeBegun' /\ NodesRead' /\ NodesNotYet' /\ BytesHere' /\ AtEnd'
  BY <1>1, OutsideNodes
<1>. QED
  BY <1>7, <1>12, <1>13, <1>14, <1>15 DEF IInv

LEMMA SliceInv ==
    ASSUME IInv, ReadSlice, UNCHANGED nodeVars
    PROVE  IInv'
<1>1. /\ left > 0 /\ step = "slices" /\ status = "parsing" /\ Passes(SliceChecks)
      /\ Advance(56) /\ status' = status /\ step' = step /\ left' = left - 1
      /\ inode' = [inode EXCEPT !.content_handle.value = Append(@, NextSlice)]
      /\ inodes_left' = inodes_left /\ inodes' = inodes /\ inode_flags' = inode_flags
  BY Zenon DEF ReadSlice, Accept, At, Turned, MoreItems, NextSlice, SLICE_LEN
<1>2. CursorOK /\ TOO_LARGE \in Nat /\ left \in 0..TOO_LARGE
  BY CursorKept DEF IInv, TypesOK
<1>3. position + 56 <= Len(buf)
  BY <1>1, <1>2, SlicePassed
<1>4. buf' \in Seq(U8Values) /\ Len(buf') < TOO_LARGE /\ position' \in 0..Len(buf')
  BY <1>1, <1>3, Moved
<1>5. left' \in 0..TOO_LARGE
  BY <1>1, <1>2
<1>6. TypesOK'
  BY <1>1, <1>4, <1>5 DEF IInv, TypesOK, nodeVars
<1>7. PICK s \in SliceType : s = NextSlice /\ LessThan(s.file_byte_start, s.file_byte_end)
  BY <1>1, <1>2, SliceRead, Zenon
<1>8. /\ inode \in InodeType /\ inodes_left > 0 /\ XattrsRead
      /\ FileType = S_IFREG /\ inode.content_handle.kind = "SLICE_MAP"
      /\ ValidContent(inode.content_handle)
  BY <1>1 DEF IInv, InodeBegun, SlicesRead
<1>9. PICK slices \in Seq(SliceType) : inode.content_handle = [kind |-> "SLICE_MAP", value |-> slices]
  <2>1. inode.content_handle \in ContentType
    BY <1>8 DEF InodeType
  <2>2. inode.content_handle \in [kind : {"SLICE_MAP"}, value : Seq(SliceType)]
    BY <1>8, <2>1 DEF ContentType
  <2>. QED
    BY <2>2
<1> DEFINE c == [kind |-> "SLICE_MAP", value |-> Append(slices, s)]
<1>10. inode' = WithContent(c)
  <2>1. inode' = [inode EXCEPT !.content_handle =
                    [inode.content_handle EXCEPT !.value = Append(inode.content_handle.value, s)]]
    BY <1>1, <1>7
  <2>2. [inode.content_handle EXCEPT !.value = Append(inode.content_handle.value, s)] = c
    BY <1>9
  <2>. QED
    BY <2>1, <2>2 DEF WithContent
<1>11. \A i \in DOMAIN slices : LessThan(slices[i].file_byte_start, slices[i].file_byte_end)
  BY <1>8, <1>9 DEF ValidContent
<1>12. c \in ContentType /\ ValidContent(c)
  <2>1. \A i \in DOMAIN Append(slices, s) :
          \/ Append(slices, s)[i] = s
          \/ i \in DOMAIN slices /\ Append(slices, s)[i] = slices[i]
    OBVIOUS
  <2>2. \A i \in DOMAIN Append(slices, s) :
          LessThan(Append(slices, s)[i].file_byte_start, Append(slices, s)[i].file_byte_end)
    BY <1>7, <1>11, <2>1
  <2>. QED
    BY <2>2 DEF ContentType, ValidContent
<1>13. c.kind = "SLICE_MAP" /\ c.kind \in KindsOf(inode.mode)
  BY <1>8 DEF KindsOf, FileType, S_IFREG, S_IFDIR, S_IFLNK, DeviceTypes, PipeTypes
<1> HIDE DEF c
<1>14. /\ inode' \in InodeType /\ inode'.xattrs = inode.xattrs /\ inode'.mode = inode.mode
       /\ inode'.content_handle = c
  <2>1. WithContent(c) \in InodeType
    BY <1>8, <1>12, <1>13, InodeCompleted
  <2>2. /\ WithContent(c).xattrs = inode.xattrs /\ WithContent(c).mode = inode.mode
        /\ WithContent(c).content_handle = c
    BY <1>8 DEF WithContent, InodeType
  <2>. QED
    BY <1>10, <2>1, <2>2
<1>15. InodeBegun'
  BY <1>1, <1>8, <1>14 DEF InodeBegun, XattrsRead
<1>16. SlicesRead'
  BY <1>8, <1>12, <1>13, <1>14 DEF SlicesRead, FileType
<1>17. InodesRead'
  BY <1>1 DEF IInv, InodesRead
<1>18. NodeBegun' /\ NodesRead' /\ NodesNotYet' /\ BytesHere' /\ AtEnd'
  BY <1>1, OutsideNodes
<1>. QED
  BY <1>6, <1>15, <1>16, <1>17, <1>18 DEF IInv

LEMMA SlicesEndInv ==
    ASSUME IInv, SlicesEnd, UNCHANGED nodeVars
    PROVE  IInv'
<1>1. /\ step = "slices" /\ status = "parsing" /\ InodeDone(inode)
      /\ buf' = buf /\ position' = position /\ status' = status
  BY DEF SlicesEnd, At
<1>2. /\ inode \in InodeType /\ inodes_left > 0 /\ XattrsRead
      /\ FileType = S_IFREG /\ inode.content_handle.kind = "SLICE_MAP"
      /\ ValidContent(inode.content_handle)
  BY <1>1 DEF IInv, InodeBegun, SlicesRead
<1>3. inode.content_handle.kind \in KindsOf(inode.mode)
  BY <1>2 DEF KindsOf, FileType, S_IFREG, S_IFDIR, S_IFLNK, DeviceTypes, PipeTypes
<1>4. ValidInode(inode)
  BY <1>2, <1>3 DEF ValidInode, XattrsRead
<1>5. position \in 0..Len(buf)
  BY DEF IInv, TypesOK
<1>. QED
  BY <1>1, <1>2, <1>4, <1>5, InodeReturned

-----------------------------------------------------------------------------
\* The directory nodes.

LEMMA NodeHeadInv ==
    ASSUME IInv, ReadNodeHead, UNCHANGED inodeVars
    PROVE  IInv'
<1>1. /\ nodes_left > 0 /\ step = "dir_nodes" /\ status = "parsing" /\ Passes(NodeHeadChecks)
      /\ Advance(5) /\ status' = status /\ step' = "entries" /\ left' = U32(1) /\ entries' = <<>>
      /\ nodes_left' = nodes_left /\ dir_nodes' = dir_nodes
  BY Zenon DEF ReadNodeHead, Accept, At
<1>2. /\ CursorOK /\ Len(buf) < TOO_LARGE /\ position \in Nat /\ Len(buf) \in Nat
      /\ dir_nodes \in Seq(Seq(EntryType))
  BY CursorKept DEF IInv, TypesOK
<1>3. U8(0) = 1 /\ position + 5 <= Len(buf)
  BY <1>1, <1>2, NodeHeadPassed
<1>4. buf' = buf /\ position' = position + 5
      /\ buf' \in Seq(U8Values) /\ Len(buf') < TOO_LARGE /\ position' \in 0..Len(buf')
  BY <1>1, <1>3, Moved
<1>5. U32(1) \in 0..TOO_LARGE
  BY <1>2, CountRange
<1>6. TypesOK'
  BY <1>1, <1>4, <1>5 DEF IInv, TypesOK, inodeVars
<1>7. InodeBegun' /\ SlicesRead' /\ InodesRead'
  BY <1>1, OutsideInodes
<1>8. NodeBegun'
  BY <1>1, <1>2, <1>4 DEF NodeBegun, ValidNode
<1>9. NodesRead' /\ NodesNotYet' /\ AtEnd'
  BY <1>1 DEF IInv, NodesRead, NodesNotYet, AtEnd
<1>10. BytesHere'
  <2> DEFINE count == Bytes(1, 4)
             so_far == SubSeq(buf, 1, position)
             f == FlattenSeq(Nodes(dir_nodes))
  <2>1. PICK head \in Seq(Nat) : so_far = head \o f
    BY <1>1 DEF IInv, BytesHere, NodesHere
  <2>2. position + 0 + 1 <= Len(buf) /\ position + 1 + 4 <= Len(buf)
    BY <1>2, <1>3
  <2>3. <<1>> = Bytes(0, 1)
    BY <1>2, <1>3, <2>2, ByteAgain
  <2>4. Bytes(0, 1) \o Bytes(1, 4) = Bytes(0, 5)
    <3>1. Bytes(0, 1) \o Bytes(1, 4) = Bytes(0, 1 + 4)
      BY <1>2, <2>2, BytesGrow
    <3>. QED
      BY <3>1
  <2>5. count \in Seq(Nat) /\ <<1>> \o count \in Seq(Nat)
    <3>1. count \in Seq(U8Values)
      BY <1>2, <2>2, BytesRead
    <3>2. count \in Seq(Nat)
      BY <3>1, BytesAreNumbers, Zenon
    <3>. QED
      BY <3>2
  <2>6. U32(1) < TOO_LARGE => count = Pack32(U32(1))
    BY <1>2, <2>2, U32Again DEF Pack32
  <2>7. SubSeq(buf, 1, position + 5) = so_far \o Bytes(0, 5)
    BY <1>2, <1>3, NextBytes
  <2> HIDE DEF count, so_far, f
  <2>8. SubSeq(buf, 1, position + 5) = (head \o f) \o (<<1>> \o count)
    BY <2>1, <2>3, <2>4, <2>7 DEF count
  <2>9. FlattenSeq(Entries(entries')) = <<>> /\ Len(entries') = 0
    BY <1>1, FlattenEmpty DEF Entries
  <2>10. (<<1>> \o count) \o <<>> = <<1>> \o count
    BY <2>5, ConcatEmptySeq
  <2>11. Len(entries') + left' = U32(1)
    BY <1>1, <1>5, <2>9
  <2>12. /\ Len(entries') + left' < TOO_LARGE => count = Pack32(Len(entries') + left')
         /\ SubSeq(buf', 1, position')
              = (head \o FlattenSeq(Nodes(dir_nodes'))) \o ((<<1>> \o count) \o FlattenSeq(Entries(entries')))
    <3>1. SubSeq(buf', 1, position') = (head \o f) \o (<<1>> \o count)
      BY <1>4, <2>8
    <3>2. FlattenSeq(Nodes(dir_nodes')) = f
      BY <1>1 DEF f
    <3>. QED
      BY <2>6, <2>9, <2>10, <2>11, <3>1, <3>2
  <2>13. EntriesHere'
    BY <2>1, <2>5, <2>12 DEF EntriesHere
  <2>14. NodesHere'
    BY <1>1 DEF NodesHere
  <2>. QED
    BY <2>13, <2>14 DEF BytesHere
<1>. QED
  BY <1>6, <1>7, <1>8, <1>9, <1>10 DEF IInv

\* A node with one valid entry more, whose name is after that of the last.
LEMMA NodeGrows ==
    ASSUME NEW es \in Seq(EntryType), ValidNode(es), NEW e \in EntryType, ValidEntry(e),
           es # <<>> => NameBefore(Last(es).name, e.name)
    PROVE  ValidNode(Append(es, e))
<1> DEFINE n == Len(es)
           more == Append(es, e)
<1>1. /\ n \in Nat /\ Len(more) = n + 1 /\ DOMAIN more = 1..(n + 1) /\ DOMAIN es = 1..n
      /\ more[n + 1] = e
      /\ \A i \in 1..n : more[i] = es[i] /\ es[i] \in EntryType
  OBVIOUS
<1>2. \A i \in 1..n : ValidEntry(es[i])
  BY <1>1 DEF ValidNode
<1>3. \A i, j \in 1..n : i < j => NameBefore(es[i].name, es[j].name)
  BY <1>1 DEF ValidNode
<1>4. \A x \in EntryType : x.name \in Seq(Nat)
  <2>1. \A x \in EntryType : x.name \in Seq(U8Values)
    BY DEF EntryType
  <2>. QED
    BY <2>1, BytesAreNumbers, Zenon
<1>5. n # 0 => NameBefore(es[n].name, e.name)
  BY <1>1 DEF Last
<1> HIDE DEF n, more
<1>6. \A i \in 1..n : NameBefore(es[i].name, e.name)
  <2> TAKE i \in 1..n
  <2>1. n \in 1..n /\ n # 0
    BY <1>1
  <2>2. CASE i = n
    BY <1>5, <2>1, <2>2
  <2>3. CASE i # n
    <3>1. i < n
      BY <1>1, <2>3
    <3>2. NameBefore(es[i].name, es[n].name) /\ NameBefore(es[n].name, e.name)
      BY <1>3, <1>5, <2>1, <3>1
    <3>3. es[i].name \in Seq(Nat) /\ es[n].name \in Seq(Nat) /\ e.name \in Seq(Nat)
      BY <1>1, <1>4, <2>1
    <3>. QED
      BY <3>2, <3>3, NameBeforeTransitive
  <2>. QED
    BY <2>2, <2>3
<1>7. \A i \in 1..(n + 1) : i = n + 1 \/ i \in 1..n
  BY <1>1
<1>8. \A i \in DOMAIN more : ValidEntry(more[i])
  BY <1>1, <1>2, <1>7
<1>9. \A i, j \in DOMAIN more : i < j => NameBefore(more[i].name, more[j].name)
  <2> SUFFICES ASSUME NEW i \in 1..(n + 1), NEW j \in 1..(n + 1), i < j
               PROVE  NameBefore(more[i].name, more[j].name)
    BY <1>1
  <2>1. i \in 1..n /\ more[i] = es[i]
    BY <1>1
  <2>2. CASE j = n + 1
    BY <1>1, <1>6, <2>1, <2>2
  <2>3. CASE j \in 1..n
    BY <1>1, <1>3, <2>1, <2>3
  <2>. QED
    BY <1>7, <2>2, <2>3
<1>. QED
  BY <1>8, <1>9 DEF ValidNode, more

LEMMA HeadBytes ==
    ASSUME NEW h \in Seq(Nat), NEW f \in Seq(Nat), NEW count \in Seq(Nat)
    PROVE  h \o f \in Seq(Nat) /\ <<1>> \o count \in Seq(Nat)
<1>1. <<1>> \in Seq(Nat)
  OBVIOUS
<1>. QED
  BY <1>1

LEMMA EntryInv ==
    ASSUME IInv, ReadEntry, UNCHANGED inodeVars
    PROVE  IInv'
<1>1. /\ left > 0 /\ step = "entries" /\ status = "parsing" /\ Passes(EntryChecks)
      /\ Advance(EntryLen) /\ status' = status /\ step' = step /\ left' = left - 1
      /\ entries' = Append(entries, NextEntry)
      /\ nodes_left' = nodes_left /\ dir_nodes' = dir_nodes
  BY Zenon DEF ReadEntry, Accept, At, Turned, MoreItems, NextEntry
<1>2. /\ CursorOK /\ Len(buf) < TOO_LARGE /\ position \in Nat /\ Len(buf) \in Nat /\ TOO_LARGE \in Nat
      /\ dir_nodes \in Seq(Seq(EntryType)) /\ entries \in Seq(EntryType) /\ left \in 0..TOO_LARGE
      /\ Len(entries) \in Nat
  BY CursorKept DEF IInv, TypesOK
<1>3. /\ entries # <<>> => NameBefore(Last(entries).name, name)
      /\ EntryLen \in Nat /\ EntryLen >= 13 /\ position + EntryLen <= Len(buf)
  <2>1. /\ entries # <<>> => NameBefore(Last(entries).name, name)
        /\ U32(0) \in Nat /\ EntryLen = 13 + U32(0) /\ position + EntryLen <= Len(buf)
    BY <1>1, <1>2, EntryPassed
  <2>. QED
    BY <2>1
<1>4. /\ buf' = buf /\ position' = position + EntryLen
      /\ buf' \in Seq(U8Values) /\ Len(buf') < TOO_LARGE /\ position' \in 0..Len(buf')
  BY <1>1, <1>3, Moved
<1>5. PICK e \in EntryType :
        e = NextEntry /\ ValidEntry(e) /\ EncodeEntry(e) = Bytes(0, EntryLen) /\ e.name = name
  <2>1. NextEntry.name = name
    BY DEF NextEntry
  <2>. QED
    BY <1>1, <1>2, <2>1, EntryAgain, Zenon
<1>6. entries' = Append(entries, e) /\ entries' \in Seq(EntryType) /\ Len(entries') = Len(entries) + 1
  BY <1>1, <1>2, <1>5
<1>7. left' \in 0..TOO_LARGE
  BY <1>1, <1>2
<1>8. TypesOK'
  BY <1>1, <1>4, <1>6, <1>7 DEF IInv, TypesOK, inodeVars
<1>9. InodeBegun' /\ SlicesRead' /\ InodesRead'
  BY <1>1, OutsideInodes
<1>10. NodeBegun'
  <2>1. nodes_left > 0 /\ Len(entries) <= position /\ ValidNode(entries)
    BY <1>1 DEF IInv, NodeBegun
  <2>2. ValidNode(entries')
    BY <1>2, <1>3, <1>5, <1>6, <2>1, NodeGrows
  <2>3. Len(entries') <= position'
    BY <1>2, <1>3, <1>4, <1>6, <2>1
  <2>. QED
    BY <1>1, <2>1, <2>2, <2>3 DEF NodeBegun
<1>11. NodesRead' /\ NodesNotYet' /\ AtEnd'
  BY <1>1 DEF IInv, NodesRead, NodesNotYet, AtEnd
<1>12. BytesHere'
  <2> DEFINE so_far == SubSeq(buf, 1, position)
             f == FlattenSeq(Nodes(dir_nodes))
             g == FlattenSeq(Entries(entries))
             e_bytes == EncodeEntry(e)
  <2>1. PICK head \in Seq(Nat), count \in Seq(Nat) :
          /\ Len(entries) + left < TOO_LARGE => count = Pack32(Len(entries) + left)
          /\ so_far = (head \o f) \o ((<<1>> \o count) \o g)
    BY <1>1 DEF IInv, BytesHere, EntriesHere
  <2>2. f \in Seq(Nat) /\ g \in Seq(Nat) /\ e_bytes \in Seq(Nat)
    BY <1>2, NodesEncoded, EntriesEncoded, EntryEncoded
  <2>3. FlattenSeq(Entries(entries')) = g \o e_bytes
    BY <1>2, <1>6, EntryAppended
  <2>4. SubSeq(buf, 1, position + EntryLen) = so_far \o e_bytes
    BY <1>2, <1>3, <1>5, NextBytes
  <2>5. FlattenSeq(Nodes(dir_nodes')) = f
    BY <1>1
  <2> HIDE DEF so_far, f, g, e_bytes
  <2>6. head \o f \in Seq(Nat) /\ <<1>> \o count \in Seq(Nat)
    BY <2>1, <2>2, HeadBytes, Zenon
  <2>7. so_far \o e_bytes = (head \o f) \o ((<<1>> \o count) \o (g \o e_bytes))
    <3>1. ((head \o f) \o ((<<1>> \o count) \o g)) \o e_bytes
            = (head \o f) \o ((<<1>> \o count) \o (g \o e_bytes))
      <4>1. PICK a \in Seq(Nat) : a = head \o f
        BY <2>6, Zenon
      <4>2. PICK b \in Seq(Nat) : b = <<1>> \o count
        BY <2>6, Zenon
      <4>3. PICK c \in Seq(Nat) : c = g
        BY <2>2, Zenon
      <4>4. PICK d \in Seq(Nat) : d = e_bytes
        BY <2>2, Zenon
      <4>5. (a \o (b \o c)) \o d = a \o (b \o (c \o d))
        <5>1. PICK m \in Seq(Nat) : m = b \o c
          BY OneAfterTheOther, Zenon
        <5>2. (a \o m) \o d = a \o (m \o d)
          BY SMTT(30)
        <5>3. (b \o c) \o d = b \o (c \o d)
          BY SMTT(30)
        <5>. QED
          BY <5>1, <5>2, <5>3, Zenon
      <4>. QED
        BY <4>1, <4>2, <4>3, <4>4, <4>5, Zenon
    <3>. QED
      BY <2>1, <3>1, Zenon
  <2>10. Len(entries') + left' = Len(entries) + left
    BY <1>1, <1>2, <1>6
  <2>11. SubSeq(buf', 1, position')
           = (head \o FlattenSeq(Nodes(dir_nodes'))) \o ((<<1>> \o count) \o FlattenSeq(Entries(entries')))
    <3>1. SubSeq(buf', 1, position') = so_far \o e_bytes
      BY <1>4, <2>4
    <3>. QED
      BY <2>3, <2>5, <2>7, <3>1, Zenon
  <2>12. EntriesHere'
    BY <2>1, <2>10, <2>11 DEF EntriesHere
  <2>13. NodesHere'
    BY <1>1 DEF NodesHere
  <2>. QED
    BY <2>12, <2>13 DEF BytesHere
<1>. QED
  BY <1>8, <1>9, <1>10, <1>11, <1>12 DEF IInv

\* All of the node's entries have been read.
LEMMA NodeEndInv ==
    ASSUME IInv, NodeEnd, UNCHANGED inodeVars
    PROVE  IInv'
<1>1. /\ left = 0 /\ step = "entries" /\ status = "parsing" /\ nodes_left > 0
      /\ buf' = buf /\ position' = position /\ status' = status /\ step' = "dir_nodes"
      /\ left' = left /\ entries' = entries
      /\ nodes_left' = nodes_left - 1 /\ dir_nodes' = Append(dir_nodes, entries)
  <2>1. /\ ~(left > 0) /\ step = "entries" /\ status = "parsing"
        /\ buf' = buf /\ position' = position /\ status' = status /\ step' = "dir_nodes"
        /\ left' = left /\ entries' = entries
        /\ nodes_left' = nodes_left - 1 /\ dir_nodes' = Append(dir_nodes, entries)
    BY Zenon DEF NodeEnd, At, MoreItems
  <2>2. left \in 0..TOO_LARGE /\ (step = "entries" => nodes_left > 0)
    BY DEF IInv, TypesOK, NodeBegun
  <2>3. left = 0
    BY <2>1, <2>2
  <2>. QED
    BY <2>1, <2>2, <2>3
<1>2. /\ CursorOK /\ Len(buf) < TOO_LARGE /\ position \in Nat /\ Len(buf) \in Nat
      /\ position <= Len(buf) /\ TOO_LARGE \in Nat
      /\ dir_nodes \in Seq(Seq(EntryType)) /\ entries \in Seq(EntryType) /\ Len(entries) \in Nat
      /\ nodes_left \in 0..TOO_LARGE
  BY CursorKept DEF IInv, TypesOK
<1>3. dir_nodes' \in Seq(Seq(EntryType)) /\ nodes_left' \in 0..TOO_LARGE
  BY <1>1, <1>2
<1>4. TypesOK'
  BY <1>1, <1>3 DEF IInv, TypesOK, inodeVars
<1>5. InodeBegun' /\ SlicesRead' /\ InodesRead'
  BY <1>1, OutsideInodes
<1>6. NodeBegun' /\ NodesNotYet' /\ AtEnd'
  BY <1>1 DEF NodeBegun, NodesNotYet, AtEnd
<1>7. NodesRead'
  <2>1. ValidNode(entries)
    BY <1>1 DEF IInv, NodeBegun
  <2>2. \A i \in DOMAIN dir_nodes : ValidNode(dir_nodes[i])
    BY DEF IInv, NodesRead
  <2>3. \A i \in DOMAIN dir_nodes' : \/ i \in DOMAIN dir_nodes /\ dir_nodes'[i] = dir_nodes[i]
                                     \/ dir_nodes'[i] = entries
    BY <1>1, <1>2
  <2>. QED
    BY <2>1, <2>2, <2>3 DEF NodesRead
<1>8. BytesHere'
  <2> DEFINE so_far == SubSeq(buf, 1, position)
             f == FlattenSeq(Nodes(dir_nodes))
             g == FlattenSeq(Entries(entries))
             node == EncodeNode(entries)
  <2>1. PICK head \in Seq(Nat), count \in Seq(Nat) :
          /\ Len(entries) + left < TOO_LARGE => count = Pack32(Len(entries) + left)
          /\ so_far = (head \o f) \o ((<<1>> \o count) \o g)
    BY <1>1 DEF IInv, BytesHere, EntriesHere
  <2>2. count = Pack32(Len(entries))
    <3>1. Len(entries) <= position
      BY <1>1 DEF IInv, NodeBegun
    <3>2. Len(entries) + left = Len(entries) /\ Len(entries) < TOO_LARGE
      BY <1>1, <1>2, <3>1
    <3>. QED
      BY <2>1, <3>2
  <2>3. f \in Seq(Nat) /\ g \in Seq(Nat) /\ node \in Seq(Nat)
    BY <1>2, NodesEncoded, EntriesEncoded, NodeEncoded
  <2>4. node = (<<1>> \o count) \o g
    BY <1>2, <2>2, NodeEncoded, Zenon
  <2>5. FlattenSeq(Nodes(dir_nodes')) = f \o node
    BY <1>1, <1>2, NodeAppended, Zenon
  <2>6. SubSeq(buf', 1, position') = so_far
    BY <1>1
  <2> HIDE DEF so_far, f, g, node
  <2>7. so_far = (head \o f) \o node
    BY <2>1, <2>4, Zenon
  <2>8. (head \o f) \o node = head \o (f \o node)
    BY <2>1, <2>3, SMTT(30)
  <2>9. NodesHere'
    <3>1. SubSeq(buf', 1, position') = head \o FlattenSeq(Nodes(dir_nodes'))
      BY <2>5, <2>6, <2>7, <2>8, Zenon
    <3>. QED
      BY <2>1, <3>1, Zenon DEF NodesHere
  <2>10. EntriesHere'
    BY <1>1 DEF EntriesHere
  <2>. QED
    BY <2>9, <2>10 DEF BytesHere
<1>. QED
  BY <1>4, <1>5, <1>6, <1>7, <1>8 DEF IInv

\* Nothing is left to read.
LEMMA ParsedInv == IInv /\ BlobParsed => IInv'
<1> SUFFICES ASSUME IInv, BlobParsed
             PROVE  IInv'
  OBVIOUS
<1>1. /\ step = "dir_nodes" /\ status' = "parsed" /\ step' = step
      /\ buf' = buf /\ position' = position /\ left' = left
      /\ UNCHANGED inodeVars /\ UNCHANGED nodeVars
  BY Zenon DEF BlobParsed, At
<1>2. TypesOK'
  BY <1>1 DEF IInv, TypesOK, inodeVars, nodeVars
<1>3. InodeBegun' /\ SlicesRead' /\ InodesRead'
  BY <1>1, OutsideInodes
<1>4. NodeBegun' /\ NodesRead' /\ NodesNotYet' /\ AtEnd'
  BY <1>1 DEF IInv, NodeBegun, NodesRead, NodesNotYet, AtEnd, nodeVars
<1>5. BytesHere'
  BY <1>1 DEF IInv, BytesHere, NodesHere, EntriesHere, nodeVars
<1>. QED
  BY <1>2, <1>3, <1>4, <1>5 DEF IInv

LEMMA StutterInv == IInv /\ UNCHANGED vars => IInv'
<1> SUFFICES ASSUME IInv, UNCHANGED vars
             PROVE  IInv'
  OBVIOUS
<1>1. TypesOK' /\ InodeBegun' /\ SlicesRead' /\ InodesRead'
  BY DEF IInv, TypesOK, InodeBegun, XattrsRead, SlicesRead, FileType, InodesRead,
         vars, loopVars, inodeVars, nodeVars
<1>2. NodeBegun' /\ NodesRead' /\ NodesNotYet' /\ BytesHere' /\ AtEnd'
  BY DEF IInv, NodeBegun, NodesRead, NodesNotYet, BytesHere, NodesHere, EntriesHere, AtEnd,
         vars, loopVars, inodeVars, nodeVars
<1>. QED
  BY <1>1, <1>2 DEF IInv

LEMMA StepInv == IInv /\ [Next]_vars => IInv'
<1> SUFFICES ASSUME IInv, [Next]_vars
             PROVE  IInv'
  OBVIOUS
<1>1. CASE ReadInodeCount \/ ReadNodeCount
  BY <1>1, CountInv, Zenon
<1>2. CASE RejectCount
  BY <1>2, RejectInv, Zenon
<1>3. CASE InodeStep /\ UNCHANGED nodeVars
  <2>1. CASE RejectInode
    BY <1>3, <2>1, RejectInv, Zenon
  <2>2. CASE ReadInodeHead
    BY <1>3, <2>2, InodeHeadInv, Zenon
  <2>3. CASE ReadXattr
    BY <1>3, <2>3, XattrInv, Zenon
  <2>4. CASE ReadContent
    BY <1>3, <2>4, ContentInv, Zenon
  <2>5. CASE BeginSlices
    BY <1>3, <2>5, SlicesBeginInv, Zenon
  <2>6. CASE ReadSlice
    BY <1>3, <2>6, SliceInv, Zenon
  <2>7. CASE SlicesEnd
    BY <1>3, <2>7, SlicesEndInv, Zenon
  <2>. QED
    BY <1>3, <2>1, <2>2, <2>3, <2>4, <2>5, <2>6, <2>7, Zenon DEF InodeStep
<1>4. CASE NodeStep /\ UNCHANGED inodeVars
  <2>1. CASE RejectNode
    BY <1>4, <2>1, RejectInv, Zenon
  <2>2. CASE ReadNodeHead
    BY <1>4, <2>2, NodeHeadInv, Zenon
  <2>3. CASE ReadEntry
    BY <1>4, <2>3, EntryInv, Zenon
  <2>4. CASE NodeEnd
    BY <1>4, <2>4, NodeEndInv, Zenon
  <2>. QED
    BY <1>4, <2>1, <2>2, <2>3, <2>4, Zenon DEF NodeStep
<1>5. CASE BlobParsed
  BY <1>5, ParsedInv, Zenon
<1>6. CASE UNCHANGED vars
  BY <1>6, StutterInv, Zenon
<1>. QED
  BY <1>1, <1>2, <1>3, <1>4, <1>5, <1>6, Zenon DEF Next, Step, Finished

-----------------------------------------------------------------------------
\* The end of a concatenation is a suffix of it.
LEMMA SuffixOfJoined ==
    ASSUME NEW head \in Seq(Nat), NEW s \in Seq(Nat)
    PROVE  IsSuffix(s, head \o s)
<1> DEFINE t == head \o s
<1>1. Len(head) \in Nat /\ Len(s) \in Nat
  OBVIOUS
<1>2. t \in Seq(Nat) /\ Len(t) = Len(head) + Len(s) /\ \A j \in 1..Len(s) : t[Len(head) + j] = s[j]
  OBVIOUS
<1> HIDE DEF t
<1>3. /\ Reverse(s) = [i \in 1..Len(s) |-> s[(Len(s) - i) + 1]]
      /\ Reverse(t) = [i \in 1..Len(t) |-> t[(Len(t) - i) + 1]]
  BY DEF Reverse
<1> DEFINE rs == Reverse(s)
           rt == Reverse(t)
<1>4. rs \in Seq(Nat) /\ Len(rs) = Len(s) /\ \A i \in 1..Len(s) : rs[i] = s[(Len(s) - i) + 1]
  <2>1. \A i \in 1..Len(s) : s[(Len(s) - i) + 1] \in Nat
    BY <1>1
  <2>. QED
    BY <1>1, <1>3, <2>1
<1>5. rt \in Seq(Nat) /\ Len(rt) = Len(t) /\ \A i \in 1..Len(t) : rt[i] = t[(Len(t) - i) + 1]
  <2>1. Len(t) \in Nat /\ \A i \in 1..Len(t) : t[(Len(t) - i) + 1] \in Nat
    BY <1>1, <1>2
  <2>. QED
    BY <1>3, <2>1
<1> HIDE DEF rs, rt
<1>6. Len(rs) <= Len(rt) /\ Len(rs) \in Nat /\ Len(rt) \in Nat
  BY <1>1, <1>2, <1>4, <1>5
<1>7. \A i \in 1..Len(rs) : rs[i] = rt[i]
  <2> TAKE i \in 1..Len(rs)
  <2>1. i \in 1..Len(s) /\ i \in 1..Len(t) /\ (Len(s) - i) + 1 \in 1..Len(s)
        /\ (Len(t) - i) + 1 = Len(head) + ((Len(s) - i) + 1)
    BY <1>1, <1>2, <1>4
  <2>. QED
    BY <1>2, <1>4, <1>5, <2>1
<1>8. SubSeq(rs, 1, Len(rs)) = SubSeq(rt, 1, Len(rs))
  BY <1>4, <1>5, <1>6, <1>7
<1>9. IsPrefix(rs, rt)
  BY <1>6, <1>8 DEF IsPrefix
<1>. QED
  BY <1>9 DEF IsSuffix, rs, rt, t

\* The cursor never leaves the buffer and the loops never leave their steps; the
\* content of each inode that is returned is of its file type, and each entry of
\* a type there is.
THEOREM BlobTypeCorrect == Spec => []TypeOK
<1>1. IInv => TypeOK
  <2> SUFFICES ASSUME IInv
               PROVE  TypeOK
    OBVIOUS
  <2>1. \A i \in DOMAIN inodes : inodes[i].content_handle.kind \in KindsOf(inodes[i].mode)
    BY DEF IInv, InodesRead, ValidInode
  <2>2. \A i \in DOMAIN dir_nodes : \A j \in DOMAIN dir_nodes[i] :
          dir_nodes[i][j].entry_type \in EntryTypes
    BY DEF IInv, NodesRead, ValidNode, ValidEntry
  <2>. QED
    BY <2>1, <2>2 DEF IInv, TypesOK, TypeOK
<1>. QED
  BY <1>1, InitInv, StepInv, PTL DEF Spec

\* Whatever bytes parse_metadata_blob is given, a blob it returns keeps every rule
\* of inode.py and directory_node.py.
THEOREM EveryBlobIsValid == Spec => []ParsedBlobIsValid
<1>1. IInv => ParsedBlobIsValid
  BY DEF IInv, InodesRead, NodesRead, ParsedBlobIsValid, Valid
<1>. QED
  BY <1>1, InitInv, StepInv, PTL DEF Spec

\* The nodes of a blob that parse_metadata_blob returns, encoded as dir_node_hash
\* encodes them, are the bytes of the blob that the parser went over last.
THEOREM NodesEncodeToTheirBytes == Spec => []NodeHashIsOfItsBytes
<1>1. IInv => NodeHashIsOfItsBytes
  <2> SUFFICES ASSUME IInv, status = "parsed"
               PROVE  IsSuffix(FlattenSeq(Nodes(dir_nodes)), SubSeq(buf, 1, position))
    BY DEF NodeHashIsOfItsBytes, Nodes
  <2>1. PICK head \in Seq(Nat) : SubSeq(buf, 1, position) = head \o FlattenSeq(Nodes(dir_nodes))
    BY DEF IInv, AtEnd, BytesHere, NodesHere
  <2>2. FlattenSeq(Nodes(dir_nodes)) \in Seq(Nat)
    BY NodesEncoded DEF IInv, TypesOK
  <2>. QED
    BY <2>1, <2>2, SuffixOfJoined
<1>. QED
  BY <1>1, InitInv, StepInv, PTL DEF Spec

-----------------------------------------------------------------------------
\* Sequences that begin alike go on alike.
LEMMA Cancelled ==
    ASSUME NEW a \in Seq(Nat), NEW b \in Seq(Nat), NEW c \in Seq(Nat), a \o b = a \o c
    PROVE  b = c
<1> DEFINE s == a \o b
           t == a \o c
<1>1. Joined(a, b, s) /\ Joined(a, c, t)
  BY TwoParts, Zenon
<1>2. s = t
  OBVIOUS
<1> HIDE DEF s, t
<1>3. Len(a) \in Nat /\ Len(b) \in Nat /\ Len(c) \in Nat
  OBVIOUS
<1>4. Len(b) = Len(c)
  BY <1>1, <1>2, <1>3 DEF Joined
<1>5. \A j \in 1..Len(b) : b[j] = c[j]
  BY <1>1, <1>2, <1>4 DEF Joined
<1>. QED
  BY <1>4, <1>5, SeqEqual

\* What is left of a list of items when the first k have been read.
Remains(items, k, rest) ==
    rest \in Seq(Nat) /\ FlattenSeq(items) = FlattenSeq(SubSeq(items, 1, k)) \o rest

LEMMA RemainsAll ==
    ASSUME NEW items \in Seq(Seq(Nat))
    PROVE  Remains(items, 0, FlattenSeq(items)) /\ FlattenSeq(items) \in Seq(Nat)
<1>1. FlattenSeq(items) \in Seq(Nat)
  BY FlattenTyped
<1>2. SubSeq(items, 1, 0) = <<>>
  OBVIOUS
<1>3. FlattenSeq(SubSeq(items, 1, 0)) = <<>>
  BY <1>2, FlattenEmpty
<1>4. \A s \in Seq(Nat) : s = <<>> \o s
  OBVIOUS
<1>. QED
  BY <1>1, <1>3, <1>4, Zenon DEF Remains

RemainsMore(items, k, rest) ==
    /\ items[k + 1] \in Seq(Nat)
    /\ \E more : Remains(items, k + 1, more) /\ rest = items[k + 1] \o more

LEMMA RemainsNext ==
    ASSUME NEW items \in Seq(Seq(Nat)), NEW k \in 0..(Len(items) - 1), NEW rest, Remains(items, k, rest)
    PROVE  RemainsMore(items, k, rest)
<1> DEFINE before == SubSeq(items, 1, k)
           upto == SubSeq(items, 1, k + 1)
           item == items[k + 1]
<1>1. /\ before \in Seq(Seq(Nat)) /\ upto \in Seq(Seq(Nat)) /\ item \in Seq(Nat)
      /\ upto = Append(before, item) /\ k + 1 \in 0..Len(items)
  OBVIOUS
<1>2. PICK more \in Seq(Nat) : FlattenSeq(items) = FlattenSeq(upto) \o more
  BY <1>1, FlattenPrefix
<1>3. rest \in Seq(Nat) /\ FlattenSeq(items) = FlattenSeq(before) \o rest
  BY DEF Remains
<1> HIDE DEF before, upto, item
<1>4. FlattenSeq(before) \in Seq(Nat) /\ FlattenSeq(upto) \in Seq(Nat)
  BY <1>1, FlattenTyped
<1>5. FlattenSeq(upto) = FlattenSeq(before) \o item
  BY <1>1, FlattenAppend
<1>6. PICK f \in Seq(Nat) : f = FlattenSeq(before)
  BY <1>4
<1>7. item \o more \in Seq(Nat)
  BY <1>1, <1>2, OneAfterTheOther, Zenon
<1>8. f \o rest = f \o (item \o more)
  <2>1. (f \o item) \o more = f \o (item \o more)
    BY <1>1, <1>2, <1>6, GroupedAtWill, Zenon
  <2>. QED
    BY <1>2, <1>3, <1>5, <1>6, <2>1, Zenon
<1>9. rest = item \o more
  BY <1>3, <1>6, <1>7, <1>8, Cancelled
<1>10. Remains(items, k + 1, more)
  BY <1>2 DEF Remains, upto
<1>. QED
  BY <1>1, <1>9, <1>10 DEF item, RemainsMore

LEMMA RemainsNone ==
    ASSUME NEW items \in Seq(Seq(Nat)), NEW rest, Remains(items, Len(items), rest)
    PROVE  rest = <<>>
<1>1. SubSeq(items, 1, Len(items)) = items
  OBVIOUS
<1>2. FlattenSeq(items) \in Seq(Nat)
  BY FlattenTyped
<1>3. PICK f \in Seq(Nat) : f = FlattenSeq(items)
  BY <1>2
<1>4. rest \in Seq(Nat) /\ f = f \o rest
  BY <1>1, <1>3 DEF Remains
<1>5. <<>> \in Seq(Nat) /\ f = f \o <<>>
  OBVIOUS
<1>6. f \o rest = f \o <<>>
  BY <1>4, <1>5, Zenon
<1>. QED
  BY <1>4, <1>5, <1>6, Cancelled, Zenon

-----------------------------------------------------------------------------
\* What a writer wrote is there as far as the buffer goes: rest is still to be read of
\* total bytes.
Facing(rest, total) == rest \in Seq(Nat) /\ HereAt(0, rest) /\ position + Len(rest) = total

LEMMA FacingFirst ==
    ASSUME NEW item \in Seq(Nat), NEW more \in Seq(Nat), NEW total, Facing(item \o more, total)
    PROVE  HereAt(0, item) /\ Len(item) \in Nat /\ Len(more) \in Nat
           /\ Len(item \o more) = Len(item) + Len(more)
<1>1. HereBoth(0, item, more)
  <2>1. 0 \in Nat
    OBVIOUS
  <2>. QED
    BY <2>1, HereSplit, Zenon DEF Facing
<1>. QED
  BY <1>1 DEF HereBoth

LEMMA FacingNext ==
    ASSUME CursorOK, NEW item \in Seq(Nat), NEW more \in Seq(Nat), NEW total,
           Facing(item \o more, total), Advance(Len(item))
    PROVE  Facing(more, total)'
<1>1. 0 \in Nat
  OBVIOUS
<1>2. HereBoth(0, item, more)
  BY <1>1, HereSplit, Zenon DEF Facing
<1>3. PICK n \in Nat : n = Len(item)
  OBVIOUS
<1>4. /\ HereAt(0 + n, more) /\ Len(more) \in Nat /\ Len(item \o more) = n + Len(more)
      /\ 0 + n = n
  BY <1>2, <1>3 DEF HereBoth
<1>5. position' = position + n /\ buf' = buf
  BY <1>3 DEF Advance
<1>6. position \in Nat /\ Len(buf) \in Nat
  BY DEF CursorOK
<1>7. position' + Len(more) = total
  <2>1. position + (n + Len(more)) = total
    BY <1>4 DEF Facing
  <2>. QED
    BY <1>4, <1>5, <1>6, <2>1
<1>8. ASSUME NEW j \in 1..Len(more), 0 + j <= remaining_len'
      PROVE  U8(0 + j - 1)' = more[j]
  <2>1. n + j <= remaining_len
    BY <1>4, <1>5, <1>6, <1>8 DEF remaining_len
  <2>2. U8(n + j - 1) = more[j]
    BY <1>4, <2>1 DEF HereAt
  <2>3. U8(0 + j - 1)' = U8(n + j - 1)
    <3>1. position' + (0 + j - 1) = position + (n + j - 1)
      BY <1>5, <1>6
    <3>2. U8(0 + j - 1)' = IF position' + (0 + j - 1) < Len(buf') THEN buf'[position' + (0 + j - 1) + 1] ELSE 0
      BY DEF U8
    <3>. QED
      BY <1>5, <3>1, <3>2 DEF U8
  <2>. QED
    BY <2>2, <2>3
<1>9. HereAt(0, more)'
  BY <1>8 DEF HereAt
<1>. QED
  BY <1>7, <1>9 DEF Facing

\* A row finds too little of the item.
LEMMA FacingShort ==
    ASSUME CursorOK, NEW item \in Seq(Nat), NEW more \in Seq(Nat), NEW total,
           Facing(item \o more, total),
           NEW checks \in Seq(Outcomes), OnlyShort(checks, Len(item)), NEW st, Reject(st, checks)
    PROVE  status' = "Truncated" /\ Len(buf) < total
<1>1. ~Passes(checks) /\ status' = FirstFailure(checks)
  BY DEF Reject
<1>2. FirstFailure(checks) = "Truncated" /\ remaining_len < Len(item)
  BY <1>1, FailsShort
<1>3. /\ Len(item) \in Nat /\ Len(more) \in Nat /\ Len(item \o more) = Len(item) + Len(more)
      /\ position + Len(item \o more) = total
  BY FacingFirst DEF Facing
<1>4. position \in Nat /\ Len(buf) \in Nat
  BY DEF CursorOK
<1>. QED
  BY <1>1, <1>2, <1>3, <1>4 DEF remaining_len

-----------------------------------------------------------------------------
\* What is written, field by field.

LEMMA PackWidth == \A n \in Nat : Pack32(n) \in Seq(Nat) /\ Len(Pack32(n)) = 4
<1>1. \A n \in Nat : Pack32(n) \in Seq(Nat)
  BY BytesAreNumbers
<1>2. \A n \in Nat : Len(Pack32(n)) = 4
  BY DEF Pack32
<1>. QED
  BY <1>1, <1>2

LEMMA WidthOf ==
    /\ \A b \in ByteString : b \in Seq(Nat) /\ Len(b) \in Nat
    /\ \A n \in Nat : \A b \in BytesOf(n) : b \in ByteString /\ b \in Seq(Nat) /\ Len(b) = n
<1>1. \A b \in ByteString : b \in Seq(Nat) /\ Len(b) \in Nat
  BY BytesAreNumbers DEF ByteString
<1>2. \A n \in Nat : \A b \in BytesOf(n) : b \in ByteString /\ Len(b) = n
  BY Zenon DEF BytesOf
<1>. QED
  BY <1>1, <1>2

WideAs(b, n) == b \in Seq(Nat) /\ Len(b) = n

XattrFields(x) ==
    /\ x.namespace \in Nat /\ x.key \in Seq(Nat) /\ x.value \in Seq(Nat)
    /\ x = [namespace |-> x.namespace, key |-> x.key, value |-> x.value]

LEMMA XattrsWritten == \A x \in WrittenXattr : XattrFields(x)
<1> TAKE x \in WrittenXattr
<1>1. /\ x.namespace \in U8Values /\ x.key \in ByteString /\ x.value \in ByteString
      /\ x = [namespace |-> x.namespace, key |-> x.key, value |-> x.value]
  BY DEF WrittenXattr
<1>2. x.namespace \in Nat
  BY <1>1 DEF U8Values
<1>. QED
  BY <1>1, <1>2, WidthOf, Zenon DEF XattrFields

SliceFields(x) ==
    /\ WideAs(x.file_byte_start, 8) /\ WideAs(x.file_byte_end, 8) /\ WideAs(x.drop_id, 32)
    /\ WideAs(x.drop_byte_start, 4) /\ WideAs(x.drop_byte_len, 4)
    /\ x = [file_byte_start |-> x.file_byte_start, file_byte_end |-> x.file_byte_end,
            drop_id |-> x.drop_id, drop_byte_start |-> x.drop_byte_start,
            drop_byte_len |-> x.drop_byte_len]

LEMMA SlicesWritten == \A x \in WrittenSlice : SliceFields(x)
<1> TAKE x \in WrittenSlice
<1>1. /\ x.file_byte_start \in BytesOf(8) /\ x.file_byte_end \in BytesOf(8) /\ x.drop_id \in BytesOf(32)
      /\ x.drop_byte_start \in BytesOf(4) /\ x.drop_byte_len \in BytesOf(4)
      /\ x = [file_byte_start |-> x.file_byte_start, file_byte_end |-> x.file_byte_end,
              drop_id |-> x.drop_id, drop_byte_start |-> x.drop_byte_start,
              drop_byte_len |-> x.drop_byte_len]
  BY DEF WrittenSlice
<1>2. 8 \in Nat /\ 32 \in Nat /\ 4 \in Nat
  OBVIOUS
<1>. QED
  BY <1>1, <1>2, WidthOf, Zenon DEF SliceFields, WideAs

EntryFields(x) ==
    /\ x.name \in Seq(Nat) /\ x.name \in ByteString /\ WideAs(x.inode_number, 8) /\ x.entry_type \in Nat
    /\ x = [name |-> x.name, inode_number |-> x.inode_number, entry_type |-> x.entry_type]

LEMMA EntriesWritten == \A x \in WrittenEntry : EntryFields(x)
<1> TAKE x \in WrittenEntry
<1>1. /\ x.name \in ByteString /\ x.inode_number \in BytesOf(8) /\ x.entry_type \in U8Values
      /\ x = [name |-> x.name, inode_number |-> x.inode_number, entry_type |-> x.entry_type]
  BY DEF WrittenEntry
<1>2. 8 \in Nat /\ x.entry_type \in Nat
  BY <1>1 DEF U8Values
<1>. QED
  BY <1>1, <1>2, WidthOf, Zenon DEF EntryFields, WideAs

InodeFields(i) ==
    /\ WideAs(i.number, 8) /\ WideAs(i.mode, 4) /\ WideAs(i.uid, 4) /\ WideAs(i.gid, 4)
    /\ WideAs(i.mtime_ns, 8) /\ WideAs(i.ctime_ns, 8) /\ WideAs(i.nlink, 4)
    /\ i.atime_ns = <<>> \/ WideAs(i.atime_ns, 8)
    /\ i.xattrs \in Seq(WrittenXattr)
    /\ i.content_handle \in WrittenContent
    /\ OfItsType(i)
    /\ i = [number |-> i.number, mode |-> i.mode, uid |-> i.uid, gid |-> i.gid,
            mtime_ns |-> i.mtime_ns, ctime_ns |-> i.ctime_ns, nlink |-> i.nlink,
            atime_ns |-> i.atime_ns, xattrs |-> i.xattrs, content_handle |-> i.content_handle]

LEMMA InodesWritten == \A i \in WrittenInode : InodeFields(i)
<1> TAKE i \in WrittenInode
<1>1. /\ i.number \in BytesOf(8) /\ i.mode \in BytesOf(4) /\ i.uid \in BytesOf(4) /\ i.gid \in BytesOf(4)
      /\ i.mtime_ns \in BytesOf(8) /\ i.ctime_ns \in BytesOf(8) /\ i.nlink \in BytesOf(4)
      /\ i.atime_ns \in {<<>>} \cup BytesOf(8)
      /\ i.xattrs \in Seq(WrittenXattr)
      /\ i.content_handle \in WrittenContent
      /\ OfItsType(i)
      /\ i = [number |-> i.number, mode |-> i.mode, uid |-> i.uid, gid |-> i.gid,
              mtime_ns |-> i.mtime_ns, ctime_ns |-> i.ctime_ns, nlink |-> i.nlink,
              atime_ns |-> i.atime_ns, xattrs |-> i.xattrs, content_handle |-> i.content_handle]
  BY DEF WrittenInode
<1>2. 8 \in Nat /\ 4 \in Nat /\ (i.atime_ns = <<>> \/ i.atime_ns \in BytesOf(8))
  BY <1>1
<1>. QED
  BY <1>1, <1>2, WidthOf, Zenon DEF InodeFields, WideAs

LEMMA ContentsWritten ==
    \A c \in WrittenContent :
        /\ c.kind \in {"INLINE_DATA", "SYMLINK"} => c.value \in Seq(Nat)
        /\ c.kind = "SLICE_MAP" => c.value \in Seq(WrittenSlice)
        /\ c.kind = "DIRECTORY" => WideAs(c.value, 32)
        /\ c.kind \in {"DEVICE", "PIPE"} => WideAs(c.value, 8)
        /\ c.kind \in {"INLINE_DATA", "SYMLINK", "SLICE_MAP", "DIRECTORY", "DEVICE", "PIPE"}
        /\ c = [kind |-> c.kind, value |-> c.value]
<1> TAKE c \in WrittenContent
<1>1. /\ c.kind \in {"INLINE_DATA", "SYMLINK"} => c.value \in ByteString
      /\ c.kind = "SLICE_MAP" => c.value \in Seq(WrittenSlice)
      /\ c.kind = "DIRECTORY" => c.value \in BytesOf(32)
      /\ c.kind \in {"DEVICE", "PIPE"} => c.value \in BytesOf(8)
      /\ c.kind \in {"INLINE_DATA", "SYMLINK", "SLICE_MAP", "DIRECTORY", "DEVICE", "PIPE"}
      /\ c = [kind |-> c.kind, value |-> c.value]
  BY DEF WrittenContent
<1>2. 32 \in Nat /\ 8 \in Nat
  OBVIOUS
<1>. QED
  BY <1>1, <1>2, WidthOf, Zenon DEF WideAs

-----------------------------------------------------------------------------
\* The reads of one field after another.

LEMMA ReadsCount ==
    ASSUME CursorOK, NEW o \in Nat, NEW n \in Nat, HereAt(o, Pack32(n)), o + 4 <= remaining_len
    PROVE  U32(o) = n
<1>1. PICK f : f = Pack32(n)
  OBVIOUS
<1>2. Len(f) = 4 /\ f[1] = n % 256 /\ f[2] = (n \div 256) % 256 /\ f[3] = n \div 65536 /\ f[4] = 0
  BY <1>1 DEF Pack32
<1>3. remaining_len \in Int
  BY DEF CursorOK, remaining_len
<1>4. \A j \in 1..4 : j \in 1..Len(f) /\ o + j <= remaining_len
  BY <1>2, <1>3
<1>5. \A j \in 1..4 : U8(o + j - 1) = f[j]
  BY <1>1, <1>4 DEF HereAt
<1>6. /\ o + 1 - 1 = o /\ o + 2 - 1 = o + 1 /\ o + 3 - 1 = o + 2 /\ o + 4 - 1 = o + 3
      /\ 1 \in 1..4 /\ 2 \in 1..4 /\ 3 \in 1..4 /\ 4 \in 1..4
  OBVIOUS
<1>7. U8(o) = f[1] /\ U8(o + 1) = f[2] /\ U8(o + 2) = f[3] /\ U8(o + 3) = f[4]
  BY <1>5, <1>6
<1>8. PackedAt(o, n)
  BY <1>2, <1>7 DEF PackedAt
<1>. QED
  BY <1>8, U32Unpacked

\* The field f of n bytes after the p bytes a.
FieldAt(a, f, p, n) ==
    /\ WideAs(a \o f, p + n)
    /\ HereAt(0, a) /\ HereAt(p, f)
    /\ p + n <= remaining_len => Bytes(p, n) = f

LEMMA LastField ==
    ASSUME CursorOK, NEW a, NEW f, NEW p \in Nat, NEW n \in Nat,
           WideAs(a, p), WideAs(f, n), HereAt(0, a \o f)
    PROVE  FieldAt(a, f, p, n) /\ p + n \in Nat
<1>1. a \in Seq(Nat) /\ f \in Seq(Nat) /\ Len(a) = p /\ Len(f) = n /\ 0 \in Nat
  BY DEF WideAs
<1>2. HereBoth(0, a, f)
  BY <1>1, HereSplit, Zenon
<1>3. HereAt(0, a) /\ HereAt(p, f) /\ a \o f \in Seq(Nat) /\ Len(a \o f) = p + n
  BY <1>1, <1>2 DEF HereBoth
<1>4. p + n <= remaining_len => Bytes(p, n) = f
  BY <1>1, <1>3, ReadsBytes
<1>. QED
  BY <1>3, <1>4 DEF FieldAt, WideAs

\* The byte f after them.
LEMMA LastByte ==
    ASSUME CursorOK, NEW a, NEW b \in Nat, NEW p \in Nat, WideAs(a, p), HereAt(0, a \o <<b>>)
    PROVE  /\ WideAs(a \o <<b>>, p + 1) /\ HereAt(0, a)
           /\ p + 1 <= remaining_len => U8(p) = b
<1>1. WideAs(<<b>>, 1) /\ 1 \in Nat
  BY DEF WideAs
<1>2. FieldAt(a, <<b>>, p, 1)
  BY <1>1, LastField
<1>. QED
  BY <1>2, ReadsU8 DEF FieldAt

LEMMA JoinedWidth ==
    ASSUME NEW a, NEW f, NEW p \in Nat, NEW n \in Nat, WideAs(a, p), WideAs(f, n)
    PROVE  WideAs(a \o f, p + n) /\ p + n \in Nat
BY DEF WideAs

\* Bytes after their length.
BytesAt(o, b) ==
    /\ Len(b) \in Nat /\ EncodeBytes(b) \in Seq(Nat) /\ Len(EncodeBytes(b)) = 4 + Len(b)
    /\ o + 4 <= remaining_len => U32(o) = Len(b)
    /\ o + 4 + Len(b) <= remaining_len => Bytes(o + 4, Len(b)) = b

LEMMA BytesWidth ==
    ASSUME NEW b \in Seq(Nat)
    PROVE  Len(b) \in Nat /\ WideAs(EncodeBytes(b), 4 + Len(b)) /\ 4 + Len(b) \in Nat
<1>1. Len(b) \in Nat /\ 4 \in Nat
  OBVIOUS
<1>2. WideAs(Pack32(Len(b)), 4) /\ WideAs(b, Len(b))
  BY <1>1, PackWidth DEF WideAs
<1>3. EncodeBytes(b) = Pack32(Len(b)) \o b
  BY DEF EncodeBytes
<1>. QED
  BY <1>1, <1>2, <1>3, JoinedWidth

LEMMA ReadsBlob ==
    ASSUME CursorOK, NEW o \in Nat, NEW b \in Seq(Nat), HereAt(o, EncodeBytes(b))
    PROVE  BytesAt(o, b)
<1>1. PICK head : head = Pack32(Len(b))
  OBVIOUS
<1>2. head \in Seq(Nat) /\ Len(head) = 4 /\ Len(b) \in Nat
  <2>1. Len(b) \in Nat
    OBVIOUS
  <2>. QED
    BY <1>1, <2>1, PackWidth
<1>3. EncodeBytes(b) = head \o b
  BY <1>1 DEF EncodeBytes
<1>4. HereBoth(o, head, b)
  BY <1>2, <1>3, HereSplit
<1>5. HereAt(o, Pack32(Len(b))) /\ HereAt(o + 4, b) /\ Len(head \o b) = 4 + Len(b)
  BY <1>1, <1>2, <1>4, Zenon DEF HereBoth
<1>6. ASSUME o + 4 <= remaining_len
      PROVE  U32(o) = Len(b)
  BY <1>2, <1>5, <1>6, ReadsCount
<1>7. ASSUME o + 4 + Len(b) <= remaining_len
      PROVE  Bytes(o + 4, Len(b)) = b
  <2>1. o + 4 \in Nat /\ (o + 4) + Len(b) <= remaining_len
    BY <1>7
  <2>. QED
    BY <1>5, <2>1, ReadsBytes
<1>. QED
  BY <1>2, <1>3, <1>4, <1>5, <1>6, <1>7 DEF BytesAt, HereBoth

-----------------------------------------------------------------------------
\* The head of an inode: the fixed prefix, atime and the number of attributes.

LEMMA FlagsSay ==
    ASSUME NEW i
    PROVE  /\ FlagsOf(i) \in 0..7 /\ FlagsOf(i) \in Nat
           /\ HasAtime(FlagsOf(i)) <=> i.atime_ns # <<>>
           /\ HasXattrs(FlagsOf(i)) <=> i.xattrs # <<>>
           /\ HasInlineData(FlagsOf(i)) <=> i.content_handle.kind = "INLINE_DATA"
<1> DEFINE a == IF i.atime_ns = <<>> THEN 0 ELSE 1
           b == IF i.xattrs = <<>> THEN 0 ELSE 2
           c == IF i.content_handle.kind = "INLINE_DATA" THEN 4 ELSE 0
<1>1. a \in {0, 1} /\ b \in {0, 2} /\ c \in {0, 4}
  OBVIOUS
<1>2. /\ a = 1 <=> i.atime_ns # <<>>
      /\ b = 2 <=> i.xattrs # <<>>
      /\ c = 4 <=> i.content_handle.kind = "INLINE_DATA"
  OBVIOUS
<1>3. FlagsOf(i) = a + b + c
  BY DEF FlagsOf
<1> HIDE DEF a, b, c
<1>4. /\ a + b + c \in 0..7 /\ a + b + c \in Nat
      /\ (a + b + c) % 2 = 1 <=> a = 1
      /\ ((a + b + c) \div 2) % 2 = 1 <=> b = 2
      /\ ((a + b + c) \div 4) % 2 = 1 <=> c = 4
  BY <1>1
<1>. QED
  BY <1>2, <1>3, <1>4 DEF HasAtime, HasXattrs, HasInlineData

Prefix(i) ==
    i.number \o i.mode \o i.uid \o i.gid \o i.mtime_ns \o i.ctime_ns \o i.nlink \o <<FlagsOf(i)>>
CountPart(i) == IF i.xattrs = <<>> THEN <<>> ELSE Pack32(Len(i.xattrs))
HeadOf(i) == (Prefix(i) \o i.atime_ns) \o CountPart(i)
Xattrs(list) == [j \in DOMAIN list |-> EncodeXattr(list[j])]
Slices(list) == [j \in DOMAIN list |-> EncodeSlice(list[j])]

LEMMA EightFields ==
    ASSUME CursorOK, NEW a, NEW m, NEW u, NEW g, NEW t, NEW c, NEW l, NEW b \in Nat,
           WideAs(a, 8), WideAs(m, 4), WideAs(u, 4), WideAs(g, 4), WideAs(t, 8), WideAs(c, 8),
           WideAs(l, 4), HereAt(0, a \o m \o u \o g \o t \o c \o l \o <<b>>)
    PROVE  41 <= remaining_len =>
             /\ Bytes(0, 8) = a /\ Bytes(8, 4) = m /\ Bytes(12, 4) = u /\ Bytes(16, 4) = g
             /\ Bytes(20, 8) = t /\ Bytes(28, 8) = c /\ Bytes(36, 4) = l /\ U8(40) = b
<1>0. remaining_len \in Int
  BY DEF CursorOK, remaining_len
<1>1. WideAs(a \o m, 12)
  BY JoinedWidth
<1>2. WideAs(a \o m \o u, 16)
  BY <1>1, JoinedWidth
<1>3. WideAs(a \o m \o u \o g, 20)
  BY <1>2, JoinedWidth
<1>4. WideAs(a \o m \o u \o g \o t, 28)
  BY <1>3, JoinedWidth
<1>5. WideAs(a \o m \o u \o g \o t \o c, 36)
  BY <1>4, JoinedWidth
<1>6. WideAs(a \o m \o u \o g \o t \o c \o l, 40)
  BY <1>5, JoinedWidth
<1>7. /\ HereAt(0, a \o m \o u \o g \o t \o c \o l)
      /\ 41 <= remaining_len => U8(40) = b
  BY <1>6, LastByte
<1>8. HereAt(0, a \o m \o u \o g \o t \o c) /\ (40 <= remaining_len => Bytes(36, 4) = l)
  BY <1>5, <1>7, LastField DEF FieldAt
<1>9. HereAt(0, a \o m \o u \o g \o t) /\ (36 <= remaining_len => Bytes(28, 8) = c)
  BY <1>4, <1>8, LastField DEF FieldAt
<1>10. HereAt(0, a \o m \o u \o g) /\ (28 <= remaining_len => Bytes(20, 8) = t)
  BY <1>3, <1>9, LastField DEF FieldAt
<1>11. HereAt(0, a \o m \o u) /\ (20 <= remaining_len => Bytes(16, 4) = g)
  BY <1>2, <1>10, LastField DEF FieldAt
<1>12. HereAt(0, a \o m) /\ (16 <= remaining_len => Bytes(12, 4) = u)
  BY <1>1, <1>11, LastField DEF FieldAt
<1>13. HereAt(0, a) /\ (12 <= remaining_len => Bytes(8, 4) = m)
  BY <1>12, LastField DEF FieldAt
<1>14. ASSUME 8 <= remaining_len
       PROVE  Bytes(0, 8) = a
  <2>1. a \in Seq(Nat) /\ Len(a) = 8 /\ 0 \in Nat /\ 0 + Len(a) <= remaining_len
    BY <1>14 DEF WideAs
  <2>. QED
    BY <1>13, <2>1, ReadsBytes
<1>. QED
  BY <1>0, <1>7, <1>8, <1>9, <1>10, <1>11, <1>12, <1>13, <1>14

\* x is what is read of inode i from its head.
SameHead(x, i) ==
    /\ x.number = i.number /\ x.mode = i.mode /\ x.uid = i.uid /\ x.gid = i.gid
    /\ x.mtime_ns = i.mtime_ns /\ x.ctime_ns = i.ctime_ns /\ x.nlink = i.nlink
    /\ x.atime_ns = i.atime_ns

HeadWidths(i) ==
    /\ Len(i.atime_ns) = IF i.atime_ns = <<>> THEN 0 ELSE 8
    /\ Len(CountPart(i)) = IF i.xattrs = <<>> THEN 0 ELSE 4
    /\ WideAs(Prefix(i), 41)
    /\ i.atime_ns \in Seq(Nat) /\ CountPart(i) \in Seq(Nat)
    /\ WideAs(HeadOf(i), 41 + Len(i.atime_ns) + Len(CountPart(i)))
    /\ Len(i.xattrs) \in Nat /\ (Len(i.xattrs) = 0 <=> i.xattrs = <<>>)

LEMMA HeadIsWide ==
    ASSUME NEW i, InodeFields(i)
    PROVE  HeadWidths(i)
<1>1. WideAs(Prefix(i), 41)
  <2>1. WideAs(i.number, 8) /\ WideAs(i.mode, 4) /\ WideAs(i.uid, 4) /\ WideAs(i.gid, 4)
        /\ WideAs(i.mtime_ns, 8) /\ WideAs(i.ctime_ns, 8) /\ WideAs(i.nlink, 4)
    BY DEF InodeFields
  <2>2. WideAs(<<FlagsOf(i)>>, 1)
    BY FlagsSay DEF WideAs
  <2>3. WideAs(i.number \o i.mode, 12)
    BY <2>1, JoinedWidth
  <2>4. WideAs(i.number \o i.mode \o i.uid, 16)
    BY <2>1, <2>3, JoinedWidth
  <2>5. WideAs(i.number \o i.mode \o i.uid \o i.gid, 20)
    BY <2>1, <2>4, JoinedWidth
  <2>6. WideAs(i.number \o i.mode \o i.uid \o i.gid \o i.mtime_ns, 28)
    BY <2>1, <2>5, JoinedWidth
  <2>7. WideAs(i.number \o i.mode \o i.uid \o i.gid \o i.mtime_ns \o i.ctime_ns, 36)
    BY <2>1, <2>6, JoinedWidth
  <2>8. WideAs(i.number \o i.mode \o i.uid \o i.gid \o i.mtime_ns \o i.ctime_ns \o i.nlink, 40)
    BY <2>1, <2>7, JoinedWidth
  <2>. QED
    BY <2>2, <2>8, JoinedWidth DEF Prefix
<1>0. <<>> \in Seq(Nat) /\ Len(<<>>) = 0
  OBVIOUS
<1>2. i.atime_ns \in Seq(Nat) /\ Len(i.atime_ns) = IF i.atime_ns = <<>> THEN 0 ELSE 8
  <2>1. CASE i.atime_ns = <<>>
    <3>1. i.atime_ns \in Seq(Nat)
      BY <1>0, <2>1, Zenon
    <3>2. Len(i.atime_ns) = 0
      BY <1>0, <2>1, Zenon
    <3>. QED
      BY <2>1, <3>1, <3>2, SMT
  <2>2. CASE WideAs(i.atime_ns, 8)
    <3>1. i.atime_ns \in Seq(Nat) /\ Len(i.atime_ns) = 8
      BY <2>2, Zenon DEF WideAs
    <3>2. 8 # 0
      OBVIOUS
    <3>3. i.atime_ns # <<>>
      BY <1>0, <3>1, <3>2, Zenon
    <3>. QED
      BY <3>1, <3>3, Zenon
  <2>. QED
    BY <2>1, <2>2, Zenon DEF InodeFields
<1>3. Len(i.xattrs) \in Nat /\ (Len(i.xattrs) = 0 <=> i.xattrs = <<>>)
  <2>1. i.xattrs \in Seq(WrittenXattr)
    BY DEF InodeFields
  <2>. QED
    BY <2>1
<1>4. CountPart(i) \in Seq(Nat) /\ Len(CountPart(i)) = IF i.xattrs = <<>> THEN 0 ELSE 4
  <2>1. CASE i.xattrs = <<>>
    <3>1. CountPart(i) = <<>>
      BY <2>1, Zenon DEF CountPart
    <3>2. CountPart(i) \in Seq(Nat)
      BY <1>0, <3>1, Zenon
    <3>3. Len(CountPart(i)) = 0
      BY <1>0, <3>1, Zenon
    <3>. QED
      BY <2>1, <3>2, <3>3, Zenon
  <2>2. CASE i.xattrs # <<>>
    BY <1>3, <2>2, PackWidth, Zenon DEF CountPart
  <2>. QED
    BY <2>1, <2>2, Zenon
<1> DEFINE a == i.atime_ns
           n == CountPart(i)
           p == Prefix(i)
<1>5. HeadOf(i) = (p \o a) \o n
  BY DEF HeadOf
<1>6. WideAs(a, Len(a)) /\ WideAs(n, Len(n)) /\ Len(a) \in Nat /\ Len(n) \in Nat
  BY <1>2, <1>4 DEF WideAs
<1>7. WideAs(HeadOf(i), 41 + Len(a) + Len(n))
  <2>1. WideAs(p, 41)
    BY <1>1
  <2> HIDE DEF a, n, p
  <2>2. WideAs(p \o a, 41 + Len(a)) /\ 41 + Len(a) \in Nat
    BY <1>6, <2>1, JoinedWidth
  <2>. QED
    BY <1>5, <1>6, <2>2, JoinedWidth
<1>. QED
  BY <1>1, <1>2, <1>3, <1>4, <1>7 DEF HeadWidths

HeadGiven(i) ==
    /\ 41 <= remaining_len =>
         /\ Bytes(0, 8) = i.number /\ Bytes(8, 4) = i.mode /\ Bytes(12, 4) = i.uid
         /\ Bytes(16, 4) = i.gid /\ Bytes(20, 8) = i.mtime_ns /\ Bytes(28, 8) = i.ctime_ns
         /\ Bytes(36, 4) = i.nlink /\ U8(40) = FlagsOf(i)
    /\ 41 + Len(i.atime_ns) <= remaining_len => Bytes(41, Len(i.atime_ns)) = i.atime_ns
    /\ i.xattrs # <<>> /\ 41 + Len(i.atime_ns) + 4 <= remaining_len =>
         U32(41 + Len(i.atime_ns)) = Len(i.xattrs)

LEMMA HeadReads ==
    ASSUME CursorOK, NEW i, InodeFields(i), HereAt(0, HeadOf(i))
    PROVE  HeadGiven(i)
<1> DEFINE a == i.atime_ns
           n == CountPart(i)
           p == Prefix(i)
<1>1. HeadWidths(i)
  BY HeadIsWide
<1>2. a \in Seq(Nat) /\ n \in Seq(Nat) /\ Len(a) \in Nat /\ Len(n) \in Nat
      /\ WideAs(p, 41) /\ p \in Seq(Nat) /\ 41 \in Nat
  BY <1>1 DEF HeadWidths, WideAs
<1>3. HereAt(0, (p \o a) \o n)
  BY DEF HeadOf
<1>4. CountPart(i) = n
  OBVIOUS
<1>5. HereAt(0, Prefix(i) \o a) /\ HereAt(41 + Len(a), n)
  <2> HIDE DEF a, n, p
  <2>1. WideAs(a, Len(a)) /\ WideAs(n, Len(n))
    BY <1>2 DEF WideAs
  <2>2. WideAs(p \o a, 41 + Len(a)) /\ 41 + Len(a) \in Nat
    BY <1>2, <2>1, JoinedWidth
  <2>3. FieldAt(p \o a, n, 41 + Len(a), Len(n))
    BY <1>2, <1>3, <2>1, <2>2, LastField
  <2>. QED
    BY <2>3 DEF FieldAt, p
<1>6. FieldAt(Prefix(i), a, 41, Len(a))
  <2>1. WideAs(a, Len(a)) /\ WideAs(Prefix(i), 41)
    BY <1>2 DEF WideAs
  <2> HIDE DEF a
  <2>. QED
    BY <1>2, <1>5, <2>1, LastField
<1>7. 41 <= remaining_len =>
         /\ Bytes(0, 8) = i.number /\ Bytes(8, 4) = i.mode /\ Bytes(12, 4) = i.uid
         /\ Bytes(16, 4) = i.gid /\ Bytes(20, 8) = i.mtime_ns /\ Bytes(28, 8) = i.ctime_ns
         /\ Bytes(36, 4) = i.nlink /\ U8(40) = FlagsOf(i)
  <2>1. WideAs(i.number, 8) /\ WideAs(i.mode, 4) /\ WideAs(i.uid, 4) /\ WideAs(i.gid, 4)
        /\ WideAs(i.mtime_ns, 8) /\ WideAs(i.ctime_ns, 8) /\ WideAs(i.nlink, 4)
    BY DEF InodeFields
  <2>2. FlagsOf(i) \in Nat
    BY FlagsSay
  <2>3. HereAt(0, i.number \o i.mode \o i.uid \o i.gid \o i.mtime_ns \o i.ctime_ns \o i.nlink \o <<FlagsOf(i)>>)
    BY <1>6 DEF FieldAt, Prefix
  <2>. QED
    BY <2>1, <2>2, <2>3, EightFields
<1>8. 41 + Len(a) <= remaining_len => Bytes(41, Len(a)) = a
  BY <1>6 DEF FieldAt
<1>9. ASSUME i.xattrs # <<>>, 41 + Len(a) + 4 <= remaining_len
      PROVE  U32(41 + Len(a)) = Len(i.xattrs)
  <2>1. HereAt(41 + Len(a), Pack32(Len(i.xattrs))) /\ Len(i.xattrs) \in Nat /\ 41 + Len(a) \in Nat
    BY <1>1, <1>2, <1>5, <1>9 DEF CountPart, HeadWidths
  <2>. QED
    BY <1>9, <2>1, ReadsCount
<1>. QED
  BY <1>7, <1>8, <1>9 DEF HeadGiven

LEMMA HeadLengths ==
    ASSUME CursorOK, NEW i, InodeFields(i), U8(40) = FlagsOf(i)
    PROVE  AtimeLen = Len(i.atime_ns) /\ XattrCountLen = Len(CountPart(i))
           /\ InodeHeadLen = Len(HeadOf(i))
<1>1. HeadWidths(i)
  BY HeadIsWide
<1>2. AtimeLen = Len(i.atime_ns)
  BY <1>1, FlagsSay DEF AtimeLen, HeadWidths
<1>3. XattrCountLen = Len(CountPart(i))
  BY <1>1, FlagsSay DEF XattrCountLen, HeadWidths
<1>4. Len(HeadOf(i)) = 41 + Len(i.atime_ns) + Len(CountPart(i))
  BY <1>1 DEF HeadWidths, WideAs
<1>. QED
  BY <1>2, <1>3, <1>4 DEF InodeHeadLen, INODE_FIXED_PREFIX_LEN

\* The head that parse_inode reads is that of the inode written here.
LEMMA HeadMet ==
    ASSUME CursorOK, NEW i, InodeFields(i), HereAt(0, HeadOf(i)), Passes(InodeHeadChecks)
    PROVE  /\ SameHead(NextInode, i) /\ NextInode.xattrs = <<>>
           /\ U8(40) = FlagsOf(i)
           /\ InodeHeadLen = Len(HeadOf(i))
           /\ (IF HasXattrs(U8(40)) THEN U32(INODE_FIXED_PREFIX_LEN + AtimeLen) ELSE 0) = Len(i.xattrs)
<1>0. HeadGiven(i) /\ HeadWidths(i)
  BY HeadReads, HeadIsWide
<1>1. /\ AtimeLen \in {0, 8} /\ XattrCountLen \in {0, 4}
      /\ InodeHeadLen = 41 + AtimeLen + XattrCountLen
      /\ position + InodeHeadLen <= Len(buf)
  BY InodeHeadPassed
<1>2. /\ 41 <= remaining_len /\ 41 + AtimeLen <= remaining_len
      /\ 41 + AtimeLen + XattrCountLen <= remaining_len
  BY <1>1 DEF remaining_len, CursorOK
<1>3. U8(40) = FlagsOf(i)
  BY <1>0, <1>2 DEF HeadGiven
<1>4. AtimeLen = Len(i.atime_ns) /\ XattrCountLen = Len(CountPart(i)) /\ InodeHeadLen = Len(HeadOf(i))
  BY <1>3, HeadLengths
<1>5. SameHead(NextInode, i) /\ NextInode.xattrs = <<>>
  BY <1>0, <1>2, <1>4 DEF HeadGiven, SameHead, NextInode, INODE_FIXED_PREFIX_LEN
<1>6. (IF HasXattrs(U8(40)) THEN U32(INODE_FIXED_PREFIX_LEN + AtimeLen) ELSE 0) = Len(i.xattrs)
  <2>1. CASE i.xattrs = <<>>
    BY <1>0, <1>3, <2>1, FlagsSay DEF HeadWidths
  <2>2. CASE i.xattrs # <<>>
    <3>1. XattrCountLen = 4 /\ HasXattrs(U8(40))
      BY <1>0, <1>3, <1>4, <2>2, FlagsSay DEF HeadWidths
    <3>2. U32(41 + AtimeLen) = Len(i.xattrs)
      BY <1>0, <1>2, <1>4, <2>2, <3>1 DEF HeadGiven
    <3>. QED
      BY <3>1, <3>2 DEF INODE_FIXED_PREFIX_LEN
  <2>. QED
    BY <2>1, <2>2
<1>. QED
  BY <1>3, <1>4, <1>5, <1>6

LEMMA HeadShort ==
    ASSUME CursorOK, NEW i, InodeFields(i), HereAt(0, HeadOf(i))
    PROVE  OnlyShort(InodeHeadChecks, Len(HeadOf(i)))
<1>0. HeadGiven(i) /\ HeadWidths(i) /\ remaining_len \in Int
  BY HeadReads, HeadIsWide DEF CursorOK, remaining_len
<1>1. Len(HeadOf(i)) \in Nat /\ 41 <= Len(HeadOf(i))
  BY <1>0 DEF HeadWidths, WideAs
<1>2. Short(Read(41), Len(HeadOf(i))) /\ (Read(41) = "ok" => 41 <= remaining_len)
  BY <1>0, <1>1, ReadShort
<1>3. ASSUME Read(41) = "ok"
      PROVE  /\ Short(Check(ReservedClear(U8(40)), "Corrupt"), Len(HeadOf(i)))
             /\ Short(Read(InodeHeadLen), Len(HeadOf(i)))
  <2>1. U8(40) = FlagsOf(i)
    BY <1>0, <1>2, <1>3 DEF HeadGiven
  <2>2. InodeHeadLen = Len(HeadOf(i))
    BY <2>1, HeadLengths
  <2>3. ReservedClear(U8(40)) = TRUE
    <3>1. FlagsOf(i) \in 0..7
      BY FlagsSay
    <3>. QED
      BY <2>1, <3>1 DEF ReservedClear
  <2>4. Short(Check(TRUE, "Corrupt"), Len(HeadOf(i)))
    BY CheckShort
  <2>5. Short(Read(Len(HeadOf(i))), Len(HeadOf(i)))
    BY <1>0, <1>1, ReadShort
  <2>. QED
    BY <2>2, <2>3, <2>4, <2>5
<1>. QED
  BY <1>2, <1>3, Short3 DEF InodeHeadChecks, INODE_FIXED_PREFIX_LEN

-----------------------------------------------------------------------------
\* An extended attribute.

XattrGiven(x) ==
    LET k == Len(x.key)
        v == Len(x.value)
    IN  /\ k \in Nat /\ v \in Nat /\ WideAs(EncodeXattr(x), 9 + k + v)
        /\ 1 <= remaining_len => U8(0) = x.namespace
        /\ 5 <= remaining_len => U32(1) = k
        /\ 5 + k <= remaining_len => Bytes(5, k) = x.key
        /\ 9 + k <= remaining_len => U32(5 + k) = v
        /\ 9 + k + v <= remaining_len => Bytes(9 + k, v) = x.value

LEMMA XattrWide ==
    ASSUME NEW x, XattrFields(x)
    PROVE  WideAs(EncodeXattr(x), 9 + Len(x.key) + Len(x.value))
<1> DEFINE k == Len(x.key)
           v == Len(x.value)
<1>1. /\ WideAs(EncodeBytes(x.key), 4 + k) /\ WideAs(EncodeBytes(x.value), 4 + v)
      /\ k \in Nat /\ v \in Nat /\ 4 + k \in Nat /\ 4 + v \in Nat
  BY BytesWidth DEF XattrFields
<1>2. WideAs(<<x.namespace>>, 1) /\ 1 \in Nat
  BY DEF XattrFields, WideAs
<1> HIDE DEF k, v
<1>3. WideAs(<<x.namespace>> \o EncodeBytes(x.key), 1 + (4 + k)) /\ 1 + (4 + k) \in Nat
  BY <1>1, <1>2, JoinedWidth
<1>4. WideAs(EncodeXattr(x), 1 + (4 + k) + (4 + v))
  BY <1>1, <1>3, JoinedWidth DEF EncodeXattr
<1>5. 1 + (4 + k) + (4 + v) = 9 + k + v
  BY <1>1
<1>. QED
  BY <1>4, <1>5 DEF k, v

LEMMA XattrReads ==
    ASSUME CursorOK, NEW x, XattrFields(x), HereAt(0, EncodeXattr(x))
    PROVE  XattrGiven(x)
<1>1. PICK k, v : k = Len(x.key) /\ v = Len(x.value)
  OBVIOUS
<1>2. PICK a, b, c : a = <<x.namespace>> /\ b = EncodeBytes(x.key) /\ c = EncodeBytes(x.value)
  OBVIOUS
<1>3. /\ WideAs(b, 4 + k) /\ WideAs(c, 4 + v)
      /\ k \in Nat /\ v \in Nat /\ 4 + k \in Nat /\ 4 + v \in Nat
      /\ x.key \in Seq(Nat) /\ x.value \in Seq(Nat) /\ x.namespace \in Nat
  BY <1>1, <1>2, BytesWidth DEF XattrFields
<1>4. WideAs(a, 1) /\ 1 \in Nat
  BY <1>2, <1>3 DEF WideAs
<1>5. WideAs(a \o b, 1 + (4 + k)) /\ 1 + (4 + k) \in Nat
  BY <1>3, <1>4, JoinedWidth
<1>6. HereAt(0, (a \o b) \o c)
  BY <1>2 DEF EncodeXattr
<1>7. FieldAt(a \o b, c, 1 + (4 + k), 4 + v)
  BY <1>3, <1>5, <1>6, LastField
<1>8. HereAt(0, a \o b) /\ HereAt(1 + (4 + k), EncodeBytes(x.value))
  BY <1>2, <1>7, Zenon DEF FieldAt
<1>9. FieldAt(a, b, 1, 4 + k)
  BY <1>3, <1>4, <1>8, LastField
<1>10. HereAt(0, <<x.namespace>>) /\ HereAt(1, EncodeBytes(x.key))
  BY <1>2, <1>9, Zenon DEF FieldAt
<1>11. BytesAt(1, x.key) /\ BytesAt(1 + (4 + k), x.value)
  BY <1>3, <1>4, <1>5, <1>8, <1>10, ReadsBlob
<1>12. ASSUME 1 <= remaining_len
       PROVE  U8(0) = x.namespace
  <2>1. 0 \in Nat /\ 0 + 1 <= remaining_len
    BY <1>12
  <2>. QED
    BY <1>3, <1>10, <2>1, ReadsU8
<1>13. /\ 5 <= remaining_len => U32(1) = k
       /\ 5 + k <= remaining_len => Bytes(5, k) = x.key
  <2>1. 1 + 4 = 5
    OBVIOUS
  <2>. QED
    BY <1>1, <1>11, <2>1 DEF BytesAt
<1>14. /\ 9 + k <= remaining_len => U32(5 + k) = v
       /\ 9 + k + v <= remaining_len => Bytes(9 + k, v) = x.value
  <2>1. 1 + (4 + k) = 5 + k /\ 5 + k + 4 = 9 + k
    BY <1>3
  <2>. QED
    BY <1>1, <1>11, <2>1 DEF BytesAt
<1>15. WideAs(EncodeXattr(x), 9 + k + v)
  BY <1>1, XattrWide
<1>. QED
  BY <1>1, <1>3, <1>12, <1>13, <1>14, <1>15 DEF XattrGiven

LEMMA XattrLengths ==
    ASSUME NEW x, XattrGiven(x), U32(1) = Len(x.key), U32(5 + Len(x.key)) = Len(x.value)
    PROVE  value_len = Len(x.value) /\ XattrLen = Len(EncodeXattr(x))
BY DEF value_len, XattrLen, XattrGiven, WideAs

LEMMA XattrMet ==
    ASSUME CursorOK, NEW x, XattrFields(x), HereAt(0, EncodeXattr(x)), Passes(XattrChecks)
    PROVE  NextXattr = x /\ XattrLen = Len(EncodeXattr(x))
<1>0. XattrGiven(x)
  BY XattrReads
<1>1. PICK k, v : k = Len(x.key) /\ v = Len(x.value)
  OBVIOUS
<1>2. /\ U32(1) \in Nat /\ value_len \in Nat /\ XattrLen = 9 + U32(1) + value_len
      /\ position + XattrLen <= Len(buf)
  BY XattrPassed
<1>3. remaining_len \in Int /\ XattrLen <= remaining_len
  BY <1>2 DEF remaining_len, CursorOK
<1>4. U32(1) = k /\ k \in Nat /\ v \in Nat
  BY <1>0, <1>1, <1>2, <1>3 DEF XattrGiven
<1>5. U32(5 + k) = v
  BY <1>0, <1>1, <1>2, <1>3, <1>4 DEF XattrGiven
<1>6. value_len = v /\ XattrLen = Len(EncodeXattr(x))
  BY <1>0, <1>1, <1>4, <1>5, XattrLengths
<1>7. U8(0) = x.namespace /\ Bytes(5, k) = x.key /\ Bytes(9 + k, v) = x.value
  <2>1. 1 <= remaining_len /\ 5 + k <= remaining_len /\ 9 + k + v <= remaining_len
    BY <1>2, <1>3, <1>4, <1>6
  <2>. QED
    BY <1>0, <1>1, <2>1, Zenon DEF XattrGiven
<1>8. NextXattr = [namespace |-> x.namespace, key |-> x.key, value |-> x.value]
  BY <1>4, <1>6, <1>7 DEF NextXattr, key
<1>. QED
  BY <1>6, <1>8 DEF XattrFields

\* A read of a bytes and of b more, where b is c when those a are there.
LengthRead(a, b, c, n) ==
    /\ Short(Read(a + b), n)
    /\ Read(a + b) = "ok" => a + c <= remaining_len /\ b = c

LEMMA ReadLength ==
    ASSUME remaining_len \in Int, NEW n \in Int, NEW a \in Nat, NEW b \in Nat, NEW c \in Nat,
           a <= remaining_len => b = c, a + c <= n
    PROVE  LengthRead(a, b, c, n)
<1> USE DEF LengthRead
<1>1. CASE a <= remaining_len
  <2>1. b = c
    BY <1>1
  <2>2. a + b \in Int /\ a + b <= n
    BY <2>1
  <2>. QED
    BY <2>1, <2>2, ReadShort
<1>2. CASE ~(a <= remaining_len)
  <2>1. ~(a + b <= remaining_len) /\ remaining_len < n
    BY <1>2
  <2>2. Read(a + b) = "Truncated"
    BY <2>1 DEF Read, Check
  <2>. QED
    BY <2>1, <2>2 DEF Short
<1>. QED
  BY <1>1, <1>2

LEMMA XattrShort ==
    ASSUME CursorOK, NEW x, XattrFields(x), HereAt(0, EncodeXattr(x)), ValidXattr(x)
    PROVE  OnlyShort(XattrChecks, Len(EncodeXattr(x)))
<1>0. XattrGiven(x) /\ remaining_len \in Int
  BY XattrReads DEF CursorOK, remaining_len
<1>1. PICK k, v, n : k = Len(x.key) /\ v = Len(x.value) /\ n = Len(EncodeXattr(x))
  OBVIOUS
<1>2. k \in Nat /\ v \in Nat /\ n = 9 + k + v /\ n \in Int
  BY <1>0, <1>1 DEF XattrGiven, WideAs
<1>3. Short(Read(1), n) /\ (Read(1) = "ok" => Short(Check(U8(0) <= 3, "Corrupt"), n))
  <2>1. Short(Read(1), n) /\ (Read(1) = "ok" => 1 <= remaining_len)
    BY <1>0, <1>2, ReadShort
  <2>2. ASSUME Read(1) = "ok"
        PROVE  (U8(0) <= 3) = TRUE
    BY <1>0, <2>1, <2>2 DEF XattrGiven, ValidXattr
  <2>. QED
    BY <2>1, <2>2, CheckShort
<1>4. U32(1) \in Nat /\ U32(5 + k) \in Nat
  BY <1>2, U32Range
<1>5. Short(Read(5 + U32(1)), n) /\ (Read(5 + U32(1)) = "ok" => 5 + k <= remaining_len /\ U32(1) = k)
  <2>1. 5 <= remaining_len => U32(1) = k
    BY <1>0, <1>1 DEF XattrGiven
  <2>2. 5 \in Nat /\ 5 + k <= n
    BY <1>2
  <2>3. PICK b \in Nat : b = U32(1)
    BY <1>4
  <2>4. LengthRead(5, b, k, n)
    BY <1>0, <1>2, <2>1, <2>2, <2>3, ReadLength
  <2>. QED
    BY <2>3, <2>4 DEF LengthRead
<1>6. ASSUME U32(1) = k
      PROVE  Short(Read(9 + U32(1)), n) /\ (Read(9 + U32(1)) = "ok" => 9 + k <= remaining_len)
  BY <1>0, <1>2, <1>6, ReadShort
<1>7. ASSUME U32(1) = k, 5 + k <= remaining_len
      PROVE  /\ Short(Check(IsUtf8(key), "Corrupt"), n)
             /\ Short(Check(0 \notin Range(key), "Corrupt"), n)
  <2>1. key = x.key
    BY <1>0, <1>1, <1>7 DEF key, XattrGiven
  <2>2. IsUtf8(key) /\ 0 \notin Range(key)
    BY <2>1, Zenon DEF ValidXattr
  <2>3. Check(IsUtf8(key), "Corrupt") = "ok" /\ Check(0 \notin Range(key), "Corrupt") = "ok"
    BY <2>2, Zenon DEF Check
  <2>. QED
    BY <2>3, Zenon DEF Short
<1>8. ASSUME U32(1) = k, 9 + k <= remaining_len
      PROVE  Short(Read(XattrLen), n)
  <2>1. value_len = v
    BY <1>0, <1>1, <1>8 DEF value_len, XattrGiven
  <2>2. XattrLen = n
    BY <1>2, <1>8, <2>1 DEF XattrLen
  <2>. QED
    BY <1>0, <1>2, <2>2, ReadShort
<1>9. OnlyShort(XattrChecks, n)
  BY <1>3, <1>5, <1>6, <1>7, <1>8, Short7 DEF XattrChecks
<1>. QED
  BY <1>1, <1>9

-----------------------------------------------------------------------------
\* The content of an inode.

\* The inode being read is i.
ReadsInode(i) == InodeFields(i) /\ inode.mode = i.mode /\ inode_flags = FlagsOf(i)

ContentIs(kind) ==
    \/ kind = "INLINE_DATA" /\ FileType = S_IFREG /\ ~HasSliceMap
    \/ kind = "SLICE_MAP" /\ HasSliceMap
    \/ kind = "DIRECTORY" /\ FileType = S_IFDIR /\ ~HasSliceMap
    \/ kind = "SYMLINK" /\ FileType = S_IFLNK /\ ~HasSliceMap
    \/ kind = "DEVICE" /\ FileType \in DeviceTypes /\ ~HasSliceMap
    \/ kind = "PIPE" /\ FileType \in PipeTypes /\ ~HasSliceMap

\* Its kind is the one that parse_inode goes by.
LEMMA KindKnown ==
    ASSUME NEW i, ReadsInode(i), i.content_handle.kind \in KindsOf(i.mode)
    PROVE  ContentIs(i.content_handle.kind)
<1>1. FileType = file_type(i.mode)
  BY DEF FileType, ReadsInode
<1>2. HasSliceMap <=> FileType = S_IFREG /\ i.content_handle.kind # "INLINE_DATA"
  BY FlagsSay DEF HasSliceMap, ReadsInode
<1> DEFINE k == i.content_handle.kind
           t == FileType
<1>3. \/ t = 8 /\ k \in {"INLINE_DATA", "SLICE_MAP"}
      \/ t = 4 /\ k = "DIRECTORY"
      \/ t = 10 /\ k = "SYMLINK"
      \/ t \in {6, 2} /\ k = "DEVICE"
      \/ t \in {1, 12} /\ k = "PIPE"
  BY <1>1 DEF KindsOf, S_IFREG, S_IFDIR, S_IFLNK, DeviceTypes, PipeTypes
<1>4. HasSliceMap <=> t = 8 /\ k # "INLINE_DATA"
  BY <1>2 DEF S_IFREG
<1> HIDE DEF k, t
<1>5. ContentIs(k)
  BY <1>3, <1>4 DEF ContentIs, S_IFREG, S_IFDIR, S_IFLNK, DeviceTypes, PipeTypes, t
<1>. QED
  BY <1>5 DEF k

\* An inode whose content is read is of a file type that has contents.
LEMMA KindRead ==
    ASSUME CursorOK, NEW i, ReadsInode(i), Passes(ContentChecks)
    PROVE  i.content_handle.kind \in KindsOf(i.mode)
<1>1. KindsOf(inode.mode) # {}
  <2>1. CASE HasSliceMap
    <3>1. file_type(inode.mode) = 8
      BY <2>1 DEF HasSliceMap, FileType, S_IFREG
    <3>. QED
      BY <3>1 DEF KindsOf, S_IFREG
  <2>2. CASE ~HasSliceMap
    BY <2>2, ContentRead
  <2>. QED
    BY <2>1, <2>2
<1>. QED
  BY <1>1 DEF ReadsInode, InodeFields, OfItsType

ContentGiven(c) ==
    /\ EncodeContent(c) \in Seq(Nat)
    /\ c.kind \in {"INLINE_DATA", "SYMLINK"} =>
         /\ Len(c.value) \in Nat /\ Len(EncodeContent(c)) = 4 + Len(c.value)
         /\ 4 <= remaining_len => U32(0) = Len(c.value)
         /\ 4 + Len(c.value) <= remaining_len => Bytes(4, Len(c.value)) = c.value
    /\ c.kind = "DIRECTORY" =>
         Len(EncodeContent(c)) = 32 /\ (32 <= remaining_len => Bytes(0, 32) = c.value)
    /\ c.kind \in {"DEVICE", "PIPE"} =>
         Len(EncodeContent(c)) = 8 /\ (8 <= remaining_len => Bytes(0, 8) = c.value)

LEMMA ContentReads ==
    ASSUME CursorOK, NEW c \in WrittenContent, c.kind # "SLICE_MAP", HereAt(0, EncodeContent(c))
    PROVE  ContentGiven(c)
<1>0. 0 \in Nat
  OBVIOUS
<1>1. CASE c.kind \in {"INLINE_DATA", "SYMLINK"}
  <2>1. EncodeContent(c) = EncodeBytes(c.value)
    BY <1>1 DEF EncodeContent
  <2>2. c.value \in Seq(Nat)
    BY <1>1, ContentsWritten
  <2>3. BytesAt(0, c.value)
    BY <1>0, <2>1, <2>2, ReadsBlob
  <2>4. 0 + 4 = 4
    OBVIOUS
  <2>. QED
    BY <1>1, <2>1, <2>3, <2>4 DEF BytesAt, ContentGiven
<1>2. CASE c.kind = "DIRECTORY"
  <2>1. EncodeContent(c) = c.value
    BY <1>2 DEF EncodeContent
  <2>2. c.value \in Seq(Nat) /\ Len(c.value) = 32
    BY <1>2, ContentsWritten DEF WideAs
  <2>3. ASSUME 32 <= remaining_len
        PROVE  Bytes(0, 32) = c.value
    <3>1. 0 + Len(c.value) <= remaining_len
      BY <2>2, <2>3
    <3>2. Bytes(0, Len(c.value)) = c.value
      BY <1>0, <2>1, <2>2, <3>1, ReadsBytes
    <3>. QED
      BY <2>2, <3>2
  <2>. QED
    BY <1>2, <2>1, <2>2, <2>3 DEF ContentGiven
<1>3. CASE c.kind \in {"DEVICE", "PIPE"}
  <2>1. EncodeContent(c) = c.value
    BY <1>3 DEF EncodeContent
  <2>2. c.value \in Seq(Nat) /\ Len(c.value) = 8
    BY <1>3, ContentsWritten DEF WideAs
  <2>3. ASSUME 8 <= remaining_len
        PROVE  Bytes(0, 8) = c.value
    <3>1. 0 + Len(c.value) <= remaining_len
      BY <2>2, <2>3
    <3>2. Bytes(0, Len(c.value)) = c.value
      BY <1>0, <2>1, <2>2, <3>1, ReadsBytes
    <3>. QED
      BY <2>2, <3>2
  <2>. QED
    BY <1>3, <2>1, <2>2, <2>3 DEF ContentGiven
<1>. QED
  BY <1>1, <1>2, <1>3, ContentsWritten

LEMMA ContentMet ==
    ASSUME CursorOK, NEW i, ReadsInode(i), Passes(ContentChecks), ~HasSliceMap,
           HereAt(0, EncodeContent(i.content_handle))
    PROVE  /\ Content = i.content_handle
           /\ EncodeContent(i.content_handle) \in Seq(Nat)
           /\ ContentLen = Len(EncodeContent(i.content_handle))
<1>1. PICK c \in WrittenContent : c = i.content_handle
  BY DEF ReadsInode, InodeFields
<1>2. ContentIs(c.kind)
  BY <1>1, KindRead, KindKnown
<1>3. ContentGiven(c)
  <2>1. c.kind # "SLICE_MAP"
    BY <1>2 DEF ContentIs
  <2>. QED
    BY <1>1, <2>1, ContentReads
<1>4. /\ ContentLen \in Nat /\ ContentLen <= remaining_len /\ U32(0) \in Nat
  BY ContentRead, U32Range DEF CursorOK, remaining_len
<1>5. c = [kind |-> c.kind, value |-> c.value]
  BY ContentsWritten
<1>6. Content = c /\ ContentLen = Len(EncodeContent(c))
  <2>1. CASE c.kind \in {"INLINE_DATA", "SYMLINK"}
    <3>1. (FileType = S_IFREG /\ c.kind = "INLINE_DATA") \/ (FileType = S_IFLNK /\ c.kind = "SYMLINK")
      BY <1>2, <2>1 DEF ContentIs
    <3>2. ContentLen = 4 + U32(0)
      BY <3>1 DEF ContentLen, S_IFREG, S_IFDIR, S_IFLNK, DeviceTypes, PipeTypes
    <3>3. Content = [kind |-> c.kind, value |-> Bytes(4, U32(0))]
      BY <3>1 DEF Content, S_IFREG, S_IFDIR, S_IFLNK, DeviceTypes, PipeTypes
    <3>4. 4 <= remaining_len
      BY <1>4, <3>2 DEF remaining_len, CursorOK
    <3>5. U32(0) = Len(c.value) /\ Len(EncodeContent(c)) = 4 + Len(c.value)
      BY <1>3, <2>1, <3>4 DEF ContentGiven
    <3>6. Bytes(4, Len(c.value)) = c.value
      BY <1>3, <1>4, <2>1, <3>2, <3>5 DEF ContentGiven
    <3>. QED
      BY <1>5, <3>2, <3>3, <3>5, <3>6
  <2>2. CASE c.kind = "DIRECTORY"
    <3>1. FileType = S_IFDIR
      BY <1>2, <2>2 DEF ContentIs
    <3>2. ContentLen = 32
      BY <3>1 DEF ContentLen, S_IFREG, S_IFDIR, S_IFLNK, DeviceTypes, PipeTypes
    <3>3. Content = [kind |-> c.kind, value |-> Bytes(0, 32)]
      BY <2>2, <3>1 DEF Content, S_IFREG, S_IFDIR, S_IFLNK, DeviceTypes, PipeTypes
    <3>4. Len(EncodeContent(c)) = 32 /\ Bytes(0, 32) = c.value
      BY <1>3, <1>4, <2>2, <3>2 DEF ContentGiven
    <3>. QED
      BY <1>5, <3>2, <3>3, <3>4
  <2>3. CASE c.kind \in {"DEVICE", "PIPE"}
    <3>1. (FileType \in DeviceTypes /\ c.kind = "DEVICE") \/ (FileType \in PipeTypes /\ c.kind = "PIPE")
      BY <1>2, <2>3 DEF ContentIs
    <3>2. ContentLen = 8
      BY <3>1 DEF ContentLen, S_IFREG, S_IFDIR, S_IFLNK, DeviceTypes, PipeTypes
    <3>3. Content = [kind |-> c.kind, value |-> Bytes(0, 8)]
      BY <3>1 DEF Content, S_IFREG, S_IFDIR, S_IFLNK, DeviceTypes, PipeTypes
    <3>4. Len(EncodeContent(c)) = 8 /\ Bytes(0, 8) = c.value
      BY <1>3, <1>4, <2>3, <3>2 DEF ContentGiven
    <3>. QED
      BY <1>5, <3>2, <3>3, <3>4
  <2>. QED
    BY <1>2, <2>1, <2>2, <2>3 DEF ContentIs
<1>. QED
  BY <1>1, <1>3, <1>6 DEF ContentGiven

\* A count: of inodes, of slices, of nodes.
LEMMA CountMet ==
    ASSUME CursorOK, NEW n \in Nat, HereAt(0, Pack32(n)), Passes(<< Read(4) >>)
    PROVE  U32(0) = n
<1>1. 0 \in Nat /\ 0 + 4 <= remaining_len
  BY CountPassed DEF CursorOK, remaining_len
<1>. QED
  BY <1>1, ReadsCount

LEMMA CountShort ==
    ASSUME CursorOK, NEW n \in Int, 4 <= n
    PROVE  OnlyShort(<< Read(4) >>, n)
<1>1. remaining_len \in Int
  BY DEF CursorOK, remaining_len
<1>2. Short(Read(4), n)
  BY <1>1, ReadShort
<1>3. PICK r : r = Read(4)
  OBVIOUS
<1>4. OnlyShort(<<r>>, n)
  BY <1>2, <1>3 DEF OnlyShort, Short
<1>. QED
  BY <1>3, <1>4

\* An inode with a slice map was written with one.
LEMMA SliceMapKnown ==
    ASSUME NEW i, ReadsInode(i), HasSliceMap, i.content_handle.kind \in KindsOf(i.mode)
    PROVE  /\ i.content_handle.kind = "SLICE_MAP"
           /\ i.content_handle.value \in Seq(WrittenSlice)
           /\ EncodeContent(i.content_handle)
                = Pack32(Len(i.content_handle.value)) \o FlattenSeq(Slices(i.content_handle.value))
           /\ ContentChecks = << Read(4) >>
<1>1. PICK c \in WrittenContent : c = i.content_handle
  BY DEF ReadsInode, InodeFields
<1>2. ContentIs(c.kind)
  BY <1>1, KindKnown
<1>3. c.kind = "SLICE_MAP"
  BY <1>2 DEF ContentIs
<1>4. c.value \in Seq(WrittenSlice)
  BY <1>3, ContentsWritten
<1>5. EncodeContent(c) = Pack32(Len(c.value)) \o FlattenSeq(Slices(c.value))
  BY <1>3 DEF EncodeContent, EncodeList, EncodeEach, Slices
<1>6. ContentChecks = << Read(4) >>
  BY DEF ContentChecks, HasSliceMap, S_IFREG, S_IFDIR, S_IFLNK, DeviceTypes, PipeTypes
<1>. QED
  BY <1>1, <1>3, <1>4, <1>5, <1>6

\* What is read of the content of an inode that keeps the rules.
LEMMA ContentShort ==
    ASSUME CursorOK, NEW i, ReadsInode(i), ValidInode(i), ~HasSliceMap,
           HereAt(0, EncodeContent(i.content_handle))
    PROVE  /\ EncodeContent(i.content_handle) \in Seq(Nat)
           /\ OnlyShort(ContentChecks, Len(EncodeContent(i.content_handle)))
<1>1. PICK c \in WrittenContent : c = i.content_handle
  BY DEF ReadsInode, InodeFields
<1>2. ContentIs(c.kind) /\ ValidContent(c)
  BY <1>1, KindKnown DEF ValidInode
<1>3. ContentGiven(c)
  <2>1. c.kind # "SLICE_MAP"
    BY <1>2 DEF ContentIs
  <2>. QED
    BY <1>1, <2>1, ContentReads
<1>4. remaining_len \in Int /\ U32(0) \in Nat
  BY U32Range DEF CursorOK, remaining_len
<1>5. PICK n : n = Len(EncodeContent(c))
  OBVIOUS
<1>6. ASSUME c.kind \in {"INLINE_DATA", "SYMLINK"}, NEW v, v = c.value
      PROVE  /\ Len(v) \in Nat /\ n = 4 + Len(v) /\ n \in Int
             /\ Short(Read(4), n)
             /\ LengthRead(4, U32(0), Len(v), n)
             /\ Read(4) = "ok" => U32(0) = Len(v)
             /\ 4 + Len(v) <= remaining_len => Bytes(4, Len(v)) = v
  <2>1. /\ Len(v) \in Nat /\ n = 4 + Len(v) /\ n \in Int
        /\ 4 <= remaining_len => U32(0) = Len(v)
        /\ 4 + Len(v) <= remaining_len => Bytes(4, Len(v)) = v
    BY <1>3, <1>5, <1>6 DEF ContentGiven
  <2>2. Short(Read(4), n) /\ (Read(4) = "ok" => 4 <= remaining_len)
    BY <1>4, <2>1, ReadShort
  <2>3. PICK b \in Nat : b = U32(0)
    BY <1>4
  <2>4. PICK l \in Nat : l = Len(v)
    BY <2>1
  <2>5. LengthRead(4, b, l, n)
    <3>1. 4 <= remaining_len => b = l
      BY <2>1, <2>3, <2>4
    <3>2. 4 \in Nat /\ 4 + l <= n
      BY <2>1, <2>4
    <3>. QED
      BY <1>4, <2>1, <3>1, <3>2, ReadLength
  <2>6. LengthRead(4, U32(0), Len(v), n)
    BY <2>3, <2>4, <2>5
  <2>. QED
    BY <2>1, <2>2, <2>6
<1>7. OnlyShort(ContentChecks, n)
  <2>1. CASE c.kind = "INLINE_DATA" /\ FileType = S_IFREG
    <3>1. ContentChecks = << Read(4), Check(U32(0) <= DEFAULT_INLINE_DATA_MAX_BYTES, "Corrupt"), Read(4 + U32(0)) >>
      BY <2>1 DEF ContentChecks, S_IFREG, S_IFDIR, S_IFLNK, DeviceTypes, PipeTypes
    <3>2. Len(c.value) <= DEFAULT_INLINE_DATA_MAX_BYTES
      BY <1>2, <2>1 DEF ValidContent
    <3>3. /\ Short(Read(4), n) /\ Short(Read(4 + U32(0)), n)
          /\ Read(4) = "ok" => U32(0) = Len(c.value)
      BY <1>6, <2>1 DEF LengthRead
    <3>4. Read(4) = "ok" => Short(Check(U32(0) <= DEFAULT_INLINE_DATA_MAX_BYTES, "Corrupt"), n)
      BY <3>2, <3>3 DEF Short, Check
    <3>. QED
      BY <3>1, <3>3, <3>4, Short3
  <2>2. CASE c.kind = "SYMLINK" /\ FileType = S_IFLNK
    <3>1. ContentChecks = << Read(4), Read(4 + U32(0)), Check(IsUtf8(Bytes(4, U32(0))), "Corrupt") >>
      BY <2>2 DEF ContentChecks, S_IFREG, S_IFDIR, S_IFLNK, DeviceTypes, PipeTypes
    <3>2. IsUtf8(c.value)
      BY <1>2, <2>2 DEF ValidContent
    <3>3. /\ Short(Read(4), n) /\ Short(Read(4 + U32(0)), n)
          /\ Read(4 + U32(0)) = "ok" => Bytes(4, U32(0)) = c.value
      BY <1>6, <2>2 DEF LengthRead
    <3>4. Read(4 + U32(0)) = "ok" => Short(Check(IsUtf8(Bytes(4, U32(0))), "Corrupt"), n)
      BY <3>2, <3>3, Zenon DEF Short, Check
    <3>. QED
      BY <3>1, <3>3, <3>4, Short3
  <2>3. CASE c.kind = "DIRECTORY" /\ FileType = S_IFDIR
    <3>1. ContentChecks = << Read(32) >>
      BY <2>3 DEF ContentChecks, S_IFREG, S_IFDIR, S_IFLNK, DeviceTypes, PipeTypes
    <3>2. n = 32
      BY <1>3, <1>5, <2>3 DEF ContentGiven
    <3>3. Short(Read(32), n)
      BY <1>4, <3>2, ReadShort
    <3>4. PICK r : r = Read(32)
      OBVIOUS
    <3>5. OnlyShort(<<r>>, n)
      BY <3>3, <3>4 DEF OnlyShort, Short
    <3>. QED
      BY <3>1, <3>4, <3>5
  <2>4. CASE c.kind \in {"DEVICE", "PIPE"} /\ FileType \in DeviceTypes \cup PipeTypes
    <3>1. ContentChecks = << Read(8) >>
      BY <2>4 DEF ContentChecks, S_IFREG, S_IFDIR, S_IFLNK, DeviceTypes, PipeTypes
    <3>2. n = 8
      BY <1>3, <1>5, <2>4 DEF ContentGiven
    <3>3. Short(Read(8), n)
      BY <1>4, <3>2, ReadShort
    <3>4. PICK r : r = Read(8)
      OBVIOUS
    <3>5. OnlyShort(<<r>>, n)
      BY <3>3, <3>4 DEF OnlyShort, Short
    <3>. QED
      BY <3>1, <3>4, <3>5
  <2>. QED
    BY <1>2, <2>1, <2>2, <2>3, <2>4 DEF ContentIs
<1>. QED
  BY <1>1, <1>3, <1>5, <1>7 DEF ContentGiven

-----------------------------------------------------------------------------
\* A slice.

SliceGiven(x) ==
    /\ WideAs(EncodeSlice(x), 56)
    /\ 16 <= remaining_len => Bytes(0, 8) = x.file_byte_start /\ Bytes(8, 8) = x.file_byte_end
    /\ 56 <= remaining_len =>
         Bytes(16, 32) = x.drop_id /\ Bytes(48, 4) = x.drop_byte_start /\ Bytes(52, 4) = x.drop_byte_len

LEMMA SliceWide ==
    ASSUME NEW x, SliceFields(x)
    PROVE  WideAs(EncodeSlice(x), 56)
<1>1. PICK a, b, d, s, l :
        a = x.file_byte_start /\ b = x.file_byte_end /\ d = x.drop_id /\ s = x.drop_byte_start /\ l = x.drop_byte_len
  OBVIOUS
<1>2. WideAs(a, 8) /\ WideAs(b, 8) /\ WideAs(d, 32) /\ WideAs(s, 4) /\ WideAs(l, 4)
  BY <1>1 DEF SliceFields
<1>3. WideAs(a \o b, 16)
  BY <1>2, JoinedWidth
<1>4. WideAs(a \o b \o d, 48)
  BY <1>2, <1>3, JoinedWidth
<1>5. WideAs(a \o b \o d \o s, 52)
  BY <1>2, <1>4, JoinedWidth
<1>6. WideAs(a \o b \o d \o s \o l, 56)
  BY <1>2, <1>5, JoinedWidth
<1>. QED
  BY <1>1, <1>6 DEF EncodeSlice

LEMMA SliceReads ==
    ASSUME CursorOK, NEW x, SliceFields(x), HereAt(0, EncodeSlice(x))
    PROVE  SliceGiven(x)
<1>1. PICK a, b, d, s, l :
        a = x.file_byte_start /\ b = x.file_byte_end /\ d = x.drop_id /\ s = x.drop_byte_start /\ l = x.drop_byte_len
  OBVIOUS
<1>2. WideAs(a, 8) /\ WideAs(b, 8) /\ WideAs(d, 32) /\ WideAs(s, 4) /\ WideAs(l, 4)
  BY <1>1 DEF SliceFields
<1>3. WideAs(a \o b, 16)
  BY <1>2, JoinedWidth
<1>4. WideAs(a \o b \o d, 48)
  BY <1>2, <1>3, JoinedWidth
<1>5. WideAs(a \o b \o d \o s, 52)
  BY <1>2, <1>4, JoinedWidth
<1>6. HereAt(0, a \o b \o d \o s \o l)
  BY <1>1 DEF EncodeSlice
<1>7. HereAt(0, a \o b \o d \o s) /\ (56 <= remaining_len => Bytes(52, 4) = l)
  BY <1>2, <1>5, <1>6, LastField DEF FieldAt
<1>8. HereAt(0, a \o b \o d) /\ (52 <= remaining_len => Bytes(48, 4) = s)
  BY <1>2, <1>4, <1>7, LastField DEF FieldAt
<1>9. HereAt(0, a \o b) /\ (48 <= remaining_len => Bytes(16, 32) = d)
  BY <1>2, <1>3, <1>8, LastField DEF FieldAt
<1>10. HereAt(0, a) /\ (16 <= remaining_len => Bytes(8, 8) = b)
  BY <1>2, <1>9, LastField DEF FieldAt
<1>11. ASSUME 8 <= remaining_len
       PROVE  Bytes(0, 8) = a
  <2>1. a \in Seq(Nat) /\ Len(a) = 8 /\ 0 \in Nat /\ 0 + Len(a) <= remaining_len
    BY <1>2, <1>11 DEF WideAs
  <2>. QED
    BY <1>10, <2>1, ReadsBytes
<1>12. remaining_len \in Int
  BY DEF CursorOK, remaining_len
<1>. QED
  BY <1>1, <1>7, <1>8, <1>9, <1>10, <1>11, <1>12, SliceWide DEF SliceGiven

LEMMA SliceMet ==
    ASSUME CursorOK, NEW x, SliceFields(x), HereAt(0, EncodeSlice(x)), Passes(SliceChecks)
    PROVE  NextSlice = x /\ EncodeSlice(x) \in Seq(Nat) /\ Len(EncodeSlice(x)) = 56
<1>1. SliceGiven(x)
  BY SliceReads
<1>2. 56 <= remaining_len /\ 16 <= remaining_len
  BY SlicePassed DEF CursorOK, remaining_len
<1>3. NextSlice = [file_byte_start |-> x.file_byte_start, file_byte_end |-> x.file_byte_end,
                   drop_id |-> x.drop_id, drop_byte_start |-> x.drop_byte_start,
                   drop_byte_len |-> x.drop_byte_len]
  BY <1>1, <1>2 DEF SliceGiven, NextSlice
<1>. QED
  BY <1>1, <1>3 DEF SliceFields, SliceGiven, WideAs

\* The other way round than BelowIsLess.
LEMMA LessIsBelow ==
    ASSUME NEW a \in Seq(Nat), NEW b \in Seq(Nat), Len(a) = Len(b), LessThan(a, b)
    PROVE  Below(a, b)
<1> DEFINE places == {i \in DOMAIN a : a[i] # b[i]}
           m == Max(places)
<1>1. places # {} /\ a[m] < b[m]
  BY Zenon DEF LessThan
<1>2. /\ DOMAIN a = 1..Len(a) /\ DOMAIN b = 1..Len(a) /\ Len(a) \in Nat
  OBVIOUS
<1>3. places \subseteq 1..Len(a)
  BY <1>2
<1>4. \E x \in places : \A y \in places : x >= y
  <2> HIDE DEF places
  <2> DEFINE T == {Len(a) - x : x \in places}
  <2>1. T \subseteq Nat /\ T # {}
    <3>1. ASSUME NEW x \in places
          PROVE  Len(a) - x \in Nat
      BY <1>2, <1>3
    <3>2. PICK x : x \in places
      BY <1>1
    <3>. QED
      BY <3>1, <3>2
  <2>2. PICK t \in T : \A u \in T : t <= u
    BY <2>1, LeastNatural
  <2>3. PICK x \in places : t = Len(a) - x
    OBVIOUS
  <2>4. ASSUME NEW y \in places
        PROVE  x >= y
    <3>1. Len(a) - y \in T
      OBVIOUS
    <3>2. Len(a) - x <= Len(a) - y
      BY <2>2, <2>3, <3>1
    <3>. QED
      BY <1>2, <1>3, <2>3, <3>2
  <2>. QED
    BY <2>4
<1>5. m \in places /\ \A y \in places : m >= y
  BY <1>4, Zenon DEF Max
<1> HIDE DEF m
<1>6. m \in 1..Len(a)
  BY <1>3, <1>5
<1>7. ASSUME NEW j \in 1..Len(a), j > m
      PROVE  a[j] = b[j]
  <2>1. j \notin places
    <3>1. ~(m >= j)
      BY <1>6, <1>7
    <3>. QED
      BY <1>5, <3>1, Zenon
  <2>. QED
    BY <1>2, <2>1
<1> HIDE DEF places
<1>. QED
  BY <1>1, <1>2, <1>6, <1>7 DEF Below

LEMMA SliceShort ==
    ASSUME CursorOK, NEW x, SliceFields(x), HereAt(0, EncodeSlice(x)),
           LessThan(x.file_byte_start, x.file_byte_end)
    PROVE  /\ EncodeSlice(x) \in Seq(Nat)
           /\ OnlyShort(SliceChecks, Len(EncodeSlice(x)))
<1>1. SliceGiven(x) /\ remaining_len \in Int
  BY SliceReads DEF CursorOK, remaining_len
<1>2. Below(x.file_byte_start, x.file_byte_end)
  <2>1. PICK a, b : a = x.file_byte_start /\ b = x.file_byte_end
    OBVIOUS
  <2>2. a \in Seq(Nat) /\ b \in Seq(Nat) /\ Len(a) = Len(b)
    BY <2>1 DEF SliceFields, WideAs
  <2>3. Below(a, b)
    BY <2>1, <2>2, LessIsBelow
  <2>. QED
    BY <2>1, <2>3
<1>3. Short(Read(16), 56) /\ (Read(16) = "ok" => 16 <= remaining_len) /\ Short(Read(56), 56)
  BY <1>1, ReadShort
<1>4. ASSUME Read(16) = "ok"
      PROVE  Short(Check(Below(Bytes(0, 8), Bytes(8, 8)), "Corrupt"), 56)
  <2>1. Below(Bytes(0, 8), Bytes(8, 8))
    BY <1>1, <1>2, <1>3, <1>4 DEF SliceGiven
  <2>. QED
    BY <2>1, Zenon DEF Short, Check
<1>5. OnlyShort(SliceChecks, 56)
  BY <1>3, <1>4, Short3 DEF SliceChecks, SLICE_LEN
<1>. QED
  BY <1>1, <1>5 DEF SliceGiven, WideAs

-----------------------------------------------------------------------------
\* A directory node and its entries.

NodeHead(n) == <<1>> \o Pack32(n)
DirEntries(node) == [j \in DOMAIN node |-> EncodeDirEntry(node[j])]

LEMMA NodeHeadReads ==
    ASSUME CursorOK, NEW n \in Nat, HereAt(0, NodeHead(n))
    PROVE  /\ WideAs(NodeHead(n), 5)
           /\ 1 <= remaining_len => U8(0) = 1
           /\ 5 <= remaining_len => U32(1) = n
<1>1. PICK a, b : a = <<1>> /\ b = Pack32(n)
  OBVIOUS
<1>2. WideAs(a, 1) /\ WideAs(b, 4) /\ 1 \in Nat /\ 4 \in Nat /\ 0 \in Nat
  BY <1>1, PackWidth DEF WideAs
<1>3. FieldAt(a, b, 1, 4)
  BY <1>1, <1>2, LastField DEF NodeHead
<1>4. HereAt(0, <<1>>) /\ HereAt(1, Pack32(n)) /\ WideAs(NodeHead(n), 5)
  <2>1. 1 + 4 = 5
    OBVIOUS
  <2>. QED
    BY <1>1, <1>3, <2>1 DEF FieldAt, NodeHead
<1>5. ASSUME 1 <= remaining_len
      PROVE  U8(0) = 1
  <2>1. 0 + 1 <= remaining_len
    BY <1>5
  <2>. QED
    BY <1>2, <1>4, <2>1, ReadsU8
<1>6. ASSUME 5 <= remaining_len
      PROVE  U32(1) = n
  <2>1. 1 + 4 <= remaining_len
    BY <1>6
  <2>. QED
    BY <1>2, <1>4, <2>1, ReadsCount
<1>. QED
  BY <1>4, <1>5, <1>6

LEMMA NodeHeadMet ==
    ASSUME CursorOK, NEW n \in Nat, HereAt(0, NodeHead(n)), Passes(NodeHeadChecks)
    PROVE  U32(1) = n /\ NodeHead(n) \in Seq(Nat) /\ Len(NodeHead(n)) = 5
<1>1. 5 <= remaining_len
  BY NodeHeadPassed DEF CursorOK, remaining_len
<1>. QED
  BY <1>1, NodeHeadReads DEF WideAs

LEMMA NodeHeadShort ==
    ASSUME CursorOK, NEW n \in Nat, HereAt(0, NodeHead(n))
    PROVE  NodeHead(n) \in Seq(Nat) /\ OnlyShort(NodeHeadChecks, Len(NodeHead(n)))
<1>0. remaining_len \in Int
  BY DEF CursorOK, remaining_len
<1>1. /\ WideAs(NodeHead(n), 5)
      /\ 1 <= remaining_len => U8(0) = 1
  BY NodeHeadReads
<1>2. Short(Read(1), 5) /\ (Read(1) = "ok" => 1 <= remaining_len) /\ Short(Read(5), 5)
  BY <1>0, ReadShort
<1>3. Read(1) = "ok" => Short(Check(U8(0) = DIRECTORY_NODE_VERSION, "Unsupported"), 5)
  BY <1>1, <1>2 DEF Short, Check, DIRECTORY_NODE_VERSION
<1>4. OnlyShort(NodeHeadChecks, 5)
  BY <1>2, <1>3, Short3 DEF NodeHeadChecks
<1>. QED
  BY <1>1, <1>4 DEF WideAs

EntryGiven(x) ==
    LET l == Len(x.name)
    IN  /\ l \in Nat /\ WideAs(EncodeDirEntry(x), 13 + l)
        /\ 4 <= remaining_len => U32(0) = l
        /\ 4 + l <= remaining_len => Bytes(4, l) = x.name
        /\ 13 + l <= remaining_len => Bytes(4 + l, 8) = x.inode_number /\ U8(12 + l) = x.entry_type

LEMMA EntryWide ==
    ASSUME NEW x, EntryFields(x)
    PROVE  WideAs(EncodeDirEntry(x), 13 + Len(x.name))
<1>1. PICK l, a, b, c :
        l = Len(x.name) /\ a = EncodeBytes(x.name) /\ b = x.inode_number /\ c = <<x.entry_type>>
  OBVIOUS
<1>2. WideAs(a, 4 + l) /\ l \in Nat /\ 4 + l \in Nat
  BY <1>1, BytesWidth DEF EntryFields
<1>3. WideAs(b, 8) /\ WideAs(c, 1) /\ 8 \in Nat /\ 1 \in Nat
  BY <1>1 DEF EntryFields, WideAs
<1>4. WideAs(a \o b, 4 + l + 8) /\ 4 + l + 8 \in Nat
  BY <1>2, <1>3, JoinedWidth
<1>5. WideAs(a \o b \o c, 4 + l + 8 + 1)
  BY <1>3, <1>4, JoinedWidth
<1>6. 4 + l + 8 + 1 = 13 + l
  BY <1>2
<1>. QED
  BY <1>1, <1>5, <1>6 DEF EncodeDirEntry

LEMMA EntryReads ==
    ASSUME CursorOK, NEW x, EntryFields(x), HereAt(0, EncodeDirEntry(x))
    PROVE  EntryGiven(x)
<1>1. PICK l, a, b, c :
        l = Len(x.name) /\ a = EncodeBytes(x.name) /\ b = x.inode_number /\ c = <<x.entry_type>>
  OBVIOUS
<1>2. WideAs(a, 4 + l) /\ l \in Nat /\ 4 + l \in Nat
  BY <1>1, BytesWidth DEF EntryFields
<1>3. WideAs(b, 8) /\ 8 \in Nat /\ x.entry_type \in Nat
  BY <1>1 DEF EntryFields
<1>4. WideAs(a \o b, 4 + l + 8) /\ 4 + l + 8 \in Nat
  BY <1>2, <1>3, JoinedWidth
<1>5. HereAt(0, (a \o b) \o <<x.entry_type>>)
  BY <1>1 DEF EncodeDirEntry
<1>6. HereAt(0, a \o b) /\ (4 + l + 8 + 1 <= remaining_len => U8(4 + l + 8) = x.entry_type)
  BY <1>3, <1>4, <1>5, LastByte
<1>7. FieldAt(a, b, 4 + l, 8)
  BY <1>2, <1>3, <1>6, LastField
<1>8. HereAt(0, EncodeBytes(x.name)) /\ (4 + l + 8 <= remaining_len => Bytes(4 + l, 8) = b)
  BY <1>1, <1>7 DEF FieldAt
<1>9. BytesAt(0, x.name)
  <2>1. 0 \in Nat /\ x.name \in Seq(Nat)
    BY DEF EntryFields
  <2>. QED
    BY <1>8, <2>1, ReadsBlob
<1>10. /\ 4 <= remaining_len => U32(0) = l
       /\ 4 + l <= remaining_len => Bytes(4, l) = x.name
  <2>1. 0 + 4 = 4
    OBVIOUS
  <2>. QED
    BY <1>1, <1>9, <2>1 DEF BytesAt
<1>11. ASSUME 13 + l <= remaining_len
       PROVE  Bytes(4 + l, 8) = x.inode_number /\ U8(12 + l) = x.entry_type
  <2>1. remaining_len \in Int
    BY DEF CursorOK, remaining_len
  <2>2. 4 + l + 8 + 1 <= remaining_len /\ 4 + l + 8 <= remaining_len /\ 4 + l + 8 = 12 + l
    BY <1>2, <1>11, <2>1
  <2>3. Bytes(4 + l, 8) = b
    BY <1>8, <2>2
  <2>4. U8(4 + l + 8) = x.entry_type
    BY <1>6, <2>2
  <2>. QED
    BY <1>1, <2>2, <2>3, <2>4
<1>. QED
  BY <1>1, <1>2, <1>10, <1>11, EntryWide DEF EntryGiven

LEMMA EntryMet ==
    ASSUME CursorOK, NEW x, EntryFields(x), HereAt(0, EncodeDirEntry(x)), Passes(EntryChecks)
    PROVE  /\ NextEntry = x
           /\ EncodeDirEntry(x) \in Seq(Nat) /\ EntryLen = Len(EncodeDirEntry(x))
<1>0. EntryGiven(x)
  BY EntryReads
<1>1. PICK l : l = Len(x.name)
  OBVIOUS
<1>2. U32(0) \in Nat /\ EntryLen = 13 + U32(0) /\ EntryLen <= remaining_len
  BY EntryPassed DEF CursorOK, remaining_len
<1>3. remaining_len \in Int
  BY DEF CursorOK, remaining_len
<1>4. U32(0) = l /\ l \in Nat
  BY <1>0, <1>1, <1>2, <1>3 DEF EntryGiven
<1>5. 4 + l <= remaining_len /\ 13 + l <= remaining_len
  BY <1>2, <1>3, <1>4
<1>6. name = x.name /\ Bytes(4 + U32(0), 8) = x.inode_number /\ entry_type = x.entry_type
  BY <1>0, <1>1, <1>4, <1>5 DEF EntryGiven, name, entry_type
<1>7. NextEntry = [name |-> x.name, inode_number |-> x.inode_number, entry_type |-> x.entry_type]
  BY <1>6 DEF NextEntry
<1>. QED
  BY <1>0, <1>1, <1>2, <1>4, <1>7 DEF EntryFields, EntryGiven, WideAs

LEMMA EntryShort ==
    ASSUME CursorOK, NEW x, EntryFields(x), HereAt(0, EncodeDirEntry(x)), ValidEntry(x),
           entries # <<>> => NameBefore(Last(entries).name, x.name)
    PROVE  /\ EncodeDirEntry(x) \in Seq(Nat)
           /\ OnlyShort(EntryChecks, Len(EncodeDirEntry(x)))
<1>0. EntryGiven(x) /\ remaining_len \in Int
  BY EntryReads DEF CursorOK, remaining_len
<1>1. PICK l, n : l = Len(x.name) /\ n = Len(EncodeDirEntry(x))
  OBVIOUS
<1>2. /\ l \in Nat /\ n = 13 + l /\ n \in Int
      /\ 4 <= remaining_len => U32(0) = l
      /\ 4 + l <= remaining_len => Bytes(4, l) = x.name
      /\ 13 + l <= remaining_len => U8(12 + l) = x.entry_type
  BY <1>0, <1>1 DEF EntryGiven, WideAs
<1>3. Short(Read(4 + U32(0)), n) /\ (Read(4 + U32(0)) = "ok" => 4 + l <= remaining_len /\ U32(0) = l)
  <2>1. PICK b \in Nat : b = U32(0)
    BY U32Range
  <2>2. LengthRead(4, b, l, n)
    <3>1. 4 <= remaining_len => b = l
      BY <1>2, <2>1
    <3>2. 4 \in Nat /\ 4 + l <= n
      BY <1>2
    <3>. QED
      BY <1>0, <1>2, <3>1, <3>2, ReadLength
  <2>. QED
    BY <2>1, <2>2 DEF LengthRead
<1>4. ASSUME Read(4 + U32(0)) = "ok"
      PROVE  /\ Short(Check(name # <<>>, "Corrupt"), n)
             /\ Short(Check(SLASH \notin Range(name), "Corrupt"), n)
             /\ Short(Check(0 \notin Range(name), "Corrupt"), n)
             /\ Short(Check(IsUtf8(name), "Corrupt"), n)
             /\ Short(Check(entries # <<>> => NameBefore(Last(entries).name, name), "Corrupt"), n)
             /\ Short(Read(EntryLen), n)
             /\ Read(EntryLen) = "ok" => Short(Check(entry_type \in EntryTypes, "Corrupt"), n)
  <2>1. name = x.name /\ U32(0) = l /\ EntryLen = n
    BY <1>2, <1>3, <1>4 DEF name, EntryLen
  <2>2. /\ x.name # <<>> /\ SLASH \notin Range(x.name) /\ 0 \notin Range(x.name) /\ IsUtf8(x.name)
        /\ x.entry_type \in EntryTypes
    BY DEF ValidEntry
  <2>3. /\ Short(Check(x.name # <<>>, "Corrupt"), n)
        /\ Short(Check(SLASH \notin Range(x.name), "Corrupt"), n)
        /\ Short(Check(0 \notin Range(x.name), "Corrupt"), n)
        /\ Short(Check(IsUtf8(x.name), "Corrupt"), n)
        /\ Short(Check(entries # <<>> => NameBefore(Last(entries).name, x.name), "Corrupt"), n)
    BY <2>2, Zenon DEF Short, Check
  <2>4. Short(Read(n), n) /\ (Read(n) = "ok" => n <= remaining_len)
    BY <1>0, <1>2, ReadShort
  <2>5. Read(n) = "ok" => entry_type = x.entry_type
    BY <1>2, <2>1, <2>4 DEF entry_type
  <2>6. Read(n) = "ok" => Short(Check(entry_type \in EntryTypes, "Corrupt"), n)
    BY <2>2, <2>5, Zenon DEF Short, Check
  <2>. QED
    BY <2>1, <2>3, <2>4, <2>6
<1>5. OnlyShort(EntryChecks, n)
  BY <1>3, <1>4, Short8 DEF EntryChecks
<1>. QED
  BY <1>0, <1>1, <1>5 DEF EntryGiven, WideAs

-----------------------------------------------------------------------------
\* A blob as its items one after another.

Inodes(list) == [j \in DOMAIN list |-> EncodeInode(list[j])]
DirNodes(list) == [j \in DOMAIN list |-> EncodeDirNode(list[j])]

LEMMA XattrsTyped ==
    ASSUME NEW list \in Seq(WrittenXattr)
    PROVE  /\ Xattrs(list) \in Seq(Seq(Nat)) /\ Len(Xattrs(list)) = Len(list) /\ Len(list) \in Nat
           /\ \A k \in 1..Len(list) : Xattrs(list)[k] = EncodeXattr(list[k]) /\ list[k] \in WrittenXattr
<1>1. \A x \in WrittenXattr : EncodeXattr(x) \in Seq(Nat)
  BY XattrsWritten, XattrWide DEF WideAs
<1>2. DOMAIN list = 1..Len(list) /\ Len(list) \in Nat /\ \A k \in 1..Len(list) : list[k] \in WrittenXattr
  OBVIOUS
<1>. QED
  BY <1>1, <1>2 DEF Xattrs

LEMMA SlicesTyped ==
    ASSUME NEW list \in Seq(WrittenSlice)
    PROVE  /\ Slices(list) \in Seq(Seq(Nat)) /\ Len(Slices(list)) = Len(list) /\ Len(list) \in Nat
           /\ \A k \in 1..Len(list) : Slices(list)[k] = EncodeSlice(list[k]) /\ list[k] \in WrittenSlice
<1>1. \A x \in WrittenSlice : EncodeSlice(x) \in Seq(Nat)
  BY SlicesWritten, SliceWide DEF WideAs
<1>2. DOMAIN list = 1..Len(list) /\ Len(list) \in Nat /\ \A k \in 1..Len(list) : list[k] \in WrittenSlice
  OBVIOUS
<1>. QED
  BY <1>1, <1>2 DEF Slices

LEMMA DirEntriesTyped ==
    ASSUME NEW list \in Seq(WrittenEntry)
    PROVE  /\ DirEntries(list) \in Seq(Seq(Nat)) /\ Len(DirEntries(list)) = Len(list) /\ Len(list) \in Nat
           /\ \A k \in 1..Len(list) : DirEntries(list)[k] = EncodeDirEntry(list[k]) /\ list[k] \in WrittenEntry
<1>1. \A x \in WrittenEntry : EncodeDirEntry(x) \in Seq(Nat)
  BY EntriesWritten, EntryWide DEF WideAs
<1>2. DOMAIN list = 1..Len(list) /\ Len(list) \in Nat /\ \A k \in 1..Len(list) : list[k] \in WrittenEntry
  OBVIOUS
<1>. QED
  BY <1>1, <1>2 DEF DirEntries

LEMMA ContentTyped ==
    ASSUME NEW c \in WrittenContent
    PROVE  EncodeContent(c) \in Seq(Nat)
<1>1. CASE c.kind \in {"INLINE_DATA", "SYMLINK"}
  <2>1. EncodeContent(c) = EncodeBytes(c.value) /\ c.value \in Seq(Nat)
    BY <1>1, ContentsWritten DEF EncodeContent
  <2>. QED
    BY <2>1, BytesWidth DEF WideAs
<1>2. CASE c.kind = "SLICE_MAP"
  <2>1. c.value \in Seq(WrittenSlice)
    BY <1>2, ContentsWritten
  <2>2. EncodeContent(c) = Pack32(Len(c.value)) \o FlattenSeq(Slices(c.value))
    BY <1>2 DEF EncodeContent, EncodeList, EncodeEach, Slices
  <2>3. Pack32(Len(c.value)) \in Seq(Nat) /\ FlattenSeq(Slices(c.value)) \in Seq(Nat)
    BY <2>1, PackWidth, SlicesTyped, FlattenTyped
  <2>. QED
    BY <2>2, <2>3, OneAfterTheOther, Zenon
<1>3. CASE c.kind \in {"DIRECTORY", "DEVICE", "PIPE"}
  <2>1. EncodeContent(c) = c.value
    BY <1>3 DEF EncodeContent
  <2>. QED
    BY <1>3, <2>1, ContentsWritten DEF WideAs
<1>. QED
  BY <1>1, <1>2, <1>3, ContentsWritten

InodeParts(i) ==
    /\ HeadOf(i) \in Seq(Nat) /\ Xattrs(i.xattrs) \in Seq(Seq(Nat)) /\ FlattenSeq(Xattrs(i.xattrs)) \in Seq(Nat)
    /\ EncodeContent(i.content_handle) \in Seq(Nat) /\ EncodeInode(i) \in Seq(Nat)
    /\ EncodeInode(i)
         = HeadOf(i) \o (FlattenSeq(Xattrs(i.xattrs)) \o EncodeContent(i.content_handle))

LEMMA InodeInParts ==
    ASSUME NEW i, InodeFields(i)
    PROVE  InodeParts(i)
<1>1. PICK p, a, h, x, c :
        /\ p = Prefix(i) /\ a = i.atime_ns /\ h = CountPart(i)
        /\ x = FlattenSeq(Xattrs(i.xattrs)) /\ c = EncodeContent(i.content_handle)
  OBVIOUS
<1>2. i.xattrs \in Seq(WrittenXattr) /\ i.content_handle \in WrittenContent
  BY DEF InodeFields
<1>3. Xattrs(i.xattrs) \in Seq(Seq(Nat)) /\ x \in Seq(Nat)
  BY <1>1, <1>2, XattrsTyped, FlattenTyped
<1>4. c \in Seq(Nat)
  BY <1>1, <1>2, ContentTyped
<1>5. p \in Seq(Nat) /\ a \in Seq(Nat) /\ h \in Seq(Nat)
  BY <1>1, HeadIsWide DEF HeadWidths, WideAs
<1>6. HeadOf(i) = (p \o a) \o h
  BY <1>1 DEF HeadOf
<1>7. EncodeInode(i) = ((p \o a) \o (h \o x)) \o c
  <2>1. EncodeInode(i) = ((p \o a) \o (IF i.xattrs = <<>> THEN <<>> ELSE EncodeList(i.xattrs, EncodeXattr))) \o c
    BY <1>1 DEF EncodeInode, Prefix
  <2>2. CASE i.xattrs = <<>>
    <3>1. h = <<>>
      BY <1>1, <2>2 DEF CountPart
    <3>2. x = <<>>
      <4>1. Xattrs(<<>>) = <<>>
        BY DEF Xattrs
      <4>. QED
        BY <1>1, <2>2, <4>1, FlattenEmpty
    <3>3. h \o x = <<>>
      BY <3>1, <3>2
    <3>. QED
      BY <2>1, <2>2, <3>3, Zenon
  <2>3. CASE i.xattrs # <<>>
    <3>1. EncodeList(i.xattrs, EncodeXattr) = h \o x
      BY <1>1, <2>3 DEF EncodeList, EncodeEach, Xattrs, CountPart
    <3>. QED
      BY <2>1, <2>3, <3>1, Zenon
  <2>. QED
    BY <2>2, <2>3
<1>8. p \o a \in Seq(Nat) /\ h \o x \in Seq(Nat) /\ x \o c \in Seq(Nat)
  BY <1>3, <1>4, <1>5, OneAfterTheOther, Zenon
<1>9. ((p \o a) \o (h \o x)) \o c = ((p \o a) \o h) \o (x \o c)
  <2>1. PICK q \in Seq(Nat) : q = p \o a
    BY <1>8
  <2>2. (q \o (h \o x)) \o c = q \o ((h \o x) \o c)
    BY <1>4, <1>8, <2>1, GroupedAtWill, Zenon
  <2>. h \in Seq(Nat) /\ x \in Seq(Nat) /\ c \in Seq(Nat)
    BY <1>3, <1>4, <1>5, Zenon
  <2>3. (h \o x) \o c = h \o (x \o c)
    BY GroupedAtWill, ZenonT(60)
  <2>4. (q \o h) \o (x \o c) = q \o (h \o (x \o c))
    BY <1>5, <1>8, <2>1, GroupedAtWill, Zenon
  <2>. QED
    BY <2>1, <2>2, <2>3, <2>4, Zenon
<1>10. (p \o a) \o h \in Seq(Nat) /\ ((p \o a) \o h) \o (x \o c) \in Seq(Nat)
  BY <1>5, <1>8, OneAfterTheOther, Zenon
<1>. QED
  BY <1>1, <1>3, <1>4, <1>6, <1>7, <1>9, <1>10, Zenon DEF InodeParts

LEMMA InodesTyped ==
    ASSUME NEW list \in Seq(WrittenInode)
    PROVE  /\ Inodes(list) \in Seq(Seq(Nat)) /\ Len(Inodes(list)) = Len(list) /\ Len(list) \in Nat
           /\ \A k \in 1..Len(list) : Inodes(list)[k] = EncodeInode(list[k]) /\ list[k] \in WrittenInode
<1>1. \A x \in WrittenInode : EncodeInode(x) \in Seq(Nat)
  BY InodesWritten, InodeInParts DEF InodeParts
<1>2. DOMAIN list = 1..Len(list) /\ Len(list) \in Nat /\ \A k \in 1..Len(list) : list[k] \in WrittenInode
  OBVIOUS
<1>. QED
  BY <1>1, <1>2 DEF Inodes

LEMMA NodeInParts ==
    ASSUME NEW node \in Seq(WrittenEntry)
    PROVE  /\ NodeHead(Len(node)) \in Seq(Nat) /\ DirEntries(node) \in Seq(Seq(Nat))
           /\ FlattenSeq(DirEntries(node)) \in Seq(Nat)
           /\ EncodeDirNode(node) = NodeHead(Len(node)) \o FlattenSeq(DirEntries(node))
           /\ EncodeDirNode(node) \in Seq(Nat)
<1>1. PICK n, f : n = Pack32(Len(node)) /\ f = FlattenSeq(DirEntries(node))
  OBVIOUS
<1>2. n \in Seq(Nat) /\ f \in Seq(Nat) /\ DirEntries(node) \in Seq(Seq(Nat))
  BY <1>1, PackWidth, DirEntriesTyped, FlattenTyped
<1>3. <<1>> \in Seq(Nat)
  OBVIOUS
<1>4. EncodeDirNode(node) = <<1>> \o (n \o f)
  BY <1>1 DEF EncodeDirNode, EncodeList, EncodeEach, DirEntries
<1>5. (<<1>> \o n) \o f = <<1>> \o (n \o f)
  BY <1>2, <1>3, GroupedAtWill, Zenon
<1>6. <<1>> \o n \in Seq(Nat) /\ (<<1>> \o n) \o f \in Seq(Nat)
  BY <1>2, <1>3, OneAfterTheOther, Zenon
<1>. QED
  BY <1>1, <1>2, <1>4, <1>5, <1>6, Zenon DEF NodeHead

LEMMA DirNodesTyped ==
    ASSUME NEW list \in Seq(Seq(WrittenEntry))
    PROVE  /\ DirNodes(list) \in Seq(Seq(Nat)) /\ Len(DirNodes(list)) = Len(list) /\ Len(list) \in Nat
           /\ \A k \in 1..Len(list) : DirNodes(list)[k] = EncodeDirNode(list[k]) /\ list[k] \in Seq(WrittenEntry)
<1>1. \A x \in Seq(WrittenEntry) : EncodeDirNode(x) \in Seq(Nat)
  BY NodeInParts
<1>2. DOMAIN list = 1..Len(list) /\ Len(list) \in Nat /\ \A k \in 1..Len(list) : list[k] \in Seq(WrittenEntry)
  OBVIOUS
<1>. QED
  BY <1>1, <1>2 DEF DirNodes

NodesBytes(m) == Pack32(Len(m.dir_nodes)) \o FlattenSeq(DirNodes(m.dir_nodes))

BlobParts(m) ==
    /\ m.inodes \in Seq(WrittenInode) /\ m.dir_nodes \in Seq(Seq(WrittenEntry))
    /\ Len(m.inodes) \in Nat /\ Len(m.dir_nodes) \in Nat
    /\ Inodes(m.inodes) \in Seq(Seq(Nat)) /\ FlattenSeq(Inodes(m.inodes)) \in Seq(Nat)
    /\ DirNodes(m.dir_nodes) \in Seq(Seq(Nat)) /\ FlattenSeq(DirNodes(m.dir_nodes)) \in Seq(Nat)
    /\ NodesBytes(m) \in Seq(Nat) /\ EncodeBlob(m) \in Seq(Nat)
    /\ EncodeBlob(m) = Pack32(Len(m.inodes)) \o (FlattenSeq(Inodes(m.inodes)) \o NodesBytes(m))

LEMMA BlobInParts ==
    ASSUME NEW m \in WrittenImage
    PROVE  BlobParts(m)
<1>1. m.inodes \in Seq(WrittenInode) /\ m.dir_nodes \in Seq(Seq(WrittenEntry))
  BY DEF WrittenImage
<1>2. Len(m.inodes) \in Nat /\ Len(m.dir_nodes) \in Nat
  BY <1>1
<1>3. PICK n, f, k, g :
        /\ n = Pack32(Len(m.inodes)) /\ f = FlattenSeq(Inodes(m.inodes))
        /\ k = Pack32(Len(m.dir_nodes)) /\ g = FlattenSeq(DirNodes(m.dir_nodes))
  OBVIOUS
<1>4. Inodes(m.inodes) \in Seq(Seq(Nat)) /\ DirNodes(m.dir_nodes) \in Seq(Seq(Nat))
  BY <1>1, InodesTyped, DirNodesTyped
<1>5. n \in Seq(Nat) /\ f \in Seq(Nat) /\ k \in Seq(Nat) /\ g \in Seq(Nat)
  BY <1>2, <1>3, <1>4, PackWidth, FlattenTyped
<1>6. PICK t \in Seq(Nat) : t = k \o g
  BY <1>5, OneAfterTheOther
<1>7. NodesBytes(m) = t
  BY <1>3, <1>6 DEF NodesBytes
<1>8. EncodeBlob(m) = (n \o f) \o t
  BY <1>3, <1>6 DEF EncodeBlob, EncodeList, EncodeEach, Inodes, DirNodes
<1>9. (n \o f) \o t = n \o (f \o t)
  BY <1>5, <1>6, GroupedAtWill, Zenon
<1>10. f \o t \in Seq(Nat) /\ n \o (f \o t) \in Seq(Nat)
  BY <1>5, <1>6, OneAfterTheOther, Zenon
<1>. QED
  BY <1>1, <1>2, <1>3, <1>4, <1>5, <1>6, <1>7, <1>8, <1>9, <1>10, Zenon DEF BlobParts

-----------------------------------------------------------------------------
\* Items one after another, and what comes after the last.

\* What comes after the first k of these items, when tail comes after all.
ItemsAhead(items, k, tail, rest) == \E s : Remains(items, k, s) /\ rest = s \o tail

ItemsMore(items, k, tail, rest) ==
    /\ items[k + 1] \in Seq(Nat)
    /\ \E after \in Seq(Nat) : ItemsAhead(items, k + 1, tail, after) /\ rest = items[k + 1] \o after

LEMMA ItemsNext ==
    ASSUME NEW items \in Seq(Seq(Nat)), NEW k \in 0..(Len(items) - 1), NEW tail \in Seq(Nat), NEW rest,
           ItemsAhead(items, k, tail, rest)
    PROVE  ItemsMore(items, k, tail, rest)
<1>1. PICK r : Remains(items, k, r) /\ rest = r \o tail
  BY DEF ItemsAhead
<1>2. RemainsMore(items, k, r)
  BY <1>1, RemainsNext
<1>3. PICK more : Remains(items, k + 1, more) /\ r = items[k + 1] \o more
  BY <1>2 DEF RemainsMore
<1>4. PICK item \in Seq(Nat) : item = items[k + 1]
  BY <1>2 DEF RemainsMore
<1>5. more \in Seq(Nat)
  BY <1>3 DEF Remains
<1>6. rest = item \o (more \o tail) /\ more \o tail \in Seq(Nat)
  <2>1. (item \o more) \o tail = item \o (more \o tail)
    BY <1>4, <1>5, GroupedAtWill
  <2>2. rest = (item \o more) \o tail
    BY <1>1, <1>3, <1>4, Zenon
  <2>3. more \o tail \in Seq(Nat)
    BY <1>5, OneAfterTheOther
  <2>. QED
    BY <2>1, <2>2, <2>3, Zenon
<1>7. ItemsAhead(items, k + 1, tail, more \o tail)
  BY <1>3 DEF ItemsAhead
<1>. QED
  BY <1>4, <1>6, <1>7 DEF ItemsMore

LEMMA ItemsEnd ==
    ASSUME NEW items \in Seq(Seq(Nat)), NEW tail \in Seq(Nat), NEW rest,
           ItemsAhead(items, Len(items), tail, rest)
    PROVE  rest = tail
<1>1. PICK r : Remains(items, Len(items), r) /\ rest = r \o tail
  BY DEF ItemsAhead
<1>2. r = <<>>
  BY <1>1, RemainsNone
<1>. QED
  BY <1>1, <1>2

LEMMA ItemsBegin ==
    ASSUME NEW items \in Seq(Seq(Nat)), NEW tail \in Seq(Nat)
    PROVE  ItemsAhead(items, 0, tail, FlattenSeq(items) \o tail)
BY RemainsAll DEF ItemsAhead

LEMMA ItemsTyped ==
    ASSUME NEW items, NEW k, NEW tail \in Seq(Nat), NEW rest, ItemsAhead(items, k, tail, rest)
    PROVE  rest \in Seq(Nat)
BY OneAfterTheOther DEF ItemsAhead, Remains

-----------------------------------------------------------------------------
\* Every step of the parser finds ahead of it the rest of what was written.

AfterInodes(m, k, rest) == ItemsAhead(Inodes(m.inodes), k, NodesBytes(m), rest)
AfterNodes(m, k, rest) == ItemsAhead(DirNodes(m.dir_nodes), k, <<>>, rest)

\* The inode and the node that are read next.
ThisInode(m) == m.inodes[Len(inodes) + 1]
ThisNode(m) == m.dir_nodes[Len(dir_nodes) + 1]

InodesFollow(m, rest) ==
    Part(inodes, inodes_left, m.inodes) /\ AfterInodes(m, Len(inodes), rest)

HeadFollows(m) ==
    /\ Part(inodes, inodes_left, m.inodes)
    /\ SameHead(inode, ThisInode(m)) /\ inode_flags = FlagsOf(ThisInode(m))

XattrsFollow(m, rest) ==
    /\ HeadFollows(m)
    /\ Part(inode.xattrs, left, ThisInode(m).xattrs)
    /\ \E more : /\ AfterInodes(m, Len(inodes) + 1, more)
                 /\ ItemsAhead(Xattrs(ThisInode(m).xattrs), Len(inode.xattrs),
                               EncodeContent(ThisInode(m).content_handle) \o more, rest)

SlicesFollow(m, rest) ==
    /\ HeadFollows(m)
    /\ inode.xattrs = ThisInode(m).xattrs
    /\ ThisInode(m).content_handle.kind = "SLICE_MAP"
    /\ Part(inode.content_handle.value, left, ThisInode(m).content_handle.value)
    /\ \E more : /\ AfterInodes(m, Len(inodes) + 1, more)
                 /\ ItemsAhead(Slices(ThisInode(m).content_handle.value),
                               Len(inode.content_handle.value), more, rest)

NodesFollow(m, rest) ==
    /\ inodes = m.inodes
    /\ Part(dir_nodes, nodes_left, m.dir_nodes)
    /\ AfterNodes(m, Len(dir_nodes), rest)

EntriesFollow(m, rest) ==
    /\ inodes = m.inodes
    /\ Part(dir_nodes, nodes_left, m.dir_nodes)
    /\ Part(entries, left, ThisNode(m))
    /\ \E more : /\ AfterNodes(m, Len(dir_nodes) + 1, more)
                 /\ ItemsAhead(DirEntries(ThisNode(m)), Len(entries), more, rest)

Ahead(m, rest) ==
    /\ step = "inode_count" => inodes = <<>> /\ rest = EncodeBlob(m)
    /\ step = "inodes" => InodesFollow(m, rest)
    /\ step = "xattrs" => XattrsFollow(m, rest)
    /\ step = "slices" => SlicesFollow(m, rest)
    /\ step = "dir_nodes" => NodesFollow(m, rest)
    /\ step = "entries" => EntriesFollow(m, rest)
    /\ status = "parsed" => nodes_left = 0

Follows(m) == \E rest : Facing(rest, Len(EncodeBlob(m))) /\ Ahead(m, rest)

\* The place in a list after what has been read of it.
LEMMA NextPlace ==
    ASSUME NEW list, Len(list) \in Nat, NEW more \in Nat, NEW whole, Part(list, more, whole), more > 0
    PROVE  Len(list) \in 0..(Len(whole) - 1) /\ Len(list) + 1 \in 1..Len(whole) /\ Len(whole) \in Nat
<1>1. Len(list) + more = Len(whole)
  BY Zenon DEF Part
<1>2. PICK k \in Nat : k = Len(list)
  OBVIOUS
<1>. QED
  BY <1>1, <1>2

LEMMA Counters ==
    ASSUME IInv
    PROVE  /\ inodes_left \in Nat /\ nodes_left \in Nat /\ left \in Nat
           /\ Len(inodes) \in Nat /\ Len(dir_nodes) \in Nat /\ Len(entries) \in Nat
           /\ step \in {"xattrs", "slices"} => inodes_left > 0 /\ Len(inode.xattrs) \in Nat
           /\ step = "slices" => Len(inode.content_handle.value) \in Nat
           /\ step = "entries" => nodes_left > 0
<1>1. /\ inodes_left \in 0..TOO_LARGE /\ nodes_left \in 0..TOO_LARGE /\ left \in 0..TOO_LARGE
      /\ inodes \in Seq(InodeType) /\ dir_nodes \in Seq(Seq(EntryType)) /\ entries \in Seq(EntryType)
  BY DEF IInv, TypesOK
<1>2. inodes_left \in Nat /\ nodes_left \in Nat /\ left \in Nat
  BY <1>1, CursorKept
<1>3. Len(inodes) \in Nat /\ Len(dir_nodes) \in Nat /\ Len(entries) \in Nat
  BY <1>1
<1>4. step \in {"xattrs", "slices"} => inodes_left > 0 /\ Len(inode.xattrs) \in Nat
  BY DEF IInv, InodeBegun, InodeType
<1>5. step = "slices" => Len(inode.content_handle.value) \in Nat
  BY DEF IInv, InodeBegun, SlicesRead, InodeType, ContentType
<1>6. step = "entries" => nodes_left > 0
  BY DEF IInv, NodeBegun
<1>. QED
  BY <1>2, <1>3, <1>4, <1>5, <1>6

LEMMA AfterTyped ==
    ASSUME NEW m \in WrittenImage, NEW k, NEW more, AfterInodes(m, k, more)
    PROVE  more \in Seq(Nat)
BY BlobInParts, ItemsTyped DEF AfterInodes, BlobParts

\* An inode is next.
InodeNext(m, rest, more) ==
    /\ ThisInode(m) \in WrittenInode
    /\ InodeFields(ThisInode(m)) /\ InodeParts(ThisInode(m))
    /\ more \in Seq(Nat) /\ AfterInodes(m, Len(inodes) + 1, more)
    /\ LET i == ThisInode(m)
           after == FlattenSeq(Xattrs(i.xattrs)) \o (EncodeContent(i.content_handle) \o more)
       IN  rest = HeadOf(i) \o after /\ after \in Seq(Nat)

LEMMA ThisInodeIs ==
    ASSUME IInv, NEW m \in WrittenImage, Part(inodes, inodes_left, m.inodes), inodes_left > 0
    PROVE  /\ ThisInode(m) \in WrittenInode
           /\ InodeFields(ThisInode(m)) /\ InodeParts(ThisInode(m))
           /\ Len(inodes) \in 0..(Len(Inodes(m.inodes)) - 1)
           /\ Inodes(m.inodes)[Len(inodes) + 1] = EncodeInode(ThisInode(m))
<1>1. BlobParts(m)
  BY BlobInParts
<1>2. PICK k : k = Len(inodes)
  OBVIOUS
<1>3. k \in 0..(Len(m.inodes) - 1) /\ k + 1 \in 1..Len(m.inodes)
  BY <1>2, NextPlace, Counters
<1>4. m.inodes[k + 1] \in WrittenInode /\ Len(Inodes(m.inodes)) = Len(m.inodes)
      /\ Inodes(m.inodes)[k + 1] = EncodeInode(m.inodes[k + 1])
  BY <1>1, <1>3, InodesTyped DEF BlobParts
<1>. QED
  BY <1>2, <1>3, <1>4, InodesWritten, InodeInParts DEF ThisInode

LEMMA InodesSplit ==
    ASSUME IInv, NEW m \in WrittenImage, NEW rest, InodesFollow(m, rest), inodes_left > 0
    PROVE  \E more : InodeNext(m, rest, more)
<1>1. Part(inodes, inodes_left, m.inodes) /\ AfterInodes(m, Len(inodes), rest)
  BY DEF InodesFollow
<1>2. PICK k, i, items, tail :
        k = Len(inodes) /\ i = ThisInode(m) /\ items = Inodes(m.inodes) /\ tail = NodesBytes(m)
  OBVIOUS
<1>3. /\ i \in WrittenInode /\ InodeFields(i) /\ InodeParts(i)
      /\ k \in 0..(Len(items) - 1) /\ items[k + 1] = EncodeInode(i)
  BY <1>1, <1>2, ThisInodeIs
<1>4. items \in Seq(Seq(Nat)) /\ tail \in Seq(Nat)
  BY <1>2, BlobInParts DEF BlobParts
<1>5. ItemsAhead(items, k, tail, rest)
  BY <1>1, <1>2 DEF AfterInodes
<1>6. ItemsMore(items, k, tail, rest)
  BY <1>3, <1>4, <1>5, ItemsNext
<1>7. PICK more \in Seq(Nat) : ItemsAhead(items, k + 1, tail, more) /\ rest = EncodeInode(i) \o more
  BY <1>3, <1>6, Zenon DEF ItemsMore
<1>8. AfterInodes(m, Len(inodes) + 1, more)
  BY <1>2, <1>7 DEF AfterInodes
<1>10. PICK h, x, c : h = HeadOf(i) /\ x = FlattenSeq(Xattrs(i.xattrs)) /\ c = EncodeContent(i.content_handle)
  OBVIOUS
<1>12. h \in Seq(Nat) /\ x \in Seq(Nat) /\ c \in Seq(Nat) /\ EncodeInode(i) = h \o (x \o c)
  BY <1>3, <1>10 DEF InodeParts
<1>13. x \o c \in Seq(Nat) /\ c \o more \in Seq(Nat) /\ x \o (c \o more) \in Seq(Nat)
  BY <1>12, OneAfterTheOther
<1>14. rest = h \o (x \o (c \o more))
  <2>0. PICK q \in Seq(Nat) : q = x \o c
    BY <1>13
  <2>1. (h \o q) \o more = h \o (q \o more)
    BY <1>12, <2>0, GroupedAtWill, Zenon
  <2>2. (x \o c) \o more = x \o (c \o more)
    BY <1>12, GroupedAtWill, Zenon
  <2>. QED
    BY <1>7, <1>12, <2>0, <2>1, <2>2, Zenon
<1>. QED
  BY <1>2, <1>3, <1>8, <1>10, <1>13, <1>14, Zenon DEF InodeNext

\* No inode is left.
LEMMA InodesOver ==
    ASSUME IInv, NEW m \in WrittenImage, NEW rest, InodesFollow(m, rest), inodes_left = 0
    PROVE  inodes = m.inodes /\ rest = NodesBytes(m)
<1>1. BlobParts(m)
  BY BlobInParts
<1>2. inodes = m.inodes
  <2>1. Len(inodes) \in Nat /\ Part(inodes, 0, m.inodes)
    BY Counters DEF InodesFollow
  <2>2. m.inodes \in Seq(WrittenInode)
    BY <1>1 DEF BlobParts
  <2>. QED
    BY <2>1, <2>2, PartEnds
<1>3. PICK items, tail : items = Inodes(m.inodes) /\ tail = NodesBytes(m)
  OBVIOUS
<1>4. items \in Seq(Seq(Nat)) /\ tail \in Seq(Nat) /\ Len(items) = Len(m.inodes)
  BY <1>1, <1>3, InodesTyped DEF BlobParts
<1>5. ItemsAhead(items, Len(items), tail, rest)
  BY <1>2, <1>3, <1>4 DEF InodesFollow, AfterInodes
<1>. QED
  BY <1>2, <1>3, <1>4, <1>5, ItemsEnd

\* An attribute is next.
XattrNext(m, rest, after) ==
    LET i == ThisInode(m)
        k == Len(inode.xattrs)
        x == i.xattrs[k + 1]
    IN  /\ k + 1 \in 1..Len(i.xattrs)
        /\ XattrFields(x) /\ EncodeXattr(x) \in Seq(Nat)
        /\ after \in Seq(Nat) /\ rest = EncodeXattr(x) \o after
        /\ Part(Append(inode.xattrs, x), left - 1, i.xattrs) /\ Len(Append(inode.xattrs, x)) = k + 1
        /\ \E more : /\ AfterInodes(m, Len(inodes) + 1, more)
                     /\ ItemsAhead(Xattrs(i.xattrs), k + 1, EncodeContent(i.content_handle) \o more, after)

LEMMA XattrsSplit ==
    ASSUME IInv, step = "xattrs", NEW m \in WrittenImage, NEW rest, XattrsFollow(m, rest), left > 0
    PROVE  \E after : XattrNext(m, rest, after)
<1>1. PICK i, l, k : i = ThisInode(m) /\ l = inode.xattrs /\ k = Len(inode.xattrs)
  OBVIOUS
<1>2. Part(inodes, inodes_left, m.inodes) /\ Part(l, left, i.xattrs)
  BY <1>1 DEF XattrsFollow, HeadFollows
<1>3. k = Len(l) /\ Len(l) \in Nat /\ left \in Nat /\ left # 0 /\ inodes_left > 0
  BY <1>1, Counters
<1>4. InodeFields(i) /\ InodeParts(i)
  BY <1>1, <1>2, <1>3, ThisInodeIs
<1>5. PICK w \in Seq(WrittenXattr) : w = i.xattrs
  BY <1>4 DEF InodeFields
<1>6. k \in 0..(Len(w) - 1) /\ k + 1 \in 1..Len(w)
  BY <1>2, <1>3, <1>5, NextPlace
<1>7. NextInList(l, left, w) /\ w[k + 1] \in WrittenXattr
  BY <1>2, <1>3, <1>5, PartGrows
<1>8. PICK x : x = w[k + 1]
  OBVIOUS
<1>9. Part(Append(l, x), left - 1, w) /\ Len(Append(l, x)) = k + 1
  BY <1>3, <1>7, <1>8 DEF NextInList
<1>10. XattrFields(x) /\ EncodeXattr(x) \in Seq(Nat)
  BY <1>7, <1>8, XattrsWritten, XattrWide DEF WideAs
<1>11. PICK more : /\ AfterInodes(m, Len(inodes) + 1, more)
                   /\ ItemsAhead(Xattrs(w), k, EncodeContent(i.content_handle) \o more, rest)
  BY <1>1, <1>5 DEF XattrsFollow
<1>12. PICK tail : tail = EncodeContent(i.content_handle) \o more
  OBVIOUS
<1>13. tail \in Seq(Nat)
  BY <1>4, <1>11, <1>12, AfterTyped, OneAfterTheOther DEF InodeParts
<1>14. PICK items \in Seq(Seq(Nat)) : items = Xattrs(w)
  BY XattrsTyped
<1>15. k \in 0..(Len(items) - 1) /\ items[k + 1] = EncodeXattr(x) /\ ItemsAhead(items, k, tail, rest)
  BY <1>6, <1>8, <1>11, <1>12, <1>14, XattrsTyped
<1>16. ItemsMore(items, k, tail, rest)
  BY <1>13, <1>15, ItemsNext
<1>17. PICK after \in Seq(Nat) : ItemsAhead(items, k + 1, tail, after) /\ rest = EncodeXattr(x) \o after
  BY <1>15, <1>16, Zenon DEF ItemsMore
<1>. QED
  BY <1>1, <1>5, <1>6, <1>8, <1>9, <1>10, <1>11, <1>12, <1>14, <1>17, Zenon DEF XattrNext

LEMMA XattrsOver ==
    ASSUME IInv, step = "xattrs", NEW m \in WrittenImage, NEW rest, XattrsFollow(m, rest), left = 0
    PROVE  /\ inode.xattrs = ThisInode(m).xattrs
           /\ InodeFields(ThisInode(m)) /\ InodeParts(ThisInode(m))
           /\ \E more \in Seq(Nat) : /\ AfterInodes(m, Len(inodes) + 1, more)
                                     /\ rest = EncodeContent(ThisInode(m).content_handle) \o more
<1>1. PICK i, l : i = ThisInode(m) /\ l = inode.xattrs
  OBVIOUS
<1>2. Part(inodes, inodes_left, m.inodes) /\ Part(l, 0, i.xattrs)
  BY <1>1 DEF XattrsFollow, HeadFollows
<1>3. Len(l) \in Nat /\ inodes_left > 0
  BY <1>1, Counters
<1>4. InodeFields(i) /\ InodeParts(i)
  BY <1>1, <1>2, <1>3, ThisInodeIs
<1>5. PICK w \in Seq(WrittenXattr) : w = i.xattrs
  BY <1>4 DEF InodeFields
<1>6. l = w
  BY <1>2, <1>3, <1>5, PartEnds
<1>7. PICK more : /\ AfterInodes(m, Len(inodes) + 1, more)
                  /\ ItemsAhead(Xattrs(w), Len(w), EncodeContent(i.content_handle) \o more, rest)
  BY <1>1, <1>5, <1>6 DEF XattrsFollow
<1>8. PICK tail : tail = EncodeContent(i.content_handle) \o more
  OBVIOUS
<1>9. tail \in Seq(Nat) /\ more \in Seq(Nat)
  BY <1>4, <1>7, <1>8, AfterTyped, OneAfterTheOther DEF InodeParts
<1>10. PICK items \in Seq(Seq(Nat)) : items = Xattrs(w)
  BY XattrsTyped
<1>11. ItemsAhead(items, Len(items), tail, rest)
  BY <1>7, <1>8, <1>10, XattrsTyped
<1>12. rest = tail
  BY <1>9, <1>11, ItemsEnd
<1>. QED
  BY <1>1, <1>4, <1>5, <1>6, <1>7, <1>8, <1>9, <1>12, Zenon

\* A slice is next.
SliceNext(m, rest, after) ==
    LET list == ThisInode(m).content_handle.value
        k == Len(inode.content_handle.value)
        x == list[k + 1]
    IN  /\ k + 1 \in 1..Len(list)
        /\ SliceFields(x) /\ EncodeSlice(x) \in Seq(Nat)
        /\ after \in Seq(Nat) /\ rest = EncodeSlice(x) \o after
        /\ Part(Append(inode.content_handle.value, x), left - 1, list)
        /\ Len(Append(inode.content_handle.value, x)) = k + 1
        /\ \E more : /\ AfterInodes(m, Len(inodes) + 1, more)
                     /\ ItemsAhead(Slices(list), k + 1, more, after)

LEMMA SlicesSplit ==
    ASSUME IInv, step = "slices", NEW m \in WrittenImage, NEW rest, SlicesFollow(m, rest), left > 0
    PROVE  \E after : SliceNext(m, rest, after)
<1>1. PICK i, l, k : i = ThisInode(m) /\ l = inode.content_handle.value /\ k = Len(inode.content_handle.value)
  OBVIOUS
<1>2. /\ Part(inodes, inodes_left, m.inodes) /\ Part(l, left, i.content_handle.value)
      /\ i.content_handle.kind = "SLICE_MAP"
  BY <1>1 DEF SlicesFollow, HeadFollows
<1>3. k = Len(l) /\ Len(l) \in Nat /\ left \in Nat /\ left # 0 /\ inodes_left > 0
  BY <1>1, Counters
<1>4. InodeFields(i)
  BY <1>1, <1>2, <1>3, ThisInodeIs
<1>5. PICK w \in Seq(WrittenSlice) : w = i.content_handle.value
  BY <1>2, <1>4, ContentsWritten DEF InodeFields
<1>6. k \in 0..(Len(w) - 1) /\ k + 1 \in 1..Len(w)
  BY <1>2, <1>3, <1>5, NextPlace
<1>7. NextInList(l, left, w) /\ w[k + 1] \in WrittenSlice
  BY <1>2, <1>3, <1>5, PartGrows
<1>8. PICK x : x = w[k + 1]
  OBVIOUS
<1>9. Part(Append(l, x), left - 1, w) /\ Len(Append(l, x)) = k + 1
  BY <1>3, <1>7, <1>8 DEF NextInList
<1>10. SliceFields(x) /\ EncodeSlice(x) \in Seq(Nat)
  BY <1>7, <1>8, SlicesWritten, SliceWide DEF WideAs
<1>11. PICK more : AfterInodes(m, Len(inodes) + 1, more) /\ ItemsAhead(Slices(w), k, more, rest)
  BY <1>1, <1>5 DEF SlicesFollow
<1>13. more \in Seq(Nat)
  BY <1>11, AfterTyped
<1>14. PICK items \in Seq(Seq(Nat)) : items = Slices(w)
  BY SlicesTyped
<1>15. k \in 0..(Len(items) - 1) /\ items[k + 1] = EncodeSlice(x) /\ ItemsAhead(items, k, more, rest)
  BY <1>6, <1>8, <1>11, <1>14, SlicesTyped
<1>16. ItemsMore(items, k, more, rest)
  BY <1>13, <1>15, ItemsNext
<1>17. PICK after \in Seq(Nat) : ItemsAhead(items, k + 1, more, after) /\ rest = EncodeSlice(x) \o after
  BY <1>15, <1>16, Zenon DEF ItemsMore
<1>. QED
  BY <1>1, <1>5, <1>6, <1>8, <1>9, <1>10, <1>11, <1>14, <1>17, Zenon DEF SliceNext

LEMMA SlicesOver ==
    ASSUME IInv, step = "slices", NEW m \in WrittenImage, NEW rest, SlicesFollow(m, rest), left = 0
    PROVE  /\ inode.content_handle.value = ThisInode(m).content_handle.value
           /\ InodeFields(ThisInode(m))
           /\ AfterInodes(m, Len(inodes) + 1, rest)
<1>1. PICK i, l : i = ThisInode(m) /\ l = inode.content_handle.value
  OBVIOUS
<1>2. /\ Part(inodes, inodes_left, m.inodes) /\ Part(l, 0, i.content_handle.value)
      /\ i.content_handle.kind = "SLICE_MAP"
  BY <1>1 DEF SlicesFollow, HeadFollows
<1>3. Len(l) \in Nat /\ inodes_left > 0
  BY <1>1, Counters
<1>4. InodeFields(i)
  BY <1>1, <1>2, <1>3, ThisInodeIs
<1>5. PICK w \in Seq(WrittenSlice) : w = i.content_handle.value
  BY <1>2, <1>4, ContentsWritten DEF InodeFields
<1>6. l = w
  BY <1>2, <1>3, <1>5, PartEnds
<1>7. PICK more : AfterInodes(m, Len(inodes) + 1, more) /\ ItemsAhead(Slices(w), Len(w), more, rest)
  BY <1>1, <1>5, <1>6 DEF SlicesFollow
<1>9. more \in Seq(Nat)
  BY <1>7, AfterTyped
<1>10. PICK items \in Seq(Seq(Nat)) : items = Slices(w)
  BY SlicesTyped
<1>11. ItemsAhead(items, Len(items), more, rest)
  BY <1>7, <1>10, SlicesTyped
<1>12. rest = more
  BY <1>9, <1>11, ItemsEnd
<1>. QED
  BY <1>1, <1>4, <1>5, <1>6, <1>7, <1>12, Zenon

\* A node is next.
NodeNext(m, rest, after) ==
    LET n == ThisNode(m)
    IN  /\ n \in Seq(WrittenEntry) /\ Len(n) \in Nat
        /\ NodeHead(Len(n)) \in Seq(Nat) /\ after \in Seq(Nat) /\ rest = NodeHead(Len(n)) \o after
        /\ \E more : /\ AfterNodes(m, Len(dir_nodes) + 1, more)
                     /\ ItemsAhead(DirEntries(n), 0, more, after)

LEMMA ThisNodeIs ==
    ASSUME IInv, NEW m \in WrittenImage, Part(dir_nodes, nodes_left, m.dir_nodes), nodes_left > 0
    PROVE  /\ ThisNode(m) \in Seq(WrittenEntry)
           /\ Len(dir_nodes) \in 0..(Len(DirNodes(m.dir_nodes)) - 1)
           /\ DirNodes(m.dir_nodes)[Len(dir_nodes) + 1] = EncodeDirNode(ThisNode(m))
<1>1. BlobParts(m)
  BY BlobInParts
<1>2. PICK k : k = Len(dir_nodes)
  OBVIOUS
<1>3. k \in 0..(Len(m.dir_nodes) - 1) /\ k + 1 \in 1..Len(m.dir_nodes)
  BY <1>2, NextPlace, Counters
<1>4. m.dir_nodes[k + 1] \in Seq(WrittenEntry) /\ Len(DirNodes(m.dir_nodes)) = Len(m.dir_nodes)
      /\ DirNodes(m.dir_nodes)[k + 1] = EncodeDirNode(m.dir_nodes[k + 1])
  BY <1>1, <1>3, DirNodesTyped DEF BlobParts
<1>. QED
  BY <1>2, <1>3, <1>4 DEF ThisNode

LEMMA NoTail == <<>> \in Seq(Nat) /\ \A s \in Seq(Nat) : s \o <<>> = s
OBVIOUS

LEMMA NodesSplit ==
    ASSUME IInv, NEW m \in WrittenImage, NEW rest, NodesFollow(m, rest), nodes_left > 0
    PROVE  \E after : NodeNext(m, rest, after)
<1>1. Part(dir_nodes, nodes_left, m.dir_nodes) /\ AfterNodes(m, Len(dir_nodes), rest)
  BY DEF NodesFollow
<1>2. PICK k, n, items : k = Len(dir_nodes) /\ n = ThisNode(m) /\ items = DirNodes(m.dir_nodes)
  OBVIOUS
<1>3. n \in Seq(WrittenEntry) /\ k \in 0..(Len(items) - 1) /\ items[k + 1] = EncodeDirNode(n)
  BY <1>1, <1>2, ThisNodeIs
<1>4. items \in Seq(Seq(Nat))
  BY <1>2, BlobInParts DEF BlobParts
<1>5. ItemsAhead(items, k, <<>>, rest)
  BY <1>1, <1>2 DEF AfterNodes
<1>6. ItemsMore(items, k, <<>>, rest)
  BY <1>3, <1>4, <1>5, NoTail, ItemsNext
<1>7. PICK more \in Seq(Nat) : ItemsAhead(items, k + 1, <<>>, more) /\ rest = EncodeDirNode(n) \o more
  BY <1>3, <1>6, Zenon DEF ItemsMore
<1>8. AfterNodes(m, Len(dir_nodes) + 1, more)
  BY <1>2, <1>7 DEF AfterNodes
<1>9. PICK h, f : h = NodeHead(Len(n)) /\ f = FlattenSeq(DirEntries(n))
  OBVIOUS
<1>10. h \in Seq(Nat) /\ f \in Seq(Nat) /\ DirEntries(n) \in Seq(Seq(Nat)) /\ EncodeDirNode(n) = h \o f
  BY <1>3, <1>9, NodeInParts
<1>11. f \o more \in Seq(Nat) /\ (h \o f) \o more = h \o (f \o more)
  BY <1>10, OneAfterTheOther, GroupedAtWill
<1>12. ItemsAhead(DirEntries(n), 0, more, f \o more)
  BY <1>9, <1>10, ItemsBegin
<1>13. rest = h \o (f \o more)
  BY <1>7, <1>10, <1>11, Zenon
<1>14. Len(n) \in Nat
  BY <1>3
<1>. QED
  BY <1>2, <1>3, <1>8, <1>9, <1>10, <1>11, <1>12, <1>13, <1>14, Zenon DEF NodeNext

LEMMA NodesOver ==
    ASSUME IInv, NEW m \in WrittenImage, NEW rest, NodesFollow(m, rest), nodes_left = 0
    PROVE  dir_nodes = m.dir_nodes /\ rest = <<>>
<1>1. BlobParts(m)
  BY BlobInParts
<1>2. dir_nodes = m.dir_nodes
  <2>1. Len(dir_nodes) \in Nat /\ Part(dir_nodes, 0, m.dir_nodes)
    BY Counters DEF NodesFollow
  <2>2. m.dir_nodes \in Seq(Seq(WrittenEntry))
    BY <1>1 DEF BlobParts
  <2>. QED
    BY <2>1, <2>2, PartEnds
<1>3. PICK items : items = DirNodes(m.dir_nodes)
  OBVIOUS
<1>4. items \in Seq(Seq(Nat)) /\ Len(items) = Len(m.dir_nodes)
  BY <1>1, <1>3, DirNodesTyped DEF BlobParts
<1>5. ItemsAhead(items, Len(items), <<>>, rest)
  BY <1>2, <1>3, <1>4 DEF NodesFollow, AfterNodes
<1>. QED
  BY <1>2, <1>4, <1>5, NoTail, ItemsEnd

LEMMA AfterNodesTyped ==
    ASSUME NEW m \in WrittenImage, NEW k, NEW more, AfterNodes(m, k, more)
    PROVE  more \in Seq(Nat)
BY NoTail, ItemsTyped DEF AfterNodes

\* An entry is next.
EntryNext(m, rest, after) ==
    LET list == ThisNode(m)
        k == Len(entries)
        x == list[k + 1]
    IN  /\ k + 1 \in 1..Len(list)
        /\ entries = SubSeq(list, 1, k)
        /\ EntryFields(x) /\ EncodeDirEntry(x) \in Seq(Nat)
        /\ after \in Seq(Nat) /\ rest = EncodeDirEntry(x) \o after
        /\ Part(Append(entries, x), left - 1, list) /\ Len(Append(entries, x)) = k + 1
        /\ \E more : /\ AfterNodes(m, Len(dir_nodes) + 1, more)
                     /\ ItemsAhead(DirEntries(list), k + 1, more, after)

LEMMA EntriesSplit ==
    ASSUME IInv, step = "entries", NEW m \in WrittenImage, NEW rest, EntriesFollow(m, rest), left > 0
    PROVE  \E after : EntryNext(m, rest, after)
<1>1. PICK l, k : l = entries /\ k = Len(entries)
  OBVIOUS
<1>2. Part(dir_nodes, nodes_left, m.dir_nodes) /\ Part(l, left, ThisNode(m))
  BY <1>1 DEF EntriesFollow
<1>3. k = Len(l) /\ Len(l) \in Nat /\ left \in Nat /\ left # 0 /\ nodes_left > 0
  BY <1>1, Counters
<1>4. PICK w \in Seq(WrittenEntry) : w = ThisNode(m)
  BY <1>2, <1>3, ThisNodeIs
<1>6. k \in 0..(Len(w) - 1) /\ k + 1 \in 1..Len(w)
  BY <1>2, <1>3, <1>4, NextPlace
<1>7. NextInList(l, left, w) /\ w[k + 1] \in WrittenEntry
  BY <1>2, <1>3, <1>4, PartGrows
<1>8. PICK x : x = w[k + 1]
  OBVIOUS
<1>9. /\ Part(Append(l, x), left - 1, w) /\ Len(Append(l, x)) = k + 1
      /\ l = SubSeq(w, 1, k)
  BY <1>2, <1>3, <1>4, <1>7, <1>8 DEF NextInList, Part
<1>10. EntryFields(x) /\ EncodeDirEntry(x) \in Seq(Nat)
  BY <1>7, <1>8, EntriesWritten, EntryWide DEF WideAs
<1>11. PICK more : AfterNodes(m, Len(dir_nodes) + 1, more) /\ ItemsAhead(DirEntries(w), k, more, rest)
  BY <1>1, <1>4 DEF EntriesFollow
<1>13. more \in Seq(Nat)
  BY <1>11, AfterNodesTyped
<1>14. PICK items \in Seq(Seq(Nat)) : items = DirEntries(w)
  BY DirEntriesTyped
<1>15. k \in 0..(Len(items) - 1) /\ items[k + 1] = EncodeDirEntry(x) /\ ItemsAhead(items, k, more, rest)
  BY <1>6, <1>8, <1>11, <1>14, DirEntriesTyped
<1>16. ItemsMore(items, k, more, rest)
  BY <1>13, <1>15, ItemsNext
<1>17. PICK after \in Seq(Nat) : ItemsAhead(items, k + 1, more, after) /\ rest = EncodeDirEntry(x) \o after
  BY <1>15, <1>16, Zenon DEF ItemsMore
<1>. QED
  BY <1>1, <1>4, <1>6, <1>8, <1>9, <1>10, <1>11, <1>14, <1>17, Zenon DEF EntryNext

LEMMA EntriesOver ==
    ASSUME IInv, step = "entries", NEW m \in WrittenImage, NEW rest, EntriesFollow(m, rest), left = 0
    PROVE  entries = ThisNode(m) /\ AfterNodes(m, Len(dir_nodes) + 1, rest)
<1>1. PICK l : l = entries
  OBVIOUS
<1>2. Part(dir_nodes, nodes_left, m.dir_nodes) /\ Part(l, 0, ThisNode(m))
  BY <1>1 DEF EntriesFollow
<1>3. Len(l) \in Nat /\ nodes_left > 0
  BY <1>1, Counters
<1>4. PICK w \in Seq(WrittenEntry) : w = ThisNode(m)
  BY <1>2, <1>3, ThisNodeIs
<1>6. l = w
  BY <1>2, <1>3, <1>4, PartEnds
<1>7. PICK more : AfterNodes(m, Len(dir_nodes) + 1, more) /\ ItemsAhead(DirEntries(w), Len(w), more, rest)
  BY <1>1, <1>4, <1>6 DEF EntriesFollow
<1>9. more \in Seq(Nat)
  BY <1>7, AfterNodesTyped
<1>10. PICK items \in Seq(Seq(Nat)) : items = DirEntries(w)
  BY DirEntriesTyped
<1>11. ItemsAhead(items, Len(items), more, rest)
  BY <1>7, <1>10, DirEntriesTyped
<1>12. rest = more
  BY <1>9, <1>11, ItemsEnd
<1>. QED
  BY <1>1, <1>4, <1>6, <1>7, <1>12, Zenon

-----------------------------------------------------------------------------
\* What was written is followed from step to step.

LEMMA FollowsOn ==
    ASSUME CursorOK, NEW m, NEW item \in Seq(Nat), NEW after \in Seq(Nat),
           Facing(item \o after, Len(EncodeBlob(m))), Advance(Len(item)), Ahead(m, after)'
    PROVE  Follows(m)'
<1>1. Facing(after, Len(EncodeBlob(m)))'
  <2>1. PICK total : total = Len(EncodeBlob(m))
    OBVIOUS
  <2>2. Facing(after, total)'
    BY <2>1, FacingNext
  <2>. QED
    BY <2>1, <2>2
<1>. QED
  BY <1>1 DEF Follows

LEMMA InodeCountFollowed ==
    ASSUME IInv, NEW m \in WrittenImage, Follows(m), ReadInodeCount
    PROVE  Follows(m)'
<1>1. PICK rest : Facing(rest, Len(EncodeBlob(m))) /\ Ahead(m, rest)
  BY DEF Follows
<1>2. /\ status = "parsing" /\ step = "inode_count" /\ Passes(<< Read(4) >>) /\ Advance(4)
      /\ status' = status /\ step' = "inodes" /\ inodes_left' = U32(0) /\ inodes' = inodes
  BY DEF ReadInodeCount, Accept, At
<1>3. inodes = <<>> /\ rest = EncodeBlob(m)
  BY <1>1, <1>2 DEF Ahead
<1>4. BlobParts(m) /\ CursorOK
  BY BlobInParts, CursorKept
<1>5. PICK n, after : n = Pack32(Len(m.inodes)) /\ after = FlattenSeq(Inodes(m.inodes)) \o NodesBytes(m)
  OBVIOUS
<1>6. n \in Seq(Nat) /\ Len(n) = 4 /\ after \in Seq(Nat) /\ rest = n \o after
  BY <1>3, <1>4, <1>5, PackWidth, OneAfterTheOther DEF BlobParts
<1>7. HereAt(0, n)
  BY <1>1, <1>6, FacingFirst
<1>8. U32(0) = Len(m.inodes)
  BY <1>2, <1>4, <1>5, <1>7, CountMet DEF BlobParts
<1>9. Part(<<>>, Len(m.inodes), m.inodes) /\ AfterInodes(m, 0, after)
  BY <1>4, <1>5, PartBegins, ItemsBegin DEF BlobParts, AfterInodes
<1>10. InodesFollow(m, after)'
  <2>1. inodes' = <<>> /\ inodes_left' = Len(m.inodes) /\ Len(<<>>) = 0
    BY <1>2, <1>3, <1>8
  <2>2. Part(inodes', inodes_left', m.inodes) /\ AfterInodes(m, Len(inodes'), after)
    BY <1>9, <2>1
  <2>. QED
    BY <2>2 DEF InodesFollow, AfterInodes, ItemsAhead, Part, Remains
<1>11. Ahead(m, after)'
  BY <1>2, <1>10 DEF Ahead
<1>. QED
  BY <1>1, <1>2, <1>4, <1>6, <1>11, FollowsOn

LEMMA NodeCountFollowed ==
    ASSUME IInv, NEW m \in WrittenImage, Follows(m), ReadNodeCount
    PROVE  Follows(m)'
<1>1. PICK rest : Facing(rest, Len(EncodeBlob(m))) /\ Ahead(m, rest)
  BY DEF Follows
<1>2. /\ status = "parsing" /\ step = "inodes" /\ inodes_left = 0 /\ Passes(<< Read(4) >>) /\ Advance(4)
      /\ status' = status /\ step' = "dir_nodes" /\ nodes_left' = U32(0)
      /\ dir_nodes' = dir_nodes /\ inodes' = inodes
  BY DEF ReadNodeCount, Accept, At, inodeVars
<1>3. inodes = m.inodes /\ rest = NodesBytes(m)
  BY <1>1, <1>2, InodesOver DEF Ahead
<1>4. BlobParts(m) /\ CursorOK /\ dir_nodes = <<>>
  BY <1>2, BlobInParts, CursorKept DEF IInv, NodesNotYet
<1>5. PICK n, after : n = Pack32(Len(m.dir_nodes)) /\ after = FlattenSeq(DirNodes(m.dir_nodes))
  OBVIOUS
<1>6. n \in Seq(Nat) /\ Len(n) = 4 /\ after \in Seq(Nat) /\ rest = n \o after
  BY <1>3, <1>4, <1>5, PackWidth DEF BlobParts, NodesBytes
<1>7. HereAt(0, n)
  BY <1>1, <1>6, FacingFirst
<1>8. U32(0) = Len(m.dir_nodes)
  BY <1>2, <1>4, <1>5, <1>7, CountMet DEF BlobParts
<1>9. Part(<<>>, Len(m.dir_nodes), m.dir_nodes)
  BY <1>4, PartBegins DEF BlobParts
<1>10. AfterNodes(m, 0, after)
  <2>1. ItemsAhead(DirNodes(m.dir_nodes), 0, <<>>, after \o <<>>)
    BY <1>4, <1>5, NoTail, ItemsBegin DEF BlobParts
  <2>. QED
    BY <1>6, <2>1, NoTail DEF AfterNodes
<1>11. NodesFollow(m, after)'
  <2>1. dir_nodes' = <<>> /\ nodes_left' = Len(m.dir_nodes) /\ Len(<<>>) = 0 /\ inodes' = m.inodes
    BY <1>2, <1>3, <1>4, <1>8
  <2>2. Part(dir_nodes', nodes_left', m.dir_nodes) /\ AfterNodes(m, Len(dir_nodes'), after)
    BY <1>9, <1>10, <2>1
  <2>. QED
    BY <2>1, <2>2 DEF NodesFollow, AfterNodes, ItemsAhead, Part, Remains
<1>12. Ahead(m, after)'
  BY <1>2, <1>11 DEF Ahead
<1>. QED
  BY <1>1, <1>2, <1>4, <1>6, <1>12, FollowsOn

LEMMA HeadFollowed ==
    ASSUME IInv, NEW m \in WrittenImage, Follows(m), ReadInodeHead, UNCHANGED nodeVars
    PROVE  Follows(m)'
<1>1. PICK rest : Facing(rest, Len(EncodeBlob(m))) /\ Ahead(m, rest)
  BY DEF Follows
<1>2. /\ status = "parsing" /\ step = "inodes" /\ inodes_left > 0 /\ Passes(InodeHeadChecks)
      /\ Advance(InodeHeadLen) /\ status' = status /\ step' = "xattrs"
      /\ left' = (IF HasXattrs(U8(40)) THEN U32(INODE_FIXED_PREFIX_LEN + AtimeLen) ELSE 0)
      /\ inode_flags' = U8(40) /\ inode' = NextInode
      /\ inodes_left' = inodes_left /\ inodes' = inodes
  BY Zenon DEF ReadInodeHead, Accept, At, NextInode
<1>3. InodesFollow(m, rest) /\ CursorOK
  BY <1>1, <1>2, CursorKept DEF Ahead
<1>4. PICK more : InodeNext(m, rest, more)
  BY <1>2, <1>3, InodesSplit
<1>5. PICK i, h, tail, items :
        /\ i = ThisInode(m) /\ h = HeadOf(i) /\ tail = EncodeContent(i.content_handle) \o more
        /\ items = Xattrs(i.xattrs)
  OBVIOUS
<1>6. /\ InodeFields(i) /\ InodeParts(i) /\ more \in Seq(Nat) /\ AfterInodes(m, Len(inodes) + 1, more)
      /\ rest = h \o (FlattenSeq(items) \o tail) /\ FlattenSeq(items) \o tail \in Seq(Nat)
  BY <1>4, <1>5 DEF InodeNext
<1>7. h \in Seq(Nat) /\ tail \in Seq(Nat) /\ items \in Seq(Seq(Nat))
  BY <1>5, <1>6, OneAfterTheOther DEF InodeParts
<1>8. HereAt(0, HeadOf(i))
  BY <1>1, <1>5, <1>6, <1>7, FacingFirst
<1>9. /\ SameHead(NextInode, i) /\ NextInode.xattrs = <<>> /\ U8(40) = FlagsOf(i)
      /\ InodeHeadLen = Len(h) /\ left' = Len(i.xattrs)
  BY <1>2, <1>3, <1>5, <1>6, <1>8, HeadMet
<1>10. Part(<<>>, Len(i.xattrs), i.xattrs) /\ ItemsAhead(items, 0, tail, FlattenSeq(items) \o tail)
  BY <1>6, <1>7, PartBegins, ItemsBegin DEF InodeFields
<1>11. PICK after : after = FlattenSeq(items) \o tail
  OBVIOUS
<1>12. XattrsFollow(m, after)'
  <2>1. ThisInode(m)' = i /\ Len(inodes)' = Len(inodes) /\ Len(<<>>) = 0 /\ inode'.xattrs = <<>>
    BY <1>2, <1>5, <1>9 DEF ThisInode
  <2>2. HeadFollows(m)'
    BY <1>2, <1>3, <1>9, <2>1 DEF HeadFollows, InodesFollow
  <2>3. Part(inode.xattrs, left, ThisInode(m).xattrs)'
    BY <1>9, <1>10, <2>1
  <2>4. /\ AfterInodes(m, Len(inodes)' + 1, more)
        /\ ItemsAhead(Xattrs(i.xattrs), Len(inode'.xattrs), EncodeContent(i.content_handle) \o more, after)
    BY <1>5, <1>6, <1>10, <1>11, <2>1
  <2>5. \E more_ : /\ AfterInodes(m, Len(inodes)' + 1, more_)
                   /\ ItemsAhead(Xattrs(ThisInode(m)'.xattrs), Len(inode'.xattrs),
                                 EncodeContent(ThisInode(m)'.content_handle) \o more_, after)
    BY <2>1, <2>4
  <2>. QED
    BY <2>2, <2>3, <2>5 DEF XattrsFollow
<1>13. Ahead(m, after)'
  BY <1>2, <1>12 DEF Ahead
<1>. QED
  BY <1>1, <1>2, <1>3, <1>6, <1>7, <1>9, <1>11, <1>13, FollowsOn

\* The inode being read is a record with the fields of its head.
LEMMA WithXattrs ==
    ASSUME NEW x \in InodeType, NEW y, y = [inode EXCEPT !.xattrs = Append(@, NextXattr)], x = inode
    PROVE  /\ y.xattrs = Append(x.xattrs, NextXattr) /\ y.content_handle = x.content_handle
           /\ \A i : SameHead(x, i) => SameHead(y, i)
<1>1. /\ y.number = x.number /\ y.mode = x.mode /\ y.uid = x.uid /\ y.gid = x.gid
      /\ y.mtime_ns = x.mtime_ns /\ y.ctime_ns = x.ctime_ns /\ y.nlink = x.nlink
      /\ y.atime_ns = x.atime_ns /\ y.content_handle = x.content_handle
      /\ y.xattrs = Append(x.xattrs, NextXattr)
  BY DEF InodeType
<1>. QED
  BY <1>1, Zenon DEF SameHead

LEMMA WithThisContent ==
    ASSUME NEW x \in InodeType, NEW y, NEW c, y = [x EXCEPT !.content_handle = c]
    PROVE  /\ y.xattrs = x.xattrs /\ y.content_handle = c
           /\ \A i : SameHead(x, i) => SameHead(y, i)
           /\ y = [number |-> x.number, mode |-> x.mode, uid |-> x.uid, gid |-> x.gid,
                   mtime_ns |-> x.mtime_ns, ctime_ns |-> x.ctime_ns, nlink |-> x.nlink,
                   atime_ns |-> x.atime_ns, xattrs |-> x.xattrs, content_handle |-> c]
<1>1. /\ y.number = x.number /\ y.mode = x.mode /\ y.uid = x.uid /\ y.gid = x.gid
      /\ y.mtime_ns = x.mtime_ns /\ y.ctime_ns = x.ctime_ns /\ y.nlink = x.nlink
      /\ y.atime_ns = x.atime_ns /\ y.xattrs = x.xattrs /\ y.content_handle = c
      /\ y = [number |-> x.number, mode |-> x.mode, uid |-> x.uid, gid |-> x.gid,
              mtime_ns |-> x.mtime_ns, ctime_ns |-> x.ctime_ns, nlink |-> x.nlink,
              atime_ns |-> x.atime_ns, xattrs |-> x.xattrs, content_handle |-> c]
  BY DEF InodeType
<1>. QED
  BY <1>1, Zenon DEF SameHead

LEMMA InodeSame ==
    ASSUME NEW x \in InodeType, NEW i, InodeFields(i), SameHead(x, i), x.xattrs = i.xattrs
    PROVE  [x EXCEPT !.content_handle = i.content_handle] = i
<1>1. PICK c : c = i.content_handle
  OBVIOUS
<1>2. [x EXCEPT !.content_handle = c]
        = [number |-> x.number, mode |-> x.mode, uid |-> x.uid, gid |-> x.gid,
           mtime_ns |-> x.mtime_ns, ctime_ns |-> x.ctime_ns, nlink |-> x.nlink,
           atime_ns |-> x.atime_ns, xattrs |-> x.xattrs, content_handle |-> c]
  BY WithThisContent, Zenon
<1>3. i = [number |-> i.number, mode |-> i.mode, uid |-> i.uid, gid |-> i.gid,
           mtime_ns |-> i.mtime_ns, ctime_ns |-> i.ctime_ns, nlink |-> i.nlink,
           atime_ns |-> i.atime_ns, xattrs |-> i.xattrs, content_handle |-> i.content_handle]
  BY Zenon DEF InodeFields
<1>. QED
  BY <1>1, <1>2, <1>3, Zenon DEF SameHead

LEMMA XattrFollowed ==
    ASSUME IInv, NEW m \in WrittenImage, Follows(m), ReadXattr, UNCHANGED nodeVars
    PROVE  Follows(m)'
<1>1. PICK rest : Facing(rest, Len(EncodeBlob(m))) /\ Ahead(m, rest)
  BY DEF Follows
<1>2. /\ status = "parsing" /\ step = "xattrs" /\ left > 0 /\ Passes(XattrChecks)
      /\ Advance(XattrLen) /\ status' = status /\ step' = step /\ left' = left - 1
      /\ inode' = [inode EXCEPT !.xattrs = Append(@, NextXattr)]
      /\ inode_flags' = inode_flags /\ inodes_left' = inodes_left /\ inodes' = inodes
  BY Zenon DEF ReadXattr, Accept, At, Turned, MoreItems, NextXattr
<1>3. XattrsFollow(m, rest) /\ CursorOK /\ inode \in InodeType
  BY <1>1, <1>2, CursorKept DEF Ahead, IInv, InodeBegun
<1>4. PICK after : XattrNext(m, rest, after)
  BY <1>2, <1>3, XattrsSplit
<1>5. PICK i, l, x : i = ThisInode(m) /\ l = inode.xattrs /\ x = i.xattrs[Len(l) + 1]
  OBVIOUS
<1>6. /\ XattrFields(x) /\ EncodeXattr(x) \in Seq(Nat) /\ after \in Seq(Nat) /\ rest = EncodeXattr(x) \o after
      /\ Part(Append(l, x), left - 1, i.xattrs) /\ Len(Append(l, x)) = Len(l) + 1
  BY <1>4, <1>5, Zenon DEF XattrNext
<1>7. PICK more : /\ AfterInodes(m, Len(inodes) + 1, more)
                  /\ ItemsAhead(Xattrs(i.xattrs), Len(l) + 1, EncodeContent(i.content_handle) \o more, after)
  BY <1>4, <1>5, Zenon DEF XattrNext
<1>8. HereAt(0, EncodeXattr(x))
  BY <1>1, <1>6, FacingFirst
<1>9. NextXattr = x /\ XattrLen = Len(EncodeXattr(x))
  BY <1>2, <1>3, <1>6, <1>8, XattrMet
<1>10. /\ inode'.xattrs = Append(l, x)
       /\ \A j : SameHead(inode, j) => SameHead(inode', j)
  BY <1>2, <1>3, <1>5, <1>9, WithXattrs
<1>12. XattrsFollow(m, after)'
  <2>1. ThisInode(m)' = i /\ inodes' = inodes
    BY <1>2, <1>5 DEF ThisInode
  <2>2. HeadFollows(m)'
    BY <1>2, <1>3, <1>5, <1>10, <2>1 DEF HeadFollows, XattrsFollow
  <2>3. Part(inode.xattrs, left, ThisInode(m).xattrs)'
    BY <1>2, <1>6, <1>10, <2>1
  <2>4. /\ AfterInodes(m, Len(inodes') + 1, more)
        /\ ItemsAhead(Xattrs(i.xattrs), Len(inode'.xattrs), EncodeContent(i.content_handle) \o more, after)
    BY <1>6, <1>7, <1>10, <2>1
  <2>5. \E more_ : /\ AfterInodes(m, Len(inodes') + 1, more_)
                   /\ ItemsAhead(Xattrs(ThisInode(m)'.xattrs), Len(inode'.xattrs),
                                 EncodeContent(ThisInode(m)'.content_handle) \o more_, after)
    BY <2>1, <2>4
  <2>. QED
    BY <2>2, <2>3, <2>5 DEF XattrsFollow
<1>13. Ahead(m, after)'
  BY <1>2, <1>12 DEF Ahead
<1>. QED
  BY <1>1, <1>2, <1>3, <1>6, <1>9, <1>13, FollowsOn

\* One inode more has been read.
LEMMA OneInodeMore ==
    ASSUME IInv, NEW m \in WrittenImage, Part(inodes, inodes_left, m.inodes), inodes_left > 0
    PROVE  /\ Part(Append(inodes, ThisInode(m)), inodes_left - 1, m.inodes)
           /\ Len(Append(inodes, ThisInode(m))) = Len(inodes) + 1
<1>1. PICK l, k, w, n : l = inodes /\ k = Len(inodes) /\ w = m.inodes /\ n = inodes_left
  OBVIOUS
<1>2. w \in Seq(WrittenInode)
  BY <1>1, BlobInParts DEF BlobParts
<1>3. k = Len(l) /\ Len(l) \in Nat /\ n \in Nat /\ n # 0 /\ Part(l, n, w)
  BY <1>1, Counters
<1>4. NextInList(l, n, w)
  BY <1>2, <1>3, PartGrows
<1>5. PICK x : x = w[k + 1]
  OBVIOUS
<1>6. Part(Append(l, x), n - 1, w) /\ Len(Append(l, x)) = k + 1
  BY <1>3, <1>4, <1>5 DEF NextInList
<1>. QED
  BY <1>1, <1>5, <1>6, Zenon DEF ThisInode

LEMMA InodeReturnedFollowed ==
    ASSUME IInv, NEW m \in WrittenImage, Part(inodes, inodes_left, m.inodes), inodes_left > 0,
           NEW rest, AfterInodes(m, Len(inodes) + 1, rest), status = "parsing", status' = status,
           InodeDone(ThisInode(m))
    PROVE  Ahead(m, rest)'
<1>1. /\ inodes' = Append(inodes, ThisInode(m)) /\ inodes_left' = inodes_left - 1 /\ step' = "inodes"
  BY DEF InodeDone
<1>2. /\ Part(inodes', inodes_left', m.inodes)
      /\ Len(inodes') = Len(inodes) + 1
  BY <1>1, OneInodeMore
<1>3. AfterInodes(m, Len(inodes'), rest)
  BY <1>2
<1>4. InodesFollow(m, rest)'
  BY <1>2, <1>3 DEF InodesFollow
<1>. QED
  BY <1>1, <1>4 DEF Ahead

LEMMA ContentFollowed ==
    ASSUME IInv, NEW m \in WrittenImage, Follows(m), ReadContent, UNCHANGED nodeVars
    PROVE  Follows(m)'
<1>1. PICK rest : Facing(rest, Len(EncodeBlob(m))) /\ Ahead(m, rest)
  BY DEF Follows
<1>2. /\ status = "parsing" /\ step = "xattrs" /\ ~(left > 0) /\ ~HasSliceMap /\ Passes(ContentChecks)
      /\ Advance(ContentLen) /\ status' = status /\ InodeDone(WithContent(Content))
  BY Zenon DEF ReadContent, Accept, At, MoreItems
<1>3. XattrsFollow(m, rest) /\ CursorOK /\ inode \in InodeType /\ left = 0 /\ inodes_left > 0
  <2>1. XattrsFollow(m, rest)
    BY <1>1, <1>2 DEF Ahead
  <2>2. left \in Nat /\ inodes_left > 0
    BY <1>2, Counters
  <2>. QED
    BY <1>2, <2>1, <2>2, CursorKept DEF IInv, InodeBegun
<1>4. /\ inode.xattrs = ThisInode(m).xattrs
      /\ InodeFields(ThisInode(m)) /\ InodeParts(ThisInode(m))
      /\ \E more \in Seq(Nat) : /\ AfterInodes(m, Len(inodes) + 1, more)
                                /\ rest = EncodeContent(ThisInode(m).content_handle) \o more
  BY <1>2, <1>3, XattrsOver
<1>5. PICK more \in Seq(Nat) : /\ AfterInodes(m, Len(inodes) + 1, more)
                               /\ rest = EncodeContent(ThisInode(m).content_handle) \o more
  BY <1>4
<1>6. PICK i, c : i = ThisInode(m) /\ c = EncodeContent(i.content_handle)
  OBVIOUS
<1>7. c \in Seq(Nat) /\ rest = c \o more
  BY <1>4, <1>5, <1>6 DEF InodeParts
<1>8. HereAt(0, EncodeContent(i.content_handle))
  BY <1>1, <1>6, <1>7, FacingFirst
<1>9. Part(inodes, inodes_left, m.inodes) /\ SameHead(inode, i) /\ inode_flags = FlagsOf(i)
  BY <1>3, <1>6 DEF XattrsFollow, HeadFollows
<1>10. ReadsInode(i)
  BY <1>4, <1>6, <1>9 DEF ReadsInode, SameHead
<1>11. Content = i.content_handle /\ ContentLen = Len(c)
  BY <1>2, <1>3, <1>6, <1>8, <1>10, ContentMet
<1>12. WithContent(Content) = ThisInode(m)
  BY <1>3, <1>4, <1>6, <1>9, <1>11, InodeSame DEF WithContent
<1>13. Ahead(m, more)'
  BY <1>2, <1>3, <1>5, <1>9, <1>12, InodeReturnedFollowed
<1>. QED
  BY <1>1, <1>2, <1>3, <1>7, <1>11, <1>13, FollowsOn

\* The slices of the content that is read next.
SliceMapNext(m, rest) ==
    LET i == ThisInode(m)
        list == i.content_handle.value
    IN  /\ i.content_handle.kind = "SLICE_MAP" /\ list \in Seq(WrittenSlice) /\ Len(list) \in Nat
        /\ ContentChecks = << Read(4) >>
        /\ Pack32(Len(list)) \in Seq(Nat) /\ Len(Pack32(Len(list))) = 4
        /\ EncodeContent(i.content_handle) \in Seq(Nat)
        /\ EncodeContent(i.content_handle) = Pack32(Len(list)) \o FlattenSeq(Slices(list))
        /\ \E more \in Seq(Nat), after \in Seq(Nat) :
             /\ AfterInodes(m, Len(inodes) + 1, more)
             /\ ItemsAhead(Slices(list), 0, more, after)
             /\ rest = Pack32(Len(list)) \o after
             /\ rest = EncodeContent(i.content_handle) \o more

LEMMA SliceMapSplit ==
    ASSUME IInv, step = "xattrs", NEW m \in WrittenImage, NEW rest, XattrsFollow(m, rest), left = 0,
           HasSliceMap, ThisInode(m).content_handle.kind \in KindsOf(ThisInode(m).mode)
    PROVE  SliceMapNext(m, rest)
<1>1. PICK i, l : i = ThisInode(m) /\ l = i.content_handle.value
  OBVIOUS
<1>2. InodeFields(i) /\ InodeParts(i)
  BY <1>1, XattrsOver
<1>3. PICK more \in Seq(Nat) : /\ AfterInodes(m, Len(inodes) + 1, more)
                               /\ rest = EncodeContent(i.content_handle) \o more
  BY <1>1, XattrsOver
<1>4. ReadsInode(i)
  BY <1>1, <1>2 DEF XattrsFollow, HeadFollows, ReadsInode, SameHead
<1>5. /\ i.content_handle.kind = "SLICE_MAP" /\ l \in Seq(WrittenSlice)
      /\ EncodeContent(i.content_handle) = Pack32(Len(l)) \o FlattenSeq(Slices(l))
      /\ ContentChecks = << Read(4) >>
  BY <1>1, <1>4, SliceMapKnown
<1>6. Len(l) \in Nat
  BY <1>5
<1>7. PICK n, f : n = Pack32(Len(l)) /\ f = FlattenSeq(Slices(l))
  OBVIOUS
<1>8. n \in Seq(Nat) /\ Len(n) = 4 /\ Slices(l) \in Seq(Seq(Nat))
  BY <1>5, <1>6, <1>7, PackWidth, SlicesTyped
<1>9. f \in Seq(Nat)
  BY <1>7, <1>8, FlattenTyped
<1>10. f \o more \in Seq(Nat) /\ (n \o f) \o more = n \o (f \o more)
  <2>1. n \in Seq(Nat) /\ f \in Seq(Nat) /\ more \in Seq(Nat)
    BY <1>3, <1>8, <1>9
  <2>2. f \o more \in Seq(Nat)
    BY <2>1, OneAfterTheOther, Zenon
  <2>3. (n \o f) \o more = n \o (f \o more)
    BY <2>1, GroupedAtWill, Zenon
  <2>. QED
    BY <2>2, <2>3
<1>11. PICK after \in Seq(Nat) : after = f \o more
  BY <1>10
<1>12. ItemsAhead(Slices(l), 0, more, after) /\ rest = n \o after
  BY <1>3, <1>5, <1>7, <1>8, <1>10, <1>11, ItemsBegin
<1>13. EncodeContent(i.content_handle) \in Seq(Nat)
  BY <1>2 DEF InodeParts
<1>. QED
  BY <1>1, <1>3, <1>5, <1>6, <1>7, <1>8, <1>11, <1>12, <1>13, Zenon DEF SliceMapNext

LEMMA SlicesBeginFollowed ==
    ASSUME IInv, NEW m \in WrittenImage, Follows(m), BeginSlices, UNCHANGED nodeVars
    PROVE  Follows(m)'
<1>1. PICK rest : Facing(rest, Len(EncodeBlob(m))) /\ Ahead(m, rest)
  BY DEF Follows
<1>2. /\ status = "parsing" /\ step = "xattrs" /\ ~(left > 0) /\ HasSliceMap /\ Passes(ContentChecks)
      /\ Advance(4) /\ status' = status /\ step' = "slices" /\ left' = U32(0)
      /\ inode' = [inode EXCEPT !.content_handle = [kind |-> "SLICE_MAP", value |-> <<>>]]
      /\ inodes_left' = inodes_left /\ inodes' = inodes /\ inode_flags' = inode_flags
  BY Zenon DEF BeginSlices, Accept, At, MoreItems, WithContent
<1>3. XattrsFollow(m, rest) /\ CursorOK /\ inode \in InodeType /\ left = 0
  <2>1. XattrsFollow(m, rest)
    BY <1>1, <1>2 DEF Ahead
  <2>2. left \in Nat
    BY Counters
  <2>. QED
    BY <1>2, <2>1, <2>2, CursorKept DEF IInv, InodeBegun
<1>4. PICK i, l : i = ThisInode(m) /\ l = i.content_handle.value
  OBVIOUS
<1>5. inode.xattrs = i.xattrs /\ InodeFields(i)
  BY <1>2, <1>3, <1>4, XattrsOver
<1>6. ReadsInode(i)
  BY <1>3, <1>4, <1>5 DEF XattrsFollow, HeadFollows, ReadsInode, SameHead
<1>7. i.content_handle.kind \in KindsOf(i.mode)
  BY <1>2, <1>3, <1>6, KindRead
<1>8. SliceMapNext(m, rest)
  BY <1>2, <1>3, <1>4, <1>7, SliceMapSplit
<1>9. PICK n : n = Pack32(Len(l))
  OBVIOUS
<1>10. /\ i.content_handle.kind = "SLICE_MAP" /\ l \in Seq(WrittenSlice) /\ Len(l) \in Nat
       /\ ContentChecks = << Read(4) >> /\ n \in Seq(Nat) /\ Len(n) = 4
  BY <1>4, <1>8, <1>9, Zenon DEF SliceMapNext
<1>11. PICK more \in Seq(Nat), after \in Seq(Nat) :
         /\ AfterInodes(m, Len(inodes) + 1, more)
         /\ ItemsAhead(Slices(l), 0, more, after)
         /\ rest = n \o after
  BY <1>4, <1>8, <1>9, Zenon DEF SliceMapNext
<1>12. HereAt(0, n)
  BY <1>1, <1>10, <1>11, FacingFirst
<1>13. left' = Len(l)
  BY <1>2, <1>3, <1>9, <1>10, <1>12, CountMet
<1>14. /\ inode'.xattrs = inode.xattrs /\ inode'.content_handle = [kind |-> "SLICE_MAP", value |-> <<>>]
       /\ \A j : SameHead(inode, j) => SameHead(inode', j)
  <2>1. PICK c, y : c = [kind |-> "SLICE_MAP", value |-> <<>>] /\ y = inode'
    OBVIOUS
  <2>2. y = [inode EXCEPT !.content_handle = c]
    BY <1>2, <2>1
  <2>3. y.xattrs = inode.xattrs /\ y.content_handle = c /\ \A j : SameHead(inode, j) => SameHead(y, j)
    BY <1>3, <2>2, WithThisContent, Zenon
  <2>. QED
    BY <2>1, <2>3
<1>15. Part(<<>>, Len(l), l)
  BY <1>10, PartBegins
<1>16. SlicesFollow(m, after)'
  <2>1. ThisInode(m)' = i /\ inodes' = inodes /\ inode'.content_handle.value = <<>> /\ Len(<<>>) = 0
    BY <1>2, <1>4, <1>14 DEF ThisInode
  <2>2. HeadFollows(m)'
    BY <1>2, <1>3, <1>4, <1>14, <2>1 DEF HeadFollows, XattrsFollow
  <2>3. Part(inode.content_handle.value, left, ThisInode(m).content_handle.value)'
    BY <1>4, <1>13, <1>15, <2>1
  <2>4. /\ AfterInodes(m, Len(inodes') + 1, more)
        /\ ItemsAhead(Slices(l), Len(inode'.content_handle.value), more, after)
    BY <1>11, <2>1
  <2>5. \E more_ : /\ AfterInodes(m, Len(inodes') + 1, more_)
                   /\ ItemsAhead(Slices(ThisInode(m)'.content_handle.value),
                                 Len(inode'.content_handle.value), more_, after)
    BY <1>4, <2>1, <2>4
  <2>. QED
    BY <1>4, <1>5, <1>10, <1>14, <2>1, <2>2, <2>3, <2>5 DEF SlicesFollow
<1>17. Ahead(m, after)'
  BY <1>2, <1>16 DEF Ahead
<1>. QED
  BY <1>1, <1>2, <1>3, <1>10, <1>11, <1>17, FollowsOn

LEMMA WithSlice ==
    ASSUME NEW x \in InodeType, x.content_handle.kind = "SLICE_MAP", NEW s, NEW y, NEW c,
           c = x.content_handle, y = [x EXCEPT !.content_handle = [c EXCEPT !.value = Append(c.value, s)]]
    PROVE  /\ y.xattrs = x.xattrs /\ y.content_handle.value = Append(x.content_handle.value, s)
           /\ \A i : SameHead(x, i) => SameHead(y, i)
<1>1. PICK d : d = [c EXCEPT !.value = Append(c.value, s)]
  OBVIOUS
<1>2. y = [x EXCEPT !.content_handle = d]
  BY <1>1
<1>3. y.xattrs = x.xattrs /\ y.content_handle = d /\ \A i : SameHead(x, i) => SameHead(y, i)
  BY <1>2, WithThisContent, Zenon
<1>4. c \in ContentType
  BY DEF InodeType
<1>5. d.value = Append(c.value, s)
  BY <1>1, <1>4 DEF ContentType
<1>. QED
  BY <1>1, <1>3, <1>5

LEMMA SliceFollowed ==
    ASSUME IInv, NEW m \in WrittenImage, Follows(m), ReadSlice, UNCHANGED nodeVars
    PROVE  Follows(m)'
<1>1. PICK rest : Facing(rest, Len(EncodeBlob(m))) /\ Ahead(m, rest)
  BY DEF Follows
<1>2. /\ status = "parsing" /\ step = "slices" /\ left > 0 /\ Passes(SliceChecks)
      /\ Advance(56) /\ status' = status /\ step' = step /\ left' = left - 1
      /\ inode' = [inode EXCEPT !.content_handle.value = Append(@, NextSlice)]
      /\ inode_flags' = inode_flags /\ inodes_left' = inodes_left /\ inodes' = inodes
  BY Zenon DEF ReadSlice, Accept, At, Turned, MoreItems, NextSlice, SLICE_LEN
<1>3. /\ SlicesFollow(m, rest) /\ CursorOK /\ inode \in InodeType
      /\ inode.content_handle.kind = "SLICE_MAP"
  BY <1>1, <1>2, CursorKept DEF Ahead, IInv, InodeBegun, SlicesRead
<1>4. PICK after : SliceNext(m, rest, after)
  BY <1>2, <1>3, SlicesSplit
<1>5. PICK i, w, l, x :
        /\ i = ThisInode(m) /\ w = i.content_handle.value
        /\ l = inode.content_handle.value /\ x = w[Len(l) + 1]
  OBVIOUS
<1>6. /\ SliceFields(x) /\ EncodeSlice(x) \in Seq(Nat) /\ after \in Seq(Nat) /\ rest = EncodeSlice(x) \o after
      /\ Part(Append(l, x), left - 1, w) /\ Len(Append(l, x)) = Len(l) + 1
  BY <1>4, <1>5, Zenon DEF SliceNext
<1>7. PICK more : AfterInodes(m, Len(inodes) + 1, more) /\ ItemsAhead(Slices(w), Len(l) + 1, more, after)
  BY <1>4, <1>5, Zenon DEF SliceNext
<1>8. HereAt(0, EncodeSlice(x))
  BY <1>1, <1>6, FacingFirst
<1>9. NextSlice = x /\ Len(EncodeSlice(x)) = 56
  BY <1>2, <1>3, <1>6, <1>8, SliceMet
<1>10. /\ inode'.content_handle.value = Append(l, x) /\ inode'.xattrs = inode.xattrs
       /\ \A j : SameHead(inode, j) => SameHead(inode', j)
  <2>1. PICK y, c : y = inode' /\ c = inode.content_handle
    OBVIOUS
  <2>2. y = [inode EXCEPT !.content_handle = [c EXCEPT !.value = Append(c.value, x)]]
    BY <1>2, <1>9, <2>1
  <2>3. /\ y.xattrs = inode.xattrs /\ y.content_handle.value = Append(inode.content_handle.value, x)
        /\ \A j : SameHead(inode, j) => SameHead(y, j)
    BY <1>3, <2>1, <2>2, WithSlice, Zenon
  <2>. QED
    BY <1>5, <2>1, <2>3
<1>12. SlicesFollow(m, after)'
  <2>1. ThisInode(m)' = i /\ inodes' = inodes
    BY <1>2, <1>5 DEF ThisInode
  <2>2. HeadFollows(m)'
    BY <1>2, <1>3, <1>5, <1>10, <2>1 DEF HeadFollows, SlicesFollow
  <2>3. Part(inode.content_handle.value, left, ThisInode(m).content_handle.value)'
    BY <1>2, <1>5, <1>6, <1>10, <2>1
  <2>4. AfterInodes(m, Len(inodes') + 1, more) /\ ItemsAhead(Slices(w), Len(inode'.content_handle.value), more, after)
    BY <1>6, <1>7, <1>10, <2>1
  <2>5. \E more_ : /\ AfterInodes(m, Len(inodes') + 1, more_)
                   /\ ItemsAhead(Slices(ThisInode(m)'.content_handle.value),
                                 Len(inode'.content_handle.value), more_, after)
    BY <1>5, <2>1, <2>4
  <2>6. inode'.xattrs = i.xattrs /\ i.content_handle.kind = "SLICE_MAP"
    BY <1>3, <1>5, <1>10 DEF SlicesFollow
  <2>. QED
    BY <2>1, <2>2, <2>3, <2>5, <2>6 DEF SlicesFollow
<1>13. Ahead(m, after)'
  BY <1>2, <1>12 DEF Ahead
<1>. QED
  BY <1>1, <1>2, <1>3, <1>6, <1>9, <1>13, FollowsOn

LEMMA SlicesEndFollowed ==
    ASSUME IInv, NEW m \in WrittenImage, Follows(m), SlicesEnd, UNCHANGED nodeVars
    PROVE  Follows(m)'
<1>1. PICK rest : Facing(rest, Len(EncodeBlob(m))) /\ Ahead(m, rest)
  BY DEF Follows
<1>2. /\ status = "parsing" /\ step = "slices" /\ ~(left > 0) /\ status' = status
      /\ buf' = buf /\ position' = position /\ InodeDone(inode)
  BY Zenon DEF SlicesEnd, At, MoreItems
<1>3. /\ SlicesFollow(m, rest) /\ inode \in InodeType /\ inode.content_handle.kind = "SLICE_MAP"
      /\ left = 0 /\ inodes_left > 0
  <2>1. SlicesFollow(m, rest)
    BY <1>1, <1>2 DEF Ahead
  <2>2. left \in Nat /\ inodes_left > 0
    BY <1>2, Counters
  <2>. QED
    BY <1>2, <2>1, <2>2 DEF IInv, InodeBegun, SlicesRead
<1>4. PICK i, c, d : i = ThisInode(m) /\ c = inode.content_handle /\ d = i.content_handle
  OBVIOUS
<1>5. c.value = d.value /\ InodeFields(i) /\ AfterInodes(m, Len(inodes) + 1, rest)
  BY <1>2, <1>3, <1>4, SlicesOver
<1>6. d.kind = c.kind /\ SameHead(inode, i) /\ inode.xattrs = i.xattrs /\ Part(inodes, inodes_left, m.inodes)
  BY <1>3, <1>4 DEF SlicesFollow, HeadFollows
<1>7. d = [kind |-> d.kind, value |-> d.value]
  BY <1>4, <1>5, ContentsWritten DEF InodeFields
<1>8. c = [kind |-> c.kind, value |-> c.value] /\ inode = [inode EXCEPT !.content_handle = c]
  BY <1>3, <1>4 DEF InodeType, ContentType
<1>9. inode = i
  BY <1>3, <1>4, <1>5, <1>6, <1>7, <1>8, InodeSame
<1>10. Ahead(m, rest)'
  BY <1>2, <1>3, <1>4, <1>5, <1>6, <1>9, InodeReturnedFollowed
<1>11. Facing(rest, Len(EncodeBlob(m)))'
  BY <1>1, <1>2 DEF Facing, HereAt, remaining_len, U8
<1>. QED
  BY <1>10, <1>11 DEF Follows

LEMMA NodeHeadFollowed ==
    ASSUME IInv, NEW m \in WrittenImage, Follows(m), ReadNodeHead, UNCHANGED inodeVars
    PROVE  Follows(m)'
<1>1. PICK rest : Facing(rest, Len(EncodeBlob(m))) /\ Ahead(m, rest)
  BY DEF Follows
<1>2. /\ status = "parsing" /\ step = "dir_nodes" /\ nodes_left > 0 /\ Passes(NodeHeadChecks)
      /\ Advance(5) /\ status' = status /\ step' = "entries" /\ left' = U32(1) /\ entries' = <<>>
      /\ nodes_left' = nodes_left /\ dir_nodes' = dir_nodes /\ inodes' = inodes
  BY Zenon DEF ReadNodeHead, Accept, At, inodeVars
<1>3. NodesFollow(m, rest) /\ CursorOK
  BY <1>1, <1>2, CursorKept DEF Ahead
<1>4. PICK after : NodeNext(m, rest, after)
  BY <1>2, <1>3, NodesSplit
<1>5. PICK n, h : n = ThisNode(m) /\ h = NodeHead(Len(n))
  OBVIOUS
<1>6. /\ n \in Seq(WrittenEntry) /\ Len(n) \in Nat /\ h \in Seq(Nat) /\ after \in Seq(Nat)
      /\ rest = h \o after
  BY <1>4, <1>5, Zenon DEF NodeNext
<1>7. PICK more : AfterNodes(m, Len(dir_nodes) + 1, more) /\ ItemsAhead(DirEntries(n), 0, more, after)
  BY <1>4, <1>5, Zenon DEF NodeNext
<1>8. HereAt(0, NodeHead(Len(n)))
  BY <1>1, <1>5, <1>6, FacingFirst
<1>9. left' = Len(n) /\ Len(h) = 5
  BY <1>2, <1>3, <1>5, <1>6, <1>8, NodeHeadMet
<1>10. Part(<<>>, Len(n), n)
  BY <1>6, PartBegins
<1>12. EntriesFollow(m, after)'
  <2>1. ThisNode(m)' = n /\ dir_nodes' = dir_nodes /\ Len(<<>>) = 0
    BY <1>2, <1>5 DEF ThisNode
  <2>2. (inodes = m.inodes)' /\ Part(dir_nodes, nodes_left, m.dir_nodes)'
    BY <1>2, <1>3 DEF NodesFollow
  <2>3. Part(entries, left, ThisNode(m))'
    BY <1>2, <1>9, <1>10, <2>1
  <2>4. AfterNodes(m, Len(dir_nodes') + 1, more) /\ ItemsAhead(DirEntries(n), Len(entries'), more, after)
    BY <1>2, <1>7, <2>1
  <2>5. \E more_ : /\ AfterNodes(m, Len(dir_nodes') + 1, more_)
                   /\ ItemsAhead(DirEntries(ThisNode(m)'), Len(entries'), more_, after)
    BY <2>1, <2>4
  <2>. QED
    BY <2>2, <2>3, <2>5 DEF EntriesFollow
<1>13. Ahead(m, after)'
  BY <1>2, <1>12 DEF Ahead
<1>. QED
  BY <1>1, <1>2, <1>3, <1>6, <1>9, <1>13, FollowsOn

LEMMA EntryFollowed ==
    ASSUME IInv, NEW m \in WrittenImage, Follows(m), ReadEntry, UNCHANGED inodeVars
    PROVE  Follows(m)'
<1>1. PICK rest : Facing(rest, Len(EncodeBlob(m))) /\ Ahead(m, rest)
  BY DEF Follows
<1>2. /\ status = "parsing" /\ step = "entries" /\ left > 0 /\ Passes(EntryChecks)
      /\ Advance(EntryLen) /\ status' = status /\ step' = step /\ left' = left - 1
      /\ entries' = Append(entries, NextEntry)
      /\ nodes_left' = nodes_left /\ dir_nodes' = dir_nodes /\ inodes' = inodes
  BY Zenon DEF ReadEntry, Accept, At, Turned, MoreItems, NextEntry, inodeVars
<1>3. EntriesFollow(m, rest) /\ CursorOK
  BY <1>1, <1>2, CursorKept DEF Ahead
<1>4. PICK after : EntryNext(m, rest, after)
  BY <1>2, <1>3, EntriesSplit
<1>5. PICK n, x : n = ThisNode(m) /\ x = n[Len(entries) + 1]
  OBVIOUS
<1>6. /\ EntryFields(x) /\ EncodeDirEntry(x) \in Seq(Nat) /\ after \in Seq(Nat)
      /\ rest = EncodeDirEntry(x) \o after
      /\ Part(Append(entries, x), left - 1, n) /\ Len(Append(entries, x)) = Len(entries) + 1
  BY <1>4, <1>5, Zenon DEF EntryNext
<1>7. PICK more : /\ AfterNodes(m, Len(dir_nodes) + 1, more)
                  /\ ItemsAhead(DirEntries(n), Len(entries) + 1, more, after)
  BY <1>4, <1>5, Zenon DEF EntryNext
<1>8. HereAt(0, EncodeDirEntry(x))
  BY <1>1, <1>6, FacingFirst
<1>9. NextEntry = x /\ EntryLen = Len(EncodeDirEntry(x))
  BY <1>2, <1>3, <1>6, <1>8, EntryMet
<1>10. entries' = Append(entries, x)
  BY <1>2, <1>9
<1>12. EntriesFollow(m, after)'
  <2>1. ThisNode(m)' = n /\ dir_nodes' = dir_nodes
    BY <1>2, <1>5 DEF ThisNode
  <2>2. (inodes = m.inodes)' /\ Part(dir_nodes, nodes_left, m.dir_nodes)'
    BY <1>2, <1>3 DEF EntriesFollow
  <2>3. Part(entries, left, ThisNode(m))'
    BY <1>2, <1>6, <1>10, <2>1
  <2>4. AfterNodes(m, Len(dir_nodes') + 1, more) /\ ItemsAhead(DirEntries(n), Len(entries'), more, after)
    BY <1>6, <1>7, <1>10, <2>1
  <2>5. \E more_ : /\ AfterNodes(m, Len(dir_nodes') + 1, more_)
                   /\ ItemsAhead(DirEntries(ThisNode(m)'), Len(entries'), more_, after)
    BY <2>1, <2>4
  <2>. QED
    BY <2>2, <2>3, <2>5 DEF EntriesFollow
<1>13. Ahead(m, after)'
  BY <1>2, <1>12 DEF Ahead
<1>. QED
  BY <1>1, <1>2, <1>3, <1>6, <1>9, <1>13, FollowsOn

LEMMA OneNodeMore ==
    ASSUME IInv, NEW m \in WrittenImage, Part(dir_nodes, nodes_left, m.dir_nodes), nodes_left > 0
    PROVE  /\ Part(Append(dir_nodes, ThisNode(m)), nodes_left - 1, m.dir_nodes)
           /\ Len(Append(dir_nodes, ThisNode(m))) = Len(dir_nodes) + 1
<1>1. PICK l, k, w, n : l = dir_nodes /\ k = Len(dir_nodes) /\ w = m.dir_nodes /\ n = nodes_left
  OBVIOUS
<1>2. w \in Seq(Seq(WrittenEntry))
  BY <1>1, BlobInParts DEF BlobParts
<1>3. k = Len(l) /\ Len(l) \in Nat /\ n \in Nat /\ n # 0 /\ Part(l, n, w)
  BY <1>1, Counters
<1>4. NextInList(l, n, w)
  BY <1>2, <1>3, PartGrows
<1>5. PICK x : x = w[k + 1]
  OBVIOUS
<1>6. Part(Append(l, x), n - 1, w) /\ Len(Append(l, x)) = k + 1
  BY <1>3, <1>4, <1>5 DEF NextInList
<1>. QED
  BY <1>1, <1>5, <1>6, Zenon DEF ThisNode

\* The cursor stays where it is.
LEMMA FacingStays ==
    ASSUME NEW rest, NEW m, Facing(rest, Len(EncodeBlob(m))), buf' = buf, position' = position
    PROVE  Facing(rest, Len(EncodeBlob(m)))'
BY DEF Facing, HereAt, remaining_len, U8

LEMMA NodeEndFollowed ==
    ASSUME IInv, NEW m \in WrittenImage, Follows(m), NodeEnd, UNCHANGED inodeVars
    PROVE  Follows(m)'
<1>1. PICK rest : Facing(rest, Len(EncodeBlob(m))) /\ Ahead(m, rest)
  BY DEF Follows
<1>2. /\ status = "parsing" /\ step = "entries" /\ ~(left > 0) /\ status' = status /\ step' = "dir_nodes"
      /\ buf' = buf /\ position' = position /\ inodes' = inodes
      /\ dir_nodes' = Append(dir_nodes, entries) /\ nodes_left' = nodes_left - 1
  BY Zenon DEF NodeEnd, At, MoreItems, inodeVars
<1>3. EntriesFollow(m, rest) /\ left = 0 /\ nodes_left > 0
  <2>1. EntriesFollow(m, rest)
    BY <1>1, <1>2 DEF Ahead
  <2>2. left \in Nat /\ nodes_left > 0
    BY <1>2, Counters
  <2>. QED
    BY <1>2, <2>1, <2>2
<1>4. entries = ThisNode(m) /\ AfterNodes(m, Len(dir_nodes) + 1, rest)
  BY <1>2, <1>3, EntriesOver
<1>5. inodes = m.inodes /\ Part(dir_nodes, nodes_left, m.dir_nodes)
  BY <1>3 DEF EntriesFollow
<1>6. Part(dir_nodes', nodes_left', m.dir_nodes) /\ Len(dir_nodes') = Len(dir_nodes) + 1
  BY <1>2, <1>3, <1>4, <1>5, OneNodeMore
<1>7. AfterNodes(m, Len(dir_nodes'), rest)
  BY <1>4, <1>6
<1>8. NodesFollow(m, rest)'
  BY <1>2, <1>5, <1>6, <1>7 DEF NodesFollow
<1>9. Ahead(m, rest)'
  BY <1>2, <1>8 DEF Ahead
<1>10. Facing(rest, Len(EncodeBlob(m)))'
  BY <1>1, <1>2, FacingStays
<1>. QED
  BY <1>9, <1>10 DEF Follows

\* Nothing is read.
LEMMA StaysFollowed ==
    ASSUME NEW m, Follows(m), UNCHANGED <<buf, position, step, left, inodeVars, nodeVars>>,
           status' = "parsed" => nodes_left = 0
    PROVE  Follows(m)'
<1>1. PICK rest : Facing(rest, Len(EncodeBlob(m))) /\ Ahead(m, rest)
  BY DEF Follows
<1>2. Facing(rest, Len(EncodeBlob(m)))'
  BY <1>1, FacingStays
<1>3. /\ step' = step /\ left' = left /\ inodes' = inodes /\ inodes_left' = inodes_left
      /\ inode' = inode /\ inode_flags' = inode_flags
      /\ nodes_left' = nodes_left /\ dir_nodes' = dir_nodes /\ entries' = entries
  BY DEF inodeVars, nodeVars
<1>4. Ahead(m, rest)'
  <2>1. /\ InodesFollow(m, rest) => InodesFollow(m, rest)'
        /\ NodesFollow(m, rest) => NodesFollow(m, rest)'
    BY <1>3 DEF InodesFollow, NodesFollow
  <2>2. HeadFollows(m) => HeadFollows(m)'
    BY <1>3 DEF HeadFollows, ThisInode
  <2>3. XattrsFollow(m, rest) => XattrsFollow(m, rest)'
    BY <1>3, <2>2 DEF XattrsFollow, ThisInode
  <2>4. SlicesFollow(m, rest) => SlicesFollow(m, rest)'
    BY <1>3, <2>2 DEF SlicesFollow, ThisInode
  <2>5. EntriesFollow(m, rest) => EntriesFollow(m, rest)'
    BY <1>3 DEF EntriesFollow, ThisNode
  <2>. QED
    BY <1>1, <1>3, <2>1, <2>3, <2>4, <2>5 DEF Ahead
<1>. QED
  BY <1>2, <1>4 DEF Follows

-----------------------------------------------------------------------------
\* A valid blob is refused only where it ends too early.

CutShort(m) == status' = "Truncated" /\ Len(buf) < Len(EncodeBlob(m))

ThisInodeValid(m) == InodeFields(ThisInode(m)) /\ ValidInode(ThisInode(m))

LEMMA ValidInodeNext ==
    ASSUME IInv, NEW m \in WrittenImage, Valid(m), Part(inodes, inodes_left, m.inodes), inodes_left > 0
    PROVE  ThisInodeValid(m)
<1>1. Len(inodes) + 1 \in 1..Len(m.inodes) /\ m.inodes \in Seq(WrittenInode)
  BY NextPlace, Counters, BlobInParts DEF BlobParts
<1>2. Len(inodes) + 1 \in DOMAIN m.inodes
  BY <1>1
<1>3. ValidInode(m.inodes[Len(inodes) + 1])
  BY <1>2, Zenon DEF Valid
<1>. QED
  BY <1>3, ThisInodeIs DEF ThisInode, ThisInodeValid

LEMMA CountRefused ==
    ASSUME IInv, NEW m \in WrittenImage, Follows(m), RejectCount
    PROVE  CutShort(m)
<1>1. PICK rest : Facing(rest, Len(EncodeBlob(m))) /\ Ahead(m, rest)
  BY DEF Follows
<1>2. PICK st : Reject(st, << Read(4) >>) /\ (st = "inode_count" \/ (inodes_left = 0 /\ st = "inodes"))
  BY DEF RejectCount
<1>3. step = st /\ BlobParts(m) /\ CursorOK
  BY <1>2, BlobInParts, CursorKept DEF Reject, At
<1>4. \E n \in Seq(Nat), after \in Seq(Nat) : Len(n) = 4 /\ rest = n \o after
  <2>1. CASE st = "inode_count"
    <3>1. rest = EncodeBlob(m)
      BY <1>1, <1>3, <2>1 DEF Ahead
    <3>2. Pack32(Len(m.inodes)) \in Seq(Nat) /\ Len(Pack32(Len(m.inodes))) = 4
      BY <1>3, PackWidth DEF BlobParts
    <3>3. FlattenSeq(Inodes(m.inodes)) \o NodesBytes(m) \in Seq(Nat)
      BY <1>3, OneAfterTheOther, Zenon DEF BlobParts
    <3>. QED
      BY <1>3, <3>1, <3>2, <3>3, Zenon DEF BlobParts
  <2>2. CASE inodes_left = 0 /\ st = "inodes"
    <3>1. rest = NodesBytes(m)
      BY <1>1, <1>3, <2>2, InodesOver DEF Ahead
    <3>2. Pack32(Len(m.dir_nodes)) \in Seq(Nat) /\ Len(Pack32(Len(m.dir_nodes))) = 4
      BY <1>3, PackWidth DEF BlobParts
    <3>. QED
      BY <1>3, <3>1, <3>2, Zenon DEF BlobParts, NodesBytes
  <2>. QED
    BY <1>2, <2>1, <2>2
<1>5. PICK n \in Seq(Nat), after \in Seq(Nat) : Len(n) = 4 /\ rest = n \o after
  BY <1>4
<1>6. OnlyShort(<< Read(4) >>, Len(n))
  <2>1. 4 \in Int /\ 4 <= 4
    OBVIOUS
  <2>2. OnlyShort(<< Read(4) >>, 4)
    BY <1>3, <2>1, CountShort, Zenon
  <2>. QED
    BY <1>5, <2>2, Zenon
<1>7. << Read(4) >> \in Seq(Outcomes)
  BY Rows
<1>. QED
  BY <1>1, <1>2, <1>3, <1>5, <1>6, <1>7, FacingShort DEF CutShort

LEMMA HeadRefused ==
    ASSUME IInv, NEW m \in WrittenImage, Follows(m), inodes_left > 0, Reject("inodes", InodeHeadChecks)
    PROVE  CutShort(m)
<1>1. PICK rest : Facing(rest, Len(EncodeBlob(m))) /\ Ahead(m, rest)
  BY DEF Follows
<1>2. step = "inodes" /\ CursorOK /\ InodeHeadChecks \in Seq(Outcomes)
  BY CursorKept, Rows DEF Reject, At
<1>3. InodesFollow(m, rest)
  BY <1>1, <1>2 DEF Ahead
<1>4. PICK more : InodeNext(m, rest, more)
  BY <1>3, InodesSplit
<1>5. PICK i, h : i = ThisInode(m) /\ h = HeadOf(i)
  OBVIOUS
<1>6. PICK after \in Seq(Nat) : rest = h \o after
  BY <1>4, <1>5, Zenon DEF InodeNext
<1>7. InodeFields(i) /\ h \in Seq(Nat)
  BY <1>4, <1>5 DEF InodeNext, InodeParts
<1>8. HereAt(0, HeadOf(i))
  BY <1>1, <1>5, <1>6, <1>7, FacingFirst
<1>9. OnlyShort(InodeHeadChecks, Len(h))
  BY <1>2, <1>5, <1>7, <1>8, HeadShort
<1>. QED
  BY <1>1, <1>2, <1>6, <1>7, <1>9, FacingShort DEF CutShort

LEMMA XattrRefused ==
    ASSUME IInv, NEW m \in WrittenImage, Follows(m), Valid(m), left > 0, Reject("xattrs", XattrChecks)
    PROVE  CutShort(m)
<1>1. PICK rest : Facing(rest, Len(EncodeBlob(m))) /\ Ahead(m, rest)
  BY DEF Follows
<1>2. step = "xattrs" /\ CursorOK /\ XattrChecks \in Seq(Outcomes)
  BY CursorKept, Rows DEF Reject, At
<1>3. XattrsFollow(m, rest)
  BY <1>1, <1>2 DEF Ahead
<1>4. PICK after : XattrNext(m, rest, after)
  BY <1>2, <1>3, XattrsSplit
<1>5. PICK i, k, x : i = ThisInode(m) /\ k = Len(inode.xattrs) + 1 /\ x = i.xattrs[k]
  OBVIOUS
<1>6. /\ XattrFields(x) /\ EncodeXattr(x) \in Seq(Nat) /\ after \in Seq(Nat)
      /\ rest = EncodeXattr(x) \o after /\ k \in 1..Len(i.xattrs)
  BY <1>4, <1>5, Zenon DEF XattrNext
<1>7. InodeFields(i) /\ ValidInode(i)
  BY <1>2, <1>3, <1>5, Counters, ValidInodeNext DEF XattrsFollow, HeadFollows, ThisInodeValid
<1>8. k \in DOMAIN i.xattrs
  BY <1>6, <1>7 DEF InodeFields
<1>9. ValidXattr(x)
  BY <1>5, <1>7, <1>8, Zenon DEF ValidInode
<1>10. HereAt(0, EncodeXattr(x))
  BY <1>1, <1>6, FacingFirst
<1>11. OnlyShort(XattrChecks, Len(EncodeXattr(x)))
  BY <1>2, <1>6, <1>9, <1>10, XattrShort
<1>. QED
  BY <1>1, <1>2, <1>6, <1>11, FacingShort DEF CutShort

LEMMA ContentRefused ==
    ASSUME IInv, NEW m \in WrittenImage, Follows(m), Valid(m), ~(left > 0), Reject("xattrs", ContentChecks)
    PROVE  CutShort(m)
<1>1. PICK rest : Facing(rest, Len(EncodeBlob(m))) /\ Ahead(m, rest)
  BY DEF Follows
<1>2. step = "xattrs" /\ CursorOK /\ ContentChecks \in Seq(Outcomes) /\ left = 0
  <2>1. left \in Nat
    BY Counters
  <2>. QED
    BY <2>1, CursorKept, Rows DEF Reject, At
<1>3. XattrsFollow(m, rest)
  BY <1>1, <1>2 DEF Ahead
<1>4. PICK i, c : i = ThisInode(m) /\ c = EncodeContent(i.content_handle)
  OBVIOUS
<1>5. InodeFields(i) /\ ValidInode(i)
  BY <1>2, <1>3, <1>4, Counters, ValidInodeNext DEF XattrsFollow, HeadFollows, ThisInodeValid
<1>6. ReadsInode(i)
  BY <1>3, <1>4, <1>5 DEF XattrsFollow, HeadFollows, ReadsInode, SameHead
<1>7. CASE ~HasSliceMap
  <2>1. c \in Seq(Nat)
    BY <1>2, <1>3, <1>4, XattrsOver DEF InodeParts
  <2>2. PICK more \in Seq(Nat) : rest = c \o more
    BY <1>2, <1>3, <1>4, XattrsOver
  <2>3. HereAt(0, EncodeContent(i.content_handle))
    BY <1>1, <1>4, <2>1, <2>2, FacingFirst
  <2>4. OnlyShort(ContentChecks, Len(c))
    BY <1>2, <1>4, <1>5, <1>6, <1>7, <2>3, ContentShort
  <2>. QED
    BY <1>1, <1>2, <2>1, <2>2, <2>4, FacingShort DEF CutShort
<1>8. CASE HasSliceMap
  <2>1. i.content_handle.kind \in KindsOf(i.mode)
    BY <1>5 DEF ValidInode
  <2>2. SliceMapNext(m, rest)
    BY <1>2, <1>3, <1>4, <1>8, <2>1, SliceMapSplit
  <2>3. PICK n : n = Pack32(Len(i.content_handle.value))
    OBVIOUS
  <2>4. ContentChecks = << Read(4) >> /\ n \in Seq(Nat) /\ Len(n) = 4
    BY <1>4, <2>2, <2>3, Zenon DEF SliceMapNext
  <2>5. PICK after \in Seq(Nat) : rest = n \o after
    BY <1>4, <2>2, <2>3, Zenon DEF SliceMapNext
  <2>6. OnlyShort(ContentChecks, Len(n))
    <3>1. 4 \in Int /\ 4 <= 4
      OBVIOUS
    <3>2. OnlyShort(<< Read(4) >>, 4)
      BY <1>2, <3>1, CountShort, Zenon
    <3>. QED
      BY <2>4, <3>2, Zenon
  <2>. QED
    BY <1>1, <1>2, <2>4, <2>5, <2>6, FacingShort DEF CutShort
<1>. QED
  BY <1>7, <1>8

LEMMA SliceRefused ==
    ASSUME IInv, NEW m \in WrittenImage, Follows(m), Valid(m), left > 0, Reject("slices", SliceChecks)
    PROVE  CutShort(m)
<1>1. PICK rest : Facing(rest, Len(EncodeBlob(m))) /\ Ahead(m, rest)
  BY DEF Follows
<1>2. step = "slices" /\ CursorOK /\ SliceChecks \in Seq(Outcomes)
  BY CursorKept, Rows DEF Reject, At
<1>3. SlicesFollow(m, rest)
  BY <1>1, <1>2 DEF Ahead
<1>4. PICK after : SliceNext(m, rest, after)
  BY <1>2, <1>3, SlicesSplit
<1>5. PICK i, w, k, x :
        /\ i = ThisInode(m) /\ w = i.content_handle.value
        /\ k = Len(inode.content_handle.value) + 1 /\ x = w[k]
  OBVIOUS
<1>6. /\ SliceFields(x) /\ EncodeSlice(x) \in Seq(Nat) /\ after \in Seq(Nat)
      /\ rest = EncodeSlice(x) \o after /\ k \in 1..Len(w)
  BY <1>4, <1>5, Zenon DEF SliceNext
<1>7. InodeFields(i) /\ ValidInode(i) /\ i.content_handle.kind = "SLICE_MAP"
  BY <1>2, <1>3, <1>5, Counters, ValidInodeNext DEF SlicesFollow, HeadFollows, ThisInodeValid
<1>8. w \in Seq(WrittenSlice)
  BY <1>5, <1>7, ContentsWritten DEF InodeFields
<1>9. k \in DOMAIN w
  BY <1>6, <1>8
<1>10. LessThan(x.file_byte_start, x.file_byte_end)
  <2>1. \A j \in DOMAIN w : LessThan(w[j].file_byte_start, w[j].file_byte_end)
    BY <1>5, <1>7 DEF ValidInode, ValidContent
  <2>. QED
    BY <1>5, <1>9, <2>1, Zenon
<1>11. HereAt(0, EncodeSlice(x))
  BY <1>1, <1>6, FacingFirst
<1>12. OnlyShort(SliceChecks, Len(EncodeSlice(x)))
  BY <1>2, <1>6, <1>10, <1>11, SliceShort
<1>. QED
  BY <1>1, <1>2, <1>6, <1>12, FacingShort DEF CutShort

LEMMA NodeHeadRefused ==
    ASSUME IInv, NEW m \in WrittenImage, Follows(m), nodes_left > 0, Reject("dir_nodes", NodeHeadChecks)
    PROVE  CutShort(m)
<1>1. PICK rest : Facing(rest, Len(EncodeBlob(m))) /\ Ahead(m, rest)
  BY DEF Follows
<1>2. step = "dir_nodes" /\ CursorOK /\ NodeHeadChecks \in Seq(Outcomes)
  BY CursorKept, Rows DEF Reject, At
<1>3. NodesFollow(m, rest)
  BY <1>1, <1>2 DEF Ahead
<1>4. PICK after : NodeNext(m, rest, after)
  BY <1>3, NodesSplit
<1>5. PICK l, h : l = Len(ThisNode(m)) /\ h = NodeHead(l)
  OBVIOUS
<1>6. l \in Nat /\ h \in Seq(Nat) /\ after \in Seq(Nat) /\ rest = h \o after
  BY <1>4, <1>5, Zenon DEF NodeNext
<1>7. HereAt(0, NodeHead(l))
  BY <1>1, <1>5, <1>6, FacingFirst
<1>8. OnlyShort(NodeHeadChecks, Len(h))
  BY <1>2, <1>5, <1>6, <1>7, NodeHeadShort
<1>. QED
  BY <1>1, <1>2, <1>6, <1>8, FacingShort DEF CutShort

LEMMA EntryRefused ==
    ASSUME IInv, NEW m \in WrittenImage, Follows(m), Valid(m), left > 0, Reject("entries", EntryChecks)
    PROVE  CutShort(m)
<1>1. PICK rest : Facing(rest, Len(EncodeBlob(m))) /\ Ahead(m, rest)
  BY DEF Follows
<1>2. step = "entries" /\ CursorOK /\ EntryChecks \in Seq(Outcomes)
  BY CursorKept, Rows DEF Reject, At
<1>3. EntriesFollow(m, rest)
  BY <1>1, <1>2 DEF Ahead
<1>4. PICK after : EntryNext(m, rest, after)
  BY <1>2, <1>3, EntriesSplit
<1>5. PICK w, k, x : w = ThisNode(m) /\ k = Len(entries) /\ x = w[k + 1]
  OBVIOUS
<1>6. /\ EntryFields(x) /\ EncodeDirEntry(x) \in Seq(Nat) /\ after \in Seq(Nat)
      /\ rest = EncodeDirEntry(x) \o after /\ k + 1 \in 1..Len(w) /\ entries = SubSeq(w, 1, k)
  BY <1>4, <1>5, Zenon DEF EntryNext
<1>7. Part(dir_nodes, nodes_left, m.dir_nodes) /\ nodes_left > 0 /\ k \in Nat
  BY <1>2, <1>3, <1>5, Counters DEF EntriesFollow
<1>8. w \in Seq(WrittenEntry)
  BY <1>5, <1>7, ThisNodeIs
<1>9. ValidNode(w)
  <2>1. Len(dir_nodes) + 1 \in 1..Len(m.dir_nodes) /\ m.dir_nodes \in Seq(Seq(WrittenEntry))
    BY <1>7, NextPlace, Counters, BlobInParts DEF BlobParts
  <2>2. Len(dir_nodes) + 1 \in DOMAIN m.dir_nodes
    BY <2>1
  <2>. QED
    BY <1>5, <2>2, Zenon DEF Valid, ThisNode
<1>10. k + 1 \in DOMAIN w /\ (k # 0 => k \in DOMAIN w /\ k < k + 1)
  BY <1>6, <1>7, <1>8
<1>11. ValidEntry(x) /\ (k # 0 => NameBefore(w[k].name, x.name))
  BY <1>5, <1>9, <1>10, Zenon DEF ValidNode
<1>12. entries # <<>> => k # 0 /\ Last(entries) = w[k]
  BY <1>5, <1>6, <1>7, <1>8 DEF Last
<1>13. entries # <<>> => NameBefore(Last(entries).name, x.name)
  BY <1>11, <1>12
<1>14. HereAt(0, EncodeDirEntry(x))
  BY <1>1, <1>6, FacingFirst
<1>15. OnlyShort(EntryChecks, Len(EncodeDirEntry(x)))
  BY <1>2, <1>6, <1>11, <1>13, <1>14, EntryShort
<1>. QED
  BY <1>1, <1>2, <1>6, <1>15, FacingShort DEF CutShort

LEMMA InodeRefused ==
    ASSUME IInv, NEW m \in WrittenImage, Follows(m), Valid(m), RejectInode
    PROVE  CutShort(m)
<1>1. CASE inodes_left > 0 /\ Reject("inodes", InodeHeadChecks)
  BY <1>1, HeadRefused
<1>2. CASE left > 0 /\ Reject("xattrs", XattrChecks)
  BY <1>2, XattrRefused
<1>3. CASE ~(left > 0) /\ Reject("xattrs", ContentChecks)
  BY <1>3, ContentRefused
<1>4. CASE left > 0 /\ Reject("slices", SliceChecks)
  BY <1>4, SliceRefused
<1>. QED
  BY <1>1, <1>2, <1>3, <1>4, Zenon DEF RejectInode, MoreItems

LEMMA NodeRefused ==
    ASSUME IInv, NEW m \in WrittenImage, Follows(m), Valid(m), RejectNode
    PROVE  CutShort(m)
<1>1. CASE nodes_left > 0 /\ Reject("dir_nodes", NodeHeadChecks)
  BY <1>1, NodeHeadRefused
<1>2. CASE left > 0 /\ Reject("entries", EntryChecks)
  BY <1>2, EntryRefused
<1>. QED
  BY <1>1, <1>2, Zenon DEF RejectNode, MoreItems

-----------------------------------------------------------------------------
\* Whatever is parsed is followed through every blob that the buffer agrees with.

RefusedShort(m) == status \in ErrorKinds /\ Valid(m) => status = "Truncated" /\ Len(buf) < Len(EncodeBlob(m))

\* The inductive invariant of the round trip, together with IInv.
FollowsAll == \A m \in WrittenImage : Agrees(EncodeBlob(m)) => Follows(m) /\ RefusedShort(m)

LEMMA InitFollowsAll == Init => FollowsAll
<1> SUFFICES ASSUME Init, NEW m \in WrittenImage, Agrees(EncodeBlob(m))
             PROVE  Follows(m) /\ RefusedShort(m)
  BY DEF FollowsAll
<1>1. /\ position = 0 /\ status = "parsing" /\ step = "inode_count" /\ inodes = <<>> /\ CursorOK
  <2>1. position = 0 /\ status = "parsing" /\ step = "inode_count" /\ inodes = <<>>
    BY DEF Init, Start
  <2>. QED
    BY <2>1, InitInv, CursorKept
<1>2. PICK e \in Seq(Nat) : e = EncodeBlob(m)
  BY BlobInParts DEF BlobParts
<1>3. Lies(e, position, e) /\ Len(e) \in Nat
  BY <1>1, <1>2 DEF Lies
<1>4. HereAt(0, e)
  BY <1>1, <1>2, <1>3, Faced
<1>5. Facing(e, Len(e))
  BY <1>1, <1>3, <1>4 DEF Facing
<1>6. Ahead(m, e)
  BY <1>1, <1>2 DEF Ahead
<1>7. Follows(m)
  BY <1>2, <1>5, <1>6 DEF Follows
<1>. QED
  BY <1>1, <1>7 DEF RefusedShort, ErrorKinds

\* What a step does to a blob that is followed.
Goes(m) ==
    /\ buf' = buf /\ Follows(m)'
    /\ status' \in ErrorKinds /\ Valid(m) => \/ CutShort(m)
                                             \/ status' = status

LEMMA InodeGoes ==
    ASSUME IInv, NEW m \in WrittenImage, Follows(m), InodeStep, UNCHANGED nodeVars
    PROVE  Goes(m)
<1>1. CASE RejectInode
  <2>1. /\ status' \in ErrorKinds /\ buf' = buf /\ position' = position /\ step' = step /\ left' = left
        /\ UNCHANGED inodeVars
    <3>1. \A checks \in Seq(Outcomes) : ~Passes(checks) => FirstFailure(checks) \in ErrorKinds
      BY FirstFailureIsFirst
    <3>2. \A st : \A checks \in Seq(Outcomes) : Reject(st, checks) => Raised
      BY <3>1 DEF Reject, At, Raised
    <3>3. Raised
      BY <1>1, <3>2, Rows, Zenon DEF RejectInode
    <3>. QED
      BY <1>1, <3>3 DEF Raised, RejectInode, inodeVars
  <2>2. Follows(m)'
    BY <2>1, StaysFollowed DEF ErrorKinds
  <2>3. Valid(m) => CutShort(m)
    BY <1>1, InodeRefused
  <2>. QED
    BY <2>1, <2>2, <2>3 DEF Goes
<1>2. CASE ~RejectInode
  <2>1. buf' = buf /\ status' = status
    BY <1>2, Zenon DEF InodeStep, ReadInodeHead, ReadXattr, ReadContent, BeginSlices, ReadSlice, SlicesEnd,
       Accept, Advance
  <2>2. Follows(m)'
    BY <1>2, HeadFollowed, XattrFollowed, ContentFollowed, SlicesBeginFollowed, SliceFollowed,
       SlicesEndFollowed, Zenon DEF InodeStep
  <2>. QED
    BY <2>1, <2>2 DEF Goes
<1>. QED
  BY <1>1, <1>2

LEMMA NodeGoes ==
    ASSUME IInv, NEW m \in WrittenImage, Follows(m), NodeStep, UNCHANGED inodeVars
    PROVE  Goes(m)
<1>1. CASE RejectNode
  <2>1. /\ status' \in ErrorKinds /\ buf' = buf /\ position' = position /\ step' = step /\ left' = left
        /\ UNCHANGED nodeVars
    <3>1. \A checks \in Seq(Outcomes) : ~Passes(checks) => FirstFailure(checks) \in ErrorKinds
      BY FirstFailureIsFirst
    <3>2. \A st : \A checks \in Seq(Outcomes) : Reject(st, checks) => Raised
      BY <3>1 DEF Reject, At, Raised
    <3>3. Raised
      BY <1>1, <3>2, Rows, Zenon DEF RejectNode
    <3>. QED
      BY <1>1, <3>3 DEF Raised, RejectNode, nodeVars
  <2>2. Follows(m)'
    BY <2>1, StaysFollowed DEF ErrorKinds
  <2>3. Valid(m) => CutShort(m)
    BY <1>1, NodeRefused
  <2>. QED
    BY <2>1, <2>2, <2>3 DEF Goes
<1>2. CASE ~RejectNode
  <2>1. buf' = buf /\ status' = status
    BY <1>2, Zenon DEF NodeStep, ReadNodeHead, ReadEntry, NodeEnd, Accept, Advance
  <2>2. Follows(m)'
    BY <1>2, NodeHeadFollowed, EntryFollowed, NodeEndFollowed, Zenon DEF NodeStep
  <2>. QED
    BY <2>1, <2>2 DEF Goes
<1>. QED
  BY <1>1, <1>2

LEMMA EachGoes ==
    ASSUME IInv, NEW m \in WrittenImage, Follows(m), [Next]_vars
    PROVE  Goes(m)
<1>1. CASE ReadInodeCount \/ ReadNodeCount
  <2>1. buf' = buf /\ status' = status
    BY <1>1 DEF ReadInodeCount, ReadNodeCount, Accept, Advance
  <2>2. Follows(m)'
    BY <1>1, InodeCountFollowed, NodeCountFollowed
  <2>. QED
    BY <2>1, <2>2 DEF Goes
<1>2. CASE RejectCount
  <2>1. /\ status' \in ErrorKinds /\ UNCHANGED <<buf, position, step, left, inodeVars, nodeVars>>
    <3>1. << Read(4) >> \in Seq(Outcomes)
      BY Rows
    <3>2. FirstFailure(<< Read(4) >>) \in ErrorKinds \/ Passes(<< Read(4) >>)
      BY <3>1, FirstFailureIsFirst
    <3>. QED
      BY <1>2, <3>2 DEF RejectCount, Reject
  <2>2. Follows(m)'
    BY <2>1, StaysFollowed DEF ErrorKinds
  <2>3. CutShort(m)
    BY <1>2, CountRefused
  <2>. QED
    BY <2>1, <2>2, <2>3 DEF Goes
<1>3. CASE InodeStep /\ UNCHANGED nodeVars
  BY <1>3, InodeGoes
<1>4. CASE NodeStep /\ UNCHANGED inodeVars
  BY <1>4, NodeGoes
<1>5. CASE BlobParsed
  <2>1. /\ status' = "parsed" /\ nodes_left = 0 /\ UNCHANGED <<buf, position, step, left, inodeVars, nodeVars>>
    BY <1>5 DEF BlobParsed
  <2>2. Follows(m)'
    BY <2>1, StaysFollowed
  <2>. QED
    BY <2>1, <2>2 DEF Goes, ErrorKinds
<1>6. CASE UNCHANGED vars
  <2>1. status' = status /\ UNCHANGED <<buf, position, step, left, inodeVars, nodeVars>>
    BY <1>6 DEF vars, loopVars
  <2>2. status = "parsed" => nodes_left = 0
    BY DEF Follows, Ahead
  <2>3. Follows(m)'
    BY <2>1, <2>2, StaysFollowed
  <2>. QED
    BY <2>1, <2>3 DEF Goes
<1>. QED
  BY <1>1, <1>2, <1>3, <1>4, <1>5, <1>6, Zenon DEF Next, Step, Finished

LEMMA BufferKept == [Next]_vars => buf' = buf
<1>1. RejectCount \/ ReadInodeCount \/ ReadNodeCount \/ BlobParsed => buf' = buf
  BY DEF RejectCount, ReadInodeCount, ReadNodeCount, BlobParsed, Reject, Accept, Advance
<1>2. InodeStep => buf' = buf
  BY DEF InodeStep, RejectInode, ReadInodeHead, ReadXattr, ReadContent, BeginSlices, ReadSlice, SlicesEnd,
     Reject, Accept, Advance
<1>3. NodeStep => buf' = buf
  BY DEF NodeStep, RejectNode, ReadNodeHead, ReadEntry, NodeEnd, Reject, Accept, Advance
<1>4. UNCHANGED vars => buf' = buf
  BY DEF vars, loopVars
<1>. QED
  BY <1>1, <1>2, <1>3, <1>4, Zenon DEF Next, Step, Finished

LEMMA StepFollowsAll == IInv /\ FollowsAll /\ [Next]_vars => FollowsAll'
<1> SUFFICES ASSUME IInv, FollowsAll, [Next]_vars
             PROVE  FollowsAll'
  OBVIOUS
<1>1. ASSUME NEW m \in WrittenImage, Agrees(EncodeBlob(m))'
      PROVE  Follows(m)' /\ RefusedShort(m)'
  <2>1. buf' = buf
    BY BufferKept
  <2>2. Agrees(EncodeBlob(m))
    BY <1>1, <2>1 DEF Agrees
  <2>3. Follows(m) /\ RefusedShort(m)
    BY <2>2 DEF FollowsAll
  <2>4. Goes(m)
    BY <2>3, EachGoes
  <2>5. RefusedShort(m)'
    BY <2>1, <2>3, <2>4 DEF Goes, CutShort, RefusedShort
  <2>. QED
    BY <2>4, <2>5 DEF Goes
<1>. QED
  BY <1>1 DEF FollowsAll

LEMMA BlobInvariance == Spec => [](IInv /\ FollowsAll)
BY InitInv, StepInv, InitFollowsAll, StepFollowsAll, PTL DEF Spec

-----------------------------------------------------------------------------
\* What it says of the blobs that are written.

\* A blob that is parsed is the image it agrees with, to the last of its bytes.
LEMMA ParsedIs ==
    ASSUME IInv, FollowsAll, status = "parsed", NEW m \in WrittenImage, Agrees(EncodeBlob(m))
    PROVE  inodes = m.inodes /\ dir_nodes = m.dir_nodes /\ position = Len(EncodeBlob(m))
<1>1. Follows(m)
  BY DEF FollowsAll
<1>2. PICK rest : Facing(rest, Len(EncodeBlob(m))) /\ Ahead(m, rest)
  BY <1>1 DEF Follows
<1>3. step = "dir_nodes"
  BY DEF IInv, AtEnd
<1>4. NodesFollow(m, rest) /\ nodes_left = 0
  BY <1>2, <1>3 DEF Ahead
<1>5. dir_nodes = m.dir_nodes /\ rest = <<>>
  BY <1>4, NodesOver
<1>6. position + 0 = Len(EncodeBlob(m)) /\ position \in Nat
  <2>1. Len(rest) = 0
    BY <1>5
  <2>. QED
    BY <1>2, <2>1, CursorKept DEF Facing, CursorOK
<1>. QED
  BY <1>4, <1>5, <1>6 DEF NodesFollow

LEMMA WrittenBlob ==
    ASSUME IInv, NEW w \in Written
    PROVE  /\ w.image \in WrittenImage /\ w.bytes = EncodeBlob(w.image) /\ w.valid = Valid(w.image)
           /\ w.bytes \in Seq(Nat) /\ buf \in Seq(Nat) /\ Len(w.bytes) \in Nat /\ Len(buf) \in Nat
<1>1. w.image \in WrittenImage
  BY WrittenAssumption
<1>2. w.bytes = EncodeBlob(w.image) /\ w.valid = Valid(w.image)
  BY DEF Written
<1>3. w.bytes \in Seq(Nat)
  BY <1>1, <1>2, BlobInParts DEF BlobParts
<1>4. buf \in Seq(Nat)
  BY BytesAreNumbers DEF IInv, TypesOK
<1>. QED
  BY <1>1, <1>2, <1>3, <1>4

LEMMA InvReadsBack == IInv /\ FollowsAll => WrittenBlobReadsBack
<1> SUFFICES ASSUME IInv, FollowsAll, status # "parsing",
                    NEW w \in Written, w.valid, IsPrefix(w.bytes, buf)
             PROVE  /\ status = "parsed"
                    /\ inodes = w.image.inodes
                    /\ dir_nodes = w.image.dir_nodes
                    /\ position = Len(w.bytes)
  BY DEF WrittenBlobReadsBack
<1>1. PICK m \in WrittenImage : m = w.image
  BY WrittenBlob
<1>2. w.bytes = EncodeBlob(m) /\ Valid(m) /\ Len(EncodeBlob(m)) \in Nat /\ Len(buf) \in Nat
  BY <1>1, WrittenBlob
<1>3. Agrees(EncodeBlob(m)) /\ Len(EncodeBlob(m)) <= Len(buf)
  BY <1>2, WrittenBlob, PrefixAgrees
<1>4. status = "parsed"
  <2>1. status \in {"parsing", "parsed"} \cup ErrorKinds
    BY DEF IInv, TypesOK
  <2>2. status \notin ErrorKinds
    BY <1>2, <1>3 DEF FollowsAll, RefusedShort
  <2>. QED
    BY <2>1, <2>2
<1>. QED
  BY <1>1, <1>2, <1>3, <1>4, ParsedIs

LEMMA InvBlobTruncated == IInv /\ FollowsAll => BlobPrefixIsTruncated
<1> SUFFICES ASSUME IInv, FollowsAll, status \notin {"parsing", "Truncated"},
                    NEW w \in Written, w.valid, IsStrictPrefix(buf, w.bytes)
             PROVE  FALSE
  BY DEF BlobPrefixIsTruncated
<1>1. PICK m \in WrittenImage : m = w.image
  BY WrittenBlob
<1>2. w.bytes = EncodeBlob(m) /\ Valid(m) /\ Len(EncodeBlob(m)) \in Nat /\ Len(buf) \in Nat
  BY <1>1, WrittenBlob
<1>3. Agrees(EncodeBlob(m)) /\ Len(buf) < Len(EncodeBlob(m))
  BY <1>2, WrittenBlob, PrefixAgrees DEF IsStrictPrefix
<1>4. status = "parsed"
  <2>1. status \in {"parsing", "parsed"} \cup ErrorKinds
    BY DEF IInv, TypesOK
  <2>2. RefusedShort(m)
    BY <1>3 DEF FollowsAll
  <2>. QED
    BY <1>2, <2>1, <2>2 DEF RefusedShort
<1>5. position = Len(EncodeBlob(m)) /\ position \in 0..Len(buf)
  BY <1>3, <1>4, ParsedIs DEF IInv, TypesOK
<1>. QED
  BY <1>2, <1>3, <1>5

LEMMA InvInvalidBlobRefused == IInv /\ FollowsAll => InvalidBlobRefused
<1> SUFFICES ASSUME IInv, FollowsAll, status = "parsed", NEW w \in Written, buf = w.bytes
             PROVE  w.valid
  BY DEF InvalidBlobRefused
<1>1. PICK m \in WrittenImage : m = w.image
  BY WrittenBlob
<1>2. w.bytes = EncodeBlob(m) /\ w.valid = Valid(m)
  BY <1>1, WrittenBlob
<1>3. Agrees(EncodeBlob(m))
  BY <1>2 DEF Agrees
<1>4. inodes = m.inodes /\ dir_nodes = m.dir_nodes
  BY <1>3, ParsedIs
<1>5. (\A i \in DOMAIN inodes : ValidInode(inodes[i])) /\ (\A i \in DOMAIN dir_nodes : ValidNode(dir_nodes[i]))
  BY DEF IInv, InodesRead, NodesRead
<1>6. Valid(m)
  BY <1>4, <1>5, Zenon DEF Valid
<1>. QED
  BY <1>2, <1>6

\* A valid image reads back from its bytes as it was written, inode for inode and entry for
\* entry, whatever bytes follow: parse_metadata_blob stops where the encoding stops.
THEOREM BlobReadsBack == Spec => []WrittenBlobReadsBack
BY BlobInvariance, InvReadsBack, PTL

\* The bytes of a valid image, cut anywhere, are "Truncated" for parse_metadata_blob: no
\* count or length that runs past the end passes for corruption, and no part for a blob.
THEOREM CutBlobIsTruncated == Spec => []BlobPrefixIsTruncated
BY BlobInvariance, InvBlobTruncated, PTL

\* The bytes of an image that breaks a rule of inode.py or directory_node.py are not parsed
\* as that image, and not as another.
THEOREM InvalidImageIsRefused == Spec => []InvalidBlobRefused
BY BlobInvariance, InvInvalidBlobRefused, PTL
=============================================================================
