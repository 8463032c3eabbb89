------------------------------- MODULE Inode -------------------------------
(***************************************************************************)
(* limnifs/inode.py: parse_inode, with its attribute block and its content *)
(* handle.  What follows the fixed prefix depends on the flags and on the  *)
(* file type of the prefix.                                                *)
(*                                                                         *)
(* Integers that nothing computes with stay the bytes that were read.      *)
(***************************************************************************)
EXTENDS ParserLoop, Utf8

CONSTANT DEFAULT_INLINE_DATA_MAX_BYTES

ASSUME InlineCeilingAssumption == DEFAULT_INLINE_DATA_MAX_BYTES \in 0..(TOO_LARGE - 1)

INODE_FIXED_PREFIX_LEN == 41

\* The bits of the flags byte; those above, 0xF8, are reserved.
HasAtime(fl) == fl % 2 = 1                    \* INODE_FLAG_ATIME
HasXattrs(fl) == (fl \div 2) % 2 = 1          \* INODE_FLAG_HAS_XATTRS
HasInlineData(fl) == (fl \div 4) % 2 = 1      \* INODE_FLAG_INLINE_DATA
ReservedClear(fl) == fl < 8

\* mode & S_IFMT, whose four bits are the upper ones of the mode's second byte.
S_IFREG == 8
S_IFDIR == 4
S_IFLNK == 10
DeviceTypes == {6, 2}       \* S_IFBLK, S_IFCHR
PipeTypes == {1, 12}        \* S_IFIFO, S_IFSOCK
file_type(mode) == mode[2] \div 16

VARIABLES
    inodes_left,      \* inodes of the blob still to read
    inodes,           \* the inodes returned so far
    inode,            \* the locals of the current call of parse_inode
    inode_flags

\* A content handle is [kind, value].
NoContent == [kind |-> "none", value |-> <<>>]

is_directory(i) == file_type(i.mode) = S_IFDIR

-----------------------------------------------------------------------------
\* The prefix, atime and the number of attributes.

AtimeLen == IF HasAtime(U8(40)) THEN 8 ELSE 0
XattrCountLen == IF HasXattrs(U8(40)) THEN 4 ELSE 0
InodeHeadLen == INODE_FIXED_PREFIX_LEN + AtimeLen + XattrCountLen

InodeHeadChecks ==
    << Read(INODE_FIXED_PREFIX_LEN), Check(ReservedClear(U8(40)), "Corrupt"), Read(InodeHeadLen) >>

ReadInodeHead ==
    /\ inodes_left > 0
    /\ Accept("inodes", InodeHeadChecks, InodeHeadLen)
    /\ step' = "xattrs"
    /\ left' = IF HasXattrs(U8(40)) THEN U32(INODE_FIXED_PREFIX_LEN + AtimeLen) ELSE 0
    /\ inode_flags' = U8(40)
    /\ inode' = [number |-> Bytes(0, 8), mode |-> Bytes(8, 4), uid |-> Bytes(12, 4),
                 gid |-> Bytes(16, 4), mtime_ns |-> Bytes(20, 8), ctime_ns |-> Bytes(28, 8),
                 nlink |-> Bytes(36, 4), atime_ns |-> Bytes(INODE_FIXED_PREFIX_LEN, AtimeLen),
                 xattrs |-> <<>>, content_handle |-> NoContent]
    /\ UNCHANGED <<inodes_left, inodes>>

-----------------------------------------------------------------------------
\* One extended attribute: namespace, key_len, key, value_len, value.

key == Bytes(5, U32(1))
value_len == U32(5 + U32(1))
XattrLen == 9 + U32(1) + value_len

\* Mutant: the key is decoded before it has been read in full.
XattrChecksDecodingEarly ==
    << Read(1), Check(U8(0) <= 3, "Corrupt"),
       Read(5), Check(IsUtf8(key), "Corrupt"), Check(0 \notin Range(key), "Corrupt"),
       Read(5 + U32(1)), Read(9 + U32(1)), Read(XattrLen) >>

XattrChecks ==
    << Read(1), Check(U8(0) <= 3, "Corrupt"),
       Read(5 + U32(1)), Check(IsUtf8(key), "Corrupt"), Check(0 \notin Range(key), "Corrupt"),
       Read(9 + U32(1)), Read(XattrLen) >>

ReadXattr ==
    /\ MoreItems
    /\ Accept("xattrs", XattrChecks, XattrLen)
    /\ Turned
    /\ inode' = [inode EXCEPT !.xattrs =
           Append(@, [namespace |-> U8(0), key |-> key, value |-> Bytes(9 + U32(1), value_len)])]
    /\ UNCHANGED <<inodes_left, inodes, inode_flags>>

-----------------------------------------------------------------------------
\* _parse_content_handle

FileType == file_type(inode.mode)
HasSliceMap == FileType = S_IFREG /\ ~HasInlineData(inode_flags)

ContentChecks ==
    CASE HasSliceMap -> << Read(4) >>
      [] FileType = S_IFREG /\ ~HasSliceMap ->
           << Read(4), Check(U32(0) <= DEFAULT_INLINE_DATA_MAX_BYTES, "Corrupt"), Read(4 + U32(0)) >>
      [] FileType = S_IFDIR -> << Read(32) >>
      [] FileType = S_IFLNK -> << Read(4), Read(4 + U32(0)), Check(IsUtf8(Bytes(4, U32(0))), "Corrupt") >>
      [] FileType \in DeviceTypes \cup PipeTypes -> << Read(8) >>
      [] OTHER -> << Check(FALSE, "Corrupt") >>

\* The content of an inode without a slice map, and the bytes it takes.
Content ==
    CASE FileType = S_IFREG -> [kind |-> "INLINE_DATA", value |-> Bytes(4, U32(0))]
      [] FileType = S_IFDIR -> [kind |-> "DIRECTORY", value |-> Bytes(0, 32)]
      [] FileType = S_IFLNK -> [kind |-> "SYMLINK", value |-> Bytes(4, U32(0))]
      [] FileType \in DeviceTypes -> [kind |-> "DEVICE", value |-> Bytes(0, 8)]
      [] FileType \in PipeTypes -> [kind |-> "PIPE", value |-> Bytes(0, 8)]

ContentLen ==
    CASE FileType \in {S_IFREG, S_IFLNK} -> 4 + U32(0)
      [] FileType = S_IFDIR -> 32
      [] OTHER -> 8

\* parse_inode returns i.
InodeDone(i) ==
    /\ inodes' = Append(inodes, i)
    /\ inodes_left' = inodes_left - 1
    /\ step' = "inodes"
    /\ left' = 0
    /\ UNCHANGED <<inode, inode_flags>>

WithContent(c) == [inode EXCEPT !.content_handle = c]

ReadContent ==
    /\ ~MoreItems
    /\ ~HasSliceMap
    /\ Accept("xattrs", ContentChecks, ContentLen)
    /\ InodeDone(WithContent(Content))

BeginSlices ==
    /\ ~MoreItems
    /\ HasSliceMap
    /\ Accept("xattrs", ContentChecks, 4)
    /\ step' = "slices"
    /\ left' = U32(0)
    /\ inode' = WithContent([kind |-> "SLICE_MAP", value |-> <<>>])
    /\ UNCHANGED <<inodes_left, inodes, inode_flags>>

-----------------------------------------------------------------------------
\* One slice: file_byte_start, file_byte_end, drop_id, drop_byte_start, drop_byte_len.

SLICE_LEN == 56

\* Mutant: the first byte decides, as it would in a big-endian integer.
BelowFromFirstByte(a, b) ==
    \E i \in DOMAIN a \cap DOMAIN b :
        a[i] < b[i] /\ \A j \in DOMAIN a \cap DOMAIN b : j < i => a[j] = b[j]

\* The order of integers that are little-endian bytes.
Below(a, b) ==
    \E i \in DOMAIN a \cap DOMAIN b :
        a[i] < b[i] /\ \A j \in DOMAIN a \cap DOMAIN b : j > i => a[j] = b[j]

\* Mutant: a slice may end where it starts.
SliceChecksEmptySlice ==
    << Read(16), Check(~Below(Bytes(8, 8), Bytes(0, 8)), "Corrupt"), Read(SLICE_LEN) >>

SliceChecks == << Read(16), Check(Below(Bytes(0, 8), Bytes(8, 8)), "Corrupt"), Read(SLICE_LEN) >>

ReadSlice ==
    /\ MoreItems
    /\ Accept("slices", SliceChecks, SLICE_LEN)
    /\ Turned
    /\ inode' = [inode EXCEPT !.content_handle.value =
           Append(@, [file_byte_start |-> Bytes(0, 8), file_byte_end |-> Bytes(8, 8),
                      drop_id |-> Bytes(16, 32), drop_byte_start |-> Bytes(48, 4),
                      drop_byte_len |-> Bytes(52, 4)])]
    /\ UNCHANGED <<inodes_left, inodes, inode_flags>>

SlicesEnd ==
    /\ At("slices")
    /\ ~MoreItems
    /\ InodeDone(inode)
    /\ UNCHANGED <<buf, position, status>>

RejectInode ==
    /\ \/ inodes_left > 0 /\ Reject("inodes", InodeHeadChecks)
       \/ MoreItems /\ Reject("xattrs", XattrChecks)
       \/ ~MoreItems /\ Reject("xattrs", ContentChecks)
       \/ MoreItems /\ Reject("slices", SliceChecks)
    /\ UNCHANGED <<inodes_left, inodes, inode, inode_flags>>

InodeStep ==
    RejectInode \/ ReadInodeHead \/ ReadXattr \/ ReadContent \/ BeginSlices \/ ReadSlice \/ SlicesEnd
=============================================================================
