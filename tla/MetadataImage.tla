--------------------------- MODULE MetadataImage ---------------------------
(***************************************************************************)
(* What a writer of metadata blobs and their reader promise each other.    *)
(* The writer is that of tests/test_metadata.py, the only one there is,    *)
(* completed with the fields its inodes do not have.                       *)
(*                                                                         *)
(* Trees are directory trees; they are written in several orders.  Images  *)
(* are lists of inodes and nodes of any kind, broken ones included.        *)
(***************************************************************************)
EXTENDS Metadata

CONSTANTS
    Images,      \* [inodes, dir_nodes], as a blob has them
    Trees        \* [root, dirs, leaves]: the entries of each directory, the other inodes

-----------------------------------------------------------------------------
\* The writer

EncodeEach(list, Encode(_)) == FlattenSeq([i \in DOMAIN list |-> Encode(list[i])])
EncodeList(list, Encode(_)) == Pack32(Len(list)) \o EncodeEach(list, Encode)
EncodeBytes(bytes) == Pack32(Len(bytes)) \o bytes

EncodeXattr(x) == <<x.namespace>> \o EncodeBytes(x.key) \o EncodeBytes(x.value)

EncodeSlice(s) ==
    s.file_byte_start \o s.file_byte_end \o s.drop_id \o s.drop_byte_start \o s.drop_byte_len

EncodeContent(c) ==
    CASE c.kind \in {"INLINE_DATA", "SYMLINK"} -> EncodeBytes(c.value)
      [] c.kind = "SLICE_MAP" -> EncodeList(c.value, EncodeSlice)
      [] OTHER -> c.value

FlagsOf(i) ==
    (IF i.atime_ns = <<>> THEN 0 ELSE 1) + (IF i.xattrs = <<>> THEN 0 ELSE 2)
      + (IF i.content_handle.kind = "INLINE_DATA" THEN 4 ELSE 0)

EncodeInode(i) ==
    i.number \o i.mode \o i.uid \o i.gid \o i.mtime_ns \o i.ctime_ns \o i.nlink
      \o <<FlagsOf(i)>> \o i.atime_ns
      \o (IF i.xattrs = <<>> THEN <<>> ELSE EncodeList(i.xattrs, EncodeXattr))
      \o EncodeContent(i.content_handle)

EncodeDirEntry(e) == EncodeBytes(e.name) \o e.inode_number \o <<e.entry_type>>
EncodeDirNode(node) == <<1>> \o EncodeList(node, EncodeDirEntry)

EncodeBlob(image) ==
    EncodeList(image.inodes, EncodeInode) \o EncodeList(image.dir_nodes, EncodeDirNode)

\* The inode of a directory with these entries: mode S_IFDIR | 0o755, two links.
DirectoryInode(number, node) ==
    LET zeros(n) == [i \in 1..n |-> 0]
    IN  [number |-> number, mode |-> <<237, 65, 0, 0>>, uid |-> zeros(4), gid |-> zeros(4),
         mtime_ns |-> zeros(8), ctime_ns |-> zeros(8), nlink |-> <<2, 0, 0, 0>>,
         atime_ns |-> <<>>, xattrs |-> <<>>,
         content_handle |-> [kind |-> "DIRECTORY",
                             value |-> DigestBytes(hash_section(EncodeDirNode(node)))]]

\* A tree as an image.  The order of each list is the writer's choice.
InodesOf(tree) ==
    tree.leaves \o SetToSeq({DirectoryInode(n, tree.dirs[n]) : n \in DOMAIN tree.dirs})
NodesOf(tree) == SetToSeq({tree.dirs[n] : n \in DOMAIN tree.dirs})
Orders(list) == {list, Reverse(list), Tail(list) \o <<Head(list)>>}

ImagesOf(tree) ==
    {[inodes |-> i, dir_nodes |-> n] : i \in Orders(InodesOf(tree)), n \in Orders(NodesOf(tree))}

-----------------------------------------------------------------------------
\* The images parse_metadata_blob is to accept.

\* The content handles of a file type.
KindsOf(mode) ==
    CASE file_type(mode) = S_IFREG -> {"INLINE_DATA", "SLICE_MAP"}
      [] file_type(mode) = S_IFDIR -> {"DIRECTORY"}
      [] file_type(mode) = S_IFLNK -> {"SYMLINK"}
      [] file_type(mode) \in DeviceTypes -> {"DEVICE"}
      [] file_type(mode) \in PipeTypes -> {"PIPE"}
      [] OTHER -> {}

\* The greater of two integers that are little-endian bytes is the one with the
\* greater byte in the last place in which they differ.
LessThan(a, b) ==
    LET places == {i \in DOMAIN a : a[i] # b[i]}
    IN  places # {} /\ a[Max(places)] < b[Max(places)]

ValidContent(c) ==
    CASE c.kind = "INLINE_DATA" -> Len(c.value) <= DEFAULT_INLINE_DATA_MAX_BYTES
      [] c.kind = "SYMLINK" -> IsUtf8(c.value)
      [] c.kind = "SLICE_MAP" ->
           \A i \in DOMAIN c.value : LessThan(c.value[i].file_byte_start, c.value[i].file_byte_end)
      [] OTHER -> TRUE

ValidXattr(x) == x.namespace \in 0..3 /\ IsUtf8(x.key) /\ 0 \notin Range(x.key)

ValidInode(i) ==
    /\ i.content_handle.kind \in KindsOf(i.mode)
    /\ ValidContent(i.content_handle)
    /\ \A j \in DOMAIN i.xattrs : ValidXattr(i.xattrs[j])

ValidEntry(e) ==
    /\ e.name # <<>>
    /\ {0, SLASH} \cap Range(e.name) = {}
    /\ IsUtf8(e.name)
    /\ e.entry_type \in EntryTypes

ValidNode(node) ==
    /\ \A i \in DOMAIN node : ValidEntry(node[i])
    /\ \A i, j \in DOMAIN node : i < j => NameBefore(node[i].name, node[j].name)

Valid(image) ==
    /\ \A i \in DOMAIN image.inodes : ValidInode(image.inodes[i])
    /\ \A i \in DOMAIN image.dir_nodes : ValidNode(image.dir_nodes[i])

Written ==
    {[image |-> i, valid |-> Valid(i), bytes |-> EncodeBlob(i)] :
        i \in Images \cup UNION {ImagesOf(t) : t \in Trees}}

WrittenTrees ==
    UNION {{[tree |-> t, bytes |-> EncodeBlob(i)] : i \in ImagesOf(t)} : t \in Trees}

-----------------------------------------------------------------------------
\* What is written has the widths of its fields, and the content of an inode is of
\* the file type of its mode, where that is one that has contents.  Whether it is
\* valid is another matter.

ByteString == Seq(U8Values)
BytesOf(n) == {b \in ByteString : Len(b) = n}

WrittenXattr == [namespace : U8Values, key : ByteString, value : ByteString]

WrittenSlice ==
    [file_byte_start : BytesOf(8), file_byte_end : BytesOf(8), drop_id : BytesOf(32),
     drop_byte_start : BytesOf(4), drop_byte_len : BytesOf(4)]

WrittenContent ==
    [kind : {"INLINE_DATA", "SYMLINK"}, value : ByteString]
    \cup [kind : {"SLICE_MAP"}, value : Seq(WrittenSlice)]
    \cup [kind : {"DIRECTORY"}, value : BytesOf(32)]
    \cup [kind : {"DEVICE", "PIPE"}, value : BytesOf(8)]

OfItsType(i) == KindsOf(i.mode) # {} => i.content_handle.kind \in KindsOf(i.mode)

WrittenInode ==
    {i \in [number : BytesOf(8), mode : BytesOf(4), uid : BytesOf(4), gid : BytesOf(4),
            mtime_ns : BytesOf(8), ctime_ns : BytesOf(8), nlink : BytesOf(4),
            atime_ns : {<<>>} \cup BytesOf(8), xattrs : Seq(WrittenXattr),
            content_handle : WrittenContent] : OfItsType(i)}

WrittenEntry == [name : ByteString, inode_number : BytesOf(8), entry_type : U8Values]

WrittenImage == [inodes : Seq(WrittenInode), dir_nodes : Seq(Seq(WrittenEntry))]

ASSUME WrittenAssumption == \A w \in Written : w.image \in WrittenImage

-----------------------------------------------------------------------------
TypeOK ==
    /\ buf \in Seq(U8Values)
    /\ position \in 0..Len(buf)
    /\ status \in {"parsing", "parsed"} \cup ErrorKinds
    /\ step \in {"inode_count", "inodes", "xattrs", "slices", "dir_nodes", "entries"}
    /\ {left, inodes_left, nodes_left} \subseteq 0..TOO_LARGE
    /\ inode_flags \in 0..7
    /\ \A i \in DOMAIN inodes : inodes[i].content_handle.kind \in KindsOf(inodes[i].mode)
    /\ \A i \in DOMAIN dir_nodes : \A j \in DOMAIN dir_nodes[i] :
         dir_nodes[i][j].entry_type \in EntryTypes

\* A valid blob reads back as what was written, whatever bytes follow it: the
\* variable parts of one inode never shift the next, and the loops end where the
\* counts say.
WrittenBlobReadsBack ==
    status # "parsing" =>
        \A w \in Written : w.valid /\ IsPrefix(w.bytes, buf) =>
            /\ status = "parsed"
            /\ inodes = w.image.inodes
            /\ dir_nodes = w.image.dir_nodes
            /\ position = Len(w.bytes)

\* A blob with an inode, a slice, an attribute or an entry that breaks a rule is
\* refused, not read as another image.
InvalidBlobRefused ==
    status = "parsed" => \A w \in Written : buf = w.bytes => w.valid

\* A valid blob cut short anywhere is "Truncated": no count or length that runs
\* past the end is taken for corruption, and no part of a blob passes for it.
BlobPrefixIsTruncated ==
    status \notin {"parsing", "Truncated"} =>
        ~\E w \in Written : w.valid /\ IsStrictPrefix(buf, w.bytes)

\* Whatever the bytes, an image that is returned keeps every rule: the content of
\* each inode is of its file type, each slice is of some bytes, and the names of
\* each node are in order, any two of them and not only neighbours, so that a
\* node has one entry to a name.
ParsedBlobIsValid == status = "parsed" => Valid([inodes |-> inodes, dir_nodes |-> dir_nodes])

\* dir_node_hash re-encodes a node to find out the hash a directory's inode has
\* of the node's bytes.  Whatever was accepted, the encoding is those bytes:
\* the nodes parsed, encoded again, are what the cursor went over last.
NodeHashIsOfItsBytes ==
    status = "parsed" =>
        IsSuffix(FlattenSeq([i \in DOMAIN dir_nodes |-> EncodeNode(dir_nodes[i])]),
                 SubSeq(buf, 1, position))

\* A reader finds its way through a tree from the blob alone, in whatever order
\* the writer put inodes and nodes (metadata.py:23-25): the root is found, every
\* directory's hash leads to its entries and every number to its inode.
TreeResolves ==
    status = "parsed" =>
        \A w \in WrittenTrees : IsPrefix(w.bytes, buf) =>
            /\ root_inode_number = w.tree.root
            /\ \A n \in DOMAIN w.tree.dirs :
                 dir_node_by_hash(inode_by_number(n).content_handle.value) = <<w.tree.dirs[n]>>
            /\ \A i \in DOMAIN w.tree.leaves :
                 inode_by_number(w.tree.leaves[i].number) = w.tree.leaves[i]

-----------------------------------------------------------------------------
\* metadata.py:61-64: the root is "the unique directory inode whose number is not
\* referenced by any other directory's entries".  In a blob all of whose nodes
\* belong to a directory, the entries of other directories are those of their
\* nodes.  The code also counts the directory's own entries.
NodesOwned ==
    \A n \in DOMAIN dir_nodes : \E i \in DOMAIN inodes :
        is_directory(inodes[i]) /\ inodes[i].content_handle.value = dir_node_hash(dir_nodes[n])

NamedByOther(number) ==
    \E i \in DOMAIN inodes :
        /\ is_directory(inodes[i])
        /\ inodes[i].number # number
        /\ \E node \in Range(dir_node_by_hash(inodes[i].content_handle.value)) :
             \E j \in DOMAIN node : node[j].inode_number = number

RootNotNamedByOthers ==
    status = "parsed" /\ NodesOwned =>
        LET roots == SelectSeq(inodes, LAMBDA i : is_directory(i) /\ ~NamedByOther(i.number))
        IN  root_inode_number = IF Len(roots) = 1 THEN roots[1].number ELSE <<>>
=============================================================================
