----------------------------- MODULE MCMetadata -----------------------------
(***************************************************************************)
(* Small images for TLC.  The layout has its real widths; inline data may  *)
(* have two bytes.                                                         *)
(***************************************************************************)
EXTENDS MetadataImage

MCInlineDataMax == 2      \* DEFAULT_INLINE_DATA_MAX_BYTES

EAcute == <<195, 169>>
Repeat(b, n) == [i \in 1..n |-> b]

\* A digest that differs for the directory nodes of this instance: 31 sums of
\* every 31st byte with odd weights, and the length.
Weight(j) == 2 * ((j - 1) \div 31) + 1
MCDigestBytes(h) ==
    LET len == Len(h.blake3)
        weighed == [j \in 1..len |-> Weight(j) * h.blake3[j]]
    IN  [i \in 1..32 |->
            IF i = 32 THEN len % 256
            ELSE SumFunctionOnSet(weighed, {i + 31 * k : k \in 0..((len - i) \div 31)}) % 256]

Number(n) == <<n, 0, 0, 0, 0, 0, 0, 1>>
Child(letters, n, type) == [name |-> letters, inode_number |-> Number(n), entry_type |-> type]

MakeInode(n, type, kind, value) ==
    [number |-> Number(n), mode |-> <<1, 16 * type + 1, 0, 0>>, uid |-> Repeat(2, 4), gid |-> Repeat(3, 4),
     mtime_ns |-> Repeat(4, 8), ctime_ns |-> Repeat(5, 8), nlink |-> <<1, 0, 0, 0>>,
     atime_ns |-> <<>>, xattrs |-> <<>>, content_handle |-> [kind |-> kind, value |-> value]]

Inline(n, bytes) == MakeInode(n, S_IFREG, "INLINE_DATA", bytes)
Link(n, target) == MakeInode(n, S_IFLNK, "SYMLINK", target)
Xattr(namespace, k, v) == [namespace |-> namespace, key |-> k, value |-> v]
Slice(start, end) ==
    [file_byte_start |-> start, file_byte_end |-> end, drop_id |-> Repeat(7, 32),
     drop_byte_start |-> Repeat(0, 4), drop_byte_len |-> Repeat(1, 4)]
FromTo(a, b) == Slice(<<a, 0, 1, 0, 0, 0, 0, 0>>, <<b, 0, 1, 0, 0, 0, 0, 0>>)

-----------------------------------------------------------------------------
\* A file, a directory and a link below the root; a root alone; a chain of
\* directories; two directories with the same entries, hence one node.
MCSomeTrees ==
    {[root |-> Number(1),
      dirs |-> Number(1) :> <<Child(<<97>>, 2, 1), Child(<<97, 98>>, 3, 2), Child(EAcute, 4, 3)>>
               @@ Number(3) :> <<>>,
      leaves |-> <<Inline(2, <<>>), Link(4, <<97>>)>>],
     [root |-> Number(9), dirs |-> Number(9) :> <<>>, leaves |-> <<>>],
     [root |-> Number(3),
      dirs |-> Number(3) :> <<Child(<<98>>, 2, 2)>> @@ Number(2) :> <<Child(<<98>>, 1, 2)>>
               @@ Number(1) :> <<Child(<<98>>, 7, 1)>>,
      leaves |-> <<Inline(7, <<1, 2>>)>>],
     [root |-> Number(1),
      dirs |-> Number(1) :> <<Child(<<97>>, 2, 2), Child(<<98>>, 3, 2)>>
               @@ Number(2) :> <<Child(<<120>>, 4, 1)>> @@ Number(3) :> <<Child(<<120>>, 4, 1)>>,
      leaves |-> <<MakeInode(4, S_IFREG, "SLICE_MAP", <<FromTo(0, 9)>>)>>]}

\* A tree whose root has an entry for the root itself.
MCSelfNamedRoot ==
    {[root |-> Number(1), dirs |-> Number(1) :> <<Child(<<97>>, 1, 2), Child(<<98>>, 2, 1)>>,
      leaves |-> <<Inline(2, <<>>)>>]}

Attributed == [Inline(1, <<8>>) EXCEPT !.atime_ns = Repeat(6, 8),
                 !.xattrs = <<Xattr(3, EAcute, <<0>>), Xattr(0, <<>>, <<>>)>>]
Sliced == MakeInode(2, S_IFREG, "SLICE_MAP", <<FromTo(0, 1), Slice(<<9, 0, 0, 0, 0, 0, 0, 0>>, <<0, 1, 0, 0, 0, 0, 0, 0>>)>>)

InodesToWrite ==
    {Attributed, Sliced, [Sliced EXCEPT !.atime_ns = Repeat(0, 8)]}
    \cup {Inline(1, Repeat(5, n)) : n \in 0..3}
    \cup {[Sliced EXCEPT !.content_handle.value = s] :
            s \in {<<>>, <<FromTo(3, 3)>>, <<FromTo(4, 3)>>, <<FromTo(0, 1), FromTo(1, 1)>>}}
    \cup {[Attributed EXCEPT !.xattrs = <<x>>] :
            x \in {Xattr(4, <<97>>, <<>>), Xattr(1, <<97, 0>>, <<>>), Xattr(2, <<169>>, <<1>>)}}
    \cup {Link(1, target) : target \in {<<>>, EAcute, <<0>>, <<195>>}}
    \cup {MakeInode(1, type, "DEVICE", Repeat(1, 8)) : type \in {0, 2, 3, 6, 14}}
    \cup {MakeInode(1, type, "PIPE", Repeat(2, 8)) : type \in {1, 12, 15}}

NodesToWrite ==
    {<<>>}
    \cup {<<Child(letters, 1, 1)>> :
            letters \in {<<>>, <<SLASH>>, <<97, 0>>, <<195>>, <<97, SLASH, 98>>, <<46>>, <<255, 97>>}}
    \cup {<<Child(<<97>>, 1, type)>> : type \in 0..5}
    \cup {<<Child(a, 1, 1), Child(b, 1, 1)>> :
            a, b \in {<<97>>, <<97, 98>>, <<122>>, EAcute}}

RichImage ==
    [inodes |-> <<Attributed, Sliced, Link(3, EAcute), MakeInode(4, S_IFDIR, "DIRECTORY", Repeat(9, 32))>>,
     dir_nodes |-> <<<<Child(<<97>>, 1, 1), Child(EAcute, 3, 3)>>, <<>>>>]
MCSomeImages ==
    {RichImage, [inodes |-> <<>>, dir_nodes |-> <<>>]}
    \cup {[inodes |-> <<i>>, dir_nodes |-> <<<<>>>>] : i \in InodesToWrite}
    \cup {[inodes |-> <<Inline(1, <<>>)>>, dir_nodes |-> <<n, <<>>>>] : n \in NodesToWrite}

-----------------------------------------------------------------------------
\* What arrives: written blobs, continued, cut short or with a byte changed.
MCFaultValues == {0, 1, 2, 3, 4, 16, 47, 128, 255}
Changed(bytes) == {[bytes EXCEPT ![i] = b] : i \in DOMAIN bytes, b \in MCFaultValues}

WrittenBytes == {w.bytes : w \in Written}
AllBlobs ==
    WrittenBytes \cup {b \o <<1, 0, 0, 0>> : b \in WrittenBytes}
                 \cup Prefixes(EncodeBlob(RichImage)) \cup Changed(EncodeBlob(RichImage))

MCImages == MCSomeImages
MCTrees == MCSomeTrees
MCBlobs == AllBlobs
MCSelfTrees == MCSelfNamedRoot
MCSelfBlobs == WrittenBytes
=============================================================================
