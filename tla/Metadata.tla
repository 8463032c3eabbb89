------------------------------ MODULE Metadata ------------------------------
(***************************************************************************)
(* limnifs/metadata.py: parse_metadata_blob, which reads every inode and   *)
(* then every directory node of an image, and the lookups of the blob it   *)
(* returns.                                                                *)
(***************************************************************************)
EXTENDS Inode, DirectoryNode, Merkle

CONSTANT Blobs       \* the bytes parse_metadata_blob may be given

ASSUME BlobsAssumption ==
    \A b \in Blobs : b \in Seq(U8Values) /\ Len(b) < TOO_LARGE

loopVars == <<buf, position, status, step, left>>
inodeVars == <<inodes_left, inodes, inode, inode_flags>>
nodeVars == <<nodes_left, dir_nodes, entries>>
vars == <<loopVars, inodeVars, nodeVars>>

\* Before the first call of parse_inode.
NoInode == [number |-> <<>>, mode |-> <<0, 0, 0, 0>>]

\* A call of parse_metadata_blob on the bytes b.
Start(b) ==
    /\ buf = b
    /\ position = 0
    /\ status = "parsing"
    /\ step = "inode_count"
    /\ left = 0
    /\ inodes_left = 0
    /\ inodes = <<>>
    /\ inode = NoInode
    /\ inode_flags = 0
    /\ nodes_left = 0
    /\ dir_nodes = <<>>
    /\ entries = <<>>

Init == \E b \in Blobs : Start(b)

ReadInodeCount ==
    /\ Accept("inode_count", << Read(4) >>, 4)
    /\ step' = "inodes"
    /\ inodes_left' = U32(0)
    /\ UNCHANGED <<left, inodes, inode, inode_flags, nodeVars>>

ReadNodeCount ==
    /\ inodes_left = 0
    /\ Accept("inodes", << Read(4) >>, 4)
    /\ step' = "dir_nodes"
    /\ nodes_left' = U32(0)
    /\ UNCHANGED <<left, dir_nodes, entries, inodeVars>>

RejectCount ==
    /\ Reject("inode_count", << Read(4) >>) \/ (inodes_left = 0 /\ Reject("inodes", << Read(4) >>))
    /\ UNCHANGED <<inodeVars, nodeVars>>

BlobParsed ==
    /\ At("dir_nodes")
    /\ nodes_left = 0
    /\ status' = "parsed"
    /\ UNCHANGED <<buf, position, step, left, inodeVars, nodeVars>>

Step ==
    \/ ReadInodeCount
    \/ ReadNodeCount
    \/ RejectCount
    \/ InodeStep /\ UNCHANGED nodeVars
    \/ NodeStep /\ UNCHANGED inodeVars
    \/ BlobParsed

\* parse_metadata_blob has returned or raised.
Finished == status # "parsing" /\ UNCHANGED vars

Next == Step \/ Finished

Spec == Init /\ [][Next]_vars

-----------------------------------------------------------------------------
\* MetadataBlob

\* A lookup answers with the first that matches; None is <<>>.
inode_by_number(number) ==
    LET i == SelectInSeq(inodes, LAMBDA each : each.number = number)
    IN  IF i = 0 THEN <<>> ELSE inodes[i]

\* struct.pack of a count below 2^24.
Pack32(n) == <<n % 256, (n \div 256) % 256, n \div 65536, 0>>

EncodeEntry(e) == Pack32(Len(e.name)) \o e.name \o e.inode_number \o <<e.entry_type>>

\* The bytes dir_node_hash hashes.
EncodeNode(node) ==
    <<1>> \o Pack32(Len(node)) \o FlattenSeq([i \in DOMAIN node |-> EncodeEntry(node[i])])

dir_node_hash(node) == DigestBytes(hash_section(EncodeNode(node)))

dir_node_by_hash(hash) ==
    LET i == SelectInSeq(dir_nodes, LAMBDA each : dir_node_hash(each) = hash)
    IN  IF i = 0 THEN <<>> ELSE <<dir_nodes[i]>>

\* Mutant: only the first entry of each node counts.
referenced_first ==
    {dir_nodes[i][1].inode_number : i \in {n \in DOMAIN dir_nodes : dir_nodes[n] # <<>>}}

referenced ==
    UNION {{dir_nodes[i][j].inode_number : j \in DOMAIN dir_nodes[i]} : i \in DOMAIN dir_nodes}

candidates == SelectSeq(inodes, LAMBDA i : is_directory(i) /\ i.number \notin referenced)

\* No root (None) is <<>>.
root_inode_number == IF Len(candidates) = 1 THEN candidates[1].number ELSE <<>>
=============================================================================
