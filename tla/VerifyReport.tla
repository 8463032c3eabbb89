---------------------------- MODULE VerifyReport ----------------------------
(***************************************************************************)
(* What the report of verify says of an image: the writer of the metadata, *)
(* the builder of the manifest and the two parsers put together.           *)
(***************************************************************************)
EXTENDS Verify, ManifestIdentity

CONSTANTS
    Trees,          \* directory trees, as MetadataImage has them
    BadBlobs,       \* bytes that are no metadata blob
    PlainSpec       \* the ManifestSpec all images are built from

Image == INSTANCE MetadataImage WITH
    Images <- {}, Blobs <- {}, buf <- blob_buf, position <- blob_position, status <- blob_status,
    step <- blob_step, left <- blob_left, inodes_left <- blob_inodes_left,
    inodes <- blob_inodes, inode <- blob_inode, inode_flags <- blob_inode_flags,
    nodes_left <- blob_nodes_left, dir_nodes <- blob_dir_nodes, entries <- blob_entries

SpecInlining(blob) ==
    [PlainSpec EXCEPT !.metadata_reference = [kind |-> "inlined", metadata |-> blob]]
Inlining(blob) == Build(SpecInlining(blob))

\* The metadata aside, every image is a manifest of the widths of its fields that
\* keeps the rules, written from a history.
ImageBlobs == BadBlobs \cup {w.bytes : w \in Image!WrittenTrees}
ASSUME ImagesAssumption ==
    \A blob \in ImageBlobs :
        /\ WrittenSpec(SpecInlining(blob))
        /\ Valid(ManifestOf(SpecInlining(blob)))

\* The images that are written: a tree in a blob, the blob in a manifest.
WrittenImages ==
    {[tree |-> w.tree, bytes |-> Inlining(w.bytes).bytes, root |-> Inlining(w.bytes).merkle_root] :
        w \in Image!WrittenTrees}

\* Manifests that are fine, around metadata that is not.
BrokenImages ==
    {[bytes |-> Inlining(b).bytes, root |-> Inlining(b).merkle_root] : b \in BadBlobs}

ExternalImages ==
    {[bytes |-> Build(s).bytes, root |-> Build(s).merkle_root] :
        s \in {t \in Specs : t.metadata_reference.kind = "external" /\ Valid(ManifestOf(t))}}

AnyImage == {[bytes |-> i.bytes, root |-> i.root] : i \in WrittenImages} \cup BrokenImages \cup ExternalImages

-----------------------------------------------------------------------------
InodesIn(tree) ==
    Range(tree.leaves) \cup {Image!DirectoryInode(n, tree.dirs[n]) : n \in DOMAIN tree.dirs}
NodesIn(tree) == {tree.dirs[n] : n \in DOMAIN tree.dirs}

\* rows lists what the members of set are reported as, none of them before an earlier one.
ListsInOrder(rows, set, RowOf(_), Before(_, _)) ==
    /\ Len(rows) = Cardinality(set)
    /\ \A x \in set : Cardinality({i \in DOMAIN rows : rows[i] = RowOf(x)})
                        = Cardinality({y \in set : RowOf(y) = RowOf(x)})
    /\ \A i, j \in DOMAIN rows : i < j => ~Before(rows[j], rows[i])

\* A written image is reported as it is: its root, the number of its inodes and
\* directory nodes, its root directory, and the rows of the two lists in the order
\* of their keys, in whatever order the blob has them (metadata.py:23-25).  Two
\* readers print the same for one tree, which is what the report is for.
ReportIsOfImage ==
    exit_code = 0 =>
        \A i \in WrittenImages : IsPrefix(i.bytes, buf) =>
            /\ report.merkle_root = i.root
            /\ report.summary # <<>>
            /\ LET summary == report.summary[1]
               IN  /\ summary.metadata_inode_count = Cardinality(InodesIn(i.tree))
                   /\ summary.metadata_dir_node_count = Cardinality(NodesIn(i.tree))
                   /\ summary.metadata_root_inode = i.tree.root
                   /\ ListsInOrder(summary.metadata_inodes, InodesIn(i.tree), InodeRow,
                                   LAMBDA a, b : Image!LessThan(a.number, b.number))
                   /\ ListsInOrder(summary.metadata_dir_nodes, NodesIn(i.tree), NodeRow, NodeRowBefore)

\* _read_file raised: no parser was called, none has refused the file.
NotRead == status = "parsing" /\ position = 0

\* Metadata that cannot be parsed does not touch the verdict on the manifest, its
\* root or the rest of the report; nothing of it is in the report, however far
\* its parser had come.
BadBlobOnlyLosesSummary ==
    exit_code # NOT_RETURNED /\ ~NotRead =>
        \A i \in BrokenImages : buf = i.bytes =>
            /\ exit_code = 0
            /\ report.merkle_root = i.root
            /\ report.metadata_inlined
            /\ report.summary = <<>>

\* The verdict is on the bytes that were read: a file that holds a good manifest is
\* refused only if it could not be read, and one with a part of it always is.
VerdictIsOnManifest ==
    exit_code # NOT_RETURNED =>
        /\ \A i \in AnyImage : IsPrefix(i.bytes, buf) /\ exit_code = 1 => NotRead
        /\ exit_code = 0 => ~\E i \in AnyImage : IsStrictPrefix(buf, i.bytes)

\* verify returns, whatever the metadata announces to contain.
VerifyReturns == <>(~Running)
=============================================================================
