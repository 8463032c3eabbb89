------------------------------- MODULE Verify -------------------------------
(***************************************************************************)
(* The whole of `limni-py verify` (limnifs/cli.py): _cmd_verify reads the  *)
(* file, _verify_bytes parses the manifest and, when the metadata is in    *)
(* it, the metadata blob too, for a summary in the report.  An error in    *)
(* the manifest is the verdict; an error in the blob is swallowed.         *)
(*                                                                         *)
(* The parser of the blob works on a cursor and locals of its own, the     *)
(* variables blob_*, which Blob calls by the names of Metadata.            *)
(***************************************************************************)
EXTENDS Manifest

CONSTANT DEFAULT_INLINE_DATA_MAX_BYTES

NOT_RETURNED == -1

VARIABLES
    blob_buf, blob_position, blob_status, blob_step, blob_left,
    blob_inodes_left, blob_inodes, blob_inode, blob_inode_flags,
    blob_nodes_left, blob_dir_nodes, blob_entries,
    report,           \* the report _verify_bytes returns, <<>> before
    exit_code         \* what _cmd_verify returns, NOT_RETURNED before

Blob == INSTANCE Metadata WITH
    Blobs <- {}, buf <- blob_buf, position <- blob_position, status <- blob_status,
    step <- blob_step, left <- blob_left, inodes_left <- blob_inodes_left,
    inodes <- blob_inodes, inode <- blob_inode, inode_flags <- blob_inode_flags,
    nodes_left <- blob_nodes_left, dir_nodes <- blob_dir_nodes, entries <- blob_entries

blobItemVars == <<blob_inodes_left, blob_inodes, blob_inode, blob_inode_flags,
                  blob_nodes_left, blob_dir_nodes, blob_entries>>
blobVars == <<blob_buf, blob_position, blob_status, blob_step, blob_left, blobItemVars>>
verifyVars == <<vars, blobVars, report, exit_code>>

VerifyInit ==
    /\ Init
    /\ blob_buf = <<>>
    /\ blob_position = 0
    /\ blob_status = "not called"
    /\ blob_step = "inode_count"
    /\ blob_left = 0
    /\ blob_inodes_left = 0
    /\ blob_inodes = <<>>
    /\ blob_inode = Blob!NoInode
    /\ blob_inode_flags = 0
    /\ blob_nodes_left = 0
    /\ blob_dir_nodes = <<>>
    /\ blob_entries = <<>>
    /\ report = <<>>
    /\ exit_code = NOT_RETURNED

-----------------------------------------------------------------------------
\* _metadata_summary

\* sorted(list, key): items whose keys are equal stay in their order.
Sorted(list, Before(_, _)) ==
    LET Place(i) == Cardinality({j \in DOMAIN list :
                      Before(list[j], list[i]) \/ (j <= i /\ ~Before(list[i], list[j]))})
    IN  [p \in DOMAIN list |-> list[CHOOSE i \in DOMAIN list : Place(i) = p]]

ContentHandleKinds == <<"INLINE_DATA", "SLICE_MAP", "DIRECTORY", "SYMLINK", "DEVICE", "PIPE">>
content_handle_kind_tag(kind) == CHOOSE t \in 1..6 : ContentHandleKinds[t] = kind

InodeRow(i) ==
    [number |-> i.number, mode |-> i.mode, kind |-> content_handle_kind_tag(i.content_handle.kind)]
InodeRowBefore(a, b) == Blob!Below(a.number, b.number)

NodeRow(node) ==
    [entries |-> Len(node), first |-> IF node = <<>> THEN <<>> ELSE node[1].name]
NodeRowBefore(a, b) ==
    a.entries < b.entries \/ (a.entries = b.entries /\ Blob!NameBefore(a.first, b.first))

InodeRows == [i \in DOMAIN blob_inodes |-> InodeRow(blob_inodes[i])]
NodeRows == [i \in DOMAIN blob_dir_nodes |-> NodeRow(blob_dir_nodes[i])]

\* Mutant: the inodes are listed in the order of the blob.
MetadataSummaryInBlobOrder ==
    [metadata_inode_count |-> Len(blob_inodes),
     metadata_dir_node_count |-> Len(blob_dir_nodes),
     metadata_root_inode |-> Blob!root_inode_number,
     metadata_inodes |-> InodeRows,
     metadata_dir_nodes |-> Sorted(NodeRows, NodeRowBefore)]

MetadataSummary ==
    [metadata_inode_count |-> Len(blob_inodes),
     metadata_dir_node_count |-> Len(blob_dir_nodes),
     metadata_root_inode |-> Blob!root_inode_number,
     metadata_inodes |-> Sorted(InodeRows, InodeRowBefore),
     metadata_dir_nodes |-> Sorted(NodeRows, NodeRowBefore)]

-----------------------------------------------------------------------------
\* No inline metadata (None) and inline metadata of no bytes are both <<>>.
IsInlined == metadata_reference.inline_metadata # <<>>

\* The report, with the metadata summary in it or with none.
Report(summary) ==
    [header |-> header,
     feature_flags |-> flags,
     metadata_inlined |-> IsInlined,
     slab_index_entries |-> Len(slab_index),
     history_entries |-> Len(history),
     extra_bytes_after_history |-> extra_bytes_after_history,
     merkle_root |-> MerkleRoot,
     summary |-> summary]

Running == exit_code = NOT_RETURNED

\* _read_file raises OSError.
CannotReadFile ==
    /\ Running
    /\ At("header", "head")
    /\ exit_code' = 1
    /\ UNCHANGED <<vars, blobVars, report>>

ParseManifest == Running /\ Step /\ UNCHANGED <<blobVars, report, exit_code>>

\* Mutant: the handler prints the error and does not return 1.
ManifestErrorOnlyPrinted ==
    /\ Running
    /\ status \in ErrorKinds
    /\ exit_code' = 0
    /\ UNCHANGED <<vars, blobVars, report>>

\* except ParseError of _cmd_verify.
ManifestError ==
    /\ Running
    /\ status \in ErrorKinds
    /\ exit_code' = 1
    /\ UNCHANGED <<vars, blobVars, report>>

BeginSummary ==
    /\ Running
    /\ status = "verified"
    /\ IsInlined
    /\ blob_status = "not called"
    /\ blob_buf' = metadata_reference.inline_metadata
    /\ blob_status' = "parsing"
    /\ UNCHANGED <<vars, blob_position, blob_step, blob_left, blobItemVars, report, exit_code>>

ParseBlob == Running /\ Blob!Step /\ UNCHANGED <<vars, report, exit_code>>

ReportWith(summary) ==
    /\ report' = Report(summary)
    /\ exit_code' = 0
    /\ UNCHANGED <<vars, blobVars>>

ReportWithoutMetadata ==
    Running /\ status = "verified" /\ ~IsInlined /\ ReportWith(<<>>)

ReportSummary == Running /\ blob_status = "parsed" /\ ReportWith(<<MetadataSummary>>)

\* Mutant: the ParseError of the blob is not caught where it is raised, but in
\* _cmd_verify.
BlobErrorEndsVerify ==
    /\ Running
    /\ blob_status \in ErrorKinds
    /\ exit_code' = 1
    /\ UNCHANGED <<vars, blobVars, report>>

\* Mutant: the blob is parsed again.
RetryBlob ==
    /\ Running
    /\ blob_status \in ErrorKinds
    /\ blob_status' = "parsing"
    /\ blob_position' = 0
    /\ blob_step' = "inode_count"
    /\ blob_inodes' = <<>>
    /\ UNCHANGED <<vars, blob_buf, blob_left, blob_inodes_left, blob_inode, blob_inode_flags,
                   blob_nodes_left, blob_dir_nodes, blob_entries, report, exit_code>>

\* except ParseError: pass.
SwallowBlobError == Running /\ blob_status \in ErrorKinds /\ ReportWith(<<>>)

VerifyStep ==
    \/ CannotReadFile
    \/ ParseManifest
    \/ ManifestError
    \/ BeginSummary
    \/ ParseBlob
    \/ ReportWithoutMetadata
    \/ ReportSummary
    \/ SwallowBlobError

VerifyReturned == ~Running /\ UNCHANGED verifyVars

VerifyNext == VerifyStep \/ VerifyReturned

VerifySpec == VerifyInit /\ [][VerifyNext]_verifyVars

\* verify is one call of straight-line code, that of the blob parser included:
\* it keeps running until it returns.
FairVerifySpec == VerifySpec /\ WF_verifyVars(VerifyStep)
=============================================================================
