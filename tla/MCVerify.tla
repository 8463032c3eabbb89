------------------------------ MODULE MCVerify ------------------------------
(***************************************************************************)
(* Small images in small manifests for TLC: the trees and the broken       *)
(* images of MCMetadata, with its digests, in manifests of MCManifest.     *)
(***************************************************************************)
EXTENDS VerifyReport, MCManifest

CONSTANT Nowhere      \* never read: MCMetadata is used for its values alone

MC == INSTANCE MCMetadata WITH
    Images <- {}, Trees <- {}, Blobs <- {}, buf <- Nowhere, position <- Nowhere, status <- Nowhere,
    step <- Nowhere, left <- Nowhere, inodes_left <- Nowhere, inodes <- Nowhere, inode <- Nowhere,
    inode_flags <- Nowhere, nodes_left <- Nowhere, dir_nodes <- Nowhere, entries <- Nowhere

MCImageDigestBytes(h) == MC!MCDigestBytes(h)
MCInlineDataMax == 2      \* DEFAULT_INLINE_DATA_MAX_BYTES
MCBlobMax == 450                           \* DEFAULT_INLINE_METADATA_MAX_BYTES
MCTrees == MC!MCSomeTrees

OneFile == [inodes |-> <<MC!Attributed>>, dir_nodes |-> <<<<MC!Child(<<97>>, 1, 1)>>>>]

\* What is not a blob: those that break a rule, and one cut short.
MCBadBlobs ==
    {MC!EncodeBlob(i) : i \in {j \in MC!MCSomeImages : ~MC!Valid(j)}}
    \cup (Prefixes(MC!EncodeBlob(OneFile)) \ {<<>>, MC!EncodeBlob(OneFile)})

MCPlainSpec == [Spec1 EXCEPT !.feature_flags = <<Flag(7, TRUE)>>]
MCVerifySpecs == {Spec1, [Spec1 EXCEPT !.metadata_reference = External(<<Uri, OtherUri>>)]}

\* Every image, continued with the bytes of another section, and the prefixes of the
\* image that holds an empty root directory.
ImageBytes == {i.bytes : i \in AnyImage}
SmallTree == CHOOSE t \in MC!MCSomeTrees : t.leaves = <<>>
SmallImage ==
    Inlining(MC!EncodeBlob([inodes |-> Image!InodesOf(SmallTree), dir_nodes |-> Image!NodesOf(SmallTree)])).bytes
MCVerifyBuffers ==
    ImageBytes \cup {i.bytes \o <<1, 1, 0, 0>> : i \in WrittenImages} \cup Prefixes(SmallImage)
=============================================================================
