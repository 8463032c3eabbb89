---------------------------- MODULE DeltaLinkage ----------------------------
(***************************************************************************)
(* limnifs/delta_linkage.py: parse_delta_linkage_section.  Nothing in the  *)
(* repository calls it and nothing writes the section; EncodeDelta writes  *)
(* it as the parser documents it.                                          *)
(***************************************************************************)
EXTENDS ParserLoop, Utf8, Identifiers

CONSTANTS
    Deltas,       \* DeltaLinkages that are written, broken ones included
    Buffers       \* the bytes the parser may be given

ASSUME BuffersAssumption ==
    \A b \in Buffers : b \in Seq(U8Values) /\ Len(b) < TOO_LARGE

DELTA_LINKAGE_SECTION_VERSION == 1
MIN_TREE_OP_LEN == 6
ADD == 1
REMOVE == 2
REPLACE == 3
TreeOpKinds == {ADD, REMOVE, REPLACE}
has_inode_number(kind) == kind # REMOVE
SLASH == 47

\* What is written has the widths of the section, whatever its kinds and paths.
ASSUME DeltasAssumption ==
    \A d \in Deltas :
        /\ d \in [base_root : Seq(U8Values),
                 tree_ops : Seq([kind : U8Values, path : Seq(U8Values), inode_number : Seq(U8Values)])]
        /\ Len(d.base_root) = 32
        /\ Len(d.tree_ops) < TOO_LARGE
        /\ \A i \in DOMAIN d.tree_ops :
             /\ Len(d.tree_ops[i].path) < TOO_LARGE
             /\ Len(d.tree_ops[i].inode_number) = IF has_inode_number(d.tree_ops[i].kind) THEN 8 ELSE 0

VARIABLES
    base_root,      \* DeltaLinkage.base_root
    tree_ops        \* DeltaLinkage.tree_ops; no inode_number (None) is <<>>

vars == <<buf, position, status, step, left, base_root, tree_ops>>

Init ==
    /\ buf \in Buffers
    /\ position = 0
    /\ status = "parsing"
    /\ step = "head"
    /\ left = 0
    /\ base_root = <<>>
    /\ tree_ops = <<>>

\* Mutant: the minimum is the width of an op that has an inode number.
DeltaHeadChecksForLongOps ==
    << Read(1), Check(U8(0) = DELTA_LINKAGE_SECTION_VERSION, "Unsupported"),
       Read(37), Check(remaining_len - 37 >= U32(33) * 14, "Truncated") >>

DeltaHeadChecks ==
    << Read(1), Check(U8(0) = DELTA_LINKAGE_SECTION_VERSION, "Unsupported"),
       Read(37), Check(remaining_len - 37 >= U32(33) * MIN_TREE_OP_LEN, "Truncated") >>

ReadDeltaHead ==
    /\ Accept("head", DeltaHeadChecks, 37)
    /\ step' = "ops"
    /\ left' = U32(33)
    /\ base_root' = Bytes(1, 32)
    /\ UNCHANGED tree_ops

\* An op is op_type, path_len, path and, unless it removes, an inode number.
path == Bytes(5, U32(1))
InodeNumberLen == IF has_inode_number(U8(0)) THEN 8 ELSE 0
OpLen == 5 + U32(1) + InodeNumberLen

HasEmptyComponent(p) == \E i \in 1..(Len(p) - 1) : p[i] = SLASH /\ p[i + 1] = SLASH

\* Mutant: the path is looked at before all of it has been read.
OpChecksDecodingEarly ==
    << Read(1), Check(U8(0) \in TreeOpKinds, "Unsupported"),
       Read(5), Check(U32(1) # 0, "Corrupt"),
       Check(IsUtf8(path), "Corrupt"), Check(0 \notin Range(path), "Corrupt"),
       Check(~HasEmptyComponent(path), "Corrupt"), Read(5 + U32(1)),
       Read(OpLen) >>

\* Mutant: an op of a kind from a later version is taken for a REPLACE.
OpChecksAnyKind ==
    << Read(5), Check(U32(1) # 0, "Corrupt"),
       Read(5 + U32(1)), Check(IsUtf8(path), "Corrupt"), Check(0 \notin Range(path), "Corrupt"),
       Check(~HasEmptyComponent(path), "Corrupt"),
       Read(OpLen) >>

\* The op type 0xFF and every unknown one are unsupported alike.
OpChecks ==
    << Read(1), Check(U8(0) \in TreeOpKinds, "Unsupported"),
       Read(5), Check(U32(1) # 0, "Corrupt"),
       Read(5 + U32(1)), Check(IsUtf8(path), "Corrupt"), Check(0 \notin Range(path), "Corrupt"),
       Check(~HasEmptyComponent(path), "Corrupt"),
       Read(OpLen) >>

ReadOp ==
    /\ MoreItems
    /\ Accept("ops", OpChecks, OpLen)
    /\ Turned
    /\ tree_ops' = Append(tree_ops, [kind |-> U8(0), path |-> path,
                                     inode_number |-> Bytes(5 + U32(1), InodeNumberLen)])
    /\ UNCHANGED base_root

DeltaParsed ==
    /\ At("ops")
    /\ ~MoreItems
    /\ status' = "parsed"
    /\ UNCHANGED <<buf, position, step, left, base_root, tree_ops>>

RejectDelta ==
    /\ Reject("head", DeltaHeadChecks) \/ (MoreItems /\ Reject("ops", OpChecks))
    /\ UNCHANGED <<base_root, tree_ops>>

Step == ReadDeltaHead \/ ReadOp \/ DeltaParsed \/ RejectDelta

\* parse_delta_linkage_section has returned or raised.
Finished == status # "parsing" /\ UNCHANGED vars

Next == Step \/ Finished

Spec == Init /\ [][Next]_vars

-----------------------------------------------------------------------------
\* A delta linkage as a value: [base_root, tree_ops].

Pack32(n) == <<n % 256, (n \div 256) % 256, n \div 65536, 0>>

EncodeOp(op) == <<op.kind>> \o Pack32(Len(op.path)) \o op.path \o op.inode_number

EncodeDelta(d) ==
    <<DELTA_LINKAGE_SECTION_VERSION>> \o d.base_root \o Pack32(Len(d.tree_ops))
          \o FlattenSeq([i \in DOMAIN d.tree_ops |-> EncodeOp(d.tree_ops[i])])

ValidOp(op) ==
    /\ op.kind \in TreeOpKinds
    /\ op.path # <<>>
    /\ IsUtf8(op.path)
    /\ 0 \notin Range(op.path)
    /\ ~\E i \in 2..Len(op.path) : {op.path[i - 1], op.path[i]} = {SLASH}

Written ==
    {[delta |-> d, valid |-> \A i \in DOMAIN d.tree_ops : ValidOp(d.tree_ops[i]),
      bytes |-> EncodeDelta(d)] : d \in Deltas}

\* A valid delta linkage, on its own or followed by other bytes, reads back as
\* written: ops of two widths on one count, the shortest possible op included.
DeltaReadsBack ==
    status # "parsing" =>
        \A w \in Written : w.valid /\ IsPrefix(w.bytes, buf) =>
            /\ status = "parsed"
            /\ [base_root |-> base_root, tree_ops |-> tree_ops] = w.delta
            /\ position = Len(w.bytes)

\* The parsed ops are valid, and their encoding is the bytes that were read: an op
\* of a kind this version does not know, or with a path it does not allow, is
\* never taken for another.
OnlyValidDeltasParsed ==
    status = "parsed" =>
        /\ \A i \in DOMAIN tree_ops : ValidOp(tree_ops[i])
        /\ SubSeq(buf, 1, position) = EncodeDelta([base_root |-> base_root, tree_ops |-> tree_ops])

\* A parent image is named by the text of its root (str of a ManifestRoot), which
\* is no multiple of base32's five bits long: the text leads back to the 32 bytes,
\* so no two roots share one, and no shorter piece of it names anything.
RootTextNamesRoot ==
    status = "parsed" =>
        LET text == to_text(base_root)
        IN  /\ parse_text(text) = base_root
            /\ \A n \in 0..(Len(text) - 1) : parse_text(SubSeq(text, 1, n)) = NOT_AN_ID

\* A valid delta linkage cut short anywhere is "Truncated", whether the check before
\* the loop or a read of the loop notices.
DeltaPrefixIsTruncated ==
    status \notin {"parsing", "Truncated"} =>
        ~\E w \in Written : w.valid /\ IsStrictPrefix(buf, w.bytes)
=============================================================================
