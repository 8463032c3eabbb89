------------------------------ MODULE MCDelta ------------------------------
(***************************************************************************)
(* Small delta linkages for TLC, with the real widths.                     *)
(***************************************************************************)
EXTENDS DeltaLinkage

Repeat(b, n) == [i \in 1..n |-> b]
EAcute == <<195, 169>>

Op(kind, p) ==
    [kind |-> kind, path |-> p,
     inode_number |-> IF kind = REMOVE THEN <<>> ELSE <<5, 0, 0, 0, 0, 0, 0, 1>>]

\* "a", "/a", "a/b", "a/", an accented letter; then those that are refused.
GoodPaths == {<<97>>, <<47, 97>>, <<97, 47, 98>>, <<97, 47>>, EAcute}
BadPaths == {<<>>, <<47, 47>>, <<97, 47, 47, 98>>, <<97, 0>>, <<0>>, <<195>>, <<97, 47, 47>>}

OpLists ==
    {<<>>, <<Op(REMOVE, <<97>>)>>, <<Op(REMOVE, <<97>>), Op(REMOVE, <<98>>)>>,
     <<Op(REPLACE, EAcute), Op(ADD, <<97, 47, 98>>), Op(REMOVE, <<97>>)>>}
    \cup {<<Op(kind, p)>> : kind \in {0, ADD, REMOVE, REPLACE, 4, 255}, p \in GoodPaths}
    \cup {<<Op(ADD, <<97>>), Op(kind, p)>> : kind \in TreeOpKinds, p \in BadPaths}

Linkage(ops) == [base_root |-> Repeat(170, 32), tree_ops |-> ops]
Longest == EncodeDelta(Linkage(<<Op(REPLACE, EAcute), Op(ADD, <<97, 47, 98>>), Op(REMOVE, <<97>>)>>))

\* What arrives: written sections, continued, cut short or with a byte changed.
MCFaultValues == {0, 1, 2, 3, 4, 47, 128, 255}
Changed(bytes) == {[bytes EXCEPT ![i] = b] : i \in DOMAIN bytes, b \in MCFaultValues}

WrittenBytes == {w.bytes : w \in Written}
AllBuffers ==
    WrittenBytes \cup {b \o <<2, 1, 0, 0, 0, 97>> : b \in WrittenBytes}
                 \cup UNION {Prefixes(b) : b \in WrittenBytes} \cup Changed(Longest)

MCDeltas == {Linkage(ops) : ops \in OpLists}
MCBuffers == AllBuffers
=============================================================================
