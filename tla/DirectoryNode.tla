--------------------------- MODULE DirectoryNode ---------------------------
(***************************************************************************)
(* limnifs/directory_node.py: parse_directory_node.                        *)
(***************************************************************************)
EXTENDS ParserLoop, Utf8

DIRECTORY_NODE_VERSION == 1
EntryTypes == 1..4          \* EntryType: FILE, DIRECTORY, SYMLINK, SPECIAL
SLASH == 47

VARIABLES
    nodes_left,       \* directory nodes of the blob still to read
    dir_nodes,        \* the entries of each node returned so far
    entries           \* the entries of the node being read

\* Mutant: a node of any version is read as one of version 1.
NodeHeadChecksAnyVersion == << Read(5) >>

NodeHeadChecks ==
    << Read(1), Check(U8(0) = DIRECTORY_NODE_VERSION, "Unsupported"), Read(5) >>

ReadNodeHead ==
    /\ nodes_left > 0
    /\ Accept("dir_nodes", NodeHeadChecks, 5)
    /\ step' = "entries"
    /\ left' = U32(1)
    /\ entries' = <<>>
    /\ UNCHANGED <<nodes_left, dir_nodes>>

\* The order of str, which is by code point: the order of the UTF-8 bytes.
NameBefore(a, b) ==
    \/ IsStrictPrefix(a, b)
    \/ \E i \in DOMAIN a \cap DOMAIN b :
         a[i] < b[i] /\ SubSeq(a, 1, i - 1) = SubSeq(b, 1, i - 1)

\* An entry is name_len, name, inode_number and entry_type.
name == Bytes(4, U32(0))
EntryLen == 13 + U32(0)
entry_type == U8(12 + U32(0))

\* Mutant: two entries may have one name.
EntryChecksRepeatedName ==
    << Read(4 + U32(0)), Check(name # <<>>, "Corrupt"),
       Check(SLASH \notin Range(name), "Corrupt"), Check(0 \notin Range(name), "Corrupt"),
       Check(IsUtf8(name), "Corrupt"),
       Check(entries # <<>> => ~NameBefore(name, Last(entries).name), "Corrupt"),
       Read(EntryLen), Check(entry_type \in EntryTypes, "Corrupt") >>

\* Mutant: the type of an entry is not checked.
EntryChecksAnyType ==
    << Read(4 + U32(0)), Check(name # <<>>, "Corrupt"),
       Check(SLASH \notin Range(name), "Corrupt"), Check(0 \notin Range(name), "Corrupt"),
       Check(IsUtf8(name), "Corrupt"),
       Check(entries # <<>> => NameBefore(Last(entries).name, name), "Corrupt"),
       Read(EntryLen) >>

EntryChecks ==
    << Read(4 + U32(0)), Check(name # <<>>, "Corrupt"),
       Check(SLASH \notin Range(name), "Corrupt"), Check(0 \notin Range(name), "Corrupt"),
       Check(IsUtf8(name), "Corrupt"),
       Check(entries # <<>> => NameBefore(Last(entries).name, name), "Corrupt"),
       Read(EntryLen), Check(entry_type \in EntryTypes, "Corrupt") >>

ReadEntry ==
    /\ MoreItems
    /\ Accept("entries", EntryChecks, EntryLen)
    /\ Turned
    /\ entries' = Append(entries, [name |-> name, inode_number |-> Bytes(4 + U32(0), 8),
                                   entry_type |-> entry_type])
    /\ UNCHANGED <<nodes_left, dir_nodes>>

NodeEnd ==
    /\ At("entries")
    /\ ~MoreItems
    /\ dir_nodes' = Append(dir_nodes, entries)
    /\ nodes_left' = nodes_left - 1
    /\ step' = "dir_nodes"
    /\ UNCHANGED <<buf, position, status, left, entries>>

RejectNode ==
    /\ \/ nodes_left > 0 /\ Reject("dir_nodes", NodeHeadChecks)
       \/ MoreItems /\ Reject("entries", EntryChecks)
    /\ UNCHANGED <<nodes_left, dir_nodes, entries>>

NodeStep == RejectNode \/ ReadNodeHead \/ ReadEntry \/ NodeEnd
=============================================================================
