# A formal model of limnifs-py

limnifs-py reads and writes the LimniFS image format: a *manifest* (a chain of
sections whose hashes make the image's identity, the ManifestRoot), *slabs*
(containers of compressed content blocks, the *drops*) and a *metadata blob*
(inodes and directories). The library is pure parsing and encoding: one thread,
no stored state, no I/O besides reading the file it is given. What is hard
about it is in the formats. Lengths and counts come from the file. A slab
stores no number of drops, and its parser derives it. A manifest is one byte
string cut into sections by parsers that share a cursor, and whoever moves the
cut by a byte changes what every later section means and what is hashed.

The TLA+ modules model the parsers as state machines that consume a buffer
step by step, and the writers as operators that produce the buffers. Two
abstract specifications say what the parsers are for, a store of drops and a
file cut into sections, and refinement mappings show that they implement them.
TLC checks all of it on small instances, and TLAPS proves the core properties
for every buffer.

## The system

| Component | Code (`src/limnifs/`) | State | Operations | Model |
|---|---|---|---|---|
| errors | `error.py` | | four exceptions; the first failing statement raises | `ParseErrors` |
| cursor | `cursor.py` | `_buf`, `_pos` | `read`, `read_u8/u16/u32`, `remaining_len` | `Cursor` |
| slab reader | `slab_reader.py`, `slab_header.py`, `drop_record.py` | `drop_records`, `_window_start`, `_window_bytes` | `parse_slab`, `find_record`, `plaintext_for` | `SlabReader` |
| codec | `codec.py` | | `decompress`, `compress` | `Codec` (partly) |
| slab writer | `tests/test_slab.py` | | `_make_slab` | `SlabWriter` |
| header | `header.py` | the three versions | `parse_manifest_header` | `Manifest` |
| feature flags | `feature_flags.py` | the flags, in order | parse, `get` | `FeatureFlags` |
| locators | `locator.py` | the locators read so far | `parse_locator_entries` | `Locator`, `Utf8` |
| metadata reference | `metadata_reference.py` | hash, locators, inline bytes | parse | `MetadataReference` |
| slab index | `slab_index.py` | entries with their locators | parse | `SlabIndex` |
| EC params | `ec_params.py` | k, m, overrides | parse | `EcParams` |
| DMS policy | `dms_policy.py` | k, n, shares, hint | parse | `DmsPolicy` |
| history | `history.py` | entries | parse | `History` |
| merkle | `merkle.py` | | `hash_section`, `compute_merkle_root` | `Merkle` |
| verify | `cli.py` | the cursor, the section spans, the report | `_cmd_verify`, `_verify_bytes`, `_metadata_summary` | `Manifest`, `Verify`, `VerifyReport` |
| builder | `builder.py` | | `ManifestBuilder.build` | `ManifestBuilder` |
| identity | builder, section parsers and merkle together | | what they promise one another | `ManifestIdentity`, `ManifestClaims` |
| inode | `inode.py` | the inodes read so far | `parse_inode`, its attributes and content handle | `Inode` |
| directory node | `directory_node.py` | the nodes read so far, the previous name | `parse_directory_node` | `DirectoryNode` |
| metadata blob | `metadata.py` | inodes, directory nodes | `parse_metadata_blob`, `inode_by_number`, `dir_node_by_hash`, `root_inode_number`, `dir_node_hash` | `Metadata`, `MetadataImage` |
| delta linkage | `delta_linkage.py` | the tree ops read so far | a parser with no caller | `DeltaLinkage` |
| identifiers | `format_types.py` | | ids and their text forms | `Identifiers`; `SlabId`, `Representation` as fields |
| exports | `__init__.py` | | | not modelled |

How they interact:

- `_verify_bytes` creates one `Cursor` and passes it to each section parser in
  turn. It notes the position before and after each call; the bytes between are
  what `hash_section` sees. Whether the EC and DMS parsers are called at all
  depends on what the feature-flags parser returned three calls earlier.
- the locator parser is called by the metadata reference (once) and by the slab
  index (once per entry).
- the builder writes the same sections in the same order and computes the root
  from the bytes it wrote; `verify` must arrive at the same root.
- when the metadata is inlined, `_verify_bytes` calls `_metadata_summary` on those
  bytes: a second parser on a cursor of its own, whose result is only reported and
  whose errors are swallowed, while the errors of the sections end the command.
- `parse_metadata_blob` calls `parse_inode` and then `parse_directory_node` as often
  as two counts say, on one cursor. An inode and its directory node are connected
  by a hash of the node, which `dir_node_by_hash` computes from the parsed entries.
- the slab reader calls `decompress` on a range it cut out of the window from a
  record it parsed earlier.

Which behaviours are hard, and what makes each component correct:

| Component | Hard | Correct when |
|---|---|---|
| slab reader | The record count is derived: `while True` reads a record whenever the claimed window lengths leave room for one (`slab_reader.py:92-106`). Records may claim 0 bytes. | A slab laid out drop after drop is opened with exactly its drops; what was written reads back; every read stays in the window; the loop ends and never runs out of buffer |
| codec | The LZ4 block carries a size prefix nobody compares | the plaintext has the recorded length |
| section parsers | Counts of up to 2^32-1 precede any data; a check must come before the loop and not refuse a section that just fits | a count that cannot fit is refused before an entry is read; invalid content is refused, valid content is not |
| verify | Position on a shared cursor decides what is hashed | the root determines every byte from the header to the end of the history, and trailing bytes do not change it |
| builder | Ceilings, flags and sections it does not write itself | what it accepts to build verifies, with its root |
| metadata blob | An inode is as long as its flags and file type say; counts nest two deep and nothing bounds them before the loops; the root is found by elimination, a directory by a re-encoding | what was written reads back; the tree can be walked from the root in whatever order it was written; a rule that is broken is noticed |
| verify's report | Two parsers, whose errors mean different things | the verdict is on the manifest alone; the summary is of the whole tree or not there; the same tree is reported the same |
| delta linkage | Two widths of ops under one count, text of any length | what was written reads back; nothing else is taken for an op |
| identifiers | 256 bits in digits of five | a text leads back to its id |

There is no concurrency, persistence, retry or message passing in this code,
so no hazard of these kinds is listed. The order that matters is that of the
statements: which check runs first decides which error is raised, which counts
are bounded before use, and which bytes end up in which section.

## How the models read

**Parsers as state machines.** A parser is a straight line of reads and checks
with loops over entries. One step of the model is one block between loop
heads: a section's head, one entry, one locator, one drop record. `step` names
where the parser stands ("head", "entries", "locators"), `left` is the `for`
counter, `position` the cursor. Every block is two actions. `Passes(checks)`
guards the one that stores the result; `Reject...` is its counterpart, and
raises the error of the *first* check of the sequence that fails, as the code
does, with nothing else changed. The checks are sequences in the order of the code, in which
`Read(n)` is a read that needs the buffer to reach `n` more bytes, and
`Check(P, error)` an `if` that raises.

**Errors.** `status` says where the parser is, that it is done ("open",
"verified"), or the class of the exception: "Truncated",
"BadMagic", "Corrupt" or "Unsupported". Messages are left out.

**Slabs** (`SlabReader`, `SlabWriter`). Every read of the slab parser is 56
bytes of header or 48 bytes of record, and the loop decides between "another
record" and "the window" by arithmetic on lengths. So a buffer is abstracted
to its length, the header's fields, and what each 48-byte piece after the
header *decodes to* as a record: `slab.record[i]`. A piece of the window that the
parser takes for a record decodes to something, arbitrary in the proofs. LZ4 is
external: `slab.lz4` says which ranges of the window hold LZ4 output and of what.
The properties are about which records are read and which ranges are cut.

**Manifests** (`Manifest` and the section modules). Here the bytes matter, so
buffers are byte sequences with the real field widths, the real magic and the
real reserved bytes. Each section module owns the variable that holds its
result and its actions; `Manifest` composes them, frames each one's actions
with `UNCHANGED` of all the others, and adds the skips of the optional
sections. `ends[s]` is where section `s` ended; its bytes are `SectionBytes(s)`.
A 4-byte integer is exact below `TOO_LARGE` = 2^24 and `TOO_LARGE` above:
buffers and ceilings are assumed shorter, so every comparison in the code comes
out the same, and TLC's 32-bit integers do not overflow in the products.
Timestamps, 8 bytes that are never compared, stay bytes.

**Metadata** (`Inode`, `DirectoryNode`, `Metadata`). Bytes again, with the real
widths. `ParserLoop` is what a parser with nested loops needs: the loop it is in
and the turns left of the innermost. `inodes_left` and `nodes_left` are the counts
of the two outer loops, `left` that of the attributes, slices or entries inside.
A step reads the head of an inode, one attribute, its content, one slice, the head
of a node or one entry. Integers that are only compared for equality or
order stay little-endian bytes (`Below` is their order), so they have all 64 bits.
The lookups are operators on the parsed blob.

**The command** (`Verify`). `_cmd_verify` around both parsers: the file cannot be
read, the manifest parser runs (`Manifest!Step`), its error is the verdict, or
the metadata parser runs on the inlined bytes, and its result or its failure makes the
report. The metadata parser works on variables `blob_*` of its own, and
`Blob == INSTANCE Metadata` calls them by the names of that module. Reading an
error's handler as part of the step that raises would hide that the report is
made after the metadata parser had come part of the way; it is a step of its own.
`report.merkle_root` is the root; how it is printed is `Identifiers!to_text`.

**Hashes.** BLAKE3 is external and symbolic: `hash_section(b)` is a term with
`b` inside, so it is collision-free and nothing more. Where a digest is
embedded in a file (the hash of inlined metadata in the metadata reference),
`DigestBytes` gives its 32 bytes.

**Text.** UTF-8 decoding (`Utf8`) is by its definition (shortest form, no
surrogates). `str.isalpha` and `str.isalnum` are the standard library's; the
characters outside ASCII for which they hold are the constants `UnicodeAlpha`
and `UnicodeAlnum`.

| Module | What it defines | EXTENDS |
|---|---|---|
| `ParseErrors` | sequences of `Check`s, `Passes`, `FirstFailure`, the error classes | |
| `Codec` | codec ids, `decompress` and the length of `compress` | |
| `SlabReader` | the machine of `parse_slab`; `find_record`, `plaintext_for`; the slab's properties | `ParseErrors`, `Codec` |
| `SlabWriter` | `_make_slab`, and the round trip through the reader | `SlabReader` |
| `SlabProofs`, `ManifestProofs`, `ManifestRoundTripProofs`, `VerifyProofs`, `MetadataProofs`, `DeltaProofs` | the theorems | the component, the lemmas below |
| `ParseErrorsProofs`, `BytesProofs` | lemmas: rows of checks, what the reads of a cursor return, what a concatenation is | the module named, `TLAPS` |
| `Cursor` | `buf`, `position`, `Read`, the integers at an offset from the cursor | `ParseErrors` |
| `Sections` | the order of the sections, `Return`, `Reject` | `Cursor` |
| `FeatureFlags` ... `History` | one section parser each | `Sections` (+ `Locator`) |
| `Merkle` | the ten slots of the root | |
| `Manifest` | `_verify_bytes`: the composition | the sections, `Merkle` |
| `ManifestBuilder` | the encoder of each section, `Build` | `Manifest` |
| `ManifestIdentity` | the properties of builder, parsers and root together | `ManifestBuilder` |
| `ManifestClaims` | statements of docs and comments that the code does not keep | `ManifestIdentity` |
| `ParserLoop` | `step`, `left`, `Reject`, `Accept` of a parser with loops | `Cursor` |
| `Inode`, `DirectoryNode` | one parser each | `ParserLoop`, `Utf8` |
| `Metadata` | `parse_metadata_blob`, the composition; the lookups | `Inode`, `DirectoryNode`, `Merkle` |
| `MetadataImage` | the writer of blobs, and the properties of the two together | `Metadata` |
| `Verify` | `limni-py verify` as a whole | `Manifest`; INSTANCE `Metadata` |
| `VerifyReport` | what the report says of an image | `Verify`, `ManifestIdentity`; INSTANCE `MetadataImage` |
| `DeltaLinkage` | the delta linkage parser and its properties | `ParserLoop`, `Utf8`, `Identifiers` |
| `Identifiers` | base32 and the text of ids | |
| `DropStore` | abstract: a write-once map from ids to drops | `ParseErrors` |
| `SectionedFile` | abstract: a file cut into consecutive sections | `ParseErrors` |
| `MCSlab`, `MCManifest`, `MCMetadata`, `MCVerify`, `MCDelta` | the small instances | `SlabWriter`, `ManifestClaims`, `MetadataImage`, `VerifyReport`, `DeltaLinkage` |

**Abstract specifications.** `SlabReader!Store == INSTANCE DropStore WITH ...` maps a slab
to a store whose contents are settled before it is parsed: for a slab laid out with
`n` drops, each id to the range and length of the first record that has it; the
loop over the records is a stutter, its end is `Open`, an exception is `Refuse`,
which an intact store does not have, and every `plaintext_for` is a `Get`.
`Manifest!File == INSTANCE SectionedFile WITH ...` maps the run of the section parsers to
a list of cuts, one for each section that has returned; a head, an entry, a locator are
stutters, and the return of a parser, or the skip of an optional one, is a `Cut`.

## The runs

| Run | Question | Checks |
|---|---|---|
| `slab` | Does the derived boundary come out right, and does every read stay inside? | `TypeOK`, `LaidOutSlabAccepted`, `WrittenSlabReadsBack`, `DropCountDerived`, `TruncatedOnlyInHeader`, `ReadsStayInWindow`, `ParseEnds`, `ImplementsDropStore` |
| `manifest` | Do builder, section parsers and root agree, on good and on disturbed files? | `TypeOK`, `SentManifestVerifies`, `OnlyValidManifestsParsed`, `InvalidManifestRefused`, `PrefixIsTruncated`, `RootIdentifiesBytes`, `EncodingIsCanonical`, `CountCheckedUpFront`, `ImplementsSectionedFile` |
| `metadata` | Does a tree survive the blob, and is a broken blob noticed? | `TypeOK`, `WrittenBlobReadsBack`, `InvalidBlobRefused`, `ParsedBlobIsValid`, `BlobPrefixIsTruncated`, `NodeHashIsOfItsBytes`, `TreeResolves` |
| `verify` | Does the command say of an image what it is, whatever the metadata? | `ReportIsOfImage`, `BadBlobOnlyLosesSummary`, `VerdictIsOnManifest`, `VerifyReturns` |
| `delta` | Are delta linkages read as written, and roots named without ambiguity? | `DeltaReadsBack`, `OnlyValidDeltasParsed`, `DeltaPrefixIsTruncated`, `RootTextNamesRoot` |
| `slab_overflow_check`, `claim_*` | Does the code do what this sentence of its docs says? | one claim each, violated: see *Findings* |

**Bounds of `slab`.** Header and record have their real widths, 56 and 48. The
drop limit is 50, the slab limit 400 and U32_MAX 120, so each is reached,
met exactly and crossed. Written slabs hold up to three drops of length 0, 1,
48 (exactly a record: the boundary could be mistaken) and LZ4 blocks of 1 and 44 bytes;
arbitrary buffers hold up to two chosen records, with every field valid and
invalid, and 0, 1, 2, 5 or 47 further bytes. A wrong boundary shows with two
records: one that the parser should stop after, and one it should not miss. What
a third adds is in the proofs, which are for any number.

**Bounds of `manifest`.** All widths are real; the five ceilings are 2 to 8
bytes, so that lengths at the ceiling and one beyond fit in small files. Sent
manifests: every builder spec, one choice of fields at a time varied around two
base specs (accepted ones and refused ones), and manifests with EC and DMS
sections, valid and with each constraint broken in turn. Received buffers: all sent ones; sent ones
continued with 1 and 4 bytes; and of three of them, which between them use
every section, every prefix and every one-byte change to {0, 1, 2, 3, 58 ':',
128, 255}: the values on both sides of each comparison of a byte; and all
splices of one manifest into another. That is 83,749 states. `RootIdentifiesBytes`
compares each buffer that verifies with every one that was sent.

**Bounds of `metadata`.** Real widths; inline data may have two bytes, so that the
ceiling is met and crossed. Four trees, each written in up to nine orders: a file, a link
and an empty directory below a root; a root alone; a chain of three directories; two
directories with the same entries, which share one node. Images that are no trees:
every file type (unknown ones included) with its content handle, 0 to 2
attributes and slices, each rule broken in turn, slices whose ends are equal, swapped, or
differ in the order of their bytes, names in order, out of order, repeated, one a prefix of
the other, and none. Every image is also continued; the one that uses every
part of the layout arrives cut short at every length and with each byte changed to nine
values. That is 75,484 states.

**Bounds of `verify`.** The trees of `metadata`, in their orders, inlined in a manifest of
`manifest`; every broken image and every prefix of a blob with one file
inlined in the same manifest; one with external metadata; and all prefixes of the
smallest image. In each behaviour the file may also turn out to be unreadable.

**Bounds of `delta`.** Up to three ops; every kind, with kinds 0, 4 and 255 that do not exist;
paths with one and two components, a leading and a trailing slash, a two-byte character,
and the refused ones (empty, `//`, NUL, not UTF-8); every section is continued and cut
short at every length, and the longest has each byte changed to eight values, the root's 32
included, which is what varies the text of the root.

**Fairness.** The parsers are single calls of straight-line code and bounded
loops; nothing they wait for can be late. Weak fairness of the parser's step
says that a running call keeps running. `Finished` is the stuttering of a call
that has returned (`VerifyReturned` for the whole command, whose `FairVerifySpec` includes
the steps of the metadata parser: `_metadata_summary` is a plain call), so a deadlock would be a parser that neither continues, nor
returns, nor raises; TLC checks it in every run.

## The properties

Slabs:

- `LaidOutSlabAccepted`: a slab whose drops are placed one after another, within
  the limits, opens with exactly its drops. Nothing in the file says how many.
- `DropCountDerived`: over *all* buffers, the loop opens a slab with `n` records
  if and only if `n` valid records leave exactly the bytes they claim; no buffer has
  two such numbers.
- `WrittenSlabReadsBack`: every drop that was written reads back with its
  plaintext, the first of two with the same id included.
- `TruncatedOnlyInHeader`: "Truncated" is only ever raised for the header; the
  loop stops before the record parser runs out of buffer.
- `ReadsStayInWindow`: a `plaintext_for` that returns has read inside the window.
- `ParseEnds`: the `while True` ends.

Manifests:

- `SentManifestVerifies`: a valid manifest verifies, with every field as sent and the
  root its writer computed, whatever bytes follow it; those are counted.
- `OnlyValidManifestsParsed`: of any bytes, damaged ones included, what verifies keeps every
  rule of its sections, and the sections present are those declared.
- `InvalidManifestRefused`: one that breaks a rule of a section is refused, and not
  read as something else.
- `PrefixIsTruncated`: a valid manifest cut short anywhere is "Truncated": never
  accepted, and never "Corrupt" or "BadMagic".
- `RootIdentifiesBytes`: a file that verifies with the root of a sent manifest starts
  with that manifest, byte for byte. No byte of it is outside every hashed section.
- `EncodingIsCanonical`: encoding what was parsed gives back the bytes parsed, so no
  content has two encodings, hence two roots.
- `CountCheckedUpFront`: in the sections whose entries have one width (flags, EC
  overrides) the loop never runs out of bytes: a count that is too large is noticed
  before an entry is read.

- `ImplementsSectionedFile`: the sections follow each other without a gap or an overlap, none
  twice, none skipped, the mandatory ones not empty, and "verified" comes with the seventh.

`ImplementsDropStore`, for slabs, is stronger than it looks: it fixes the contents of a store before
the store is opened, so every lookup of every id, in any order, must answer with
what the layout says, from a window start the parser had to derive.

Metadata:

- `WrittenBlobReadsBack`: a valid blob reads back as written, whatever follows.
- `InvalidBlobRefused`: an image that breaks a rule is refused, not read as another.
- `ParsedBlobIsValid`: of any bytes, damaged ones included, what is returned keeps every rule. The
  parser compares a name with the one before it; the property is about any two names of a node.
- `BlobPrefixIsTruncated`: a valid blob cut short anywhere is "Truncated". The counts are
  not checked before the loops, so this is up to the order of reads and checks in them.
- `NodeHashIsOfItsBytes`: what `dir_node_hash` re-encodes is byte for byte what was parsed,
  for every blob that is accepted, damaged ones included.
- `TreeResolves`: root, hashes and numbers lead through the whole tree, in every order.

The command:

- `ReportIsOfImage`: the report of a written image has its root, its counts, its root
  directory, and the rows of its inodes and nodes sorted by their keys.
- `BadBlobOnlyLosesSummary`: bad metadata costs the summary, all of it, and nothing else.
- `VerdictIsOnManifest`: the exit code is about the manifest and about the file being readable
  (`NotRead`: no parser was called, so that a refused header is no excuse).
- `VerifyReturns`: the command returns, from the loops of both parsers.

Delta linkages and identifiers:

- `DeltaReadsBack`, `OnlyValidDeltasParsed`, `DeltaPrefixIsTruncated`: as for blobs; the second
  also says that the bytes consumed are the encoding of what was returned.
- `RootTextNamesRoot`: the text of a root decodes to it, and no part of the text to anything.

Each has a mutant: a plausible slip in a definition of the model (a dropped
guard, a wrong order, an off-by-one), under which TLC must find it violated.

## What is proved

All for every value of the constants: any buffers, limits, manifests and any number of
drops, sections' entries, locators or ops.

| Theorem | Property | Rests on |
|---|---|---|
| `SlabProofs!TypeCorrect` | `TypeOK` | inductive as it stands |
| `SlabProofs!LoopNeverTruncates` | `TruncatedOnlyInHeader` | `LoopInv` |
| `SlabProofs!ReadsInsideWindow` | `ReadsStayInWindow` | `AnswerInv` |
| `SlabProofs!LaidOutSlabsOpen` | `LaidOutSlabAccepted` | `LaidOutInv` |
| `SlabProofs!ImplementsTheStore` | `ImplementsDropStore` | `IInv`, `LaidOutInv` |
| `SlabProofs!DropCountIsDerived` | `DropCountDerived` | `DerivedInv` |
| `SlabProofs!WrittenSlabsReadBack` | `WrittenSlabReadsBack` | `LaidOutInv`, `AnsweredInv` |
| `ManifestProofs!TypeCorrect` | `TypeOK` | `IInv` |
| `ManifestProofs!LoopsNeverTruncate` | `CountCheckedUpFront` | `CountFits` |
| `ManifestProofs!CutsTheFile` | `ImplementsSectionedFile` | `Tiled`, `AbsentSpanNothing` |
| `ManifestProofs!RootNamesOneManifest` | `RootIdentifiesBytes` | `Tiled`, `AbsentSpanNothing` |
| `ManifestProofs!AcceptedBytesAreCanonical` | `EncodingIsCanonical` | `CodecInv`: `IInv`, `ReadSoFar`, `NotBegun`, `Ended` |
| `ManifestProofs!VerifiedIsValid` | `OnlyValidManifestsParsed` | `CodecInv`, `ValidSoFar` |
| `ManifestRoundTripProofs!SentIsReadBack` | `SentManifestVerifies` | `CodecInv`, `FollowsAll`, `EndsSoFar` |
| `ManifestRoundTripProofs!CutShortIsTruncated` | `PrefixIsTruncated` | `CodecInv`, `FollowsAll` |
| `ManifestRoundTripProofs!InvalidIsRefused` | `InvalidManifestRefused` | `CodecInv`, `FollowsAll`, `ValidSoFar` |
| `ManifestRoundTripProofs!RootIsThatOfTheParsed` | `RootIsOfParsed`, of that module | `CodecInv`, `EndsSoFar` |
| `VerifyProofs!ExitCodeIsOfManifest` | `VerdictIsOnManifest` | `ExitInv`, `CodecInv`, `FollowsAll` |
| `VerifyProofs!ReportHasRoot` | `ReportNamesImage`, of that module | `ExitInv`, `CodecInv`, `FollowsAll`, `EndsSoFar` |
| `MetadataProofs!BlobTypeCorrect` | `TypeOK` | `TypesOK`, `InodesRead` |
| `MetadataProofs!EveryBlobIsValid` | `ParsedBlobIsValid` | `InodesRead`, `NodesRead` |
| `MetadataProofs!NodesEncodeToTheirBytes` | `NodeHashIsOfItsBytes` | `BytesHere`, `AtEnd` |
| `MetadataProofs!BlobReadsBack` | `WrittenBlobReadsBack` | `IInv`, `FollowsAll` |
| `MetadataProofs!CutBlobIsTruncated` | `BlobPrefixIsTruncated` | `IInv`, `FollowsAll` |
| `MetadataProofs!InvalidImageIsRefused` | `InvalidBlobRefused` | `IInv`, `FollowsAll` |
| `DeltaProofs!ParsedIsWhatWasRead` | `OnlyValidDeltasParsed` | `ReadSoFar` |
| `DeltaProofs!WrittenReadsBack` | `DeltaReadsBack` | `ReadSoFar`, `Follows` |
| `DeltaProofs!CutShortIsTruncated` | `DeltaPrefixIsTruncated` | `ReadSoFar`, `Follows` |

**Slabs.** That a record can be read needs that at least 48 bytes remain at the loop head:
`LoopInv` says that the position is the header plus one record width per record read, inside
the buffer. `ReadsStayInWindow` holds of an answer for as long as the slab that gave
it stays open (`AnswerInv`). In a slab laid out with `n` records the loop cannot stop before
the `n`-th and cannot go past it: `LaidOutInv` states that what was read so far is a prefix
of the layout and that the claims of this prefix are what the loop has summed; the arithmetic
of the layout (the window holds exactly the claims of all `n`, and each offset is the sum of
the lengths before it) then decides the branch at each head. The refinement needs nothing
more: `Open` happens when the records read are the layout, so the window the parser
derived is the one the map was settled with, and a `plaintext_for` maps to a `Get`.

`DropCountDerived` is about buffers nobody laid out. `Reach(s, n)` is where a slab of the
first `n` records would end; one record more reaches at least 48 bytes further
(`ReachGrows`), so two numbers cannot both reach the end of the buffer, and `DerivedInv` says
that what the loop has summed is `Reach` of the records read, that no smaller number would
have done, and, once the loop has given up, that no number does (`NoCount`): an error is
raised when `Reach` is past the end, within a record of it, or a record is invalid, and each
rules out every larger number too. For a written slab, `WrittenSlab` shows that `_make_slab`
lays it out, by adding up the sizes one at a time (`SumMore`: `Sum` folds over a set of
places, greatest first); `AnsweredInv` ties an answer to the first record with its id, and
`StartsDiffer` shows that no other compressed drop claims the same range, which needs the size
prefix: an LZ4 drop is never empty in the window.

**Manifests.** `TypeOK` alone is not inductive. `LocatorsOpen` says which sections may be
inside the locator loop; `CountFits`, that in the sections whose entries have one width the
bytes of the entries still announced are there; `CountCheckedUpFront` is one of the conjuncts,
its own induction hypothesis; `Tiled`, that the ends noted so far increase along the section
order and that the last is where the current section starts; `AbsentSpanNothing`, that an
optional section without its flag spans no bytes. Each section parser has a lemma on the
*shape* of its steps (`FlagsShape` ... `HistoryShape`): a step raises, advances inside its
section, or returns at the cursor; `StepShape` joins them, and the tiling and the
refinement are proved from the shape alone. Finding that a DMS policy may announce more shares
than bytes remain (its count is compared with the byte `n`, not with the bytes) corrected
`TypeOK`. `RootIdentifiesBytes` follows by comparing the ten slots of the two roots: `Merkle`
represents a hash by what was hashed (BLAKE3 does not collide), so equal roots have equal
sections, and `SectionsJoin` says that the sections, in order, are the file up to
the end of its history. Nothing about what the encoders write is needed.

`EncodingIsCanonical` is about what they write. `ReadSoFar` says that the bytes up to the cursor are
the encodings of the sections that have returned and of the part of the current one that was read,
where a list is encoded with the count that was announced: what was read plus what is left. The
parser keeps a part of a section in two places, the section's variable and the locators of the
running loop, and the slab index has both loops nested (`SlabIndexSoFar`). Each item has a lemma that packing
it again gives back its bytes, resting on the checks of the parser that forbid a second
form: reserved bytes are zero, a boolean is 0 or 1, the one polynomial of erasure coding, an empty
list where there is no inline data. `NotBegun` says that a section that was not reached, or was
skipped, still has its initial value, and `Ended` that of a verified file nothing is left.

`VerifiedIsValid` is the converse of reading back: `ValidSoFar` keeps, next to `CodecInv`, what the
checks of each step have established of the entries read so far. Uniqueness is where it is more
than the checks: the loops compare one id with those before it, and the property is about any two.

For what was *sent*, `FollowsAll` is about the run on one buffer and all manifests at once. For
every manifest whose bytes agree with the buffer as far as both go (`Agrees`), the parser has
read nothing but what was written: `ParsedFollows` states, section by section, that a section
that has returned has the value that was written, and that in the current one the entries read
are a prefix of those written and the count left is that of the rest. And if the manifest is
valid, the only error is "Truncated", and then the buffer is shorter than the manifest (`RefusedShort`).
`full` tells manifests that were encoded whole from those of `ManifestBuilder`, which writes no
EC or DMS section even where the flag is declared. The step is one lemma for each head, entry and end of the seven parsers. Each goes
through the row of checks with the layout of the item it reads (`HereAt`: what lies at an offset
from the cursor), for which `BytesProofs` has the reads of a cursor on agreeing bytes
and the rows of which only a read can fail (`OnlyShort`). The checks of counts before the loops need
that an encoded list is at least the minimal width times its length, which is an induction over
the list. Where the encoders and the parser are apart, the lemma says how: a count of
`TOO_LARGE` or more cannot be the count of anything that fits the buffer; the share count of a
DMS policy is the byte `n` only if the manifest is valid, so an invalid one may fail earlier.
`SentIsReadBack` then follows by elimination: once the parser has stopped, `RefusedShort`
leaves it no error on a buffer that has all the bytes, and `EndsSoFar` (every section ended where
its encoding ends) gives the ends, the ten slots of the root, and the trailing bytes.
`CutShortIsTruncated` is the other half of `RefusedShort`; a prefix does not verify because
the encodings read would be all there. `InvalidIsRefused` puts together that what verified is what was
sent (`FollowsAll`) and that what verified is valid (`ValidSoFar`).

**The command.** Every step of `VerifyNext` is a step of the manifest parser or leaves it alone, so
`VerifySpec` implies `Spec` (`VerifyIsManifest`) and all that was proved about the manifest parser
holds of the command. `ExitInv` adds what the command makes of it: 0 is returned only for a verified file, and
with its root; 1 only for a refused or an unreadable one; and the metadata parser runs
only after the manifest was verified. No ending of the metadata parser is in it, which is the point:
the verdict does not depend on it. `ImagesAssumption` says that the images are built from
specs like those of `WrittenAssumption`, with any bytes for metadata.

**Metadata blobs.** One inductive invariant, `IInv`, gives what is said of every buffer. `InodeBegun` and
`SlicesRead` say of the inode that is being read what is settled before it is returned: its
attributes keep their rules, and between the slices it is a regular file whose slices are each of
some bytes. `NodeBegun` does so for entries: a node with one name more is in order because
`NameBefore` is transitive (`NameBeforeTransitive`, over the first place in which two names
differ). `BytesHere` says that what the cursor went over ends with the encodings of the nodes
and, inside a node, with its version, the count announced (entries read plus entries left) and
the encodings of the entries read. At the end of a node nothing is left, so that count is the
number of entries the encoder writes; a count of `TOO_LARGE` or more never gets there, since
the entries read are no more than the bytes (`NodeBegun`). The attempt to prove that the content of an
inode is of its file type failed first: two guards of the `CASE` in `Inode!ContentChecks`
overlapped, and a `CASE` does not say which of its true arms it takes. They are disjoint now.

For the images that are written, `MetadataProofs!FollowsAll` is the counterpart of the invariant
of the manifests, in another form: the metadata parser keeps nothing of where it began, so the
invariant is about what is still to come. `Follows(m)` says that there are bytes `rest` that the
buffer goes on with, as far as it goes, that end where the encoding of `m` ends (`Facing`), and that
are what the encoding has after the items read (`Ahead`). For the two nested loops that is a list of
items in front of another list: `ItemsAhead(items, k, tail, rest)` says that `rest` is what comes
after the first `k` of `items`, and then `tail`. Each loop has a lemma that splits `rest` at its
next item (`XattrsSplit`, `SlicesSplit`, `EntriesSplit`, ...) and one that, when nothing is left,
what was read is the whole list and `rest` is the tail (`XattrsOver`, ...); each item one that
the parser reads what was written (`XattrMet`, `ContentMet`, ...) and one that, if it is valid,
only a read can fail (`XattrShort`, `ContentShort`, ...). The length of an inode depends on its flags
and its mode: `HeadMet` gives the flags byte that was written, `KindKnown` that the branch of
`_parse_content_handle` taken is the one for the content that was written. For an image that is
not valid this needs that the content is of the file type (`OfItsType`), and it is why the assumption
below has it: an inode whose mode says directory and whose content is a symlink is encoded as bytes that say
nothing of the symlink, and could be those of another image. With that, a blob that is parsed is the image
whose encoding it agrees with (`ParsedIs`), so one that is not valid contradicts `IInv`.

**Delta linkages.** `ReadSoFar`: the bytes up to the cursor are the head for the count that
was announced (ops read plus ops left) and the encodings of the ops read. Each read packed
again is the bytes it came from (`BytesProofs!U32Again`, `BytesGrow`), and one op more is one
encoding more (`BytesProofs!FlattenAppend`). For what was written, `Follows` states that the
parser of a buffer that agrees, as far as it goes, with a written section has so far
returned a prefix of its ops, and has raised nothing but "Truncated", and this only if the
buffer is the shorter: `OpFollows` goes through the rows of checks of an op, in their
order, with `OpLayout`, where its fields lie. `DeltasAssumption` states the widths of what is written
(a root of 32 bytes, an inode number of 8), not that kinds and paths are valid:
that is a hypothesis of the property, as in the run.

**Induction.** `FirstFailure` picks the least failing index of a check sequence, and a
concatenation is folded one member at a time. The library's induction theorems take an
operator parameter that the provers cannot instantiate;
`ParseErrorsProofs!LeastNatural` is therefore proved from the well-foundedness of
the naturals, and every induction here takes the least counterexample.

**Assumptions**: those named in the modules (`ASSUME`), which state that limits and
buffers have the types they have in the code, that slabs are written within the
limits (`DropListsAssumption`), and that what is written has the widths of its fields
(`WrittenAssumption`): an id has 40 bytes, a digest 32, a timestamp 8, counts of shards one; a
builder's history has the operations of `HistoryOpSpec`; a section that is not declared is
`None`; the content of an inode is of the file type of its mode, if that has contents
(`MetadataImage!WrittenAssumption`, which has the widths of an image). They do not say that a
manifest or an image is valid (`ImagesAssumption` does, of the images), and lengths and lists are unbounded. TLC
evaluates them in every run. A u32 is exact below 2^24, and buffers are shorter than that.

**Only model-checked.** `TreeResolves`, which is about the trees of the run;
of the command, `ReportIsOfImage`
and `BadBlobOnlyLosesSummary`, which are about what the metadata parser returns; `RootTextNamesRoot`.
Liveness under fairness (`ParseEnds`, `VerifyReturns`) is out of the
prover's reach and stays with TLC.

## Findings

Met while translating; each is a violated run.

| Run | The code | The text |
|---|---|---|
| `claim_builder` | `ManifestBuilder` writes flags 1 and 2 without the EC and DMS sections: `verify` refuses the manifest (`builder.py:121`) | `ec_params.py:3-4`: present iff the flag is declared |
| `claim_required_flags` | no one reads `required` (`feature_flags.py:96`) | `feature_flags.py:4-5`: unknown required flags cause `UnsupportedFeature` |
| `claim_build_entry` | a history of one turnover verifies (`history.py:86`) | `history.py:3-5`: at least the `build` entry |
| `claim_scheme` | `str.isalpha` accepts letters outside ASCII (`locator.py:49`) | `locator.py:48`: RFC 3986 ALPHA, DIGIT |
| `claim_root` | `root_inode_number` counts a directory's own entries: a root with an entry for itself is not found (`metadata.py:69`) | `metadata.py:61-62`: "not referenced by any *other* directory's entries" |
| `slab_overflow_check` | the condition is false for all Python integers (`drop_record.py:69`) | `drop_record.py:68`: "Overflow check on offset + len." |

Seen and not stated as a run:

- nothing compares a drop's plaintext with its drop id, a slab with its slab id,
  or inlined metadata with `metadata_hash`: the reader does not claim to.
- `plaintext_for` does not look at `representation.ec`.
- a builder given 0 bytes of inlined metadata writes a manifest that the
  parser refuses (no locator and no inline data).
- a comment in `tests/test_round_trip.py:199-204` places the byte it changes
  elsewhere than it is: offset 21 is in the version field of a section.
- `_verify_bytes` swallows a ParseError of the inlined metadata (`cli.py:161`) and still
  reports success; that this touches nothing else is `BadBlobOnlyLosesSummary`.
- `_metadata_summary` does not say whether the whole of the inlined bytes were parsed: bytes after
  the blob are ignored.
- inodes have several encodings: the inline flag is ignored for other than regular
  files, and an attribute block may be there and empty. A blob's hash is of its bytes,
  so nothing rests on it; there is no canonicity property for blobs.
- inodes with the same number are accepted, and lookups answer with the first.
- the last digit of an id's text has four bits that `parse_text` ignores: 16 texts, one id.
- the warning of `cli.py:186-190` says "optional sections present, not parsed", but the EC and
  DMS sections are parsed; what is left over is anything at all.

## Not modelled, and why

- Printing, `argparse`, error messages: formatting. `str.upper` on characters outside ASCII,
  some of which become base32 digits: a text is what its upper case is.
- `Cursor.skip`, `remaining`, and start positions other than 0; `Tier`; `section_hashes_minimal`;
  `is_required`, `SlabIndex.find`, the `urllib` properties of locators: no caller, and no state.
- LZ4, BLAKE3, `base64` and the file system: outside the repository, modelled by what
  this code relies on.
- `__init__.py`: re-exports.
- `plaintext_for` comparing contents with ids: the code does not, see above.

## Plan

What is left is proof, in this order:

1. `BadBlobOnlyLosesSummary`, from `InvalidImageIsRefused` and `CutBlobIsTruncated` for the blob
   parser inside `VerifyReport`.
2. `TreeResolves`, which needs a constant that names a well-formed tree, and `ReportIsOfImage` after it.
3. `RootTextNamesRoot`, over the digits of a text.
