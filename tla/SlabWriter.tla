---------------------------- MODULE SlabWriter ----------------------------
(***************************************************************************)
(* The slabs a writer produces, and what the reader must make of them.     *)
(*                                                                         *)
(* MakeSlab is _make_slab of tests/test_slab.py, the only slab writer of   *)
(* the repository, which says it matches the v0.1 writer; it stores every  *)
(* drop.  Drops that codec.compress compresses are placed the same way.    *)
(***************************************************************************)
EXTENDS SlabReader, SequencesExt

CONSTANT DropLists      \* the lists of drops slabs are written for

Drop ==
    [drop_id : DropIds, codec : {CODEC_STORE, CODEC_LZ4},
     plaintext_len : 0..DEFAULT_DROP_MAX_PLAINTEXT_BYTES,
     block : Nat]               \* the size of its LZ4 block, when it is compressed

\* The size of a drop in the window.
Stored(d) == CompressedLen(d.codec, d.plaintext_len, d.block)

Sum(sizes) == FoldLeft(LAMBDA a, b : a + b, 0, sizes)
SizesOf(drops) == [i \in DOMAIN drops |-> Stored(drops[i])]

\* len(solid_window) when drop i is placed.
offset_in_window(drops, i) == Sum(SubSeq(SizesOf(drops), 1, i - 1))

RecordFor(drops, i) ==
    [drop_id |-> drops[i].drop_id, plaintext_len |-> drops[i].plaintext_len,
     representation |-> [codec |-> drops[i].codec, aead |-> 0, ec |-> 0],
     solid_window_index |-> 0,
     offset_in_window |-> offset_in_window(drops, i),
     len_in_window |-> Stored(drops[i])]

\* What a 48-byte piece of a window decodes to when taken for a record: its
\* content is the drops', so it is fixed here to one record that nothing rejects.
WindowPiece(drops) == [RecordFor(drops, 1) EXCEPT !.len_in_window = 1]

MakeSlab(drops) ==
    LET n == Len(drops)
        window == Sum(SizesOf(drops))
        total_length == SLAB_HEADER_LEN + n * DROP_RECORD_LEN + window
        start(i) == SLAB_HEADER_LEN + n * DROP_RECORD_LEN + offset_in_window(drops, i)
    IN  [length |-> total_length, magic |-> SLAB_MAGIC,
         format_version |-> SLAB_FORMAT_VERSION, total_length |-> total_length,
         ec_descriptor |-> 0, crypto_hint |-> 0,
         record |-> [i \in 1..n |-> RecordFor(drops, i)]
                      \o [i \in 1..(window \div DROP_RECORD_LEN) |-> WindowPiece(drops)],
         lz4 |-> {[start |-> start(i), end |-> start(i) + Stored(drops[i]),
                   len |-> drops[i].plaintext_len] :
                     i \in {j \in 1..n : drops[j].codec = CODEC_LZ4}}]

\* A writer keeps within the limits of the format.
ASSUME DropListsAssumption ==
    \A drops \in DropLists :
        drops \in Seq(Drop) /\ MakeSlab(drops).length <= DEFAULT_SLAB_MAX_BYTES

Written == {[drops |-> drops, slab |-> MakeSlab(drops)] : drops \in DropLists}

-----------------------------------------------------------------------------
\* A slab that was written is read back: parse_slab accepts it with the records
\* it was given, and plaintext_for answers for every id, with the plaintext of
\* the first drop written under it, or "missing" for an id that was not written.
WrittenSlabReadsBack ==
    \A w \in Written : w.slab = slab =>
        /\ status \notin ErrorKinds
        /\ status = "open" => Len(drop_records) = Len(w.drops)
        /\ answer.kind # "none" =>
             LET drops == w.drops
                 places == {i \in DOMAIN drops : drops[i].drop_id = answer.id}
             IN  IF places = {} THEN answer.kind = "missing"
                 ELSE LET i == Min(places)
                          start == slab.length - Sum(SizesOf(drops)) + offset_in_window(drops, i)
                      IN  /\ answer.kind = "plaintext"
                          /\ answer.start = start
                          /\ answer.end = start + Stored(drops[i])
                          /\ answer.len = drops[i].plaintext_len

\* The reader derives the number of records from the lengths alone.  It must
\* accept exactly the buffers for which some number of valid records, and no
\* other, leaves exactly the bytes those records claim, and it must have read
\* that many.
ClaimedBy(n) == Sum([i \in 1..n |-> slab.record[i].len_in_window])
Balances(n) == SLAB_HEADER_LEN + n * DROP_RECORD_LEN + ClaimedBy(n) = slab.length

DropCountDerived ==
    status \notin {"header", "records"} =>
        LET counts == {n \in 0..Len(slab.record) :
                         /\ WellFormedHeader(slab)
                         /\ Balances(n)
                         /\ \A i \in 1..n : ValidRecord(slab, slab.record[i])}
        IN  counts = IF status = "open" THEN {Len(drop_records)} ELSE {}
=============================================================================
