------------------------------- MODULE MCSlab -------------------------------
(***************************************************************************)
(* Small slabs for TLC.  The header and record widths are the real ones,   *)
(* so a buffer of three records is 200 bytes long; the limits are scaled   *)
(* down so that every one of them is crossed.                              *)
(***************************************************************************)
EXTENDS SlabWriter

MCDropIds == {"x", "y"}
MCDropMax == 50         \* DEFAULT_DROP_MAX_PLAINTEXT_BYTES
MCSlabMax == 400        \* DEFAULT_SLAB_MAX_BYTES
MCU32Max == 120

\* Drops to write.  The sizes stop short of a record, fill one exactly, and are
\* zero; the LZ4 ones shrink or grow.
MCDrops ==
    [drop_id : MCDropIds, codec : {CODEC_STORE}, plaintext_len : {0, 1, 48}, block : {0}]
        \cup [drop_id : MCDropIds, codec : {CODEC_LZ4}, plaintext_len : {0, 50}, block : {1, 44}]

DropListsToWrite ==
  BoundedSeq(MCDrops, 2) \cup
    {<<a, b, c>> : a \in {d \in MCDrops : d.codec = CODEC_LZ4},
                   b \in {d \in MCDrops : d.plaintext_len = 48},
                   c \in {d \in MCDrops : d.plaintext_len = 0}}

Plain == [codec |-> 0, aead |-> 0, ec |-> 0]

Record(id, plaintext_len, rep, index, offset, len) ==
    [drop_id |-> id, plaintext_len |-> plaintext_len, representation |-> rep,
     solid_window_index |-> index, offset_in_window |-> offset, len_in_window |-> len]

\* Records a buffer may hold: those of a writer, and each field made wrong.
MCRecords ==
    {Record("x", n, Plain, 0, o, l) : n \in {1, 2}, o \in {0, 1, 120}, l \in {0, 1, 2, 47, 48, 60}}
        \cup {Record("y", n, Plain, 0, 0, 1) : n \in {1, 50, 51}}
        \cup {Record("y", 1, [Plain EXCEPT !.codec = c], w, 0, 5) : c \in {1, 2}, w \in {0, 1}}
        \cup {Record("y", 1, [Plain EXCEPT !.aead = a, !.ec = e], 0, 0, 1) :
                  a \in {0, 1}, e \in {0, 1}}

Header(length, total, ec, crypto) ==
    [length |-> length, magic |-> SLAB_MAGIC, format_version |-> SLAB_FORMAT_VERSION,
     total_length |-> total, ec_descriptor |-> ec, crypto_hint |-> crypto]

WithRecords(header, records) == header @@ [record |-> records, lz4 |-> {}]

\* Buffers that hold the records given and `extra` bytes after them.  An extra of
\* a record or more decodes to one more record.
Buffer(records, extra, ec, crypto) ==
    LET length == SLAB_HEADER_LEN + DROP_RECORD_LEN * Len(records) + extra
    IN  WithRecords(Header(length, length, ec, crypto), records)

MCHints == {0, 1}
ShortBuffers ==
    {WithRecords(Header(n, 56, 0, 0), <<>>) : n \in {0, 3, 4, 5, 6, 53, 54, 55, 57, 103}}
OneRecord ==
    {Buffer(<<r>>, extra, ec, crypto) :
        r \in MCRecords, extra \in {0, 1, 2, 47}, ec \in MCHints, crypto \in MCHints}
TwoRecords ==
    {Buffer(<<r, s>>, extra, 0, 0) : r \in MCRecords, s \in MCRecords, extra \in {0, 1, 5, 47}}
BadHeaders ==
    LET b == Buffer(<<>>, 0, 0, 0)
    IN  {[b EXCEPT !.magic = "LMFS"], [b EXCEPT !.format_version = 2],
         [b EXCEPT !.total_length = 55], [b EXCEPT !.total_length = 401],
         [b EXCEPT !.ec_descriptor = EXTENDED], [b EXCEPT !.crypto_hint = EXTENDED]}

AllSlabs ==
    ShortBuffers \cup OneRecord \cup TwoRecords \cup BadHeaders \cup {w.slab : w \in Written}

MCDropLists == DropListsToWrite
MCSlabs == AllSlabs
=============================================================================
