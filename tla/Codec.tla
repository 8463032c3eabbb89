------------------------------- MODULE Codec -------------------------------
(***************************************************************************)
(* limnifs/codec.py: the dispatch on the codec id of a drop.               *)
(*                                                                         *)
(* The bytes handed to decompress are the range [start, end) of a slab.    *)
(* LZ4 is a library: `blocks` are the ranges known to hold its output, a   *)
(* record [start, end, len] saying that the bytes from the size prefix at  *)
(* `start` up to `end` are the compressed form of `len` bytes.  On any     *)
(* other range the library may raise, or return anything it likes.         *)
(***************************************************************************)
EXTENDS Integers

CODEC_STORE == 0
CODEC_LZ4 == 1
LZ4_SIZE_PREFIX == 4     \* the original length, which decompress skips

\* compress: the length it gives a plaintext whose LZ4 block takes `block` bytes.
CompressedLen(codec, plaintext_len, block) ==
    IF codec = CODEC_STORE THEN plaintext_len ELSE LZ4_SIZE_PREFIX + block

\* lz4.block.decompress asked for `size` bytes: "plaintext" when it returns
\* that many, "Corrupt" when it raises or the caller sees another length.
Lz4Outcomes(start, end, size, blocks) ==
    LET known == {b \in blocks : b.start = start /\ b.end = end}
    IN  IF known = {} THEN {"plaintext", "Corrupt"}
        ELSE {IF b.len = size THEN "plaintext" ELSE "Corrupt" : b \in known}

\* decompress: how it may end.
Decompress(codec, start, end, expected_len, blocks) ==
    CASE codec = CODEC_STORE -> {IF end - start = expected_len THEN "plaintext" ELSE "Corrupt"}
      [] codec = CODEC_LZ4 -> IF end - start < LZ4_SIZE_PREFIX THEN {"Corrupt"}
                              ELSE Lz4Outcomes(start, end, expected_len, blocks)
      [] OTHER -> {"Unsupported"}
=============================================================================
