---------------------------- MODULE Identifiers ----------------------------
(***************************************************************************)
(* limnifs/format_types.py: the text form of a DropId or a ManifestRoot,   *)
(* "b3:" and the base32 of its 32 bytes.  A text is what follows the       *)
(* prefix, one number for each character: 0..31 are the base32 digits, in  *)
(* either case, PAD is "=" and everything else is no digit.                *)
(***************************************************************************)
EXTENDS Integers, SequencesExt

BLAKE3_LEN == 32
PAD == 32
NOT_AN_ID == <<>>      \* ValueError

\* list is cut into numbers of `width` bits each, the highest bit first; of bits
\* that are not there, all are 0.
BitOf(list, width, k) ==
    IF k \div width >= Len(list) THEN 0
    ELSE (list[1 + (k \div width)] \div 2^(width - 1 - (k % width))) % 2

Regroup(list, width, new_width, count) ==
    [i \in 1..count |->
        FoldLeft(LAMBDA n, b : 2 * n + BitOf(list, width, new_width * (i - 1) + b - 1), 0,
                 [b \in 1..new_width |-> b])]

\* Mutant: only whole groups of five bits are encoded.
to_text_of_whole_groups(bytes) == Regroup(bytes, 8, 5, (8 * Len(bytes)) \div 5)

\* The padding b32encode writes is stripped again.
to_text(bytes) == Regroup(bytes, 8, 5, (8 * Len(bytes) + 4) \div 5)

Digits(text) == IF \A i \in DOMAIN text : text[i] = PAD THEN <<>>
                ELSE SubSeq(text, 1, Max({i \in DOMAIN text : text[i] # PAD}))

\* b32decode of the text padded to a multiple of 8: the incomplete groups of 8
\* digits it takes are those that end within a byte's last digit.
Padding(text) == Len(text) + ((-Len(text)) % 8) - Len(Digits(text))
IsBase32(text) == Range(Digits(text)) \subseteq 0..31 /\ Padding(text) \in {0, 1, 3, 4, 6}
Decoded(text) == Regroup(Digits(text), 5, 8, (5 * Len(Digits(text))) \div 8)

parse_text(text) ==
    IF IsBase32(text) /\ Len(Decoded(text)) = BLAKE3_LEN THEN Decoded(text) ELSE NOT_AN_ID
=============================================================================
