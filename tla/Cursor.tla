------------------------------- MODULE Cursor -------------------------------
(***************************************************************************)
(* limnifs/cursor.py: a position in a byte buffer that only moves forward. *)
(*                                                                         *)
(* A section parser states its reads and validations as rows of checks     *)
(* (ParseErrors) in the order of the code, all relative to the position at *)
(* which the item starts: Read(n) is the row of the read that needs the    *)
(* n-th byte, and U8, U16, U32 and Bytes are the values read.  The         *)
(* position moves once, when all rows pass: an exception leaves no one to  *)
(* look at it.                                                             *)
(***************************************************************************)
EXTENDS ParseErrors

VARIABLES
    buf,          \* Cursor._buf
    position      \* Cursor._pos

U8Values == 0..255

remaining_len == Len(buf) - position

\* Cursor.read: the reads of this item up to its n-th byte.
Read(n) == Check(n <= remaining_len, "Truncated")

\* The byte at offset o.  A byte that is not there is given a value: the row of
\* its read raises, and whatever the rows after it say is never looked at.
U8(o) == IF position + o < Len(buf) THEN buf[position + o + 1] ELSE 0

U16(o) == U8(o) + 256 * U8(o + 1)

\* A u32 is exact below 2^24.  Above, it is TOO_LARGE: no buffer is that long
\* and no ceiling that high, so every comparison comes out the same.
TOO_LARGE == 256 * 256 * 256
U32(o) ==
    IF U8(o + 3) # 0 THEN TOO_LARGE
    ELSE U8(o) + 256 * (U8(o + 1) + 256 * U8(o + 2))

\* n bytes from offset o, or those of them that are there.
Bytes(o, n) ==
    SubSeq(buf, position + o + 1, IF o + n <= remaining_len THEN position + o + n ELSE Len(buf))

\* The cursor after an item of n bytes.
Advance(n) == position' = position + n /\ UNCHANGED buf
=============================================================================
