----------------------------- MODULE ParserLoop -----------------------------
(***************************************************************************)
(* What the parsers of the metadata blob and of the delta linkage share: a *)
(* call on one cursor that goes through loops over announced counts.       *)
(***************************************************************************)
EXTENDS Cursor

VARIABLES
    status,       \* "parsing", "parsed", or the exception raised
    step,         \* the loop, or the head of one, the parser has come to
    left          \* turns left of the innermost loop

At(st) == status = "parsing" /\ step = st

\* A statement of the item at st raises.
Reject(st, checks) ==
    /\ At(st)
    /\ ~Passes(checks)
    /\ status' = FirstFailure(checks)
    /\ UNCHANGED <<buf, position, step, left>>

\* The item at st is read, of n bytes.
Accept(st, checks, n) == At(st) /\ Passes(checks) /\ Advance(n) /\ UNCHANGED status

MoreItems == left > 0

\* One turn of the innermost loop is done.
Turned == left' = left - 1 /\ UNCHANGED step
=============================================================================
