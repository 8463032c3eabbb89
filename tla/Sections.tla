------------------------------ MODULE Sections ------------------------------
(***************************************************************************)
(* What the section parsers of a manifest share: _verify_bytes of cli.py   *)
(* calls them one after another on one cursor.  A parser reads a head, and *)
(* then the entries the head counts; each of the two is one step here.     *)
(***************************************************************************)
EXTENDS Cursor

SectionOrder ==
    <<"header", "feature_flags", "metadata_reference", "slab_index",
      "ec_params", "dms_policy", "history">>

SectionNames == {SectionOrder[i] : i \in DOMAIN SectionOrder}

\* Where the code goes on when the section has been parsed.
NextSection(s) == SectionOrder[1 + CHOOSE i \in 1..6 : SectionOrder[i] = s]

VARIABLES
    status,       \* "parsing", "verified", or the exception raised
    section,      \* the section being parsed
    step,         \* what of it is read next: "head", "entries" or "locators"
    left,         \* entries the loop of the section has still to read
    ends          \* for each section, cursor.position after its parser

At(s, st) == status = "parsing" /\ section = s /\ step = st

Raise(kind) == status' = kind /\ UNCHANGED <<buf, position, section, step, left, ends>>

\* A statement of the item at <<s, st>> raises.
Reject(s, st, checks) == At(s, st) /\ ~Passes(checks) /\ Raise(FirstFailure(checks))

\* The item at <<s, st>> is read, of n bytes.
Accept(s, st, checks, n) ==
    At(s, st) /\ Passes(checks) /\ Advance(n) /\ UNCHANGED <<status, section, ends>>

\* The loop over the entries is about to turn.
MoreEntries == left > 0

\* The parser of section s returns, the cursor having moved n bytes more.
Return(s, n) ==
    /\ section = s
    /\ Advance(n)
    /\ ends' = [ends EXCEPT ![s] = position + n]
    /\ IF s = "history"
       THEN status' = "verified" /\ UNCHANGED <<section, step, left>>
       ELSE /\ section' = NextSection(s)
            /\ step' = "head"
            /\ left' = 0
            /\ UNCHANGED status

EntriesEnd(s) == At(s, "entries") /\ left = 0 /\ Return(s, 0)
=============================================================================
