------------------------------ MODULE Locator ------------------------------
(***************************************************************************)
(* limnifs/locator.py: parse_locator_entries, which the metadata reference *)
(* and every entry of the slab index call, and the entries it reads.       *)
(***************************************************************************)
EXTENDS Sections, Utf8

CONSTANT DEFAULT_LOCATOR_MAX_URI_BYTES

LOCATOR_LENGTH_PREFIX_LEN == 4
MIN_LOCATOR_URI_BYTES == 4
COLON == 58
SCHEME_PUNCTUATION == {<<43>>, <<45>>, <<46>>}      \* "+", "-", "."

VARIABLES
    locators,        \* the entries of the latest parse_locator_entries
    locators_left    \* and how many it has still to read

\* uri.split(":", 1) for a uri that has a ":".
Scheme(uri) == SubSeq(uri, 1, SelectInSeq(uri, LAMBDA b : b = COLON) - 1)
SchemeSpecificPart(uri) == SubSeq(uri, SelectInSeq(uri, LAMBDA b : b = COLON) + 1, Len(uri))

\* _is_valid_scheme
IsValidScheme(scheme) ==
    /\ scheme # <<>>
    /\ IsAlpha(CharAt(scheme, 1))
    /\ \A c \in Characters(scheme) : IsAlnum(c) \/ c \in SCHEME_PUNCTUATION

\* What parse_locator_entry requires of the URI's bytes.
IsUri(bytes) ==
    /\ IsUtf8(bytes)
    /\ COLON \in Range(bytes)
    /\ IsValidScheme(Scheme(bytes))
    /\ SchemeSpecificPart(bytes) # <<>>

\* Mutant: the ceiling is exclusive.
LocatorChecksBelowCeiling ==
    << Read(4), Check(U32(0) >= MIN_LOCATOR_URI_BYTES, "Corrupt"),
                Check(U32(0) < DEFAULT_LOCATOR_MAX_URI_BYTES, "Corrupt"),
       Read(4 + U32(0)), Check(IsUri(Bytes(4, U32(0))), "Corrupt") >>

\* parse_locator_entries turns an "Unsupported" of parse_locator_entry into a
\* "Corrupt", which changes nothing: there is none.
LocatorChecks ==
    << Read(4), Check(U32(0) >= MIN_LOCATOR_URI_BYTES, "Corrupt"),
                Check(U32(0) <= DEFAULT_LOCATOR_MAX_URI_BYTES, "Corrupt"),
       Read(4 + U32(0)), Check(IsUri(Bytes(4, U32(0))), "Corrupt") >>

\* The call of parse_locator_entries for `count` entries, the first of which is
\* at offset o: what it checks before its loop, and the loop begun.
CountCheck(o, count) ==
    Check(remaining_len - o >= count * (LOCATOR_LENGTH_PREFIX_LEN + MIN_LOCATOR_URI_BYTES),
          "Truncated")

BeginLocators(count) ==
    step' = "locators" /\ locators' = <<>> /\ locators_left' = count

MoreLocators == locators_left > 0

RejectLocator ==
    /\ MoreLocators
    /\ Reject(section, "locators", LocatorChecks)
    /\ UNCHANGED <<locators, locators_left>>

ReadLocator ==
    /\ MoreLocators
    /\ Accept(section, "locators", LocatorChecks, 4 + U32(0))
    /\ locators' = Append(locators, Bytes(4, U32(0)))
    /\ locators_left' = locators_left - 1
    /\ UNCHANGED <<step, left>>

LocatorStep == RejectLocator \/ ReadLocator
=============================================================================
