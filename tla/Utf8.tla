-------------------------------- MODULE Utf8 --------------------------------
(***************************************************************************)
(* bytes.decode("utf-8") and the character classes of str, as the parsers  *)
(* use them.  A text stays the bytes it was decoded from: decoding is      *)
(* injective, so the comparisons of the code are comparisons of bytes.     *)
(***************************************************************************)
EXTENDS Integers, SequencesExt

CONSTANTS
    UnicodeAlpha,      \* characters above ASCII with c.isalpha(), as bytes
    UnicodeAlnum       \* characters above ASCII with c.isalnum(), as bytes

ASSUME UnicodeAssumption == UnicodeAlpha \subseteq UnicodeAlnum

Continuation(b) == b \in 128..191

\* The length of the character that starts with byte b; 0 if none does.
CharLen(b) ==
    CASE b < 128 -> 1
      [] b \in 194..223 -> 2
      [] b \in 224..239 -> 3
      [] b \in 240..244 -> 4
      [] OTHER -> 0

\* The character that starts at i.
CharAt(bytes, i) == SubSeq(bytes, i, i + CharLen(bytes[i]) - 1)

WellFormedCharAt(bytes, i) ==
    /\ CharLen(bytes[i]) > 0
    /\ i + CharLen(bytes[i]) - 1 <= Len(bytes)
    /\ \A j \in (i + 1)..(i + CharLen(bytes[i]) - 1) : Continuation(bytes[j])
    /\ bytes[i] = 224 => bytes[i + 1] >= 160
    /\ bytes[i] = 237 => bytes[i + 1] < 160
    /\ bytes[i] = 240 => bytes[i + 1] >= 144
    /\ bytes[i] = 244 => bytes[i + 1] < 144

CharStarts(bytes) == {i \in DOMAIN bytes : ~Continuation(bytes[i])}

Characters(bytes) == {CharAt(bytes, i) : i \in CharStarts(bytes)}

\* decode raises no UnicodeDecodeError: every byte is in a well-formed character.
IsUtf8(bytes) ==
    /\ \A i \in CharStarts(bytes) : WellFormedCharAt(bytes, i)
    /\ \A i \in DOMAIN bytes \ CharStarts(bytes) :
         \E j \in CharStarts(bytes) : j < i /\ i < j + CharLen(bytes[j])

AsciiLetters == {<<b>> : b \in (65..90) \cup (97..122)}
AsciiDigits == {<<b>> : b \in 48..57}

IsAlpha(c) == c \in AsciiLetters \cup UnicodeAlpha
IsAlnum(c) == c \in AsciiLetters \cup AsciiDigits \cup UnicodeAlnum
=============================================================================
