--------------------------- MODULE SectionedFile ---------------------------
(***************************************************************************)
(* What verify promises of a manifest file, whatever the sections say:     *)
(* it cuts the file from its first byte on into consecutive sections, in   *)
(* one order and each exactly once, and verifies it when all are cut.      *)
(* A section that is not optional spans at least a byte.  The sections     *)
(* therefore cover the file up to the last cut without a gap or an         *)
(* overlap, which the ManifestRoot needs: it is the hash of the pieces.    *)
(***************************************************************************)
EXTENDS ParseErrors

CONSTANTS
    Files,
    SectionCount,
    OptionalSections       \* those that may be absent, by their place in the order

VARIABLES
    file,
    cuts,         \* where each section cut so far ends
    verdict       \* "parsing", "verified" or the exception raised

vars == <<file, cuts, verdict>>

Init == file \in Files /\ cuts = <<>> /\ verdict = "parsing"

LastCut == IF cuts = <<>> THEN 0 ELSE cuts[Len(cuts)]

Cut ==
    LET n == Len(cuts) + 1
    IN  /\ verdict = "parsing"
        /\ \E end \in LastCut..Len(file) :
             /\ end = LastCut => n \in OptionalSections
             /\ cuts' = Append(cuts, end)
        /\ verdict' = IF n = SectionCount THEN "verified" ELSE "parsing"
        /\ UNCHANGED file

Refuse ==
    /\ verdict = "parsing"
    /\ verdict' \in ErrorKinds
    /\ UNCHANGED <<file, cuts>>

Next == Cut \/ Refuse

Spec == Init /\ [][Next]_vars
=============================================================================
