------------------------- MODULE ParseErrorsProofs -------------------------
(***************************************************************************)
(* What the lists of checks of ParseErrors mean, for every list.  The      *)
(* component proofs cite these lemmas instead of expanding FirstFailure.   *)
(***************************************************************************)
EXTENDS ParseErrors, WellFoundedInduction, TLAPS

Outcomes == {"ok"} \cup ErrorKinds

\* Every non-empty set of naturals has a least member.  This is the induction of
\* these proofs: a claim about every n holds when it has no least counterexample.
LEMMA LeastNatural ==
    ASSUME NEW T, T \subseteq Nat, T # {}
    PROVE  \E x \in T : \A y \in T : x <= y
<1>1. PICK x \in T : \A y \in T : ~(<<y, x>> \in OpToRel(<, Nat))
  BY WFMin, NatLessThanWellFounded, Zenon
<1>2. \A y \in T : ~(y < x)
  BY <1>1 DEF OpToRel
<1>. QED
  BY <1>2

\* A parser that does not pass its checks raises the outcome of one that failed,
\* and every check before that one passed: the error reported is that of the
\* earliest read or validation of the code that fails.
LEMMA FirstFailureIsFirst ==
    ASSUME NEW checks \in Seq(Outcomes), ~Passes(checks)
    PROVE  \E i \in DOMAIN checks :
             /\ FirstFailure(checks) = checks[i]
             /\ checks[i] \in ErrorKinds
             /\ \A j \in DOMAIN checks : j < i => checks[j] = "ok"
<1> DEFINE T == {i \in DOMAIN checks : checks[i] # "ok"}
           IsFirst(i) == checks[i] # "ok" /\ \A j \in DOMAIN checks : j < i => checks[j] = "ok"
<1>1. T \subseteq Nat /\ T # {}
  BY DEF Passes
<1>2. PICK x \in T : \A y \in T : x <= y
  BY <1>1, LeastNatural
<1>3. x \in DOMAIN checks /\ IsFirst(x)
  BY <1>2
<1>4. LET first == CHOOSE i \in DOMAIN checks : IsFirst(i)
      IN  first \in DOMAIN checks /\ IsFirst(first)
  BY <1>3, Zenon
<1>5. \A i \in DOMAIN checks : checks[i] # "ok" => checks[i] \in ErrorKinds
  BY DEF Outcomes
<1>. QED
  BY <1>4, <1>5 DEF FirstFailure
=============================================================================
