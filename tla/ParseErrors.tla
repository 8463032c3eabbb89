---------------------------- MODULE ParseErrors ----------------------------
(***************************************************************************)
(* The exceptions of limnifs/error.py and the way the parsers raise them.  *)
(*                                                                         *)
(* A parser is a list of reads and validations made in one fixed order;    *)
(* the first that fails raises its exception and nothing after it runs.    *)
(* Such a list is a sequence of outcomes here, in the order of the         *)
(* statements: the parser passes when all of them are "ok", and otherwise  *)
(* raises the first that is not.                                           *)
(***************************************************************************)
EXTENDS Integers, Sequences

\* The concrete subclasses of ParseError.
ErrorKinds == {"Truncated", "BadMagic", "Corrupt", "Unsupported"}

\* A statement that raises `kind` unless `holds`.
Check(holds, kind) == IF holds THEN "ok" ELSE kind

Passes(checks) == \A i \in DOMAIN checks : checks[i] = "ok"

\* The exception a parser that does not pass its checks raises.
FirstFailure(checks) ==
    checks[CHOOSE i \in DOMAIN checks :
             checks[i] # "ok" /\ \A j \in DOMAIN checks : j < i => checks[j] = "ok"]
=============================================================================
