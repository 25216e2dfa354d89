----------------------------- MODULE MCAccounts -----------------------------
(* Small instances of Accounts for TLC. *)
EXTENDS Accounts, TLC

CONSTANTS p1, p2, c1, c2

\* "Ann" and "ann" are two spellings of one address, and so are "Adm" and "adm".
Lower(e) == CASE e = "Ann" -> "ann" [] e = "Adm" -> "adm" [] OTHER -> e

SessionSymmetry == Permutations(Processes) \cup Permutations(Callers)
=============================================================================
