--------------------------- MODULE MCUserAccounts ---------------------------
(***************************************************************************)
(* Two people, two gunicorn workers and two ids, which are both taken when *)
(* the migration has copied the users.                                     *)
(***************************************************************************)
EXTENDS UserAccounts, TLC

WorkerSymmetry == Permutations(Workers)
=============================================================================
