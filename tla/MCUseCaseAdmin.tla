--------------------------- MODULE MCUseCaseAdmin ---------------------------
(***************************************************************************)
(* Both use cases come with the file, and both may be deleted, made by     *)
(* hand or become demos. The admin page sends a use case as no demo and    *)
(* without a code; other JSON may name one.                                *)
(***************************************************************************)
EXTENDS UseCaseAdmin, TLC

CONSTANTS robles, acme

Alike == Permutations(Workers) \cup Permutations(Codes)

TwoSeeds == <<robles, acme>>

SomeBodies == {[demo |-> 0, code |-> NoCode]} \cup [demo : {1}, code : Codes]

\* Bound: what follows two different exceptions of the properties is left out.
OneException ==
  /\ \A x, y \in met : x = y
  /\ met # {} => ~named /\ ~unseeded
  /\ ~(named /\ unseeded)
=============================================================================
