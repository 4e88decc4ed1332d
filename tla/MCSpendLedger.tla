--------------------------- MODULE MCSpendLedger ---------------------------
(***************************************************************************)
(* SpendLedger on three entry ids, two reservation hashes and amounts that  *)
(* compete for a two micro-dollar ceiling.                                  *)
(***************************************************************************)
EXTENDS SpendLedger, TLC

Symmetry == Permutations(EntryId) \cup Permutations(Digest)
=============================================================================
