----------------------------- MODULE MCSQLiteStore -----------------------------
(* Two sessions: an empty store, an older one with both, and one with one.  *)
EXTENDS SQLiteStore, TLC

CONSTANTS s1, s2, a, A

MCLegacy ==
  LET old(c, m) == [revision |-> 0, entries |-> c, prepared |-> FALSE, modified |-> m]
  IN {(s1 :> NoIndex) @@ (s2 :> NoIndex), (s1 :> old(<<A, a>>, 0)) @@ (s2 :> NoIndex),
      (s1 :> old(<<A, A>>, 0)) @@ (s2 :> old(<<a, NoEntry>>, 1))}
Symmetry == Permutations(Connection)
=============================================================================
