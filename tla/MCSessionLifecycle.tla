------------------------- MODULE MCSessionLifecycle --------------------------
(* Small instances of SessionLifecycle.  Sessions and workers are model    *)
(* values and interchangeable, so safety runs may use their permutations.  *)
EXTENDS SessionLifecycleInv, TLC

Symmetry == Permutations(Sessions) \union Permutations(Workers)
==============================================================================
