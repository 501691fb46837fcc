---------------------------- MODULE MCLifecycle ----------------------------
(* Small instances of Lifecycle for TLC.                                   *)
EXTENDS Lifecycle, TLC

\* Requests are issued in any order and investigations are alike.
Symmetry == Permutations(Requests) \union Permutations(Investigations)
=============================================================================
