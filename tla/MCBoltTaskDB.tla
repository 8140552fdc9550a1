---------------------------- MODULE MCBoltTaskDB ----------------------------
(* Instances of BoltTaskDB for TLC.                                        *)
EXTENDS BoltTaskDB, TLC

Symmetry == Permutations(Writer) \cup Permutations(Entry)
=============================================================================
