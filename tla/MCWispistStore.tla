--------------------------- MODULE MCWispistStore ---------------------------
(***************************************************************************)
(* WispistStore on small instances.                                        *)
(***************************************************************************)
EXTENDS WispistStore, TLC

Symmetry == Permutations(Collections) \cup Permutations(Ids) \cup Permutations(Keys)
=============================================================================
