------------------------------- MODULE MCLSM -------------------------------
(* The storage engine on small sets of keys and values. *)
EXTENDS LSM, TLC

symmetry == Permutations(Key) \union Permutations(Value)
=============================================================================
