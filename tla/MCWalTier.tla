----------------------------- MODULE MCWalTier -----------------------------
(* Instances of WalTier for TLC.  Payloads are numbers in the order in which *)
(* callers produce them, so no two entries are equal; handles of one kind    *)
(* behave alike and may be permuted.                                         *)
EXTENDS WalTier, TLC

Symmetry == Permutations(Writers) \cup Permutations(Replicas)
=============================================================================
