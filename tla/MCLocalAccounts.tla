-------------------------- MODULE MCLocalAccounts --------------------------
(***************************************************************************)
(* Two request threads, whose roles are the same.                          *)
(***************************************************************************)
EXTENDS LocalAccounts, TLC

MCSymmetry == Permutations(Requests)
=============================================================================
