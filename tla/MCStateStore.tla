---------------------------- MODULE MCStateStore ----------------------------
(* StateStore on a small instance; clients are interchangeable. *)
EXTENDS StateStore, TLC

ClientSymmetry == Permutations(Clients)
=============================================================================
