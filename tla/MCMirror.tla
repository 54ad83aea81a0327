------------------------------ MODULE MCMirror ------------------------------
(* Requests are interchangeable.                                           *)
EXTENDS Mirror, TLC

ClientSymmetry == Permutations(Client)
=============================================================================
