------------------------------- MODULE MCDtx -------------------------------
(* Instances of Dtx for TLC.                                               *)
EXTENDS Dtx
CONSTANTS c1, c2
\* The client threads are interchangeable.
CallerSymmetry == Permutations(Callers)
=============================================================================
