---------------------------- MODULE MCCommunity -----------------------------
(* A small instance of Community for TLC.  The members are alike: the      *)
(* lists are taken in every order.                                         *)
EXTENDS Community

Symmetry == Permutations(Members)
=============================================================================
