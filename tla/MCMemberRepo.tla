---------------------------- MODULE MCMemberRepo ----------------------------
(* Small instances of MemberRepo for TLC.                                  *)
EXTENDS MemberRepo, TLC

Symmetry == Permutations(Workers) \cup Permutations(Members)
=============================================================================
