----------------------------- MODULE MCRewards -----------------------------
(* Small instances of Rewards for TLC.                                     *)
EXTENDS Rewards, TLC

Symmetry == Permutations(Workers) \cup Permutations(Members)
              \cup Permutations(Badges) \cup Permutations(Targets)
=============================================================================
