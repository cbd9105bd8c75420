---------------------------- MODULE MCGuidedFlow ----------------------------
EXTENDS GuidedFlow, TLC

Symmetry == Permutations(Procs) \cup Permutations(Users)
=============================================================================
