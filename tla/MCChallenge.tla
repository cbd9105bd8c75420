----------------------------- MODULE MCChallenge -----------------------------
(* Weeks of two hours: the challenge is announced in the first hour and    *)
(* finalized in the second.  Hour 0 is over before a ticker can tick.      *)
EXTENDS Challenge, TLC

MCDue == [j \in Jobs |-> {h \in Hours : h % WeekLen = IF j = Announce THEN 0 ELSE 1}]
Symmetry == Permutations(Members)
=============================================================================
