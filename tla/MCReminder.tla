----------------------------- MODULE MCReminder -----------------------------
(* Days of two hours; the job is due in every hour.                        *)
EXTENDS Reminder, TLC

MCDue == [j \in Jobs |-> Hours]
Symmetry == Permutations(Users)
=============================================================================
