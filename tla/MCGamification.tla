--------------------------- MODULE MCGamification ---------------------------
(* Small instances of Gamification for TLC.                                *)
EXTENDS Gamification, TLC

(* No code sets a trade's ScreenshotURL, so no trade has a screenshot when  *)
(* its XP is computed.                                                      *)
MCTrades == {[win |-> TRUE, highRR |-> FALSE, screenshot |-> FALSE]}

(* The XP awarded for a badge.                                              *)
MCAwards == {XPBadgeEarned}

(***************************************************************************)
(* The state in which the bot is after everyone recorded a winning trade   *)
(* on each of the six days before: the next one reaches the milestone.     *)
(***************************************************************************)
AfterSixDays ==
  LET xp == 6 * (XPTradeLogged + XPWinBonus + XPDailyStreak) IN
  /\ profile = [m \in Members |-> [xp |-> xp, level |-> LevelForXP(xp)]]
  /\ streak = [m \in Members |->
       [current |-> 6, longest |-> 6, last |-> FirstDay - 1]]
  /\ logged = [m \in Members |-> xp]
  /\ pc = [w \in Workers |-> "idle"]
  /\ call = [w \in Workers |-> NoCall]
  /\ today = FirstDay
  /\ calls = 0 /\ errors = 0 /\ crashes = 0
  /\ granted = [m \in Members |-> xp]
  /\ worked = [m \in Members |-> (FirstDay - 6)..(FirstDay - 1)]
  /\ bonus = [m \in Members |-> 6 * XPDailyStreak]
  /\ disturbed = {}

MCSpec == (Init \/ AfterSixDays) /\ [][Next]_vars

Symmetry == Permutations(Workers) \cup Permutations(Members)
=============================================================================
