-------------------------------- MODULE XP --------------------------------
(***************************************************************************)
(* The XP amounts and the level table of internal/domain/xp.go, and the    *)
(* XP a recorded trade is worth (steps 5 of OnTradeRecorded in             *)
(* internal/service/gamification.go).                                      *)
(***************************************************************************)
EXTENDS Integers

XPTradeLogged == 10
XPWinBonus    == 5
XPWinHighRR   == 10
XPDailyStreak == 5
XPStreak7     == 25
XPStreak30    == 100
XPBadgeEarned == 20
XPScreenshot  == 3

(* Rewards of the weekly challenge: 1st, 2nd, 3rd, everybody else.         *)
XPChallenge1st == 50
XPChallenge2nd == 30
XPChallenge3rd == 20
XPChallengeParticip == 10

(***************************************************************************)
(* XP thresholds, the level being the index; titles are only displayed.    *)
(***************************************************************************)
LevelTable == <<0, 50, 150, 350, 600, 1000, 1500, 2200, 3000, 4000>>
Levels == 1..10

(***************************************************************************)
(* The loop keeps the last entry whose threshold is reached and breaks at  *)
(* the first one that is not; an XP below every threshold stays level 1.   *)
(***************************************************************************)
LevelForXP(xp) ==
  CHOOSE l \in Levels :
    /\ l = 1 \/ \A i \in 1..l : xp >= LevelTable[i]
    /\ l = 10 \/ xp < LevelTable[l + 1]

(* The facts of a trade that XP depends on.                                *)
Trade == [win : BOOLEAN, highRR : BOOLEAN, screenshot : BOOLEAN]

TradeXP(t) ==
  XPTradeLogged
    + (IF t.win THEN IF t.highRR THEN XPWinHighRR ELSE XPWinBonus ELSE 0)
    + (IF t.screenshot THEN XPScreenshot ELSE 0)

(* Faulty variant: the bonus of a week is paid on every later day, too.    *)
StreakXPFromDay7(cur) ==
  XPDailyStreak
    + (IF cur >= 7 THEN XPStreak7 ELSE 0)
    + (IF cur = 30 THEN XPStreak30 ELSE 0)

(* XP for a streak that this call brought to cur days.                     *)
StreakXP(cur) ==
  XPDailyStreak
    + (IF cur = 7 THEN XPStreak7 ELSE 0)
    + (IF cur = 30 THEN XPStreak30 ELSE 0)
===========================================================================
