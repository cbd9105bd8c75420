------------------------------ MODULE Rewards ------------------------------
(***************************************************************************)
(* What follows a recorded trade besides its XP: CheckAndAwardBadges and   *)
(* AwardGoalBadge (internal/service/badge.go), CheckGoalCompletion and     *)
(* SetGoal (internal/service/goal.go), over the Badger repositories of     *)
(* badges and goals.                                                       *)
(*                                                                         *)
(* A worker is the goroutine of an update: it checks the badges, ignores   *)
(* their error, and checks the goal (handler.go 606-629), or it handles a  *)
(* /goal command.  A step is one store transaction; AwardXP is one step    *)
(* here, Gamification has its parts.  Which badge conditions hold and      *)
(* whether the goal is reached depends on Notion's trades and may be       *)
(* anything.  A SetGoal read keeps the record it will write back.          *)
(***************************************************************************)
EXTENDS Integers, FiniteSets

CONSTANTS
  Members,     \* Telegram ids
  Workers,     \* goroutines that handle an update
  Badges,      \* the badges that are checked after a trade
  GoalBadge,   \* goal_achiever
  Targets,     \* the goals a member may set
  MaxMonth,    \* bound: the last calendar month
  MaxCalls,    \* bound: updates handled
  MaxErrors,   \* bound: failed transactions
  MaxCrashes   \* bound: restarts of the process

ASSUME RewardsAssumption ==
  /\ GoalBadge \notin Badges
  /\ MaxMonth \in Nat /\ MaxCalls \in Nat /\ MaxErrors \in Nat /\ MaxCrashes \in Nat

VARIABLES
  badges,     \* stored: the badges of each member
  goals,      \* stored: the goal of each member and month
  month,      \* the current month in WIB
  pc, call,   \* each worker's next step and local variables
  calls, errors, crashes,
  badgeXP,    \* how often AwardXP was called for a member's badge
  goalXP,     \* how often AwardXP was called for a member's goal of a month
  disturbed   \* history: members with overlapping or unfinished calls

vars == <<badges, goals, month, pc, call, calls, errors, crashes, badgeXP, goalXP, disturbed>>

Months == 0..MaxMonth
AllBadges == Badges \cup {GoalBadge}

NoGoal == [target |-> "none"]
Goal == [target : Targets, month : Months, achieved : BOOLEAN]

Steps == {"idle", "badges", "hasBadge", "awardBadge", "badgeXP",
          "getGoal", "saveGoal", "goalXP", "readGoal", "writeGoal"}

Call == [member : Members, todo : SUBSET AllBadges, badge : AllBadges,
         goal : Goal \cup {NoGoal}, target : Targets \cup {"none"}]
NoCall == [member |-> "none"]

Init ==
  /\ badges = [m \in Members |-> {}]
  /\ goals = [m \in Members |-> [i \in Months |-> NoGoal]]
  /\ month = 0
  /\ pc = [w \in Workers |-> "idle"]
  /\ call = [w \in Workers |-> NoCall]
  /\ calls = 0 /\ errors = 0 /\ crashes = 0
  /\ badgeXP = [m \in Members |-> [b \in AllBadges |-> 0]]
  /\ goalXP = [m \in Members |-> [i \in Months |-> 0]]
  /\ disturbed = {}

-----------------------------------------------------------------------------
At(w, step) == pc[w] = step

Goto(w, step) == pc' = [pc EXCEPT ![w] = step]

Return(w) ==
  /\ pc' = [pc EXCEPT ![w] = "idle"]
  /\ call' = [call EXCEPT ![w] = NoCall]

Busy(m) == \E w \in Workers : pc[w] # "idle" /\ call[w].member = m

Receive(w, m, step, target) ==
  /\ At(w, "idle")
  /\ calls < MaxCalls
  /\ calls' = calls + 1
  /\ Goto(w, step)
  /\ call' = [call EXCEPT ![w] =
       [member |-> m, todo |-> {}, badge |-> GoalBadge, goal |-> NoGoal, target |-> target]]
  /\ disturbed' = IF Busy(m) THEN disturbed \cup {m} ELSE disturbed
  /\ UNCHANGED <<badges, goals, month, errors, crashes, badgeXP, goalXP>>

TradeRecorded(w, m) == Receive(w, m, "badges", "none")

GoalCommand(w, m, target) == Receive(w, m, "readGoal", target)

-----------------------------------------------------------------------------
(***************************************************************************)
(* CheckAndAwardBadges: the conditions that hold, then badge by badge      *)
(* HasBadge, AwardBadge and AwardXP.                                       *)
(***************************************************************************)
Conditions(w, held) ==
  /\ At(w, "badges")
  /\ call' = [call EXCEPT ![w].todo = held]
  /\ Goto(w, "hasBadge")
  /\ UNCHANGED <<badges, goals, month, calls, errors, crashes, badgeXP, goalXP, disturbed>>

(* Faulty variant: the badge is not looked up.                             *)
HasBadgeNot(w, b) ==
  /\ At(w, "hasBadge") /\ b \in call[w].todo
  /\ call' = [call EXCEPT ![w].todo = @ \ {b}, ![w].badge = b]
  /\ Goto(w, "awardBadge")
  /\ UNCHANGED <<badges, goals, month, calls, errors, crashes, badgeXP, goalXP, disturbed>>

HasBadge(w, b) ==
  /\ At(w, "hasBadge") /\ b \in call[w].todo
  /\ call' = [call EXCEPT ![w].todo = @ \ {b}, ![w].badge = b]
  /\ IF b \in badges[call[w].member] THEN UNCHANGED pc ELSE Goto(w, "awardBadge")
  /\ UNCHANGED <<badges, goals, month, calls, errors, crashes, badgeXP, goalXP, disturbed>>

(* After the badges the goal is checked; the goal's badge comes last.      *)
BadgesDone(w) ==
  /\ At(w, "hasBadge") /\ call[w].todo = {}
  /\ IF call[w].goal = NoGoal THEN Goto(w, "getGoal") /\ UNCHANGED call ELSE Return(w)
  /\ UNCHANGED <<badges, goals, month, calls, errors, crashes, badgeXP, goalXP, disturbed>>

(* Faulty variant: the award is not stored.                                *)
AwardBadgeNot(w) ==
  /\ At(w, "awardBadge")
  /\ Goto(w, "badgeXP")
  /\ UNCHANGED <<badges, goals, month, call, calls, errors, crashes, badgeXP, goalXP, disturbed>>

AwardBadge(w) ==
  /\ At(w, "awardBadge")
  /\ badges' = [badges EXCEPT ![call[w].member] = @ \cup {call[w].badge}]
  /\ Goto(w, "badgeXP")
  /\ UNCHANGED <<goals, month, call, calls, errors, crashes, badgeXP, goalXP, disturbed>>

AwardBadgeXP(w) ==
  /\ At(w, "badgeXP")
  /\ badgeXP' = [badgeXP EXCEPT ![call[w].member][call[w].badge] = @ + 1]
  /\ Goto(w, "hasBadge")
  /\ UNCHANGED <<badges, goals, month, call, calls, errors, crashes, goalXP, disturbed>>

-----------------------------------------------------------------------------
(***************************************************************************)
(* CheckGoalCompletion: GetProgress reads the goal of the current month;   *)
(* if it is reached and was not achieved yet it is marked, and XP and the  *)
(* goal's badge are awarded.                                               *)
(***************************************************************************)
GetProgress(w, reached) ==
  LET g == goals[call[w].member][month] IN
  /\ At(w, "getGoal")
  /\ IF g # NoGoal /\ ~g.achieved /\ reached
     THEN /\ call' = [call EXCEPT ![w].goal = [g EXCEPT !.achieved = TRUE]]
          /\ Goto(w, "saveGoal")
     ELSE Return(w)
  /\ UNCHANGED <<badges, goals, month, calls, errors, crashes, badgeXP, goalXP, disturbed>>

SaveAchieved(w) ==
  LET g == call[w].goal IN
  /\ At(w, "saveGoal")
  /\ goals' = [goals EXCEPT ![call[w].member][g.month] = g]
  /\ Goto(w, "goalXP")
  /\ UNCHANGED <<badges, month, call, calls, errors, crashes, badgeXP, goalXP, disturbed>>

AwardGoalXP(w) ==
  /\ At(w, "goalXP")
  /\ goalXP' = [goalXP EXCEPT ![call[w].member][call[w].goal.month] = @ + 1]
  /\ call' = [call EXCEPT ![w].todo = {GoalBadge}]
  /\ Goto(w, "hasBadge")
  /\ UNCHANGED <<badges, goals, month, calls, errors, crashes, badgeXP, disturbed>>

-----------------------------------------------------------------------------
(* SetGoal reads the month's goal and writes it back: a new one if there   *)
(* is none, the same one if it was achieved.                               *)
(* Faulty variant: an achieved goal is replaced.                           *)
ReadGoalReplaces(w) ==
  /\ At(w, "readGoal")
  /\ call' = [call EXCEPT ![w].goal =
                [target |-> call[w].target, month |-> month, achieved |-> FALSE]]
  /\ Goto(w, "writeGoal")
  /\ UNCHANGED <<badges, goals, month, calls, errors, crashes, badgeXP, goalXP, disturbed>>

ReadGoal(w) ==
  LET g == goals[call[w].member][month] IN
  /\ At(w, "readGoal")
  /\ call' = [call EXCEPT ![w].goal =
       IF g # NoGoal /\ g.achieved THEN g
       ELSE [target |-> call[w].target, month |-> month, achieved |-> FALSE]]
  /\ Goto(w, "writeGoal")
  /\ UNCHANGED <<badges, goals, month, calls, errors, crashes, badgeXP, goalXP, disturbed>>

(* Faulty variant: the goal is stored under the month in which it is saved. *)
WriteGoalNow(w) ==
  /\ At(w, "writeGoal")
  /\ goals' = [goals EXCEPT ![call[w].member][month] = call[w].goal]
  /\ Return(w)
  /\ UNCHANGED <<badges, month, calls, errors, crashes, badgeXP, goalXP, disturbed>>

WriteGoal(w) ==
  /\ At(w, "writeGoal")
  /\ goals' = [goals EXCEPT ![call[w].member][call[w].goal.month] = call[w].goal]
  /\ Return(w)
  /\ UNCHANGED <<badges, month, calls, errors, crashes, badgeXP, goalXP, disturbed>>

-----------------------------------------------------------------------------
(* A step fails.  The error of the badge check is ignored and the goal is  *)
(* checked next; any other error ends the call.                            *)
Error(w) ==
  /\ pc[w] # "idle" /\ errors < MaxErrors
  /\ errors' = errors + 1
  /\ IF pc[w] \in {"badges", "hasBadge", "awardBadge", "badgeXP"} /\ call[w].goal = NoGoal
     THEN Goto(w, "getGoal") /\ UNCHANGED call
     ELSE Return(w)
  /\ disturbed' = disturbed \cup {call[w].member}
  /\ UNCHANGED <<badges, goals, month, calls, crashes, badgeXP, goalXP>>

NextMonth ==
  /\ month < MaxMonth
  /\ month' = month + 1
  /\ UNCHANGED <<badges, goals, pc, call, calls, errors, crashes, badgeXP, goalXP, disturbed>>

Crash ==
  /\ crashes < MaxCrashes
  /\ crashes' = crashes + 1
  /\ disturbed' = disturbed \cup {m \in Members : Busy(m)}
  /\ pc' = [w \in Workers |-> "idle"]
  /\ call' = [w \in Workers |-> NoCall]
  /\ UNCHANGED <<badges, goals, month, calls, errors, badgeXP, goalXP>>

Step(w) ==
  \/ \E held \in SUBSET Badges : Conditions(w, held)
  \/ \E b \in AllBadges : HasBadge(w, b)
  \/ BadgesDone(w) \/ AwardBadge(w) \/ AwardBadgeXP(w)
  \/ \E reached \in BOOLEAN : GetProgress(w, reached)
  \/ SaveAchieved(w) \/ AwardGoalXP(w)
  \/ ReadGoal(w) \/ WriteGoal(w)
  \/ Error(w)

Next ==
  \/ \E w \in Workers, m \in Members : TradeRecorded(w, m)
  \/ \E w \in Workers, m \in Members, t \in Targets : GoalCommand(w, m, t)
  \/ \E w \in Workers : Step(w)
  \/ NextMonth
  \/ Crash

Spec == Init /\ [][Next]_vars

-----------------------------------------------------------------------------
TypeOK ==
  /\ badges \in [Members -> SUBSET AllBadges]
  /\ \A m \in Members, i \in Months :
       goals[m][i] # NoGoal => goals[m][i] \in Goal /\ goals[m][i].month = i
  /\ pc \in [Workers -> Steps]
  /\ \A w \in Workers : call[w] \in Call \/ (call[w] = NoCall /\ pc[w] = "idle")
  /\ badgeXP \in [Members -> [AllBadges -> Nat]]
  /\ goalXP \in [Members -> [Months -> Nat]]
  /\ disturbed \subseteq Members

(***************************************************************************)
(* XP is only paid for what is stored: an award that fails or is cut off   *)
(* never pays for a badge the member does not show (badge.go 111-119), and *)
(* the XP of a goal is only paid to who has set one for that month.        *)
(***************************************************************************)
XPIsBacked ==
  \A m \in Members :
    /\ \A b \in AllBadges : badgeXP[m][b] > 0 => b \in badges[m]
    /\ \A i \in Months : goalXP[m][i] > 0 => goals[m][i] # NoGoal

(***************************************************************************)
(* Unless a member's updates overlap, fail or are cut off, each badge and  *)
(* each achieved goal is paid exactly once, and the goal's badge is there  *)
(* exactly if a goal was ever achieved (badge.go 92-132, goal.go 108-142). *)
(***************************************************************************)
PaidOnceUnlessDisturbed ==
  \A m \in Members \ disturbed : Busy(m) \/
    /\ \A b \in AllBadges : badgeXP[m][b] = (IF b \in badges[m] THEN 1 ELSE 0)
    /\ \A i \in Months :
         goalXP[m][i] = (IF goals[m][i] # NoGoal /\ goals[m][i].achieved THEN 1 ELSE 0)
    /\ GoalBadge \in badges[m] <=> \E i \in Months : goalXP[m][i] = 1

(***************************************************************************)
(* Unless a member's updates overlap, an achieved goal keeps its target    *)
(* and stays achieved, whatever /goal asks for (goal.go 51-61).            *)
(***************************************************************************)
AchievedUnlessDisturbed ==
  [][\A m \in Members \ disturbed', i \in Months :
       goals[m][i] # NoGoal /\ goals[m][i].achieved => goals'[m][i] = goals[m][i]]_vars

(***************************************************************************)
(* badge.go 99, "award if not already earned": a badge's XP is awarded to  *)
(* a member once.                                                          *)
(***************************************************************************)
BadgeXPOnce == \A m \in Members, b \in AllBadges : badgeXP[m][b] <= 1

(***************************************************************************)
(* goal.go 105-107: CheckGoalCompletion is true "if the goal was newly     *)
(* completed on this call", which is once for a goal.                      *)
(***************************************************************************)
GoalCompletedOnce == \A m \in Members, i \in Months : goalXP[m][i] <= 1

(***************************************************************************)
(* goal.go 52: SetGoal updates the goal "only if not yet achieved", so a   *)
(* goal that was paid stays achieved.                                      *)
(***************************************************************************)
PaidGoalIsAchieved ==
  \A m \in Members, i \in Months : goalXP[m][i] > 0 => goals[m][i].achieved

-----------------------------------------------------------------------------
(* The invariant behind these.  What a worker has in hand, by its pc.      *)
WorkerOK(w) ==
  IF pc[w] = "idle" THEN call[w] = NoCall
  ELSE /\ call[w] \in Call
       /\ pc[w] \in {"badges", "getGoal", "readGoal"} => call[w].goal = NoGoal
       /\ pc[w] = "readGoal" => call[w].target \in Targets
       /\ pc[w] \in {"saveGoal", "goalXP", "writeGoal"} => call[w].goal \in Goal
       /\ pc[w] \in {"saveGoal", "goalXP"} => call[w].goal.achieved
       /\ pc[w] \in {"hasBadge", "awardBadge", "badgeXP"} =>
            call[w].todo \subseteq IF call[w].goal = NoGoal THEN Badges ELSE {GoalBadge}
       /\ pc[w] \in {"awardBadge", "badgeXP"} =>
            (call[w].goal = NoGoal <=> call[w].badge \in Badges)

Typed ==
  /\ TypeOK
  /\ call = [w \in Workers |-> call[w]]
  /\ goals \in [Members -> [Months -> Goal \cup {NoGoal}]]
  /\ month \in Months
  /\ \A w \in Workers : WorkerOK(w)

(* What is about to be paid is stored.                                     *)
Backed(w) ==
  /\ pc[w] = "badgeXP" => call[w].badge \in badges[call[w].member]
  /\ pc[w] \in {"saveGoal", "goalXP"} => goals[call[w].member][call[w].goal.month] # NoGoal

Achieved(m, i) == goals[m][i] # NoGoal /\ goals[m][i].achieved

(* All that a member earned is paid,                                       *)
Paid(m) ==
  /\ \A b \in AllBadges : badgeXP[m][b] = (IF b \in badges[m] THEN 1 ELSE 0)
  /\ \A i \in Months : goalXP[m][i] = (IF Achieved(m, i) THEN 1 ELSE 0)
  /\ GoalBadge \in badges[m] <=> \E i \in Months : goalXP[m][i] = 1

ToAwardGoalBadge(w) ==
  /\ call[w].goal # NoGoal
  /\ pc[w] = "awardBadge" \/ (pc[w] = "hasBadge" /\ call[w].todo # {})

(* or all but what worker w has stored and is about to pay or to award; it *)
(* only awards and completes what was not yet, and keeps what was.         *)
PaidBut(m, w) ==
  /\ \A b \in AllBadges : badgeXP[m][b] =
       (IF b \in badges[m] /\ ~(pc[w] = "badgeXP" /\ call[w].badge = b) THEN 1 ELSE 0)
  /\ \A i \in Months : goalXP[m][i] =
       (IF Achieved(m, i) /\ ~(pc[w] = "goalXP" /\ call[w].goal.month = i) THEN 1 ELSE 0)
  /\ (GoalBadge \in badges[m] \/ ToAwardGoalBadge(w)) <=> \E i \in Months : goalXP[m][i] = 1
  /\ pc[w] = "awardBadge" => call[w].badge \notin badges[m]
  /\ pc[w] = "badgeXP" => call[w].badge \in badges[m]
  /\ pc[w] = "saveGoal" => ~Achieved(m, call[w].goal.month)
  /\ pc[w] = "goalXP" => Achieved(m, call[w].goal.month)
  /\ pc[w] = "writeGoal" => IF Achieved(m, call[w].goal.month)
                            THEN call[w].goal = goals[m][call[w].goal.month]
                            ELSE ~call[w].goal.achieved

Serves(w, m) == pc[w] # "idle" /\ call[w].member = m

Account(m) ==
  /\ \A v, w \in Workers : Serves(v, m) /\ Serves(w, m) => v = w
  /\ (\A w \in Workers : ~Serves(w, m)) => Paid(m)
  /\ \A w \in Workers : Serves(w, m) => PaidBut(m, w)

IInv ==
  /\ Typed /\ XPIsBacked
  /\ \A w \in Workers : Backed(w)
  /\ \A m \in Members \ disturbed : Account(m)
=============================================================================
