------------------------------ MODULE Periods -------------------------------
(***************************************************************************)
(* What a trade counts for: the month's goal and report card, the week's   *)
(* challenge and report (internal/service/goal.go, reportcard.go,          *)
(* challenge.go, report.go and the jobs of cmd/bot/main.go), over the      *)
(* calendars of Calendar.                                                  *)
(*                                                                         *)
(* A trade gets its date when it is recorded and is in Notion only after   *)
(* several requests; who reads the trades does so at a time of his own and *)
(* often looks at the clock a second time.  The clock moves on between     *)
(* any two of these steps, but a call is answered or given up within       *)
(* MaxLatency.  A crash drops what is under way.                           *)
(*                                                                         *)
(* One member: periods of different members do not touch.  Who wins what,  *)
(* and races within one record, are the subject of Challenge and Rewards.  *)
(***************************************************************************)
EXTENDS Calendar, FiniteSets

CONSTANTS
  ReportHour,   \* cfg.ReportHour, in units after midnight WIB
  MaxLatency,   \* a call takes less than this many units
  Targets,      \* the targets of goals (number of trades)
  MaxTime,      \* bound: the last instant
  MaxTrades     \* bound: trades recorded

ASSUME PeriodsAssumption ==
  /\ ReportHour \in 0..DayLen - 1
  /\ MaxLatency \in Nat \ {0}
  /\ Targets \subseteq Nat \ {0}
  /\ MaxTime \in Nat /\ MaxTrades \in Nat

Jobs == {"challenge-finalize", "monthly-report-card", "weekly-report"}
Mondays == {Monday(d) : d \in 0..WIBDay(MaxTime)}
Months == {FirstOfMonth(d) : d \in 0..WIBDay(MaxTime)}
None == [none |-> TRUE]

VARIABLES
  now,         \* time.Now()
  recorded,    \* the number of trades recorded
  saving,      \* trades between getting their date and being in Notion
  saved,       \* the trades in Notion
  goals,       \* per month, the goal
  check,       \* CheckGoalCompletion under way
  cards,       \* per month, the trades of the cached report card
  card,        \* GenerateMonthlyReport under way
  challenges,  \* per week, the challenge and its final standings
  report,      \* the last weekly report posted
  ran          \* the jobs marked as run in this hour

periodsVars == <<now, recorded, saving, saved, goals, check, cards, card, challenges, report, ran>>
trades == <<recorded, saving, saved>>

PeriodsInit ==
  /\ now = 0 /\ recorded = 0
  /\ saving = {} /\ saved = {}
  /\ goals = [m \in Months |-> None]
  /\ check = None
  /\ cards = [m \in Months |-> None]
  /\ card = None
  /\ challenges = [w \in Mondays |-> None]
  /\ report = None
  /\ ran = {}

-----------------------------------------------------------------------------
(* Trades.  The date is that of time.Now().UTC(), formatted as a day.      *)
Record ==
  /\ recorded < MaxTrades
  /\ recorded' = recorded + 1
  /\ saving' = saving \cup {[id |-> recorded + 1, day |-> UTCDay(now), since |-> now]}
  /\ UNCHANGED <<now, saved, goals, check, cards, card, challenges, report, ran>>

Save ==
  /\ \E t \in saving :
       /\ saving' = saving \ {t}
       /\ saved' = saved \cup {[id |-> t.id, day |-> t.day]}
  /\ UNCHANGED <<now, recorded, goals, check, cards, card, challenges, report, ran>>

-----------------------------------------------------------------------------
(* Goals.  A goal is written under the month of the clock in WIB; one that *)
(* is achieved keeps its target.                                           *)
ThisMonth == FirstOfMonth(WIBDay(now))

SetGoal(target) ==
  /\ goals[ThisMonth] # None => ~goals[ThisMonth].achieved
  /\ goals' = [goals EXCEPT ![ThisMonth] = [target |-> target, achieved |-> FALSE]]
  /\ UNCHANGED <<now, trades, check, cards, card, challenges, report, ran>>

(* CheckGoalCompletion, after a trade: the clock is read and the goal.     *)
CheckGoal ==
  /\ check = None /\ saved # {}
  /\ goals[ThisMonth] # None /\ ~goals[ThisMonth].achieved
  /\ check' = [pc |-> "trades", month |-> ThisMonth, target |-> goals[ThisMonth].target,
               since |-> now]
  /\ UNCHANGED <<now, trades, goals, cards, card, challenges, report, ran>>

ReadTrades ==
  /\ check # None /\ check.pc = "trades"
  /\ check' = [pc |-> "count", month |-> check.month, target |-> check.target,
               since |-> check.since, trades |-> saved]
  /\ UNCHANGED <<now, trades, goals, cards, card, challenges, report, ran>>

(* Faulty variant: all the member's trades count.                          *)
CountAllTrades ==
  /\ check # None /\ check.pc = "count"
  /\ goals' = IF Cardinality(check.trades) >= check.target
              THEN [goals EXCEPT ![check.month] = [target |-> check.target, achieved |-> TRUE]]
              ELSE goals
  /\ check' = None
  /\ UNCHANGED <<now, trades, cards, card, challenges, report, ran>>

(* The clock is read again for the beginning of the month; the goal that   *)
(* was read is saved as achieved.                                          *)
CountTrades ==
  /\ check # None /\ check.pc = "count"
  /\ LET counted == {t \in check.trades : SinceMonth(t.day, ThisMonth)} IN
       goals' = IF Cardinality(counted) >= check.target
                THEN [goals EXCEPT ![check.month] = [target |-> check.target, achieved |-> TRUE]]
                ELSE goals
  /\ check' = None
  /\ UNCHANGED <<now, trades, cards, card, challenges, report, ran>>

-----------------------------------------------------------------------------
(* The jobs.  A job that is due runs, if a tick falls into the hour.       *)
Due(j) == WIBHour(now) = ReportHour /\ j \notin ran

(* The challenge of a week is there once it was announced or asked for.    *)
CreateChallenge(day) ==
  /\ challenges[Monday(day)] = None
  /\ challenges' = [challenges EXCEPT ![Monday(day)] = [final |-> FALSE]]
  /\ UNCHANGED <<now, trades, goals, check, cards, card, report, ran>>

(* On Sunday the trades within the week's window are ranked, for good.     *)
FinalizeChallenge ==
  LET week == Monday(WIBDay(now)) IN
  /\ Due("challenge-finalize") /\ IsSunday(WIBDay(now))
  /\ ran' = ran \cup {"challenge-finalize"}
  /\ challenges' = IF challenges[week] = None \/ challenges[week].final THEN challenges
                   ELSE [challenges EXCEPT ![week] =
                     [final |-> TRUE, counted |-> {t \in saved : InChallenge(t.day, week)}]]
  /\ UNCHANGED <<now, trades, goals, check, cards, card, report>>

(* The weekly report, on the day configured, by default Sunday, WIB, of    *)
(* the week that it is in UTC.                                             *)
WeeklyReport ==
  LET week == Monday(UTCDay(now)) IN
  /\ Due("weekly-report") /\ IsSunday(WIBDay(now))
  /\ ran' = ran \cup {"weekly-report"}
  /\ report' = [week |-> week, counted |-> {t \in saved : InReport(t.day, week)}]
  /\ UNCHANGED <<now, trades, goals, check, cards, card, challenges>>

LastMonth == FirstOfMonth(ThisMonth - 1)

(* Faulty variant: the card is that of the month that has begun.           *)
CurrentReportCard ==
  /\ Due("monthly-report-card") /\ WIBDay(now) \in FirstDays /\ WIBDay(now) > 0 /\ card = None
  /\ ran' = ran \cup {"monthly-report-card"}
  /\ card' = IF cards[ThisMonth] = None
             THEN [pc |-> "trades", month |-> ThisMonth, since |-> now] ELSE None
  /\ UNCHANGED <<now, trades, goals, check, cards, challenges, report>>

(* On the first of a month the card of the month before is generated,      *)
(* unless it is cached.                                                    *)
MonthlyReportCard ==
  /\ Due("monthly-report-card") /\ WIBDay(now) \in FirstDays /\ WIBDay(now) > 0 /\ card = None
  /\ ran' = ran \cup {"monthly-report-card"}
  /\ card' = IF cards[LastMonth] = None
             THEN [pc |-> "trades", month |-> LastMonth, since |-> now] ELSE None
  /\ UNCHANGED <<now, trades, goals, check, cards, challenges, report>>

ReadMonth ==
  /\ card # None /\ card.pc = "trades"
  /\ card' = [pc |-> "save", month |-> card.month, since |-> card.since,
              trades |-> {t \in saved : InMonth(t.day, card.month)}]
  /\ UNCHANGED <<now, trades, goals, check, cards, challenges, report, ran>>

(* The card is saved; an error of the store is ignored.                    *)
SaveReportCard ==
  /\ card # None /\ card.pc = "save"
  /\ cards' \in {[cards EXCEPT ![card.month] = [trades |-> card.trades]], cards}
  /\ card' = None
  /\ UNCHANGED <<now, trades, goals, check, challenges, report, ran>>

-----------------------------------------------------------------------------
(* A call to Notion fails, or a member is not listed.                      *)
GiveUp ==
  /\ \/ \E t \in saving : saving' = saving \ {t} /\ UNCHANGED <<check, card>>
     \/ check # None /\ check' = None /\ UNCHANGED <<saving, card>>
     \/ card # None /\ card' = None /\ UNCHANGED <<saving, check>>
  /\ UNCHANGED <<now, recorded, saved, goals, cards, challenges, report, ran>>

Late(since) == now - since >= MaxLatency

PassTime ==
  /\ now < MaxTime
  /\ \A t \in saving : ~Late(t.since)
  /\ check # None => ~Late(check.since)
  /\ card # None => ~Late(card.since)
  /\ now' = now + 1
  /\ ran' = {}
  /\ UNCHANGED <<trades, goals, check, cards, card, challenges, report>>

ProcessStops ==
  /\ saving' = {} /\ check' = None /\ card' = None /\ ran' = {}
  /\ UNCHANGED <<now, recorded, saved, goals, cards, challenges, report>>

PeriodsNext ==
  \/ Record \/ Save
  \/ \E target \in Targets : SetGoal(target)
  \/ CheckGoal \/ ReadTrades \/ CountTrades
  \/ CreateChallenge(WIBDay(now)) \/ CreateChallenge(UTCDay(now))
  \/ FinalizeChallenge \/ WeeklyReport
  \/ MonthlyReportCard \/ ReadMonth \/ SaveReportCard
  \/ GiveUp \/ PassTime \/ ProcessStops

PeriodsSpec == PeriodsInit /\ [][PeriodsNext]_periodsVars

-----------------------------------------------------------------------------
(***************************************************************************)
(* What holds between any two steps.                                       *)
(***************************************************************************)
InTime(since) == since \in 0..now /\ now <= since + MaxLatency

PeriodTypes ==
  /\ now \in 0..MaxTime /\ recorded \in Nat
  /\ saved \subseteq [id : Nat, day : Nat] /\ IsFiniteSet(saved)
  /\ \A t \in saved : t.day <= UTCDay(now)
  /\ goals \in [Months -> {None} \cup [target : Nat, achieved : BOOLEAN]]
  /\ DOMAIN cards = Months
  /\ DOMAIN challenges = Mondays

(* A trade's date is not older than a call can take.                       *)
SavingInTime ==
  \A t \in saving : t.id \in Nat /\ InTime(t.since) /\ t.day = UTCDay(t.since)

(* The month that is checked is that of the first reading of the clock.    *)
CheckInTime ==
  check # None =>
    /\ InTime(check.since)
    /\ check.month = FirstOfMonth(WIBDay(check.since))
    /\ check.target \in Nat
    /\ check.pc = "count" => check.trades \subseteq saved

ClockIInv == PeriodTypes /\ SavingInTime /\ CheckInTime

OfMonth(m) == {t \in saved : FirstOfMonth(t.day) = m}

(* No trade of the month is still on its way.                              *)
Over(m) == ~IsLast(m) /\ MidnightUTC(NextMonth(m)) + MaxLatency <= now

CardOver ==
  /\ \A m \in Months : cards[m] # None => Over(m)
  /\ card # None =>
       /\ card.month \in FirstDays /\ Over(card.month)
       /\ card.pc = "save" => card.trades = OfMonth(card.month)

-----------------------------------------------------------------------------
(***************************************************************************)
(* reportcard.go 40-45, 201: a card is kept for good, so it must not be    *)
(* taken before the last trade of its month is in Notion: the card holds   *)
(* every trade of the month that is ever saved.  That is so because trades *)
(* keep arriving for a month until Offset after its end, and the job runs  *)
(* later than that by more than a call can take.                           *)
(***************************************************************************)
CardsAreComplete ==
  \A m \in Months : cards[m] # None =>
    cards[m].trades = OfMonth(m)

(***************************************************************************)
(* challenge.go 55-64 and 100, report.go 60: although weeks begin at       *)
(* midnight WIB or UTC and dates are UTC days, a challenge and a report    *)
(* count exactly the trades dated on the seven days of their week among    *)
(* those in Notion at that time, whoever created the challenge and with    *)
(* whichever clock; so no trade counts for two weeks.                      *)
(***************************************************************************)
Final(w) == challenges[w] # None /\ challenges[w].final

CountsForItsWeek ==
  [][/\ \A w \in Mondays : Final(w)' /\ ~Final(w) =>
          challenges'[w].counted = {t \in saved : Monday(t.day) = w}
     /\ report' # report =>
          report'.counted = {t \in saved : Monday(t.day) = report'.week}]_periodsVars

(***************************************************************************)
(* goal.go 78-88 and 171-179: the month of a goal and the beginning of the *)
(* month its trades are counted from come from two readings of the clock,  *)
(* with a call to Notion in between; an achieved goal is still backed by   *)
(* as many trades of its own month as it asks for.                         *)
(***************************************************************************)
GoalIsBacked ==
  \A m \in Months : goals[m] # None /\ goals[m].achieved =>
    Cardinality(OfMonth(m)) >= goals[m].target

(***************************************************************************)
(* domain/challenge.go 51, "Member dengan trade terbanyak minggu ini" (of  *)
(* this week): every trade of a week counts in its final standings.  It    *)
(* does not: the standings are taken on Sunday at the report hour.         *)
(***************************************************************************)
WeekIsCounted ==
  \A w \in Mondays : Final(w) =>
    challenges[w].counted = {t \in saved : Monday(t.day) = w}
=============================================================================
