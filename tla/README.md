# A verification development for ark-vault

ark-vault is a Telegram bot in Go that keeps trading journals: members log
trades in a chat, trades are stored in Notion, and a gamification layer (XP,
levels, streaks, badges, goals, a weekly challenge, reminders, report cards) is
kept in a local Badger store. This directory holds TLA+ modules of its parts,
TLC configurations that check them on small instances, and proofs for TLAPS.
Paths below are relative to `src/`.

How to run: `tlc -config X.cfg M` for a configuration `X.cfg` of module `M`
(the name of the configuration begins with the name of its module), and
`tlapm M.tla` for a proof module. `PROJECT.json` lists every run with its
properties, the source lines of every definition, the mutants, the findings,
the hazards and the theorems.

## 1. Inventory

### What runs concurrently

- `Bot.Start` (`internal/adapter/telegram/bot.go` 35-57) polls Telegram and
  starts **one goroutine per update**, without ordering between them and
  without a limit. Two updates of one user may be handled side by side.
- `Scheduler.Start` (`internal/scheduler/scheduler.go` 41-47) starts one
  goroutine per job: weekly report, challenge announcement, challenge
  finalization, daily reminder, monthly report card.
- Two clean-up loops (`guided.go` 196-214, `ratelimit.go` 77-97).

No service locks a member's records. Every call of the Badger store is one
transaction, and a read-modify-write is always two of them. What is in memory
(the polling offset, the scheduler's marks, guided sessions, the member cache,
rate limits, the owner's notices) is gone after a restart; `main.go` 125-136
cancels the context without waiting for handlers.

### Components

| component | state | operations | hard behaviour | what makes it correct |
|---|---|---|---|---|
| Gamification `internal/service/gamification.go` | profile (XP, level), streak, XP events (stored) | `OnTradeRecorded`, `AwardXP` | lost updates, midnight within a call, failure between three saves | nothing is invented; exact when nothing interferes |
| Scheduler `internal/scheduler/scheduler.go` | tickers, last hour run (memory) | `runJob`, `MarkAndCheck` | slow bodies, dropped ticks, restarts around the due hour | at most one run per hour; due hours are not missed |
| Challenge `internal/service/challenge.go` | the week's challenge (stored) | `GetOrCreateChallenge`, `FinalizeChallenge`, the jobs, `/challenge` | a reopened challenge, failure in the middle of paying | prizes of one ranking, once; final means paid |
| Badges and goals `internal/service/badge.go`, `goal.go` | badge awards, monthly goals (stored) | `CheckAndAwardBadges`, `AwardGoalBadge`, `SetGoal`, `CheckGoalCompletion` | check-then-award races, award stored but not paid | paid once, only if stored; achieved stays achieved |
| Reminders `internal/service/reminder.go` | preferences (stored) | `SetReminder`, `GetDueReminders`, the job | two clock reads, trades logged meanwhile | one reminder, at the hour chosen, for those who have not logged |
| Guided journal `internal/adapter/telegram/guided.go`, `handler.go` 419-656 | sessions with a mutex each (memory) | start, buttons, text, photo, confirm, cancel, expiry | buttons of old prompts, double confirm, expiry in use, mutex held over Notion calls | recorded once, from what was confirmed; no deadlock |
| Members and trades `internal/adapter/notion/member.go`, `trade.go` | pages and databases (Notion), cache (memory) | `EnsureMember`, `GetMember`, `ListMembers`, `SaveTrade`, `GetTrades` | fuzzy search, search-then-create race, empty cache after restart | one page, own database, all members listed |
| Rate limiter `internal/adapter/telegram/ratelimit.go` | times per user (memory) | `Allow`, clean-up | window boundary | an exact sliding window |
| Polling `internal/adapter/telegram/bot.go` | offset (memory) | `getUpdates`, dispatch | failed polls, restarts | in order, once per process, none skipped |
| Update handling `internal/adapter/telegram/handler.go` 80-185 | notices to the owner (memory) | rate limit, authorization, routing | unsynchronized map, stale membership | only members are served; one notice an hour; listed commands are reached |
| Statistics `internal/domain/stats.go` | none | `CalculateStats` | order of the trades, open trades, zero values | totals and streaks by definition |
| Reports, leaderboard `internal/service/report.go`, `leaderboard.go` | none | `GenerateWeeklySummary`, `GetLeaderboard` | members that are not listed or cannot be read, sorts of their own, the week of a report | the rankings of the program agree; a trade counts for one week |
| Report card `internal/service/reportcard.go` | a card per member and month, kept for good (stored) | `GenerateMonthlyReport`, the monthly job | a card taken before the month's last trade is saved | a card is complete |
| Analytics `internal/service/analytics.go`, `internal/adapter/badger/analytics.go` | an analysis per member, for 24 hours (stored) | `/analyze` | overlapping analyses, store and AI failing, one page of Notion's answer | nothing older is shown than the cache allows; the AI is asked once a day |
| Parser `internal/adapter/telegram/parser.go`, `internal/service/journal.go` | none | one message to a trade | results said twice, a result that is a number or a word, zero | a trade counts as it was written |
| Time zones (used by the jobs, challenge, goals, badges, reports) | none | midnights, weeks and months of UTC and WIB | trade dates are UTC days, periods begin at midnight WIB | no trade counts for two periods |
| Sender, formatter, exporters, Gemini, images, configuration | none | output, requests, environment | results mostly ignored | not modelled, except the upload of a guided session as one step |

How they interact: `Bot` hands an update to `Handler.HandleUpdate`, which asks
the rate limiter and Telegram (`Gate`), looks for a guided session
(`GuidedFlow`) and otherwise routes a command. A journal submission calls
`JournalService.RecordTrade` (`MemberRepo`), then `OnTradeRecorded`
(`Gamification`), then badges and goal (`Rewards`), all in the goroutine of the
update and ignoring errors of the later ones. Jobs of the `Scheduler` call the
challenge, reminder and report services. What these and the commands compute
from the trades of the members, they read from Notion each time: `Community`
has what they make of it, `Periods` which trades they take.

## 2. Modules

| module | models | state and actions |
|---|---|---|
| `XP` | `domain/xp.go`, the XP of a trade | pure operators |
| `Gamification` (extends `XP`) | the gamification service over its store | one action per store transaction: `GetProfile`, `GetStreak`, `Compute` (clock and arithmetic), `SaveProfile`, `SaveStreak`, `AppendXPEvent`; `AwardXP`; `StoreError`, `Crash`, `NextDay` |
| `Scheduler` | tickers and hour marks | `PassMinute`, `StartTicker`, `Fire`, `Skip`, `Finish`, `Restart` |
| `Challenge` (extends `Scheduler`, `XP`) | challenge service with its two jobs | `FinalizeStart` ... `SaveFinalized`, `FinalizeError`, `AnnounceSave`, `HandleChallenge`, `SaveFails` |
| `Reminder` (extends `Scheduler`) | reminder service with its job | `ListEnabledReminders`, `ReadClock`, `Check`, `Send`, `SetReminder`, `RecordTrade`, `SaveStreak` |
| `Rewards` | badges and goals | `HasBadge`, `AwardBadge`, `AwardBadgeXP`, `GetProgress`, `SaveAchieved`, `ReadGoal`, `WriteGoal` |
| `TradeEntry` | what a guided session promises about its trade | `Edit`, `Submit`, `Store`, `End` |
| `GuidedFlow` | guided sessions and their handlers; refines `TradeEntry` | `Get`, `Lock`, `Apply`, `Submit`, `Record`, `Upload`, `Reward`, `RemoveSession`, `CleanUp`, `Expire` |
| `MemberRepo` | members, databases and trades in Notion | `Search`, `CreatePage`, `CreateDB`, `Find`, `SaveTrade`, ... |
| `SlidingWindow` | what a rate limiter promises | `Tick`, `Request`, `Restart` |
| `RateLimiter` | the rate limiter; refines `SlidingWindow` | `Tick`, `Allow`, `Cleanup`, `NewLimiter` |
| `BotPolling` | long polling | `SendUpdate`, `GetUpdates`, `StartHandler`, `GetUpdatesFails`, `RestartBot` |
| `Gate` (extends `RateLimiter`) | from an update to its command, all commands through one limiter | `Receive`, `Limit`, `Check`, `TestNotified`, `Notify`, `Route`, `Serve`, `EndSession`, `JoinOrLeave`, `PassTime`, `Restart` |
| `Calendar` | the days, weeks and months of UTC and WIB | pure operators |
| `Periods` (extends `Calendar`) | what a trade counts for: goal, report card, challenge, weekly report | `Record`, `Save`; `SetGoal`, `CheckGoal`, `ReadTrades`, `CountTrades`; `CreateChallenge`, `FinalizeChallenge`, `WeeklyReport`; `MonthlyReportCard`, `ReadMonth`, `SaveReportCard`; `GiveUp`, `PassTime`, `ProcessStops` |
| `Analytics` | `/analyze` and its cache | `SaveTrade`, `Analyze`, `Hit`, `Miss`, `ReadTrades`, `Ask`, `Save`, `Fail`, `PassTime` |
| `Stats` | `CalculateStats` and what its figures mean | pure operators |
| `Journal` | a message, the trade it makes, and that trade as read back from Notion | pure operators |
| `Community` (extends `Stats`, `Journal`) | the trades of the members and everything computed from them: `/stats`, leaderboard, weekly report, standings of the challenge, the badge streak, the figures of card and analysis | `HandleTextJournal`, `SubmitGuidedTrade`, `NextDay`; the rest are operators over the state |
| `SchedulerProofs`, `ChallengeProofs`, `ReminderProofs`, `MemberRepoProofs` | theorems about the module of the name | |
| `ProgressProofs` | theorems about `Gamification` and `Periods` | |
| `JournalProofs` | theorems about `GuidedFlow` and `Community`, with what `Stats` and `Journal` compute | |
| `StoreProofs` | theorems about `Rewards` and `Analytics` | |
| `TelegramProofs` | theorems about `RateLimiter`, `Gate`, which runs it, and `BotPolling` | |
| `MC...` | values of constants for TLC | |

Conventions. An action is one store transaction, one request, one critical
section of a mutex, or the computation between them, so every interleaving the
Go program has is an interleaving of actions. An error that a call may return is
a choice; a request to Notion may also take effect and still report an error. A
crash empties exactly the variables that are in memory. History variables
(`granted`, `worked`, `disturbed`, `fired`, `standings`, ...) are marked as such,
are never read by an action's guard, and only serve the properties. "Disturbed"
always means: calls for that member overlapped, failed or were cut off by a
restart. Definitions commented "Faulty variant" are not used by any
specification; they are the mutants by which each property is shown to depend on
the code (`PROJECT.json`, "mutants").

What the data is abstracted to. A trade is the facts that the module's property
depends on: those XP depends on (`XP`), asset, status, RR and day (`Community`),
the number and date (`Periods`), nothing but when it was saved (`Analytics`). A
date is a day number in WIB (`Gamification`, `Reminder`), a clock hour
(`Scheduler` and what extends it), or an instant from which the days of both
zones are computed (`Periods`). A message is its lines by field, since lines for
different fields do not touch; of its symbol lines the last one counts. Notion's
search answers an arbitrary page or none, and an answer that is not the member's
page counts as disturbing the member. A library sort that is not stable, and
Notion's sort by a date without time, may return any permutation that is in
order. Rates are pairs of numerator and denominator.

What is not composed. `Challenge` takes the ranking as arbitrary, so that its
properties hold for whatever ranking `Community` computes, and `Periods` takes
the set of the week's trades without who made them. Each has what the other
leaves open as an input. A composition would multiply the lists of trades of
`Community` (112,000 states without any process) by the processes of the other
two, and its properties would be those of the parts. In the same way `Rewards` takes the conditions of badges and the
progress of goals as arbitrary; `Community` has the one condition that depends
on an order (the win streak), `Periods` the goal that counts trades.

## 3. Runs

### Passing runs

| run | instance | states | what it shows |
|---|---|---|---|
| `gamification` | 2 members, 2 handlers, 3 calls, 4 days (the seventh to the tenth), 1 error, 1 crash; from an empty store, or from members with a streak of six days | 0.6 M | under every interleaving, failure, crash and midnight a stored streak claims no day without a trade, XP is never overstated and the level is that of the XP; for a member whose calls did not interfere XP, streak and streak XP (with the bonus of day seven) are exact, whatever happens to the other member. (Its type invariant is not in the run: it is proved) |
| `challenge` | 2 jobs, 2 members, 1 handler, 2 weeks of 2 hours of 2 minutes, 1 error, 1 restart | 0.6 M | no job runs twice for a clock hour; prizes of a week follow one ranking; a final challenge is paid |
| `guided` | 1 user, 2 handlers, 2 sessions, 6 updates | 2.9 M | the flow implements `TradeEntry`: a session stores at most one trade, complete and as it was submitted, whatever buttons are pressed, whatever expires, and after a lost answer of Notion; a recorded session does not stay active; whoever holds a mutex can take its next step |
| `member_repo` | 2 members, 2 handlers, 3 pages, 4 calls, 1 error, 1 restart | 0.5 M | no trade lands in another member's database; an undisturbed member has one page, every call that uses it knows its database |
| `rewards` | 2 members, 2 handlers, 2 targets, 4 calls, 1 error, 1 crash | 0.4 M | XP is only paid for a badge or goal that is stored; undisturbed, both are paid once and an achieved goal stays as it is |
| `polling` | 4 updates, 2 errors, 2 restarts, fair | 7 k | handlers start in order, once per process, none is skipped, and every update is started at last |
| `gate` | 1 user, 2 handlers, 2 texts, 1 command per 2 ticks, 4 ticks (an hour is 1), 3 commands, 1 restart | 1.8 M | only members are served; one notice an hour unless denied side by side or restarted; the limiter, under concurrent handlers, clean-up and restart, implements `SlidingWindow`, and no period of the window's length holds more than the maximum; no deadlock |
| `reminder` | 1 user, 4 hours of 2 minutes (2 hours a day), 2 changes, any trades, 1 error, 1 restart | 3.9 M | nobody is reminded twice for an hour unless the hour ends between the two clock reads; a job that is never late and does not fail serves a standing preference at its hour and at no other; who logged a trade for that day and is reminded did so while the job was at work, or a slow call has put the date back |
| `community` | 3 members, 2 days (the week begins on the second), 3 trades from every message of up to 2 result lines, 2 asset types, and from the guided flow (where the RR of one result may survive into another); a report of 2 places | 0.1 M | the figures of `/stats`, card and analysis are those of the trades, in whatever order they come; report, leaderboard and challenge rank alike; the badge streak is determined but for the order within a day; a trade counts as its message says |
| `periods` | days of 3 units, WIB 1 ahead, weeks of 3 days, months beginning on days 0 and 2, report hour 2, a call ends at the latest in the unit after the one it began in, 11 instants, 2 trades, goals of 1 and 2 trades | 0.5 M | a cached report card is complete; an achieved goal is backed by trades of its month although its clock is read twice; challenge and weekly report count the trades dated in their week, whichever clock created the challenge |
| `analytics` | 2 handlers, a cache of 2 units, one page of 2 trades, 7 instants, 3 trades | 0.9 M | no analysis shown is older than the cache and one call allow, whatever overlaps or fails; without overlap or failure what is shown never goes back and the AI answers once per period |

`Scheduler` has no configuration of its own: it is checked as part of
`challenge` (two jobs with their own due hours) and `reminder` (one job, due
every hour), with the bodies the program gives it. In the same way `RateLimiter`
is checked as part of `gate`, and `Calendar`, `Stats` and `Journal` as part of
`periods` and `community`.

### Disagreements between the code and what it says

One is a run, which must end with a counterexample (quotation in
`PROJECT.json`, "findings"): `member_repo_lazy` shows that after a restart a
found member has no database ID, and that nothing resolves it "lazily".

The others are stated in their modules with the line they quote. None of them
holds: add the name as `INVARIANT` (`AllTradesAreRead`, `RemindedNotLogged`: as `PROPERTY`) to the
configuration, in place of its properties, to see the counterexample.

| property | configuration | what the counterexample shows |
|---|---|---|
| `AwardedXPIsKept` | `MCGamification.cfg` | two handlers read one profile; XP that `AwardXP` granted is overwritten |
| `DueHourNotMissed` | `MCReminder.cfg` | a ticker first fires an interval after its creation: a restart within an hour, before the minute of the tick, misses that hour (for a weekly job: the week) |
| `OneReminderADay` | `MCReminder.cfg` | the hour ends between marking it and picking the users: reminded in two hours of a day |
| `RemindedNotLogged` | `MCReminder.cfg` | a trade is logged between the check and the message |
| `ShownStreakIsAlive` | `MCReminder.cfg` with `MaxHour = 4` | the reminder asks not to break a streak that is broken already |
| `OnePagePerMember` | `MCMemberRepo.cfg` | two first calls of a member create two pages |
| `AllAreListed` | `MCMemberRepo.cfg` | after a restart `ListMembers` returns only members seen since |
| `BadgeXPOnce` | `MCRewards.cfg` | two handlers pay the same badge |
| `GoalCompletedOnce` | `MCRewards.cfg` | two handlers complete the same goal |
| `PaidGoalIsAchieved` | `MCRewards.cfg` | `/goal` writes back a goal read before it was achieved |
| `LossIsNegative` | `MCGuidedFlow.cfg`, with one handler, one session and 9 updates | LOSS on an old prompt after WIN and its RR: a loss with a positive RR is recorded |
| `UploadSetsURL` | the same | an uploaded screenshot never sets `ScreenshotURL`, so it earns no XP |
| `NotifiedHourly` | `MCGate.cfg` | two denied updates side by side, or a restart: two notices in an hour |
| `ListedCommandIsReached` | `MCGate.cfg`, with `Texts = {"/report", "/reportcard"}` | `/reportcard` reaches the handler of `/report`; report cards come from the monthly job alone |
| `CurStreakIsCurrent` | `MCCommunity.cfg` | "current streak" is that of the oldest trades: the loop walks a list that is newest first |
| `LossesAreNegative` | `MCCommunity.cfg` | a number and then the word LOSS, each on a result line of its own: a loss with a gain |
| `WeekIsCounted` | `MCPeriods.cfg` | a trade of Sunday after the report hour counts for no challenge |
| `AllTradesAreRead` | `MCAnalytics.cfg` | with more trades than one answer of Notion holds (100), the rest is not read |

Three facts met while modelling are not stated as properties. The win rate is
W / (W + L) in `/stats`, leaderboard and weekly report, W / (W + L + BE) on the
report card, in the analysis and for badges, W / all in the challenge, and W /
total for each asset (`FiguresAgree` in `Community` has how the first two are
related). The handler of `/reportcard` (`handler.go` 831) takes last month as
`AddDate(0, -1, 0)`, which on the last days of a long month is the current one;
the handler is never reached. `Badge100Trades` asks for one hundred trades and
one answer holds exactly one hundred, so it can be reached; a higher mark could
not.

### Bounds

Every race in this code needs two goroutines and one record, so two workers and
one member show it; a second member is there where independence is claimed.
`reminder` has one user because the job treats users one after the other and
shares nothing between them but the time they take, which the clock already
takes at will. Errors and restarts are bounded by one or two because after one
of each every in-memory variable has been lost once and every call has been
abandoned at every step once.

The longest causal chain is that of streaks. Three calls from an empty store
tell a continuation, a second trade of the day and a gap apart; the bonus needs
seven days in a row, so `MCGamification` also starts from the state that six
undisturbed calls on the first six days leave behind (`AfterSixDays`), which the
program reaches one day at a time, and lets three more calls follow, with the
seventh and eighth day in a row, or a gap, among them.

In `periods` the lengths are the smallest that keep the order of things: the
midnight of WIB before that of UTC, both before the report hour, months of
different lengths that begin within and at the end of a week. The report hour is
not before `Offset` plus the latency. That is an assumption about the
configuration: with a report hour that is not (in the real calendar: before
07:00 WIB and some minutes), or with calls that take hours, `CardsAreComplete`
fails, since trades are dated into the old month until 07:00 WIB. `REPORT_HOUR`
is 20 unless it is set, and no call takes hours: a request to Notion or Gemini
times out after 30 seconds (`notion/client.go` 16, `gemini/analyzer.go` 31), and
a call makes a handful of them. The same holds for `MaxLatency` of `analytics`.

In `community` three trades and two days are enough for ties, for two days in a
streak, for a member who qualifies for `highest_wr` (three trades), and for more
members than the report has places. Two result lines cover every way in which
one line overrides another, as `parseRR` keeps nothing but status and RR.

Hours have two minutes because a tick, a restart and a slow body must be able to
fall into one hour in either order. The four hours of `reminder` are two days:
one midnight for a date that is saved late, an hour chosen again on the next day,
and an hour after it in which a reminder that is missing is seen. All bounds are constants named `Max...` and
appear as guards. The theorems below depend on none of them.

`CHECK_DEADLOCK FALSE` appears where the bounds (calls, updates, time) let the
system stop; `gate`, whose environment never stops, is checked for deadlock.
In `guided`, where the clean-up loop keeps the model going, deadlock of the
handlers is the invariant `OwnersMoveOn`: the owner of a session's mutex is in
the middle of using that session, so it never waits for a mutex and never ends
with it.

### Fairness and lateness

Only `polling` assumes fairness: weak fairness of a successful poll and of
dispatch (`bot.go` 37-56 loops until the context is cancelled); failures are
bounded in number, not excluded. `RemindedWhenDue` needs that the job is served
in time, which nothing in the code guarantees. Its first part is therefore a
safety property about the history `late`: a minute passed while the ticker or
the body had something to do. Before that has happened the property must hold,
and the run contains every behaviour in which it never happens.

### Undisturbed members

The code does not lock a member's records, so exactness cannot hold in general,
and the table above shows it. What does hold in general is one-sided (nothing is
ever invented); what holds exactly holds for a member whose calls did not
interfere, and the runs show that interference is confined to the member
concerned.

## 4. Proofs

All are checked by TLAPS to the last leaf, for every value of the constants and
from the named assumptions the modules make about them (sets of members or
handlers may be infinite unless an assumption says otherwise; no theorem uses a
bound `Max...` but to type a counter). An invariant that is only claimed for
`Spec => []Inv` is seldom inductive. For each component the formula that is
(`IInv`, or the name given below) stands at the end of its module, under
"The invariant behind these", and was itself checked by TLC before it was proved.
A proof has one lemma per action and one step per part the action can disturb.

Every invariant and action property of every passing run is a theorem, and so are all three refinements
(`ImplementsTradeEntry`, `ImplementsSlidingWindow` of the limiter alone and
behind the gate).

**Gamification** (`ProgressProofs`). The store stays honest although handlers
write back records they read long ago, because every *copy* held by a handler is
honest, too, and stays so, since `granted` and `worked` only grow
(`CopiesHonest`). `Compute` is the interesting step: the clock may have moved by
any number of days since the streak was read, and the updated streak is backed by
the worked days and today. Exactness speaks of members in no call; `ExactInv`
adds `Pending`: of an undisturbed member's one call, what is not stored yet is in
its own copies. That the stored streak is the run of days a reader of the
calendar counts needs facts about runs (a run grows by one on the next day and
begins anew after a gap, `Counted` is kept by `UpdatedStreak`), and that streak
XP is paid once per milestone needs the number of days on which a run reached a
length. Theorems: `StreaksAreHonest`, `XPIsNeverOverstated`, `LevelsMatchXP`,
`XPAlwaysExact`, `StreaksAlwaysExact`.

**Periods** (`ProgressProofs`). `ClockIInv` ties dates to the clock: a trade is
saved within `MaxLatency` of the instant its date was taken from, a goal is
checked within `MaxLatency` of the reading that chose its month. The rest is
about the calendar: months and weeks of any length, zones any offset apart.
`WeeksCountTheirTrades` needs no assumption beyond those of the calendar: whether
the window begins at midnight WIB or UTC, the dates in it are those of the seven
days. The two others have a hypothesis, in the statement of the theorem:
`CardsAlwaysComplete` that the report hour is at least `Offset + MaxLatency`,
since until the midnight of UTC (07:00 WIB) trades are dated in the old month;
`GoalsAlwaysBacked` that a call takes no longer than the zones are apart, or a
check begun in one month could count trades of the next. The values the program
runs with satisfy both (an hour of 20, seven hours of offset, requests that time
out after 30 seconds); since `REPORT_HOUR` can be set to less, the first is not an
assumption of the module.

**Scheduler** (`SchedulerProofs`). `AtMostOncePerHour` is not inductive: the
marks are lost by a restart. `SchedIInv` adds why no hour repeats: a pending
tick belongs to a ticker created in an earlier hour (`TickIsLater`, which needs
`PhaseIsPast`), and every hour that ran is either no later than the creation of
the ticker, or no later than the hour last marked (`FiredIsKnown`).

**Challenge** (`ChallengeProofs`, on the scheduler's invariant, which holds here
because every action is a step of `SchedNext` or leaves its variables alone). The
finalization takes its standings from an input that may differ each time, and
nothing stored says that some members are already paid. What makes the prizes
those of one ranking is that the job runs in one hour of the week and, by the
scheduler's theorem, once in it: a week is untouched or the job ran for it
(`Ran`), and while it runs its variables say what is paid (`FinOK`). From this
`PrizesAlwaysOfOneRanking` and `FinalizedIsAlwaysPaid`.

**Reminder** (`ReminderProofs`, likewise). Two arguments. If the hour did not end
between the two clock reads, the hour a reminder is for is the one the scheduler
marked, which is marked once (`CountedOnce`): `RemindedAtMostOnce`. If moreover
nothing failed and the ticker was never late, whoever is to be reminded is on the
way through the job's lists (`OnTheWay`), nobody else is (`OnlyChosen`), and past
hours are served (`AllServed`): `AlwaysRemindedWhenDue`. A trade's date is read
and saved in two steps, between which midnight may pass and other calls may save;
`DatesOK` says what the stored date is still worth: it is not ahead of the clock,
and the last logged one unless it was put back.

**Guided flow** (`JournalProofs`). The session's mutex does the work: who uses
a session owns its mutex (`UsersOwn`), a session has one user, also while an old
handler still uses it (`OneUser`), it has recorded nothing before it is submitted
and is submitted once (`Progress`). So no answer can edit a session between its
submission and its storing, and `FlowRefines` maps each step to a step of
`TradeEntry` or to a stutter: `Apply` to an edit, `Submit` to a submission,
`Record` to a store (also if the answer of Notion is lost), `RemoveSession` to the end.
`OwnersAlwaysMoveOn` excludes deadlock for any number of handlers;
`NeverADeadSession` that a recorded session remains to swallow answers.

**Badges and goals** (`StoreProofs`). `XPAlwaysBacked` holds under every
interleaving because what is about to be paid is stored first (`Backed`).
`PaidOnce` needs, for an undisturbed member, the account `PaidBut`: all is paid
but what its one call has stored and is about to pay, and what that call read is
still true. `AchievedKept` is an action property from the same invariant.

**Analytics** (`StoreProofs`). Analyses are dated after their trades were read,
and an older one can overwrite a newer one. `AnalysesAreRecent` says what
survives that: whatever is cached or under way covers the trades saved before an
instant that is no longer ago than its remaining life allows. For
`CacheAlwaysUsed` the invariant adds, until something clashes, that one analysis
is at work at a time, began when the last had expired, and that totals grow from
what is shown to what is saved. Both are action properties.

**Members in Notion** (`MemberRepoProofs`). A search may return any page. What
keeps trades apart is that a database is only ever *known* from creating it
(`EntryOK`): whoever knows a database knows one on the member's own page.
`UndisturbedMembersSeen` adds the account of an undisturbed member: the page is
cached with its database or is just being made by its only call.

**Rate limiter** (`TelegramProofs`). `Kept`: the list of a user contains every
request accepted within the window by this process and only accepted requests;
so pruning and clean-up never change an answer. The counting adds that the sets
are finite and their ids fresh. `AtMostMaxReqsAllowed` follows for every period of
the window's length, wherever it starts; `LimiterRefines` shows that every step
is a step of `SlidingWindow` or a stutter, under the identity mapping, with the
list forgotten.

**Gate** (`TelegramProofs`). `GateRunsLimiter` is an implementation between two
specifications of this project: each step of the handlers is a step of the
limiter or leaves its variables alone. From it `GateAtMostMaxReqs` and
`GateRefines` follow without another look at the limiter. `OnlyMembersServed`
rests on `Rightful` (who is still a member at the check has been one since the
update), `OwnerToldHourly` on `Undisturbed` (the map knows the last notice, and at
most one handler is about to use it).

**Polling** (`TelegramProofs`). `PollIInv`: the offset is one past the last
update started (`Position`), an answer goes on from there or from what Telegram
keeps (`AnswerGoesOn`), what is below the offset was started (`BelowOffset`).
Hence `AlwaysStartedInOrder`, for any number of failures and restarts.

**Community** (`JournalProofs`). Its invariant only types the state; the work is
in what the loops compute. The library's folds are recursive functions of sets
of positions, and its induction theorems take an operator, which the installed
provers cannot instantiate. The proofs go around this in first order: `UpTo`
(a *set* of numbers that has 0 and is closed under successor up to n has all of
them, from the well-foundedness of `<`), `FoldExists` (the recursive function is
there, so the library's `CHOOSE` picks it) and `FoldValues` (its values after 0,
1, ..., n elements). `StatsSteps`, `CardSteps`, `SumSteps`, `ParseSteps`,
`KeptSteps` (a filter), `PlaceSteps` and `TopSteps` (the two nested loops of the
report's sort) are the loops of the code in this form. After that a loop is proved the way a
programmer would: by an invariant of the loop, as the set of the k at which it
holds.

- `StatsAlwaysExact`: of any list of trades `TotalsOfAnyList`,
  `MaxWinOfAnyList` and `FiguresOfAnyList`. The invariant behind MaxWinStrk
  says of the runs that have ended and of those still under way how many wins
  they have, that the maximum is one of the former, and that the current streak,
  if positive, is one of the latter.
- `TradesCountedAsWritten`: no or one step of `ParseRR`, for each kind of line.
- `StreakAlwaysFollowsDays`: a sorted list is a permutation, and the first trade
  in it that is no win is of the last day that has one; so the wins after that
  day are before it and those before it are not of an earlier day. The counting
  is along the permutation, an injection and, the sets being of one size, a
  surjection.
- `RankingsAlwaysAgree` has three parts, none of which depends on the order in
  which Notion lists the members.
  The sort of the report stops after `TopN` places: `PlaceOK` shows that `Place`
  only swaps, leaves the places before i alone and puts the best of the others on
  place i; `TopRanked` that after k places the first k are ranked and nothing
  behind is better. What is behind can be ranked, too (`RankedOn`), which
  makes a whole order that the leaderboard's sort may have produced, of the
  same entries since both filters keep the same members (`KeptLists`). So no
  existence of sorted lists is assumed: it is a consequence of the code's
  own sort.
  The sums of the report run over the members with an entry, those of the
  challenge over a sorted list of the qualified ones. `IsSum` gives
  each set of members one sum, whichever member is taken away first; there is such
  a function (`SumExists`) and every listing of a set sums to its value
  (`SumOfListing`).
  Member by member a challenge value is the RR of the report and the RR of the
  trades that are not closed (`TradedAlike`, `ValueOf`).
  The win rate of all is a mean of rates, weighted by closed trades: adding a
  member no better than the best keeps the sum no better (`NoneAbove`), so all
  together are not (`TogetherNoHigher`).

Where a proof needs the least element of a set of numbers (the first day of a
run, the month of a day), it takes it from the well-foundedness of `<` on the
naturals (`LeastNumber`), which serves instead of an induction over days.

Only model-checked:

- `EveryUpdateStarts`: liveness under fairness is out of the prover's reach.
- `DBIsResolved` and the table of disagreements above: they do not hold.

## 5. Not modelled, and why

- Text: formatting, captions, Markdown, CSV/PDF layout, the characters of a
  number. The parser is modelled from the point where a line is recognised.
- Fields that nothing computes with: session, confluence, notes.
- The sender, the exporters and the configuration: output whose result is
  ignored, stateless file generation, and an environment that is read once.
- External services beyond their answers: Telegram's and Notion's own state is
  modelled only as far as the code depends on it; Gemini is a call that may
  fail, its prompt and the reading of its answer are left out.
- Of the weekly report the most traded symbol, of the report card the XP and the
  badges: no other part of the program computes them, so there is nothing they
  could disagree with.
- Of the badges and goals the conditions other than the win streak and the
  number of trades: they are arbitrary inputs of `Rewards`.
- `Remaining` of the rate limiter and `LoadLocation`, which nothing calls.
- The tearing of `unauthNotified` itself: concurrent access to a Go map may
  crash the process, which the model has as `Restart`.
- Real numbers: RR values are small integers; averages are kept as sum and count.
- Daylight saving: WIB has none. The host's clock is in the time zone of the
  container, WIB as `docker-compose.yml` 14 sets it; a host that lags behind is
  in `Challenge` (`HostLag`), a host in UTC in `Periods` (`CreateChallenge`).

## 6. Plan

Modelled and checked: all modules above; proved: all their safety properties.
What is left is a composition of `GuidedFlow`, `MemberRepo` and `Rewards`, from a
confirm to the last reward, if its state space allows it.
