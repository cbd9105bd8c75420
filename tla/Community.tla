----------------------------- MODULE Community ------------------------------
(***************************************************************************)
(* What is computed from the trades of the members: the figures of /stats  *)
(* (Stats), the leaderboard (internal/service/leaderboard.go 35-76), the   *)
(* weekly report (report.go 36-115), the standings of the week's challenge *)
(* (challenge.go 83-155) and the win streak that badges are awarded for    *)
(* (badge.go 39-52), and the figures of the monthly report card            *)
(* (reportcard.go 69-118) and of the analysis (analytics.go 47-72).        *)
(*                                                                         *)
(* The state is what Notion holds.  Notion sorts a member's trades by      *)
(* date, and a date is a day: those of one day come in any order.  Go's    *)
(* sort.Slice is not stable either: what it sorts is any permutation that  *)
(* is in order.  Which days are in a week is the subject of Periods: here  *)
(* the week began on day WeekStart.                                        *)
(***************************************************************************)
EXTENDS Stats, Journal

CONSTANTS
  Members,     \* in Notion
  TopN,        \* the places of the report's list, 3
  WeekStart,   \* the first day of this week
  MaxDay,      \* bound: days
  MaxTrades    \* bound: trades of all members

ASSUME CommunityAssumption ==
  /\ IsFiniteSet(Members)
  /\ TopN \in Nat \ {0} /\ WeekStart \in Nat /\ MaxDay \in Nat /\ MaxTrades \in Nat

VARIABLES
  day,     \* today, in UTC
  trades   \* in Notion: each member's trades, in the order they were saved

CommunityInit ==
  /\ day = 0
  /\ trades = [m \in Members |-> <<>>]

(* The guided flow (GuidedFlow) accepts answers in any order: the RR given *)
(* for one result stays when another one is chosen, but for BE.            *)
GuidedTrades ==
  [asset : {"Gold", "Forex"}, status : {"WIN", "LOSS", "OPEN"}, rr : Signed]
    \cup [asset : {"Gold", "Forex"}, status : {"BE"}, rr : {0}]

Total == FoldLeft(LAMBDA n, m : n + Len(trades[m]), 0, SetToSeq(Members))

SaveTrade(m, t) ==
  /\ trades' = [trades EXCEPT ![m] =
       Append(@, [asset |-> t.asset, status |-> t.status, rr |-> t.rr, day |-> day])]
  /\ UNCHANGED day

TextTrades == {Journaled(msg) : msg \in Accepted}

HandleTextJournal(m) == \E t \in TextTrades : SaveTrade(m, t)

SubmitGuidedTrade(m) == \E t \in GuidedTrades : SaveTrade(m, t)

NextDay ==
  /\ day < MaxDay
  /\ day' = day + 1
  /\ UNCHANGED trades

CommunityNext ==
  \/ NextDay
  \/ Total < MaxTrades /\ \E m \in Members : HandleTextJournal(m) \/ SubmitGuidedTrade(m)

CommunitySpec == CommunityInit /\ [][CommunityNext]_<<day, trades>>

-----------------------------------------------------------------------------
Orders(s) == {[i \in DOMAIN s |-> s[p[i]]] : p \in SetToSeqs(DOMAIN s)}

(* All orders of a sequence in which nothing comes before what must come   *)
(* before it.                                                              *)
Sorts(s, MustPrecede(_, _)) ==
  {q \in Orders(s) : \A i, j \in DOMAIN s : i < j => ~MustPrecede(q[j], q[i])}

Later(t, u) == t.day > u.day

(* What GetTrades may return of a member, and what it is once more sorted. *)
GetTrades(m) == Sorts(trades[m], Later)

(* Faulty variant: the oldest trades come first.                           *)
SortByDateAscending(ts) == Sorts(ts, LAMBDA t, u : Later(u, t))
SortByDate(ts) == Sorts(ts, Later)

(* The win streak of CheckAndAwardBadges: the newest trades that are WIN.  *)
WinStreak(ts) ==
  CHOOSE n \in 0..Len(ts) :
    /\ \A i \in 1..n : ts[i].status = "WIN"
    /\ n < Len(ts) => ts[n + 1].status # "WIN"

-----------------------------------------------------------------------------
(* Those of the elements of a list that are in S, in its order.            *)
Kept(s, S) == FoldLeft(LAMBDA q, x : IF x \in S THEN Append(q, x) ELSE q, <<>>, s)

ThisWeek(m) == Kept(trades[m], {t \in ToSet(trades[m]) : t.day >= WeekStart})

(* An entry of the leaderboard or the report.  A rate is a pair.           *)
LeaderboardEntry(m, ts) ==
  LET s == CalculateStats(ts) IN
  [member |-> m, rr |-> s.rr, winRate |-> <<s.wins, s.wins + s.losses>>, total |-> s.total,
   wins |-> s.wins, losses |-> s.losses]

Higher(r, q) == IF q[2] = 0 THEN r[1] > 0 ELSE r[1] * q[2] > q[1] * r[2]

MoreRR(e, f) == e.rr > f.rr

HigherRate(e, f) == Higher(e.winRate, f.winRate)

First(s, n) == SubSeq(s, 1, IF Len(s) < n THEN Len(s) ELSE n)

EntriesOf(entry, ms) == [i \in DOMAIN ms |-> entry[ms[i]]]

(* GetLeaderboard, from the entries of the members in the order in which   *)
(* they are listed; those whose trades cannot be read are passed over.     *)
GetLeaderboard(metric, entry, listed, n, minTrades) ==
  LET entries == EntriesOf(entry, Kept(listed, {m \in Members : entry[m].total >= minTrades}))
  IN {First(q, n) : q \in IF metric = "rr" THEN Sorts(entries, MoreRR)
                          ELSE Sorts(entries, HigherRate)}

-----------------------------------------------------------------------------
(* The report's own sort: for each of the first places, whoever comes      *)
(* later and is better changes places with who is there.                   *)
Swapped(es, i, j) ==
  IF es[j].rr > es[i].rr THEN [es EXCEPT ![i] = es[j], ![j] = es[i]] ELSE es

After(i, n) == [d \in 1..(n - i) |-> i + d]

(* Faulty variant: only the members on the first places are compared.      *)
PlaceAmongTop(es, i) ==
  FoldLeft(LAMBDA s, j : Swapped(s, i, j), es, First(After(i, Len(es)), TopN - i))

Place(es, i) == FoldLeft(LAMBDA s, j : Swapped(s, i, j), es, After(i, Len(es)))

Placed(es, places) == FoldLeft(Place, es, places)

TopPerformers(es) == First(Placed(es, First(After(0, Len(es)), TopN)), TopN)

SumOf(es, f) == SumUp([i \in DOMAIN es |-> es[i][f]])

(* GenerateWeeklySummary: of the members that traded this week.            *)
GenerateWeeklySummary(entry, listed) ==
  LET entries == EntriesOf(entry, Kept(listed, {m \in Members : entry[m].total > 0}))
  IN [members |-> Len(entries), trades |-> SumOf(entries, "total"), rr |-> SumOf(entries, "rr"),
      communityWR |-> <<SumOf(entries, "wins"), SumOf(entries, "wins") + SumOf(entries, "losses")>>,
      top |-> TopPerformers(entries)]

-----------------------------------------------------------------------------
(* GetCurrentStandings.  (An error of any member's trades is an error.)    *)
Value(type, ts) ==
  CASE type = "most_trades" -> <<Len(ts), 1>>
    [] type = "best_rr" -> <<CHOOSE n \in {t.rr : t \in ToSet(ts)} : \A t \in ToSet(ts) : t.rr <= n, 1>>
    [] type = "highest_wr" -> <<CountOf(ts, LAMBDA t : t.status = "WIN"), Len(ts)>>
    [] type = "most_rr" -> <<RROf(ts), 1>>

Qualified(type) ==
  LET least == IF type = "highest_wr" THEN 3 ELSE 1
  IN {m \in Members : Len(ThisWeek(m)) >= least}

Results(type) ==
  LET q == SetToSeq(Qualified(type))
  IN [i \in DOMAIN q |-> [member |-> q[i], value |-> Value(type, ThisWeek(q[i]))]]

Beats(r, q) == r.value[1] * q.value[2] > q.value[1] * r.value[2]

GetCurrentStandings(type) == Sorts(Results(type), Beats)

-----------------------------------------------------------------------------
(* The figures of a report card, from the trades of its month, and those   *)
(* of an analysis.                                                         *)
NoCard == [total |-> 0, wins |-> 0, losses |-> 0, breakEvens |-> 0, rr |-> 0,
           best |-> 0, worst |-> 0]

AddToCard(c, t) ==
  [total |-> c.total + 1, wins |-> c.wins + One(t.status = "WIN"),
   losses |-> c.losses + One(t.status = "LOSS"),
   breakEvens |-> c.breakEvens + One(t.status = "BE"), rr |-> c.rr + t.rr,
   best |-> IF c.total = 0 \/ t.rr > c.best THEN t.rr ELSE c.best,
   worst |-> IF c.total = 0 \/ t.rr < c.worst THEN t.rr ELSE c.worst]

ReportCard(ts) ==
  LET c == FoldLeft(AddToCard, NoCard, ts)
  IN [figures |-> c, winRate |-> <<c.wins, c.wins + c.losses + c.breakEvens>>]

GetAnalytics(ts) ==
  LET wins == CountOf(ts, LAMBDA t : t.status = "WIN")
      closed == CountOf(ts, LAMBDA t : t.status \in {"WIN", "LOSS", "BE"})
  IN [total |-> Len(ts), winRate |-> <<wins, closed>>, rr |-> RROf(ts), avg |-> <<RROf(ts), Len(ts)>>]

-----------------------------------------------------------------------------
(***************************************************************************)
(* stats.go 29-120, reportcard.go 69-118, analytics.go 47-72: whatever the *)
(* order of a day's trades, the totals of /stats are those of the trades   *)
(* and its breakdown by asset splits them, best and worst bound them, and  *)
(* MaxWinStrk is the most wins in a row, open trades between them aside.   *)
(* Report card and analysis count the same, but for the RR of trades that  *)
(* are not closed and for break-evens, which lower their win rate.         *)
(***************************************************************************)
RRNotClosed(ts) == RRWithin(ts, ToSet(ts) \ ClosedOf(ts))

FiguresAgree(ts) ==
  LET s == CalculateStats(ts)
      r == ReportCard(ts)
      a == GetAnalytics(ts)
  IN
  /\ \A f \in {"total", "wins", "losses", "breakEvens", "best", "worst"} : r.figures[f] = s[f]
  /\ r.figures.rr = s.rr + RRNotClosed(ts) /\ a.rr = r.figures.rr /\ a.total = s.total
  /\ ~Higher(r.winRate, <<s.wins, s.wins + s.losses>>) /\ a.winRate = r.winRate

StatsAreExact ==
  \A m \in Members : \A ts \in GetTrades(m) :
    TotalsAreExact(ts) /\ MaxWinIsLongestRun(ts) /\ FiguresAgree(ts)

WeekEntry == [m \in Members |-> LeaderboardEntry(m, ThisWeek(m))]

All == SetToSeq(Members)

SumOfValues(s) == SumUp([i \in DOMAIN s |-> s[i].value[1]])

RRNotClosedOfAll == SumUp([i \in DOMAIN All |-> RRNotClosed(ThisWeek(All[i]))])

TopIsOfLeaderboard(entry, listed) ==
  GenerateWeeklySummary(entry, listed).top \in GetLeaderboard("rr", entry, listed, TopN, 1)

SummaryIsOfStandings(r) ==
  /\ \A s \in GetCurrentStandings("most_trades") :
       Len(s) = r.members /\ SumOfValues(s) = r.trades
  /\ \A s \in GetCurrentStandings("most_rr") : SumOfValues(s) = r.rr + RRNotClosedOfAll

BestIsNoWorse(r, entry) ==
  \A b \in GetLeaderboard("winrate", entry, All, 1, 1) :
    b # <<>> => ~Higher(r.communityWR, b[1].winRate)

(***************************************************************************)
(* report.go 88-113, leaderboard.go 57-75, challenge.go 83-155: three      *)
(* parts of the program rank the same trades, with three sorts of their    *)
(* own.  The report's best are those of the leaderboard of that week's     *)
(* trades, however many members cannot be read.  When all can be, the      *)
(* report has the members and the trades of the challenge's standings, its *)
(* total RR is theirs but for trades that are not closed, and no member    *)
(* with a closed trade makes the community's win rate higher than the best *)
(* member's.                                                               *)
(***************************************************************************)
RankingsAgree ==
  LET entry == WeekEntry
      r == GenerateWeeklySummary(entry, All)
  IN
  /\ \A listed \in UNION {SetToSeqs(S) : S \in SUBSET Members} : TopIsOfLeaderboard(entry, listed)
  /\ SummaryIsOfStandings(r) /\ BestIsNoWorse(r, entry)

(***************************************************************************)
(* badge.go 40-52: the order of trades of one day is left to two sorts, so *)
(* the win streak is not determined; but it has every win since the last   *)
(* day with another trade than a win, and only wins from that day on.      *)
(***************************************************************************)
WinsSince(ts, d) == Cardinality({i \in DOMAIN ts : ts[i].day >= d /\ ts[i].status = "WIN"})

OtherDays(ts) == {t.day : t \in {t \in ToSet(ts) : t.status # "WIN"}}

LastOtherDay(ts) ==
  IF OtherDays(ts) = {} THEN 0 ELSE CHOOSE d \in OtherDays(ts) : \A e \in OtherDays(ts) : e <= d

OnlyWinsFrom(ts) == IF OtherDays(ts) = {} THEN 0 ELSE LastOtherDay(ts) + 1

StreakFollowsDays ==
  \A m \in Members : \A ts \in GetTrades(m) : \A q \in SortByDate(ts) :
    /\ WinsSince(ts, OnlyWinsFrom(ts)) <= WinStreak(q)
    /\ WinStreak(q) <= WinsSince(ts, LastOtherDay(ts))

(***************************************************************************)
(* parser.go 90-121, journal.go 33-35, trade.go 93-106 and 189-214: a      *)
(* trade that a message with at most one result line leaves in Notion is   *)
(* read back, and counted, as the message says (AsWritten).                *)
(***************************************************************************)
Clear == {<<msg, Journaled(msg)>> : msg \in {msg \in Accepted : Len(msg.results) <= 1}}

CountedAsWritten ==
  \A m \in Members : \A t \in ToSet(trades[m]) : \A c \in Clear :
    c[2] = [asset |-> t.asset, status |-> t.status, rr |-> t.rr] => AsWritten(c[1], t)

(***************************************************************************)
(* domain/stats.go 62, where the RR of a LOSS is a "negative value": no    *)
(* loss has a gain.  "RR: 2" and "Result: LOSS" in one message is one that *)
(* has, and so is a guided trade whose result was chosen again.            *)
(***************************************************************************)
LossesAreNegative ==
  \A m \in Members : \A t \in ToSet(trades[m]) : t.status = "LOSS" => t.rr <= 0

(***************************************************************************)
(* domain/stats.go 15, "positive = win streak, negative = loss streak",    *)
(* shown as "Current streak" (formatter.go 27-30): the streak is that of   *)
(* the newest closed trade.  It is that of the oldest.                     *)
(***************************************************************************)
CurStreakIsCurrent ==
  \A m \in Members : \A ts \in GetTrades(m) :
    ts # <<>> /\ Closed(ts[1]) => (CalculateStats(ts).cur > 0 <=> ts[1].status = "WIN")

-----------------------------------------------------------------------------
(* The invariant behind these: what Notion holds at any time.              *)
StoredTrade == [asset : {"Gold", "Forex"}, status : {"WIN", "LOSS", "BE", "OPEN"},
                rr : Int, day : Nat]

CommunityIInv == day \in Nat /\ trades \in [Members -> Seq(StoredTrade)]
=============================================================================
