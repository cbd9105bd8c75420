------------------------------- MODULE Stats -------------------------------
(***************************************************************************)
(* The statistics of a member's trades: CalculateStats                     *)
(* (internal/domain/stats.go), which /stats, the leaderboard and the       *)
(* weekly report use, with what its figures mean, said without its loop.   *)
(* The trades are those that GetTrades returns, newest first (trade.go     *)
(* 65-69, ports/repository.go 14).  Ratios are left out; their numerators  *)
(* and denominators are kept.                                              *)
(***************************************************************************)
EXTENDS Integers, Sequences, FiniteSets, SequencesExt

CONSTANT Assets   \* asset types

NoAssetStats == [total |-> 0, wins |-> 0, losses |-> 0, rr |-> 0]

Empty == [total |-> 0, wins |-> 0, losses |-> 0, breakEvens |-> 0, open |-> 0,
          rr |-> 0, rrSum |-> 0, rrCount |-> 0, best |-> 0, worst |-> 0,
          cur |-> 0, maxWin |-> 0, byAsset |-> [a \in Assets |-> NoAssetStats]]

-----------------------------------------------------------------------------
(* Faulty variant: a loss does not end a run of wins.                      *)
StreakAfterNoReset(cur, status) ==
  CASE status = "WIN"  -> cur + 1
    [] status = "LOSS" -> IF cur < 0 THEN cur - 1 ELSE cur
    [] status = "BE"   -> 0
    [] OTHER           -> cur

(* The streak after one more trade; an open trade leaves it as it is.      *)
StreakAfter(cur, status) ==
  CASE status = "WIN"  -> IF cur > 0 THEN cur + 1 ELSE 1
    [] status = "LOSS" -> IF cur < 0 THEN cur - 1 ELSE -1
    [] status = "BE"   -> 0
    [] OTHER           -> cur

One(b) == IF b THEN 1 ELSE 0

Closed(t) == t.status \in {"WIN", "LOSS"}

(* The body of the loop.                                                   *)
AddTrade(s, t) ==
  LET cur == StreakAfter(s.cur, t.status)
      first == s.total = 0
      rr == IF Closed(t) THEN t.rr ELSE 0
  IN [total |-> s.total + 1,
      wins |-> s.wins + One(t.status = "WIN"),
      losses |-> s.losses + One(t.status = "LOSS"),
      breakEvens |-> s.breakEvens + One(t.status = "BE"),
      open |-> s.open + One(t.status = "OPEN"),
      rr |-> s.rr + rr,
      rrSum |-> s.rrSum + t.rr,
      rrCount |-> s.rrCount + One(t.rr # 0),
      best |-> IF first \/ t.rr > s.best THEN t.rr ELSE s.best,
      worst |-> IF first \/ t.rr < s.worst THEN t.rr ELSE s.worst,
      cur |-> cur,
      maxWin |-> IF cur > s.maxWin THEN cur ELSE s.maxWin,
      byAsset |-> [s.byAsset EXCEPT ![t.asset] =
        [total |-> @.total + 1, wins |-> @.wins + One(t.status = "WIN"),
         losses |-> @.losses + One(t.status = "LOSS"), rr |-> @.rr + rr]]]

CalculateStats(ts) == FoldLeft(AddTrade, Empty, ts)

-----------------------------------------------------------------------------
CountOf(ts, P(_)) == Cardinality({i \in DOMAIN ts : P(ts[i])})

SumUp(ns) == FoldLeft(LAMBDA n, m : n + m, 0, ns)

RROf(ts) == SumUp([i \in DOMAIN ts |-> ts[i].rr])

(* The RR of those of the trades that are in S.                            *)
RRWithin(ts, S) == SumUp([i \in DOMAIN ts |-> IF ts[i] \in S THEN ts[i].rr ELSE 0])

ClosedOf(ts) == {t \in ToSet(ts) : Closed(t)}

TotalsAreExact(ts) ==
  LET s == CalculateStats(ts) IN
  /\ s.wins = CountOf(ts, LAMBDA t : t.status = "WIN")
  /\ s.losses = CountOf(ts, LAMBDA t : t.status = "LOSS")
  /\ s.total = Len(ts) /\ s.total = s.wins + s.losses + s.breakEvens + s.open
  /\ s.rr = RRWithin(ts, ClosedOf(ts))
  /\ ts # <<>> => \A i \in DOMAIN ts : s.worst <= ts[i].rr /\ ts[i].rr <= s.best
  /\ \A a \in Assets :
       s.byAsset[a] = [total |-> CountOf(ts, LAMBDA t : t.asset = a),
                       wins |-> CountOf(ts, LAMBDA t : t.asset = a /\ t.status = "WIN"),
                       losses |-> CountOf(ts, LAMBDA t : t.asset = a /\ t.status = "LOSS"),
                       rr |-> RRWithin(ts, {t \in ClosedOf(ts) : t.asset = a})]

(* A run of wins: no loss and no break-even in it.                         *)
IsRun(ts, i, j) == \A k \in i..j : ts[k].status \notin {"LOSS", "BE"}

WinsIn(ts, i, j) == Cardinality({k \in i..j : ts[k].status = "WIN"})

MaxWinIsLongestRun(ts) ==
  LET max == CalculateStats(ts).maxWin
      n == Len(ts)
  IN
  /\ \A i, j \in 1..n : IsRun(ts, i, j) => WinsIn(ts, i, j) <= max
  /\ max > 0 => \E i, j \in 1..n : IsRun(ts, i, j) /\ WinsIn(ts, i, j) = max
=============================================================================
