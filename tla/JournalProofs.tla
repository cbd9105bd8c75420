--------------------------- MODULE JournalProofs ---------------------------
(***************************************************************************)
(* Proofs about the two ways of journaling trades and what is computed of  *)
(* them.  First Community, for any members and trades: what the loops of   *)
(* CalculateStats, of the report card and of the parser compute for every  *)
(* list, and with it the figures of every reachable state.  Then           *)
(* GuidedFlow: its inductive invariant, that the mutexes never block for   *)
(* good and no session is left dead, and that the flow implements          *)
(* TradeEntry, for any users, handlers and numbers of sessions.            *)
(*                                                                         *)
(* The loops are folds of the library, recursive functions of the sets of  *)
(* positions.  UpTo, FoldExists and FoldValues turn one into its values    *)
(* after 0, 1, ..., n elements; a property of the result is then the set   *)
(* of the k at which an invariant of the loop holds, by UpTo.              *)
(***************************************************************************)
EXTENDS GuidedFlow, Community, FiniteSetTheorems, WellFoundedInduction, TLAPS

(* What holds of 0 and is passed on by each number holds up to n.          *)
LEMMA UpTo ==
  ASSUME NEW n \in Nat, NEW S, 0 \in S, \A k \in 1..n : k - 1 \in S => k \in S
  PROVE  \A k \in 0..n : k \in S
<1> DEFINE R == {ss \in Nat \X Nat : ss[1] < ss[2]}
           Missed == {k \in 0..n : k \notin S}
<1> SUFFICES ASSUME Missed # {} PROVE FALSE
  OBVIOUS
<1>1. IsWellFoundedOn(R, Nat)
  BY NatLessThanWellFounded DEF OpToRel
<1>2. PICK k \in Missed : \A j \in Missed : ~(<<j, k>> \in R)
  BY <1>1, WFMin
<1>3. k \in 1..n
  BY <1>2
<1>4. <<k - 1, k>> \in Nat \X Nat /\ <<k - 1, k>>[1] < <<k - 1, k>>[2]
  BY <1>3
<1>5. k - 1 \notin Missed
  BY <1>2, <1>4
<1>6. QED
  BY <1>2, <1>3, <1>5

(* A set of positions has a last one, which the folds take first.          *)
LEMMA MaxOf ==
  ASSUME NEW n \in Nat, NEW s, s \subseteq 1..n, s # {}
  PROVE  Max(s) \in s
<1> DEFINE HasMax(k) == \A r \in SUBSET (1..k) : r # {} => \E x \in r : \A y \in r : x >= y
           Good == {k \in 0..n : HasMax(k)}
<1>1. 0 \in Good
  <2>1. HasMax(0)
    <3>1. 1..0 = {}
      OBVIOUS
    <3> QED BY <3>1
  <2> QED BY <2>1
<1>2. ASSUME NEW k \in 1..n, k - 1 \in Good PROVE k \in Good
  <2> SUFFICES ASSUME NEW r \in SUBSET (1..k), r # {} PROVE \E x \in r : \A y \in r : x >= y
    OBVIOUS
  <2>1. CASE k \in r
    BY <2>1
  <2>2. CASE k \notin r
    <3>1. r \in SUBSET (1..(k - 1))
      BY <2>2
    <3>2. QED
      BY <3>1, <1>2
  <2>3. QED
    BY <2>1, <2>2
<1>3. n \in Good
  <2> HIDE DEF Good
  <2> QED BY <1>1, <1>2, UpTo
<1>4. \E x \in s : \A y \in s : x >= y
  BY <1>3
<1>5. QED
  BY <1>4 DEF Max

LEMMA MaxOfPrefix ==
  ASSUME NEW k \in Nat \ {0}
  PROVE  Max(1..k) = k /\ (1..k) \ {k} = 1..(k - 1) /\ 1..k # {}
<1>1. k \in 1..k /\ \A y \in 1..k : k >= y
  OBVIOUS
<1>2. \A x \in 1..k : (\A y \in 1..k : x >= y) => x = k
  OBVIOUS
<1>3. Max(1..k) = k
  BY <1>1, <1>2 DEF Max
<1>4. (1..k) \ {k} = 1..(k - 1)
  OBVIOUS
<1>5. QED
  BY <1>1, <1>3, <1>4

(* The recursive function behind a fold exists.  An operation on states of *)
(* T by the elements of a list of length n is given as a function.         *)
IsFold(f, n, T, e, G) ==
  /\ f \in [SUBSET (1..n) -> T]
  /\ \A s \in SUBSET (1..n) :
       f[s] = IF s = {} THEN e ELSE G[<<f[s \ {Max(s)}], Max(s)>>]

LEMMA FoldExists ==
  ASSUME NEW n \in Nat, NEW T, NEW e \in T, NEW G \in [T \X (1..n) -> T]
  PROVE  \E f : IsFold(f, n, T, e, G)
<1> DEFINE Folds(f, k) ==
             \A s \in SUBSET (1..k) :
               f[s] = IF s = {} THEN e ELSE G[<<f[s \ {Max(s)}], Max(s)>>]
           Good == {k \in 0..n : \E f \in [SUBSET (1..k) -> T] : Folds(f, k)}
<1>1. 0 \in Good
  <2> DEFINE f == [s \in SUBSET (1..0) |-> e]
  <2>1. f \in [SUBSET (1..0) -> T]
    OBVIOUS
  <2>2. Folds(f, 0)
    <3>1. 1..0 = {}
      OBVIOUS
    <3> QED BY <3>1
  <2>3. 0 \in 0..n
    OBVIOUS
  <2> HIDE DEF f
  <2> QED BY <2>1, <2>2, <2>3
<1>2. ASSUME NEW k \in 1..n, k - 1 \in Good PROVE k \in Good
  <2>1. PICK f \in [SUBSET (1..(k - 1)) -> T] : Folds(f, k - 1)
    BY <1>2
  <2> DEFINE g == [s \in SUBSET (1..k) |-> IF k \in s THEN G[<<f[s \ {k}], k>>] ELSE f[s]]
  <2>2. \A s \in SUBSET (1..k) : s \ {k} \in SUBSET (1..(k - 1))
    OBVIOUS
  <2>3. \A s \in SUBSET (1..k) : k \notin s => s \in SUBSET (1..(k - 1))
    OBVIOUS
  <2>4. g \in [SUBSET (1..k) -> T]
    BY <2>2, <2>3
  <2>5. Folds(g, k)
    <3> SUFFICES ASSUME NEW s \in SUBSET (1..k)
                 PROVE  g[s] = IF s = {} THEN e ELSE G[<<g[s \ {Max(s)}], Max(s)>>]
      OBVIOUS
    <3>1. CASE k \in s
      <4>1. Max(s) = k
        <5>1. \A y \in s : k >= y
          OBVIOUS
        <5>2. \A x \in s : (\A y \in s : x >= y) => x = k
          BY <5>1, <3>1
        <5> QED BY <5>1, <5>2, <3>1 DEF Max
      <4>2. g[s] = G[<<f[s \ {k}], k>>]
        BY <3>1
      <4>3. g[s \ {k}] = f[s \ {k}]
        BY <2>2
      <4> HIDE DEF g
      <4> QED BY <3>1, <4>1, <4>2, <4>3
    <3>2. CASE k \notin s
      <4>1. s \in SUBSET (1..(k - 1)) /\ s \ {Max(s)} \in SUBSET (1..k) /\ k \notin s \ {Max(s)}
        BY <2>3, <3>2
      <4>2. g[s] = f[s] /\ g[s \ {Max(s)}] = f[s \ {Max(s)}]
        BY <3>2, <4>1
      <4> HIDE DEF g
      <4> QED BY <2>1, <4>1, <4>2
    <3> QED BY <3>1, <3>2
  <2>6. k \in 0..n
    OBVIOUS
  <2> HIDE DEF g
  <2> QED BY <2>4, <2>5, <2>6
<1>3. n \in Good
  <2> HIDE DEF Good
  <2> QED BY <1>1, <1>2, UpTo
<1> QED BY <1>3 DEF IsFold

(* What is computed along a list, from a first value and an operation: the *)
(* library's folds are a function of the sets of positions, f, here with   *)
(* the operation as a function G of the values in T.                       *)
GoesOn(f, n, T, e, G) ==
  /\ f[{}] = e
  /\ \A s \in SUBSET (1..n) : s # {} /\ f[s \ {Max(s)}] \in T
                               => f[s] = G[<<f[s \ {Max(s)}], Max(s)>>]

IsAlong(h, f, n, T, e, G) ==
  /\ h \in [0..n -> T] /\ h[0] = e /\ h[n] = f[1..n]
  /\ \A k \in 1..n : h[k] = G[<<h[k - 1], k>>]

LEMMA FoldValues ==
  ASSUME NEW n \in Nat, NEW T, NEW e \in T, NEW G \in [T \X (1..n) -> T], NEW f,
         GoesOn(f, n, T, e, G)
  PROVE  \E h : IsAlong(h, f, n, T, e, G)
<1>0. /\ f[{}] = e
      /\ \A s \in SUBSET (1..n) : s # {} /\ f[s \ {Max(s)}] \in T
                                  => f[s] = G[<<f[s \ {Max(s)}], Max(s)>>]
  BY DEF GoesOn
<1> DEFINE h == [k \in 0..n |-> f[1..k]]
           S == {k \in 0..n : h[k] \in T}
<1>1. h[0] = e /\ h[n] = f[1..n]
  <2>1. 1..0 = {} /\ 0 \in 0..n /\ n \in 0..n
    OBVIOUS
  <2> QED BY <1>0, <2>1
<1>2. ASSUME NEW k \in 1..n, h[k - 1] \in T
      PROVE  h[k] = G[<<h[k - 1], k>>] /\ h[k] \in T
  <2>1. 1..k \in SUBSET (1..n) /\ k - 1 \in 0..n /\ k \in 0..n /\ k \in Nat \ {0}
    OBVIOUS
  <2>2. Max(1..k) = k /\ (1..k) \ {k} = 1..(k - 1) /\ 1..k # {}
    BY <2>1, MaxOfPrefix
  <2>3. h[k] = f[1..k] /\ h[k - 1] = f[1..(k - 1)]
    BY <2>1
  <2> HIDE DEF h
  <2>4. h[k] = G[<<h[k - 1], k>>]
    BY <1>0, <1>2, <2>1, <2>2, <2>3
  <2> QED BY <1>2, <2>4
<1>3. 0 \in S
  BY <1>1
<1>4. ASSUME NEW k \in 1..n, k - 1 \in S PROVE k \in S
  <2> HIDE DEF h
  <2>1. h[k] \in T
    BY <1>2, <1>4
  <2> QED BY <2>1
<1>5. \A k \in 0..n : k \in S
  <2> HIDE DEF S
  <2> QED BY <1>3, <1>4, UpTo
<1>6. \A k \in 1..n : h[k - 1] \in T
  <2>1. \A k \in 1..n : k - 1 \in 0..n
    OBVIOUS
  <2> HIDE DEF h
  <2> QED BY <1>5, <2>1
<1>7. h \in [0..n -> T]
  <2>1. \A k \in 0..n : h[k] \in T
    <3> HIDE DEF h
    <3> QED BY <1>5
  <2> QED BY <2>1
<1> HIDE DEF h, S
<1>8. QED
  BY <1>1, <1>2, <1>6, <1>7 DEF IsAlong

(* The sum of numbers, one after the other.                                *)
LEMMA SumSteps ==
  ASSUME NEW ns \in Seq(Int)
  PROVE  \E h \in [0..Len(ns) -> Int] :
           /\ h[0] = 0 /\ SumUp(ns) = h[Len(ns)]
           /\ \A k \in 1..Len(ns) : h[k] = h[k - 1] + ns[k]
<1> DEFINE n == Len(ns)
           Is(f) == f = [s \in SUBSET (1..n) |->
                           IF s = {} THEN 0 ELSE f[s \ {Max(s)}] + ns[Max(s)]]
           G == [x \in Int \X (1..n) |-> x[1] + ns[x[2]]]
           f == CHOOSE g : Is(g)
<1>1. n \in Nat /\ DOMAIN ns = 1..n /\ \A k \in 1..n : ns[k] \in Int
  OBVIOUS
<1>2. /\ G \in [Int \X (1..n) -> Int] /\ 0 \in Int
      /\ \A x \in Int, k \in 1..n : G[<<x, k>>] = x + ns[k]
  BY <1>1, SMTT(30)
<1>3. \A s \in SUBSET (1..n) : s # {} => Max(s) \in 1..n
  <2> HIDE DEF n
  <2> QED BY <1>1, MaxOf
<1> HIDE DEF G, n
<1>4. SumUp(ns) = f[1..n]
  BY <1>1 DEF SumUp, FoldLeft, MapThenFoldSet
<1>5. Is(f)
  <2>1. PICK g : IsFold(g, n, Int, 0, G)
    BY <1>1, <1>2, FoldExists, Zenon
  <2>2. /\ g \in [SUBSET (1..n) -> Int]
        /\ \A s \in SUBSET (1..n) :
             g[s] = IF s = {} THEN 0 ELSE G[<<g[s \ {Max(s)}], Max(s)>>]
    BY <2>1 DEF IsFold
  <2>3. \A s \in SUBSET (1..n) : s # {} => g[s] = g[s \ {Max(s)}] + ns[Max(s)]
    BY <1>2, <1>3, <2>2
  <2>4. Is(g)
    BY <2>2, <2>3
  <2> HIDE DEF Is
  <2> QED BY <2>4
<1>6. GoesOn(f, n, Int, 0, G)
  <2> HIDE DEF f
  <2> QED BY <1>2, <1>3, <1>5 DEF GoesOn
<1> HIDE DEF f
<1>7. \E h : IsAlong(h, f, n, Int, 0, G)
  <2>1. G \in [Int \X (1..n) -> Int] /\ 0 \in Int
    BY <1>2
  <2> QED BY <1>1, <2>1, <1>6, FoldValues, Zenon
<1>8. PICK h : IsAlong(h, f, n, Int, 0, G)
  BY <1>7
<1>9. \A k \in 1..n : h[k] = h[k - 1] + ns[k]
  <2>1. \A k \in 1..n : k - 1 \in 0..n
    BY <1>1
  <2> QED BY <1>2, <1>8, <2>1 DEF IsAlong
<1>10. QED
  BY <1>4, <1>8, <1>9 DEF n, IsAlong

-----------------------------------------------------------------------------
(* What is kept along a list of trades.                                    *)
Totals == [total : Nat, wins : Nat, losses : Nat, rr : Int]

Figures == [total : Nat, wins : Nat, losses : Nat, breakEvens : Nat, open : Nat,
            rr : Int, rrSum : Int, rrCount : Nat, best : Int, worst : Int,
            cur : Int, maxWin : Nat, byAsset : [Assets -> Totals]]

(* The figures u are the figures s and the trade t.                        *)
Adds(s, t, u) ==
  /\ u.total = s.total + 1
  /\ u.wins = s.wins + One(t.status = "WIN")
  /\ u.losses = s.losses + One(t.status = "LOSS")
  /\ u.breakEvens = s.breakEvens + One(t.status = "BE")
  /\ u.open = s.open + One(t.status = "OPEN")
  /\ u.rr = s.rr + (IF Closed(t) THEN t.rr ELSE 0)
  /\ u.best = (IF s.total = 0 \/ t.rr > s.best THEN t.rr ELSE s.best)
  /\ u.worst = (IF s.total = 0 \/ t.rr < s.worst THEN t.rr ELSE s.worst)
  /\ u.cur = StreakAfter(s.cur, t.status)
  /\ u.maxWin = (IF u.cur > s.maxWin THEN u.cur ELSE s.maxWin)
  /\ \A a \in Assets : u.byAsset[a] =
       IF a = t.asset
       THEN [total |-> s.byAsset[a].total + 1,
             wins |-> s.byAsset[a].wins + One(t.status = "WIN"),
             losses |-> s.byAsset[a].losses + One(t.status = "LOSS"),
             rr |-> s.byAsset[a].rr + (IF Closed(t) THEN t.rr ELSE 0)]
       ELSE s.byAsset[a]

LEMMA AddTradeOK ==
  ASSUME NEW s \in Figures, NEW t \in StoredTrade
  PROVE  AddTrade(s, t) \in Figures /\ Adds(s, t, AddTrade(s, t))
<1> DEFINE u == AddTrade(s, t)
<1>1. /\ One(t.status = "WIN") \in Nat /\ One(t.status = "LOSS") \in Nat
      /\ One(t.status = "BE") \in Nat /\ One(t.status = "OPEN") \in Nat /\ One(t.rr # 0) \in Nat
  BY DEF One
<1>2. StreakAfter(s.cur, t.status) \in Int
  BY DEF StreakAfter, Figures, StoredTrade
<1> DEFINE c == StreakAfter(s.cur, t.status)
           r == IF Closed(t) THEN t.rr ELSE 0
           b == [s.byAsset EXCEPT ![t.asset] =
                   [total |-> @.total + 1, wins |-> @.wins + One(t.status = "WIN"),
                    losses |-> @.losses + One(t.status = "LOSS"), rr |-> @.rr + r]]
           v == [total |-> s.total + 1, wins |-> s.wins + One(t.status = "WIN"),
                 losses |-> s.losses + One(t.status = "LOSS"),
                 breakEvens |-> s.breakEvens + One(t.status = "BE"),
                 open |-> s.open + One(t.status = "OPEN"),
                 rr |-> s.rr + r, rrSum |-> s.rrSum + t.rr,
                 rrCount |-> s.rrCount + One(t.rr # 0),
                 best |-> IF s.total = 0 \/ t.rr > s.best THEN t.rr ELSE s.best,
                 worst |-> IF s.total = 0 \/ t.rr < s.worst THEN t.rr ELSE s.worst,
                 cur |-> c, maxWin |-> IF c > s.maxWin THEN c ELSE s.maxWin,
                 byAsset |-> b]
<1>3. r \in Int /\ t.rr \in Int
  BY DEF StoredTrade
<1>4. b \in [Assets -> Totals]
  <2>1. s.byAsset \in [Assets -> Totals]
    BY DEF Figures
  <2>2. b = [a \in Assets |-> IF a = t.asset
              THEN [total |-> s.byAsset[a].total + 1,
                    wins |-> s.byAsset[a].wins + One(t.status = "WIN"),
                    losses |-> s.byAsset[a].losses + One(t.status = "LOSS"), rr |-> s.byAsset[a].rr + r]
              ELSE s.byAsset[a]]
    BY <2>1
  <2>3. ASSUME NEW a \in Assets PROVE b[a] \in Totals
    <3> HIDE DEF r
    <3> QED BY <2>1, <2>2, <1>1, <1>3 DEF Totals
  <2> HIDE DEF b
  <2> QED BY <2>2, <2>3
<1>5. u = v
  BY DEF AddTrade
<1>6. v \in Figures
  <2> HIDE DEF b, r, c
  <2>1. c \in Int
    BY <1>2 DEF c
  <2> QED BY <1>1, <1>3, <1>4, <2>1 DEF Figures
<1>7. \A a \in Assets : b[a] = IF a = t.asset
              THEN [total |-> s.byAsset[a].total + 1,
                    wins |-> s.byAsset[a].wins + One(t.status = "WIN"),
                    losses |-> s.byAsset[a].losses + One(t.status = "LOSS"),
                    rr |-> s.byAsset[a].rr + (IF Closed(t) THEN t.rr ELSE 0)]
              ELSE s.byAsset[a]
  BY DEF Figures
<1>8. QED
  <2> HIDE DEF b, u
  <2> QED BY <1>5, <1>6, <1>7 DEF Adds, u
LEMMA EmptyOK == Empty \in Figures
<1>1. NoAssetStats \in Totals
  BY DEF NoAssetStats, Totals
<1>2. [a \in Assets |-> NoAssetStats] \in [Assets -> Totals]
  BY <1>1
<1>3. QED
  BY <1>2 DEF Empty, Figures

(* CalculateStats one trade after the other (stats.go 29-120).              *)
LEMMA StatsSteps ==
  ASSUME NEW ts \in Seq(StoredTrade)
  PROVE  \E h \in [0..Len(ts) -> Figures] :
           /\ h[0] = Empty /\ CalculateStats(ts) = h[Len(ts)]
           /\ \A k \in 1..Len(ts) : h[k] = AddTrade(h[k - 1], ts[k])
<1> DEFINE n == Len(ts)
           Is(f) == f = [s \in SUBSET (1..n) |->
                           IF s = {} THEN Empty ELSE AddTrade(f[s \ {Max(s)}], ts[Max(s)])]
           G == [x \in Figures \X (1..n) |-> AddTrade(x[1], ts[x[2]])]
           f == CHOOSE g : Is(g)
<1>1. n \in Nat /\ DOMAIN ts = 1..n /\ \A k \in 1..n : ts[k] \in StoredTrade
  OBVIOUS
<1>2. /\ G \in [Figures \X (1..n) -> Figures] /\ Empty \in Figures
      /\ \A x \in Figures, k \in 1..n : G[<<x, k>>] = AddTrade(x, ts[k])
  BY <1>1, AddTradeOK, EmptyOK
<1>3. \A s \in SUBSET (1..n) : s # {} => Max(s) \in 1..n
  <2> HIDE DEF n
  <2> QED BY <1>1, MaxOf
<1> HIDE DEF G, n
<1>4. CalculateStats(ts) = f[1..n]
  BY <1>1 DEF CalculateStats, FoldLeft, MapThenFoldSet
<1>5. Is(f)
  <2>1. Empty \in Figures /\ G \in [Figures \X (1..n) -> Figures]
    BY <1>2
  <2>2. PICK g : IsFold(g, n, Figures, Empty, G)
    BY <1>1, <2>1, FoldExists, Zenon
  <2>3. /\ g \in [SUBSET (1..n) -> Figures]
        /\ \A s \in SUBSET (1..n) :
             g[s] = IF s = {} THEN Empty ELSE G[<<g[s \ {Max(s)}], Max(s)>>]
    BY <2>2 DEF IsFold
  <2>4. \A s \in SUBSET (1..n) : s # {} => g[s] = AddTrade(g[s \ {Max(s)}], ts[Max(s)])
    BY <1>2, <1>3, <2>3
  <2>5. Is(g)
    BY <2>3, <2>4
  <2> HIDE DEF Is
  <2> QED BY <2>5
<1>6. GoesOn(f, n, Figures, Empty, G)
  <2> HIDE DEF f
  <2> QED BY <1>2, <1>3, <1>5 DEF GoesOn
<1> HIDE DEF f
<1>7. PICK h : IsAlong(h, f, n, Figures, Empty, G)
  <2>1. Empty \in Figures /\ G \in [Figures \X (1..n) -> Figures]
    BY <1>2
  <2> QED BY <1>1, <2>1, <1>6, FoldValues, Zenon
<1>8. \A k \in 1..n : h[k] = AddTrade(h[k - 1], ts[k])
  <2>1. \A k \in 1..n : k - 1 \in 0..n
    BY <1>1
  <2> QED BY <1>2, <1>7, <2>1 DEF IsAlong
<1>9. QED
  BY <1>4, <1>7, <1>8 DEF n, IsAlong

Cards == [total : Nat, wins : Nat, losses : Nat, breakEvens : Nat, rr : Int,
          best : Int, worst : Int]

LEMMA AddToCardOK ==
  ASSUME NEW c \in Cards, NEW t \in StoredTrade
  PROVE  AddToCard(c, t) \in Cards
<1>1. /\ One(t.status = "WIN") \in Nat /\ One(t.status = "LOSS") \in Nat
      /\ One(t.status = "BE") \in Nat
  BY DEF One
<1>2. QED
  BY <1>1 DEF AddToCard, Cards, StoredTrade

LEMMA NoCardOK == NoCard \in Cards
BY DEF NoCard, Cards

(* The report card one trade after the other (reportcard.go 69-118).        *)
LEMMA CardSteps ==
  ASSUME NEW ts \in Seq(StoredTrade)
  PROVE  \E h \in [0..Len(ts) -> Cards] :
           /\ h[0] = NoCard /\ FoldLeft(AddToCard, NoCard, ts) = h[Len(ts)]
           /\ \A k \in 1..Len(ts) : h[k] = AddToCard(h[k - 1], ts[k])
<1> DEFINE n == Len(ts)
           Is(f) == f = [s \in SUBSET (1..n) |->
                           IF s = {} THEN NoCard ELSE AddToCard(f[s \ {Max(s)}], ts[Max(s)])]
           G == [x \in Cards \X (1..n) |-> AddToCard(x[1], ts[x[2]])]
           f == CHOOSE g : Is(g)
<1>1. n \in Nat /\ DOMAIN ts = 1..n /\ \A k \in 1..n : ts[k] \in StoredTrade
  OBVIOUS
<1>2. /\ G \in [Cards \X (1..n) -> Cards] /\ NoCard \in Cards
      /\ \A x \in Cards, k \in 1..n : G[<<x, k>>] = AddToCard(x, ts[k])
  BY <1>1, AddToCardOK, NoCardOK
<1>3. \A s \in SUBSET (1..n) : s # {} => Max(s) \in 1..n
  <2> HIDE DEF n
  <2> QED BY <1>1, MaxOf
<1> HIDE DEF G, n
<1>4. FoldLeft(AddToCard, NoCard, ts) = f[1..n]
  BY <1>1 DEF FoldLeft, MapThenFoldSet
<1>5. Is(f)
  <2>1. NoCard \in Cards /\ G \in [Cards \X (1..n) -> Cards]
    BY <1>2
  <2>2. PICK g : IsFold(g, n, Cards, NoCard, G)
    BY <1>1, <2>1, FoldExists, Zenon
  <2>3. /\ g \in [SUBSET (1..n) -> Cards]
        /\ \A s \in SUBSET (1..n) :
             g[s] = IF s = {} THEN NoCard ELSE G[<<g[s \ {Max(s)}], Max(s)>>]
    BY <2>2 DEF IsFold
  <2>4. \A s \in SUBSET (1..n) : s # {} => g[s] = AddToCard(g[s \ {Max(s)}], ts[Max(s)])
    BY <1>2, <1>3, <2>3
  <2>5. Is(g)
    BY <2>3, <2>4
  <2> HIDE DEF Is
  <2> QED BY <2>5
<1>6. GoesOn(f, n, Cards, NoCard, G)
  <2> HIDE DEF f
  <2> QED BY <1>2, <1>3, <1>5 DEF GoesOn
<1> HIDE DEF f
<1>7. PICK h : IsAlong(h, f, n, Cards, NoCard, G)
  <2>1. NoCard \in Cards /\ G \in [Cards \X (1..n) -> Cards]
    BY <1>2
  <2> QED BY <1>1, <2>1, <1>6, FoldValues, Zenon
<1>8. \A k \in 1..n : h[k] = AddToCard(h[k - 1], ts[k])
  <2>1. \A k \in 1..n : k - 1 \in 0..n
    BY <1>1
  <2> QED BY <1>2, <1>7, <2>1 DEF IsAlong
<1>9. QED
  BY <1>4, <1>7, <1>8 DEF n, IsAlong

(* The sum of the RR of some of the trades, one after the other.           *)
LEMMA RRSteps ==
  ASSUME NEW ts \in Seq(StoredTrade), NEW S
  PROVE  \E r \in [0..Len(ts) -> Int] :
           /\ r[0] = 0 /\ RRWithin(ts, S) = r[Len(ts)]
           /\ \A k \in 1..Len(ts) : r[k] = r[k - 1] + (IF ts[k] \in S THEN ts[k].rr ELSE 0)
<1> DEFINE ns == [i \in DOMAIN ts |-> IF ts[i] \in S THEN ts[i].rr ELSE 0]
<1>1. /\ Len(ts) \in Nat /\ DOMAIN ts = 1..Len(ts)
      /\ \A k \in 1..Len(ts) : ts[k] \in StoredTrade
  OBVIOUS
<1>2. \A k \in 1..Len(ts) : ns[k] \in Int
  BY <1>1 DEF StoredTrade
<1>3. ns \in Seq(Int) /\ Len(ns) = Len(ts)
  BY <1>1, <1>2
<1>4. \A k \in 1..Len(ts) : ns[k] = IF ts[k] \in S THEN ts[k].rr ELSE 0
  BY <1>1
<1>5. RRWithin(ts, S) = SumUp(ns)
  BY DEF RRWithin
<1> HIDE DEF ns
<1>6. QED
  BY <1>3, <1>4, <1>5, SumSteps

(* How many of the first k numbers are in W.                               *)
Number(W, k) == Cardinality((1..k) \cap W)

LEMMA NumberStep ==
  ASSUME NEW W
  PROVE  /\ Number(W, 0) = 0
         /\ \A k \in Nat : Number(W, k) \in Nat
         /\ \A k \in Nat \ {0} : Number(W, k) = Number(W, k - 1) + One(k \in W)
<1>1. ASSUME NEW k \in Nat PROVE IsFiniteSet((1..k) \cap W)
  <2>1. IsFiniteSet(1..k)
    BY FS_Interval
  <2> QED BY <2>1, FS_Intersection
<1>2. \A k \in Nat : Number(W, k) \in Nat
  BY <1>1, FS_CardinalityType DEF Number
<1>3. Number(W, 0) = 0
  <2>1. (1..0) \cap W = {}
    OBVIOUS
  <2>2. QED
    BY <2>1, FS_EmptySet DEF Number
<1>4. ASSUME NEW k \in Nat \ {0} PROVE Number(W, k) = Number(W, k - 1) + One(k \in W)
  <2> DEFINE before == (1..(k - 1)) \cap W
  <2>1. IsFiniteSet(before) /\ k \notin before
    BY <1>1
  <2>2. CASE k \in W
    <3>1. (1..k) \cap W = before \cup {k}
      BY <2>2
    <3>2. QED
      BY <2>1, <2>2, <3>1, FS_AddElement DEF Number, One
  <2>3. CASE k \notin W
    <3>1. (1..k) \cap W = before
      BY <2>3
    <3>2. QED
      BY <2>3, <3>1, <1>2 DEF Number, One
  <2>4. QED
    BY <2>2, <2>3
<1>5. QED
  BY <1>2, <1>3, <1>4

(* What CalculateStats counts (stats.go 29-120).                           *)
LEMMA TotalsOfAnyList ==
  ASSUME NEW ts \in Seq(StoredTrade)
  PROVE  TotalsAreExact(ts)
<1> DEFINE n == Len(ts)
           With(st) == {i \in 1..n : ts[i].status = st}
<1>1. n \in Nat /\ DOMAIN ts = 1..n /\ \A k \in 1..n : ts[k] \in StoredTrade
  OBVIOUS
<1>2. PICK h \in [0..n -> Figures] :
        /\ h[0] = Empty /\ CalculateStats(ts) = h[n]
        /\ \A k \in 1..n : h[k] = AddTrade(h[k - 1], ts[k])
  BY StatsSteps
<1> HIDE DEF n
<1>3. ASSUME NEW k \in 1..n
      PROVE  /\ k - 1 \in 0..n /\ k \in 0..n /\ k \in Nat \ {0}
             /\ ts[k] \in StoredTrade /\ h[k - 1] \in Figures /\ h[k] \in Figures
             /\ Adds(h[k - 1], ts[k], h[k])
  BY <1>1, <1>2, AddTradeOK
<1>4. h[n].wins = Number(With("WIN"), n) /\ h[n].losses = Number(With("LOSS"), n)
  <2> DEFINE S == {k \in 0..n : /\ h[k].wins = Number(With("WIN"), k)
                                /\ h[k].losses = Number(With("LOSS"), k)}
  <2>1. 0 \in S
    <3>1. h[0].wins = 0 /\ h[0].losses = 0 /\ 0 \in 0..n
      BY <1>1, <1>2 DEF Empty
    <3>2. Number(With("WIN"), 0) = 0 /\ Number(With("LOSS"), 0) = 0
      <4> HIDE DEF With
      <4> QED BY NumberStep
    <3> QED BY <3>1, <3>2
  <2>2. ASSUME NEW k \in 1..n, k - 1 \in S PROVE k \in S
    <3>1. /\ h[k].wins = h[k - 1].wins + One(ts[k].status = "WIN")
          /\ h[k].losses = h[k - 1].losses + One(ts[k].status = "LOSS")
      BY <1>3 DEF Adds
    <3>2. (k \in With("WIN") <=> ts[k].status = "WIN") /\ (k \in With("LOSS") <=> ts[k].status = "LOSS")
      OBVIOUS
    <3>3. /\ Number(With("WIN"), k) = Number(With("WIN"), k - 1) + One(ts[k].status = "WIN")
          /\ Number(With("LOSS"), k) = Number(With("LOSS"), k - 1) + One(ts[k].status = "LOSS")
      <4> HIDE DEF With
      <4>1. /\ Number(With("WIN"), k) = Number(With("WIN"), k - 1) + One(k \in With("WIN"))
            /\ Number(With("LOSS"), k) = Number(With("LOSS"), k - 1) + One(k \in With("LOSS"))
        BY <1>3, NumberStep
      <4> QED BY <3>2, <4>1 DEF One
    <3> QED BY <2>2, <3>1, <3>3, <1>3
  <2>3. \A k \in 0..n : k \in S
    <3> HIDE DEF S
    <3> QED BY <1>1, <2>1, <2>2, UpTo
  <2>4. n \in S
    <3> HIDE DEF S
    <3> QED BY <2>3, <1>1
  <2> QED BY <2>4
<1>5. /\ h[n].total = n
      /\ h[n].total = h[n].wins + h[n].losses + h[n].breakEvens + h[n].open
  <2> DEFINE S == {k \in 0..n :
        /\ h[k].total = k
        /\ h[k].total = h[k].wins + h[k].losses + h[k].breakEvens + h[k].open}
  <2>1. 0 \in S
    BY <1>1, <1>2 DEF Empty
  <2>2. ASSUME NEW k \in 1..n, k - 1 \in S PROVE k \in S
    <3>1. /\ h[k].total = h[k - 1].total + 1
          /\ h[k].wins = h[k - 1].wins + One(ts[k].status = "WIN")
          /\ h[k].losses = h[k - 1].losses + One(ts[k].status = "LOSS")
          /\ h[k].breakEvens = h[k - 1].breakEvens + One(ts[k].status = "BE")
          /\ h[k].open = h[k - 1].open + One(ts[k].status = "OPEN")
      BY <1>3 DEF Adds
    <3>2. One(ts[k].status = "WIN") + One(ts[k].status = "LOSS") + One(ts[k].status = "BE")
            + One(ts[k].status = "OPEN") = 1
      BY <1>3 DEF StoredTrade, One
    <3>3. /\ h[k - 1].wins \in Nat /\ h[k - 1].losses \in Nat /\ h[k - 1].breakEvens \in Nat
          /\ h[k - 1].open \in Nat /\ One(ts[k].status = "WIN") \in Nat
          /\ One(ts[k].status = "LOSS") \in Nat /\ One(ts[k].status = "BE") \in Nat
          /\ One(ts[k].status = "OPEN") \in Nat
      BY <1>3 DEF Figures, One
    <3>4. /\ h[k - 1].total = k - 1
          /\ h[k - 1].total = h[k - 1].wins + h[k - 1].losses + h[k - 1].breakEvens
                              + h[k - 1].open
      BY <2>2
    <3>5. h[k].total = k
      BY <3>1, <3>4, <1>3
    <3>6. h[k].total = h[k].wins + h[k].losses + h[k].breakEvens + h[k].open
      <4> DEFINE o == One(ts[k].status = "WIN")
                 p == One(ts[k].status = "LOSS")
                 q == One(ts[k].status = "BE")
                 r == One(ts[k].status = "OPEN")
                 w == h[k - 1].wins
                 x == h[k - 1].losses
                 y == h[k - 1].breakEvens
                 z == h[k - 1].open
      <4>1. /\ o \in Nat /\ p \in Nat /\ q \in Nat /\ r \in Nat /\ o + p + q + r = 1
            /\ w \in Nat /\ x \in Nat /\ y \in Nat /\ z \in Nat
        BY <3>2, <3>3
      <4>2. /\ h[k].total = h[k - 1].total + 1 /\ h[k - 1].total = w + x + y + z
            /\ h[k].wins = w + o /\ h[k].losses = x + p /\ h[k].breakEvens = y + q
            /\ h[k].open = z + r
        BY <3>1, <3>4
      <4> HIDE DEF S, o, p, q, r, w, x, y, z
      <4>3. (w + x + y + z) + 1 = (w + o) + (x + p) + (y + q) + (z + r)
        BY <4>1
      <4> QED BY <4>2, <4>3
    <3> QED BY <3>5, <3>6, <1>3
  <2>3. \A k \in 0..n : k \in S
    <3> HIDE DEF S
    <3> QED BY <1>1, <2>1, <2>2, UpTo
  <2>4. n \in S
    <3> HIDE DEF S
    <3> QED BY <2>3, <1>1
  <2> QED BY <2>4
<1>6. h[n].rr = RRWithin(ts, ClosedOf(ts))
  <2>1. PICK r \in [0..n -> Int] :
          /\ r[0] = 0 /\ RRWithin(ts, ClosedOf(ts)) = r[n]
          /\ \A k \in 1..n : r[k] = r[k - 1] + (IF ts[k] \in ClosedOf(ts) THEN ts[k].rr ELSE 0)
    BY RRSteps DEF n
  <2> DEFINE S == {k \in 0..n : h[k].rr = r[k]}
  <2>2. 0 \in S
    BY <1>1, <1>2, <2>1 DEF Empty
  <2>3. ASSUME NEW k \in 1..n, k - 1 \in S PROVE k \in S
    <3>1. h[k].rr = h[k - 1].rr + (IF Closed(ts[k]) THEN ts[k].rr ELSE 0)
      BY <1>3 DEF Adds
    <3>2. ts[k] \in ClosedOf(ts) <=> Closed(ts[k])
      BY <1>1 DEF ClosedOf, ToSet
    <3> QED BY <2>1, <2>3, <3>1, <3>2, <1>3
  <2>4. \A k \in 0..n : k \in S
    <3> HIDE DEF S
    <3> QED BY <1>1, <2>2, <2>3, UpTo
  <2> QED BY <2>1, <2>4, <1>1
<1>7. \A i \in 1..n : h[n].worst <= ts[i].rr /\ ts[i].rr <= h[n].best
  <2> DEFINE S == {k \in 0..n : h[k].total = k /\
                     \A i \in 1..k : h[k].worst <= ts[i].rr /\ ts[i].rr <= h[k].best}
  <2>1. 0 \in S
    BY <1>1, <1>2 DEF Empty
  <2>2. ASSUME NEW k \in 1..n, k - 1 \in S PROVE k \in S
    <3>1. /\ h[k].total = h[k - 1].total + 1
          /\ h[k].best = (IF h[k - 1].total = 0 \/ ts[k].rr > h[k - 1].best
                          THEN ts[k].rr ELSE h[k - 1].best)
          /\ h[k].worst = (IF h[k - 1].total = 0 \/ ts[k].rr < h[k - 1].worst
                           THEN ts[k].rr ELSE h[k - 1].worst)
      BY <1>3 DEF Adds
    <3>2. h[k - 1].best \in Int /\ h[k - 1].worst \in Int
      BY <1>3 DEF Figures
    <3>0. ASSUME NEW i \in 1..k PROVE i \in 1..n /\ ts[i].rr \in Int
      <4>1. i \in 1..n
        BY <1>1
      <4> QED BY <4>1, <1>1 DEF StoredTrade
    <3>3. ASSUME NEW i \in 1..k PROVE h[k].worst <= ts[i].rr /\ ts[i].rr <= h[k].best
      <4>1. CASE i = k
        BY <4>1, <3>0, <3>1, <3>2
      <4>2. CASE i \in 1..(k - 1)
        <5>1. h[k - 1].total # 0 /\ h[k - 1].worst <= ts[i].rr /\ ts[i].rr <= h[k - 1].best
          BY <2>2, <4>2, <1>3
        <5> QED BY <5>1, <3>0, <3>1, <3>2, SMTT(30)
      <4> QED BY <4>1, <4>2, <1>3
    <3>4. h[k].total = k
      BY <2>2, <3>1, <1>3
    <3> QED BY <3>3, <3>4, <1>3
  <2>3. \A k \in 0..n : k \in S
    <3> HIDE DEF S
    <3> QED BY <1>1, <2>1, <2>2, UpTo
  <2>4. n \in S
    <3> HIDE DEF S
    <3> QED BY <2>3, <1>1
  <2> QED BY <2>4
<1>8. ASSUME NEW a \in Assets
      PROVE  h[n].byAsset[a] =
               [total |-> Number({i \in 1..n : ts[i].asset = a}, n),
                wins |-> Number({i \in 1..n : ts[i].asset = a /\ ts[i].status = "WIN"}, n),
                losses |-> Number({i \in 1..n : ts[i].asset = a /\ ts[i].status = "LOSS"}, n),
                rr |-> RRWithin(ts, {t \in ClosedOf(ts) : t.asset = a})]
  <2> DEFINE Q == {t \in ClosedOf(ts) : t.asset = a}
             Of == {i \in 1..n : ts[i].asset = a}
             W == {i \in 1..n : ts[i].asset = a /\ ts[i].status = "WIN"}
             L == {i \in 1..n : ts[i].asset = a /\ ts[i].status = "LOSS"}
  <2>1. PICK r \in [0..n -> Int] :
          /\ r[0] = 0 /\ RRWithin(ts, Q) = r[n]
          /\ \A k \in 1..n : r[k] = r[k - 1] + (IF ts[k] \in Q THEN ts[k].rr ELSE 0)
    <3> HIDE DEF Q
    <3> QED BY RRSteps DEF n
  <2> DEFINE Is(k) == [total |-> Number(Of, k), wins |-> Number(W, k),
                       losses |-> Number(L, k), rr |-> r[k]]
             S == {k \in 0..n : h[k].byAsset[a] = Is(k)}
  <2>2. 0 \in S
    <3>1. h[0].byAsset[a] = NoAssetStats
      BY <1>2 DEF Empty
    <3>2. Number(Of, 0) = 0 /\ Number(W, 0) = 0 /\ Number(L, 0) = 0
      <4> HIDE DEF Of, W, L
      <4> QED BY NumberStep
    <3> HIDE DEF Of, W, L
    <3> QED BY <1>1, <3>1, <3>2, <2>1 DEF NoAssetStats
  <2>3. ASSUME NEW k \in 1..n, k - 1 \in S PROVE k \in S
    <3> DEFINE b == h[k - 1].byAsset[a]
    <3>1. h[k].byAsset[a] =
            IF a = ts[k].asset
            THEN [total |-> b.total + 1, wins |-> b.wins + One(ts[k].status = "WIN"),
                  losses |-> b.losses + One(ts[k].status = "LOSS"),
                  rr |-> b.rr + (IF Closed(ts[k]) THEN ts[k].rr ELSE 0)]
            ELSE b
      BY <1>3 DEF Adds
    <3>2. b = [total |-> Number(Of, k - 1), wins |-> Number(W, k - 1),
               losses |-> Number(L, k - 1), rr |-> r[k - 1]]
      BY <2>3
    <3>3. /\ k \in Of <=> ts[k].asset = a
          /\ k \in W <=> ts[k].asset = a /\ ts[k].status = "WIN"
          /\ k \in L <=> ts[k].asset = a /\ ts[k].status = "LOSS"
      OBVIOUS
    <3>4. ts[k] \in Q <=> ts[k].asset = a /\ Closed(ts[k])
      BY <1>1 DEF ClosedOf, ToSet
    <3> HIDE DEF Of, W, L, Q, b
    <3>5. /\ Number(Of, k) = Number(Of, k - 1) + One(ts[k].asset = a)
          /\ Number(W, k) = Number(W, k - 1) + One(ts[k].asset = a /\ ts[k].status = "WIN")
          /\ Number(L, k) = Number(L, k - 1) + One(ts[k].asset = a /\ ts[k].status = "LOSS")
          /\ r[k] = r[k - 1] + (IF ts[k].asset = a /\ Closed(ts[k]) THEN ts[k].rr ELSE 0)
      <4>1. /\ Number(Of, k) = Number(Of, k - 1) + One(k \in Of)
            /\ Number(W, k) = Number(W, k - 1) + One(k \in W)
            /\ Number(L, k) = Number(L, k - 1) + One(k \in L)
        BY <1>3, NumberStep
      <4>2. r[k] = r[k - 1] + (IF ts[k].asset = a /\ Closed(ts[k]) THEN ts[k].rr ELSE 0)
        BY <2>1, <3>4
      <4> QED BY <3>3, <4>1, <4>2 DEF One
    <3>6. /\ Number(Of, k - 1) \in Nat /\ Number(W, k - 1) \in Nat /\ Number(L, k - 1) \in Nat
          /\ r[k - 1] \in Int
      <4>1. k - 1 \in Nat /\ k - 1 \in 0..n
        BY <1>3
      <4> QED BY <4>1, <2>1, NumberStep
    <3>7. CASE ts[k].asset = a
      <4>1. /\ Number(Of, k) = b.total + 1 /\ Number(W, k) = b.wins + One(ts[k].status = "WIN")
            /\ Number(L, k) = b.losses + One(ts[k].status = "LOSS")
            /\ r[k] = b.rr + (IF Closed(ts[k]) THEN ts[k].rr ELSE 0)
        BY <3>2, <3>5, <3>7 DEF One
      <4> QED BY <3>1, <3>7, <4>1, <1>3
    <3>8. CASE ts[k].asset # a
      <4>1. /\ Number(Of, k) = b.total /\ Number(W, k) = b.wins
            /\ Number(L, k) = b.losses /\ r[k] = b.rr
        BY <3>2, <3>5, <3>6, <3>8 DEF One
      <4> QED BY <3>1, <3>2, <3>8, <4>1, <1>3
    <3> QED BY <3>7, <3>8
  <2>4. \A k \in 0..n : k \in S
    <3> HIDE DEF S
    <3> QED BY <1>1, <2>2, <2>3, UpTo
  <2>5. n \in S
    <3> HIDE DEF S
    <3> QED BY <2>4, <1>1
  <2> QED BY <2>1, <2>5
<1>9. \A W \in SUBSET (1..n) : Number(W, n) = Cardinality(W)
  <2>1. \A W \in SUBSET (1..n) : (1..n) \cap W = W
    OBVIOUS
  <2> QED BY <2>1 DEF Number
<1>10. QED
  <2> DEFINE c == CalculateStats(ts)
  <2>1. c = h[n] /\ DOMAIN ts = 1..n
    BY <1>1, <1>2
  <2>2. c.wins = CountOf(ts, LAMBDA t : t.status = "WIN")
    BY <2>1, <1>4, <1>9 DEF CountOf
  <2>3. c.losses = CountOf(ts, LAMBDA t : t.status = "LOSS")
    BY <2>1, <1>4, <1>9 DEF CountOf
  <2>4. c.total = Len(ts) /\ c.total = c.wins + c.losses + c.breakEvens + c.open
    BY <2>1, <1>5 DEF n
  <2>5. c.rr = RRWithin(ts, ClosedOf(ts))
    BY <2>1, <1>6
  <2>6. \A i \in DOMAIN ts : c.worst <= ts[i].rr /\ ts[i].rr <= c.best
    BY <2>1, <1>7
  <2>7. ASSUME NEW a \in Assets
        PROVE  c.byAsset[a] =
                 [total |-> CountOf(ts, LAMBDA t : t.asset = a),
                  wins |-> CountOf(ts, LAMBDA t : t.asset = a /\ t.status = "WIN"),
                  losses |-> CountOf(ts, LAMBDA t : t.asset = a /\ t.status = "LOSS"),
                  rr |-> RRWithin(ts, {t \in ClosedOf(ts) : t.asset = a})]
    BY <2>1, <1>8, <1>9 DEF CountOf
  <2> HIDE DEF c
  <2> QED BY <2>2, <2>3, <2>4, <2>5, <2>6, <2>7 DEF TotalsAreExact, c

(* A run of wins, one trade longer.                                        *)
LEMMA RunStep ==
  ASSUME NEW ts \in Seq(StoredTrade), NEW k \in 1..Len(ts), NEW i \in 1..k
  PROVE  /\ IsRun(ts, i, k) <=> IsRun(ts, i, k - 1) /\ ts[k].status \notin {"LOSS", "BE"}
         /\ WinsIn(ts, i, k) = WinsIn(ts, i, k - 1) + One(ts[k].status = "WIN")
         /\ WinsIn(ts, i, k) \in Nat /\ WinsIn(ts, i, k - 1) \in Nat
         /\ WinsIn(ts, k, k - 1) = 0
<1> DEFINE Of(j) == {l \in i..j : ts[l].status = "WIN"}
<1>0. Len(ts) \in Nat /\ k \in Nat /\ i \in Nat
  OBVIOUS
<1>1. i..k = (i..(k - 1)) \cup {k} /\ k \notin i..(k - 1) /\ k..(k - 1) = {}
  BY <1>0
<1>2. IsFiniteSet(i..(k - 1)) /\ IsFiniteSet(i..k)
  <2>1. i \in Int /\ k \in Int /\ k - 1 \in Int
    BY <1>0
  <2> QED BY <2>1, FS_Interval
<1>3. IsFiniteSet(Of(k - 1)) /\ IsFiniteSet(Of(k))
  BY <1>2, FS_Subset
<1>4. WinsIn(ts, i, k) \in Nat /\ WinsIn(ts, i, k - 1) \in Nat
  BY <1>3, FS_CardinalityType DEF WinsIn
<1>5. IsRun(ts, i, k) <=> IsRun(ts, i, k - 1) /\ ts[k].status \notin {"LOSS", "BE"}
  BY <1>1 DEF IsRun
<1>6. WinsIn(ts, i, k) = WinsIn(ts, i, k - 1) + One(ts[k].status = "WIN")
  <2>1. CASE ts[k].status = "WIN"
    <3>1. Of(k) = Of(k - 1) \cup {k} /\ k \notin Of(k - 1)
      BY <1>1, <2>1
    <3> HIDE DEF Of
    <3>2. Cardinality(Of(k)) = Cardinality(Of(k - 1)) + 1
      BY <1>3, <3>1, FS_AddElement
    <3> QED BY <2>1, <3>2 DEF Of, WinsIn, One
  <2>2. CASE ts[k].status # "WIN"
    <3>1. Of(k) = Of(k - 1)
      BY <1>1, <2>2
    <3> HIDE DEF Of
    <3>2. Cardinality(Of(k)) = Cardinality(Of(k - 1)) + 0
      <4>1. Cardinality(Of(k - 1)) \in Nat
        BY <1>3, FS_CardinalityType
      <4> QED BY <3>1, <4>1
    <3> QED BY <2>2, <3>2 DEF Of, WinsIn, One
  <2> QED BY <2>1, <2>2
<1>7. WinsIn(ts, k, k - 1) = 0
  <2>1. {l \in k..(k - 1) : ts[l].status = "WIN"} = {}
    BY <1>1
  <2> QED BY <2>1, FS_EmptySet DEF WinsIn
<1>8. QED
  BY <1>4, <1>5, <1>6, <1>7

(* MaxWinStrk: the loop's invariant says of every run that has ended, and  *)
(* of every run that is still under way, how many wins it has.             *)
LEMMA MaxWinOfAnyList ==
  ASSUME NEW ts \in Seq(StoredTrade)
  PROVE  MaxWinIsLongestRun(ts)
<1> DEFINE n == Len(ts)
<1>1. n \in Nat /\ DOMAIN ts = 1..n /\ \A k \in 1..n : ts[k] \in StoredTrade
  OBVIOUS
<1>2. PICK h \in [0..n -> Figures] :
        /\ h[0] = Empty /\ CalculateStats(ts) = h[n]
        /\ \A k \in 1..n : h[k] = AddTrade(h[k - 1], ts[k])
  BY StatsSteps
<1> DEFINE Run(i, j) == IsRun(ts, i, j)
           Wins(i, j) == WinsIn(ts, i, j)
           Bounded(k) == \A i, j \in 1..k : Run(i, j) => Wins(i, j) <= h[k].maxWin
           Reached(k) == h[k].maxWin > 0 => \E i, j \in 1..k : Run(i, j) /\ Wins(i, j) = h[k].maxWin
           Now(k) == \A i \in 1..k : Run(i, k) => Wins(i, k) <= (IF h[k].cur > 0 THEN h[k].cur ELSE 0)
           Running(k) == h[k].cur > 0 => \E i \in 1..k : Run(i, k) /\ Wins(i, k) = h[k].cur
           S == {k \in 0..n : /\ Bounded(k) /\ Reached(k) /\ Now(k) /\ Running(k)
                              /\ h[k].cur <= h[k].maxWin}
<1>3. 0 \in S
  <2>1. h[0].cur = 0 /\ h[0].maxWin = 0 /\ 0 \in 0..n /\ 1..0 = {}
    BY <1>1, <1>2 DEF Empty
  <2> HIDE DEF Run, Wins, n
  <2> QED BY <2>1
<1>4. ASSUME NEW k \in 1..n, k - 1 \in S PROVE k \in S
  <2> HIDE DEF n
  <2>1. /\ k - 1 \in 0..n /\ k \in 0..n /\ k \in Nat /\ k \in 1..k /\ 1..(k - 1) \subseteq 1..k
        /\ \A i \in 1..k : i \in 1..(k - 1) \/ i = k
    BY <1>1
  <2>2. ts[k] \in StoredTrade /\ h[k - 1] \in Figures /\ h[k] \in Figures /\ Adds(h[k - 1], ts[k], h[k])
    BY <1>1, <1>2, <2>1, AddTradeOK
  <2> DEFINE st == ts[k].status
             c == h[k - 1].cur
             d == h[k].cur
             mx == h[k - 1].maxWin
             my == h[k].maxWin
  <2>3. /\ st \in {"WIN", "LOSS", "BE", "OPEN"} /\ c \in Int /\ d \in Int /\ mx \in Nat /\ my \in Nat
        /\ d = StreakAfter(c, st) /\ my = (IF d > mx THEN d ELSE mx)
    BY <2>2 DEF Adds, Figures, StoredTrade
  <2>4. /\ st = "WIN" => d = IF c > 0 THEN c + 1 ELSE 1
        /\ st = "LOSS" => d < 0
        /\ st = "BE" => d = 0
        /\ st = "OPEN" => d = c
    BY <2>3 DEF StreakAfter
  <2>5. /\ Bounded(k - 1) /\ Reached(k - 1) /\ Now(k - 1) /\ Running(k - 1) /\ c <= mx
    BY <1>4
  <2>6. ASSUME NEW i \in 1..k
        PROVE  /\ Run(i, k) <=> Run(i, k - 1) /\ st \notin {"LOSS", "BE"}
               /\ Wins(i, k) = Wins(i, k - 1) + One(st = "WIN")
               /\ Wins(i, k) \in Nat /\ Wins(i, k - 1) \in Nat
               /\ Wins(k, k - 1) = 0
    BY RunStep DEF n
  <2>7. Run(k, k - 1)
    <3>1. k..(k - 1) = {}
      BY <2>1
    <3> QED BY <3>1 DEF IsRun
  <2> HIDE DEF Run, Wins, st, c, d, mx, my
  <2>8. ASSUME NEW i \in 1..k, Run(i, k - 1) PROVE Wins(i, k - 1) <= IF c > 0 THEN c ELSE 0
    <3>1. CASE i = k
      BY <3>1, <2>6, <2>3
    <3>2. CASE i \in 1..(k - 1)
      BY <3>2, <2>5, <2>8 DEF c
    <3> QED BY <3>1, <3>2, <2>1
  <2>9. ASSUME NEW i \in 1..k, Run(i, k) PROVE Wins(i, k) <= IF d > 0 THEN d ELSE 0
    <3>1. Run(i, k - 1) /\ st \in {"WIN", "OPEN"}
      BY <2>3, <2>6, <2>9
    <3>2. Wins(i, k - 1) <= IF c > 0 THEN c ELSE 0
      BY <2>8, <3>1
    <3>3. CASE st = "WIN"
      <4>1. Wins(i, k) = Wins(i, k - 1) + 1 /\ Wins(i, k - 1) \in Nat
        BY <2>6, <3>3 DEF One
      <4> QED BY <2>3, <2>4, <3>2, <3>3, <4>1
    <3>4. CASE st = "OPEN"
      <4>1. Wins(i, k) = Wins(i, k - 1) + 0 /\ Wins(i, k - 1) \in Nat
        BY <2>6, <3>4 DEF One
      <4> QED BY <2>3, <2>4, <3>2, <3>4, <4>1
    <3> QED BY <3>1, <3>3, <3>4
  <2>10. ASSUME d > 0 PROVE \E i \in 1..k : Run(i, k) /\ Wins(i, k) = d
    <3>1. st \in {"WIN", "OPEN"}
      BY <2>3, <2>4, <2>10
    <3>2. CASE c > 0
      <4>1. PICK i \in 1..(k - 1) : Run(i, k - 1) /\ Wins(i, k - 1) = c
        BY <2>5, <3>2 DEF c
      <4>2. i \in 1..k
        BY <2>1
      <4>3. Wins(i, k) = c + One(st = "WIN") /\ Run(i, k)
        BY <2>6, <3>1, <4>1, <4>2
      <4>4. Wins(i, k) = d
        BY <2>3, <2>4, <3>1, <3>2, <4>3 DEF One
      <4> QED BY <4>2, <4>3, <4>4
    <3>3. CASE ~(c > 0)
      <4>1. st = "WIN" /\ d = 1
        BY <2>3, <2>4, <2>10, <3>1, <3>3
      <4>2. Run(k, k) /\ Wins(k, k) = 1
        BY <2>1, <2>6, <2>7, <4>1 DEF One
      <4> QED BY <2>1, <4>1, <4>2
    <3> QED BY <3>2, <3>3
  <2>11. Bounded(k)
    <3> SUFFICES ASSUME NEW i \in 1..k, NEW j \in 1..k, Run(i, j) PROVE Wins(i, j) <= my
      BY DEF my
    <3>1. CASE j = k
      <4>1. Wins(i, k) <= IF d > 0 THEN d ELSE 0
        BY <2>9, <3>1
      <4>2. Wins(i, k) \in Nat
        BY <2>6
      <4> QED BY <2>3, <3>1, <4>1, <4>2
    <3>2. CASE j \in 1..(k - 1) /\ i = k
      <4>1. i..j = {}
        BY <2>1, <3>2
      <4>2. Wins(i, j) = 0
        <5>1. {l \in i..j : ts[l].status = "WIN"} = {}
          BY <4>1
        <5> QED BY <5>1, FS_EmptySet DEF Wins, WinsIn
      <4> QED BY <2>3, <4>2
    <3>3. CASE j \in 1..(k - 1) /\ i \in 1..(k - 1)
      <4>1. Wins(i, j) <= mx
        BY <2>5, <3>3 DEF mx
      <4>2. Wins(i, j) \in Int
        <5>1. IsFiniteSet(i..j)
          BY FS_Interval
        <5>2. IsFiniteSet({l \in i..j : ts[l].status = "WIN"})
          BY <5>1, FS_Subset
        <5> QED BY <5>2, FS_CardinalityType DEF Wins, WinsIn
      <4> QED BY <2>3, <4>1, <4>2
    <3> QED BY <2>1, <3>1, <3>2, <3>3
  <2>12. Reached(k)
    <3> SUFFICES ASSUME my > 0 PROVE \E i, j \in 1..k : Run(i, j) /\ Wins(i, j) = my
      BY DEF my
    <3>1. CASE d > mx
      BY <2>1, <2>3, <2>10, <3>1
    <3>2. CASE ~(d > mx)
      <4>1. my = mx
        BY <2>3, <3>2
      <4>2. PICK i, j \in 1..(k - 1) : Run(i, j) /\ Wins(i, j) = mx
        BY <2>5, <4>1 DEF mx
      <4> QED BY <2>1, <4>1, <4>2
    <3> QED BY <3>1, <3>2
  <2>13. d <= my
    BY <2>3
  <2>14. QED
    BY <2>1, <2>9, <2>10, <2>11, <2>12, <2>13 DEF d, my
<1>5. n \in S
  <2> HIDE DEF S, n
  <2>1. \A k \in 0..n : k \in S
    BY <1>1, <1>3, <1>4, UpTo
  <2> QED BY <2>1, <1>1
<1>6. Bounded(n) /\ Reached(n)
  BY <1>5
<1>7. QED
  <2> HIDE DEF S
  <2> QED BY <1>2, <1>6 DEF MaxWinIsLongestRun

(* Break-evens lower a win rate (w of w + l): they raise none.             *)
LEMMA BreakEvensLower ==
  ASSUME NEW w \in Nat, NEW l \in Nat, NEW b \in Nat
  PROVE  ~Higher(<<w, w + l + b>>, <<w, w + l>>)
<1>1. w + l = 0 => w = 0
  OBVIOUS
<1>2. w * (w + l + b) = w * (w + l) + w * b
  OBVIOUS
<1>3. w * b >= 0 /\ w * (w + l) \in Int /\ w * b \in Int
  OBVIOUS
<1>4. ~(w * (w + l) > w * (w + l + b))
  BY <1>2, <1>3
<1>5. QED
  BY <1>1, <1>4 DEF Higher

LEMMA AddToCardFields ==
  ASSUME NEW c, NEW t, NEW d, d = AddToCard(c, t)
  PROVE  /\ d.total = c.total + 1
         /\ d.wins = c.wins + One(t.status = "WIN")
         /\ d.losses = c.losses + One(t.status = "LOSS")
         /\ d.breakEvens = c.breakEvens + One(t.status = "BE")
         /\ d.rr = c.rr + t.rr
         /\ d.best = (IF c.total = 0 \/ t.rr > c.best THEN t.rr ELSE c.best)
         /\ d.worst = (IF c.total = 0 \/ t.rr < c.worst THEN t.rr ELSE c.worst)
BY DEF AddToCard

(* /stats, the report card and the analysis, trade for trade.              *)
LEMMA FiguresOfAnyList ==
  ASSUME NEW ts \in Seq(StoredTrade)
  PROVE  FiguresAgree(ts)
<1> DEFINE n == Len(ts)
           With(st) == {i \in 1..n : ts[i].status = st}
           Ended == {i \in 1..n : ts[i].status \in {"WIN", "LOSS", "BE"}}
           Rest == ToSet(ts) \ ClosedOf(ts)
           ns == [i \in DOMAIN ts |-> ts[i].rr]
<1>1. n \in Nat /\ DOMAIN ts = 1..n /\ \A k \in 1..n : ts[k] \in StoredTrade
  OBVIOUS
<1>2. PICK h \in [0..n -> Figures] :
        /\ h[0] = Empty /\ CalculateStats(ts) = h[n]
        /\ \A k \in 1..n : h[k] = AddTrade(h[k - 1], ts[k])
  BY StatsSteps
<1>3. PICK g \in [0..n -> Cards] :
        /\ g[0] = NoCard /\ FoldLeft(AddToCard, NoCard, ts) = g[n]
        /\ \A k \in 1..n : g[k] = AddToCard(g[k - 1], ts[k])
  BY CardSteps
<1>4. PICK q \in [0..n -> Int] :
        /\ q[0] = 0 /\ RRNotClosed(ts) = q[n]
        /\ \A k \in 1..n : q[k] = q[k - 1] + (IF ts[k] \in Rest THEN ts[k].rr ELSE 0)
  <2> HIDE DEF Rest
  <2>1. PICK q \in [0..n -> Int] :
          /\ q[0] = 0 /\ RRWithin(ts, Rest) = q[n]
          /\ \A k \in 1..n : q[k] = q[k - 1] + (IF ts[k] \in Rest THEN ts[k].rr ELSE 0)
    BY RRSteps
  <2>2. RRNotClosed(ts) = RRWithin(ts, Rest)
    BY DEF RRNotClosed, Rest
  <2> QED BY <2>1, <2>2
<1>5. PICK p \in [0..n -> Int] :
        /\ p[0] = 0 /\ RROf(ts) = p[n]
        /\ \A k \in 1..n : p[k] = p[k - 1] + ts[k].rr
  <2>1. \A k \in 1..n : ns[k] = ts[k].rr /\ ns[k] \in Int
    BY <1>1 DEF StoredTrade
  <2>2. ns \in Seq(Int) /\ Len(ns) = n
    BY <1>1, <2>1
  <2>3. RROf(ts) = SumUp(ns)
    BY DEF RROf
  <2> HIDE DEF ns, n
  <2>4. PICK p \in [0..n -> Int] :
          /\ p[0] = 0 /\ SumUp(ns) = p[n]
          /\ \A k \in 1..n : p[k] = p[k - 1] + ns[k]
    BY <2>2, SumSteps
  <2> QED BY <2>1, <2>3, <2>4
<1> HIDE DEF n
<1>6. ASSUME NEW k \in 1..n
      PROVE  /\ k - 1 \in 0..n /\ k \in 0..n /\ k \in Nat \ {0}
             /\ ts[k] \in StoredTrade /\ h[k - 1] \in Figures /\ h[k] \in Figures
             /\ Adds(h[k - 1], ts[k], h[k])
  BY <1>1, <1>2, AddTradeOK
<1> DEFINE Same(k) == /\ g[k].total = h[k].total /\ g[k].wins = h[k].wins
                      /\ g[k].losses = h[k].losses /\ g[k].breakEvens = h[k].breakEvens
                      /\ g[k].best = h[k].best /\ g[k].worst = h[k].worst
           S == {k \in 0..n : Same(k)}
<1>7. Same(n)
  <2>1. 0 \in S
    BY <1>1, <1>2, <1>3 DEF Empty, NoCard
  <2>2. ASSUME NEW k \in 1..n, k - 1 \in S PROVE k \in S
    <3>1. /\ g[k].total = g[k - 1].total + 1
          /\ g[k].wins = g[k - 1].wins + One(ts[k].status = "WIN")
          /\ g[k].losses = g[k - 1].losses + One(ts[k].status = "LOSS")
          /\ g[k].breakEvens = g[k - 1].breakEvens + One(ts[k].status = "BE")
          /\ g[k].best = (IF g[k - 1].total = 0 \/ ts[k].rr > g[k - 1].best
                          THEN ts[k].rr ELSE g[k - 1].best)
          /\ g[k].worst = (IF g[k - 1].total = 0 \/ ts[k].rr < g[k - 1].worst
                           THEN ts[k].rr ELSE g[k - 1].worst)
      BY <1>3, AddToCardFields
    <3>2. /\ h[k].total = h[k - 1].total + 1
          /\ h[k].wins = h[k - 1].wins + One(ts[k].status = "WIN")
          /\ h[k].losses = h[k - 1].losses + One(ts[k].status = "LOSS")
          /\ h[k].breakEvens = h[k - 1].breakEvens + One(ts[k].status = "BE")
          /\ h[k].best = (IF h[k - 1].total = 0 \/ ts[k].rr > h[k - 1].best
                          THEN ts[k].rr ELSE h[k - 1].best)
          /\ h[k].worst = (IF h[k - 1].total = 0 \/ ts[k].rr < h[k - 1].worst
                           THEN ts[k].rr ELSE h[k - 1].worst)
      BY <1>6 DEF Adds
    <3>3. Same(k - 1) /\ k \in 0..n
      BY <2>2, <1>6
    <3>4. Same(k)
      BY <3>1, <3>2, <3>3
    <3> QED BY <3>3, <3>4
  <2>3. \A k \in 0..n : k \in S
    <3> HIDE DEF S
    <3> QED BY <1>1, <2>1, <2>2, UpTo
  <2>4. n \in S
    <3> HIDE DEF S
    <3> QED BY <2>3, <1>1
  <2> QED BY <2>4
<1>8. g[n].rr = h[n].rr + q[n] /\ p[n] = g[n].rr
  <2> DEFINE R == {k \in 0..n : g[k].rr = h[k].rr + q[k] /\ p[k] = g[k].rr}
  <2>1. 0 \in R
    BY <1>1, <1>2, <1>3, <1>4, <1>5 DEF Empty, NoCard
  <2>2. ASSUME NEW k \in 1..n, k - 1 \in R PROVE k \in R
    <3>1. g[k].rr = g[k - 1].rr + ts[k].rr /\ p[k] = p[k - 1] + ts[k].rr
      BY <1>3, <1>5, AddToCardFields
    <3>2. h[k].rr = h[k - 1].rr + (IF Closed(ts[k]) THEN ts[k].rr ELSE 0)
      BY <1>6 DEF Adds
    <3>3. ts[k] \in Rest <=> ~Closed(ts[k])
      BY <1>1 DEF ClosedOf, ToSet
    <3>4. q[k] = q[k - 1] + (IF Closed(ts[k]) THEN 0 ELSE ts[k].rr)
      BY <1>4, <3>3
    <3>5. /\ g[k - 1].rr = h[k - 1].rr + q[k - 1] /\ p[k - 1] = g[k - 1].rr /\ k \in 0..n
          /\ h[k - 1].rr \in Int /\ q[k - 1] \in Int /\ ts[k].rr \in Int
      BY <2>2, <1>4, <1>6 DEF Figures, StoredTrade
    <3>6. g[k].rr = h[k].rr + q[k] /\ p[k] = g[k].rr
      <4> HIDE DEF Rest
      <4>1. CASE Closed(ts[k])
        BY <3>1, <3>2, <3>4, <3>5, <4>1
      <4>2. CASE ~Closed(ts[k])
        BY <3>1, <3>2, <3>4, <3>5, <4>2
      <4> QED BY <4>1, <4>2
    <3> QED BY <3>5, <3>6
  <2>3. \A k \in 0..n : k \in R
    <3> HIDE DEF R
    <3> QED BY <1>1, <2>1, <2>2, UpTo
  <2>4. n \in R
    <3> HIDE DEF R
    <3> QED BY <2>3, <1>1
  <2> QED BY <2>4
<1>9. /\ h[n].total = n /\ h[n].wins = Number(With("WIN"), n)
      /\ h[n].wins + h[n].losses + h[n].breakEvens = Number(Ended, n)
  <2> DEFINE R == {k \in 0..n :
        /\ h[k].total = k /\ h[k].wins = Number(With("WIN"), k)
        /\ h[k].wins + h[k].losses + h[k].breakEvens = Number(Ended, k)}
  <2>1. 0 \in R
    <3>1. h[0].total = 0 /\ h[0].wins = 0 /\ h[0].losses = 0 /\ h[0].breakEvens = 0 /\ 0 \in 0..n
      BY <1>1, <1>2 DEF Empty
    <3>2. Number(With("WIN"), 0) = 0 /\ Number(Ended, 0) = 0
      <4> HIDE DEF With, Ended
      <4> QED BY NumberStep
    <3> HIDE DEF With, Ended
    <3> QED BY <3>1, <3>2
  <2>2. ASSUME NEW k \in 1..n, k - 1 \in R PROVE k \in R
    <3>1. /\ h[k].total = h[k - 1].total + 1
          /\ h[k].wins = h[k - 1].wins + One(ts[k].status = "WIN")
          /\ h[k].losses = h[k - 1].losses + One(ts[k].status = "LOSS")
          /\ h[k].breakEvens = h[k - 1].breakEvens + One(ts[k].status = "BE")
      BY <1>6 DEF Adds
    <3>2. /\ k \in With("WIN") <=> ts[k].status = "WIN"
          /\ k \in Ended <=> ts[k].status \in {"WIN", "LOSS", "BE"}
      OBVIOUS
    <3>3. /\ h[k - 1].total = k - 1 /\ h[k - 1].wins = Number(With("WIN"), k - 1)
          /\ h[k - 1].wins + h[k - 1].losses + h[k - 1].breakEvens = Number(Ended, k - 1)
      BY <2>2
    <3> HIDE DEF With, Ended
    <3>4. /\ Number(With("WIN"), k) = Number(With("WIN"), k - 1) + One(ts[k].status = "WIN")
          /\ Number(Ended, k) = Number(Ended, k - 1) + One(ts[k].status \in {"WIN", "LOSS", "BE"})
      BY <1>6, <3>2, NumberStep DEF One
    <3>5. h[k].total = k /\ h[k].wins = Number(With("WIN"), k)
      BY <3>1, <3>3, <3>4, <1>6
    <3>6. h[k].wins + h[k].losses + h[k].breakEvens = Number(Ended, k)
      <4> DEFINE o == One(ts[k].status = "WIN")
                 l == One(ts[k].status = "LOSS")
                 b == One(ts[k].status = "BE")
                 x == h[k - 1].wins
                 y == h[k - 1].losses
                 z == h[k - 1].breakEvens
      <4>1. /\ o \in Nat /\ l \in Nat /\ b \in Nat
            /\ o + l + b = One(ts[k].status \in {"WIN", "LOSS", "BE"})
        BY DEF One
      <4>2. x \in Nat /\ y \in Nat /\ z \in Nat
        BY <1>6 DEF Figures
      <4>3. /\ h[k].wins = x + o /\ h[k].losses = y + l /\ h[k].breakEvens = z + b
            /\ Number(Ended, k) = (x + y + z) + (o + l + b)
        BY <3>1, <3>3, <3>4, <4>1
      <4> HIDE DEF R, o, l, b, x, y, z
      <4>4. (x + o) + (y + l) + (z + b) = (x + y + z) + (o + l + b)
        BY <4>1, <4>2
      <4> QED BY <4>3, <4>4
    <3> QED BY <3>5, <3>6, <1>6
  <2>3. \A k \in 0..n : k \in R
    <3> HIDE DEF R
    <3> QED BY <1>1, <2>1, <2>2, UpTo
  <2>4. n \in R
    <3> HIDE DEF R
    <3> QED BY <2>3, <1>1
  <2> QED BY <2>4
<1>10. /\ CountOf(ts, LAMBDA t : t.status = "WIN") = Number(With("WIN"), n)
       /\ CountOf(ts, LAMBDA t : t.status \in {"WIN", "LOSS", "BE"}) = Number(Ended, n)
  <2>1. (1..n) \cap With("WIN") = With("WIN") /\ (1..n) \cap Ended = Ended
    OBVIOUS
  <2> QED BY <1>1, <2>1 DEF CountOf, Number
<1>11. h[n].wins \in Nat /\ h[n].losses \in Nat /\ h[n].breakEvens \in Nat
  <2>1. n \in 0..n
    BY <1>1
  <2>2. h[n] \in Figures
    BY <2>1
  <2> QED BY <2>2 DEF Figures
<1>12. QED
  <2> DEFINE s == CalculateStats(ts)
             r == ReportCard(ts)
             a == GetAnalytics(ts)
  <2>1. /\ s = h[n] /\ r.figures = g[n]
        /\ r.winRate = <<g[n].wins, g[n].wins + g[n].losses + g[n].breakEvens>>
        /\ a.total = n /\ a.rr = p[n]
        /\ a.winRate = <<Number(With("WIN"), n), Number(Ended, n)>>
    BY <1>2, <1>3, <1>5, <1>10 DEF ReportCard, GetAnalytics, n
  <2> HIDE DEF s, r, a, With, Ended, Rest, S
  <2>2. \A f \in {"total", "wins", "losses", "breakEvens", "best", "worst"} : r.figures[f] = s[f]
    BY <2>1, <1>7
  <2>3. r.figures.rr = s.rr + RRNotClosed(ts) /\ a.rr = r.figures.rr /\ a.total = s.total
    BY <2>1, <1>4, <1>8, <1>9
  <2>4. a.winRate = r.winRate /\ ~Higher(r.winRate, <<s.wins, s.wins + s.losses>>)
    <3>1. r.winRate = <<s.wins, s.wins + s.losses + s.breakEvens>>
      BY <2>1, <1>7
    <3>2. ~Higher(<<s.wins, s.wins + s.losses + s.breakEvens>>, <<s.wins, s.wins + s.losses>>)
      BY <2>1, <1>11, BreakEvensLower
    <3> QED BY <2>1, <3>1, <3>2, <1>9
  <2> QED BY <2>2, <2>3, <2>4 DEF FiguresAgree, s, r, a

-----------------------------------------------------------------------------
(* What the result lines of a message have made of a trade.                *)
Parsed == [symbol : {"none", "empty", "EURUSD", "XAUUSD"}, direction : {"empty", "BUY"},
           status : {"empty", "WIN", "LOSS", "BE"}, rr : Int]

LEMMA ResultLineTypes ==
  ASSUME NEW line \in ResultLines
  PROVE  /\ line.status \in {"number", "WIN", "LOSS", "BE", "?"} /\ line.rr \in SUBSET Int
         /\ line.status = "number" => \E n \in Int : line.rr = {n}
         /\ line.status \in {"WIN", "LOSS", "BE"} => line.rr = {} \/ \E n \in Nat : line.rr = {n}
         /\ line.status = "?" <=> line = Junk
<1>1. Amounts \subseteq Nat \ {0}
  BY JournalAssumption
<1>2. \A n \in Signed : n \in Int
  <2>1. \A n \in Amounts : n \in Int /\ -n \in Int
    BY <1>1
  <2> QED BY <2>1 DEF Signed
<1>0. Junk.status = "?"
  BY DEF Junk
<1>3. CASE line \in Numbers
  <2>1. line.status = "number" /\ \E n \in Signed : line.rr = {n}
    BY <1>3 DEF Numbers
  <2>2. \E n \in Int : line.rr = {n}
    BY <1>2, <2>1
  <2>3. line.rr \in SUBSET Int
    BY <2>2
  <2>4. line # Junk
    BY <1>0, <2>1
  <2> QED BY <2>1, <2>2, <2>3, <2>4
<1>4. CASE line \in Words
  <2>1. line.status \in {"WIN", "LOSS", "BE"}
    BY <1>4 DEF Words
  <2>2. line.rr = {} \/ \E n \in Amounts \cup {0} : line.rr = {n}
    BY <1>4 DEF Words
  <2>3. line.rr = {} \/ \E n \in Nat : line.rr = {n}
    BY <1>1, <2>2
  <2>4. line.rr \in SUBSET Int
    BY <2>3
  <2>5. line # Junk
    BY <1>0, <2>1
  <2> QED BY <2>1, <2>3, <2>4, <2>5
<1>5. CASE line = Junk
  BY <1>5 DEF Junk
<1>6. QED
  BY <1>3, <1>4, <1>5 DEF ResultLines

LEMMA ParseRROK ==
  ASSUME NEW t \in Parsed, NEW line \in ResultLines
  PROVE  /\ ParseRR(t, line) \in Parsed
         /\ ParseRR(t, line).symbol = t.symbol /\ ParseRR(t, line).direction = t.direction
<1>1. t.rr \in Int
  BY DEF Parsed
<1>2. ASSUME NEW S \in SUBSET Int, NEW d \in Int PROVE TheElement(S, d) \in Int
  BY DEF TheElement
<1>3. line.rr \in SUBSET Int
  BY ResultLineTypes
<1>4. {-n : n \in line.rr} \in SUBSET Int
  BY <1>3
<1>5. /\ TheElement(line.rr, 0) \in Int /\ TheElement(line.rr, t.rr) \in Int
      /\ TheElement({-n : n \in line.rr}, t.rr) \in Int
  BY <1>1, <1>2, <1>3, <1>4
<1>6. Sign(TheElement(line.rr, 0)) \in {"WIN", "LOSS", "BE"}
  BY DEF Sign
<1> DEFINE a == TheElement(line.rr, 0)
           b == TheElement(line.rr, t.rr)
           c == TheElement({-n : n \in line.rr}, t.rr)
<1>8. a \in Int /\ b \in Int /\ c \in Int /\ Sign(a) \in {"WIN", "LOSS", "BE"}
  BY <1>5, <1>6
<1> HIDE DEF a, b, c
<1> DEFINE Ends(x, n) == [t EXCEPT !.status = x, !.rr = n]
           OK(v) == v \in Parsed /\ v.symbol = t.symbol /\ v.direction = t.direction
<1>9. ASSUME NEW x \in {"WIN", "LOSS", "BE"}, NEW n \in Int
      PROVE  OK(Ends(x, n)) /\ [t EXCEPT !.rr = n, !.status = x] = Ends(x, n)
  BY DEF Parsed
<1> HIDE DEF OK, Ends
<1>10. ASSUME line.status = "number" PROVE OK(ParseRR(t, line))
  <2>1. ParseRR(t, line) = [t EXCEPT !.rr = a, !.status = Sign(a)]
    BY <1>10 DEF ParseRR, a
  <2>2. [t EXCEPT !.rr = a, !.status = Sign(a)] = Ends(Sign(a), a) /\ OK(Ends(Sign(a), a))
    BY <1>8, <1>9
  <2> QED BY <2>1, <2>2
<1>11. ASSUME line.status # "number" PROVE OK(ParseRR(t, line))
  <2>1. ParseRR(t, line) \in {Ends("WIN", b), Ends("LOSS", c), Ends("BE", 0), t}
    BY <1>11 DEF ParseRR, b, c, Ends
  <2>2. OK(Ends("WIN", b)) /\ OK(Ends("LOSS", c)) /\ OK(Ends("BE", 0))
    <3>1. 0 \in Int
      OBVIOUS
    <3> QED BY <3>1, <1>8, <1>9
  <2>3. OK(t)
    BY DEF OK
  <2> QED BY <2>1, <2>2, <2>3
<1>12. QED
  BY <1>10, <1>11 DEF OK

LEMMA BeforeResultsOK ==
  ASSUME NEW msg \in JournalMessages
  PROVE  BeforeResults(msg) \in Parsed
<1>1. msg.symbol \in {"none", "/", "EUR/USD", "XAUUSD"}
  BY DEF JournalMessages, SymbolLines
<1>2. \E x \in {"none", "empty", "EURUSD", "XAUUSD"}, y \in {"empty", "BUY"} :
        BeforeResults(msg) = [symbol |-> x, direction |-> y, status |-> "empty", rr |-> 0]
  BY <1>1 DEF BeforeResults
<1>3. QED
  BY <1>2 DEF Parsed

(* The report card one trade after the other (reportcard.go 69-118).        *)
LEMMA ParseSteps ==
  ASSUME NEW msg \in JournalMessages
  PROVE  \E h \in [0..Len(msg.results) -> Parsed] :
           /\ h[0] = BeforeResults(msg) /\ ParseJournalMessage(msg) = h[Len(msg.results)]
           /\ \A k \in 1..Len(msg.results) : h[k] = ParseRR(h[k - 1], msg.results[k])
<1> DEFINE n == Len(msg.results)
           Is(f) == f = [s \in SUBSET (1..n) |->
                           IF s = {} THEN BeforeResults(msg)
                           ELSE ParseRR(f[s \ {Max(s)}], msg.results[Max(s)])]
           G == [x \in Parsed \X (1..n) |-> ParseRR(x[1], msg.results[x[2]])]
           f == CHOOSE g : Is(g)
<1>1. n \in Nat /\ DOMAIN msg.results = 1..n /\ \A k \in 1..n : msg.results[k] \in ResultLines
  BY DEF JournalMessages
<1>2. /\ G \in [Parsed \X (1..n) -> Parsed] /\ BeforeResults(msg) \in Parsed
      /\ \A x \in Parsed, k \in 1..n : G[<<x, k>>] = ParseRR(x, msg.results[k])
  BY <1>1, ParseRROK, BeforeResultsOK
<1>3. \A s \in SUBSET (1..n) : s # {} => Max(s) \in 1..n
  <2> HIDE DEF n
  <2> QED BY <1>1, MaxOf
<1> HIDE DEF G, n
<1>4. ParseJournalMessage(msg) = f[1..n]
  BY <1>1 DEF ParseJournalMessage, FoldLeft, MapThenFoldSet
<1>5. Is(f)
  <2>1. BeforeResults(msg) \in Parsed /\ G \in [Parsed \X (1..n) -> Parsed]
    BY <1>2
  <2>2. PICK g : IsFold(g, n, Parsed, BeforeResults(msg), G)
    BY <1>1, <2>1, FoldExists, Zenon
  <2>3. /\ g \in [SUBSET (1..n) -> Parsed]
        /\ \A s \in SUBSET (1..n) :
             g[s] = IF s = {} THEN BeforeResults(msg) ELSE G[<<g[s \ {Max(s)}], Max(s)>>]
    BY <2>2 DEF IsFold
  <2>4. \A s \in SUBSET (1..n) : s # {} => g[s] = ParseRR(g[s \ {Max(s)}], msg.results[Max(s)])
    BY <1>2, <1>3, <2>3
  <2>5. Is(g)
    BY <2>3, <2>4
  <2> HIDE DEF Is
  <2> QED BY <2>5
<1>6. GoesOn(f, n, Parsed, BeforeResults(msg), G)
  <2> HIDE DEF f
  <2> QED BY <1>2, <1>3, <1>5 DEF GoesOn
<1> HIDE DEF f
<1>7. PICK h : IsAlong(h, f, n, Parsed, BeforeResults(msg), G)
  <2>1. BeforeResults(msg) \in Parsed /\ G \in [Parsed \X (1..n) -> Parsed]
    BY <1>2
  <2> QED BY <1>1, <2>1, <1>6, FoldValues, Zenon
<1>8. \A k \in 1..n : h[k] = ParseRR(h[k - 1], msg.results[k])
  <2>1. \A k \in 1..n : k - 1 \in 0..n
    BY <1>1
  <2> QED BY <1>2, <1>7, <2>1 DEF IsAlong
<1>9. QED
  BY <1>4, <1>7, <1>8 DEF n, IsAlong

(* What a message leaves in Notion (trade.go 93-106 and 189-214).          *)
LEMMA JournaledOK ==
  ASSUME NEW msg \in JournalMessages
  PROVE  \E p \in Parsed :
           /\ p = ParseJournalMessage(msg)
           /\ Journaled(msg).asset \in {"Gold", "Forex"}
           /\ Journaled(msg).status = (IF p.status = "empty" THEN "OPEN" ELSE p.status)
           /\ Journaled(msg).rr = p.rr
<1> DEFINE p == ParseJournalMessage(msg)
<1>1. p \in Parsed
  <2>1. Len(msg.results) \in Nat
    BY DEF JournalMessages
  <2>2. Len(msg.results) \in 0..Len(msg.results)
    BY <2>1
  <2> QED BY <2>2, ParseSteps
<1> HIDE DEF p
<1>2. Journaled(msg) = ParseSingleTrade(BuildProperties(p))
  BY DEF Journaled, p
<1>3. TheElement({p.rr} \ {0}, 0) = p.rr
  <2>1. CASE p.rr = 0
    <3>1. {p.rr} \ {0} = {}
      BY <2>1
    <3> QED BY <2>1, <3>1 DEF TheElement
  <2>2. CASE p.rr # 0
    <3>1. {p.rr} \ {0} = {p.rr}
      BY <2>2
    <3> QED BY <3>1 DEF TheElement
  <2> QED BY <2>1, <2>2
<1>4. /\ Journaled(msg).asset = (IF DetectAssetType(p.symbol) = "GOLD" THEN "Gold" ELSE "Forex")
      /\ Journaled(msg).status = (IF p.status = "empty" THEN "OPEN" ELSE p.status)
      /\ Journaled(msg).rr = TheElement({p.rr} \ {0}, 0)
  BY <1>2 DEF ParseSingleTrade, BuildProperties
<1>5. QED
  BY <1>1, <1>3, <1>4 DEF p

(* trade.go 22-53 and 201-239, journal.go 24-56: every way of journaling a *)
(* trade leaves trades of a known asset and status with a whole RR.        *)
THEOREM CommunityTypes == CommunitySpec => []CommunityIInv
<1>1. CommunityInit => CommunityIInv
  BY DEF CommunityInit, CommunityIInv
<1>2. CommunityIInv /\ [CommunityNext]_<<day, trades>> => CommunityIInv'
  <2> SUFFICES ASSUME CommunityIInv, [CommunityNext]_<<day, trades>> PROVE CommunityIInv'
    OBVIOUS
  <2> USE DEF CommunityIInv
  <2>1. CASE NextDay
    BY <2>1, CommunityAssumption DEF NextDay
  <2>2. ASSUME NEW m \in Members, NEW t, SaveTrade(m, t),
               t.asset \in {"Gold", "Forex"}, t.status \in {"WIN", "LOSS", "BE", "OPEN"}, t.rr \in Int
        PROVE  CommunityIInv'
    <3> DEFINE u == [asset |-> t.asset, status |-> t.status, rr |-> t.rr, day |-> day]
    <3>1. u \in StoredTrade
      BY <2>2 DEF StoredTrade
    <3>2. trades' = [trades EXCEPT ![m] = Append(@, u)] /\ day' = day
      BY <2>2 DEF SaveTrade
    <3> HIDE DEF u
    <3>3. Append(trades[m], u) \in Seq(StoredTrade)
      BY <3>1
    <3> QED BY <3>2, <3>3
  <2>3. ASSUME NEW m \in Members, HandleTextJournal(m) PROVE CommunityIInv'
    <3>1. PICK msg \in Accepted : SaveTrade(m, Journaled(msg))
      BY <2>3 DEF HandleTextJournal, TextTrades
    <3>2. msg \in JournalMessages
      BY DEF Accepted
    <3>3. /\ Journaled(msg).asset \in {"Gold", "Forex"} /\ Journaled(msg).rr \in Int
          /\ Journaled(msg).status \in {"WIN", "LOSS", "BE", "OPEN"}
      BY <3>2, JournaledOK DEF Parsed
    <3> QED BY <2>2, <3>1, <3>3
  <2>4. ASSUME NEW m \in Members, SubmitGuidedTrade(m) PROVE CommunityIInv'
    <3>1. PICK t \in GuidedTrades : SaveTrade(m, t)
      BY <2>4 DEF SubmitGuidedTrade
    <3>2. Signed \subseteq Int
      <4>1. \A n \in Amounts : n \in Int /\ -n \in Int
        BY JournalAssumption
      <4> QED BY <4>1 DEF Signed
    <3>3. /\ t.asset \in {"Gold", "Forex"} /\ t.rr \in Int
          /\ t.status \in {"WIN", "LOSS", "BE", "OPEN"}
      <4>1. 0 \in Int /\ "BE" \in {"WIN", "LOSS", "BE", "OPEN"}
        OBVIOUS
      <4>2. t \in [asset : {"Gold", "Forex"}, status : {"WIN", "LOSS", "OPEN"}, rr : Signed]
            \/ t \in [asset : {"Gold", "Forex"}, status : {"BE"}, rr : {0}]
        BY <3>1 DEF GuidedTrades
      <4>3. t.asset \in {"Gold", "Forex"} /\ t.rr \in Signed \cup {0}
            /\ t.status \in {"WIN", "LOSS", "OPEN"} \cup {"BE"}
        BY <4>2
      <4> QED BY <4>1, <4>3, <3>2
    <3> QED BY <2>2, <3>1, <3>3
  <2>5. CASE UNCHANGED <<day, trades>>
    BY <2>5
  <2>6. QED
    BY <2>1, <2>3, <2>4, <2>5 DEF CommunityNext
<1>3. QED
  BY <1>1, <1>2, PTL DEF CommunitySpec

(* A list in another order.                                                *)
LEMMA OrderedTrades ==
  ASSUME NEW ts \in Seq(StoredTrade), NEW p \in SetToSeqs(DOMAIN ts)
  PROVE  /\ p \in [1..Len(ts) -> 1..Len(ts)]
         /\ \A i, j \in 1..Len(ts) : i # j => p[i] # p[j]
         /\ [i \in DOMAIN ts |-> ts[p[i]]] \in Seq(StoredTrade)
         /\ Len([i \in DOMAIN ts |-> ts[p[i]]]) = Len(ts)
<1> DEFINE n == Len(ts)
           q == [i \in DOMAIN ts |-> ts[p[i]]]
<1>1. n \in Nat /\ DOMAIN ts = 1..n /\ \A k \in 1..n : ts[k] \in StoredTrade
  OBVIOUS
<1>2. Cardinality(1..n) = n
  <2>1. 1 \in Int /\ n \in Int
    BY <1>1
  <2> HIDE DEF n
  <2>2. Cardinality(1..n) = IF 1 > n THEN 0 ELSE n - 1 + 1
    BY <2>1, FS_Interval
  <2> QED BY <1>1, <2>2
<1>3. p \in [1..n -> 1..n] /\ \A i, j \in 1..n : i # j => p[i] # p[j]
  BY <1>1, <1>2 DEF SetToSeqs
<1>4. q \in Seq(StoredTrade) /\ Len(q) = n
  <2>1. q \in [1..n -> StoredTrade]
    BY <1>1, <1>3
  <2> HIDE DEF q, n
  <2> QED BY <1>1, <2>1
<1>5. QED
  BY <1>3, <1>4

(* stats.go 29-120, reportcard.go 69-118, analytics.go 47-72: for any      *)
(* members and whatever the order of a day's trades, CalculateStats counts *)
(* and bounds the trades it is given, its MaxWinStrk is their longest run  *)
(* of wins, and the report card and the analysis agree with it.            *)
THEOREM StatsAlwaysExact == CommunitySpec => []StatsAreExact
<1>1. CommunityIInv => StatsAreExact
  <2> SUFFICES ASSUME CommunityIInv, NEW m \in Members, NEW ts \in GetTrades(m)
               PROVE  TotalsAreExact(ts) /\ MaxWinIsLongestRun(ts) /\ FiguresAgree(ts)
    BY DEF StatsAreExact
  <2>1. trades[m] \in Seq(StoredTrade)
    BY DEF CommunityIInv
  <2>2. PICK p \in SetToSeqs(DOMAIN trades[m]) : ts = [i \in DOMAIN trades[m] |-> trades[m][p[i]]]
    BY DEF GetTrades, Sorts, Orders
  <2>3. ts \in Seq(StoredTrade)
    BY <2>1, <2>2, OrderedTrades
  <2>4. QED
    BY <2>3, TotalsOfAnyList, MaxWinOfAnyList, FiguresOfAnyList
<1>2. QED
  BY <1>1, CommunityTypes, PTL

(* parser.go 90-121, trade.go 93-106 and 189-214: whatever amounts are     *)
(* named, the trade of a message with at most one result line is what that *)
(* line says.                                                              *)
THEOREM TradesCountedAsWritten == CommunitySpec => []CountedAsWritten
<1>1. ASSUME NEW msg \in Accepted, Len(msg.results) <= 1, NEW t,
             Journaled(msg) = [asset |-> t.asset, status |-> t.status, rr |-> t.rr]
      PROVE  AsWritten(msg, t)
  <2>1. msg \in JournalMessages
    BY DEF Accepted
  <2>2. PICK p \in Parsed : /\ p = ParseJournalMessage(msg)
                            /\ t.status = (IF p.status = "empty" THEN "OPEN" ELSE p.status)
                            /\ t.rr = p.rr
    BY <1>1, <2>1, JournaledOK
  <2>3. PICK h \in [0..Len(msg.results) -> Parsed] :
          /\ h[0] = BeforeResults(msg) /\ ParseJournalMessage(msg) = h[Len(msg.results)]
          /\ \A k \in 1..Len(msg.results) : h[k] = ParseRR(h[k - 1], msg.results[k])
    BY <2>1, ParseSteps
  <2>4. Len(msg.results) \in {0, 1} /\ msg.results \in Seq(ResultLines)
    BY <1>1, <2>1 DEF JournalMessages
  <2>5. CASE Len(msg.results) = 0
    <3>1. msg.results = <<>>
      BY <2>4, <2>5
    <3>2. p.status = "empty" /\ p.rr = 0
      BY <2>2, <2>3, <2>5 DEF BeforeResults
    <3>3. t.status = "OPEN" /\ t.rr = 0
      BY <2>2, <3>2
    <3> QED BY <3>1, <3>3 DEF AsWritten
  <2>6. CASE Len(msg.results) = 1
    <3> DEFINE line == msg.results[1]
    <3>1. line \in ResultLines /\ msg.results = <<line>>
      BY <2>4, <2>6
    <3>2. p = ParseRR(BeforeResults(msg), line)
      BY <2>2, <2>3, <2>6
    <3>3. BeforeResults(msg).status = "empty" /\ BeforeResults(msg).rr = 0
      BY DEF BeforeResults
    <3>4. msg.results # <<>> /\ msg.results[1] = line /\ (msg.results = <<Junk>> <=> line = Junk)
      BY <3>1
    <3> HIDE DEF line
    <3> DEFINE named == TheElement(line.rr, 0)
               Right == /\ t.status = "WIN" => t.rr >= 0
                        /\ t.status = "LOSS" => t.rr <= 0
                        /\ t.status \in {"BE", "OPEN"} => t.rr = 0
                        /\ t.status # "BE" => t.rr \in {named, -named}
                        /\ t.status = "OPEN" <=> line = Junk
    <3>5. \A n : TheElement({n}, 0) = n /\ TheElement({}, 0) = 0
      BY DEF TheElement
    <3>6. ASSUME line.status = "number" PROVE Right
      <4>1. PICK n \in Int : line.rr = {n}
        BY <3>1, <3>6, ResultLineTypes
      <4>2. p.rr = n /\ p.status = Sign(n) /\ named = n /\ line # Junk
        <5>1. p = [BeforeResults(msg) EXCEPT !.rr = TheElement(line.rr, 0),
                                             !.status = Sign(TheElement(line.rr, 0))]
          BY <3>2, <3>6 DEF ParseRR
        <5>2. line # Junk
          BY <3>1, <3>6, ResultLineTypes
        <5> QED BY <3>5, <4>1, <5>1, <5>2 DEF BeforeResults
      <4>3. t.rr = n /\ t.status = Sign(n)
        BY <2>2, <4>2 DEF Sign
      <4> QED BY <4>2, <4>3 DEF Sign
    <3>7. ASSUME line.status = "WIN" PROVE Right
      <4>1. /\ p.status = "WIN" /\ p.rr = TheElement(line.rr, 0) /\ line # Junk
        BY <3>1, <3>2, <3>3, <3>7, ResultLineTypes DEF ParseRR, BeforeResults
      <4>2. line.rr = {} \/ \E n \in Nat : line.rr = {n}
        BY <3>1, <3>7, ResultLineTypes
      <4>3. named \in Nat
        BY <3>5, <4>2
      <4>4. t.status = "WIN" /\ t.rr = named
        BY <2>2, <4>1
      <4> HIDE DEF named
      <4> QED BY <4>1, <4>3, <4>4
    <3>8. ASSUME line.status = "LOSS" PROVE Right
      <4>1. /\ p.status = "LOSS" /\ p.rr = TheElement({-n : n \in line.rr}, 0) /\ line # Junk
        BY <3>1, <3>2, <3>3, <3>8, ResultLineTypes DEF ParseRR, BeforeResults
      <4>2. line.rr = {} \/ \E n \in Nat : line.rr = {n}
        BY <3>1, <3>8, ResultLineTypes
      <4>3. named \in Nat /\ TheElement({-n : n \in line.rr}, 0) = -named
        <5>1. CASE line.rr = {}
          <6>1. {-n : n \in line.rr} = {}
            BY <5>1
          <6>2. named = 0 /\ TheElement({-n : n \in line.rr}, 0) = 0
            BY <3>5, <5>1, <6>1, Zenon
          <6> HIDE DEF named
          <6> QED BY <6>2
        <5>2. ASSUME NEW n \in Nat, line.rr = {n} PROVE named = n /\ TheElement({-i : i \in line.rr}, 0) = -n
          <6>1. {-i : i \in line.rr} = {-n}
            BY <5>2
          <6> QED BY <3>5, <5>2, <6>1
        <5> QED BY <4>2, <5>1, <5>2
      <4>4. t.status = "LOSS" /\ t.rr = -named
        BY <2>2, <4>1, <4>3
      <4> HIDE DEF named
      <4> QED BY <4>1, <4>3, <4>4
    <3>9. ASSUME line.status = "BE" PROVE Right
      <4>1. /\ p.status = "BE" /\ p.rr = 0 /\ line # Junk
        BY <3>1, <3>2, <3>3, <3>9, ResultLineTypes DEF ParseRR, BeforeResults
      <4>2. t.status = "BE" /\ t.rr = 0
        BY <2>2, <4>1
      <4> QED BY <4>1, <4>2
    <3>10. ASSUME line.status = "?" PROVE Right
      <4>1. line = Junk /\ p = BeforeResults(msg)
        BY <3>1, <3>2, <3>10, ResultLineTypes DEF ParseRR
      <4>2. t.status = "OPEN" /\ t.rr = 0
        BY <2>2, <3>3, <4>1
      <4>3. named = 0
        BY <3>5, <4>1 DEF Junk
      <4> QED BY <4>1, <4>2, <4>3
    <3>11. Right
      BY <3>1, <3>6, <3>7, <3>8, <3>9, <3>10, ResultLineTypes
    <3>12. t.status = "OPEN" <=> msg.results \in {<<>>, <<Junk>>}
      BY <3>4, <3>11
    <3> HIDE DEF named
    <3> QED BY <3>4, <3>11, <3>12 DEF AsWritten, named
  <2> QED BY <2>4, <2>5, <2>6
<1>2. CountedAsWritten
  BY <1>1 DEF CountedAsWritten, Clear
<1>3. QED
  BY <1>2, PTL

(* The wins at the start of a list (badge.go 40-52).                       *)
LEMMA WinStreakOK ==
  ASSUME NEW q \in Seq(StoredTrade)
  PROVE  /\ WinStreak(q) \in 0..Len(q)
         /\ \A i \in 1..WinStreak(q) : q[i].status = "WIN"
         /\ WinStreak(q) < Len(q) => q[WinStreak(q) + 1].status # "WIN"
<1> DEFINE n == Len(q)
           Is(w, k) == /\ \A i \in 1..w : q[i].status = "WIN"
                       /\ w < k => q[w + 1].status # "WIN"
           S == {k \in 0..n : \E w \in 0..k : Is(w, k)}
<1>1. n \in Nat
  OBVIOUS
<1> HIDE DEF n
<1>2. 0 \in S
  <2>1. Is(0, 0) /\ 0 \in 0..0 /\ 0 \in 0..n
    BY <1>1
  <2> HIDE DEF Is
  <2> QED BY <2>1
<1>3. ASSUME NEW k \in 1..n, k - 1 \in S PROVE k \in S
  <2>1. PICK w \in 0..(k - 1) : Is(w, k - 1)
    BY <1>3
  <2>2. k \in 0..n /\ w \in 0..k /\ k \in 0..k /\ (w = k - 1 \/ w < k - 1)
    BY <1>1
  <2>3. CASE w < k - 1
    <3>1. Is(w, k)
      BY <2>1, <2>3
    <3> HIDE DEF Is
    <3> QED BY <2>2, <3>1
  <2>4. CASE w = k - 1 /\ q[k].status = "WIN"
    <3>1. Is(k, k)
      BY <2>1, <2>4
    <3> HIDE DEF Is
    <3> QED BY <2>2, <3>1
  <2>5. CASE w = k - 1 /\ q[k].status # "WIN"
    <3>1. Is(w, k)
      <4>1. w + 1 = k
        BY <2>5
      <4> QED BY <2>1, <2>5, <4>1
    <3> HIDE DEF Is
    <3> QED BY <2>2, <3>1
  <2> QED BY <2>2, <2>3, <2>4, <2>5
<1>4. \E w \in 0..n : Is(w, n)
  <2>1. n \in S
    <3>1. \A k \in 0..n : k \in S
      <4> HIDE DEF S
      <4> QED BY <1>1, <1>2, <1>3, UpTo
    <3> HIDE DEF S
    <3> QED BY <3>1, <1>1
  <2> HIDE DEF Is
  <2> QED BY <2>1
<1>5. QED
  BY <1>4 DEF WinStreak, n

(* The streak of a list that was sorted once more.                         *)
LEMMA StreakOfAnyOrder ==
  ASSUME NEW ts \in Seq(StoredTrade), NEW p \in SetToSeqs(DOMAIN ts), NEW q,
         q = [i \in DOMAIN ts |-> ts[p[i]]],
         \A i, j \in DOMAIN ts : i < j => ~Later(q[j], q[i])
  PROVE  /\ WinsSince(ts, OnlyWinsFrom(ts)) <= WinStreak(q)
         /\ WinStreak(q) <= WinsSince(ts, LastOtherDay(ts))
<1> DEFINE n == Len(ts)
           W == WinStreak(q)
           others == OtherDays(ts)
           mixed == LastOtherDay(ts)
<1>1. n \in Nat /\ DOMAIN ts = 1..n /\ \A k \in 1..n : ts[k] \in StoredTrade
  OBVIOUS
<1>2. /\ p \in [1..n -> 1..n] /\ \A i, j \in 1..n : i # j => p[i] # p[j]
      /\ q \in Seq(StoredTrade) /\ Len(q) = n
  BY OrderedTrades
<1>3. \A i \in 1..n : q[i] = ts[p[i]] /\ q[i].day \in Nat /\ ts[i].day \in Nat
  BY <1>1, <1>2 DEF StoredTrade
<1>4. \A i, j \in 1..n : i < j => q[j].day <= q[i].day
  BY <1>1, <1>3 DEF Later
<1>5. \A x \in 1..n : \E j \in 1..n : p[j] = x
  <2>1. p \in Injection(1..n, 1..n)
    BY <1>2 DEF Injection, IsInjective
  <2>2. IsFiniteSet(1..n)
    <3>1. 1 \in Int /\ n \in Int
      BY <1>1
    <3> QED BY <3>1, FS_Interval
  <2> HIDE DEF n
  <2>3. p \in Surjection(1..n, 1..n)
    BY <2>1, <2>2, FS_Injection
  <2> QED BY <2>3 DEF Surjection
<1>6. /\ W \in 0..n /\ \A i \in 1..W : q[i].status = "WIN"
      /\ W < n => q[W + 1].status # "WIN"
  BY <1>2, WinStreakOK
<1> DEFINE Won(d) == {i \in 1..n : ts[i].day >= d /\ ts[i].status = "WIN"}
<1>7. \A d : WinsSince(ts, d) = Cardinality(Won(d))
  BY <1>1 DEF WinsSince
<1>0. /\ mixed = (IF others = {} THEN 0 ELSE CHOOSE d \in others : \A e \in others : e <= d)
      /\ OnlyWinsFrom(ts) = (IF others = {} THEN 0 ELSE mixed + 1)
  BY DEF LastOtherDay, OnlyWinsFrom
<1>11. others = {ts[i].day : i \in {i \in 1..n : ts[i].status # "WIN"}}
  BY <1>1 DEF OtherDays, ToSet
<1> HIDE DEF n, W, others, mixed
<1>8. /\ IsFiniteSet(1..W) /\ Cardinality(1..W) = W /\ W \in Nat
      /\ \A d : IsFiniteSet(Won(d)) /\ Cardinality(Won(d)) \in Nat
  <2>1. 1 \in Int /\ n \in Int /\ W \in Int
    BY <1>1, <1>6
  <2>2. IsFiniteSet(1..n) /\ IsFiniteSet(1..W) /\ Cardinality(1..W) = IF 1 > W THEN 0 ELSE W - 1 + 1
    BY <2>1, FS_Interval
  <2>3. ASSUME NEW d PROVE IsFiniteSet(Won(d)) /\ Cardinality(Won(d)) \in Nat
    BY <2>2, FS_Subset, FS_CardinalityType
  <2>4. W \in Nat
    BY <1>1, <1>6
  <2>5. Cardinality(1..W) = W
    BY <2>2, <2>4
  <2> HIDE DEF Won
  <2> QED BY <2>2, <2>3, <2>4, <2>5
<1>9. ASSUME NEW d, \A j \in 1..W : p[j] \in Won(d)
      PROVE  W <= WinsSince(ts, d)
  <2> DEFINE f == [j \in 1..W |-> p[j]]
  <2>1. \A j \in 1..W : j \in 1..n
    BY <1>1, <1>6
  <2>2. f \in Injection(1..W, Won(d))
    <3> HIDE DEF Won
    <3> QED BY <1>2, <1>9, <2>1 DEF Injection, IsInjective
  <2> HIDE DEF f, Won
  <2>3. Cardinality(1..W) <= Cardinality(Won(d))
    BY <1>8, <2>2, FS_Injection
  <2> QED BY <1>7, <1>8, <2>3
<1>10. ASSUME NEW d, \A x \in Won(d) : \E j \in 1..W : p[j] = x
       PROVE  WinsSince(ts, d) <= W
  <2> DEFINE Y == {p[j] : j \in 1..W}
             f == [j \in 1..W |-> p[j]]
  <2>1. f \in Surjection(1..W, Y)
    BY DEF Surjection
  <2>2. Won(d) \subseteq Y
    BY <1>10
  <2> HIDE DEF f, Won, Y
  <2>3. IsFiniteSet(Y) /\ Cardinality(Y) <= Cardinality(1..W)
    BY <1>8, <2>1, FS_Surjection
  <2>4. Cardinality(Won(d)) <= Cardinality(Y) /\ Cardinality(Y) \in Nat
    BY <2>2, <2>3, FS_Subset, FS_CardinalityType
  <2> QED BY <1>7, <1>8, <2>3, <2>4
<1>12. CASE W = n
  <2>1. \A x \in 1..n : ts[x].status = "WIN"
    <3> SUFFICES ASSUME NEW x \in 1..n PROVE ts[x].status = "WIN"
      OBVIOUS
    <3>1. PICK j \in 1..n : p[j] = x
      BY <1>5
    <3>2. q[j] = ts[x] /\ q[j].status = "WIN"
      BY <1>3, <1>6, <1>12, <3>1
    <3> QED BY <3>2
  <2>2. others = {} /\ mixed = 0
    BY <1>0, <1>11, <2>1
  <2>3. \A x \in 1..n : x \in Won(0)
    BY <1>3, <2>1
  <2>4. \A j \in 1..W : p[j] \in Won(0)
    <3> HIDE DEF Won
    <3> QED BY <1>2, <1>12, <2>3
  <2>5. \A x \in Won(0) : \E j \in 1..W : p[j] = x
    BY <1>5, <1>12
  <2> HIDE DEF Won
  <2>6. W <= WinsSince(ts, 0) /\ WinsSince(ts, 0) <= W
    BY <1>9, <1>10, <2>4, <2>5
  <2> QED BY <1>0, <2>2, <2>6 DEF W, mixed
<1>13. CASE W < n
  <2> DEFINE d == q[W + 1].day
  <2>1. W + 1 \in 1..n
    BY <1>1, <1>6, <1>13
  <2>2. d \in Nat /\ p[W + 1] \in 1..n /\ ts[p[W + 1]].day = d /\ ts[p[W + 1]].status # "WIN"
    BY <1>2, <1>3, <1>6, <1>13, <2>1
  <2>3. d \in others
    <3>1. \E x \in {i \in 1..n : ts[i].status # "WIN"} : ts[x].day = d
      BY <2>2
    <3> HIDE DEF d
    <3> QED BY <1>11, <3>1
  <2>4. ASSUME NEW x \in 1..n, ~(\E j \in 1..W : p[j] = x) PROVE ts[x].day <= d
    <3>1. PICK j \in 1..n : p[j] = x
      BY <1>5
    <3>2. j = W + 1 \/ W + 1 < j
      BY <2>4, <3>1, <1>1, <1>6
    <3>3. ts[x].day = q[j].day /\ q[j].day \in Nat
      BY <1>3, <3>1
    <3>4. q[j].day <= d
      <4>1. CASE j = W + 1
        BY <3>3, <4>1
      <4>2. CASE W + 1 < j
        BY <1>4, <2>1, <4>2
      <4> QED BY <3>2, <4>1, <4>2
    <3> QED BY <3>3, <3>4
  <2>5. \A e \in others : e <= d
    <3> SUFFICES ASSUME NEW x \in 1..n, ts[x].status # "WIN" PROVE ts[x].day <= d
      BY <1>11
    <3>1. ~(\E j \in 1..W : p[j] = x)
      <4>1. \A j \in 1..W : j \in 1..n
        BY <1>1, <1>6
      <4>2. \A j \in 1..W : ts[p[j]].status = "WIN"
        BY <1>3, <1>6, <4>1
      <4> QED BY <4>2
    <3> QED BY <2>4, <3>1
  <2>6. mixed = d
    <3>1. mixed \in others /\ \A e \in others : e <= mixed
      BY <1>0, <2>3, <2>5
    <3>2. mixed \in Nat
      BY <1>3, <1>11, <3>1
    <3>3. d <= mixed /\ mixed <= d /\ d \in Nat
      BY <2>2, <2>3, <2>5, <3>1
    <3> HIDE DEF d
    <3>4. \A x, y \in Nat : x <= y /\ y <= x => x = y
      OBVIOUS
    <3> QED BY <3>2, <3>3, <3>4, Zenon
  <2>7. \A j \in 1..W : p[j] \in Won(d)
    <3>1. ASSUME NEW j \in 1..W PROVE p[j] \in Won(d)
      <4>1. j \in 1..n /\ j < W + 1
        BY <1>1, <1>6
      <4>2. d <= q[j].day
        BY <1>4, <2>1, <4>1
      <4>3. p[j] \in 1..n /\ ts[p[j]].day = q[j].day /\ ts[p[j]].status = "WIN"
        BY <1>2, <1>3, <1>6, <4>1
      <4>4. ts[p[j]].day >= d
        <5>1. q[j].day \in Nat /\ d \in Nat
          BY <1>3, <2>2, <4>1
        <5> HIDE DEF d
        <5> QED BY <4>2, <4>3, <5>1
      <4> HIDE DEF d
      <4> QED BY <4>3, <4>4
    <3> QED BY <3>1
  <2>8. \A x \in Won(d + 1) : \E j \in 1..W : p[j] = x
    <3> SUFFICES ASSUME NEW x \in Won(d + 1), ~(\E j \in 1..W : p[j] = x) PROVE FALSE
      OBVIOUS
    <3>1. x \in 1..n /\ ts[x].day >= d + 1
      OBVIOUS
    <3>2. ts[x].day <= d /\ ts[x].day \in Nat
      BY <1>3, <2>4, <3>1
    <3> HIDE DEF d
    <3> QED BY <2>2, <3>1, <3>2
  <2> HIDE DEF Won, d
  <2>9. W <= WinsSince(ts, d) /\ WinsSince(ts, d + 1) <= W
    BY <1>9, <1>10, <2>7, <2>8
  <2> QED BY <1>0, <2>3, <2>6, <2>9 DEF W, mixed
<1>14. W = n \/ W < n
  BY <1>1, <1>6
<1>15. QED
  BY <1>12, <1>13, <1>14

(* badge.go 40-52: for any order that the two sorts leave to the trades of *)
(* a day, the win streak is between the wins after the last day with       *)
(* another trade and the wins from that day on.                            *)
THEOREM StreakAlwaysFollowsDays == CommunitySpec => []StreakFollowsDays
<1>1. CommunityIInv => StreakFollowsDays
  <2> SUFFICES ASSUME CommunityIInv, NEW m \in Members, NEW ts \in GetTrades(m),
                      NEW q \in SortByDate(ts)
               PROVE  /\ WinsSince(ts, OnlyWinsFrom(ts)) <= WinStreak(q)
                      /\ WinStreak(q) <= WinsSince(ts, LastOtherDay(ts))
    BY DEF StreakFollowsDays
  <2>1. trades[m] \in Seq(StoredTrade)
    BY DEF CommunityIInv
  <2>2. PICK p \in SetToSeqs(DOMAIN trades[m]) : ts = [i \in DOMAIN trades[m] |-> trades[m][p[i]]]
    BY DEF GetTrades, Sorts, Orders
  <2>3. ts \in Seq(StoredTrade)
    BY <2>1, <2>2, OrderedTrades
  <2>4. PICK r \in SetToSeqs(DOMAIN ts) : /\ q = [i \in DOMAIN ts |-> ts[r[i]]]
                                          /\ \A i, j \in DOMAIN ts : i < j => ~Later(q[j], q[i])
    BY DEF SortByDate, Sorts, Orders
  <2>5. QED
    BY <2>3, <2>4, StreakOfAnyOrder
<1>2. QED
  BY <1>1, CommunityTypes, PTL

-----------------------------------------------------------------------------
(* A list names each element of S once.                                    *)
Lists(q, S) ==
  /\ q \in Seq(S)
  /\ \A i, j \in 1..Len(q) : i # j => q[i] # q[j]
  /\ \A x \in S : \E i \in 1..Len(q) : q[i] = x

LEMMA ListLength ==
  ASSUME NEW S, NEW q, Lists(q, S)
  PROVE  Len(q) \in Nat /\ IsFiniteSet(S) /\ Cardinality(S) = Len(q)
<1> DEFINE n == Len(q)
<1>1. /\ n \in Nat /\ q \in [1..n -> S]
      /\ \A i, j \in 1..n : i # j => q[i] # q[j]
      /\ \A x \in S : \E i \in 1..n : q[i] = x
  BY DEF Lists
<1> HIDE DEF n
<1>2. q \in Bijection(1..n, S)
  BY <1>1 DEF Bijection, Injection, Surjection, IsInjective
<1>3. IsFiniteSet(1..n) /\ Cardinality(1..n) = n
  <2>1. 1 \in Int /\ n \in Int
    BY <1>1
  <2>2. IsFiniteSet(1..n) /\ Cardinality(1..n) = IF 1 > n THEN 0 ELSE n - 1 + 1
    BY <2>1, FS_Interval
  <2> QED BY <1>1, <2>2
<1>4. ExistsBijection(1..n, S)
  BY <1>2 DEF ExistsBijection
<1>5. IsFiniteSet(S) /\ Cardinality(S) = Cardinality(1..n)
  BY <1>3, <1>4, FS_Bijection
<1>6. QED
  BY <1>1, <1>3, <1>5 DEF n

LEMMA SomeListing ==
  ASSUME NEW S, IsFiniteSet(S)
  PROVE  Lists(SetToSeq(S), S)
<1> DEFINE n == Cardinality(S)
<1>1. n \in Nat /\ \E f \in [1..n -> S] : IsInjective(f)
  <2>1. n \in Nat /\ ExistsBijection(1..n, S)
    BY FS_CardinalityType
  <2> HIDE DEF n
  <2> QED BY <2>1 DEF ExistsBijection, Bijection, Injection
<1> DEFINE q == SetToSeq(S)
<1>2. q \in [1..n -> S] /\ IsInjective(q)
  <2>1. q = CHOOSE f \in [1..n -> S] : IsInjective(f)
    BY DEF SetToSeq
  <2> HIDE DEF q, n
  <2> QED BY <1>1, <2>1
<1>3. IsFiniteSet(1..n) /\ Cardinality(1..n) = n
  <2>1. 1 \in Int /\ n \in Int
    BY <1>1
  <2> HIDE DEF n
  <2>2. IsFiniteSet(1..n) /\ Cardinality(1..n) = IF 1 > n THEN 0 ELSE n - 1 + 1
    BY <2>1, FS_Interval
  <2> QED BY <1>1, <2>2
<1> HIDE DEF q
<1>4. q \in Surjection(1..n, S)
  <2>1. q \in Injection(1..n, S)
    BY <1>2 DEF Injection
  <2>2. Cardinality(1..n) = Cardinality(S)
    BY <1>3
  <2> HIDE DEF n
  <2> QED BY <2>1, <2>2, FS_Injection
<1>5. q \in Seq(S) /\ Len(q) = n
  BY <1>1, <1>2
<1>6. QED
  <2> HIDE DEF n
  <2> QED BY <1>2, <1>4, <1>5 DEF Lists, Surjection, IsInjective, q

LEMMA Permuted ==
  ASSUME NEW n \in Nat, NEW p \in SetToSeqs(1..n)
  PROVE  p \in Seq(1..n) /\ Len(p) = n /\ Lists(p, 1..n)
<1>1. IsFiniteSet(1..n) /\ Cardinality(1..n) = n
  <2>1. 1 \in Int /\ n \in Int
    OBVIOUS
  <2>2. IsFiniteSet(1..n) /\ Cardinality(1..n) = IF 1 > n THEN 0 ELSE n - 1 + 1
    BY <2>1, FS_Interval
  <2> QED BY <2>2
<1>2. p \in [1..n -> 1..n] /\ \A i, j \in 1..n : i # j => p[i] # p[j]
  BY <1>1 DEF SetToSeqs
<1>3. p \in Injection(1..n, 1..n)
  BY <1>2 DEF Injection, IsInjective
<1>4. p \in Surjection(1..n, 1..n)
  BY <1>1, <1>3, FS_Injection
<1>5. p \in Seq(1..n) /\ Len(p) = n
  BY <1>2
<1>6. QED
  BY <1>2, <1>4, <1>5 DEF Lists, Surjection

(* In another order it is still a list of the same.                        *)
LEMMA ListPermuted ==
  ASSUME NEW S, NEW q, Lists(q, S), NEW p \in SetToSeqs(1..Len(q))
  PROVE  /\ Lists([i \in DOMAIN q |-> q[p[i]]], S)
         /\ Len([i \in DOMAIN q |-> q[p[i]]]) = Len(q)
<1> DEFINE n == Len(q)
           r == [i \in DOMAIN q |-> q[p[i]]]
<1>1. /\ n \in Nat /\ q \in [1..n -> S] /\ DOMAIN q = 1..n
      /\ \A i, j \in 1..n : i # j => q[i] # q[j]
      /\ \A x \in S : \E i \in 1..n : q[i] = x
  BY DEF Lists
<1>2. /\ p \in [1..n -> 1..n]
      /\ \A i, j \in 1..n : i # j => p[i] # p[j]
      /\ \A k \in 1..n : \E i \in 1..n : p[i] = k
  <2> HIDE DEF n
  <2>1. p \in SetToSeqs(1..n)
    BY DEF n
  <2>2. p \in Seq(1..n) /\ Len(p) = n /\ Lists(p, 1..n)
    BY <1>1, <2>1, Permuted
  <2> QED BY <2>2 DEF Lists
<1> HIDE DEF n
<1>3. r \in [1..n -> S] /\ \A i \in 1..n : r[i] = q[p[i]]
  BY <1>1, <1>2
<1> HIDE DEF r
<1>4. r \in Seq(S) /\ Len(r) = n
  BY <1>1, <1>3
<1>5. \A i, j \in 1..n : i # j => r[i] # r[j]
  BY <1>1, <1>2, <1>3, SMTT(30)
<1>6. \A x \in S : \E i \in 1..n : r[i] = x
  BY <1>1, <1>2, <1>3
<1>7. QED
  BY <1>4, <1>5, <1>6 DEF Lists, r, n

(* The elements that are kept, one after the other.                        *)
LEMMA KeptSteps ==
  ASSUME NEW X, NEW s \in Seq(X), NEW S
  PROVE  \E h \in [0..Len(s) -> Seq(X)] :
           /\ h[0] = <<>> /\ Kept(s, S) = h[Len(s)]
           /\ \A k \in 1..Len(s) : h[k] = IF s[k] \in S THEN Append(h[k - 1], s[k]) ELSE h[k - 1]
<1> DEFINE n == Len(s)
           Q == Seq(X)
           Step(q, x) == IF x \in S THEN Append(q, x) ELSE q
           Is(f) == f = [u \in SUBSET (1..n) |->
                           IF u = {} THEN <<>> ELSE Step(f[u \ {Max(u)}], s[Max(u)])]
           G == [x \in Q \X (1..n) |-> Step(x[1], s[x[2]])]
           f == CHOOSE g : Is(g)
<1>1. n \in Nat /\ DOMAIN s = 1..n /\ \A k \in 1..n : s[k] \in X
  OBVIOUS
<1>2. /\ G \in [Q \X (1..n) -> Q] /\ <<>> \in Q
      /\ \A x \in Q, k \in 1..n : G[<<x, k>>] = Step(x, s[k])
  BY <1>1
<1>3. \A u \in SUBSET (1..n) : u # {} => Max(u) \in 1..n
  <2> HIDE DEF n
  <2> QED BY <1>1, MaxOf
<1> HIDE DEF G, n, Q
<1>4. Kept(s, S) = f[1..n]
  BY <1>1 DEF Kept, FoldLeft, MapThenFoldSet
<1> HIDE DEF Step
<1>5. Is(f)
  <2>1. <<>> \in Q /\ G \in [Q \X (1..n) -> Q]
    BY <1>2
  <2>2. PICK g : IsFold(g, n, Q, <<>>, G)
    BY <1>1, <2>1, FoldExists, Zenon
  <2>3. /\ g \in [SUBSET (1..n) -> Q]
        /\ \A u \in SUBSET (1..n) :
             g[u] = IF u = {} THEN <<>> ELSE G[<<g[u \ {Max(u)}], Max(u)>>]
    BY <2>2 DEF IsFold
  <2>4. \A u \in SUBSET (1..n) : u # {} => g[u] = Step(g[u \ {Max(u)}], s[Max(u)])
    BY <1>2, <1>3, <2>3
  <2>5. Is(g)
    BY <2>3, <2>4
  <2> HIDE DEF Is
  <2> QED BY <2>5
<1>6. GoesOn(f, n, Q, <<>>, G)
  <2> HIDE DEF f
  <2> QED BY <1>2, <1>3, <1>5 DEF GoesOn
<1> HIDE DEF f
<1>7. PICK h : IsAlong(h, f, n, Q, <<>>, G)
  <2>1. <<>> \in Q /\ G \in [Q \X (1..n) -> Q]
    BY <1>2
  <2> QED BY <1>1, <2>1, <1>6, FoldValues, Zenon
<1>8. \A k \in 1..n : h[k] = Step(h[k - 1], s[k])
  <2>1. \A k \in 1..n : k - 1 \in 0..n
    BY <1>1
  <2> QED BY <1>2, <1>7, <2>1 DEF IsAlong
<1>9. QED
  BY <1>4, <1>7, <1>8 DEF n, Q, Step, IsAlong

LEMMA KeptOfList ==
  ASSUME NEW X, NEW s \in Seq(X), NEW S
  PROVE  Kept(s, S) \in Seq(X)
<1>1. PICK h \in [0..Len(s) -> Seq(X)] : Kept(s, S) = h[Len(s)]
  BY KeptSteps
<1>2. Len(s) \in 0..Len(s)
  OBVIOUS
<1>3. QED
  BY <1>1, <1>2

(* What is kept of a list of S lists those of S that are wanted.           *)
LEMMA KeptLists ==
  ASSUME NEW S, NEW s, Lists(s, S), NEW W
  PROVE  Lists(Kept(s, W), S \cap W)
<1> DEFINE n == Len(s)
<1>1. /\ s \in Seq(S) /\ n \in Nat
      /\ \A k \in 1..n : s[k] \in S
      /\ \A i, j \in 1..n : i # j => s[i] # s[j]
      /\ \A x \in S : \E i \in 1..n : s[i] = x
  BY DEF Lists
<1>2. PICK h \in [0..n -> Seq(S)] :
        /\ h[0] = <<>> /\ Kept(s, W) = h[n]
        /\ \A k \in 1..n : h[k] = IF s[k] \in W THEN Append(h[k - 1], s[k]) ELSE h[k - 1]
  BY <1>1, KeptSteps, SMTT(30)
<1> DEFINE Seen(k) == {s[i] : i \in 1..k} \cap W
           R == {k \in 0..n : Lists(h[k], Seen(k))}
<1> HIDE DEF n
<1>3. 0 \in R
  <2>1. Seen(0) = {} /\ 0 \in 0..n
    BY <1>1
  <2>2. Lists(<<>>, {})
    BY DEF Lists
  <2> HIDE DEF Seen
  <2> QED BY <1>2, <2>1, <2>2
<1>4. ASSUME NEW k \in 1..n, k - 1 \in R PROVE k \in R
  <2>1. /\ k - 1 \in 0..n /\ k \in 0..n /\ 1..k = 1..(k - 1) \cup {k} /\ s[k] \in S
        /\ k \notin 1..(k - 1) /\ 1..(k - 1) \subseteq 1..n
    BY <1>1
  <2>2. /\ s[k] \notin W => Seen(k) = Seen(k - 1)
        /\ s[k] \in W => Seen(k) = Seen(k - 1) \cup {s[k]} /\ s[k] \notin Seen(k - 1)
    <3>1. {s[i] : i \in 1..k} = {s[i] : i \in 1..(k - 1)} \cup {s[k]}
      BY <2>1
    <3>2. s[k] \notin {s[i] : i \in 1..(k - 1)}
      BY <1>1, <2>1
    <3> QED BY <3>1, <3>2
  <2>3. Lists(h[k - 1], Seen(k - 1))
    BY <1>4
  <2> HIDE DEF Seen
  <2>4. CASE s[k] \notin W
    BY <1>2, <2>1, <2>2, <2>3, <2>4
  <2>5. CASE s[k] \in W
    <3> DEFINE q == h[k - 1]
               x == s[k]
               T == Seen(k - 1)
               m == Len(q)
               r == Append(q, x)
    <3>1. h[k] = r /\ Seen(k) = T \cup {x} /\ x \notin T
      BY <1>2, <2>2, <2>5
    <3>2. /\ q \in Seq(T) /\ m \in Nat /\ \A i \in 1..m : q[i] \in T
          /\ \A i, j \in 1..m : i # j => q[i] # q[j]
          /\ \A y \in T : \E i \in 1..m : q[i] = y
      BY <2>3, SMTT(30) DEF Lists
    <3> HIDE DEF q, x, T
    <3>3. /\ r \in Seq(T \cup {x}) /\ Len(r) = m + 1 /\ r[m + 1] = x
          /\ \A i \in 1..m : r[i] = q[i]
      BY <3>2
    <3> HIDE DEF r, m
    <3>4. 1..(m + 1) = 1..m \cup {m + 1}
      BY <3>2
    <3>5. \A i, j \in 1..(m + 1) : i # j => r[i] # r[j]
      BY <3>1, <3>2, <3>3, <3>4
    <3>6. \A y \in T \cup {x} : \E i \in 1..(m + 1) : r[i] = y
      BY <3>2, <3>3, <3>4
    <3>7. Lists(r, T \cup {x})
      BY <3>3, <3>5, <3>6 DEF Lists
    <3>8. QED
      BY <2>1, <3>1, <3>7
  <2>6. QED
    BY <2>4, <2>5
<1>5. \A k \in 0..n : k \in R
  <2> HIDE DEF R
  <2> QED BY <1>1, <1>3, <1>4, UpTo
<1>6. n \in 0..n /\ Seen(n) = S \cap W
  <2>1. {s[i] : i \in 1..n} \subseteq S
    BY <1>1
  <2>2. S \subseteq {s[i] : i \in 1..n}
    BY <1>1
  <2>3. n \in 0..n
    BY <1>1
  <2> QED BY <2>1, <2>2, <2>3
<1>7. Lists(h[n], Seen(n))
  <2> HIDE DEF Seen
  <2> QED BY <1>5, <1>6
<1>8. QED
  BY <1>2, <1>6, <1>7

-----------------------------------------------------------------------------
(* The sum of F over the subsets of M: whichever is taken away first.      *)
IsSum(u, M, F) ==
  /\ u \in [SUBSET M -> Int] /\ u[{}] = 0
  /\ \A s \in SUBSET M : \A x \in s : u[s] = u[s \ {x}] + F[x]

LEMMA SumExists ==
  ASSUME NEW M, NEW q, Lists(q, M), NEW F \in [M -> Int]
  PROVE  \E u : IsSum(u, M, F)
<1> DEFINE n == Len(q)
           Seen(k) == {q[i] : i \in 1..k}
           R == {k \in 0..n : \E u : IsSum(u, Seen(k), F)}
<1>1. /\ n \in Nat /\ \A k \in 1..n : q[k] \in M
      /\ \A i, j \in 1..n : i # j => q[i] # q[j]
      /\ \A x \in M : \E i \in 1..n : q[i] = x
  BY DEF Lists
<1> HIDE DEF n
<1>2. 0 \in R
  <2>1. Seen(0) = {} /\ 0 \in 0..n
    BY <1>1
  <2>2. IsSum([s \in SUBSET {} |-> 0], {}, F)
    BY DEF IsSum
  <2> HIDE DEF Seen
  <2> QED BY <2>1, <2>2
<1>3. ASSUME NEW k \in 1..n, k - 1 \in R PROVE k \in R
  <2> DEFINE b == q[k]
             T == Seen(k - 1)
  <2>1. b \in M /\ b \notin T /\ Seen(k) = T \cup {b} /\ T \subseteq M /\ k \in 0..n
    <3>1. /\ 1..k = 1..(k - 1) \cup {k} /\ k \notin 1..(k - 1) /\ 1..(k - 1) \subseteq 1..n
          /\ k \in 0..n
      BY <1>1
    <3>2. Seen(k) = Seen(k - 1) \cup {q[k]}
      BY <3>1
    <3>3. q[k] \notin Seen(k - 1)
      BY <1>1, <3>1
    <3>4. Seen(k - 1) \subseteq M
      BY <1>1, <3>1
    <3> QED BY <1>1, <3>1, <3>2, <3>3, <3>4
  <2>2. PICK u : IsSum(u, T, F)
    BY <1>3
  <2> HIDE DEF Seen, R, b, T
  <2> DEFINE V == SUBSET (T \cup {b})
             v == [s \in V |-> IF b \in s THEN u[s \ {b}] + F[b] ELSE u[s]]
  <2>3. /\ u \in [SUBSET T -> Int] /\ u[{}] = 0
        /\ \A s \in SUBSET T : \A x \in s : u[s] = u[s \ {x}] + F[x]
    BY <2>2 DEF IsSum
  <2>4. \A s \in V : s \ {b} \in SUBSET T /\ (b \notin s => s \in SUBSET T)
    OBVIOUS
  <2>5. F[b] \in Int /\ \A x \in T : F[x] \in Int
    BY <2>1
  <2>6. v \in [V -> Int]
    <3>1. \A s \in V : (IF b \in s THEN u[s \ {b}] + F[b] ELSE u[s]) \in Int
      BY <2>3, <2>4, <2>5
    <3> HIDE DEF V
    <3> QED BY <3>1
  <2>7. \A s \in V : v[s] = IF b \in s THEN u[s \ {b}] + F[b] ELSE u[s]
    OBVIOUS
  <2>8. {} \in V /\ v[{}] = 0
    BY <2>3
  <2> HIDE DEF v
  <2>9. ASSUME NEW s \in V, NEW x \in s PROVE v[s] = v[s \ {x}] + F[x]
    <3>1. s \ {x} \in V
      OBVIOUS
    <3>2. CASE x = b
      <4>1. v[s] = u[s \ {b}] + F[b] /\ v[s \ {b}] = u[s \ {b}]
        BY <2>7, <3>1, <3>2
      <4> QED BY <3>2, <4>1
    <3>3. CASE x # b /\ b \in s
      <4> DEFINE w == s \ {b}
                 y == (s \ {x}) \ {b}
      <4>1. w \in SUBSET T /\ x \in w /\ w \ {x} = y /\ y \in SUBSET T
        BY <2>4, <3>3
      <4>2. v[s] = u[w] + F[b] /\ v[s \ {x}] = u[y] + F[b]
        BY <2>7, <3>1, <3>3
      <4>3. u[w] = u[y] + F[x]
        BY <2>3, <4>1
      <4>4. u[y] \in Int /\ F[x] \in Int /\ F[b] \in Int
        BY <2>3, <2>5, <4>1
      <4> HIDE DEF w, y
      <4> QED BY <4>2, <4>3, <4>4
    <3>4. CASE b \notin s
      <4>1. s \in SUBSET T /\ b \notin s \ {x}
        BY <2>4, <3>4
      <4>2. v[s] = u[s] /\ v[s \ {x}] = u[s \ {x}]
        BY <2>7, <3>1, <3>4, <4>1
      <4> QED BY <2>3, <4>1, <4>2
    <3> QED BY <3>2, <3>3, <3>4
  <2>10. IsSum(v, T \cup {b}, F)
    BY <2>6, <2>8, <2>9 DEF IsSum
  <2>11. \E y : IsSum(y, Seen(k), F)
    BY <2>1, <2>10
  <2> QED BY <2>1, <2>11 DEF R
<1>4. \A k \in 0..n : k \in R
  <2> HIDE DEF R
  <2> QED BY <1>1, <1>2, <1>3, UpTo
<1>5. n \in 0..n /\ Seen(n) = M
  BY <1>1
<1>6. \E u : IsSum(u, Seen(n), F)
  <2> HIDE DEF Seen
  <2> QED BY <1>4, <1>5
<1>7. QED
  <2> HIDE DEF Seen
  <2> QED BY <1>5, <1>6

(* A sum along a list depends on what is listed, not on the order.         *)
LEMMA SumOfListing ==
  ASSUME NEW M, NEW F \in [M -> Int], NEW u, IsSum(u, M, F),
         NEW S \in SUBSET M, NEW q, Lists(q, S),
         NEW ns, ns \in Seq(Int), Len(ns) = Len(q), \A i \in 1..Len(q) : ns[i] = F[q[i]]
  PROVE  SumUp(ns) = u[S]
<1> DEFINE n == Len(q)
           Seen(k) == {q[i] : i \in 1..k}
<1>1. /\ n \in Nat /\ \A k \in 1..n : q[k] \in S /\ ns[k] = F[q[k]]
      /\ \A i, j \in 1..n : i # j => q[i] # q[j]
      /\ \A x \in S : \E i \in 1..n : q[i] = x
  BY DEF Lists
<1>2. \A k \in 1..n : q[k] \in M /\ F[q[k]] \in Int
  BY <1>1
<1> HIDE DEF n
<1>3. PICK h \in [0..n -> Int] :
        /\ h[0] = 0 /\ SumUp(ns) = h[n]
        /\ \A k \in 1..n : h[k] = h[k - 1] + ns[k]
  BY SumSteps DEF n
<1>4. /\ u \in [SUBSET M -> Int] /\ u[{}] = 0
      /\ \A s \in SUBSET M : \A x \in s : u[s] = u[s \ {x}] + F[x]
  BY DEF IsSum
<1> DEFINE R == {k \in 0..n : h[k] = u[Seen(k)]}
<1>5. 0 \in R
  <2>1. Seen(0) = {} /\ 0 \in 0..n
    BY <1>1
  <2> HIDE DEF Seen
  <2> QED BY <1>3, <1>4, <2>1
<1>6. ASSUME NEW k \in 1..n, k - 1 \in R PROVE k \in R
  <2>1. /\ 1..k = 1..(k - 1) \cup {k} /\ k \notin 1..(k - 1) /\ 1..k \subseteq 1..n
        /\ k \in 0..n
    BY <1>1
  <2>2. Seen(k) = Seen(k - 1) \cup {q[k]}
    BY <2>1
  <2>3. q[k] \notin Seen(k - 1)
    BY <1>1, <2>1, SMTT(30)
  <2>4. Seen(k) \in SUBSET M
    BY <1>2, <2>1, SMTT(30)
  <2>5. h[k - 1] = u[Seen(k - 1)]
    BY <1>6
  <2> HIDE DEF Seen
  <2>6. Seen(k) \ {q[k]} = Seen(k - 1) /\ q[k] \in Seen(k)
    BY <2>2, <2>3
  <2>7. u[Seen(k)] = u[Seen(k - 1)] + F[q[k]]
    <3>1. u[Seen(k)] = u[Seen(k) \ {q[k]}] + F[q[k]]
      BY <1>4, <2>4, <2>6, Zenon
    <3> QED BY <2>6, <3>1
  <2>8. h[k] = u[Seen(k)]
    BY <1>1, <1>3, <2>5, <2>7
  <2> QED BY <2>1, <2>8
<1>7. \A k \in 0..n : k \in R
  <2> HIDE DEF R
  <2> QED BY <1>1, <1>5, <1>6, UpTo
<1>8. n \in 0..n /\ Seen(n) = S
  <2>1. Seen(n) \subseteq S
    BY <1>1
  <2>2. S \subseteq Seen(n)
    BY <1>1
  <2>3. n \in 0..n
    BY <1>1
  <2> HIDE DEF Seen
  <2> QED BY <2>1, <2>2, <2>3
<1>9. h[n] = u[Seen(n)]
  <2> HIDE DEF Seen
  <2> QED BY <1>7, <1>8
<1> HIDE DEF Seen, R
<1>10. QED
  BY <1>3, <1>8, <1>9

-----------------------------------------------------------------------------
(* What the ranking and the report take of a member's list of trades.      *)
EntryOf(e, ts) ==
  /\ e.total = Len(ts) /\ e.rr \in Int /\ e.wins \in Nat /\ e.losses \in Nat
  /\ e.winRate = <<e.wins, e.wins + e.losses>>
  /\ RROf(ts) = e.rr + RRNotClosed(ts) /\ RRNotClosed(ts) \in Int
  /\ Len(ts) = 0 => RRNotClosed(ts) = 0

LEMMA EntryOfAnyList ==
  ASSUME NEW m, NEW ts \in Seq(StoredTrade)
  PROVE  EntryOf(LeaderboardEntry(m, ts), ts)
<1> DEFINE s == CalculateStats(ts)
           e == LeaderboardEntry(m, ts)
<1>1. s \in Figures
  <2>1. PICK h \in [0..Len(ts) -> Figures] : CalculateStats(ts) = h[Len(ts)]
    BY StatsSteps
  <2>2. Len(ts) \in 0..Len(ts)
    OBVIOUS
  <2> QED BY <2>1, <2>2
<1>2. s.total = Len(ts)
  BY TotalsOfAnyList DEF TotalsAreExact
<1>3. RROf(ts) = s.rr + RRNotClosed(ts)
  <2>1. /\ ReportCard(ts).figures.rr = s.rr + RRNotClosed(ts)
        /\ GetAnalytics(ts).rr = ReportCard(ts).figures.rr
    BY FiguresOfAnyList DEF FiguresAgree
  <2>2. GetAnalytics(ts).rr = RROf(ts)
    BY DEF GetAnalytics
  <2> HIDE DEF s
  <2> QED BY <2>1, <2>2
<1>4. RRNotClosed(ts) \in Int /\ (Len(ts) = 0 => RRNotClosed(ts) = 0)
  <2>1. PICK r \in [0..Len(ts) -> Int] : r[0] = 0 /\ RRNotClosed(ts) = r[Len(ts)]
    <3>1. \A S : \E r \in [0..Len(ts) -> Int] : r[0] = 0 /\ RRWithin(ts, S) = r[Len(ts)]
      BY RRSteps
    <3> QED BY <3>1 DEF RRNotClosed
  <2>2. Len(ts) \in 0..Len(ts)
    OBVIOUS
  <2> QED BY <2>1, <2>2
<1>5. /\ e.rr = s.rr /\ e.total = s.total /\ e.wins = s.wins /\ e.losses = s.losses
      /\ e.winRate = <<s.wins, s.wins + s.losses>>
  BY DEF LeaderboardEntry
<1> HIDE DEF s, e
<1>6. s.rr \in Int /\ s.wins \in Nat /\ s.losses \in Nat
  BY <1>1 DEF Figures
<1>7. QED
  BY <1>2, <1>3, <1>4, <1>5, <1>6 DEF EntryOf, e

LEMMA WeekOK ==
  ASSUME CommunityIInv, NEW m \in Members
  PROVE  ThisWeek(m) \in Seq(StoredTrade) /\ EntryOf(WeekEntry[m], ThisWeek(m))
<1>1. trades[m] \in Seq(StoredTrade)
  BY DEF CommunityIInv
<1>2. ThisWeek(m) \in Seq(StoredTrade)
  BY <1>1, KeptOfList DEF ThisWeek
<1>3. WeekEntry[m] = LeaderboardEntry(m, ThisWeek(m))
  BY DEF WeekEntry
<1>4. QED
  BY <1>2, <1>3, EntryOfAnyList

(* Who traded this week: in the report, on the leaderboard and in the      *)
(* challenge they are the same.                                            *)
Traded == {m \in Members : Len(ThisWeek(m)) >= 1}

LEMMA TradedAlike ==
  ASSUME CommunityIInv
  PROVE  /\ {m \in Members : WeekEntry[m].total > 0} = Traded
         /\ {m \in Members : WeekEntry[m].total >= 1} = Traded
<1>1. \A m \in Members : WeekEntry[m].total = Len(ThisWeek(m)) /\ Len(ThisWeek(m)) \in Nat
  <2> SUFFICES ASSUME NEW m \in Members
               PROVE  WeekEntry[m].total = Len(ThisWeek(m)) /\ Len(ThisWeek(m)) \in Nat
    OBVIOUS
  <2>1. ThisWeek(m) \in Seq(StoredTrade) /\ WeekEntry[m].total = Len(ThisWeek(m))
    BY WeekOK DEF EntryOf
  <2> QED BY <2>1
<1>2. QED
  BY <1>1 DEF Traded

LEMMA ValueOf ==
  ASSUME NEW ts
  PROVE  Value("most_trades", ts) = <<Len(ts), 1>> /\ Value("most_rr", ts) = <<RROf(ts), 1>>
BY DEF Value

(* The standings of the challenges that count trades or RR.                *)
LEMMA StandingsList ==
  ASSUME CommunityIInv, NEW type \in {"most_trades", "most_rr"},
         NEW s \in GetCurrentStandings(type)
  PROVE  \E q : /\ Lists(q, Traded) /\ DOMAIN s = 1..Len(q) /\ Len(s) = Len(q)
                /\ \A i \in 1..Len(q) : s[i].value = Value(type, ThisWeek(q[i]))
<1> DEFINE a == SetToSeq(Traded)
           n == Len(a)
           results == [i \in DOMAIN a |-> [member |-> a[i], value |-> Value(type, ThisWeek(a[i]))]]
<1>1. Lists(a, Traded)
  <2>1. IsFiniteSet(Traded)
    BY CommunityAssumption, FS_Subset DEF Traded
  <2> QED BY <2>1, SomeListing
<1>2. n \in Nat /\ DOMAIN a = 1..n
  BY <1>1 DEF Lists
<1>3. Qualified(type) = Traded
  BY DEF Qualified, Traded
<1>4. \E p \in SetToSeqs(DOMAIN results) : s = [i \in DOMAIN results |-> results[p[i]]]
  <2>1. Results(type) = results
    BY <1>3 DEF Results
  <2> HIDE DEF results
  <2> QED BY <2>1 DEF GetCurrentStandings, Sorts, Orders
<1> HIDE DEF a, n
<1>5. DOMAIN results = 1..n /\ \A i \in 1..n : results[i].value = Value(type, ThisWeek(a[i]))
  BY <1>2
<1> HIDE DEF results
<1>6. PICK p \in SetToSeqs(1..n) : s = [i \in 1..n |-> results[p[i]]]
  BY <1>4, <1>5
<1> DEFINE q == [i \in DOMAIN a |-> a[p[i]]]
<1>7. Lists(q, Traded) /\ Len(q) = n
  BY <1>1, <1>6, ListPermuted DEF n
<1>8. p \in [1..n -> 1..n]
  <2>1. p \in Seq(1..n) /\ Len(p) = n
    BY <1>2, Permuted
  <2> QED BY <2>1
<1>9. \A i \in 1..n : q[i] = a[p[i]] /\ p[i] \in 1..n /\ s[i] = results[p[i]]
  BY <1>2, <1>6, <1>8
<1>10. DOMAIN s = 1..n /\ Len(s) = n
  BY <1>2, <1>6
<1> HIDE DEF q
<1>11. \A i \in 1..n : s[i].value = Value(type, ThisWeek(q[i]))
  BY <1>5, <1>9
<1>12. QED
  BY <1>7, <1>10, <1>11

(* The members of the report.                                              *)
LEMMA ReportList ==
  ASSUME CommunityIInv, NEW W, W \in {{m \in Members : WeekEntry[m].total > 0},
                                      {m \in Members : WeekEntry[m].total >= 1}}
  PROVE  /\ Lists(All, Members)
         /\ Lists(Kept(All, W), Traded)
<1>1. Lists(All, Members)
  BY CommunityAssumption, SomeListing DEF All
<1>2. W = Traded /\ Members \cap Traded = Traded
  BY TradedAlike DEF Traded
<1>3. QED
  BY <1>1, <1>2, KeptLists

(* The sum of a figure of the members that traded.                         *)
LEMMA SumAgrees ==
  ASSUME CommunityIInv, NEW F \in [Members -> Int], NEW u, IsSum(u, Members, F),
         NEW q, Lists(q, Traded), NEW v \in [1..Len(q) -> Int],
         \A i \in 1..Len(q) : v[i] = F[q[i]]
  PROVE  SumUp(v) = u[Traded]
<1>1. Traded \in SUBSET Members
  BY DEF Traded
<1>2. Len(q) \in Nat
  BY DEF Lists
<1>3. v \in Seq(Int) /\ Len(v) = Len(q)
  BY <1>2
<1>4. QED
  BY <1>1, <1>3, SumOfListing, SMTT(30)

LEMMA SummaryFollowsStandings ==
  ASSUME CommunityIInv
  PROVE  SummaryIsOfStandings(GenerateWeeklySummary(WeekEntry, All))
<1> DEFINE k == Kept(All, {m \in Members : WeekEntry[m].total > 0})
           es == EntriesOf(WeekEntry, k)
           r == GenerateWeeklySummary(WeekEntry, All)
           n == Len(k)
           Trades == [m \in Members |-> Len(ThisWeek(m))]
           RR == [m \in Members |-> WeekEntry[m].rr]
           Rest == [m \in Members |-> RRNotClosed(ThisWeek(m))]
<1>1. Lists(All, Members) /\ Lists(k, Traded)
  BY ReportList
<1>2. r.members = Len(es) /\ r.trades = SumOf(es, "total") /\ r.rr = SumOf(es, "rr")
  BY DEF GenerateWeeklySummary
<1> HIDE DEF r, k
<1>3. n \in Nat /\ DOMAIN k = 1..n /\ \A i \in 1..n : k[i] \in Traded
  BY <1>1 DEF Lists
<1>4. DOMAIN es = 1..n /\ Len(es) = n /\ \A i \in 1..n : es[i] = WeekEntry[k[i]]
  BY <1>3 DEF EntriesOf
<1> HIDE DEF es, n
<1>5. \A m \in Members : /\ ThisWeek(m) \in Seq(StoredTrade) /\ WeekEntry[m].total = Len(ThisWeek(m))
                         /\ Len(ThisWeek(m)) \in Int /\ WeekEntry[m].rr \in Int
                         /\ RROf(ThisWeek(m)) = WeekEntry[m].rr + RRNotClosed(ThisWeek(m))
                         /\ RRNotClosed(ThisWeek(m)) \in Int
                         /\ Len(ThisWeek(m)) = 0 => RRNotClosed(ThisWeek(m)) = 0
  <2> SUFFICES ASSUME NEW m \in Members
               PROVE  /\ ThisWeek(m) \in Seq(StoredTrade) /\ WeekEntry[m].total = Len(ThisWeek(m))
                      /\ Len(ThisWeek(m)) \in Int /\ WeekEntry[m].rr \in Int
                      /\ RROf(ThisWeek(m)) = WeekEntry[m].rr + RRNotClosed(ThisWeek(m))
                      /\ RRNotClosed(ThisWeek(m)) \in Int
                      /\ Len(ThisWeek(m)) = 0 => RRNotClosed(ThisWeek(m)) = 0
    OBVIOUS
  <2>1. ThisWeek(m) \in Seq(StoredTrade) /\ EntryOf(WeekEntry[m], ThisWeek(m))
    BY WeekOK
  <2>2. Len(ThisWeek(m)) \in Int
    BY <2>1
  <2> QED BY <2>1, <2>2 DEF EntryOf
<1>6. /\ Trades \in [Members -> Int] /\ RR \in [Members -> Int] /\ Rest \in [Members -> Int]
      /\ Traded \subseteq Members
  BY <1>5 DEF Traded
<1>7. PICK t : IsSum(t, Members, Trades)
  BY <1>1, <1>6, SumExists
<1>8. PICK c : IsSum(c, Members, RR)
  BY <1>1, <1>6, SumExists
<1>9. PICK d : IsSum(d, Members, Rest)
  BY <1>1, <1>6, SumExists
<1>10. r.members = n /\ r.trades = t[Traded] /\ r.rr = c[Traded]
  <2> DEFINE v == [i \in DOMAIN es |-> es[i].total]
             w == [i \in DOMAIN es |-> es[i].rr]
  <2>1. /\ v \in [1..n -> Int] /\ \A i \in 1..n : v[i] = Trades[k[i]]
        /\ w \in [1..n -> Int] /\ \A i \in 1..n : w[i] = RR[k[i]]
    <3>1. ASSUME NEW i \in 1..n
          PROVE  /\ es[i].total = Trades[k[i]] /\ es[i].rr = RR[k[i]]
                 /\ Trades[k[i]] \in Int /\ RR[k[i]] \in Int
      <4>1. k[i] \in Members /\ es[i] = WeekEntry[k[i]]
        BY <1>3, <1>4, <1>6
      <4>2. Trades[k[i]] = Len(ThisWeek(k[i])) /\ RR[k[i]] = WeekEntry[k[i]].rr
        BY <4>1
      <4> HIDE DEF Trades, RR
      <4> QED BY <1>5, <4>1, <4>2
    <3> HIDE DEF Trades, RR
    <3> QED BY <1>4, <3>1
  <2>2. SumOf(es, "total") = SumUp(v) /\ SumOf(es, "rr") = SumUp(w)
    BY DEF SumOf
  <2> HIDE DEF v, w, Trades, RR
  <2>3. SumUp(v) = t[Traded]
    <3>1. v \in [1..Len(k) -> Int] /\ \A i \in 1..Len(k) : v[i] = Trades[k[i]]
      BY <2>1 DEF n
    <3> QED BY <1>1, <1>6, <1>7, <3>1, SumAgrees, SMTT(30)
  <2>4. SumUp(w) = c[Traded]
    <3>1. w \in [1..Len(k) -> Int] /\ \A i \in 1..Len(k) : w[i] = RR[k[i]]
      BY <2>1 DEF n
    <3> QED BY <1>1, <1>6, <1>8, <3>1, SumAgrees, SMTT(30)
  <2> QED BY <1>2, <1>4, <2>2, <2>3, <2>4
<1>11. ASSUME NEW s \in GetCurrentStandings("most_trades")
       PROVE  Len(s) = r.members /\ SumOfValues(s) = r.trades
  <2>1. PICK q : /\ Lists(q, Traded) /\ DOMAIN s = 1..Len(q) /\ Len(s) = Len(q)
                 /\ \A i \in 1..Len(q) : s[i].value = Value("most_trades", ThisWeek(q[i]))
    BY <1>11, StandingsList
  <2> DEFINE v == [i \in DOMAIN s |-> s[i].value[1]]
  <2>2. \A i \in 1..Len(q) : q[i] \in Members
    BY <1>6, <2>1 DEF Lists
  <2>3. \A i \in 1..Len(q) : v[i] = Trades[q[i]]
    BY <2>1, <2>2, ValueOf
  <2>4. v \in [1..Len(q) -> Int]
    BY <1>6, <2>1, <2>2, <2>3
  <2>5. SumOfValues(s) = SumUp(v)
    BY DEF SumOfValues
  <2> HIDE DEF v, Trades
  <2>6. SumUp(v) = t[Traded]
    BY <1>6, <1>7, <2>1, <2>3, <2>4, SumAgrees
  <2>7. Len(q) = n
    BY <1>1, <2>1, ListLength DEF n
  <2> QED BY <1>10, <2>1, <2>5, <2>6, <2>7
<1>12. ASSUME NEW s \in GetCurrentStandings("most_rr")
       PROVE  SumOfValues(s) = c[Traded] + d[Traded]
  <2>1. PICK q : /\ Lists(q, Traded) /\ DOMAIN s = 1..Len(q) /\ Len(s) = Len(q)
                 /\ \A i \in 1..Len(q) : s[i].value = Value("most_rr", ThisWeek(q[i]))
    BY <1>12, StandingsList
  <2> DEFINE v == [i \in DOMAIN s |-> s[i].value[1]]
             Both == [m \in Members |-> RR[m] + Rest[m]]
             u == [S \in SUBSET Members |-> c[S] + d[S]]
  <2>2. \A i \in 1..Len(q) : q[i] \in Members
    BY <1>6, <2>1 DEF Lists
  <2>3. Both \in [Members -> Int] /\ \A m \in Members : Both[m] = RROf(ThisWeek(m))
    BY <1>5, <1>6
  <2>4. IsSum(u, Members, Both)
    <3>1. /\ c \in [SUBSET Members -> Int] /\ c[{}] = 0
          /\ \A S \in SUBSET Members : \A x \in S : c[S] = c[S \ {x}] + RR[x]
          /\ d \in [SUBSET Members -> Int] /\ d[{}] = 0
          /\ \A S \in SUBSET Members : \A x \in S : d[S] = d[S \ {x}] + Rest[x]
      BY <1>8, <1>9 DEF IsSum
    <3>2. \A m \in Members : Both[m] = RR[m] + Rest[m] /\ RR[m] \in Int /\ Rest[m] \in Int
      BY <1>6
    <3> HIDE DEF RR, Rest, Both
    <3>3. u \in [SUBSET Members -> Int] /\ u[{}] = 0
      BY <3>1
    <3>4. ASSUME NEW S \in SUBSET Members, NEW x \in S
          PROVE  u[S] = u[S \ {x}] + Both[x]
      <4>1. S \ {x} \in SUBSET Members /\ x \in Members
        OBVIOUS
      <4>2. u[S] = c[S] + d[S] /\ u[S \ {x}] = c[S \ {x}] + d[S \ {x}]
        BY <4>1
      <4>3. c[S] = c[S \ {x}] + RR[x] /\ d[S] = d[S \ {x}] + Rest[x]
        BY <3>1
      <4>4. c[S \ {x}] \in Int /\ d[S \ {x}] \in Int
        BY <3>1, <4>1
      <4> HIDE DEF u
      <4> QED BY <3>2, <4>1, <4>2, <4>3, <4>4
    <3> HIDE DEF u
    <3> QED BY <3>3, <3>4 DEF IsSum
  <2>5. \A i \in 1..Len(q) : v[i] = Both[q[i]]
    BY <2>1, <2>2, <2>3, ValueOf
  <2>6. v \in [1..Len(q) -> Int]
    BY <2>1, <2>2, <2>3, <2>5
  <2>7. SumOfValues(s) = SumUp(v)
    BY DEF SumOfValues
  <2>8. u[Traded] = c[Traded] + d[Traded]
    BY <1>6
  <2> HIDE DEF v, Both, u
  <2>9. SumUp(v) = u[Traded]
    BY <2>1, <2>3, <2>4, <2>5, <2>6, SumAgrees
  <2> QED BY <2>7, <2>8, <2>9
<1>13. RRNotClosedOfAll = d[Traded]
  <2> DEFINE v == [i \in DOMAIN All |-> RRNotClosed(ThisWeek(All[i]))]
             u == [S \in SUBSET Members |-> d[S \cap Traded]]
  <2>1. Len(All) \in Nat /\ DOMAIN All = 1..Len(All) /\ \A i \in 1..Len(All) : All[i] \in Members
    BY <1>1 DEF Lists
  <2>2. v \in [1..Len(All) -> Int] /\ \A i \in 1..Len(All) : v[i] = Rest[All[i]]
    BY <1>6, <2>1
  <2>3. RRNotClosedOfAll = SumUp(v)
    BY DEF RRNotClosedOfAll
  <2>4. v \in Seq(Int) /\ Len(v) = Len(All)
    <3> HIDE DEF v
    <3> QED BY <2>1, <2>2
  <2>5. IsSum(u, Members, Rest)
    <3>1. /\ d \in [SUBSET Members -> Int] /\ d[{}] = 0
          /\ \A S \in SUBSET Members : \A x \in S : d[S] = d[S \ {x}] + Rest[x]
      BY <1>9 DEF IsSum
    <3>2. \A m \in Members : Rest[m] \in Int /\ (m \notin Traded => Rest[m] = 0)
      <4>1. \A m \in Members : m \notin Traded => Len(ThisWeek(m)) = 0
        <5> SUFFICES ASSUME NEW m \in Members, m \notin Traded PROVE Len(ThisWeek(m)) = 0
          OBVIOUS
        <5>1. Len(ThisWeek(m)) \in Nat
          <6>1. ThisWeek(m) \in Seq(StoredTrade)
            BY <1>5
          <6> QED BY <6>1
        <5> QED BY <5>1 DEF Traded
      <4> QED BY <1>5, <1>6, <4>1
    <3> HIDE DEF Rest
    <3>3. \A S \in SUBSET Members : S \cap Traded \in SUBSET Members
      OBVIOUS
    <3>4. u \in [SUBSET Members -> Int] /\ u[{}] = 0
      <4>1. {} \cap Traded = {}
        OBVIOUS
      <4> QED BY <3>1, <3>3, <4>1
    <3>5. ASSUME NEW S \in SUBSET Members, NEW x \in S
          PROVE  u[S] = u[S \ {x}] + Rest[x]
      <4> DEFINE A == S \cap Traded
                 B == (S \ {x}) \cap Traded
      <4>1. u[S] = d[A] /\ u[S \ {x}] = d[B] /\ A \in SUBSET Members /\ x \in Members
        OBVIOUS
      <4>2. d[A] \in Int
        BY <3>1, <4>1
      <4>3. CASE x \in Traded
        <5>1. x \in A /\ B = A \ {x}
          BY <4>3
        <5> HIDE DEF A, B
        <5>2. d[A] = d[A \ {x}] + Rest[x]
          BY <3>1, <4>1, <5>1
        <5> QED BY <4>1, <5>1, <5>2
      <4>4. CASE x \notin Traded
        <5>1. B = A /\ Rest[x] = 0
          BY <3>2, <4>4
        <5> HIDE DEF A, B
        <5> QED BY <4>1, <4>2, <5>1
      <4> QED BY <4>3, <4>4
    <3> HIDE DEF u
    <3> QED BY <3>4, <3>5 DEF IsSum
  <2>6. u[Members] = d[Traded]
    <3>1. Members \cap Traded = Traded
      BY <1>6
    <3> QED BY <3>1
  <2> HIDE DEF u, v, Rest
  <2>7. SumUp(v) = u[Members]
    <3>1. Members \in SUBSET Members
      OBVIOUS
    <3> QED BY <1>1, <1>6, <2>2, <2>4, <2>5, <3>1, SumOfListing, SMTT(30)
  <2> QED BY <2>3, <2>6, <2>7
<1>14. QED
  BY <1>10, <1>11, <1>12, <1>13 DEF SummaryIsOfStandings, r

-----------------------------------------------------------------------------
LEMMA OrderFunctions ==
  ASSUME NEW n \in Nat
  PROVE  SetToSeqs(1..n) = {f \in [1..n -> 1..n] : \A i, j \in 1..n : i # j => f[i] # f[j]}
<1>1. Cardinality(1..n) = n
  <2>1. 1 \in Int /\ n \in Int
    OBVIOUS
  <2>2. Cardinality(1..n) = IF 1 > n THEN 0 ELSE n - 1 + 1
    BY <2>1, FS_Interval
  <2> QED BY <2>2
<1>2. QED
  BY <1>1 DEF SetToSeqs

(* An order of a list: p says which place of the list each place shows.    *)
Shows(q, es, p) ==
  /\ p \in [1..Len(es) -> 1..Len(es)]
  /\ \A i, j \in 1..Len(es) : i # j => p[i] # p[j]
  /\ \A k \in 1..Len(es) : \E i \in 1..Len(es) : p[i] = k
  /\ q = [i \in 1..Len(es) |-> es[p[i]]]

LEMMA OrderOf ==
  ASSUME NEW X, NEW es \in Seq(X), NEW q \in Orders(es)
  PROVE  \E p : Shows(q, es, p)
<1> DEFINE n == Len(es)
<1>1. n \in Nat /\ DOMAIN es = 1..n
  OBVIOUS
<1>2. PICK p \in SetToSeqs(1..n) : q = [i \in 1..n |-> es[p[i]]]
  BY <1>1 DEF Orders
<1> HIDE DEF n
<1>3. p \in Seq(1..n) /\ Len(p) = n /\ Lists(p, 1..n)
  BY <1>1, <1>2, Permuted
<1>4. p \in [1..n -> 1..n]
  BY <1>1, <1>3
<1>5. \A k \in 1..n : \E i \in 1..n : p[i] = k
  BY <1>3 DEF Lists
<1>6. \A i, j \in 1..n : i # j => p[i] # p[j]
  BY <1>3 DEF Lists
<1>7. Shows(q, es, p)
  BY <1>2, <1>4, <1>5, <1>6, Zenon DEF Shows, n
<1>8. QED
  BY <1>7

LEMMA OrdersOK ==
  ASSUME NEW X, NEW es \in Seq(X)
  PROVE  /\ es \in Orders(es)
         /\ \A q \in Orders(es) : q \in Seq(X) /\ Len(q) = Len(es) /\ DOMAIN q = 1..Len(es)
<1> DEFINE n == Len(es)
           id == [i \in 1..n |-> i]
<1>1. n \in Nat /\ DOMAIN es = 1..n /\ es \in [1..n -> X] /\ \A i \in 1..n : es[i] \in X
  OBVIOUS
<1> HIDE DEF n
<1>2. id \in SetToSeqs(1..n)
  BY <1>1, OrderFunctions
<1>3. es = [i \in 1..n |-> es[id[i]]]
  BY <1>1
<1> HIDE DEF id
<1>4. es \in Orders(es)
  BY <1>1, <1>2, <1>3 DEF Orders
<1>5. ASSUME NEW q \in Orders(es) PROVE q \in Seq(X) /\ Len(q) = n /\ DOMAIN q = 1..n
  <2>1. PICK p : Shows(q, es, p)
    BY OrderOf
  <2>2. q \in [1..n -> X]
    BY <1>1, <2>1 DEF Shows, n
  <2> QED BY <1>1, <2>2
<1>6. QED
  BY <1>4, <1>5 DEF n

LEMMA SwappedOrder ==
  ASSUME NEW X, NEW es \in Seq(X), NEW q \in Orders(es),
         NEW i \in 1..Len(es), NEW j \in 1..Len(es)
  PROVE  Swapped(q, i, j) \in Orders(es)
<1> DEFINE n == Len(es)
<1>1. n \in Nat /\ DOMAIN es = 1..n
  OBVIOUS
<1>2. PICK p : Shows(q, es, p)
  BY OrderOf
<1> HIDE DEF n
<1>3. /\ i \in 1..n /\ j \in 1..n /\ p \in [1..n -> 1..n]
      /\ \A x, y \in 1..n : x # y => p[x] # p[y]
      /\ q = [x \in 1..n |-> es[p[x]]]
  BY <1>2 DEF Shows, n
<1> DEFINE r == [p EXCEPT ![i] = p[j], ![j] = p[i]]
<1>4. /\ r \in [1..n -> 1..n]
      /\ \A x \in 1..n : r[x] = IF x = j THEN p[i] ELSE IF x = i THEN p[j] ELSE p[x]
  BY <1>3
<1> HIDE DEF r
<1>5. \A x, y \in 1..n : x # y => r[x] # r[y]
  BY <1>3, <1>4
<1>6. r \in SetToSeqs(1..n)
  BY <1>1, <1>4, <1>5, OrderFunctions
<1>7. [q EXCEPT ![i] = q[j], ![j] = q[i]] = [x \in 1..n |-> es[r[x]]]
  <2> DEFINE w == [q EXCEPT ![i] = q[j], ![j] = q[i]]
  <2>1. q[i] = es[p[i]] /\ q[j] = es[p[j]] /\ \A x \in 1..n : q[x] = es[p[x]]
    BY <1>3
  <2>2. w = [x \in 1..n |-> IF x = j THEN q[i] ELSE IF x = i THEN q[j] ELSE q[x]]
    BY <1>3
  <2>3. \A x \in 1..n : (IF x = j THEN q[i] ELSE IF x = i THEN q[j] ELSE q[x]) = es[r[x]]
    BY <1>3, <1>4, <2>1
  <2> HIDE DEF w
  <2>4. w = [x \in 1..n |-> es[r[x]]]
    BY <2>2, <2>3
  <2> QED BY <2>4 DEF w
<1>8. [q EXCEPT ![i] = q[j], ![j] = q[i]] \in Orders(es)
  <2>1. [x \in 1..n |-> es[r[x]]] \in Orders(es)
    BY <1>1, <1>6 DEF Orders
  <2> QED BY <1>7, <2>1, Zenon
<1>9. QED
  BY <1>8 DEF Swapped

LEMMA AfterOK ==
  ASSUME NEW n \in Nat, NEW i \in 0..n
  PROVE  /\ After(i, n) \in Seq(Nat) /\ Len(After(i, n)) = n - i
         /\ DOMAIN After(i, n) = 1..(n - i)
         /\ \A d \in 1..(n - i) : After(i, n)[d] = i + d
<1>1. n - i \in Nat /\ \A d \in 1..(n - i) : i + d \in Nat
  OBVIOUS
<1>2. After(i, n) \in [1..(n - i) -> Nat]
  BY <1>1 DEF After
<1>3. QED
  BY <1>1, <1>2 DEF After

(* The inner loop of the report's sort (report.go 105-109).                *)
LEMMA PlaceSteps ==
  ASSUME NEW X, NEW es \in Seq(X), NEW q \in Orders(es), NEW i \in 1..Len(es)
  PROVE  \E h \in [0..(Len(es) - i) -> Orders(es)] :
           /\ h[0] = q /\ Place(q, i) = h[Len(es) - i]
           /\ \A d \in 1..(Len(es) - i) : h[d] = Swapped(h[d - 1], i, i + d)
<1> DEFINE n == Len(es) - i
           later == After(i, Len(es))
           T == Orders(es)
           Is(f) == f = [u \in SUBSET (1..n) |->
                           IF u = {} THEN q ELSE Swapped(f[u \ {Max(u)}], i, later[Max(u)])]
           G == [x \in T \X (1..n) |-> Swapped(x[1], i, later[x[2]])]
           f == CHOOSE g : Is(g)
<1>1. n \in Nat /\ \A d \in 1..n : i + d \in 1..Len(es)
  OBVIOUS
<1>2. DOMAIN later = 1..n /\ \A d \in 1..n : later[d] = i + d
  <2>1. Len(es) \in Nat /\ i \in 0..Len(es)
    OBVIOUS
  <2> HIDE DEF later
  <2> QED BY <2>1, AfterOK DEF later
<1> HIDE DEF later, n
<1>3. /\ G \in [T \X (1..n) -> T] /\ q \in T
      /\ \A x \in T, d \in 1..n : G[<<x, d>>] = Swapped(x, i, later[d])
  <2>1. \A x \in T, d \in 1..n : Swapped(x, i, later[d]) \in T
    BY <1>1, <1>2, SwappedOrder
  <2> HIDE DEF T
  <2>2. G \in [T \X (1..n) -> T]
    BY <2>1
  <2> QED BY <2>2 DEF T
<1>4. \A u \in SUBSET (1..n) : u # {} => Max(u) \in 1..n
  BY <1>1, MaxOf
<1> HIDE DEF G, T
<1>5. Place(q, i) = f[1..n]
  <2>1. Len(q) = Len(es)
    BY OrdersOK
  <2> QED BY <1>2, <2>1 DEF Place, FoldLeft, MapThenFoldSet, later
<1>6. Is(f)
  <2>1. q \in T /\ G \in [T \X (1..n) -> T]
    BY <1>3
  <2>2. PICK g : IsFold(g, n, T, q, G)
    BY <1>1, <2>1, FoldExists, Zenon
  <2>3. /\ g \in [SUBSET (1..n) -> T]
        /\ \A u \in SUBSET (1..n) :
             g[u] = IF u = {} THEN q ELSE G[<<g[u \ {Max(u)}], Max(u)>>]
    BY <2>2 DEF IsFold
  <2>4. \A u \in SUBSET (1..n) : u # {} => g[u] = Swapped(g[u \ {Max(u)}], i, later[Max(u)])
    BY <1>3, <1>4, <2>3
  <2>5. Is(g)
    BY <2>3, <2>4
  <2> HIDE DEF Is
  <2> QED BY <2>5
<1>7. GoesOn(f, n, T, q, G)
  <2> HIDE DEF f
  <2> QED BY <1>3, <1>4, <1>6 DEF GoesOn
<1> HIDE DEF f
<1>8. PICK h : IsAlong(h, f, n, T, q, G)
  <2>1. q \in T /\ G \in [T \X (1..n) -> T]
    BY <1>3
  <2> QED BY <1>1, <2>1, <1>7, FoldValues, Zenon
<1>9. \A d \in 1..n : h[d] = Swapped(h[d - 1], i, i + d)
  <2> SUFFICES ASSUME NEW d \in 1..n PROVE h[d] = Swapped(h[d - 1], i, i + d)
    OBVIOUS
  <2>1. d - 1 \in 0..n
    BY <1>1
  <2>2. h[d - 1] \in T /\ h[d] = G[<<h[d - 1], d>>]
    BY <1>8, <2>1 DEF IsAlong
  <2>3. h[d] = Swapped(h[d - 1], i, later[d])
    BY <1>3, <2>2
  <2> QED BY <1>2, <2>3
<1>10. QED
  BY <1>5, <1>8, <1>9 DEF n, T, IsAlong

(* The first k places show the best, best first.                           *)
Ranked(q, k) == \A x \in 1..k, y \in 1..Len(q) : x <= y => q[y].rr <= q[x].rr

Improves(r, q, i, j) ==
  /\ \A x \in 1..Len(q) : x \notin {i, j} => r[x] = q[x]
  /\ r[j].rr <= r[i].rr /\ q[i].rr <= r[i].rr
  /\ Ranked(r, i - 1)

LEMMA SwappedOK ==
  ASSUME NEW X, \A e \in X : e.rr \in Int, NEW q \in Seq(X),
         NEW i \in 1..Len(q), NEW j \in 1..Len(q), i < j, Ranked(q, i - 1),
         NEW r, r = Swapped(q, i, j), Len(r) = Len(q)
  PROVE  Improves(r, q, i, j)
<1> DEFINE n == Len(q)
<1>1. n \in Nat /\ q \in [1..n -> X] /\ \A x \in 1..n : q[x] \in X /\ q[x].rr \in Int
  OBVIOUS
<1> HIDE DEF n
<1>2. i \in 1..n /\ j \in 1..n
  BY DEF n
<1>3. /\ \A x \in 1..n : x \notin {i, j} => r[x] = q[x]
      /\ \/ r[i] = q[i] /\ r[j] = q[j] /\ q[j].rr <= q[i].rr
         \/ r[i] = q[j] /\ r[j] = q[i] /\ q[j].rr > q[i].rr
  <2>1. CASE q[j].rr > q[i].rr
    <3>1. r = [q EXCEPT ![i] = q[j], ![j] = q[i]]
      BY <2>1 DEF Swapped
    <3> QED BY <1>1, <1>2, <2>1, <3>1
  <2>2. CASE ~(q[j].rr > q[i].rr)
    <3>1. r = q
      BY <2>2 DEF Swapped
    <3> QED BY <1>1, <1>2, <2>2, <3>1
  <2> QED BY <2>1, <2>2
<1>4. r[j].rr <= r[i].rr /\ q[i].rr <= r[i].rr
  BY <1>1, <1>2, <1>3
<1>5. ASSUME NEW x \in 1..(i - 1), NEW y \in 1..n, x <= y PROVE r[y].rr <= r[x].rr
  <2>1. x \in 1..n /\ x \notin {i, j} /\ x <= i /\ x <= j
    BY <1>1, <1>2
  <2>2. \A z \in 1..n : x <= z => q[z].rr <= q[x].rr
    BY DEF Ranked, n
  <2>3. r[x] = q[x]
    BY <1>3, <2>1
  <2>4. r[y] \in {q[y], q[i], q[j]}
    BY <1>3
  <2> QED BY <1>2, <1>5, <2>1, <2>2, <2>3, <2>4
<1>6. QED
  BY <1>3, <1>4, <1>5 DEF Improves, Ranked, n

(* One place is filled (report.go 104-110).                                *)
LEMMA PlaceOK ==
  ASSUME NEW X, \A e \in X : e.rr \in Int, NEW es \in Seq(X), NEW q \in Orders(es),
         NEW i \in 1..Len(es), Ranked(q, i - 1)
  PROVE  /\ Place(q, i) \in Orders(es) /\ Ranked(Place(q, i), i)
         /\ \A x \in 1..(i - 1) : Place(q, i)[x] = q[x]
<1> DEFINE n == Len(es)
           m == Len(es) - i
<1>1. PICK h \in [0..m -> Orders(es)] :
        /\ h[0] = q /\ Place(q, i) = h[m]
        /\ \A d \in 1..m : h[d] = Swapped(h[d - 1], i, i + d)
  BY PlaceSteps, SMTT(30)
<1>2. n \in Nat /\ m \in Nat /\ i \in 1..n /\ n = m + i /\ \A d \in 1..m : i + d \in 1..n /\ i < i + d
  OBVIOUS
<1>3. \A d \in 0..m : h[d] \in Orders(es) /\ h[d] \in Seq(X) /\ Len(h[d]) = n
  BY OrdersOK
<1> HIDE DEF n, m
<1> DEFINE Best(r, d) == \A y \in i..(i + d) : r[y].rr <= r[i].rr
           Same(r) == \A x \in 1..(i - 1) : r[x] = q[x]
           R == {d \in 0..m : Best(h[d], d) /\ Same(h[d]) /\ Ranked(h[d], i - 1)}
<1>4. 0 \in R
  <2>1. 0 \in 0..m /\ i..(i + 0) = {i} /\ q[i].rr \in Int
    <3>1. q \in Seq(X) /\ Len(q) = n
      BY <1>1, <1>2, <1>3
    <3> QED BY <1>2, <3>1
  <2> QED BY <1>1, <2>1
<1>5. ASSUME NEW d \in 1..m, d - 1 \in R PROVE d \in R
  <2> DEFINE p == h[d - 1]
             r == h[d]
             j == i + d
  <2>1. /\ d - 1 \in 0..m /\ d \in 0..m /\ j \in 1..n /\ i < j /\ i \in 1..n
        /\ \A y \in i..j : y \in i..(i + (d - 1)) \/ y = j
        /\ \A x \in 1..(i - 1) : x \in 1..n /\ x \notin {i, j}
        /\ \A y \in i..(i + (d - 1)) : y \in 1..n /\ y # j
    <3>1. d - 1 \in 0..m /\ d \in 0..m /\ j \in 1..n /\ i < j /\ i \in 1..n /\ j <= n
      BY <1>2
    <3>2. \A y \in i..j : y \in i..(i + (d - 1)) \/ y = j
      BY <1>2
    <3>3. \A x \in 1..(i - 1) : x \in 1..n /\ x \notin {i, j}
      BY <1>2, <3>1
    <3>4. \A y \in i..(i + (d - 1)) : y \in 1..n /\ y # j
      BY <1>2, <3>1
    <3> HIDE DEF j
    <3> QED BY <3>1, <3>2, <3>3, <3>4
  <2>2. /\ p \in Seq(X) /\ Len(p) = n /\ r \in Seq(X) /\ Len(r) = n
        /\ r = Swapped(p, i, j)
    BY <1>1, <1>3, <2>1
  <2>3. Best(p, d - 1) /\ Same(p) /\ Ranked(p, i - 1)
    BY <1>5
  <2> HIDE DEF p, r, j
  <2>4. /\ \A x \in 1..n : x \notin {i, j} => r[x] = p[x]
        /\ r[j].rr <= r[i].rr /\ p[i].rr <= r[i].rr
        /\ Ranked(r, i - 1)
    <3>1. i \in 1..Len(p) /\ j \in 1..Len(p) /\ Len(r) = Len(p) /\ i < j
      BY <2>1, <2>2
    <3>2. Improves(r, p, i, j)
      BY <2>2, <2>3, <3>1, SwappedOK
    <3> QED BY <2>2, <3>2 DEF Improves
  <2>5. Same(r)
    BY <2>1, <2>3, <2>4
  <2>6. \A y \in i..(i + (d - 1)) : r[y].rr <= r[i].rr
    <3> SUFFICES ASSUME NEW y \in i..(i + (d - 1)) PROVE r[y].rr <= r[i].rr
      OBVIOUS
    <3>1. /\ p[y].rr \in Int /\ p[i].rr \in Int /\ r[i].rr \in Int
      BY <2>1, <2>2
    <3>2. CASE y = i
      BY <3>1, <3>2
    <3>3. CASE y # i
      <4>1. r[y] = p[y] /\ p[y].rr <= p[i].rr /\ p[i].rr <= r[i].rr
        BY <2>1, <2>3, <2>4, <3>3
      <4> QED BY <3>1, <4>1
    <3> QED BY <3>2, <3>3
  <2>7. Best(r, d)
    BY <2>1, <2>4, <2>6 DEF j
  <2> HIDE DEF Best, Same
  <2> QED BY <2>1, <2>4, <2>5, <2>7 DEF r
<1>6. \A d \in 0..m : d \in R
  <2> HIDE DEF R
  <2> QED BY <1>2, <1>4, <1>5, UpTo
<1> DEFINE r == h[m]
<1>7. m \in 0..m /\ Best(r, m) /\ Same(r) /\ Ranked(r, i - 1)
  <2>1. m \in 0..m
    BY <1>2
  <2> HIDE DEF Best, Same
  <2> QED BY <1>6, <2>1
<1>8. r \in Orders(es) /\ Len(r) = n /\ r = Place(q, i)
  BY <1>1, <1>3, <1>7
<1> HIDE DEF r
<1>9. ASSUME NEW x \in 1..i, NEW y \in 1..n, x <= y PROVE r[y].rr <= r[x].rr
  <2>1. CASE x = i
    <3>1. y \in i..(i + m)
      BY <1>2, <1>9, <2>1
    <3> QED BY <1>7, <2>1, <3>1
  <2>2. CASE x # i
    <3>1. x \in 1..(i - 1)
      BY <1>2, <2>2
    <3> QED BY <1>7, <1>8, <1>9, <3>1 DEF Ranked
  <2> QED BY <2>1, <2>2
<1>10. Ranked(r, i)
  BY <1>8, <1>9 DEF Ranked
<1>11. QED
  BY <1>7, <1>8, <1>10

LEMMA FirstOK ==
  ASSUME NEW X, NEW s \in Seq(X), NEW n \in Nat, NEW k, k = (IF Len(s) < n THEN Len(s) ELSE n)
  PROVE  /\ k \in 0..Len(s) /\ First(s, n) = [i \in 1..k |-> s[i]]
         /\ Len(First(s, n)) = k /\ DOMAIN First(s, n) = 1..k
<1>1. k \in 0..Len(s) /\ \A i \in 1..k : s[i] \in X
  OBVIOUS
<1>2. First(s, n) = SubSeq(s, 1, k)
  BY DEF First
<1>3. SubSeq(s, 1, k) = [i \in 1..k |-> s[i]]
  BY <1>1
<1>4. QED
  BY <1>1, <1>2, <1>3

(* The outer loop (report.go 104): the first places are filled in turn.    *)
LEMMA TopSteps ==
  ASSUME NEW X, NEW es \in Seq(X), NEW k \in 0..Len(es), NEW ps,
         DOMAIN ps = 1..k, \A i \in 1..k : ps[i] = i
  PROVE  \E h \in [0..k -> Orders(es)] :
           /\ h[0] = es /\ Placed(es, ps) = h[k]
           /\ \A i \in 1..k : h[i] = Place(h[i - 1], i)
<1> DEFINE T == Orders(es)
           Is(f) == f = [u \in SUBSET (1..k) |->
                           IF u = {} THEN es ELSE Place(f[u \ {Max(u)}], ps[Max(u)])]
           G == [x \in T \X (1..k) |-> Place(x[1], ps[x[2]])]
           f == CHOOSE g : Is(g)
<1>1. k \in Nat /\ \A i \in 1..k : i \in 1..Len(es)
  OBVIOUS
<1>2. ASSUME NEW q \in Orders(es), NEW i \in 1..k PROVE Place(q, i) \in Orders(es)
  <2>1. i \in 1..Len(es) /\ Len(es) - i \in 0..(Len(es) - i)
    BY <1>1
  <2>2. PICK h \in [0..(Len(es) - i) -> Orders(es)] : Place(q, i) = h[Len(es) - i]
    BY <2>1, PlaceSteps
  <2> QED BY <2>1, <2>2
<1>3. /\ G \in [T \X (1..k) -> T] /\ es \in T
      /\ \A x \in T, i \in 1..k : G[<<x, i>>] = Place(x, ps[i])
  <2>1. \A x \in T, i \in 1..k : Place(x, ps[i]) \in T
    BY <1>2
  <2>2. es \in T
    BY OrdersOK
  <2> HIDE DEF T
  <2> QED BY <2>1, <2>2
<1>4. \A u \in SUBSET (1..k) : u # {} => Max(u) \in 1..k
  BY <1>1, MaxOf
<1> HIDE DEF G, T
<1>5. Placed(es, ps) = f[1..k]
  BY DEF Placed, FoldLeft, MapThenFoldSet
<1>6. Is(f)
  <2>1. es \in T /\ G \in [T \X (1..k) -> T]
    BY <1>3
  <2>2. PICK g : IsFold(g, k, T, es, G)
    BY <1>1, <2>1, FoldExists, Zenon
  <2>3. /\ g \in [SUBSET (1..k) -> T]
        /\ \A u \in SUBSET (1..k) :
             g[u] = IF u = {} THEN es ELSE G[<<g[u \ {Max(u)}], Max(u)>>]
    BY <2>2 DEF IsFold
  <2>4. \A u \in SUBSET (1..k) : u # {} => g[u] = Place(g[u \ {Max(u)}], ps[Max(u)])
    BY <1>3, <1>4, <2>3
  <2>5. Is(g)
    BY <2>3, <2>4
  <2> HIDE DEF Is
  <2> QED BY <2>5
<1>7. GoesOn(f, k, T, es, G)
  <2> HIDE DEF f
  <2> QED BY <1>3, <1>4, <1>6 DEF GoesOn
<1> HIDE DEF f
<1>8. PICK h : IsAlong(h, f, k, T, es, G)
  <2>1. es \in T /\ G \in [T \X (1..k) -> T]
    BY <1>3
  <2> QED BY <1>1, <2>1, <1>7, FoldValues, Zenon
<1>9. \A i \in 1..k : h[i] = Place(h[i - 1], i)
  <2> SUFFICES ASSUME NEW i \in 1..k PROVE h[i] = Place(h[i - 1], i)
    OBVIOUS
  <2>1. i - 1 \in 0..k
    BY <1>1
  <2>2. h[i - 1] \in T /\ h[i] = G[<<h[i - 1], i>>]
    BY <1>8, <2>1 DEF IsAlong
  <2>3. h[i] = Place(h[i - 1], ps[i])
    BY <1>3, <2>2
  <2> QED BY <2>3
<1>10. QED
  BY <1>5, <1>8, <1>9 DEF T, IsAlong

(* Filled in turn, the first k places show the best of the list.           *)
LEMMA TopRanked ==
  ASSUME NEW X, \A e \in X : e.rr \in Int, NEW es \in Seq(X), NEW k \in 0..Len(es),
         NEW ps, DOMAIN ps = 1..k, \A i \in 1..k : ps[i] = i
  PROVE  Placed(es, ps) \in Orders(es) /\ Ranked(Placed(es, ps), k)
<1>1. PICK h \in [0..k -> Orders(es)] :
        /\ h[0] = es /\ Placed(es, ps) = h[k]
        /\ \A i \in 1..k : h[i] = Place(h[i - 1], i)
  BY TopSteps
<1> DEFINE R == {i \in 0..k : Ranked(h[i], i)}
<1>2. 0 \in R
  BY DEF Ranked
<1>3. ASSUME NEW i \in 1..k, i - 1 \in R PROVE i \in R
  <2>1. i \in 1..Len(es) /\ i - 1 \in 0..k /\ i \in 0..k
    OBVIOUS
  <2>2. h[i - 1] \in Orders(es) /\ Ranked(h[i - 1], i - 1) /\ h[i] = Place(h[i - 1], i)
    BY <1>1, <1>3, <2>1
  <2>3. Ranked(Place(h[i - 1], i), i)
    BY <2>1, <2>2, PlaceOK
  <2> QED BY <2>1, <2>2, <2>3
<1>4. k \in Nat /\ k \in 0..k
  OBVIOUS
<1>5. \A i \in 0..k : i \in R
  <2> HIDE DEF R
  <2> QED BY <1>2, <1>3, <1>4, UpTo
<1>6. QED
  BY <1>1, <1>4, <1>5

(* The others can be ranked behind them.                                   *)
LEMMA RankedOn ==
  ASSUME NEW X, \A e \in X : e.rr \in Int, NEW es \in Seq(X), NEW k \in 0..Len(es),
         NEW q \in Orders(es), Ranked(q, k)
  PROVE  \E r \in Orders(es) : Ranked(r, Len(es)) /\ \A x \in 1..k : r[x] = q[x]
<1> DEFINE n == Len(es)
           R == {i \in 0..n : \E r \in Orders(es) : Ranked(r, i) /\ \A x \in 1..k : r[x] = q[x]}
<1>1. n \in Nat /\ k \in 0..n /\ Len(q) = n
  BY OrdersOK
<1>2. 0 \in R
  BY <1>1 DEF Ranked
<1>3. ASSUME NEW i \in 1..n, i - 1 \in R PROVE i \in R
  <2>0. i \in 0..n
    BY <1>1
  <2>1. CASE i <= k
    <3>1. Ranked(q, i)
      BY <1>1, <2>1 DEF Ranked
    <3> QED BY <2>0, <3>1
  <2>2. CASE i > k
    <3>1. PICK r \in Orders(es) : Ranked(r, i - 1) /\ \A x \in 1..k : r[x] = q[x]
      BY <1>3
    <3>2. /\ Place(r, i) \in Orders(es) /\ Ranked(Place(r, i), i)
          /\ \A x \in 1..(i - 1) : Place(r, i)[x] = r[x]
      BY <3>1, PlaceOK
    <3>3. \A x \in 1..k : x \in 1..(i - 1)
      BY <1>1, <2>2
    <3>4. \A x \in 1..k : Place(r, i)[x] = q[x]
      BY <3>1, <3>2, <3>3
    <3> QED BY <2>0, <3>2, <3>4
  <2> QED BY <1>1, <2>1, <2>2
<1>4. \A i \in 0..n : i \in R
  <2> HIDE DEF R, n
  <2> QED BY <1>1, <1>2, <1>3, UpTo
<1>5. n \in 0..n
  BY <1>1
<1>6. n \in R
  <2> HIDE DEF R, n
  <2> QED BY <1>4, <1>5
<1>7. QED
  BY <1>6

(* report.go 100-113: the report's own sort and the leaderboard's.         *)
LEMMA TopOfAnyList ==
  ASSUME NEW X, \A e \in X : e.rr \in Int, NEW es \in Seq(X)
  PROVE  \E r \in Sorts(es, MoreRR) : TopPerformers(es) = First(r, TopN)
<1> DEFINE n == Len(es)
           k == IF n < TopN THEN n ELSE TopN
           ps == First(After(0, n), TopN)
           q == Placed(es, ps)
<1>1. n \in Nat /\ TopN \in Nat /\ k \in 0..n
  BY CommunityAssumption
<1>2. DOMAIN ps = 1..k /\ \A i \in 1..k : ps[i] = i
  <2>1. 0 \in 0..n /\ n - 0 = n
    BY <1>1
  <2> HIDE DEF n
  <2>2. /\ After(0, n) \in Seq(Nat) /\ Len(After(0, n)) = n
        /\ \A d \in 1..n : After(0, n)[d] = 0 + d
    BY <1>1, <2>1, AfterOK
  <2>3. ps = [i \in 1..k |-> After(0, n)[i]]
    <3>1. k = IF Len(After(0, n)) < TopN THEN Len(After(0, n)) ELSE TopN
      BY <2>2
    <3> HIDE DEF k
    <3> QED BY <1>1, <2>2, <3>1, FirstOK, SMTT(30)
  <2>4. \A i \in 1..k : i \in 1..n /\ 0 + i = i
    BY <1>1
  <2> QED BY <2>2, <2>3, <2>4
<1> HIDE DEF k, ps
<1>3. q \in Orders(es) /\ Ranked(q, k)
  BY <1>1, <1>2, TopRanked
<1>4. TopPerformers(es) = First(q, TopN)
  BY DEF TopPerformers, ps
<1> HIDE DEF q
<1>5. PICK r \in Orders(es) : Ranked(r, n) /\ \A x \in 1..k : r[x] = q[x]
  BY <1>1, <1>3, RankedOn
<1>6. q \in Seq(X) /\ Len(q) = n /\ r \in Seq(X) /\ Len(r) = n
  BY <1>3, OrdersOK
<1>7. First(q, TopN) = [i \in 1..k |-> q[i]] /\ First(r, TopN) = [i \in 1..k |-> r[i]]
  BY <1>1, <1>6, FirstOK DEF k
<1>8. First(q, TopN) = First(r, TopN)
  BY <1>5, <1>7
<1>9. r \in Sorts(es, MoreRR)
  <2>1. DOMAIN es = 1..n
    OBVIOUS
  <2>2. ASSUME NEW i \in 1..n, NEW j \in 1..n, i < j PROVE ~MoreRR(r[j], r[i])
    <3>1. r[j].rr <= r[i].rr
      BY <1>1, <1>5, <1>6, <2>2 DEF Ranked
    <3>2. r[i].rr \in Int /\ r[j].rr \in Int
      BY <1>6
    <3> QED BY <3>1, <3>2 DEF MoreRR
  <2> QED BY <2>1, <2>2 DEF Sorts
<1>10. QED
  BY <1>4, <1>8, <1>9

-----------------------------------------------------------------------------
(* Entries whose win rate is that of their wins and losses.                *)
Rated(X) == \A e \in X : /\ e.wins \in Nat /\ e.losses \in Nat
                         /\ e.winRate = <<e.wins, e.wins + e.losses>>

(* If no member's win rate is above w of c, nor is that of all together.   *)
LEMMA NoneAbove ==
  ASSUME NEW w \in Nat, NEW c \in Nat, NEW a \in Nat, NEW b \in Nat, NEW x \in Nat, NEW y \in Nat,
         a * c <= w * b, x * c <= w * y
  PROVE  (a + x) * c <= w * (b + y)
<1>1. (a + x) * c = a * c + x * c /\ w * (b + y) = w * b + w * y
  OBVIOUS
<1>2. a * c \in Nat /\ x * c \in Nat /\ w * b \in Nat /\ w * y \in Nat
  OBVIOUS
<1>3. \A k, l, m, o \in Nat : k <= m /\ l <= o => k + l <= m + o
  OBVIOUS
<1>4. QED
  BY <1>1, <1>2, <1>3

LEMMA TogetherNoHigher ==
  ASSUME NEW X, Rated(X), NEW es \in Seq(X), NEW best \in X,
         \A i \in 1..Len(es) : ~HigherRate(es[i], best)
  PROVE  ~Higher(<<SumOf(es, "wins"), SumOf(es, "wins") + SumOf(es, "losses")>>, best.winRate)
<1> DEFINE n == Len(es)
           ws == [i \in DOMAIN es |-> es[i].wins]
           ls == [i \in DOMAIN es |-> es[i].losses]
           w == best.wins
           c == best.wins + best.losses
<1>1. /\ n \in Nat /\ DOMAIN es = 1..n
      /\ \A i \in 1..n : /\ es[i].wins \in Nat /\ es[i].losses \in Nat
                         /\ es[i].winRate = <<es[i].wins, es[i].wins + es[i].losses>>
  BY DEF Rated
<1>2. w \in Nat /\ c \in Nat /\ w <= c /\ best.winRate = <<w, c>>
  BY DEF Rated
<1>3. /\ ws \in Seq(Int) /\ Len(ws) = n /\ ls \in Seq(Int) /\ Len(ls) = n
      /\ \A i \in 1..n : ws[i] = es[i].wins /\ ls[i] = es[i].losses
  BY <1>1
<1>4. SumOf(es, "wins") = SumUp(ws) /\ SumOf(es, "losses") = SumUp(ls)
  BY DEF SumOf
<1> HIDE DEF n, ws, ls
<1>5. PICK g \in [0..n -> Int] :
        g[0] = 0 /\ SumUp(ws) = g[n] /\ \A k \in 1..n : g[k] = g[k - 1] + ws[k]
  <2>1. ws \in Seq(Int) /\ Len(ws) = n
    BY <1>3
  <2>2. PICK f \in [0..Len(ws) -> Int] :
          /\ f[0] = 0 /\ SumUp(ws) = f[Len(ws)]
          /\ \A k \in 1..Len(ws) : f[k] = f[k - 1] + ws[k]
    BY <2>1, SumSteps
  <2> QED BY <2>1, <2>2
<1>6. PICK h \in [0..n -> Int] :
        h[0] = 0 /\ SumUp(ls) = h[n] /\ \A k \in 1..n : h[k] = h[k - 1] + ls[k]
  <2>1. ls \in Seq(Int) /\ Len(ls) = n
    BY <1>3
  <2>2. PICK f \in [0..Len(ls) -> Int] :
          /\ f[0] = 0 /\ SumUp(ls) = f[Len(ls)]
          /\ \A k \in 1..Len(ls) : f[k] = f[k - 1] + ls[k]
    BY <2>1, SumSteps
  <2> QED BY <2>1, <2>2
<1>7. ASSUME NEW i \in 1..n
      PROVE  /\ c = 0 => es[i].wins = 0
             /\ es[i].wins * c <= w * (es[i].wins + es[i].losses)
  <2> DEFINE x == es[i].wins
             y == es[i].wins + es[i].losses
  <2>1. x \in Nat /\ y \in Nat /\ es[i].winRate = <<x, y>>
    <3>1. /\ es[i].wins \in Nat /\ es[i].losses \in Nat
          /\ es[i].winRate = <<es[i].wins, es[i].wins + es[i].losses>>
      BY <1>1, Zenon
    <3> QED BY <3>1
  <2>2. ~(IF c = 0 THEN x > 0 ELSE x * c > w * y)
    <3>1. ~Higher(es[i].winRate, best.winRate)
      BY DEF HigherRate, n
    <3> HIDE DEF w, c, x, y
    <3> QED BY <1>2, <2>1, <3>1 DEF Higher
  <2> HIDE DEF w, c, x, y
  <2>3. CASE c = 0
    <3>1. x = 0 /\ x * c = 0 /\ w = 0 /\ w * y = 0
      BY <1>2, <2>1, <2>2, <2>3
    <3> QED BY <3>1 DEF x, y
  <2>4. CASE c # 0
    <3>1. x * c \in Nat /\ w * y \in Nat /\ ~(x * c > w * y)
      BY <1>2, <2>1, <2>2, <2>4
    <3>2. x * c <= w * y
      BY <3>1
    <3> QED BY <2>4, <3>2 DEF x, y
  <2> QED BY <2>3, <2>4
<1> HIDE DEF w, c
<1> DEFINE R == {k \in 0..n : /\ g[k] \in Nat /\ h[k] \in Nat
                              /\ c = 0 => g[k] = 0
                              /\ g[k] * c <= w * (g[k] + h[k])}
<1>8. 0 \in R
  <2>1. 0 \in 0..n /\ 0 * c = 0 /\ w * (0 + 0) = 0
    BY <1>1, <1>2
  <2> QED BY <1>5, <1>6, <2>1
<1>9. ASSUME NEW k \in 1..n, k - 1 \in R PROVE k \in R
  <2> DEFINE a == g[k - 1]
             d == h[k - 1]
             x == es[k].wins
             y == es[k].losses
  <2>1. k \in 0..n /\ g[k] = a + x /\ h[k] = d + y
    <3>1. k \in 0..n
      BY <1>1
    <3>2. g[k] = a + ws[k] /\ ws[k] = x
      BY <1>3, <1>5
    <3>3. h[k] = d + ls[k] /\ ls[k] = y
      BY <1>3, <1>6
    <3> QED BY <3>1, <3>2, <3>3
  <2>2. a \in Nat /\ d \in Nat /\ (c = 0 => a = 0) /\ a * c <= w * (a + d)
    BY <1>9
  <2>3. x \in Nat /\ y \in Nat /\ (c = 0 => x = 0) /\ x * c <= w * (x + y)
    BY <1>1, <1>7
  <2> HIDE DEF R, a, d, x, y
  <2>4. (a + x) * c <= w * ((a + d) + (x + y))
    <3>1. a + d \in Nat /\ x + y \in Nat
      BY <2>2, <2>3
    <3> QED BY <1>2, <2>2, <2>3, <3>1, NoneAbove
  <2>5. (a + d) + (x + y) = (a + x) + (d + y)
    BY <2>2, <2>3
  <2>6. g[k] * c <= w * (g[k] + h[k])
    BY <2>1, <2>4, <2>5
  <2>7. g[k] \in Nat /\ h[k] \in Nat /\ (c = 0 => g[k] = 0)
    BY <2>1, <2>2, <2>3
  <2> QED BY <2>1, <2>6, <2>7 DEF R
<1>10. \A k \in 0..n : k \in R
  <2> HIDE DEF R
  <2> QED BY <1>1, <1>8, <1>9, UpTo
<1>11. n \in R
  <2> HIDE DEF R
  <2> QED BY <1>1, <1>10
<1>12. ~Higher(<<g[n], g[n] + h[n]>>, <<w, c>>)
  <2>1. /\ g[n] \in Nat /\ h[n] \in Nat /\ (c = 0 => g[n] = 0)
        /\ g[n] * c <= w * (g[n] + h[n])
    BY <1>11
  <2>2. g[n] * c \in Nat /\ w * (g[n] + h[n]) \in Nat
    BY <1>2, <2>1, SMTT(30)
  <2>3. ~(g[n] * c > w * (g[n] + h[n]))
    BY <2>1, <2>2
  <2>4. ~(IF c = 0 THEN g[n] > 0 ELSE g[n] * c > w * (g[n] + h[n]))
    BY <2>1, <2>3
  <2> QED BY <2>4 DEF Higher
<1>13. QED
  BY <1>2, <1>4, <1>5, <1>6, <1>12

WeekEntries == {WeekEntry[m] : m \in Members}

LEMMA WeekEntriesOK ==
  ASSUME CommunityIInv
  PROVE  /\ \A e \in WeekEntries : e.rr \in Int
         /\ Rated(WeekEntries)
         /\ \A ms \in Seq(Members) : /\ EntriesOf(WeekEntry, ms) \in Seq(WeekEntries)
                                     /\ Len(EntriesOf(WeekEntry, ms)) = Len(ms)
<1>1. ASSUME NEW m \in Members
      PROVE  /\ WeekEntry[m].rr \in Int /\ WeekEntry[m].wins \in Nat /\ WeekEntry[m].losses \in Nat
             /\ WeekEntry[m].winRate = <<WeekEntry[m].wins, WeekEntry[m].wins + WeekEntry[m].losses>>
  BY WeekOK DEF EntryOf
<1>2. (\A e \in WeekEntries : e.rr \in Int) /\ Rated(WeekEntries)
  BY <1>1 DEF WeekEntries, Rated
<1>3. ASSUME NEW ms \in Seq(Members)
      PROVE  /\ EntriesOf(WeekEntry, ms) \in Seq(WeekEntries)
             /\ Len(EntriesOf(WeekEntry, ms)) = Len(ms)
  <2>1. EntriesOf(WeekEntry, ms) \in [1..Len(ms) -> WeekEntries]
    BY DEF EntriesOf, WeekEntries
  <2> QED BY <2>1
<1>4. QED
  BY <1>2, <1>3

(* leaderboard.go 57-75, report.go 100-113: any members that can be read.  *)
LEMMA TopAgrees ==
  ASSUME CommunityIInv, NEW S \in SUBSET Members, NEW listed \in SetToSeqs(S)
  PROVE  TopIsOfLeaderboard(WeekEntry, listed)
<1> DEFINE k == Kept(listed, Traded)
           es == EntriesOf(WeekEntry, k)
<1>1. listed \in Seq(Members)
  <2>1. Cardinality(S) \in Nat
    BY CommunityAssumption, FS_Subset, FS_CardinalityType
  <2>2. listed \in [1..Cardinality(S) -> S]
    BY DEF SetToSeqs
  <2>3. listed \in Seq(S)
    BY <2>1, <2>2
  <2> QED BY <2>3
<1>2. es \in Seq(WeekEntries)
  BY <1>1, KeptOfList, WeekEntriesOK
<1>3. /\ {m \in Members : WeekEntry[m].total > 0} = Traded
      /\ {m \in Members : WeekEntry[m].total >= 1} = Traded
  BY TradedAlike
<1>4. GenerateWeeklySummary(WeekEntry, listed).top = TopPerformers(es)
  BY <1>3 DEF GenerateWeeklySummary
<1>5. GetLeaderboard("rr", WeekEntry, listed, TopN, 1) = {First(q, TopN) : q \in Sorts(es, MoreRR)}
  BY <1>3 DEF GetLeaderboard
<1> HIDE DEF es, k
<1>6. PICK r \in Sorts(es, MoreRR) : TopPerformers(es) = First(r, TopN)
  BY <1>2, WeekEntriesOK, TopOfAnyList
<1>7. QED
  BY <1>4, <1>5, <1>6 DEF TopIsOfLeaderboard

(* report.go 87-89, leaderboard.go 68-75: the rate of all and the best.    *)
LEMMA BestAgrees ==
  ASSUME CommunityIInv
  PROVE  BestIsNoWorse(GenerateWeeklySummary(WeekEntry, All), WeekEntry)
<1> DEFINE k == Kept(All, Traded)
           es == EntriesOf(WeekEntry, k)
           n == Len(es)
           r == GenerateWeeklySummary(WeekEntry, All)
<1>1. k \in Seq(Members)
  <2>1. All \in Seq(Members)
    BY CommunityAssumption, SomeListing DEF All, Lists
  <2> QED BY <2>1, KeptOfList
<1> HIDE DEF k
<1>2. es \in Seq(WeekEntries) /\ n \in Nat
  BY <1>1, WeekEntriesOK
<1>3. /\ {m \in Members : WeekEntry[m].total > 0} = Traded
      /\ {m \in Members : WeekEntry[m].total >= 1} = Traded
  BY TradedAlike
<1>4. r.communityWR = <<SumOf(es, "wins"), SumOf(es, "wins") + SumOf(es, "losses")>>
  BY <1>3 DEF GenerateWeeklySummary, k
<1>5. GetLeaderboard("winrate", WeekEntry, All, 1, 1) = {First(q, 1) : q \in Sorts(es, HigherRate)}
  BY <1>3 DEF GetLeaderboard, k
<1> HIDE DEF es, n, r
<1>6. ASSUME NEW q \in Sorts(es, HigherRate), First(q, 1) # <<>>
      PROVE  ~Higher(r.communityWR, First(q, 1)[1].winRate)
  <2>1. /\ q \in Orders(es)
        /\ \A i, j \in DOMAIN es : i < j => ~HigherRate(q[j], q[i])
    BY DEF Sorts
  <2>2. q \in Seq(WeekEntries) /\ Len(q) = n /\ DOMAIN es = 1..n
    BY <1>2, <2>1, OrdersOK DEF n
  <2>3. n >= 1 /\ First(q, 1)[1] = q[1] /\ q[1] \in WeekEntries
    <3> DEFINE l == IF n < 1 THEN n ELSE 1
    <3>1. First(q, 1) = [i \in 1..l |-> q[i]] /\ Len(First(q, 1)) = l
      BY <2>2, FirstOK
    <3>2. CASE n = 0
      <4>1. First(q, 1) = <<>>
        BY <3>1, <3>2
      <4> QED BY <1>6, <4>1
    <3>3. CASE n >= 1
      BY <2>2, <3>1, <3>3
    <3> QED BY <1>2, <3>2, <3>3
  <2>4. ASSUME NEW i \in 1..n PROVE ~HigherRate(q[i], q[1])
    <3>1. CASE i = 1
      <4> DEFINE e == q[1]
      <4>1. /\ e.wins \in Nat /\ e.losses \in Nat
            /\ e.winRate = <<e.wins, e.wins + e.losses>>
        BY <2>3, WeekEntriesOK DEF Rated
      <4> DEFINE w == e.winRate
      <4>2. w[1] \in Nat /\ w[2] \in Nat /\ (w[2] = 0 => w[1] = 0)
        BY <4>1
      <4>3. ~HigherRate(e, e)
        <5>1. w[1] * w[2] \in Nat /\ ~(w[1] * w[2] > w[1] * w[2])
          BY <4>2
        <5>2. ~(IF w[2] = 0 THEN w[1] > 0 ELSE w[1] * w[2] > w[1] * w[2])
          BY <4>2, <5>1
        <5> QED BY <5>2 DEF HigherRate, Higher
      <4> QED BY <3>1, <4>3 DEF e
    <3>2. CASE i # 1
      BY <1>2, <2>1, <2>2, <2>3, <3>2
    <3> QED BY <3>1, <3>2
  <2>5. \A i \in 1..Len(es) : ~HigherRate(es[i], q[1])
    <3>1. PICK p : Shows(q, es, p)
      BY <1>2, <2>1, OrderOf
    <3>2. /\ p \in [1..n -> 1..n] /\ \A i \in 1..n : \E j \in 1..n : p[j] = i
          /\ \A i \in 1..n : q[i] = es[p[i]]
      BY <3>1 DEF Shows, n
    <3>3. ASSUME NEW i \in 1..n PROVE ~HigherRate(es[i], q[1])
      <4>1. PICK j \in 1..n : p[j] = i
        BY <3>2
      <4>2. q[j] = es[i]
        BY <3>2, <4>1
      <4> QED BY <2>4, <4>2
    <3> QED BY <3>3 DEF n
  <2>6. ~Higher(<<SumOf(es, "wins"), SumOf(es, "wins") + SumOf(es, "losses")>>, q[1].winRate)
    BY <1>2, <2>3, <2>5, WeekEntriesOK, TogetherNoHigher
  <2> QED BY <1>4, <2>3, <2>6
<1>7. QED
  BY <1>5, <1>6 DEF BestIsNoWorse, r

(* report.go 88-113, leaderboard.go 57-75, challenge.go 83-155: for any    *)
(* members and trades, the report's partial sort shows what the            *)
(* leaderboard's sort may, the report counts and sums what the standings   *)
(* of the challenge do, and the members together win no more often than    *)
(* the best of them.                                                       *)
THEOREM RankingsAlwaysAgree == CommunitySpec => []RankingsAgree
<1>1. CommunityIInv => RankingsAgree
  BY TopAgrees, SummaryFollowsStandings, BestAgrees DEF RankingsAgree
<1>2. QED
  BY <1>1, CommunityTypes, PTL

-----------------------------------------------------------------------------
USE GuidedAssumption

(* What an answer does to a session: it stays one, and is neither          *)
(* submitted nor expired by it (handler.go 434-577).                       *)
LEMMA PressButtonOK ==
  ASSUME NEW s \in Session, NEW b \in Buttons \ {"yes", "no"}
  PROVE  /\ PressButton(s, b) \in Session
         /\ PressButton(s, b).submitting = s.submitting
  BY DEF PressButton, Ask, Session, Trade, Steps, Buttons

LEMMA SendMessageOK ==
  ASSUME NEW s \in Session, NEW m \in Messages
  PROVE  /\ SendMessage(s, m) \in Session
         /\ SendMessage(s, m).submitting = s.submitting
  BY DEF SendMessage, Ask, Session, Trade, Steps, Messages

(* All handlers but p stay where they are.                                 *)
OnlyMoves(p) ==
  /\ pc' = [q \in Procs |-> pc'[q]] /\ arg' = [q \in Procs |-> arg'[q]]
  /\ \A q \in Procs \ {p} : pc'[q] = pc[q] /\ arg'[q] = arg[q]

LEMMA GotoFacts ==
  ASSUME IInv, NEW p \in Procs, NEW to, Goto(p, to)
  PROVE  /\ OnlyMoves(p) /\ pc'[p] = to
         /\ arg'[p] = IF to = "idle" THEN NoArg ELSE arg[p]
  BY DEF IInv, TypeOK, Goto, OnlyMoves

(* A handler under way has a user, an answer and perhaps a session.        *)
LEMMA HandlerFacts ==
  ASSUME IInv, NEW p \in Procs, pc[p] # "idle"
  PROVE  /\ arg[p].user \in Users /\ arg[p].input \in Answering /\ arg[p].sid \in 0..started
         /\ arg[p].sid # 0 => arg[p].sid \in Sessions
         /\ pc[p] \in {"lock"} \cup Using => arg[p].sid \in Sessions
  BY DEF IInv, TypeOK, HandlerOK, Sessions

LEMMA CountedStays ==
  ASSUME IInv, started' = started, Journaling' \subseteq Journaling
  PROVE  Counted'
<1>1. IsFiniteSet(Journaling) /\ started + Cardinality(Journaling) <= MaxSessions
  BY DEF IInv, Counted
<1>2. IsFiniteSet(Journaling') /\ Cardinality(Journaling') <= Cardinality(Journaling)
  BY <1>1, FS_Subset
<1>3. Cardinality(Journaling) \in Nat /\ Cardinality(Journaling') \in Nat /\ started \in Nat
  BY <1>1, <1>2, FS_CardinalityType DEF IInv, TypeOK
<1>4. QED
  BY <1>1, <1>2, <1>3 DEF Counted

(* A step that counts no new session.                                      *)
LEMMA HandlersStay ==
  ASSUME IInv, NEW p \in Procs, OnlyMoves(p), started' \in Nat, started' >= started, HandlerOK(p)'
  PROVE  \A q \in Procs : HandlerOK(q)'
<1> SUFFICES ASSUME NEW q \in Procs, q # p PROVE HandlerOK(q)'
  OBVIOUS
<1>1. HandlerOK(q) /\ pc'[q] = pc[q] /\ arg'[q] = arg[q] /\ started \in Nat
  BY DEF IInv, TypeOK, OnlyMoves
<1>2. QED
  BY <1>1 DEF HandlerOK

LEMMA StepsTyped ==
  ASSUME IInv, NEW p \in Procs, OnlyMoves(p),
         pc'[p] \in {"idle", "get", "start", "cancel", "lock"} \cup Using
  PROVE  pc' \in [Procs -> {"idle", "get", "start", "cancel", "lock", "apply",
                            "submit", "record", "upload", "reward", "remove"}]
  BY DEF IInv, TypeOK, OnlyMoves, Using

(* A step that brings no handler further with submitting.                  *)
LEMMA ProgressStays ==
  ASSUME IInv, UNCHANGED <<sess, recorded>>, started' \in Nat, started' >= started,
         \A q \in Procs : pc'[q] \in {"record", "upload", "reward", "remove"} =>
                            pc'[q] = pc[q] /\ arg'[q] = arg[q]
  PROVE  Progress'
<1>1. NotStarted'
  BY DEF IInv, TypeOK, Progress, NotStarted, Sessions
<1>2. NotRecorded' /\ Submitted' /\ ToRecord'
  BY DEF IInv, Progress, NotRecorded, Submitted, ToRecord
<1>3. QED
  BY <1>1, <1>2 DEF Progress

(* A handler that uses no session, before and after its step.              *)
LEMMA Bystander ==
  ASSUME IInv, NEW p \in Procs, OnlyMoves(p), pc[p] \notin Using, pc'[p] \notin Using,
         UNCHANGED <<sess, lock, recorded>>, started' \in Nat, started' >= started
  PROVE  /\ UsersOwn' /\ Progress' /\ OwnersMoveOn'
         /\ \A q \in Procs, s \in Sessions : Submits(q, s)' = Submits(q, s)
<1>1. UsersOwn'
  BY DEF IInv, UsersOwn, OnlyMoves
<1>2. OwnersMoveOn'
  <2> SUFFICES ASSUME NEW s \in Sessions, lock[s] # NoProc
               PROVE  /\ arg'[lock[s]].input # "none" /\ arg'[lock[s]].sid = s
                      /\ pc'[lock[s]] \in Using
    BY DEF OwnersMoveOn, Using
  <2>1. lock[s] \in Procs
    BY DEF IInv, TypeOK
  <2>2. arg[lock[s]].input # "none" /\ arg[lock[s]].sid = s /\ pc[lock[s]] \in Using
    BY DEF IInv, OwnersMoveOn, Using
  <2>3. QED
    BY <2>1, <2>2 DEF OnlyMoves
<1>3. Progress'
  BY ProgressStays DEF OnlyMoves, Using
<1>4. \A q \in Procs, s \in Sessions : Submits(q, s)' = Submits(q, s)
  BY DEF Submits, OnlyMoves, Using
<1>5. QED
  BY <1>1, <1>2, <1>3, <1>4

(* Sessions only go from the map, and handlers only end.                   *)
LEMMA OneUserStays ==
  ASSUME IInv, \A u \in Users : active'[u] \in {0, active[u]},
         \A q \in Procs : pc'[q] = "idle" \/ (pc[q] # "idle" /\ arg'[q] = arg[q])
  PROVE  OneUser'
  BY DEF IInv, OneUser

LEMMA NoDeadStays ==
  ASSUME IInv, \A u \in Users : active'[u] \in {0, active[u]},
         \A s \in Sessions : sess'[s].submitting = sess[s].submitting,
         \A q \in Procs, s \in Sessions : Submits(q, s) => Submits(q, s)'
  PROVE  NoDeadSession'
<1> SUFFICES ASSUME NEW u \in Users, active'[u] # 0, sess'[active'[u]].submitting
             PROVE  \E q \in Procs : Submits(q, active[u])'
  BY DEF NoDeadSession
<1>1. active'[u] = active[u] /\ active[u] \in Sessions
  BY DEF IInv, TypeOK, Sessions
<1>2. PICK q \in Procs : Submits(q, active[u])
  BY <1>1 DEF IInv, NoDeadSession
<1>3. QED
  BY <1>1, <1>2 DEF Submits

LEMMA ReceiveKeeps ==
  ASSUME IInv, NEW p \in Procs, NEW u \in Users, NEW i \in Answering, Receive(p, u, i)
  PROVE  IInv'
<1> DEFINE a == [user |-> u, input |-> i, sid |-> 0]
<1>1. /\ OnlyMoves(p) /\ pc[p] = "idle" /\ pc'[p] = "get" /\ arg'[p] = a
      /\ UNCHANGED <<sess, started, active, lock, recorded>>
  BY DEF IInv, TypeOK, Receive, At, OnlyMoves
<1>2. started \in Nat /\ 0 \in 0..started
  BY DEF IInv, TypeOK
<1>3. HandlerOK(p)'
  BY <1>1, <1>2 DEF HandlerOK, Using
<1>4. \A q \in Procs : HandlerOK(q)'
  BY <1>1, <1>2, <1>3, HandlersStay
<1>5. TypeOK'
  <2>1. updates' \in 0..MaxUpdates
    BY DEF IInv, TypeOK, Receive
  <2>2. QED
    BY <2>1, <1>1, StepsTyped DEF IInv, TypeOK
<1>6. Counted'
  <2>1. CASE i = "/journal"
    <3>1. started + Cardinality(Journaling) < MaxSessions
      BY <2>1 DEF Receive, Journaling
    <3>2. Journaling' = Journaling \cup {p} /\ p \notin Journaling
      BY <2>1, <1>1 DEF Journaling, OnlyMoves, IInv, HandlerOK, NoArg
    <3>3. IsFiniteSet(Journaling)
      BY DEF IInv, Counted
    <3>4. IsFiniteSet(Journaling') /\ Cardinality(Journaling') = Cardinality(Journaling) + 1
      BY <3>2, <3>3, FS_AddElement
    <3>5. QED
      BY <3>1, <3>3, <3>4, <1>1, <1>2, FS_CardinalityType DEF Counted
  <2>2. CASE i # "/journal"
    <3>1. Journaling' \subseteq Journaling
      BY <2>2, <1>1 DEF Journaling, OnlyMoves
    <3>2. QED
      BY <3>1, <1>1, CountedStays
  <2>3. QED
    BY <2>1, <2>2
<1>7. /\ UsersOwn' /\ Progress' /\ OwnersMoveOn'
      /\ \A q \in Procs, s \in Sessions : Submits(q, s)' = Submits(q, s)
  BY <1>1, <1>2, Bystander DEF Using
<1>8. OneUser'
  BY <1>1 DEF IInv, OneUser, OnlyMoves
<1>9. NoDeadSession'
  BY <1>1, <1>7, NoDeadStays
<1>10. QED
  BY <1>1, <1>4, <1>5, <1>6, <1>7, <1>8, <1>9 DEF IInv, OnlyMoves

LEMMA GetKeeps == ASSUME IInv, NEW p \in Procs, Get(p) PROVE IInv'
<1> DEFINE s == active[arg[p].user]
           found == s # 0 /\ ~sess[s].expired
<1>1. pc[p] = "get" /\ UNCHANGED <<sess, started, active, lock, updates, recorded>>
  BY DEF Get, At
<1>2. arg[p].user \in Users /\ arg[p].input \in Answering /\ s \in 0..started /\ started \in Nat
  BY <1>1, HandlerFacts DEF IInv, TypeOK
<1>3. OnlyMoves(p) /\ pc'[p] \in {"idle", "start", "cancel", "lock"}
  BY <1>1 DEF Get, Goto, At, IInv, TypeOK, OnlyMoves
<1>4. ASSUME found PROVE HandlerOK(p)' /\ Journaling' \subseteq Journaling /\ OneUser'
  <2>1. /\ pc'[p] = IF arg[p].input = "no" THEN "cancel" ELSE "lock"
        /\ arg' = [arg EXCEPT ![p].sid = s]
    BY <1>1, <1>4 DEF Get, At, IInv, TypeOK
  <2>2. arg'[p] = [user |-> arg[p].user, input |-> arg[p].input, sid |-> s]
    BY <2>1, <1>1 DEF IInv, HandlerOK
  <2>3. HandlerOK(p)'
    BY <2>1, <2>2, <1>1, <1>2, <1>4 DEF HandlerOK, Using
  <2>4. Journaling' \subseteq Journaling
    BY <2>2, <1>3 DEF Journaling, OnlyMoves
  <2>5. OneUser'
    BY <2>2, <1>1, <1>2, <1>3 DEF IInv, OneUser, OnlyMoves
  <2>6. QED
    BY <2>3, <2>4, <2>5
<1>5. ASSUME ~found PROVE HandlerOK(p)' /\ Journaling' \subseteq Journaling /\ OneUser'
  <2>1. /\ arg'[p] = IF pc'[p] = "idle" THEN NoArg ELSE arg[p]
        /\ pc'[p] = IF arg[p].input = "/journal" THEN "start" ELSE "idle"
    BY <1>5, <1>1, GotoFacts DEF Get
  <2>2. HandlerOK(p)'
    BY <2>1, <1>1 DEF IInv, HandlerOK, Using
  <2>3. Journaling' \subseteq Journaling
    BY <2>1, <1>3 DEF Journaling, OnlyMoves, NoArg
  <2>4. OneUser'
    <3>1. \A q \in Procs : pc'[q] = "idle" \/ arg'[q] = arg[q]
      BY <2>1, <1>3 DEF OnlyMoves
    <3>2. \A q \in Procs : pc'[q] # "idle" => pc[q] # "idle"
      BY <1>1, <1>3 DEF OnlyMoves
    <3>3. QED
      BY <3>1, <3>2, <1>1, OneUserStays
  <2>5. QED
    BY <2>2, <2>3, <2>4
<1>6. HandlerOK(p)' /\ Journaling' \subseteq Journaling /\ OneUser'
  BY <1>4, <1>5
<1>7. /\ UsersOwn' /\ Progress' /\ OwnersMoveOn'
      /\ \A q \in Procs, x \in Sessions : Submits(q, x)' = Submits(q, x)
  BY <1>1, <1>2, <1>3, Bystander DEF Using
<1>8. NoDeadSession'
  BY <1>1, <1>7, NoDeadStays
<1>9. Counted' /\ TypeOK' /\ \A q \in Procs : HandlerOK(q)'
  <2>1. TypeOK'
    BY <1>1, <1>3, StepsTyped DEF IInv, TypeOK
  <2>2. QED
    BY <2>1, <1>1, <1>2, <1>3, <1>6, CountedStays, HandlersStay
<1>10. QED
  BY <1>3, <1>6, <1>7, <1>8, <1>9 DEF IInv, OnlyMoves

LEMMA StartKeeps == ASSUME IInv, NEW p \in Procs, Start(p) PROVE IInv'
<1> DEFINE u == arg[p].user
<1>1. /\ pc[p] = "start" /\ pc'[p] = "idle" /\ arg'[p] = NoArg /\ OnlyMoves(p)
      /\ started' = started + 1 /\ active' = [active EXCEPT ![u] = started + 1]
      /\ UNCHANGED <<sess, lock, updates, recorded>>
  BY GotoFacts DEF Start, At
<1>2. u \in Users /\ arg[p].input = "/journal" /\ started \in Nat
  BY <1>1, HandlerFacts DEF IInv, TypeOK, HandlerOK
<1>3. Counted'
  <2>1. p \in Journaling /\ Journaling' = Journaling \ {p}
    BY <1>1, <1>2 DEF Journaling, OnlyMoves, NoArg
  <2>2. IsFiniteSet(Journaling) /\ started + Cardinality(Journaling) <= MaxSessions
    BY DEF IInv, Counted
  <2>3. IsFiniteSet(Journaling') /\ Cardinality(Journaling') = Cardinality(Journaling) - 1
    BY <2>1, <2>2, FS_RemoveElement
  <2>4. QED
    BY <2>2, <2>3, <1>1, <1>2, FS_CardinalityType DEF Counted
<1>4. started + 1 \in 1..MaxSessions
  BY <1>1, <1>2, <1>3, FS_CardinalityType DEF Counted
<1>5. TypeOK'
  <2>1. active' \in [Users -> 0..started']
    <3>1. active \in [Users -> 0..started] /\ 0..started \subseteq 0..started'
      BY <1>1, <1>2 DEF IInv, TypeOK
    <3>2. QED
      BY <3>1, <1>1, <1>2
  <2>2. QED
    BY <2>1, <1>1, <1>2, <1>4, StepsTyped DEF IInv, TypeOK
<1>6. \A q \in Procs : HandlerOK(q)'
  <2>1. HandlerOK(p)'
    BY <1>1 DEF HandlerOK
  <2>2. QED
    BY <2>1, <1>1, <1>2, HandlersStay
<1>7. /\ UsersOwn' /\ Progress' /\ OwnersMoveOn'
      /\ \A q \in Procs, x \in Sessions : Submits(q, x)' = Submits(q, x)
  BY <1>1, <1>2, Bystander DEF Using
<1>8. \A q \in Procs : pc'[q] # "idle" => q # p /\ pc[q] # "idle" /\ arg'[q] = arg[q]
  BY <1>1 DEF OnlyMoves
<1>9. \A v \in Users : active'[v] = IF v = u THEN started + 1 ELSE active[v]
  BY <1>1 DEF IInv, TypeOK
<1>10. OneUser'
  <2>1. \A v \in Users : active[v] \in 0..started
    BY DEF IInv, TypeOK
  <2>2. \A q \in Procs : pc[q] # "idle" => arg[q].sid \in 0..started
    BY HandlerFacts
  <2>3. \A v, w \in Users : active'[v] # 0 /\ active'[v] = active'[w] => v = w
    BY <2>1, <1>2, <1>9 DEF IInv, OneUser
  <2>4. \A q \in Procs, v \in Users :
          pc'[q] # "idle" /\ arg'[q].sid # 0 /\ active'[v] = arg'[q].sid => arg'[q].user = v
    BY <2>1, <2>2, <1>2, <1>8, <1>9 DEF IInv, OneUser
  <2>5. QED
    BY <2>3, <2>4 DEF OneUser
<1>11. NoDeadSession'
  <2> SUFFICES ASSUME NEW v \in Users, active'[v] # 0, sess[active'[v]].submitting
               PROVE  \E q \in Procs : Submits(q, active[v])'
    BY <1>1 DEF NoDeadSession
  <2>1. v # u
    <3>1. \A x \in 1..MaxSessions : x > started => ~sess[x].submitting
      BY DEF IInv, Progress, NotStarted, Sessions
    <3>2. ~sess[started + 1].submitting
      BY <3>1, <1>2, <1>4
    <3>3. QED
      BY <3>2, <1>9
  <2>2. active'[v] = active[v] /\ active[v] \in Sessions
    BY <2>1, <1>9 DEF IInv, TypeOK, Sessions
  <2>3. PICK q \in Procs : Submits(q, active[v])
    BY <2>2 DEF IInv, NoDeadSession
  <2>4. Submits(q, active[v]) /\ q # p
    BY <2>3, <1>1 DEF Submits
  <2>5. QED
    BY <2>2, <2>4, <1>8, <1>1 DEF Submits, OnlyMoves
<1>12. QED
  BY <1>1, <1>3, <1>5, <1>6, <1>7, <1>10, <1>11 DEF IInv, OnlyMoves

LEMMA CancelKeeps == ASSUME IInv, NEW p \in Procs, Cancel(p) PROVE IInv'
<1>1. /\ pc[p] = "cancel" /\ pc'[p] = "idle" /\ arg'[p] = NoArg /\ OnlyMoves(p)
      /\ active' = [active EXCEPT ![arg[p].user] = 0]
      /\ UNCHANGED <<sess, started, lock, updates, recorded>>
  BY GotoFacts DEF Cancel, At
<1>2. started \in Nat /\ \A u \in Users : active'[u] \in {0, active[u]}
  BY <1>1 DEF IInv, TypeOK
<1>3. TypeOK'
  <2>1. active' \in [Users -> 0..started]
    <3>1. active \in [Users -> 0..started] /\ 0 \in 0..started
      BY <1>2 DEF IInv, TypeOK
    <3>2. QED
      BY <3>1, <1>1
  <2>2. QED
    BY <2>1, <1>1, StepsTyped DEF IInv, TypeOK
<1>4. \A q \in Procs : HandlerOK(q)'
  <2>1. HandlerOK(p)'
    BY <1>1 DEF HandlerOK
  <2>2. QED
    BY <2>1, <1>1, <1>2, HandlersStay
<1>5. Counted'
  <2>1. Journaling' \subseteq Journaling
    BY <1>1 DEF Journaling, OnlyMoves, NoArg
  <2>2. QED
    BY <2>1, <1>1, CountedStays
<1>6. /\ UsersOwn' /\ Progress' /\ OwnersMoveOn'
      /\ \A q \in Procs, x \in Sessions : Submits(q, x)' = Submits(q, x)
  BY <1>1, <1>2, Bystander DEF Using
<1>7. OneUser'
  BY <1>1, <1>2, OneUserStays DEF OnlyMoves
<1>8. NoDeadSession'
  BY <1>1, <1>2, <1>6, NoDeadStays
<1>9. QED
  BY <1>1, <1>3, <1>4, <1>5, <1>6, <1>7, <1>8 DEF IInv, OnlyMoves

(* A step of a handler that uses session s, before or after the step, and  *)
(* ends or goes on with what it has in hand.                               *)
LEMMA UserStep ==
  ASSUME IInv, NEW p \in Procs, OnlyMoves(p), HandlerOK(p)',
         pc[p] \in {"lock"} \cup Using, pc'[p] \in {"idle"} \cup Using,
         arg'[p] = IF pc'[p] = "idle" THEN NoArg ELSE arg[p],
         \A u \in Users : active'[u] \in {0, active[u]},
         UNCHANGED <<started, updates>>,
         sess' \in [Sessions -> Session], recorded' \in [Sessions -> Seq(Trade)],
         lock' = [lock EXCEPT ![arg[p].sid] = IF pc'[p] = "idle" THEN NoProc ELSE p],
         active' \in [Users -> 0..started],
         pc[p] = "lock" => lock[arg[p].sid] = NoProc
  PROVE  /\ TypeOK' /\ (\A q \in Procs : HandlerOK(q)') /\ Counted'
         /\ UsersOwn' /\ OneUser' /\ OwnersMoveOn'
<1> DEFINE s == arg[p].sid
<1>0. pc[p] # "idle"
  BY DEF Using
<1>1. s \in Sessions /\ started \in Nat
  BY <1>0, HandlerFacts DEF IInv, TypeOK
<1>2. TypeOK'
  <2>1. lock' \in [Sessions -> Procs \cup {NoProc}]
    BY <1>1 DEF IInv, TypeOK
  <2>2. pc'[p] \in {"idle", "get", "start", "cancel", "lock"} \cup Using
    BY DEF Using
  <2>3. QED
    BY <2>1, <2>2, StepsTyped DEF IInv, TypeOK
<1>3. \A q \in Procs : HandlerOK(q)'
  BY <1>1, HandlersStay
<1>4. Counted'
  <2>1. Journaling' \subseteq Journaling
    <3>1. NoArg.input # "/journal"
      BY DEF NoArg
    <3>2. \A q \in Procs : arg'[q] = arg[q] \/ arg'[q] = NoArg
      BY DEF OnlyMoves
    <3>3. QED
      BY <3>1, <3>2 DEF Journaling
  <2>2. QED
    BY <2>1, CountedStays
<1>5. OneUser'
  BY OneUserStays DEF OnlyMoves, Using
<1>6. lock[s] \in {p, NoProc}
  BY DEF IInv, UsersOwn
<1>7. \A x \in Sessions \ {s} : lock'[x] = lock[x] /\ lock[x] # p
  <2>1. \A x \in Sessions : lock[x] = p => x = s
    BY DEF IInv, OwnersMoveOn
  <2>2. QED
    BY <2>1, <1>1 DEF IInv, TypeOK
<1>8. lock'[s] = IF pc'[p] = "idle" THEN NoProc ELSE p
  BY <1>1 DEF IInv, TypeOK
<1>9. UsersOwn'
  <2> SUFFICES ASSUME NEW q \in Procs, pc'[q] \in Using PROVE lock'[arg'[q].sid] = q
    BY DEF UsersOwn
  <2>1. CASE q = p
    BY <2>1, <1>8 DEF Using
  <2>2. CASE q # p
    <3>1. pc[q] \in Using /\ arg'[q] = arg[q] /\ lock[arg[q].sid] = q
      BY <2>2 DEF OnlyMoves, IInv, UsersOwn
    <3>2. arg[q].sid \in Sessions /\ arg[q].sid # s
      BY <2>2, <3>1, <1>6, HandlerFacts DEF Using
    <3>3. QED
      BY <3>1, <3>2, <1>7
  <2>3. QED
    BY <2>1, <2>2
<1>10. OwnersMoveOn'
  <2> SUFFICES ASSUME NEW x \in Sessions, lock'[x] # NoProc
               PROVE  /\ arg'[lock'[x]].input # "none" /\ arg'[lock'[x]].sid = x
                      /\ pc'[lock'[x]] \in Using
    BY DEF OwnersMoveOn, Using
  <2>1. CASE x = s
    <3>1. lock'[x] = p /\ pc'[p] # "idle" /\ arg'[p] = arg[p] /\ pc'[p] \in Using
      BY <2>1, <1>8 DEF Using
    <3>2. arg[p].input # "none"
      BY <1>0, HandlerFacts DEF Answering, Buttons, Messages
    <3>3. QED
      BY <2>1, <3>1, <3>2
  <2>2. CASE x # s
    <3>1. lock'[x] = lock[x] /\ lock[x] # p /\ lock[x] \in Procs
      BY <2>2, <1>7 DEF IInv, TypeOK
    <3>2. arg[lock[x]].input # "none" /\ arg[lock[x]].sid = x /\ pc[lock[x]] \in Using
      BY <3>1 DEF IInv, OwnersMoveOn, Using
    <3>3. QED
      BY <3>1, <3>2 DEF OnlyMoves
  <2>3. QED
    BY <2>1, <2>2
<1>11. QED
  BY <1>2, <1>3, <1>4, <1>5, <1>9, <1>10

LEMMA LockKeeps == ASSUME IInv, NEW p \in Procs, Lock(p) PROVE IInv'
<1> DEFINE s == arg[p].sid
<1>1. /\ pc[p] = "lock" /\ lock[s] = NoProc /\ arg'[p] = arg[p] /\ OnlyMoves(p)
      /\ pc'[p] = IF arg[p].input = "yes" THEN "submit" ELSE "apply"
      /\ lock' = [lock EXCEPT ![s] = p]
      /\ UNCHANGED <<sess, started, active, updates, recorded>>
  BY GotoFacts DEF Lock, At
<1>2. started \in Nat /\ HandlerOK(p)'
  BY <1>1 DEF IInv, TypeOK, HandlerOK, Using
<1>3. /\ TypeOK' /\ (\A q \in Procs : HandlerOK(q)') /\ Counted'
      /\ UsersOwn' /\ OneUser' /\ OwnersMoveOn'
  <2>1. /\ sess \in [Sessions -> Session] /\ recorded \in [Sessions -> Seq(Trade)]
        /\ active \in [Users -> 0..started]
    BY DEF IInv, TypeOK
  <2>2. pc[p] \in {"lock"} \cup Using /\ pc'[p] \in {"idle"} \cup Using /\ pc'[p] # "idle"
    BY <1>1 DEF Using
  <2>3. QED
    BY <2>1, <2>2, <1>1, <1>2, UserStep
<1>4. Progress'
  <2>1. \A q \in Procs : pc'[q] \in {"record", "upload", "reward", "remove"} =>
          pc'[q] = pc[q] /\ arg'[q] = arg[q]
    BY <1>1 DEF OnlyMoves
  <2>2. QED
    BY <2>1, <1>1, ProgressStays DEF IInv, TypeOK
<1>5. NoDeadSession'
  <2>1. \A q \in Procs, x \in Sessions : Submits(q, x) => Submits(q, x)'
    BY <1>1 DEF Submits, OnlyMoves
  <2>2. QED
    BY <2>1, <1>1, NoDeadStays
<1>6. QED
  BY <1>1, <1>3, <1>4, <1>5 DEF IInv, OnlyMoves

(* While a handler uses a session, no other one is submitting it.          *)
LEMMA OneSubmits ==
  ASSUME IInv, NEW p \in Procs, pc[p] \in Using, NEW q \in Procs, Submits(q, arg[p].sid)
  PROVE  q = p
  BY DEF IInv, UsersOwn, Submits, Using

LEMMA ApplyKeeps == ASSUME IInv, NEW p \in Procs, Apply(p) PROVE IInv'
<1> DEFINE s == arg[p].sid
           i == arg[p].input
           new == IF i \in Buttons THEN PressButton(sess[s], i) ELSE SendMessage(sess[s], i)
<1>1. /\ pc[p] = "apply" /\ pc'[p] = "idle" /\ arg'[p] = NoArg /\ OnlyMoves(p)
      /\ sess' = [sess EXCEPT ![s] = new] /\ lock' = [lock EXCEPT ![s] = NoProc]
      /\ UNCHANGED <<started, active, updates, recorded>>
  BY GotoFacts DEF Apply, At, Unlock
<1>2. /\ s \in Sessions /\ started \in Nat /\ sess \in [Sessions -> Session]
      /\ i \in Answering \ {"yes", "no"}
  BY <1>1, HandlerFacts DEF IInv, TypeOK, HandlerOK, Using
<1>3. new \in Session /\ new.submitting = sess[s].submitting
  BY <1>2, PressButtonOK, SendMessageOK DEF Answering
<1> HIDE DEF new
<1>4. sess' \in [Sessions -> Session]
      /\ \A x \in Sessions : /\ sess'[x].submitting = sess[x].submitting
                             /\ x # s => sess'[x] = sess[x]
  BY <1>1, <1>2, <1>3
<1>5. /\ TypeOK' /\ (\A q \in Procs : HandlerOK(q)') /\ Counted'
      /\ UsersOwn' /\ OneUser' /\ OwnersMoveOn'
  <2>1. recorded \in [Sessions -> Seq(Trade)] /\ active \in [Users -> 0..started]
    BY DEF IInv, TypeOK
  <2>2. pc[p] \in {"lock"} \cup Using /\ pc'[p] \in {"idle"} \cup Using /\ HandlerOK(p)'
    BY <1>1 DEF Using, HandlerOK
  <2>3. QED
    BY <2>1, <2>2, <1>1, <1>4, UserStep
<1>6. Progress'
  <2>1. \A q \in Procs : pc'[q] # "idle" => q # p /\ pc'[q] = pc[q] /\ arg'[q] = arg[q]
    BY <1>1 DEF OnlyMoves
  <2>2. ASSUME NEW q \in Procs, q # p, pc[q] \in Using
        PROVE  arg[q].sid \in Sessions /\ arg[q].sid # s
    BY <2>2, <1>1, HandlerFacts DEF IInv, UsersOwn, Using
  <2>3. \A x \in Sessions : x > started => ~sess'[x].submitting
    BY <1>4 DEF IInv, Progress, NotStarted
  <2>4. \A x \in Sessions : ~sess'[x].submitting => recorded'[x] = <<>>
    BY <1>1, <1>4 DEF IInv, Progress, NotRecorded
  <2>5. \A q \in Procs : pc'[q] \in {"record", "upload", "reward", "remove"} =>
          sess'[arg'[q].sid].submitting
    BY <2>1, <2>2, <1>4 DEF IInv, Progress, Submitted, Using
  <2>6. \A q \in Procs : pc'[q] = "record" =>
          recorded'[arg'[q].sid] = <<>> /\ sess'[arg'[q].sid].trade.status # ""
    <3> SUFFICES ASSUME NEW q \in Procs, pc'[q] = "record"
                 PROVE  recorded[arg[q].sid] = <<>> /\ sess'[arg[q].sid].trade.status # ""
      BY <2>1, <1>1
    <3>1. pc[q] = "record" /\ arg[q].sid \in Sessions /\ arg[q].sid # s
      BY <2>1, <2>2 DEF Using
    <3>2. recorded[arg[q].sid] = <<>> /\ sess[arg[q].sid].trade.status # ""
      BY <3>1 DEF IInv, Progress, ToRecord
    <3>3. QED
      BY <3>1, <3>2, <1>4
  <2>7. QED
    BY <2>3, <2>4, <2>5, <2>6, <1>1 DEF Progress, NotStarted, NotRecorded, Submitted, ToRecord
<1>7. NoDeadSession'
  <2>1. \A q \in Procs, x \in Sessions : Submits(q, x) => Submits(q, x)'
    BY <1>1 DEF Submits, OnlyMoves
  <2>2. QED
    BY <2>1, <1>1, <1>4, NoDeadStays
<1>8. QED
  BY <1>1, <1>5, <1>6, <1>7 DEF IInv, OnlyMoves

LEMMA SubmitKeeps == ASSUME IInv, NEW p \in Procs, Submit(p) PROVE IInv'
<1> DEFINE s == arg[p].sid
<1>1. pc[p] = "submit" /\ OnlyMoves(p) /\ UNCHANGED <<started, active, updates, recorded>>
  BY GotoFacts DEF Submit, At
<1>2. /\ s \in Sessions /\ started \in Nat /\ sess \in [Sessions -> Session]
      /\ recorded \in [Sessions -> Seq(Trade)] /\ active \in [Users -> 0..started]
      /\ lock \in [Sessions -> Procs \cup {NoProc}] /\ lock[s] = p
  BY <1>1, HandlerFacts DEF IInv, TypeOK, UsersOwn, Using
<1>3. CASE sess[s].submitting
  <2>1. /\ pc'[p] = "idle" /\ arg'[p] = NoArg /\ sess' = sess
        /\ lock' = [lock EXCEPT ![s] = NoProc]
    BY <1>3, GotoFacts DEF Submit, Unlock
  <2>2. /\ TypeOK' /\ (\A q \in Procs : HandlerOK(q)') /\ Counted'
        /\ UsersOwn' /\ OneUser' /\ OwnersMoveOn'
    <3>1. pc[p] \in {"lock"} \cup Using /\ pc'[p] \in {"idle"} \cup Using /\ HandlerOK(p)'
      BY <2>1, <1>1 DEF Using, HandlerOK
    <3>2. QED
      BY <3>1, <2>1, <1>1, <1>2, UserStep
  <2>3. Progress'
    <3>1. \A q \in Procs : pc'[q] \in {"record", "upload", "reward", "remove"} =>
            pc'[q] = pc[q] /\ arg'[q] = arg[q]
      BY <2>1, <1>1 DEF OnlyMoves
    <3>2. QED
      BY <3>1, <2>1, <1>1, <1>2, ProgressStays
  <2>4. NoDeadSession'
    <3>1. \A q \in Procs, x \in Sessions : Submits(q, x) => Submits(q, x)'
      BY <1>1 DEF Submits, OnlyMoves
    <3>2. QED
      BY <3>1, <2>1, <1>1, NoDeadStays
  <2>5. QED
    BY <2>2, <2>3, <2>4, <1>1 DEF IInv, OnlyMoves
<1>4. CASE ~sess[s].submitting
  <2> DEFINE new == [sess[s] EXCEPT !.submitting = TRUE,
                                    !.trade.status = IF @ = "" THEN "OPEN" ELSE @]
  <2>1. pc'[p] = "record" /\ arg'[p] = arg[p] /\ sess' = [sess EXCEPT ![s] = new] /\ lock' = lock
    <3>1. sess' = [sess EXCEPT ![s].submitting = TRUE,
                               ![s].trade.status = IF @ = "" THEN "OPEN" ELSE @]
      BY <1>4 DEF Submit
    <3>2. sess' = [sess EXCEPT ![s] = new]
      BY <3>1, <1>2
    <3>3. Goto(p, "record") /\ UNCHANGED lock
      BY <1>4 DEF Submit
    <3> HIDE DEF new
    <3>4. QED
      BY <3>2, <3>3, GotoFacts
  <2>2. new \in Session /\ new.submitting /\ new.trade.status # ""
    <3>1. sess[s] \in Session
      BY <1>2
    <3>2. QED
      BY <3>1 DEF Session, Trade
  <2> HIDE DEF new
  <2>3. /\ sess' \in [Sessions -> Session] /\ sess'[s] = new
        /\ \A x \in Sessions \ {s} : sess'[x] = sess[x]
    BY <2>1, <2>2, <1>2
  <2>4. lock' = [lock EXCEPT ![s] = p]
    BY <2>1, <1>2
  <2>5. /\ TypeOK' /\ (\A q \in Procs : HandlerOK(q)') /\ Counted'
        /\ UsersOwn' /\ OneUser' /\ OwnersMoveOn'
    <3>1. /\ pc[p] \in {"lock"} \cup Using /\ pc'[p] \in {"idle"} \cup Using
          /\ pc'[p] # "idle" /\ pc[p] # "lock"
      BY <2>1, <1>1 DEF Using
    <3>2. HandlerOK(p)'
      BY <2>1, <1>1 DEF IInv, HandlerOK, Using
    <3>3. QED
      BY <3>1, <3>2, <2>1, <2>3, <2>4, <1>1, <1>2, UserStep
  <2>6. Progress'
    <3>1. \A q \in Procs \ {p} : pc[q] \in Using => arg[q].sid # s /\ arg[q].sid \in Sessions
      BY <1>2, HandlerFacts DEF IInv, UsersOwn, Using
    <3>2. \A q \in Procs \ {p} : pc'[q] = pc[q] /\ arg'[q] = arg[q]
      BY <1>1 DEF OnlyMoves
    <3>3. \A x \in Sessions : x > started => ~sess'[x].submitting
      <4>1. s <= started
        BY <1>1, <1>2, HandlerFacts
      <4>2. \A x \in Sessions : x > started => x # s /\ ~sess[x].submitting
        BY <4>1, <1>2 DEF IInv, Progress, NotStarted, Sessions
      <4>3. QED
        BY <4>2, <2>3
    <3>4. \A x \in Sessions : ~sess'[x].submitting => recorded'[x] = <<>>
      BY <2>2, <2>3, <1>1 DEF IInv, Progress, NotRecorded
    <3>5. \A q \in Procs : pc'[q] \in {"record", "upload", "reward", "remove"} =>
            sess'[arg'[q].sid].submitting
      <4>1. \A q \in Procs \ {p} :
              pc[q] \in {"record", "upload", "reward", "remove"} =>
                arg[q].sid \in Sessions \ {s} /\ sess[arg[q].sid].submitting
        BY <3>1 DEF IInv, Progress, Submitted, Using
      <4>2. sess'[arg'[p].sid].submitting
        BY <2>1, <2>2, <2>3
      <4>3. \A q \in Procs \ {p} : pc'[q] \in {"record", "upload", "reward", "remove"} =>
              sess'[arg'[q].sid].submitting
        BY <4>1, <3>2, <2>3
      <4>4. QED
        BY <4>2, <4>3
    <3>6. ASSUME NEW q \in Procs, pc'[q] = "record"
          PROVE  recorded[arg'[q].sid] = <<>> /\ sess'[arg'[q].sid].trade.status # ""
      <4>1. CASE q = p
        BY <4>1, <2>1, <2>2, <2>3, <1>2, <1>4 DEF IInv, Progress, NotRecorded
      <4>2. CASE q # p
        <5>1. arg'[q] = arg[q] /\ pc[q] = "record" /\ arg[q].sid \in Sessions \ {s}
          BY <4>2, <3>1, <3>2, <3>6 DEF Using
        <5>2. recorded[arg[q].sid] = <<>> /\ sess[arg[q].sid].trade.status # ""
          BY <5>1 DEF IInv, Progress, ToRecord
        <5>3. QED
          BY <5>1, <5>2, <2>3
      <4>3. QED
        BY <4>1, <4>2
    <3>7. QED
      BY <3>3, <3>4, <3>5, <3>6, <1>1
      DEF Progress, NotStarted, NotRecorded, Submitted, ToRecord
  <2>7. NoDeadSession'
    <3> SUFFICES ASSUME NEW u \in Users, active[u] # 0, sess'[active[u]].submitting
                 PROVE  \E q \in Procs : Submits(q, active[u])'
      BY <1>1 DEF NoDeadSession
    <3>1. active[u] \in Sessions
      BY <1>2 DEF IInv, TypeOK, Sessions
    <3>2. CASE active[u] = s
      <4>1. arg'[p] # NoArg
        BY <2>1, <1>1, HandlerFacts DEF Answering, Buttons, Messages, NoArg
      <4>2. Submits(p, active[u])'
        BY <4>1, <3>2, <2>1, <1>1 DEF Submits
      <4>3. QED
        BY <4>2
    <3>3. CASE active[u] # s
      <4>1. PICK q \in Procs : Submits(q, active[u])
        BY <3>1, <3>3, <2>3 DEF IInv, NoDeadSession
      <4>2. q # p
        BY <4>1, <1>1 DEF Submits
      <4>3. QED
        BY <4>1, <4>2, <1>1 DEF Submits, OnlyMoves
    <3>4. QED
      BY <3>2, <3>3
  <2>8. QED
    BY <2>5, <2>6, <2>7, <1>1 DEF IInv, OnlyMoves
<1>5. QED
  BY <1>3, <1>4

(* Storing the trade; before, nothing was stored for the session.          *)
LEMMA RecordKeeps ==
  ASSUME IInv, NEW p \in Procs, NEW saved \in BOOLEAN, NEW err \in BOOLEAN, Record(p, saved, err)
  PROVE  IInv'
<1> DEFINE s == arg[p].sid
<1>1. /\ pc[p] = "record" /\ pc'[p] = (IF err THEN "remove" ELSE "upload") /\ arg'[p] = arg[p]
      /\ OnlyMoves(p) /\ UNCHANGED <<sess, started, active, lock, updates>>
  BY GotoFacts DEF Record, At
<1>2. /\ s \in Sessions /\ started \in Nat /\ sess \in [Sessions -> Session]
      /\ recorded \in [Sessions -> Seq(Trade)] /\ active \in [Users -> 0..started]
      /\ lock \in [Sessions -> Procs \cup {NoProc}] /\ lock[s] = p
  BY <1>1, HandlerFacts DEF IInv, TypeOK, UsersOwn, Using
<1>3. sess[s].submitting
  BY <1>1 DEF IInv, Progress, Submitted
<1>4. /\ recorded' \in [Sessions -> Seq(Trade)]
      /\ \A x \in Sessions \ {s} : recorded'[x] = recorded[x]
  <2>1. sess[s].trade \in Trade /\ recorded[s] \in Seq(Trade)
    BY <1>2 DEF Session
  <2>2. Append(recorded[s], sess[s].trade) \in Seq(Trade)
    BY <2>1
  <2>3. QED
    BY <2>2, <1>2 DEF Record
<1>5. /\ TypeOK' /\ (\A q \in Procs : HandlerOK(q)') /\ Counted'
      /\ UsersOwn' /\ OneUser' /\ OwnersMoveOn'
  <2>1. /\ pc[p] \in {"lock"} \cup Using /\ pc'[p] \in {"idle"} \cup Using
        /\ pc'[p] # "idle" /\ pc[p] # "lock"
    BY <1>1 DEF Using
  <2>2. HandlerOK(p)' /\ lock' = [lock EXCEPT ![s] = p]
    BY <1>1, <1>2 DEF IInv, HandlerOK, Using
  <2>3. QED
    BY <2>1, <2>2, <1>1, <1>2, <1>4, UserStep
<1>6. \A q \in Procs \ {p} : pc'[q] = pc[q] /\ arg'[q] = arg[q]
  BY <1>1 DEF OnlyMoves
<1>7. Progress'
  <2>1. NotStarted' /\ NotRecorded'
    BY <1>1, <1>3, <1>4 DEF IInv, Progress, NotStarted, NotRecorded
  <2>2. Submitted'
    BY <1>1, <1>3, <1>6 DEF IInv, Progress, Submitted
  <2>3. ToRecord'
    <3>1. ASSUME NEW q \in Procs \ {p}, pc[q] = "record" PROVE arg[q].sid \in Sessions \ {s}
      BY <3>1, <1>2, HandlerFacts DEF IInv, UsersOwn, Using
    <3>2. \A q \in Procs : pc'[q] = "record" => q # p
      BY <1>1
    <3>3. ASSUME NEW q \in Procs \ {p}, pc[q] = "record"
          PROVE  recorded'[arg[q].sid] = <<>> /\ sess[arg[q].sid].trade.status # ""
      BY <3>1, <3>3, <1>4 DEF IInv, Progress, ToRecord
    <3>4. ASSUME NEW q \in Procs, pc'[q] = "record"
          PROVE  recorded'[arg'[q].sid] = <<>> /\ sess'[arg'[q].sid].trade.status # ""
      <4>1. q \in Procs \ {p} /\ pc[q] = "record" /\ arg'[q] = arg[q]
        BY <3>2, <3>4, <1>6
      <4>2. QED
        BY <4>1, <3>3, <1>1
    <3>5. QED
      BY <3>4 DEF ToRecord
  <2>4. QED
    BY <2>1, <2>2, <2>3 DEF Progress
<1>8. NoDeadSession'
  <2>1. \A q \in Procs, x \in Sessions : Submits(q, x) => Submits(q, x)'
    BY <1>1, <1>6 DEF Submits
  <2>2. QED
    BY <2>1, <1>1, NoDeadStays
<1>9. QED
  BY <1>1, <1>5, <1>7, <1>8 DEF IInv, OnlyMoves

(* Uploading and rewarding change no more than the photo.                  *)
LEMMA AfterRecord ==
  ASSUME IInv, NEW p \in Procs, OnlyMoves(p), arg'[p] = arg[p],
         \/ pc[p] = "upload" /\ pc'[p] = "reward"
         \/ pc[p] = "reward" /\ pc'[p] = "remove",
         sess' \in [Sessions -> Session],
         \A x \in Sessions : /\ sess'[x].submitting = sess[x].submitting
                             /\ sess'[x].trade = sess[x].trade,
         UNCHANGED <<started, active, lock, updates, recorded>>
  PROVE  IInv'
<1> DEFINE s == arg[p].sid
<1>1. /\ s \in Sessions /\ started \in Nat /\ recorded \in [Sessions -> Seq(Trade)]
      /\ active \in [Users -> 0..started]
      /\ lock \in [Sessions -> Procs \cup {NoProc}] /\ lock[s] = p
  BY HandlerFacts DEF IInv, TypeOK, UsersOwn, Using
<1>2. /\ TypeOK' /\ (\A q \in Procs : HandlerOK(q)') /\ Counted'
      /\ UsersOwn' /\ OneUser' /\ OwnersMoveOn'
  <2>1. /\ pc[p] \in {"lock"} \cup Using /\ pc'[p] \in {"idle"} \cup Using
        /\ pc'[p] # "idle" /\ pc[p] # "lock"
    BY DEF Using
  <2>2. HandlerOK(p)' /\ lock' = [lock EXCEPT ![s] = p]
    BY <1>1 DEF IInv, HandlerOK, Using
  <2>3. QED
    BY <2>1, <2>2, <1>1, UserStep
<1>3. \A q \in Procs \ {p} : pc'[q] = pc[q] /\ arg'[q] = arg[q]
  BY DEF OnlyMoves
<1>4. \A q \in Procs : pc[q] \in Using => arg[q].sid \in Sessions
  BY HandlerFacts DEF Using
<1>5. Progress'
  <2>1. NotStarted' /\ NotRecorded'
    BY DEF IInv, Progress, NotStarted, NotRecorded
  <2>2. Submitted'
    <3>1. ASSUME NEW q \in Procs, pc'[q] \in {"record", "upload", "reward", "remove"}
          PROVE  sess'[arg'[q].sid].submitting
      <4>1. arg'[q] = arg[q] /\ pc[q] \in {"record", "upload", "reward", "remove"}
        BY <3>1, <1>3
      <4>2. arg[q].sid \in Sessions /\ sess[arg[q].sid].submitting
        BY <4>1, <1>4 DEF IInv, Progress, Submitted, Using
      <4>3. QED
        BY <4>1, <4>2
    <3>2. QED
      BY <3>1 DEF Submitted
  <2>3. ToRecord'
    <3>1. ASSUME NEW q \in Procs, pc'[q] = "record"
          PROVE  recorded'[arg'[q].sid] = <<>> /\ sess'[arg'[q].sid].trade.status # ""
      <4>1. q # p /\ arg'[q] = arg[q] /\ pc[q] = "record"
        BY <3>1, <1>3
      <4>2. /\ arg[q].sid \in Sessions
            /\ recorded[arg[q].sid] = <<>> /\ sess[arg[q].sid].trade.status # ""
        BY <4>1, <1>4 DEF IInv, Progress, ToRecord, Using
      <4>3. QED
        BY <4>1, <4>2
    <3>2. QED
      BY <3>1 DEF ToRecord
  <2>4. QED
    BY <2>1, <2>2, <2>3 DEF Progress
<1>6. NoDeadSession'
  <2>1. \A q \in Procs, x \in Sessions : Submits(q, x) => Submits(q, x)'
    BY <1>3 DEF Submits
  <2>2. \A u \in Users : active'[u] \in {0, active[u]}
    OBVIOUS
  <2>3. QED
    BY <2>1, <2>2, NoDeadStays
<1>7. QED
  BY <1>2, <1>5, <1>6 DEF IInv, OnlyMoves

LEMMA UploadKeeps ==
  ASSUME IInv, NEW p \in Procs, NEW ok \in BOOLEAN, Upload(p, ok) PROVE IInv'
<1>1. /\ pc[p] = "upload" /\ pc'[p] = "reward" /\ arg'[p] = arg[p] /\ OnlyMoves(p)
      /\ UNCHANGED <<started, active, lock, updates, recorded>>
  BY GotoFacts DEF Upload, At
<1>2. sess \in [Sessions -> Session] /\ arg[p].sid \in Sessions
  BY <1>1, HandlerFacts DEF IInv, TypeOK, Using
<1>3. /\ [sess[arg[p].sid] EXCEPT !.photo = "uploaded"] \in Session
      /\ [sess[arg[p].sid] EXCEPT !.photo = "uploaded"].submitting = sess[arg[p].sid].submitting
      /\ [sess[arg[p].sid] EXCEPT !.photo = "uploaded"].trade = sess[arg[p].sid].trade
  BY <1>2 DEF Session
<1>4. /\ sess' \in [Sessions -> Session]
      /\ \A x \in Sessions : /\ sess'[x].submitting = sess[x].submitting
                             /\ sess'[x].trade = sess[x].trade
  BY <1>2, <1>3 DEF Upload
<1>5. QED
  BY <1>1, <1>4, AfterRecord

LEMMA RewardKeeps == ASSUME IInv, NEW p \in Procs, Reward(p) PROVE IInv'
<1>1. /\ pc[p] = "reward" /\ pc'[p] = "remove" /\ arg'[p] = arg[p] /\ OnlyMoves(p)
      /\ UNCHANGED <<sess, started, active, lock, updates, recorded>>
  BY GotoFacts DEF Reward, At
<1>2. sess \in [Sessions -> Session]
  BY DEF IInv, TypeOK
<1>3. QED
  BY <1>1, <1>2, AfterRecord

(* Removing takes from the map the session that was submitted, if it is    *)
(* still there, because a session belongs to one user.                     *)
LEMMA RemoveKeeps == ASSUME IInv, NEW p \in Procs, RemoveSession(p) PROVE IInv'
<1> DEFINE s == arg[p].sid
           u == arg[p].user
<1>1. /\ pc[p] = "remove" /\ pc'[p] = "idle" /\ arg'[p] = NoArg /\ OnlyMoves(p)
      /\ active' = [active EXCEPT ![u] = 0] /\ lock' = [lock EXCEPT ![s] = NoProc]
      /\ UNCHANGED <<sess, started, updates, recorded>>
  BY GotoFacts DEF RemoveSession, At, Unlock
<1>2. /\ s \in Sessions /\ s # 0 /\ started \in Nat /\ sess \in [Sessions -> Session]
      /\ recorded \in [Sessions -> Seq(Trade)] /\ active \in [Users -> 0..started]
      /\ 0 \in 0..started /\ u \in Users
  BY <1>1, HandlerFacts DEF IInv, TypeOK, Using, Sessions
<1>3. active' \in [Users -> 0..started] /\ \A v \in Users : active'[v] \in {0, active[v]}
  BY <1>1, <1>2
<1>4. /\ TypeOK' /\ (\A q \in Procs : HandlerOK(q)') /\ Counted'
      /\ UsersOwn' /\ OneUser' /\ OwnersMoveOn'
  <2>1. pc[p] \in {"lock"} \cup Using /\ pc'[p] \in {"idle"} \cup Using /\ HandlerOK(p)'
    BY <1>1 DEF Using, HandlerOK
  <2>2. QED
    BY <2>1, <1>1, <1>2, <1>3, UserStep
<1>5. Progress'
  <2>1. \A q \in Procs : pc'[q] \in {"record", "upload", "reward", "remove"} =>
          pc'[q] = pc[q] /\ arg'[q] = arg[q]
    BY <1>1 DEF OnlyMoves
  <2>2. QED
    BY <2>1, <1>1, <1>2, ProgressStays
<1>6. NoDeadSession'
  <2> SUFFICES ASSUME NEW v \in Users, active'[v] # 0, sess[active'[v]].submitting
               PROVE  \E q \in Procs : Submits(q, active[v])'
    BY <1>1 DEF NoDeadSession
  <2>1. v # u /\ active'[v] = active[v]
    BY <1>1, <1>2
  <2>2. PICK q \in Procs : Submits(q, active[v])
    BY <2>1 DEF IInv, NoDeadSession
  <2>3. q # p
    BY <2>1, <2>2, <1>1, <1>2 DEF Submits, IInv, OneUser
  <2>4. QED
    BY <2>1, <2>2, <2>3, <1>1 DEF Submits, OnlyMoves
<1>7. QED
  BY <1>1, <1>4, <1>5, <1>6 DEF IInv, OnlyMoves

(* The steps that are no handler's.                                        *)
LEMMA ExpireKeeps == ASSUME IInv, NEW s \in Sessions, Expire(s) PROVE IInv'
<1>1. /\ sess' = [sess EXCEPT ![s].expired = TRUE]
      /\ UNCHANGED <<started, active, lock, pc, arg, updates, recorded>>
  BY DEF Expire
<1>2. /\ sess' \in [Sessions -> Session]
      /\ \A x \in Sessions : /\ sess'[x].submitting = sess[x].submitting
                             /\ sess'[x].trade = sess[x].trade
  <2>1. sess \in [Sessions -> Session] /\ sess[s] \in Session
    BY DEF IInv, TypeOK
  <2>2. /\ [sess[s] EXCEPT !.expired = TRUE] \in Session
        /\ [sess[s] EXCEPT !.expired = TRUE].submitting = sess[s].submitting
        /\ [sess[s] EXCEPT !.expired = TRUE].trade = sess[s].trade
    BY <2>1 DEF Session
  <2>3. sess' = [sess EXCEPT ![s] = [sess[s] EXCEPT !.expired = TRUE]]
    BY <1>1, <2>1
  <2>4. QED
    BY <2>1, <2>2, <2>3
<1>3. \A p \in Procs : pc[p] \in Using => arg[p].sid \in Sessions
  BY HandlerFacts DEF Using
<1>4. TypeOK' /\ (\A p \in Procs : HandlerOK(p)') /\ Counted' /\ UsersOwn' /\ OneUser'
      /\ OwnersMoveOn'
  <2>1. TypeOK'
    BY <1>1, <1>2 DEF IInv, TypeOK
  <2>2. (\A p \in Procs : HandlerOK(p)') /\ Counted'
    BY <1>1 DEF IInv, HandlerOK, Counted, Journaling
  <2>3. UsersOwn' /\ OneUser' /\ OwnersMoveOn'
    BY <1>1 DEF IInv, UsersOwn, OneUser, OwnersMoveOn
  <2>4. QED
    BY <2>1, <2>2, <2>3
<1>5. Progress'
  <2>1. NotStarted' /\ NotRecorded'
    BY <1>1, <1>2 DEF IInv, Progress, NotStarted, NotRecorded
  <2>2. Submitted'
    BY <1>1, <1>2, <1>3 DEF IInv, Progress, Submitted, Using
  <2>3. ToRecord'
    BY <1>1, <1>2, <1>3 DEF IInv, Progress, ToRecord, Using
  <2>4. QED
    BY <2>1, <2>2, <2>3 DEF Progress
<1>6. NoDeadSession'
  <2>1. \A q \in Procs, x \in Sessions : Submits(q, x) => Submits(q, x)'
    BY <1>1 DEF Submits
  <2>2. QED
    BY <2>1, <1>1, <1>2, NoDeadStays
<1>7. QED
  BY <1>1, <1>4, <1>5, <1>6 DEF IInv

LEMMA CleanUpKeeps == ASSUME IInv, CleanUp PROVE IInv'
<1>1. /\ active' = [u \in Users |->
           IF active[u] # 0 /\ sess[active[u]].expired THEN 0 ELSE active[u]]
      /\ UNCHANGED <<sess, started, lock, pc, arg, updates, recorded>>
  BY DEF CleanUp
<1>2. /\ active \in [Users -> 0..started] /\ 0 \in 0..started
      /\ \A u \in Users : active'[u] \in {0, active[u]}
  BY <1>1 DEF IInv, TypeOK
<1>3. active' \in [Users -> 0..started]
  BY <1>1, <1>2
<1>4. TypeOK' /\ (\A p \in Procs : HandlerOK(p)') /\ Counted' /\ UsersOwn' /\ OwnersMoveOn'
  BY <1>1, <1>3 DEF IInv, TypeOK, HandlerOK, Counted, Journaling, UsersOwn, OwnersMoveOn
<1>5. OneUser'
  BY <1>1, <1>2, OneUserStays DEF IInv, OneUser
<1>6. Progress'
  BY <1>1 DEF IInv, Progress, NotStarted, NotRecorded, Submitted, ToRecord
<1>7. NoDeadSession'
  <2>1. \A q \in Procs, x \in Sessions : Submits(q, x) => Submits(q, x)'
    BY <1>1 DEF Submits
  <2>2. QED
    BY <2>1, <1>1, <1>2, NoDeadStays
<1>8. QED
  BY <1>1, <1>4, <1>5, <1>6, <1>7 DEF IInv

LEMMA StutterKeeps == ASSUME IInv, UNCHANGED vars PROVE IInv'
<1>1. UNCHANGED <<sess, started, active, lock, pc, arg, updates, recorded>>
  BY DEF vars
<1>2. TypeOK' /\ (\A p \in Procs : HandlerOK(p)') /\ Counted' /\ UsersOwn' /\ OneUser'
  BY <1>1 DEF IInv, TypeOK, HandlerOK, Counted, Journaling, UsersOwn, OneUser
<1>3. Progress' /\ OwnersMoveOn' /\ NoDeadSession'
  BY <1>1 DEF IInv, Progress, NotStarted, NotRecorded, Submitted, ToRecord, OwnersMoveOn,
              NoDeadSession, Submits
<1>4. QED
  BY <1>1, <1>2, <1>3 DEF IInv

LEMMA InitIInv == Init => IInv
<1> SUFFICES ASSUME Init PROVE IInv
  OBVIOUS
<1>1. TypeOK
  <2>1. NewSession \in Session
    BY DEF NewSession, Session, Trade, Steps
  <2>2. QED
    BY <2>1 DEF Init, TypeOK
<1>2. arg = [p \in Procs |-> arg[p]] /\ \A p \in Procs : HandlerOK(p)
  BY DEF Init, HandlerOK
<1>3. Counted
  <2>1. Journaling = {}
    BY DEF Init, Journaling, NoArg
  <2>2. QED
    BY <2>1, FS_EmptySet DEF Init, Counted
<1>4. UsersOwn /\ OneUser /\ OwnersMoveOn /\ NoDeadSession
  BY DEF Init, UsersOwn, OneUser, OwnersMoveOn, NoDeadSession, Using
<1>5. Progress
  BY DEF Init, Progress, NotStarted, NotRecorded, Submitted, ToRecord, NewSession
<1>6. QED
  BY <1>1, <1>2, <1>3, <1>4, <1>5 DEF IInv

(* The inductive invariant of guided.go and of handler.go 434-636: who     *)
(* uses a session owns its mutex, a session has one user, and it stores    *)
(* nothing before it is submitted.                                         *)
THEOREM FlowInvariance == Spec => []IInv
<1>1. IInv /\ [Next]_vars => IInv'
  <2> SUFFICES ASSUME IInv, [Next]_vars PROVE IInv'
    OBVIOUS
  <2>1. ASSUME NEW p \in Procs, NEW u \in Users, NEW i \in Buttons \cup Messages,
               Receive(p, u, i)
        PROVE  IInv'
    BY <2>1, ReceiveKeeps DEF Answering
  <2>2. ASSUME NEW p \in Procs, Handle(p) PROVE IInv'
    BY <2>2, GetKeeps, StartKeeps, CancelKeeps, LockKeeps, ApplyKeeps, SubmitKeeps, RecordKeeps,
       UploadKeeps, RewardKeeps, RemoveKeeps DEF Handle
  <2>3. QED
    BY <2>1, <2>2, ExpireKeeps, CleanUpKeeps, StutterKeeps DEF Next
<1>2. QED
  BY InitIInv, <1>1, PTL DEF Spec

(* Types of the flow's state, with every counter within its bound.         *)
THEOREM FlowTyped == Spec => []TypeOK
<1>1. IInv => TypeOK
  BY DEF IInv
<1>2. QED
  BY FlowInvariance, <1>1, PTL

(* handler.go 434-449, 516-517, 581-582: the owner of a mutex waits for no *)
(* other one and releases it when it ends.                                 *)
THEOREM OwnersAlwaysMoveOn == Spec => []OwnersMoveOn
<1>1. IInv => OwnersMoveOn
  BY DEF IInv
<1>2. QED
  BY FlowInvariance, <1>1, PTL

(* handler.go 594-636: a submitted session does not stay its user's, so no *)
(* later answer is swallowed by it.                                        *)
THEOREM NeverADeadSession == Spec => []NoDeadSession
<1>1. IInv => NoDeadSession
  BY DEF IInv
<1>2. QED
  BY FlowInvariance, <1>1, PTL

-----------------------------------------------------------------------------
(* The refinement.  Submits and the phase of a session only depend on the  *)
(* handlers in the middle of submitting.                                   *)
LEMMA SamePhase ==
  ASSUME NEW s \in Sessions, sess'[s].submitting = sess[s].submitting,
         \A q \in Procs : Submits(q, s)' = Submits(q, s)
  PROVE  Phase(s)' = Phase(s)
  BY DEF Phase

(* Steps of the flow that the abstract one does not see.                   *)
LEMMA Unseen ==
  ASSUME UNCHANGED recorded,
         \A s \in Sessions : /\ sess'[s].submitting = sess[s].submitting
                             /\ sess'[s].trade = sess[s].trade
                             /\ \A q \in Procs : Submits(q, s)' = Submits(q, s)
  PROVE  UNCHANGED Entry!vars
<1>1. \A s \in Sessions : Phase(s)' = Phase(s) /\ sess'[s].trade = sess[s].trade
  BY SamePhase
<1>2. /\ [s \in Sessions |-> sess[s].trade]' = [s \in Sessions |-> sess[s].trade]
      /\ [s \in Sessions |-> Phase(s)]' = [s \in Sessions |-> Phase(s)]
  BY <1>1
<1>3. QED
  BY <1>2 DEF Entry!vars

(* The same for a handler p that neither begins nor ends submitting.       *)
LEMMA UnseenStep ==
  ASSUME NEW p \in Procs, OnlyMoves(p), UNCHANGED <<sess, recorded>>,
         \/ /\ pc[p] \notin {"record", "upload", "reward", "remove"}
            /\ pc'[p] \notin {"record", "upload", "reward", "remove"}
         \/ /\ pc[p] \in {"record", "upload", "reward", "remove"}
            /\ pc'[p] \in {"record", "upload", "reward", "remove"}
            /\ arg'[p] = arg[p]
  PROVE  UNCHANGED Entry!vars
<1>1. \A q \in Procs, s \in Sessions : Submits(q, s)' = Submits(q, s)
  BY DEF Submits, OnlyMoves
<1>2. QED
  BY <1>1, Unseen

LEMMA ApplyEdits ==
  ASSUME IInv, NEW p \in Procs, NEW s \in Sessions, s = arg[p].sid, Apply(p)
  PROVE  Entry!Edit(s)
<1> DEFINE i == arg[p].input
           new == IF i \in Buttons THEN PressButton(sess[s], i) ELSE SendMessage(sess[s], i)
<1>1. /\ pc[p] = "apply" /\ pc'[p] = "idle" /\ arg'[p] = NoArg /\ OnlyMoves(p)
      /\ sess' = [sess EXCEPT ![s] = new] /\ UNCHANGED recorded
  BY GotoFacts DEF Apply, At
<1>2. /\ sess \in [Sessions -> Session] /\ i \in Answering \ {"yes", "no"}
  BY <1>1, HandlerFacts DEF IInv, TypeOK, HandlerOK, Using
<1>3. new \in Session /\ new.submitting = sess[s].submitting
  BY <1>2, PressButtonOK, SendMessageOK DEF Answering
<1> HIDE DEF new
<1>4. \A x \in Sessions : /\ sess'[x] \in Session
                          /\ sess'[x].submitting = sess[x].submitting
                          /\ x # s => sess'[x] = sess[x]
  BY <1>1, <1>2, <1>3
<1>5. \A q \in Procs, x \in Sessions : Submits(q, x)' = Submits(q, x)
  BY <1>1 DEF Submits, OnlyMoves, NoArg
<1>6. \A x \in Sessions : Phase(x)' = Phase(x)
  BY <1>4, <1>5, SamePhase
<1>7. Phase(s) # "submitting"
  <2>1. \A q \in Procs : ~Submits(q, s)
    <3>1. pc[p] \in Using /\ ~Submits(p, s)
      BY <1>1 DEF Using, Submits
    <3>2. QED
      BY <3>1, OneSubmits
  <2>2. QED
    BY <2>1 DEF Phase
<1>8. QED
  <2>1. [x \in Sessions |-> Phase(x)]' = [x \in Sessions |-> Phase(x)]
    BY <1>6
  <2>2. [x \in Sessions |-> sess[x].trade]' \in [Sessions -> Trade]
    BY <1>4 DEF Session
  <2>3. QED
    BY <2>1, <2>2, <1>1, <1>2, <1>4, <1>7 DEF Entry!Edit, Entry!Changes

LEMMA SubmitSubmits ==
  ASSUME IInv, NEW p \in Procs, NEW s \in Sessions, s = arg[p].sid, Submit(p)
  PROVE  Entry!Submit(s) \/ UNCHANGED Entry!vars
<1>1. pc[p] = "submit" /\ OnlyMoves(p) /\ UNCHANGED recorded
  BY GotoFacts DEF Submit, At
<1>2. sess[s] \in Session /\ sess \in [Sessions -> Session]
  BY DEF IInv, TypeOK
<1>3. ASSUME sess[s].submitting PROVE UNCHANGED Entry!vars
  <2>1. pc'[p] = "idle" /\ UNCHANGED sess
    BY <1>3, GotoFacts DEF Submit
  <2>2. QED
    BY <2>1, <1>1, UnseenStep
<1>4. ASSUME ~sess[s].submitting PROVE Entry!Submit(s)
  <2> DEFINE new == [sess[s] EXCEPT !.submitting = TRUE,
                                    !.trade.status = IF @ = "" THEN "OPEN" ELSE @]
  <2>1. pc'[p] = "record" /\ arg'[p] = arg[p]
    <3>1. Goto(p, "record")
      BY <1>4 DEF Submit
    <3>2. QED
      BY <3>1, GotoFacts
  <2>2. sess' = [sess EXCEPT ![s] = new]
    <3>1. sess' = [sess EXCEPT ![s].submitting = TRUE,
                               ![s].trade.status = IF @ = "" THEN "OPEN" ELSE @]
      BY <1>4 DEF Submit
    <3>2. QED
      BY <3>1, <1>2
  <2>3. new \in Session /\ new.submitting
    BY <1>2 DEF Session, Trade
  <2> HIDE DEF new
  <2>4. /\ sess'[s] = new /\ \A x \in Sessions \ {s} : sess'[x] = sess[x]
        /\ sess' \in [Sessions -> Session]
    BY <2>2, <2>3, <1>2
  <2>5. \A q \in Procs, x \in Sessions \ {s} : Submits(q, x)' = Submits(q, x)
    BY <2>1, <1>1 DEF Submits, OnlyMoves
  <2>6. \A x \in Sessions \ {s} : Phase(x)' = Phase(x)
    BY <2>4, <2>5, SamePhase
  <2>7. Phase(s) = "draft"
    BY <1>4 DEF Phase
  <2>8. Submits(p, s)'
    <3>1. arg[p] # NoArg
      BY <1>1, HandlerFacts DEF Answering, Buttons, Messages, NoArg
    <3>2. QED
      BY <3>1, <2>1 DEF Submits
  <2>9. Phase(s)' = "submitting"
    BY <2>3, <2>4, <2>8 DEF Phase
  <2>10. [x \in Sessions |-> Phase(x)]' =
           [[x \in Sessions |-> Phase(x)] EXCEPT ![s] = "submitting"]
    BY <2>6, <2>9
  <2>11. [x \in Sessions |-> sess[x].trade]' \in [Sessions -> Trade]
    BY <2>4 DEF Session
  <2>12. QED
    BY <2>4, <2>7, <2>10, <2>11, <1>1 DEF Entry!Submit, Entry!Changes
<1>5. QED
  BY <1>3, <1>4

(* What is stored is the trade as it is, complete, and nothing was stored. *)
LEMMA RecordStores ==
  ASSUME IInv, NEW p \in Procs, NEW s \in Sessions, s = arg[p].sid,
         NEW saved \in BOOLEAN, NEW err \in BOOLEAN, Record(p, saved, err)
  PROVE  Entry!Store(s) \/ UNCHANGED Entry!vars
<1>1. /\ pc[p] = "record" /\ pc'[p] \in {"remove", "upload"} /\ arg'[p] = arg[p]
      /\ OnlyMoves(p) /\ UNCHANGED sess
  BY GotoFacts DEF Record, At
<1>2. \A q \in Procs, x \in Sessions : Submits(q, x)' = Submits(q, x)
  BY <1>1 DEF Submits, OnlyMoves
<1>3. ASSUME ~saved PROVE UNCHANGED Entry!vars
  <2>1. UNCHANGED recorded
    BY <1>3 DEF Record
  <2>2. QED
    BY <2>1, <1>1, <1>2, Unseen
<1>4. ASSUME saved PROVE Entry!Store(s)
  <2>1. recorded' = [recorded EXCEPT ![s] = Append(@, sess[s].trade)] /\ Valid(sess[s].trade)
    BY <1>4 DEF Record
  <2>2. /\ recorded[s] = <<>> /\ sess[s].trade.status # "" /\ sess[s].submitting
        /\ sess[s].trade \in Trade /\ recorded \in [Sessions -> Seq(Trade)]
    BY <1>1 DEF IInv, TypeOK, Progress, Submitted, ToRecord, Session
  <2>3. Append(recorded[s], sess[s].trade) = <<sess[s].trade>>
    <3>1. Append(<<>>, sess[s].trade) = <<sess[s].trade>>
      OBVIOUS
    <3>2. QED
      BY <2>2, <3>1
  <2>4. recorded' = [recorded EXCEPT ![s] = <<sess[s].trade>>]
    BY <2>1, <2>2, <2>3
  <2>5. Phase(s) = "submitting"
    <3>1. Submits(p, s)
      BY <1>1, HandlerFacts DEF Submits, Answering, Buttons, Messages, NoArg
    <3>2. QED
      BY <3>1, <2>2 DEF Phase
  <2>6. /\ [x \in Sessions |-> Phase(x)]' = [x \in Sessions |-> Phase(x)]
        /\ [x \in Sessions |-> sess[x].trade]' = [x \in Sessions |-> sess[x].trade]
    BY <1>1, <1>2, SamePhase
  <2>7. sess[s].trade \in {t \in Trade : Valid(t) /\ t.status # ""}
    BY <2>1, <2>2
  <2>8. QED
    BY <2>2, <2>4, <2>5, <2>6, <2>7 DEF Entry!Store
<1>5. QED
  BY <1>3, <1>4

LEMMA RemoveEnds ==
  ASSUME IInv, NEW p \in Procs, NEW s \in Sessions, s = arg[p].sid, RemoveSession(p)
  PROVE  Entry!End(s)
<1>1. /\ pc[p] = "remove" /\ pc'[p] = "idle" /\ arg'[p] = NoArg /\ OnlyMoves(p)
      /\ UNCHANGED <<sess, recorded>>
  BY GotoFacts DEF RemoveSession, At
<1>2. Submits(p, s) /\ sess[s].submitting
  BY <1>1, HandlerFacts
  DEF Submits, Answering, Buttons, Messages, NoArg, IInv, Progress, Submitted
<1>3. Phase(s) = "submitting"
  BY <1>2 DEF Phase
<1>4. \A q \in Procs : ~Submits(q, s)'
  <2>1. \A q \in Procs : Submits(q, s) => q = p
    BY <1>1, OneSubmits DEF Using
  <2>2. QED
    BY <2>1, <1>1 DEF Submits, OnlyMoves
<1>5. Phase(s)' = "done"
  BY <1>1, <1>2, <1>4 DEF Phase
<1>6. \A x \in Sessions \ {s} : Phase(x)' = Phase(x)
  <2>1. \A q \in Procs, x \in Sessions \ {s} : Submits(q, x)' = Submits(q, x)
    BY <1>1 DEF Submits, OnlyMoves
  <2>2. QED
    BY <2>1, <1>1, SamePhase
<1>7. [x \in Sessions |-> Phase(x)]' = [[x \in Sessions |-> Phase(x)] EXCEPT ![s] = "done"]
  BY <1>5, <1>6
<1>8. QED
  BY <1>1, <1>3, <1>7 DEF Entry!End

(* guided.go 38, handler.go 579-636: a session stores at most one trade,   *)
(* complete and as it was submitted.  Answers edit a session that is not   *)
(* being submitted, because they wait for its mutex.                       *)
THEOREM FlowRefines == Spec => ImplementsTradeEntry
<1>1. Init => Entry!Init
  <2> SUFFICES ASSUME Init PROVE Entry!Init
    OBVIOUS
  <2>1. \A s \in Sessions : Phase(s) = "draft" /\ sess[s].trade \in Trade
    BY DEF Init, Phase, NewSession, Trade
  <2>2. QED
    BY <2>1 DEF Init, Entry!Init
<1>2. IInv /\ [Next]_vars => [Entry!Next]_Entry!vars
  <2> SUFFICES ASSUME IInv, [Next]_vars PROVE [Entry!Next]_Entry!vars
    OBVIOUS
  <2>1. ASSUME NEW p \in Procs, NEW u \in Users, NEW i \in Buttons \cup Messages,
               Receive(p, u, i)
        PROVE  UNCHANGED Entry!vars
    <3>1. /\ OnlyMoves(p) /\ pc[p] = "idle" /\ pc'[p] = "get" /\ UNCHANGED <<sess, recorded>>
      BY <2>1 DEF IInv, TypeOK, Receive, At, OnlyMoves
    <3>2. QED
      BY <3>1, UnseenStep
  <2>2. ASSUME NEW p \in Procs, Get(p) PROVE UNCHANGED Entry!vars
    <3>1. /\ OnlyMoves(p) /\ pc[p] = "get" /\ pc'[p] \in {"idle", "start", "cancel", "lock"}
          /\ UNCHANGED <<sess, recorded>>
      BY <2>2 DEF Get, Goto, At, IInv, TypeOK, OnlyMoves
    <3>2. QED
      BY <3>1, UnseenStep
  <2>3. ASSUME NEW p \in Procs, Start(p) \/ Cancel(p) \/ Lock(p)
        PROVE  UNCHANGED Entry!vars
    <3>1. /\ OnlyMoves(p) /\ pc[p] \in {"start", "cancel", "lock"}
          /\ pc'[p] \in {"idle", "submit", "apply"} /\ UNCHANGED <<sess, recorded>>
      BY <2>3, GotoFacts DEF Start, Cancel, Lock, At
    <3>2. QED
      BY <3>1, UnseenStep
  <2>4. ASSUME NEW p \in Procs, Apply(p) PROVE Entry!Next
    <3>1. PICK s \in Sessions : s = arg[p].sid
      BY <2>4, HandlerFacts DEF Apply, At, Using
    <3>2. QED
      BY <2>4, <3>1, ApplyEdits DEF Entry!Next
  <2>5. ASSUME NEW p \in Procs, Submit(p) PROVE [Entry!Next]_Entry!vars
    <3>1. PICK s \in Sessions : s = arg[p].sid
      BY <2>5, HandlerFacts DEF Submit, At, Using
    <3>2. QED
      BY <2>5, <3>1, SubmitSubmits DEF Entry!Next
  <2>6. ASSUME NEW p \in Procs, NEW saved \in BOOLEAN, NEW err \in BOOLEAN,
               Record(p, saved, err)
        PROVE  [Entry!Next]_Entry!vars
    <3>1. PICK s \in Sessions : s = arg[p].sid
      BY <2>6, HandlerFacts DEF Record, At, Using
    <3>2. QED
      BY <2>6, <3>1, RecordStores DEF Entry!Next
  <2>7. ASSUME NEW p \in Procs, NEW ok \in BOOLEAN, Upload(p, ok)
        PROVE  UNCHANGED Entry!vars
    <3>1. /\ pc[p] = "upload" /\ pc'[p] = "reward" /\ arg'[p] = arg[p] /\ OnlyMoves(p)
          /\ UNCHANGED recorded
      BY <2>7, GotoFacts DEF Upload, At
    <3>2. \A q \in Procs, s \in Sessions : Submits(q, s)' = Submits(q, s)
      BY <3>1 DEF Submits, OnlyMoves
    <3>3. \A s \in Sessions : /\ sess'[s].submitting = sess[s].submitting
                              /\ sess'[s].trade = sess[s].trade
      <4>1. sess \in [Sessions -> Session] /\ arg[p].sid \in Sessions
        BY <3>1, HandlerFacts DEF IInv, TypeOK, Using
      <4>2. sess[arg[p].sid] \in Session
        BY <4>1
      <4>3. /\ [sess[arg[p].sid] EXCEPT !.photo = "uploaded"].submitting =
                 sess[arg[p].sid].submitting
            /\ [sess[arg[p].sid] EXCEPT !.photo = "uploaded"].trade = sess[arg[p].sid].trade
        BY <4>2 DEF Session
      <4>4. QED
        BY <4>1, <4>3, <2>7 DEF Upload
    <3>4. QED
      BY <3>1, <3>2, <3>3, Unseen
  <2>8. ASSUME NEW p \in Procs, Reward(p) PROVE UNCHANGED Entry!vars
    <3>1. /\ pc[p] = "reward" /\ pc'[p] = "remove" /\ arg'[p] = arg[p] /\ OnlyMoves(p)
          /\ UNCHANGED <<sess, recorded>>
      BY <2>8, GotoFacts DEF Reward, At
    <3>2. QED
      BY <3>1, UnseenStep
  <2>9. ASSUME NEW p \in Procs, RemoveSession(p) PROVE Entry!Next
    <3>1. PICK s \in Sessions : s = arg[p].sid
      BY <2>9, HandlerFacts DEF RemoveSession, At, Using
    <3>2. QED
      BY <2>9, <3>1, RemoveEnds DEF Entry!Next
  <2>10. ASSUME NEW s \in Sessions, Expire(s) PROVE UNCHANGED Entry!vars
    <3>1. /\ sess' = [sess EXCEPT ![s].expired = TRUE] /\ UNCHANGED <<pc, arg, recorded>>
      BY <2>10 DEF Expire
    <3>2. sess \in [Sessions -> Session] /\ sess[s] \in Session
      BY DEF IInv, TypeOK
    <3>3. /\ [sess[s] EXCEPT !.expired = TRUE].submitting = sess[s].submitting
          /\ [sess[s] EXCEPT !.expired = TRUE].trade = sess[s].trade
      BY <3>2 DEF Session
    <3>4. \A x \in Sessions : /\ sess'[x].submitting = sess[x].submitting
                              /\ sess'[x].trade = sess[x].trade
      BY <3>1, <3>2, <3>3
    <3>5. \A q \in Procs, x \in Sessions : Submits(q, x)' = Submits(q, x)
      BY <3>1 DEF Submits
    <3>6. QED
      BY <3>1, <3>4, <3>5, Unseen
  <2>11. ASSUME CleanUp \/ UNCHANGED vars PROVE UNCHANGED Entry!vars
    <3>1. UNCHANGED <<sess, pc, arg, recorded>>
      BY <2>11 DEF CleanUp, vars
    <3>2. \A q \in Procs, x \in Sessions : Submits(q, x)' = Submits(q, x)
      BY <3>1 DEF Submits
    <3>3. QED
      BY <3>1, <3>2, Unseen
  <2>12. QED
    BY <2>1, <2>2, <2>3, <2>4, <2>5, <2>6, <2>7, <2>8, <2>9, <2>10, <2>11 DEF Next, Handle
<1>3. QED
  BY <1>1, <1>2, FlowInvariance, PTL DEF Spec, ImplementsTradeEntry, Entry!Spec
=============================================================================
