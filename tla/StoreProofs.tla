---------------------------- MODULE StoreProofs ----------------------------
(***************************************************************************)
(* Proofs about the records that the bot keeps in its own store and that   *)
(* several goroutines read and later write: the cached analysis            *)
(* (Analytics), which stays recent and is used as long as nothing clashes, *)
(* and the rewards (Rewards), whose XP is backed by what is stored,        *)
(* whatever fails and however calls overlap, and is paid exactly once      *)
(* where they do not; an achieved goal is kept.  For any members, handlers,*)
(* workers, badges, trades and times.                                      *)
(***************************************************************************)
EXTENDS Analytics, Rewards, FiniteSetTheorems, TLAPS

(***************************************************************************)
(* The cached analysis.                                                    *)
(***************************************************************************)
LEMMA LesserOf ==
  ASSUME NEW a \in Int, NEW b \in Int
  PROVE  Min({a, b}) = IF a <= b THEN a ELSE b
BY DEF Min

LEMMA SavedBeforeType ==
  ASSUME NEW t \in Int, AnalyticsTypes
  PROVE  IsFiniteSet(SavedBefore(t)) /\ Cardinality(SavedBefore(t)) \in Nat
<1>1. SavedBefore(t) \subseteq 1..Len(saved) /\ Len(saved) \in Nat
  BY DEF SavedBefore, AnalyticsTypes
<1>2. IsFiniteSet(1..Len(saved))  BY <1>1, FS_Interval
<1> QED BY <1>1, <1>2, FS_Subset, FS_CardinalityType

(* More trades cover as much, and the trades before an earlier time.       *)
LEMMA CoversMore ==
  ASSUME NEW n \in Nat, NEW m \in Nat, NEW s \in Int, NEW t \in Int,
         AnalyticsTypes, Covers(n, t), n <= m, s <= t
  PROVE  Covers(m, s)
<1>1. SavedBefore(s) \subseteq SavedBefore(t)
  BY DEF SavedBefore, AnalyticsTypes
<1>2. /\ Cardinality(SavedBefore(s)) \in Nat /\ Cardinality(SavedBefore(t)) \in Nat
      /\ Cardinality(SavedBefore(s)) <= Cardinality(SavedBefore(t))
  BY <1>1, SavedBeforeType, FS_Subset
<1>3. PageSize \in Nat  BY AnalyticsAssumption
<1>4. n >= (IF Cardinality(SavedBefore(t)) <= PageSize THEN Cardinality(SavedBefore(t)) ELSE PageSize)
  BY <1>2, <1>3, LesserOf DEF Covers
<1>5. m >= (IF Cardinality(SavedBefore(s)) <= PageSize THEN Cardinality(SavedBefore(s)) ELSE PageSize)
  BY <1>2, <1>3, <1>4
<1> QED BY <1>2, <1>3, <1>5, LesserOf DEF Covers

(* A trade saved now changes nothing of what was saved before.             *)
LEMMA CoversStays ==
  ASSUME NEW n, NEW t \in Int, AnalyticsTypes, t <= now,
         saved' \in {saved, Append(saved, now)}
  PROVE  Covers(n, t)' = Covers(n, t)
<1>1. SavedBefore(t)' = SavedBefore(t)
  <2>1. CASE saved' = saved  BY <2>1 DEF SavedBefore
  <2>2. CASE saved' = Append(saved, now)
    <3>1. /\ saved \in Seq(Nat) /\ now \in Nat /\ Len(saved) \in Nat
      BY DEF AnalyticsTypes
    <3>2. /\ DOMAIN saved' = 1..(Len(saved) + 1) /\ DOMAIN saved = 1..Len(saved)
          /\ saved'[Len(saved) + 1] = now
          /\ \A i \in 1..Len(saved) : saved'[i] = saved[i]
      BY <2>2, <3>1
    <3>3. ~(now < t)  BY <3>1
    <3>4. \A i \in 1..(Len(saved) + 1) : i \in 1..Len(saved) \/ i = Len(saved) + 1
      BY <3>1
    <3>5. DOMAIN saved \subseteq DOMAIN saved'  BY <3>1, <3>2
    <3> QED BY <3>2, <3>3, <3>4, <3>5 DEF SavedBefore
  <2> QED BY <2>1, <2>2
<1> QED BY <1>1 DEF Covers

LEMMA TaskTypes ==
  ASSUME NEW t \in Tasks
  PROVE  /\ t.pc \in {"idle", "start", "read", "ask", "save"}
         /\ t.pc # "idle" => t.since \in Nat
         /\ t.pc \in {"ask", "save"} => t.total \in Nat
         /\ t.pc = "save" => t.expires \in Nat
BY DEF Tasks

LEMMA RecentStays ==
  ASSUME NEW t \in Tasks, AnalyticsTypes, Recent(t),
         \/ now' = now /\ saved' \in {saved, Append(saved, now)}
         \/ /\ now' = now + 1 /\ saved' = saved
            /\ t.pc # "idle" => now - t.since < MaxLatency
  PROVE  Recent(t)'
<1> USE AnalyticsAssumption, TaskTypes
<1>0. /\ now \in Nat /\ TTL \in Nat /\ MaxLatency \in Nat
      /\ now <= now' /\ now' \in Nat /\ saved' \in {saved, Append(saved, now)}
  BY DEF AnalyticsTypes
<1>1. t.pc \in {"ask", "save"} => Covers(t.total, t.since)'
  <2> SUFFICES ASSUME t.pc \in {"ask", "save"}  PROVE Covers(t.total, t.since)'
    OBVIOUS
  <2>1. t.since \in Int /\ t.since <= now /\ Covers(t.total, t.since)  BY DEF Recent
  <2> QED BY <1>0, <2>1, CoversStays
<1>2. t.pc # "idle" => t.since <= now' /\ now' <= t.since + MaxLatency
  BY <1>0 DEF Recent
<1>3. t.pc = "save" => t.expires <= now' + TTL  BY <1>0 DEF Recent
<1> QED BY <1>1, <1>2, <1>3 DEF Recent

LEMMA CachedStays ==
  ASSUME NEW c \in [total : Nat, expires : Nat], AnalyticsTypes, RecentlyCached(c),
         now' \in {now, now + 1}, saved' \in {saved, Append(saved, now)}
  PROVE  RecentlyCached(c)'
<1> DEFINE date == c.expires - TTL - MaxLatency
<1>0. now \in Nat /\ TTL \in Nat /\ MaxLatency \in Nat
  BY AnalyticsAssumption DEF AnalyticsTypes
<1>1. date \in Int /\ date <= now /\ c.expires <= now' + TTL
  BY <1>0 DEF RecentlyCached
<1>2. c.total > 0 => Covers(c.total, date)  BY DEF RecentlyCached
<1> HIDE DEF date
<1>3. c.total > 0 => Covers(c.total, date)'  BY <1>1, <1>2, CoversStays
<1> QED BY <1>1, <1>3 DEF RecentlyCached, date

(* What ReadTrades counts, and what Save puts into the cache.              *)
PageOf == Min({Len(saved), PageSize})

LEMMA PageType ==
  ASSUME AnalyticsTypes, saved # <<>>
  PROVE  /\ PageOf \in Nat \ {0} /\ PageOf <= Len(saved) /\ PageOf <= PageSize
         /\ PageOf \in {Len(saved), PageSize} /\ Len(saved) \in Nat /\ PageSize \in Nat
<1>1. Len(saved) \in Nat \ {0} /\ PageSize \in Nat \ {0}
  BY AnalyticsAssumption DEF AnalyticsTypes
<1>2. PageOf = IF Len(saved) <= PageSize THEN Len(saved) ELSE PageSize
  BY <1>1, LesserOf DEF PageOf
<1> QED BY <1>1, <1>2

LEMMA ReadIsRecent ==
  ASSUME AnalyticsTypes, saved # <<>>, NEW t \in Int
  PROVE  Covers(PageOf, t)
<1>1. Cardinality(SavedBefore(t)) \in Nat /\ Cardinality(SavedBefore(t)) <= Len(saved)
  <2>1. SavedBefore(t) \subseteq 1..Len(saved)  BY DEF SavedBefore, AnalyticsTypes
  <2>2. IsFiniteSet(1..Len(saved)) /\ Cardinality(1..Len(saved)) = Len(saved)
    <3>1. Len(saved) \in Nat /\ 1 \in Int /\ Len(saved) \in Int  BY PageType
    <3>2. Cardinality(1..Len(saved)) = IF 1 > Len(saved) THEN 0 ELSE Len(saved) - 1 + 1
      BY <3>1, FS_Interval
    <3> QED BY <3>1, <3>2, FS_Interval
  <2> QED BY <2>1, <2>2, FS_Subset, SavedBeforeType
<1>2. Min({Cardinality(SavedBefore(t)), PageSize})
      = IF Cardinality(SavedBefore(t)) <= PageSize THEN Cardinality(SavedBefore(t)) ELSE PageSize
  BY <1>1, PageType, LesserOf
<1> QED BY <1>1, <1>2, PageType DEF Covers

LEMMA SaveIsRecent ==
  ASSUME AnalyticsTypes, NEW t \in Tasks, t.pc = "save", Recent(t)
  PROVE  /\ RecentlyCached([total |-> t.total, expires |-> t.expires])
         /\ Covers(t.total, now - TTL - MaxLatency)
<1>1. /\ now \in Nat /\ TTL \in Nat /\ MaxLatency \in Nat
      /\ t.since \in Nat /\ t.total \in Nat /\ t.expires \in Nat
  BY TaskTypes, AnalyticsAssumption DEF AnalyticsTypes
<1>2. /\ Covers(t.total, t.since) /\ t.expires <= now + TTL /\ now <= t.since + MaxLatency
  BY DEF Recent
<1>3. t.expires - TTL - MaxLatency <= t.since /\ now - TTL - MaxLatency <= t.since
  BY <1>1, <1>2
<1>4. t.expires - TTL - MaxLatency \in Int /\ now - TTL - MaxLatency \in Int  BY <1>1
<1>5. Covers(t.total, t.expires - TTL - MaxLatency)
  BY <1>1, <1>2, <1>3, <1>4, CoversMore
<1>6. Covers(t.total, now - TTL - MaxLatency)
  BY <1>1, <1>2, <1>3, <1>4, CoversMore
<1> QED BY <1>2, <1>5, <1>6 DEF RecentlyCached

-----------------------------------------------------------------------------
LEMMA AnalyticsTypesKept ==
  ASSUME AnalyticsTypes, [AnalyticsNext]_analyticsVars
  PROVE  AnalyticsTypes'
<1> USE AnalyticsAssumption
<1>0. /\ now \in Nat /\ saved \in Seq(Nat) /\ TTL \in Nat
      /\ \A h \in Handlers : task[h] \in Tasks
  BY DEF AnalyticsTypes
<1>1. ASSUME NEW h \in Handlers, NEW t \in Tasks, task' = [task EXCEPT ![h] = t]
      PROVE  task' \in [Handlers -> Tasks]
  BY <1>1 DEF AnalyticsTypes
<1>2. Idle \in Tasks  BY DEF Idle, Tasks
<1>3. CASE SaveTrade
  <2>1. saved' \in Seq(Nat)  BY <1>0, <1>3 DEF SaveTrade
  <2> QED BY <1>3, <2>1 DEF SaveTrade, AnalyticsTypes
<1>4. CASE PassTime  BY <1>4 DEF PassTime, AnalyticsTypes
<1>5. ASSUME NEW h \in Handlers, Analyze(h)  PROVE AnalyticsTypes'
  <2>1. [pc |-> "start", since |-> now] \in Tasks  BY <1>0 DEF Tasks
  <2>2. task' \in [Handlers -> Tasks]  BY <1>1, <1>5, <2>1 DEF Analyze
  <2> QED BY <1>5, <2>2 DEF Analyze, AnalyticsTypes
<1>6. ASSUME NEW h \in Handlers, Hit(h)  PROVE AnalyticsTypes'
  <2>1. task' \in [Handlers -> Tasks]  BY <1>1, <1>2, <1>6 DEF Hit, Show
  <2>2. shown' \in Nat  BY <1>6 DEF Hit, Show, AnalyticsTypes
  <2> QED BY <1>6, <2>1, <2>2 DEF Hit, Show, AnalyticsTypes
<1>7. ASSUME NEW h \in Handlers, NEW failed \in BOOLEAN, Miss(h, failed)  PROVE AnalyticsTypes'
  <2>1. task' \in [Handlers -> Tasks]
    <3>1. task[h] \in [pc : {"start", "read"}, since : Nat]
      BY <1>0, <1>7 DEF Miss, Tasks
    <3>2. [task[h] EXCEPT !.pc = "read"] \in Tasks  BY <3>1 DEF Tasks
    <3>3. task' = [task EXCEPT ![h] = [task[h] EXCEPT !.pc = "read"]]
      BY <1>7 DEF Miss, AnalyticsTypes
    <3> QED BY <1>1, <3>2, <3>3
  <2>2. clashed' \in BOOLEAN  BY <1>7 DEF Miss
  <2> QED BY <1>7, <2>1, <2>2 DEF Miss, AnalyticsTypes
<1>8. ASSUME NEW h \in Handlers, ReadTrades(h)  PROVE AnalyticsTypes'
  <2> DEFINE t == [pc |-> "ask", since |-> task[h].since, total |-> Min({Len(saved), PageSize})]
  <2>1. task[h].since \in Nat  BY <1>0, <1>8, TaskTypes DEF ReadTrades
  <2>2. Min({Len(saved), PageSize}) \in Nat  BY <1>8, PageType DEF ReadTrades, PageOf
  <2>3. t \in Tasks  BY <2>1, <2>2 DEF Tasks
  <2>4. task' = [task EXCEPT ![h] = t]  BY <1>8 DEF ReadTrades, AnalyticsTypes
  <2> HIDE DEF t
  <2>5. task' \in [Handlers -> Tasks]  BY <1>1, <2>3, <2>4
  <2> QED BY <1>8, <2>5 DEF ReadTrades, AnalyticsTypes
<1>9. ASSUME NEW h \in Handlers, Ask(h)  PROVE AnalyticsTypes'
  <2> DEFINE t == [pc |-> "save", since |-> task[h].since, total |-> task[h].total,
                   expires |-> now + TTL]
  <2>1. task[h].since \in Nat /\ task[h].total \in Nat  BY <1>0, <1>9, TaskTypes DEF Ask
  <2>2. t \in Tasks  BY <1>0, <2>1 DEF Tasks
  <2>3. task' = [task EXCEPT ![h] = t]  BY <1>9 DEF Ask, AnalyticsTypes
  <2> HIDE DEF t
  <2>4. task' \in [Handlers -> Tasks]  BY <1>1, <2>2, <2>3
  <2> QED BY <1>0, <1>9, <2>4 DEF Ask, AnalyticsTypes
<1>10. ASSUME NEW h \in Handlers, NEW failed \in BOOLEAN, Save(h, failed)  PROVE AnalyticsTypes'
  <2>1. task[h].total \in Nat /\ task[h].expires \in Nat
    BY <1>0, <1>10, TaskTypes DEF Save
  <2>2. task' \in [Handlers -> Tasks]  BY <1>1, <1>2, <1>10 DEF Save, Show
  <2>3. cache' \in [total : Nat, expires : Nat]  BY <1>10, <2>1 DEF Save, AnalyticsTypes
  <2>4. shown' \in Nat /\ clashed' \in BOOLEAN  BY <1>10, <2>1 DEF Save, Show
  <2> QED BY <1>10, <2>2, <2>3, <2>4 DEF Save, AnalyticsTypes
<1>11. ASSUME NEW h \in Handlers, Fail(h)  PROVE AnalyticsTypes'
  <2>1. task' \in [Handlers -> Tasks]  BY <1>1, <1>2, <1>11 DEF Fail
  <2> QED BY <1>11, <2>1 DEF Fail, AnalyticsTypes
<1>12. CASE UNCHANGED analyticsVars  BY <1>12 DEF analyticsVars, AnalyticsTypes
<1> QED BY <1>3, <1>4, <1>5, <1>6, <1>7, <1>8, <1>9, <1>10, <1>11, <1>12 DEF AnalyticsNext

(***************************************************************************)
(* What is under way and what is cached stays recent.                      *)
(***************************************************************************)
LEMMA RecentKept ==
  ASSUME AnalyticsTypes, AnalyticsTypes', AnalysesAreRecent, [AnalyticsNext]_analyticsVars
  PROVE  AnalysesAreRecent'
<1> USE AnalyticsAssumption
<1>0. /\ now \in Nat /\ TTL \in Nat /\ cache \in [total : Nat, expires : Nat]
      /\ \A h \in Handlers : task[h] \in Tasks /\ Recent(task[h])
      /\ RecentlyCached(cache)
  BY DEF AnalyticsTypes, AnalysesAreRecent
<1>S. ASSUME now' = now, saved' \in {saved, Append(saved, now)}
      PROVE  /\ \A t \in Tasks : Recent(t) => Recent(t)'
             /\ \A c \in [total : Nat, expires : Nat] : RecentlyCached(c) => RecentlyCached(c)'
  <2>1. \A t \in Tasks : Recent(t) => Recent(t)'  BY <1>S, RecentStays
  <2>2. \A c \in [total : Nat, expires : Nat] : RecentlyCached(c) => RecentlyCached(c)'
    BY <1>S, CachedStays
  <2> QED BY <2>1, <2>2
(* It is enough that the one handler that moves is recent.                 *)
<1>M. ASSUME NEW h \in Handlers, NEW t \in Tasks, Recent(t),
             task' = [task EXCEPT ![h] = t], UNCHANGED <<now, saved, cache>>
      PROVE  AnalysesAreRecent'
  <2>1. \A g \in Handlers : task'[g] = task[g] \/ task'[g] = t  BY <1>M DEF AnalyticsTypes
  <2>2. \A g \in Handlers : \E u \in Tasks : task'[g] = u /\ Recent(u)'
    BY <1>0, <1>M, <1>S, <2>1
  <2>3. \A g \in Handlers : Recent(task[g])'
    BY <2>2 DEF Recent, Covers, SavedBefore
  <2>4. RecentlyCached(cache)'  BY <1>0, <1>M DEF RecentlyCached, Covers, SavedBefore
  <2> QED BY <2>3, <2>4 DEF AnalysesAreRecent
<1>1. Recent(Idle)  BY DEF Recent, Idle
<1>2. Idle \in Tasks  BY DEF Idle, Tasks
<1>3. CASE SaveTrade
  <2>1. task' = task /\ cache' = cache /\ now' = now /\ saved' = Append(saved, now)
    BY <1>3 DEF SaveTrade
  <2>2. \A g \in Handlers : \E u \in Tasks : task'[g] = u /\ Recent(u)'
    BY <1>0, <1>S, <2>1
  <2>3. \E c \in [total : Nat, expires : Nat] : cache' = c /\ RecentlyCached(c)'
    BY <1>0, <1>S, <2>1
  <2> QED BY <2>2, <2>3 DEF AnalysesAreRecent, Recent, RecentlyCached, Covers, SavedBefore
<1>4. CASE PassTime
  <2>1. task' = task /\ cache' = cache /\ now' = now + 1 /\ saved' = saved
        /\ \A h \in Handlers : task[h].pc # "idle" => now - task[h].since < MaxLatency
    BY <1>4 DEF PassTime
  <2>2. ASSUME NEW g \in Handlers
        PROVE  \E u \in Tasks : task'[g] = u /\ Recent(u)'
    <3>1. PICK u \in Tasks : u = task[g]  BY <1>0
    <3>2. u.pc # "idle" => now - u.since < MaxLatency  BY <2>1, <3>1
    <3>3. Recent(u)  BY <1>0, <3>1
    <3>4. Recent(u)'  BY <2>1, <3>2, <3>3, RecentStays
    <3> QED BY <2>1, <3>1, <3>4
  <2>3. \E c \in [total : Nat, expires : Nat] : cache' = c /\ RecentlyCached(c)'
    <3>1. PICK c \in [total : Nat, expires : Nat] : c = cache  BY <1>0
    <3>2. RecentlyCached(c)  BY <1>0, <3>1
    <3>3. RecentlyCached(c)'  BY <2>1, <3>2, CachedStays
    <3> QED BY <2>1, <3>1, <3>3
  <2> QED BY <2>2, <2>3 DEF AnalysesAreRecent, Recent, RecentlyCached, Covers, SavedBefore
<1>5. ASSUME NEW h \in Handlers, Analyze(h)  PROVE AnalysesAreRecent'
  <2>1. PICK t : t = [pc |-> "start", since |-> now]  OBVIOUS
  <2>2. t \in Tasks /\ Recent(t)  BY <1>0, <2>1 DEF Tasks, Recent
  <2> QED BY <1>5, <1>M, <2>1, <2>2 DEF Analyze
<1>6. ASSUME NEW h \in Handlers, Hit(h) \/ Fail(h)  PROVE AnalysesAreRecent'
  <2>1. task' = [task EXCEPT ![h] = Idle] /\ UNCHANGED <<now, saved, cache>>
    BY <1>6 DEF Hit, Show, Fail
  <2> QED BY <1>1, <1>2, <1>M, <2>1
<1>7. ASSUME NEW h \in Handlers, NEW failed \in BOOLEAN, Miss(h, failed)
      PROVE  AnalysesAreRecent'
  <2>1. task[h] \in [pc : {"start", "read"}, since : Nat] /\ Recent(task[h])
    BY <1>0, <1>7 DEF Miss, Tasks
  <2>2. PICK t : t = [task[h] EXCEPT !.pc = "read"]  OBVIOUS
  <2>3. t \in Tasks /\ Recent(t)  BY <2>1, <2>2 DEF Tasks, Recent
  <2>4. task' = [task EXCEPT ![h] = t]  BY <1>7, <2>2 DEF Miss, AnalyticsTypes
  <2>5. UNCHANGED <<now, saved, cache>>  BY <1>7 DEF Miss
  <2> QED BY <1>M, <2>3, <2>4, <2>5
<1>8. ASSUME NEW h \in Handlers, ReadTrades(h)  PROVE AnalysesAreRecent'
  <2>1. PICK n : n = PageOf  OBVIOUS
  <2>2. PICK t : t = [pc |-> "ask", since |-> task[h].since, total |-> n]  OBVIOUS
  <2>3. task[h].pc = "read" /\ task[h] \in Tasks /\ Recent(task[h]) /\ saved # <<>>
    BY <1>0, <1>8 DEF ReadTrades
  <2>4. task[h].since \in Nat /\ task[h].since <= now /\ now <= task[h].since + MaxLatency
    BY <2>3, TaskTypes DEF Recent
  <2>5. n \in Nat /\ Covers(n, task[h].since)  BY <2>1, <2>3, <2>4, PageType, ReadIsRecent
  <2>6. t \in Tasks  BY <2>2, <2>4, <2>5 DEF Tasks
  <2>7. Recent(t)  BY <2>2, <2>4, <2>5 DEF Recent
  <2>8. task' = [task EXCEPT ![h] = t]
    BY <1>8, <2>1, <2>2 DEF ReadTrades, PageOf, AnalyticsTypes
  <2> QED BY <1>8, <1>M, <2>6, <2>7, <2>8 DEF ReadTrades
<1>9. ASSUME NEW h \in Handlers, Ask(h)  PROVE AnalysesAreRecent'
  <2>1. PICK t : t = [pc |-> "save", since |-> task[h].since, total |-> task[h].total,
                      expires |-> now + TTL]
    OBVIOUS
  <2>2. task[h].pc = "ask" /\ task[h] \in Tasks /\ Recent(task[h])  BY <1>0, <1>9 DEF Ask
  <2>3. t \in Tasks  BY <1>0, <2>1, <2>2, TaskTypes DEF Tasks
  <2>4. Recent(t)  BY <1>0, <2>1, <2>2 DEF Recent
  <2>5. task' = [task EXCEPT ![h] = t]  BY <1>9, <2>1 DEF Ask, AnalyticsTypes
  <2> QED BY <1>9, <1>M, <2>3, <2>4, <2>5 DEF Ask
<1>10. ASSUME NEW h \in Handlers, NEW failed \in BOOLEAN, Save(h, failed)
       PROVE  AnalysesAreRecent'
  <2>1. /\ task' = [task EXCEPT ![h] = Idle] /\ now' = now /\ saved' = saved
        /\ task[h].pc = "save" /\ task[h] \in Tasks
        /\ cache' \in {cache, [total |-> task[h].total, expires |-> task[h].expires]}
    BY <1>0, <1>10 DEF Save, Show
  <2>2. RecentlyCached([total |-> task[h].total, expires |-> task[h].expires])
    BY <1>0, <2>1, SaveIsRecent
  <2>3. [total |-> task[h].total, expires |-> task[h].expires] \in [total : Nat, expires : Nat]
    BY <2>1, TaskTypes
  <2>4. \E c \in [total : Nat, expires : Nat] : cache' = c /\ RecentlyCached(c)'
    BY <1>0, <1>S, <2>1, <2>2, <2>3
  <2>5. \A g \in Handlers : task'[g] = task[g] \/ task'[g] = Idle
    BY <2>1 DEF AnalyticsTypes
  <2>6. \A g \in Handlers : \E u \in Tasks : task'[g] = u /\ Recent(u)'
    BY <1>0, <1>1, <1>2, <1>S, <2>1, <2>5
  <2> QED BY <2>4, <2>6 DEF AnalysesAreRecent, Recent, RecentlyCached, Covers, SavedBefore
<1>11. CASE UNCHANGED analyticsVars
  BY <1>11 DEF analyticsVars, AnalysesAreRecent, Recent, RecentlyCached, Covers, SavedBefore
<1> QED BY <1>3, <1>4, <1>5, <1>6, <1>7, <1>8, <1>9, <1>10, <1>11 DEF AnalyticsNext

-----------------------------------------------------------------------------
(***************************************************************************)
(* One analysis at a time, of ever more trades, while nothing clashes.     *)
(***************************************************************************)
LEMMA OneKept ==
  ASSUME AnalyticsTypes, OneAtATime, TotalsGrow, AnalyticsNext, ~clashed, ~clashed'
  PROVE  OneAtATime' /\ TotalsGrow'
<1> USE AnalyticsAssumption
<1>0. /\ now \in Nat /\ TTL \in Nat /\ cache.total \in Nat /\ cache.expires \in Nat
      /\ shown \in Nat /\ answered \in Int /\ Len(saved) \in Nat /\ PageSize \in Nat
      /\ \A h \in Handlers : task[h] \in Tasks
  BY DEF AnalyticsTypes
<1>1. \A h \in Handlers : task[h].pc \in {"ask", "save"} => task[h].total \in Nat
  BY <1>0, TaskTypes
<1>2. Idle.pc = "idle"  BY DEF Idle
(* What changes when handler h moves on with t.                            *)
<1>M. ASSUME NEW h \in Handlers, NEW t, task' = [task EXCEPT ![h] = t]
      PROVE  /\ task'[h] = t
             /\ \A g \in Handlers : g # h => task'[g] = task[g]
  BY <1>M DEF AnalyticsTypes
<1>3. CASE SaveTrade
  <2>1. Len(saved)' = Len(saved) + 1  BY <1>3 DEF SaveTrade, AnalyticsTypes
  <2>2. OneAtATime'  BY <1>3 DEF SaveTrade, OneAtATime, Analyzing
  <2>3. UNCHANGED <<shown, cache, task>>  BY <1>3 DEF SaveTrade
  <2>4. TotalsGrow'  BY <1>0, <1>1, <2>1, <2>3 DEF TotalsGrow
  <2> QED BY <2>2, <2>4
<1>4. CASE PassTime
  <2>1. now' = now + 1 /\ UNCHANGED <<saved, cache, task, shown, clashed, answered>>
    BY <1>4 DEF PassTime
  <2>2. OneAtATime'  BY <1>0, <2>1 DEF OneAtATime, Analyzing
  <2> QED BY <2>1, <2>2 DEF TotalsGrow
<1>5. ASSUME NEW h \in Handlers, Analyze(h) \/ Fail(h)  PROVE OneAtATime' /\ TotalsGrow'
  <2>1. UNCHANGED <<now, saved, cache, shown, clashed, answered>>
        /\ task'[h].pc \in {"idle", "start"} /\ task[h].pc # "save"
        /\ \A g \in Handlers : g # h => task'[g] = task[g]
    BY <1>2, <1>5, <1>M DEF Analyze, Fail
  <2>2. Analyzing' \subseteq Analyzing  BY <2>1 DEF Analyzing
  <2>3. OneAtATime'  BY <2>1, <2>2 DEF OneAtATime
  <2>4. TotalsGrow'  BY <2>1 DEF TotalsGrow
  <2> QED BY <2>3, <2>4
<1>6. ASSUME NEW h \in Handlers, Hit(h)  PROVE OneAtATime' /\ TotalsGrow'
  <2>1. UNCHANGED <<now, saved, cache, clashed, answered>>
        /\ task'[h].pc = "idle" /\ task[h].pc = "start" /\ shown' = cache.total
        /\ \A g \in Handlers : g # h => task'[g] = task[g]
    BY <1>2, <1>6, <1>M DEF Hit, Show
  <2>2. Analyzing' \subseteq Analyzing  BY <2>1 DEF Analyzing
  <2>3. OneAtATime'  BY <2>1, <2>2 DEF OneAtATime
  <2>4. TotalsGrow'  BY <1>0, <2>1 DEF TotalsGrow
  <2> QED BY <2>3, <2>4
<1>7. ASSUME NEW h \in Handlers, NEW failed \in BOOLEAN, Miss(h, failed)
      PROVE  OneAtATime' /\ TotalsGrow'
  <2>1. UNCHANGED <<now, saved, cache, shown, answered>>
        /\ task[h].pc = "start" /\ ~Cached /\ Analyzing = {}
        /\ task' = [task EXCEPT ![h].pc = "read"]
    BY <1>7 DEF Miss
  <2>2. task'[h].pc = "read" /\ \A g \in Handlers : g # h => task'[g] = task[g]
    <3>1. task[h] \in [pc : {"start", "read"}, since : Nat]  BY <1>0, <2>1 DEF Tasks
    <3> QED BY <2>1, <3>1 DEF AnalyticsTypes
  <2>3. Analyzing' \subseteq {h}  BY <2>1, <2>2 DEF Analyzing
  <2>4. cache.expires <= now  BY <1>0, <2>1 DEF Cached, TotalsGrow
  <2>5. OneAtATime'  BY <2>1, <2>2, <2>3, <2>4 DEF OneAtATime
  <2>6. TotalsGrow'  BY <2>1, <2>2 DEF TotalsGrow
  <2> QED BY <2>5, <2>6
<1>8. ASSUME NEW h \in Handlers, ReadTrades(h)  PROVE OneAtATime' /\ TotalsGrow'
  <2>0. PICK t : t = [pc |-> "ask", since |-> task[h].since, total |-> PageOf]  OBVIOUS
  <2>1. UNCHANGED <<now, saved, cache, shown, answered>>
        /\ task[h].pc = "read" /\ task'[h].pc = "ask" /\ task'[h].total = PageOf
        /\ (\A g \in Handlers : g # h => task'[g] = task[g])
        /\ saved # <<>>
    <3>1. task' = [task EXCEPT ![h] = t]
      BY <1>8, <2>0 DEF ReadTrades, PageOf, AnalyticsTypes
    <3>2. task'[h] = t /\ \A g \in Handlers : g # h => task'[g] = task[g]
      BY <1>M, <3>1
    <3>3. t.pc = "ask" /\ t.total = PageOf  BY <2>0
    <3>4. UNCHANGED <<now, saved, cache, shown, answered>>
          /\ task[h].pc = "read" /\ saved # <<>>
      BY <1>8 DEF ReadTrades
    <3> QED BY <3>2, <3>3, <3>4
  <2>2. /\ PageOf \in Nat /\ PageOf > 0 /\ PageOf <= Len(saved) /\ PageOf <= PageSize
        /\ cache.total <= PageOf
    BY <1>0, <2>1, PageType DEF TotalsGrow
  <2>3. Analyzing' \subseteq Analyzing  BY <2>1 DEF Analyzing
  <2>4. OneAtATime'  BY <1>0, <2>1, <2>2, <2>3 DEF OneAtATime
  <2>5. TotalsGrow'  BY <2>1, <2>2 DEF TotalsGrow
  <2> QED BY <2>4, <2>5
<1>9. ASSUME NEW h \in Handlers, Ask(h)  PROVE OneAtATime' /\ TotalsGrow'
  <2>0. PICK t : t = [pc |-> "save", since |-> task[h].since, total |-> task[h].total,
                      expires |-> now + TTL]
    OBVIOUS
  <2>1. UNCHANGED <<now, saved, cache, shown>>
        /\ task[h].pc = "ask" /\ task'[h].pc = "save" /\ task'[h].total = task[h].total
        /\ task'[h].expires = now + TTL /\ answered' = now
        /\ \A g \in Handlers : g # h => task'[g] = task[g]
    <3>1. task' = [task EXCEPT ![h] = t]  BY <1>9, <2>0 DEF Ask, AnalyticsTypes
    <3>2. task'[h] = t /\ \A g \in Handlers : g # h => task'[g] = task[g]
      BY <1>M, <3>1
    <3>3. t.pc = "save" /\ t.total = task[h].total /\ t.expires = now + TTL  BY <2>0
    <3>4. UNCHANGED <<now, saved, cache, shown>> /\ task[h].pc = "ask" /\ answered' = now
      BY <1>9 DEF Ask
    <3> QED BY <3>2, <3>3, <3>4
  <2>2. Analyzing' \subseteq Analyzing /\ h \in Analyzing  BY <2>1 DEF Analyzing
  <2>3. \A g \in Handlers : g # h => task'[g].pc \notin {"read", "ask", "save"}
    BY <2>1, <2>2 DEF OneAtATime, Analyzing
  <2>4. OneAtATime'  BY <2>1, <2>2, <2>3 DEF OneAtATime
  <2>5. TotalsGrow'  BY <2>1 DEF TotalsGrow
  <2> QED BY <2>4, <2>5
<1>10. ASSUME NEW h \in Handlers, NEW failed \in BOOLEAN, Save(h, failed)
       PROVE  OneAtATime' /\ TotalsGrow'
  <2>1. UNCHANGED <<now, saved, answered>>
        /\ task[h].pc = "save" /\ task'[h].pc = "idle" /\ shown' = task[h].total
        /\ cache' = [total |-> task[h].total, expires |-> task[h].expires]
        /\ \A g \in Handlers : g # h => task'[g] = task[g]
    BY <1>2, <1>10, <1>M DEF Save, Show
  <2>2. \A g \in Handlers : task'[g].pc \notin {"read", "ask", "save"}
    BY <2>1 DEF OneAtATime, Analyzing
  <2>3. Analyzing' = {}  BY <2>2 DEF Analyzing
  <2>4. OneAtATime'  BY <2>1, <2>2, <2>3 DEF OneAtATime
  <2>5. TotalsGrow'  BY <1>0, <1>1, <2>1, <2>2 DEF TotalsGrow, OneAtATime
  <2> QED BY <2>4, <2>5
<1> QED BY <1>3, <1>4, <1>5, <1>6, <1>7, <1>8, <1>9, <1>10 DEF AnalyticsNext

(* The inductive invariant of analytics.go 31-97: how old what is under    *)
(* way and what is cached may be, and the order of undisturbed analyses.   *)
THEOREM AnalyticsInvariance == AnalyticsSpec => []AnalyticsIInv
<1>1. ASSUME AnalyticsInit  PROVE AnalyticsIInv
  <2> USE <1>1, AnalyticsAssumption DEF AnalyticsInit
  <2>1. \A h \in Handlers : task[h] = Idle  OBVIOUS
  <2>2. Idle.pc = "idle" /\ Idle \in Tasks  BY DEF Idle, Tasks
  <2>3. AnalyticsTypes
    <3>1. task \in [Handlers -> Tasks]  BY <2>2
    <3>2. saved \in Seq(Nat) /\ cache \in [total : Nat, expires : Nat]  OBVIOUS
    <3>3. -TTL \in Int  OBVIOUS
    <3>4. now \in 0..MaxTime /\ shown \in Nat /\ answered \in Int  BY <3>3
    <3>5. clashed \in BOOLEAN  OBVIOUS
    <3> QED BY <3>1, <3>2, <3>4, <3>5 DEF AnalyticsTypes
  <2>4. AnalysesAreRecent  BY <2>1, <2>2 DEF AnalysesAreRecent, Recent, RecentlyCached
  <2>5. OneAtATime  BY <2>1, <2>2 DEF OneAtATime, Analyzing
  <2>6. TotalsGrow  BY <2>1, <2>2 DEF TotalsGrow
  <2> QED BY <2>3, <2>4, <2>5, <2>6 DEF AnalyticsIInv
<1>2. ASSUME AnalyticsIInv, [AnalyticsNext]_analyticsVars  PROVE AnalyticsIInv'
  <2>1. AnalyticsTypes'  BY <1>2, AnalyticsTypesKept DEF AnalyticsIInv
  <2>2. AnalysesAreRecent'  BY <1>2, <2>1, RecentKept DEF AnalyticsIInv
  <2>3. ~clashed' => OneAtATime' /\ TotalsGrow'
    <3>1. CASE AnalyticsNext
      <4>1. ~clashed' => ~clashed
        BY <3>1 DEF AnalyticsNext, SaveTrade, PassTime, Analyze, Hit, Miss, ReadTrades, Ask,
           Save, Fail
      <4> QED BY <1>2, <3>1, <4>1, OneKept DEF AnalyticsIInv
    <3>2. CASE UNCHANGED analyticsVars
      BY <1>2, <3>2 DEF analyticsVars, AnalyticsIInv, OneAtATime, TotalsGrow, Analyzing
    <3> QED BY <1>2, <3>1, <3>2
  <2> QED BY <2>1, <2>2, <2>3 DEF AnalyticsIInv
<1> QED BY <1>1, <1>2, PTL DEF AnalyticsSpec

(* Which steps show an analysis, and of how many trades.                   *)
LEMMA WhatIsShown ==
  ASSUME AnalyticsTypes, AnalyticsNext, NEW h \in Handlers, Shows(h)
  PROVE  \/ Hit(h) /\ shown' = cache.total
         \/ /\ \E failed \in BOOLEAN : Save(h, failed)
            /\ task[h].pc = "save" /\ shown' = task[h].total
<1>1. PICK g \in Handlers :
        \/ Analyze(g) \/ Hit(g) \/ ReadTrades(g) \/ Ask(g) \/ Fail(g)
        \/ \E failed \in BOOLEAN : Miss(g, failed) \/ Save(g, failed)
  BY DEF AnalyticsNext, SaveTrade, PassTime, Shows
<1>2. g = h
  <2> SUFFICES ASSUME g # h  PROVE FALSE  OBVIOUS
  <2>1. task'[h] = task[h]
    BY <1>1 DEF Analyze, Hit, Show, ReadTrades, Ask, Fail, Miss, Save, AnalyticsTypes
  <2> QED BY <2>1 DEF Shows
<1>3. ~Analyze(h) /\ ~ReadTrades(h) /\ ~Ask(h) /\ ~Fail(h)
  BY DEF Shows, Analyze, ReadTrades, Ask, Fail
<1>4. ASSUME NEW failed \in BOOLEAN, Miss(h, failed)  PROVE FALSE
  <2>1. task[h] \in [pc : {"start", "read"}, since : Nat]
    BY <1>4 DEF Miss, AnalyticsTypes, Tasks
  <2>2. task'[h].pc = "read"  BY <1>4, <2>1 DEF Miss, AnalyticsTypes
  <2> QED BY <2>2 DEF Shows
<1>5. Hit(h) \/ \E failed \in BOOLEAN : Save(h, failed)  BY <1>1, <1>2, <1>3, <1>4
<1> QED BY <1>5 DEF Hit, Save, Show

(* analytics.go 30, 84-94: an analysis that is shown is about every trade  *)
(* saved a day and a call before, whatever overlaps or fails.              *)
THEOREM AlwaysShownRecent == AnalyticsSpec => ShownIsRecent
<1> DEFINE ShowsRecent ==
      \A h \in Handlers : Shows(h) =>
        shown' >= Min({Cardinality(SavedBefore(now - TTL - MaxLatency)), PageSize})
<1>1. ASSUME AnalyticsIInv, AnalyticsNext  PROVE ShowsRecent
  <2> SUFFICES ASSUME NEW h \in Handlers, Shows(h)
               PROVE  Covers(shown', now - TTL - MaxLatency)
    BY DEF Covers
  <2>0. /\ AnalyticsTypes /\ AnalysesAreRecent /\ task[h] \in Tasks /\ Recent(task[h])
        /\ now \in Nat /\ TTL \in Nat /\ MaxLatency \in Nat
        /\ cache.total \in Nat /\ cache.expires \in Nat
    BY <1>1, AnalyticsAssumption DEF AnalyticsIInv, AnalyticsTypes, AnalysesAreRecent
  <2>1. CASE Hit(h) /\ shown' = cache.total
    <3>1. cache.total > 0 /\ now < cache.expires  BY <2>1 DEF Hit, Cached
    <3>2. Covers(cache.total, cache.expires - TTL - MaxLatency)
      BY <2>0, <3>1 DEF AnalysesAreRecent, RecentlyCached
    <3>3. /\ now - TTL - MaxLatency \in Int /\ cache.expires - TTL - MaxLatency \in Int
          /\ now - TTL - MaxLatency <= cache.expires - TTL - MaxLatency
      BY <2>0, <3>1
    <3> QED BY <2>0, <2>1, <3>2, <3>3, CoversMore
  <2>2. CASE task[h].pc = "save" /\ shown' = task[h].total
    BY <2>0, <2>2, SaveIsRecent
  <2> QED BY <1>1, <2>0, <2>1, <2>2, WhatIsShown
<1>2. AnalyticsIInv /\ [AnalyticsNext]_analyticsVars => [ShowsRecent]_analyticsVars
  BY <1>1
<1> QED BY <1>2, AnalyticsInvariance, PTL DEF AnalyticsSpec, ShownIsRecent

(* analytics.go 33-36, 87, 94: as long as analyses do not overlap and the  *)
(* store works, the AI answers at most once in 24 hours and nobody is      *)
(* shown fewer trades than before.                                         *)
THEOREM CacheAlwaysUsed == AnalyticsSpec => CacheIsUsedUnlessDisturbed
<1> DEFINE UsesCache ==
      /\ \A h \in Handlers : Shows(h) => shown' >= shown \/ clashed'
      /\ \A h \in Handlers : task[h].pc = "ask" /\ task'[h].pc = "save" =>
           now - answered >= TTL \/ clashed
<1>1. ASSUME AnalyticsIInv, AnalyticsNext  PROVE UsesCache
  <2>0. /\ AnalyticsTypes /\ (~clashed => OneAtATime /\ TotalsGrow)
        /\ now \in Nat /\ TTL \in Nat /\ answered \in Int /\ shown \in Nat
        /\ cache.total \in Nat /\ cache.expires \in Nat
        /\ \A h \in Handlers : task[h] \in Tasks
    BY <1>1, AnalyticsAssumption DEF AnalyticsIInv, AnalyticsTypes
  <2>1. ASSUME NEW h \in Handlers, Shows(h), ~clashed'  PROVE shown' >= shown
    <3>1. ~clashed
      BY <1>1, <2>1 DEF AnalyticsNext, SaveTrade, PassTime, Analyze, Hit, Miss, ReadTrades, Ask,
         Save, Fail
    <3>2. shown <= cache.total  BY <2>0, <3>1 DEF TotalsGrow
    <3>3. CASE shown' = cache.total  BY <2>0, <3>2, <3>3
    <3>4. CASE task[h].pc = "save" /\ shown' = task[h].total
      <4>1. task[h].total >= cache.total  BY <2>0, <3>1, <3>4 DEF OneAtATime
      <4>2. task[h].total \in Nat  BY <2>0, <3>4, TaskTypes
      <4> QED BY <2>0, <3>2, <3>4, <4>1, <4>2
    <3> QED BY <1>1, <2>0, <2>1, <3>3, <3>4, WhatIsShown
  <2>2. ASSUME NEW h \in Handlers, task[h].pc = "ask", ~clashed  PROVE now - answered >= TTL
    <3>1. cache.expires <= now  BY <2>0, <2>2 DEF OneAtATime
    <3>2. \A g \in Handlers : task[g].pc # "save"
      BY <2>0, <2>2 DEF OneAtATime, Analyzing
    <3>3. cache.expires = answered + TTL  BY <2>0, <2>2, <3>2 DEF OneAtATime
    <3> QED BY <2>0, <3>1, <3>3
  <2> QED BY <2>1, <2>2
<1>2. AnalyticsIInv /\ [AnalyticsNext]_analyticsVars => [UsesCache]_analyticsVars  BY <1>1
<1> QED BY <1>2, AnalyticsInvariance, PTL DEF AnalyticsSpec, CacheIsUsedUnlessDisturbed

-----------------------------------------------------------------------------
(***************************************************************************)
(* Badges and goals.                                                       *)
(***************************************************************************)
USE RewardsAssumption

(* All workers but w stay where they are.                                  *)
Moves(w) ==
  /\ pc' = [v \in Workers |-> pc'[v]] /\ call' = [v \in Workers |-> call'[v]]
  /\ \A v \in Workers \ {w} : pc'[v] = pc[v] /\ call'[v] = call[v]

LEMMA NoGoalIsNone == NoGoal \notin Goal
  BY DEF NoGoal, Goal

(* A worker under way has a call, for a member.                            *)
LEMMA WorkFacts ==
  ASSUME IInv, NEW w \in Workers, pc[w] # "idle"
  PROVE  /\ call[w] \in Call /\ call[w].member \in Members /\ call[w].badge \in AllBadges
         /\ call[w].goal \in Goal \cup {NoGoal} /\ call[w].todo \subseteq AllBadges
         /\ call[w].goal \in Goal => call[w].goal.month \in Months /\ call[w].goal # NoGoal
         /\ call[w].goal # NoGoal => call[w].goal \in Goal
<1>1. call[w] \in Call
  BY DEF IInv, Typed, WorkerOK
<1>2. /\ call[w].member \in Members /\ call[w].badge \in AllBadges
      /\ call[w].goal \in Goal \cup {NoGoal} /\ call[w].todo \subseteq AllBadges
  BY <1>1 DEF Call
<1>3. call[w].goal \in Goal => call[w].goal.month \in Months
  BY DEF Goal
<1>4. QED
  BY <1>1, <1>2, <1>3, NoGoalIsNone

(* The calls a step leaves behind.                                         *)
LEMMA CallChanges ==
  ASSUME NEW c \in Call
  PROVE  /\ \A x \in SUBSET AllBadges :
              /\ [c EXCEPT !.todo = x] \in Call
              /\ [c EXCEPT !.todo = x].todo = x
              /\ [c EXCEPT !.todo = x].member = c.member
              /\ [c EXCEPT !.todo = x].badge = c.badge
              /\ [c EXCEPT !.todo = x].goal = c.goal
         /\ \A g \in Goal :
              /\ [c EXCEPT !.goal = g] \in Call
              /\ [c EXCEPT !.goal = g].goal = g
              /\ [c EXCEPT !.goal = g].member = c.member
  BY DEF Call

LEMMA TypedStep ==
  ASSUME IInv, NEW w \in Workers, Moves(w), WorkerOK(w)', pc'[w] \in Steps,
         badges' \in [Members -> SUBSET AllBadges],
         goals' \in [Members -> [Months -> Goal \cup {NoGoal}]],
         \A m \in Members, i \in Months : goals'[m][i] # NoGoal => goals'[m][i].month = i,
         badgeXP' \in [Members -> [AllBadges -> Nat]], goalXP' \in [Members -> [Months -> Nat]],
         month' = month, disturbed' \subseteq Members
  PROVE  Typed'
<1>1. \A v \in Workers : WorkerOK(v)'
  <2> SUFFICES ASSUME NEW v \in Workers, v # w PROVE WorkerOK(v)'
    OBVIOUS
  <2>1. WorkerOK(v) /\ pc'[v] = pc[v] /\ call'[v] = call[v]
    BY DEF IInv, Typed, Moves
  <2>2. QED
    BY <2>1 DEF WorkerOK
<1>2. \A v \in Workers : call'[v] \in Call \/ (call'[v] = NoCall /\ pc'[v] = "idle")
  BY <1>1 DEF WorkerOK
<1>3. pc' \in [Workers -> Steps]
  BY DEF IInv, Typed, TypeOK, Moves
<1>4. TypeOK'
  BY <1>2, <1>3 DEF TypeOK
<1>5. QED
  BY <1>1, <1>4 DEF IInv, Typed, Moves

LEMMA StateTypes ==
  ASSUME IInv
  PROVE  /\ badges \in [Members -> SUBSET AllBadges]
         /\ goals \in [Members -> [Months -> Goal \cup {NoGoal}]]
         /\ \A m \in Members, i \in Months : goals[m][i] # NoGoal => goals[m][i].month = i
         /\ badgeXP \in [Members -> [AllBadges -> Nat]] /\ goalXP \in [Members -> [Months -> Nat]]
         /\ month \in Months /\ disturbed \subseteq Members
  BY DEF IInv, Typed, TypeOK

(* What is stored stays stored.                                            *)
Grows ==
  /\ \A m \in Members : badges[m] \subseteq badges'[m]
  /\ \A m \in Members, i \in Months : goals[m][i] # NoGoal => goals'[m][i] # NoGoal

LEMMA BackedStep ==
  ASSUME IInv, NEW w \in Workers, Moves(w), Grows, Backed(w)'
  PROVE  \A v \in Workers : Backed(v)'
<1> SUFFICES ASSUME NEW v \in Workers, v # w PROVE Backed(v)'
  OBVIOUS
<1>1. Backed(v) /\ WorkerOK(v) /\ pc'[v] = pc[v] /\ call'[v] = call[v]
  BY DEF IInv, Typed, Moves
<1>2. CASE pc[v] = "badgeXP"
  BY <1>1, <1>2, WorkFacts DEF Backed, Grows
<1>3. CASE pc[v] \in {"saveGoal", "goalXP"}
  <2>1. call[v].member \in Members /\ call[v].goal.month \in Months
    BY <1>1, <1>3, WorkFacts DEF WorkerOK
  <2>2. QED
    BY <2>1, <1>1, <1>3 DEF Backed, Grows
<1>4. QED
  BY <1>1, <1>2, <1>3 DEF Backed

(* XP that is not touched stays backed.                                    *)
LEMMA XPStays ==
  ASSUME IInv, Grows, UNCHANGED <<badgeXP, goalXP>> PROVE XPIsBacked'
  BY DEF IInv, XPIsBacked, Grows

(* A member for whom nothing changes.                                      *)
LEMMA AccountStays ==
  ASSUME NEW m \in Members, Account(m),
         badges'[m] = badges[m], goals'[m] = goals[m],
         badgeXP'[m] = badgeXP[m], goalXP'[m] = goalXP[m],
         \A v \in Workers : Serves(v, m)' = Serves(v, m),
         \A v \in Workers : Serves(v, m) => pc'[v] = pc[v] /\ call'[v] = call[v]
  PROVE  Account(m)'
<1>1. (\A v \in Workers : ~Serves(v, m)') => Paid(m)'
  BY DEF Account, Paid, Achieved
<1>2. ASSUME NEW v \in Workers, Serves(v, m) PROVE PaidBut(m, v)'
  <2>1. PaidBut(m, v) /\ pc'[v] = pc[v] /\ call'[v] = call[v]
    BY <1>2 DEF Account
  <2>2. QED
    BY <2>1 DEF PaidBut, Achieved, ToAwardGoalBadge
<1>3. QED
  BY <1>1, <1>2 DEF Account

(* The accounts after a step of worker w, which serves member m.           *)
LEMMA AccountsStep ==
  ASSUME IInv, NEW w \in Workers, NEW m \in Members, Serves(w, m), Moves(w),
         pc'[w] = "idle" \/ call'[w].member = m,
         \A n \in Members \ {m} : /\ badges'[n] = badges[n] /\ goals'[n] = goals[n]
                                  /\ badgeXP'[n] = badgeXP[n] /\ goalXP'[n] = goalXP[n],
         disturbed' = disturbed,
         m \notin disturbed /\ PaidBut(m, w) =>
           IF pc'[w] = "idle" THEN Paid(m)' ELSE PaidBut(m, w)'
  PROVE  \A n \in Members \ disturbed' : Account(n)'
<1> SUFFICES ASSUME NEW n \in Members \ disturbed PROVE Account(n)'
  OBVIOUS
<1>1. Account(n)
  BY DEF IInv
<1>2. CASE n # m
  <2>1. \A v \in Workers : /\ Serves(v, n)' = Serves(v, n)
                           /\ Serves(v, n) => pc'[v] = pc[v] /\ call'[v] = call[v]
    BY <1>2 DEF Serves, Moves
  <2>2. QED
    BY <2>1, <1>1, <1>2, AccountStays
<1>3. CASE n = m
  <2>1. \A v \in Workers \ {w} : ~Serves(v, m)'
    BY <1>1, <1>3 DEF Account, Serves, Moves
  <2>2. PaidBut(m, w)
    BY <1>1, <1>3 DEF Account
  <2>3. CASE pc'[w] = "idle"
    <3>1. Paid(m)' /\ \A v \in Workers : ~Serves(v, m)'
      BY <2>1, <2>2, <2>3, <1>3 DEF Serves
    <3>2. QED
      BY <3>1, <1>3 DEF Account
  <2>4. CASE pc'[w] # "idle"
    <3>1. PaidBut(m, w)' /\ Serves(w, m)'
      BY <2>2, <2>4, <1>3 DEF Serves
    <3>2. QED
      BY <3>1, <2>1, <1>3 DEF Account
  <2>5. QED
    BY <2>3, <2>4
<1>4. QED
  BY <1>2, <1>3

(* Who has nothing under way is paid in full; a call of his begins so.     *)
LEMMA ReceiveKeeps ==
  ASSUME IInv, NEW w \in Workers, NEW m \in Members, NEW step \in {"badges", "readGoal"},
         NEW target, target = "none" \/ target \in Targets,
         step = "readGoal" => target \in Targets, Receive(w, m, step, target)
  PROVE  IInv'
<1> DEFINE c == [member |-> m, todo |-> {}, badge |-> GoalBadge, goal |-> NoGoal,
                 target |-> target]
<1>1. /\ pc[w] = "idle" /\ pc'[w] = step /\ call'[w] = c /\ Moves(w)
      /\ disturbed' = IF Busy(m) THEN disturbed \cup {m} ELSE disturbed
      /\ UNCHANGED <<badges, goals, month, badgeXP, goalXP>>
  BY DEF IInv, Typed, TypeOK, Receive, At, Goto, Moves
<1>2. c \in Call /\ c.member = m /\ c.goal = NoGoal /\ c.target = target
  BY DEF Call, AllBadges
<1> HIDE DEF c
<1>3. Typed'
  <2>1. WorkerOK(w)'
    BY <1>1, <1>2 DEF WorkerOK
  <2>2. step \in Steps /\ disturbed' \subseteq Members
    BY <1>1 DEF Steps, IInv, Typed, TypeOK
  <2>3. QED
    BY <2>1, <2>2, <1>1, TypedStep, StateTypes
<1>4. XPIsBacked' /\ \A v \in Workers : Backed(v)'
  <2>1. Grows /\ Backed(w)'
    BY <1>1 DEF Grows, Backed
  <2>2. QED
    BY <2>1, <1>1, BackedStep, XPStays
<1>5. ASSUME NEW n \in Members \ disturbed' PROVE Account(n)'
  <2>1. Account(n)
    BY <1>1 DEF IInv
  <2>2. CASE n # m
    <3>1. \A v \in Workers : /\ Serves(v, n)' = Serves(v, n)
                             /\ Serves(v, n) => pc'[v] = pc[v] /\ call'[v] = call[v]
      BY <2>2, <1>1, <1>2 DEF Serves, Moves
    <3>2. QED
      BY <3>1, <2>1, <1>1, AccountStays
  <2>3. CASE n = m
    <3>1. \A v \in Workers : ~Serves(v, m)
      BY <2>3, <1>1 DEF Busy, Serves
    <3>2. Paid(m)
      BY <3>1, <2>1, <2>3 DEF Account
    <3>3. \A v \in Workers \ {w} : ~Serves(v, m)'
      BY <3>1, <1>1 DEF Serves, Moves
    <3>4. PaidBut(m, w)'
      BY <3>2, <1>1, <1>2 DEF Paid, PaidBut, Achieved, ToAwardGoalBadge
    <3>5. Serves(w, m)'
      BY <1>1, <1>2 DEF Serves
    <3>6. QED
      BY <2>3, <3>3, <3>4, <3>5 DEF Account
  <2>4. QED
    BY <2>2, <2>3
<1>6. QED
  BY <1>3, <1>4, <1>5 DEF IInv

(* Steps that read, and change at most what the worker has in hand.        *)
LEMMA ReadStep ==
  ASSUME IInv, NEW w \in Workers, NEW m \in Members, Serves(w, m), Moves(w),
         pc'[w] \in Steps, WorkerOK(w)', Backed(w)',
         pc'[w] = "idle" \/ call'[w].member = m,
         UNCHANGED <<badges, goals, month, badgeXP, goalXP, disturbed>>,
         m \notin disturbed /\ PaidBut(m, w) =>
           IF pc'[w] = "idle" THEN Paid(m)' ELSE PaidBut(m, w)'
  PROVE  IInv'
<1>1. Typed'
  BY TypedStep, StateTypes
<1>2. XPIsBacked' /\ \A v \in Workers : Backed(v)'
  <2>1. Grows
    BY DEF Grows
  <2>2. QED
    BY <2>1, BackedStep, XPStays
<1>3. \A n \in Members \ disturbed' : Account(n)'
  BY AccountsStep
<1>4. QED
  BY <1>1, <1>2, <1>3 DEF IInv

LEMMA ReturnFacts ==
  ASSUME IInv, NEW w \in Workers, Return(w)
  PROVE  /\ Moves(w) /\ pc'[w] = "idle" /\ pc'[w] \in Steps /\ WorkerOK(w)' /\ Backed(w)'
  BY DEF IInv, Typed, TypeOK, Return, Moves, WorkerOK, Backed, Steps

LEMMA ConditionsKeeps ==
  ASSUME IInv, NEW w \in Workers, NEW held \in SUBSET Badges, Conditions(w, held) PROVE IInv'
<1>1. PICK m \in Members : Serves(w, m)
  BY WorkFacts DEF Conditions, At, Serves
<1>2. /\ pc[w] = "badges" /\ pc'[w] = "hasBadge" /\ Moves(w)
      /\ call'[w] = [call[w] EXCEPT !.todo = held]
      /\ UNCHANGED <<badges, goals, month, badgeXP, goalXP, disturbed>>
  BY DEF Conditions, At, Goto, Moves, IInv, Typed, TypeOK
<1>3. call[w] \in Call /\ call[w].goal = NoGoal /\ call[w].member = m
  BY <1>1, <1>2, WorkFacts DEF IInv, Typed, WorkerOK, Serves
<1>4. /\ call'[w] \in Call /\ call'[w].todo = held /\ call'[w].member = m
      /\ call'[w].goal = NoGoal
  BY <1>2, <1>3, CallChanges DEF AllBadges
<1>5. WorkerOK(w)' /\ Backed(w)' /\ pc'[w] \in Steps
  BY <1>2, <1>4 DEF WorkerOK, Backed, Steps
<1>6. PaidBut(m, w) => PaidBut(m, w)'
  BY <1>2, <1>3, <1>4 DEF PaidBut, Achieved, ToAwardGoalBadge
<1>7. QED
  BY <1>1, <1>2, <1>4, <1>5, <1>6, ReadStep

LEMMA HasBadgeKeeps ==
  ASSUME IInv, NEW w \in Workers, NEW b \in AllBadges, HasBadge(w, b) PROVE IInv'
<1> DEFINE c == [call[w] EXCEPT !.todo = @ \ {b}, !.badge = b]
<1>1. PICK m \in Members : Serves(w, m)
  BY WorkFacts DEF HasBadge, At, Serves
<1>2. /\ pc[w] = "hasBadge" /\ Moves(w) /\ call'[w] = c /\ b \in call[w].todo
      /\ pc'[w] = IF b \in badges[call[w].member] THEN "hasBadge" ELSE "awardBadge"
      /\ UNCHANGED <<badges, goals, month, badgeXP, goalXP, disturbed>>
  BY DEF HasBadge, At, Goto, Moves, IInv, Typed, TypeOK
<1>3. /\ call[w] \in Call /\ call[w].member = m
      /\ call[w].todo \subseteq IF call[w].goal = NoGoal THEN Badges ELSE {GoalBadge}
  BY <1>1, <1>2, WorkFacts DEF IInv, Typed, WorkerOK, Serves
<1>4. /\ c \in Call /\ c.todo = call[w].todo \ {b} /\ c.badge = b
      /\ c.member = m /\ c.goal = call[w].goal
  BY <1>3 DEF Call
<1> HIDE DEF c
<1>5. call[w].goal = NoGoal <=> b \in Badges
  BY <1>2, <1>3
<1>6. WorkerOK(w)' /\ Backed(w)' /\ pc'[w] \in Steps
  BY <1>2, <1>3, <1>4, <1>5 DEF WorkerOK, Backed, Steps
<1>7. PaidBut(m, w) => PaidBut(m, w)'
  <2> SUFFICES ASSUME PaidBut(m, w) PROVE PaidBut(m, w)'
    OBVIOUS
  <2>1. CASE b \in badges[m]
    <3>1. pc'[w] = "hasBadge"
      BY <2>1, <1>2, <1>3
    <3>2. call[w].goal # NoGoal => GoalBadge \in badges[m]
      BY <2>1, <1>2, <1>3
    <3>3. QED
      BY <3>1, <3>2, <1>2, <1>4 DEF PaidBut, Achieved, ToAwardGoalBadge
  <2>2. CASE b \notin badges[m]
    <3>1. pc'[w] = "awardBadge"
      BY <2>2, <1>2, <1>3
    <3>2. QED
      BY <3>1, <2>2, <1>2, <1>4 DEF PaidBut, Achieved, ToAwardGoalBadge
  <2>3. QED
    BY <2>1, <2>2
<1>8. pc'[w] # "idle" /\ call'[w].member = m
  BY <1>2, <1>4
<1>9. QED
  BY <1>1, <1>2, <1>6, <1>7, <1>8, ReadStep

LEMMA BadgesDoneKeeps == ASSUME IInv, NEW w \in Workers, BadgesDone(w) PROVE IInv'
<1>1. PICK m \in Members : Serves(w, m)
  BY WorkFacts DEF BadgesDone, At, Serves
<1>2. /\ pc[w] = "hasBadge" /\ call[w].todo = {} /\ WorkerOK(w) /\ call[w].member = m
      /\ UNCHANGED <<badges, goals, month, badgeXP, goalXP, disturbed>>
  BY <1>1 DEF BadgesDone, At, IInv, Typed, Serves
<1>3. CASE call[w].goal = NoGoal
  <2>1. pc'[w] = "getGoal" /\ Moves(w) /\ call'[w] = call[w]
    BY <1>3 DEF BadgesDone, Goto, Moves, IInv, Typed, TypeOK
  <2>2. WorkerOK(w)' /\ Backed(w)' /\ pc'[w] \in Steps
    BY <2>1, <1>2, <1>3 DEF WorkerOK, Backed, Steps
  <2>3. PaidBut(m, w) => PaidBut(m, w)'
    BY <2>1, <1>2, <1>3 DEF PaidBut, Achieved, ToAwardGoalBadge
  <2>4. QED
    BY <2>1, <2>2, <2>3, <1>1, <1>2, ReadStep
<1>4. CASE call[w].goal # NoGoal
  <2>1. Return(w)
    BY <1>4 DEF BadgesDone
  <2>2. PaidBut(m, w) => Paid(m)'
    BY <1>2 DEF PaidBut, Paid, Achieved, ToAwardGoalBadge
  <2>3. QED
    BY <2>1, <2>2, <1>1, <1>2, ReturnFacts, ReadStep
<1>5. QED
  BY <1>3, <1>4

LEMMA GetProgressKeeps ==
  ASSUME IInv, NEW w \in Workers, NEW reached \in BOOLEAN, GetProgress(w, reached) PROVE IInv'
<1>1. PICK m \in Members : Serves(w, m)
  BY WorkFacts DEF GetProgress, At, Serves
<1> DEFINE g == goals[m][month]
           h == [g EXCEPT !.achieved = TRUE]
<1>2. /\ pc[w] = "getGoal" /\ WorkerOK(w) /\ call[w].member = m /\ call[w] \in Call
      /\ UNCHANGED <<badges, goals, month, badgeXP, goalXP, disturbed>>
  BY <1>1, WorkFacts DEF GetProgress, At, IInv, Typed, Serves
<1>3. CASE g # NoGoal /\ ~g.achieved /\ reached
  <2>1. pc'[w] = "saveGoal" /\ Moves(w) /\ call'[w] = [call[w] EXCEPT !.goal = h]
    BY <1>2, <1>3 DEF GetProgress, Goto, Moves, IInv, Typed, TypeOK
  <2>2. g \in Goal /\ g.month = month /\ month \in Months
    BY <1>3 DEF IInv, Typed, TypeOK
  <2>3. h \in Goal /\ h.month = month /\ h.achieved
    BY <2>2 DEF Goal
  <2> HIDE DEF h
  <2>4. call'[w] \in Call /\ call'[w].goal = h /\ call'[w].member = m
    BY <2>1, <2>3, <1>2, CallChanges
  <2>5. WorkerOK(w)' /\ Backed(w)' /\ pc'[w] \in Steps
    BY <2>1, <2>3, <2>4, <1>2, <1>3 DEF WorkerOK, Backed, Steps
  <2>6. PaidBut(m, w) => PaidBut(m, w)'
    <3>1. ~Achieved(m, h.month)
      BY <2>3, <1>3 DEF Achieved
    <3>2. QED
      BY <3>1, <2>1, <2>4, <1>2 DEF PaidBut, Achieved, ToAwardGoalBadge
  <2>7. QED
    BY <2>1, <2>4, <2>5, <2>6, <1>1, <1>2, ReadStep
<1>4. CASE ~(g # NoGoal /\ ~g.achieved /\ reached)
  <2>1. Return(w)
    BY <1>2, <1>4 DEF GetProgress
  <2>2. PaidBut(m, w) => Paid(m)'
    BY <1>2 DEF PaidBut, Paid, Achieved, ToAwardGoalBadge
  <2>3. QED
    BY <2>1, <2>2, <1>1, <1>2, ReturnFacts, ReadStep
<1>5. QED
  BY <1>3, <1>4

LEMMA ReadGoalKeeps == ASSUME IInv, NEW w \in Workers, ReadGoal(w) PROVE IInv'
<1>1. PICK m \in Members : Serves(w, m)
  BY WorkFacts DEF ReadGoal, At, Serves
<1> DEFINE g == goals[m][month]
           h == IF g # NoGoal /\ g.achieved THEN g
                ELSE [target |-> call[w].target, month |-> month, achieved |-> FALSE]
<1>2. /\ pc[w] = "readGoal" /\ WorkerOK(w) /\ call[w].member = m /\ call[w] \in Call
      /\ pc'[w] = "writeGoal" /\ Moves(w) /\ call'[w] = [call[w] EXCEPT !.goal = h]
      /\ UNCHANGED <<badges, goals, month, badgeXP, goalXP, disturbed>>
  BY <1>1, WorkFacts DEF ReadGoal, At, Goto, Moves, IInv, Typed, TypeOK, Serves
<1>3. month \in Months /\ (g # NoGoal => g \in Goal /\ g.month = month)
  BY DEF IInv, Typed, TypeOK
<1>4. h \in Goal /\ h.month = month
  BY <1>2, <1>3 DEF WorkerOK, Goal
<1>5. IF Achieved(m, month) THEN h = goals[m][month] ELSE ~h.achieved
  BY DEF Achieved
<1> HIDE DEF h
<1>6. call'[w] \in Call /\ call'[w].goal = h /\ call'[w].member = m
  BY <1>2, <1>4, CallChanges
<1>7. WorkerOK(w)' /\ Backed(w)' /\ pc'[w] \in Steps
  BY <1>2, <1>4, <1>6 DEF WorkerOK, Backed, Steps
<1>8. PaidBut(m, w) => PaidBut(m, w)'
  BY <1>2, <1>4, <1>5, <1>6 DEF PaidBut, Achieved, ToAwardGoalBadge
<1>9. QED
  BY <1>1, <1>2, <1>6, <1>7, <1>8, ReadStep

LEMMA AwardBadgeKeeps == ASSUME IInv, NEW w \in Workers, AwardBadge(w) PROVE IInv'
<1>1. PICK m \in Members : Serves(w, m)
  BY WorkFacts DEF AwardBadge, At, Serves
<1> DEFINE b == call[w].badge
<1>2. /\ pc[w] = "awardBadge" /\ WorkerOK(w) /\ call[w].member = m /\ b \in AllBadges
      /\ pc'[w] = "badgeXP" /\ Moves(w) /\ call'[w] = call[w]
      /\ badges' = [badges EXCEPT ![m] = @ \cup {b}]
      /\ UNCHANGED <<goals, month, badgeXP, goalXP, disturbed>>
  BY <1>1, WorkFacts DEF AwardBadge, At, Goto, Moves, IInv, Typed, TypeOK, Serves
<1>3. /\ badges' \in [Members -> SUBSET AllBadges] /\ badges'[m] = badges[m] \cup {b}
      /\ \A n \in Members \ {m} : badges'[n] = badges[n]
  BY <1>2 DEF IInv, Typed, TypeOK
<1>4. WorkerOK(w)' /\ Backed(w)' /\ pc'[w] \in Steps
  BY <1>2, <1>3 DEF WorkerOK, Backed, Steps
<1>5. Typed'
  BY <1>2, <1>3, <1>4, TypedStep, StateTypes
<1>6. XPIsBacked' /\ \A v \in Workers : Backed(v)'
  <2>1. Grows
    BY <1>2, <1>3 DEF Grows
  <2>2. QED
    BY <2>1, <1>2, <1>4, BackedStep, XPStays
<1>7. PaidBut(m, w) => PaidBut(m, w)'
  <2> SUFFICES ASSUME PaidBut(m, w) PROVE PaidBut(m, w)'
    OBVIOUS
  <2>1. \A a \in AllBadges : badgeXP[m][a] =
          (IF a \in badges'[m] /\ ~(pc'[w] = "badgeXP" /\ call'[w].badge = a) THEN 1 ELSE 0)
    BY <1>2, <1>3 DEF PaidBut
  <2>2. (GoalBadge \in badges'[m] \/ ToAwardGoalBadge(w)')
          <=> (GoalBadge \in badges[m] \/ ToAwardGoalBadge(w))
    BY <1>2, <1>3 DEF ToAwardGoalBadge, WorkerOK, AllBadges
  <2>3. QED
    BY <2>1, <2>2, <1>2, <1>3 DEF PaidBut, Achieved
<1>8. \A n \in Members \ disturbed' : Account(n)'
  BY <1>1, <1>2, <1>3, <1>7, AccountsStep
<1>9. QED
  BY <1>5, <1>6, <1>8 DEF IInv

LEMMA AwardBadgeXPKeeps == ASSUME IInv, NEW w \in Workers, AwardBadgeXP(w) PROVE IInv'
<1>1. PICK m \in Members : Serves(w, m)
  BY WorkFacts DEF AwardBadgeXP, At, Serves
<1> DEFINE b == call[w].badge
<1>2. /\ pc[w] = "badgeXP" /\ WorkerOK(w) /\ call[w].member = m /\ b \in AllBadges
      /\ pc'[w] = "hasBadge" /\ Moves(w) /\ call'[w] = call[w]
      /\ badgeXP' = [badgeXP EXCEPT ![m][b] = @ + 1]
      /\ UNCHANGED <<badges, goals, month, goalXP, disturbed>>
  BY <1>1, WorkFacts DEF AwardBadgeXP, At, Goto, Moves, IInv, Typed, TypeOK, Serves
<1>3. badgeXP \in [Members -> [AllBadges -> Nat]] /\ b \in badges[m]
  BY <1>2 DEF IInv, Typed, TypeOK, Backed
<1>4. /\ badgeXP' \in [Members -> [AllBadges -> Nat]] /\ badgeXP'[m][b] = badgeXP[m][b] + 1
      /\ \A n \in Members \ {m} : badgeXP'[n] = badgeXP[n]
      /\ \A a \in AllBadges \ {b} : badgeXP'[m][a] = badgeXP[m][a]
  BY <1>2, <1>3
<1>5. WorkerOK(w)' /\ Backed(w)' /\ pc'[w] \in Steps
  BY <1>2 DEF WorkerOK, Backed, Steps
<1>6. Typed'
  <2>1. /\ badges' \in [Members -> SUBSET AllBadges]
        /\ goals' \in [Members -> [Months -> Goal \cup {NoGoal}]]
        /\ \A n \in Members, i \in Months : goals'[n][i] # NoGoal => goals'[n][i].month = i
        /\ goalXP' \in [Members -> [Months -> Nat]] /\ month' = month /\ disturbed' \subseteq Members
    BY <1>2, StateTypes
  <2>2. badgeXP' \in [Members -> [AllBadges -> Nat]]
    BY <1>4
  <2>3. QED
    BY <2>1, <2>2, <1>2, <1>5, TypedStep
<1>7. XPIsBacked' /\ \A v \in Workers : Backed(v)'
  <2>1. Grows
    BY <1>2 DEF Grows
  <2>2. XPIsBacked'
    BY <1>2, <1>3, <1>4 DEF IInv, XPIsBacked
  <2>3. QED
    BY <2>1, <2>2, <1>2, <1>5, BackedStep
<1>8. PaidBut(m, w) => PaidBut(m, w)'
  <2> SUFFICES ASSUME PaidBut(m, w) PROVE PaidBut(m, w)'
    OBVIOUS
  <2>1. \A a \in AllBadges : badgeXP'[m][a] =
          (IF a \in badges'[m] /\ ~(pc'[w] = "badgeXP" /\ call'[w].badge = a) THEN 1 ELSE 0)
    BY <1>2, <1>3, <1>4 DEF PaidBut
  <2>2. (GoalBadge \in badges'[m] \/ ToAwardGoalBadge(w)')
          <=> (GoalBadge \in badges[m] \/ ToAwardGoalBadge(w))
    <3>1. call[w].goal # NoGoal => GoalBadge \in badges[m]
      BY <1>2, <1>3 DEF WorkerOK, AllBadges
    <3>2. QED
      BY <3>1, <1>2 DEF ToAwardGoalBadge
  <2>3. QED
    BY <2>1, <2>2, <1>2 DEF PaidBut, Achieved
<1>9. \A n \in Members \ disturbed' : Account(n)'
  BY <1>1, <1>2, <1>4, <1>8, AccountsStep
<1>10. QED
  BY <1>6, <1>7, <1>9 DEF IInv

LEMMA SaveAchievedKeeps == ASSUME IInv, NEW w \in Workers, SaveAchieved(w) PROVE IInv'
<1>1. PICK m \in Members : Serves(w, m)
  BY WorkFacts DEF SaveAchieved, At, Serves
<1> DEFINE g == call[w].goal
<1>2. /\ pc[w] = "saveGoal" /\ WorkerOK(w) /\ call[w].member = m
      /\ g \in Goal /\ g # NoGoal /\ g.month \in Months /\ g.achieved
      /\ pc'[w] = "goalXP" /\ Moves(w) /\ call'[w] = call[w]
      /\ goals' = [goals EXCEPT ![m][g.month] = g]
      /\ UNCHANGED <<badges, month, badgeXP, goalXP, disturbed>>
  <2>1. /\ pc[w] = "saveGoal" /\ WorkerOK(w) /\ call[w].member = m
    BY <1>1 DEF SaveAchieved, At, IInv, Typed, TypeOK, Serves
  <2>2. g \in Goal /\ g # NoGoal /\ g.achieved
    BY <2>1, NoGoalIsNone DEF WorkerOK
  <2>3. g.month \in Months
    BY <2>1, <2>2, WorkFacts
  <2>4. /\ pc'[w] = "goalXP" /\ Moves(w) /\ call'[w] = call[w]
        /\ goals' = [goals EXCEPT ![m][g.month] = g]
        /\ UNCHANGED <<badges, month, badgeXP, goalXP, disturbed>>
    BY <2>1 DEF SaveAchieved, Goto, Moves, IInv, Typed, TypeOK
  <2>5. QED
    BY <2>1, <2>2, <2>3, <2>4
<1>3. goals \in [Members -> [Months -> Goal \cup {NoGoal}]]
  BY DEF IInv, Typed
<1>4. /\ goals' \in [Members -> [Months -> Goal \cup {NoGoal}]] /\ goals'[m][g.month] = g
      /\ \A n \in Members \ {m} : goals'[n] = goals[n]
      /\ \A i \in Months \ {g.month} : goals'[m][i] = goals[m][i]
  BY <1>2, <1>3
<1>5. WorkerOK(w)' /\ Backed(w)' /\ pc'[w] \in Steps
  BY <1>2, <1>4 DEF WorkerOK, Backed, Steps
<1>6. \A n \in Members, i \in Months : goals'[n][i] # NoGoal => goals'[n][i].month = i
  <2> SUFFICES ASSUME NEW n \in Members, NEW i \in Months, goals'[n][i] # NoGoal
               PROVE  goals'[n][i].month = i
    OBVIOUS
  <2>1. CASE n = m /\ i = g.month
    BY <2>1, <1>4
  <2>2. CASE ~(n = m /\ i = g.month)
    <3>1. goals'[n][i] = goals[n][i]
      BY <2>2, <1>4
    <3>2. QED
      BY <3>1, StateTypes
  <2>3. QED
    BY <2>1, <2>2
<1>7. Typed'
  BY <1>2, <1>4, <1>5, <1>6, TypedStep, StateTypes
<1>8. XPIsBacked' /\ \A v \in Workers : Backed(v)'
  <2>1. Grows
    BY <1>2, <1>4 DEF Grows
  <2>2. QED
    BY <2>1, <1>2, <1>5, BackedStep, XPStays
<1>9. PaidBut(m, w) => PaidBut(m, w)'
  <2> SUFFICES ASSUME PaidBut(m, w) PROVE PaidBut(m, w)'
    OBVIOUS
  <2>1. Achieved(m, g.month)' /\ ~Achieved(m, g.month)
    BY <1>2, <1>4 DEF PaidBut, Achieved
  <2>2. \A i \in Months \ {g.month} : Achieved(m, i)' = Achieved(m, i)
    BY <1>4 DEF Achieved
  <2>3. \A i \in Months : goalXP[m][i] =
          (IF Achieved(m, i)' /\ ~(pc'[w] = "goalXP" /\ call'[w].goal.month = i) THEN 1 ELSE 0)
    BY <2>1, <2>2, <1>2 DEF PaidBut
  <2>4. QED
    BY <2>1, <2>3, <1>2 DEF PaidBut, ToAwardGoalBadge
<1>10. \A n \in Members \ disturbed' : Account(n)'
  BY <1>1, <1>2, <1>4, <1>9, AccountsStep
<1>11. QED
  BY <1>7, <1>8, <1>10 DEF IInv

LEMMA AwardGoalXPKeeps == ASSUME IInv, NEW w \in Workers, AwardGoalXP(w) PROVE IInv'
<1>1. PICK m \in Members : Serves(w, m)
  BY WorkFacts DEF AwardGoalXP, At, Serves
<1> DEFINE i == call[w].goal.month
<1>2. /\ pc[w] = "goalXP" /\ WorkerOK(w) /\ call[w].member = m /\ call[w] \in Call
      /\ call[w].goal \in Goal /\ call[w].goal # NoGoal /\ i \in Months
      /\ pc'[w] = "hasBadge" /\ Moves(w)
      /\ call'[w] = [call[w] EXCEPT !.todo = {GoalBadge}]
      /\ goalXP' = [goalXP EXCEPT ![m][i] = @ + 1]
      /\ UNCHANGED <<badges, goals, month, badgeXP, disturbed>>
  <2>1. /\ pc[w] = "goalXP" /\ WorkerOK(w) /\ call[w].member = m
    BY <1>1 DEF AwardGoalXP, At, IInv, Typed, TypeOK, Serves
  <2>2. call[w] \in Call /\ call[w].goal \in Goal /\ call[w].goal # NoGoal
    BY <2>1, WorkFacts DEF WorkerOK
  <2>3. i \in Months
    BY <2>1, <2>2, WorkFacts
  <2>4. /\ pc'[w] = "hasBadge" /\ Moves(w)
        /\ call'[w] = [call[w] EXCEPT !.todo = {GoalBadge}]
        /\ goalXP' = [goalXP EXCEPT ![m][i] = @ + 1]
        /\ UNCHANGED <<badges, goals, month, badgeXP, disturbed>>
    BY <2>1 DEF AwardGoalXP, Goto, Moves, IInv, Typed, TypeOK
  <2>5. QED
    BY <2>1, <2>2, <2>3, <2>4
<1>3. goalXP \in [Members -> [Months -> Nat]] /\ goals[m][i] # NoGoal
  BY <1>2 DEF IInv, Typed, TypeOK, Backed
<1>4. /\ goalXP' \in [Members -> [Months -> Nat]] /\ goalXP'[m][i] = goalXP[m][i] + 1
      /\ \A n \in Members \ {m} : goalXP'[n] = goalXP[n]
      /\ \A j \in Months \ {i} : goalXP'[m][j] = goalXP[m][j]
  BY <1>2, <1>3
<1>5. /\ call'[w] \in Call /\ call'[w].todo = {GoalBadge} /\ call'[w].member = m
      /\ call'[w].goal = call[w].goal
  <2>1. {GoalBadge} \in SUBSET AllBadges
    BY DEF AllBadges
  <2>2. QED
    BY <2>1, <1>2, CallChanges
<1>6. WorkerOK(w)' /\ Backed(w)' /\ pc'[w] \in Steps
  BY <1>2, <1>5 DEF WorkerOK, Backed, Steps
<1>7. Typed'
  BY <1>2, <1>4, <1>6, TypedStep, StateTypes
<1>8. XPIsBacked' /\ \A v \in Workers : Backed(v)'
  <2>1. Grows
    BY <1>2 DEF Grows
  <2>2. XPIsBacked'
    BY <1>2, <1>3, <1>4 DEF IInv, XPIsBacked
  <2>3. QED
    BY <2>1, <2>2, <1>2, <1>6, BackedStep
<1>9. PaidBut(m, w) => PaidBut(m, w)'
  <2> SUFFICES ASSUME PaidBut(m, w) PROVE PaidBut(m, w)'
    OBVIOUS
  <2>1. Achieved(m, i) /\ goalXP[m][i] = 0
    BY <1>2 DEF PaidBut
  <2>2. \A j \in Months : goalXP'[m][j] =
          (IF Achieved(m, j)' /\ ~(pc'[w] = "goalXP" /\ call'[w].goal.month = j) THEN 1 ELSE 0)
    BY <2>1, <1>2, <1>4 DEF PaidBut, Achieved
  <2>3. (GoalBadge \in badges'[m] \/ ToAwardGoalBadge(w)')
          /\ \E j \in Months : goalXP'[m][j] = 1
    BY <2>1, <1>2, <1>4, <1>5 DEF ToAwardGoalBadge
  <2>4. QED
    BY <2>2, <2>3, <1>2 DEF PaidBut
<1>10. \A n \in Members \ disturbed' : Account(n)'
  BY <1>1, <1>2, <1>4, <1>5, <1>9, AccountsStep
<1>11. QED
  BY <1>7, <1>8, <1>10 DEF IInv

LEMMA WriteGoalKeeps == ASSUME IInv, NEW w \in Workers, WriteGoal(w) PROVE IInv'
<1>1. PICK m \in Members : Serves(w, m)
  BY WorkFacts DEF WriteGoal, At, Serves
<1> DEFINE g == call[w].goal
<1>2. /\ pc[w] = "writeGoal" /\ WorkerOK(w) /\ call[w].member = m
      /\ g \in Goal /\ g # NoGoal /\ g.month \in Months
      /\ goals' = [goals EXCEPT ![m][g.month] = g]
      /\ UNCHANGED <<badges, month, badgeXP, goalXP, disturbed>>
  BY <1>1, WorkFacts DEF WriteGoal, At, IInv, Typed, Serves, WorkerOK
<1>3. /\ Moves(w) /\ pc'[w] = "idle" /\ pc'[w] \in Steps /\ WorkerOK(w)' /\ Backed(w)'
  BY ReturnFacts DEF WriteGoal
<1>4. goals \in [Members -> [Months -> Goal \cup {NoGoal}]]
  BY DEF IInv, Typed
<1>5. /\ goals' \in [Members -> [Months -> Goal \cup {NoGoal}]] /\ goals'[m][g.month] = g
      /\ \A n \in Members \ {m} : goals'[n] = goals[n]
      /\ \A i \in Months \ {g.month} : goals'[m][i] = goals[m][i]
  BY <1>2, <1>4
<1>6. \A n \in Members, i \in Months : goals'[n][i] # NoGoal => goals'[n][i].month = i
  <2> SUFFICES ASSUME NEW n \in Members, NEW i \in Months, goals'[n][i] # NoGoal
               PROVE  goals'[n][i].month = i
    OBVIOUS
  <2>1. CASE n = m /\ i = g.month
    BY <2>1, <1>5
  <2>2. CASE ~(n = m /\ i = g.month)
    <3>1. goals'[n][i] = goals[n][i]
      BY <2>2, <1>5
    <3>2. QED
      BY <3>1, StateTypes
  <2>3. QED
    BY <2>1, <2>2
<1>7. Typed'
  BY <1>2, <1>3, <1>5, <1>6, TypedStep, StateTypes
<1>8. XPIsBacked' /\ \A v \in Workers : Backed(v)'
  <2>1. Grows
    BY <1>2, <1>5 DEF Grows
  <2>2. QED
    BY <2>1, <1>2, <1>3, BackedStep, XPStays
<1>9. PaidBut(m, w) => Paid(m)'
  <2> SUFFICES ASSUME PaidBut(m, w) PROVE Paid(m)'
    OBVIOUS
  <2>1. \A i \in Months : Achieved(m, i)' <=> Achieved(m, i)
    <3>1. CASE Achieved(m, g.month)
      <4>1. goals'[m][g.month] = goals[m][g.month]
        BY <3>1, <1>2, <1>5 DEF PaidBut
      <4>2. QED
        BY <4>1, <1>5 DEF Achieved
    <3>2. CASE ~Achieved(m, g.month)
      <4>1. ~g.achieved
        BY <3>2, <1>2 DEF PaidBut
      <4>2. QED
        BY <3>2, <4>1, <1>5 DEF Achieved
    <3>3. QED
      BY <3>1, <3>2
  <2>2. QED
    BY <2>1, <1>2 DEF PaidBut, Paid, ToAwardGoalBadge
<1>10. \A n \in Members \ disturbed' : Account(n)'
  BY <1>1, <1>2, <1>3, <1>5, <1>9, AccountsStep
<1>11. QED
  BY <1>7, <1>8, <1>10 DEF IInv

LEMMA ErrorKeeps == ASSUME IInv, NEW w \in Workers, Error(w) PROVE IInv'
<1>1. PICK m \in Members : Serves(w, m)
  BY WorkFacts DEF Error, Serves
<1>2. /\ WorkerOK(w) /\ call[w].member = m /\ disturbed' = disturbed \cup {m}
      /\ UNCHANGED <<badges, goals, month, badgeXP, goalXP>>
  BY <1>1 DEF Error, IInv, Typed, Serves
<1>3. /\ Moves(w) /\ pc'[w] \in Steps /\ WorkerOK(w)' /\ Backed(w)'
      /\ pc'[w] = "idle" \/ call'[w].member = m
  <2>1. CASE Return(w)
    BY <2>1, ReturnFacts
  <2>2. CASE pc[w] # "idle" /\ call[w].goal = NoGoal /\ Goto(w, "getGoal") /\ UNCHANGED call
    BY <2>2, <1>2 DEF Goto, Moves, IInv, Typed, TypeOK, WorkerOK, Backed, Steps
  <2>3. QED
    BY <2>1, <2>2 DEF Error
<1>4. Typed'
  BY <1>1, <1>2, <1>3, TypedStep, StateTypes
<1>5. XPIsBacked' /\ \A v \in Workers : Backed(v)'
  <2>1. Grows
    BY <1>2 DEF Grows
  <2>2. QED
    BY <2>1, <1>2, <1>3, BackedStep, XPStays
<1>6. ASSUME NEW n \in Members \ disturbed' PROVE Account(n)'
  <2>1. n # m /\ Account(n)
    BY <1>2 DEF IInv
  <2>2. \A v \in Workers : /\ Serves(v, n)' = Serves(v, n)
                           /\ Serves(v, n) => pc'[v] = pc[v] /\ call'[v] = call[v]
    BY <2>1, <1>2, <1>3 DEF Serves, Moves
  <2>3. QED
    BY <2>1, <2>2, <1>2, AccountStays
<1>7. QED
  BY <1>4, <1>5, <1>6 DEF IInv

LEMMA NextMonthKeeps == IInv /\ NextMonth => IInv'
<1> SUFFICES ASSUME IInv, NextMonth PROVE IInv'
  OBVIOUS
<1>1. /\ month' = month + 1 /\ month < MaxMonth
      /\ UNCHANGED <<badges, goals, pc, call, badgeXP, goalXP, disturbed>>
  BY DEF NextMonth
<1>2. month' \in Months
  BY <1>1, StateTypes DEF Months
<1>3. Typed'
  BY <1>1, <1>2 DEF IInv, Typed, TypeOK, WorkerOK
<1>4. XPIsBacked' /\ \A w \in Workers : Backed(w)'
  BY <1>1 DEF IInv, XPIsBacked, Backed
<1>5. ASSUME NEW n \in Members \ disturbed' PROVE Account(n)'
  <2>1. Account(n) /\ \A v \in Workers : Serves(v, n)' = Serves(v, n)
    BY <1>1 DEF IInv, Serves
  <2>2. QED
    BY <2>1, <1>1, AccountStays
<1>6. QED
  BY <1>3, <1>4, <1>5 DEF IInv

LEMMA CrashKeeps == IInv /\ Crash => IInv'
<1> SUFFICES ASSUME IInv, Crash PROVE IInv'
  OBVIOUS
<1>1. /\ pc' = [w \in Workers |-> "idle"] /\ call' = [w \in Workers |-> NoCall]
      /\ disturbed' = disturbed \cup {m \in Members : Busy(m)}
      /\ UNCHANGED <<badges, goals, month, badgeXP, goalXP>>
  BY DEF Crash
<1>2. Typed'
  BY <1>1, StateTypes DEF Typed, TypeOK, WorkerOK, IInv, Steps
<1>3. XPIsBacked' /\ \A w \in Workers : Backed(w)'
  BY <1>1 DEF IInv, XPIsBacked, Backed
<1>4. ASSUME NEW n \in Members \ disturbed' PROVE Account(n)'
  <2>1. Account(n) /\ \A v \in Workers : ~Serves(v, n) /\ ~Serves(v, n)'
    BY <1>1 DEF IInv, Busy, Serves
  <2>2. \A v \in Workers : Serves(v, n)' = Serves(v, n)
    BY <2>1 DEF Serves
  <2>3. QED
    BY <2>1, <2>2, <1>1, AccountStays
<1>5. QED
  BY <1>2, <1>3, <1>4 DEF IInv

LEMMA StutterKeeps == IInv /\ UNCHANGED vars => IInv'
<1> SUFFICES ASSUME IInv, UNCHANGED vars PROVE IInv'
  OBVIOUS
<1>1. UNCHANGED <<badges, goals, month, pc, call, badgeXP, goalXP, disturbed>>
  BY DEF vars
<1>2. Typed' /\ XPIsBacked' /\ \A w \in Workers : Backed(w)'
  BY <1>1 DEF IInv, Typed, TypeOK, WorkerOK, XPIsBacked, Backed
<1>3. ASSUME NEW n \in Members \ disturbed' PROVE Account(n)'
  <2>1. Account(n) /\ \A v \in Workers : Serves(v, n)' = Serves(v, n)
    BY <1>1 DEF IInv, Serves
  <2>2. QED
    BY <2>1, <1>1, AccountStays
<1>4. QED
  BY <1>2, <1>3 DEF IInv

LEMMA InitIInv == Init => IInv
<1> SUFFICES ASSUME Init PROVE IInv
  OBVIOUS
<1>1. Typed
  <2>1. 0 \in Months
    BY DEF Months
  <2>2. QED
    BY <2>1 DEF Init, Typed, TypeOK, WorkerOK, Steps
<1>2. XPIsBacked /\ \A w \in Workers : Backed(w)
  BY DEF Init, XPIsBacked, Backed
<1>3. ASSUME NEW m \in Members PROVE Account(m)
  <2>1. \A w \in Workers : ~Serves(w, m)
    BY DEF Init, Serves
  <2>2. Paid(m)
    BY DEF Init, Paid, Achieved
  <2>3. QED
    BY <2>1, <2>2 DEF Account
<1>4. QED
  BY <1>1, <1>2, <1>3 DEF IInv

LEMMA NextKeeps == IInv /\ [Next]_vars => IInv'
<1> SUFFICES ASSUME IInv, [Next]_vars PROVE IInv'
  OBVIOUS
<1>1. ASSUME NEW w \in Workers, NEW m \in Members, TradeRecorded(w, m) PROVE IInv'
  BY <1>1, ReceiveKeeps DEF TradeRecorded
<1>2. ASSUME NEW w \in Workers, NEW m \in Members, NEW t \in Targets, GoalCommand(w, m, t)
      PROVE  IInv'
  BY <1>2, ReceiveKeeps DEF GoalCommand
<1>3. ASSUME NEW w \in Workers, Step(w) PROVE IInv'
  BY <1>3, ConditionsKeeps, HasBadgeKeeps, BadgesDoneKeeps, AwardBadgeKeeps, AwardBadgeXPKeeps,
     GetProgressKeeps, SaveAchievedKeeps, AwardGoalXPKeeps, ReadGoalKeeps, WriteGoalKeeps,
     ErrorKeeps DEF Step
<1>4. QED
  BY <1>1, <1>2, <1>3, NextMonthKeeps, CrashKeeps, StutterKeeps DEF Next

(* The inductive invariant of badge.go 92-132 and goal.go 51-142: what a   *)
(* worker has in hand, that XP is backed, and each member's account.       *)
THEOREM RewardsInvariance == Spec => []IInv
  BY InitIInv, NextKeeps, PTL DEF Spec

(* The stored badges, goals and XP have their types.                       *)
THEOREM RewardsTyped == Spec => []TypeOK
<1>1. IInv => TypeOK
  BY DEF IInv, Typed
<1>2. QED
  BY RewardsInvariance, <1>1, PTL

(* badge.go 111-119, goal.go 124-133: XP is only ever paid for what is     *)
(* stored, also when calls overlap, fail or are cut off.                   *)
THEOREM XPAlwaysBacked == Spec => []XPIsBacked
<1>1. IInv => XPIsBacked
  BY DEF IInv
<1>2. QED
  BY RewardsInvariance, <1>1, PTL

(* badge.go 92-132, goal.go 108-142: a member whose calls neither overlap  *)
(* nor fail is paid exactly once for each badge and each achieved goal.    *)
THEOREM PaidOnce == Spec => []PaidOnceUnlessDisturbed
<1>1. IInv => PaidOnceUnlessDisturbed
  <2> SUFFICES ASSUME IInv, NEW m \in Members \ disturbed, ~Busy(m) PROVE Paid(m)
    BY DEF PaidOnceUnlessDisturbed, Paid, Achieved
  <2>1. \A w \in Workers : ~Serves(w, m)
    BY DEF Busy, Serves
  <2>2. QED
    BY <2>1 DEF IInv, Account
<1>2. QED
  BY RewardsInvariance, <1>1, PTL

(* goal.go 51-61: no /goal and no second completion changes an achieved    *)
(* goal of a member whose calls do not overlap.                            *)
THEOREM AchievedKept == Spec => AchievedUnlessDisturbed
<1> DEFINE Kept == \A m \in Members \ disturbed', i \in Months :
                     goals[m][i] # NoGoal /\ goals[m][i].achieved => goals'[m][i] = goals[m][i]
<1>1. IInv /\ [Next]_vars => [Kept]_vars
  <2> SUFFICES ASSUME IInv, Next PROVE Kept
    BY DEF vars
  <2>1. ASSUME goals' = goals PROVE Kept
    BY <2>1
  <2>2. ASSUME NEW w \in Workers, SaveAchieved(w) \/ WriteGoal(w) PROVE Kept
    <3> SUFFICES ASSUME NEW m \in Members \ disturbed, NEW i \in Months, Achieved(m, i)
                 PROVE  goals'[m][i] = goals[m][i]
      BY <2>2 DEF Achieved, SaveAchieved, WriteGoal
    <3> DEFINE g == call[w].goal
    <3>1. /\ pc[w] \in {"saveGoal", "writeGoal"} /\ call[w].member \in Members
          /\ g.month \in Months
          /\ goals' = [goals EXCEPT ![call[w].member][g.month] = g]
      BY <2>2, WorkFacts DEF SaveAchieved, WriteGoal, At, IInv, Typed, WorkerOK
    <3>2. CASE call[w].member = m /\ g.month = i
      <4>1. PaidBut(m, w)
        BY <3>1, <3>2 DEF IInv, Account, Serves
      <4>2. g = goals[m][i]
        BY <4>1, <3>1, <3>2 DEF PaidBut
      <4>3. QED
        BY <4>2, <3>1, <3>2, StateTypes
    <3>3. CASE ~(call[w].member = m /\ g.month = i)
      BY <3>1, <3>3, StateTypes
    <3>4. QED
      BY <3>2, <3>3
  <2>3. ASSUME NEW w \in Workers, NEW m \in Members, TradeRecorded(w, m) PROVE goals' = goals
    BY <2>3 DEF TradeRecorded, Receive
  <2>4. ASSUME NEW w \in Workers, NEW m \in Members, NEW t \in Targets, GoalCommand(w, m, t)
        PROVE  goals' = goals
    BY <2>4 DEF GoalCommand, Receive
  <2>5. ASSUME NEW w \in Workers, Step(w) PROVE Kept
    <3>1. CASE SaveAchieved(w) \/ WriteGoal(w)
      BY <3>1, <2>2
    <3>2. CASE ~(SaveAchieved(w) \/ WriteGoal(w))
      <4>1. CASE \/ \E held \in SUBSET Badges : Conditions(w, held)
                 \/ \E b \in AllBadges : HasBadge(w, b)
                 \/ BadgesDone(w) \/ AwardBadge(w)
        BY <4>1, <2>1 DEF Conditions, HasBadge, BadgesDone, AwardBadge
      <4>2. CASE \/ \E reached \in BOOLEAN : GetProgress(w, reached)
                 \/ AwardBadgeXP(w) \/ AwardGoalXP(w) \/ ReadGoal(w) \/ Error(w)
        BY <4>2, <2>1 DEF AwardBadgeXP, GetProgress, AwardGoalXP, ReadGoal, Error
      <4>3. QED
        BY <2>5, <3>2, <4>1, <4>2 DEF Step
    <3>3. QED
      BY <3>1, <3>2
  <2>6. CASE NextMonth \/ Crash
    BY <2>6, <2>1 DEF NextMonth, Crash
  <2>7. QED
    BY <2>1, <2>3, <2>4, <2>5, <2>6 DEF Next
<1>2. QED
  BY <1>1, RewardsInvariance, PTL DEF Spec, AchievedUnlessDisturbed
=============================================================================
