------------------------------ MODULE Analytics -----------------------------
(***************************************************************************)
(* /analyze (handler.go 800-822, internal/service/analytics.go 31-97 and   *)
(* its cache, internal/adapter/badger/analytics.go 27-48): an analysis of  *)
(* a member's trades by an AI, cached for 24 hours.                        *)
(*                                                                         *)
(* One member, whose every /analyze has a goroutine of its own.  Between   *)
(* the look into the cache and the result in the cache lie a query to      *)
(* Notion and a call to the AI; each may fail, and each is answered or     *)
(* given up within a timeout.  What the store fails to read counts as not  *)
(* cached, and that it fails to save is ignored.  An analysis is           *)
(* represented by the number of trades that it is about.                   *)
(***************************************************************************)
EXTENDS Integers, Sequences, FiniteSetsExt

CONSTANTS
  Handlers,    \* the goroutines of the member's updates
  TTL,         \* 24 hours, in units of time
  MaxLatency,  \* an /analyze takes less than this
  PageSize,    \* the trades in an answer of Notion
  MaxTime,     \* bound: the last time
  MaxTrades    \* bound: the member's trades

ASSUME AnalyticsAssumption ==
  /\ TTL \in Nat \ {0} /\ MaxLatency \in Nat \ {0} /\ PageSize \in Nat \ {0}
  /\ MaxTime \in Nat /\ MaxTrades \in Nat

VARIABLES
  now,
  saved,      \* when each of the member's trades was saved, in order
  cache,      \* the cached analysis: its number of trades, and its expiry
  task,       \* what each handler is at
  shown,      \* history: the number of trades of the analysis last shown
  answered,   \* history: when the AI last answered
  clashed   \* history: analyses overlapped, or the store failed

analyticsVars == <<now, saved, cache, task, shown, answered, clashed>>

Idle == [pc |-> "idle"]

AnalyticsInit ==
  /\ now = 0 /\ saved = <<>> /\ shown = 0 /\ answered = -TTL /\ clashed = FALSE
  /\ cache = [total |-> 0, expires |-> 0]
  /\ task = [h \in Handlers |-> Idle]

SaveTrade ==
  /\ Len(saved) < MaxTrades
  /\ saved' = Append(saved, now)
  /\ UNCHANGED <<now, cache, task, shown, clashed, answered>>

-----------------------------------------------------------------------------
(* GetAnalyticsCache finds an analysis that has not expired.               *)
Cached == cache.total > 0 /\ now < cache.expires

(* The handlers between the cache's miss and the save of their result.     *)
Analyzing == {h \in Handlers : task[h].pc \in {"read", "ask", "save"}}

Show(h, total) ==
  /\ shown' = total
  /\ task' = [task EXCEPT ![h] = Idle]

Analyze(h) ==
  /\ task[h].pc = "idle"
  /\ task' = [task EXCEPT ![h] = [pc |-> "start", since |-> now]]
  /\ UNCHANGED <<now, saved, cache, shown, clashed, answered>>

Hit(h) ==
  /\ task[h].pc = "start" /\ Cached
  /\ Show(h, cache.total)
  /\ UNCHANGED <<now, saved, cache, clashed, answered>>

(* Nothing is cached, or the store fails to read it.                       *)
Miss(h, failed) ==
  /\ task[h].pc = "start"
  /\ ~Cached \/ failed
  /\ task' = [task EXCEPT ![h].pc = "read"]
  /\ clashed' = (clashed \/ failed \/ Analyzing # {})
  /\ UNCHANGED <<now, saved, cache, shown, answered>>

(* An answer of Notion has at most PageSize trades; none is an error.      *)
ReadTrades(h) ==
  /\ task[h].pc = "read" /\ saved # <<>>
  /\ task' = [task EXCEPT ![h] = [pc |-> "ask", since |-> @.since,
                                  total |-> Min({Len(saved), PageSize})]]
  /\ UNCHANGED <<now, saved, cache, shown, clashed, answered>>

(* Faulty variant: the expiry is the present.                              *)
AskNoTTL(h) ==
  /\ task[h].pc = "ask"
  /\ task' = [task EXCEPT ![h] = [pc |-> "save", since |-> @.since, total |-> @.total,
                                  expires |-> now]]
  /\ answered' = now
  /\ UNCHANGED <<now, saved, cache, shown, clashed>>

(* Faulty variant: an analysis lives for two days.                         *)
AskTwoDays(h) ==
  /\ task[h].pc = "ask"
  /\ task' = [task EXCEPT ![h] = [pc |-> "save", since |-> @.since, total |-> @.total,
                                  expires |-> now + 2 * TTL]]
  /\ answered' = now
  /\ UNCHANGED <<now, saved, cache, shown, clashed>>

(* The AI has answered; the analysis is dated.                             *)
Ask(h) ==
  /\ task[h].pc = "ask"
  /\ task' = [task EXCEPT ![h] = [pc |-> "save", since |-> @.since, total |-> @.total,
                                  expires |-> now + TTL]]
  /\ answered' = now
  /\ UNCHANGED <<now, saved, cache, shown, clashed>>

Save(h, failed) ==
  /\ task[h].pc = "save"
  /\ cache' = IF failed THEN cache ELSE [total |-> task[h].total, expires |-> task[h].expires]
  /\ clashed' = (clashed \/ failed)
  /\ Show(h, task[h].total)
  /\ UNCHANGED <<now, saved, answered>>

(* Notion or the AI fails, or there are no trades: an error is shown.      *)
Fail(h) ==
  /\ task[h].pc \in {"read", "ask"}
  /\ task' = [task EXCEPT ![h] = Idle]
  /\ UNCHANGED <<now, saved, cache, shown, clashed, answered>>

PassTime ==
  /\ now < MaxTime
  /\ \A h \in Handlers : task[h].pc # "idle" => now - task[h].since < MaxLatency
  /\ now' = now + 1
  /\ UNCHANGED <<saved, cache, task, shown, clashed, answered>>

AnalyticsNext ==
  \/ SaveTrade \/ PassTime
  \/ \E h \in Handlers :
       \/ Analyze(h) \/ Hit(h) \/ ReadTrades(h) \/ Ask(h) \/ Fail(h)
       \/ \E failed \in BOOLEAN : Miss(h, failed) \/ Save(h, failed)

AnalyticsSpec == AnalyticsInit /\ [][AnalyticsNext]_analyticsVars

-----------------------------------------------------------------------------
(***************************************************************************)
(* What holds between any two steps.                                       *)
(***************************************************************************)
Tasks == [pc : {"idle"}]
         \cup [pc : {"start", "read"}, since : Nat]
         \cup [pc : {"ask"}, since : Nat, total : Nat]
         \cup [pc : {"save"}, since : Nat, total : Nat, expires : Nat]

AnalyticsTypes ==
  /\ now \in 0..MaxTime
  /\ saved \in Seq(Nat)
  /\ cache \in [total : Nat, expires : Nat]
  /\ task \in [Handlers -> Tasks]
  /\ shown \in Nat /\ answered \in Int /\ clashed \in BOOLEAN

SavedBefore(t) == {i \in DOMAIN saved : saved[i] < t}

(* An analysis of n trades has those saved before t, or a page of them.    *)
Covers(n, t) == n >= Min({Cardinality(SavedBefore(t)), PageSize})

(* An analysis under way is about the trades saved before its /analyze,    *)
(* which is not long ago; and so is the cached one, whose date is later.   *)
Recent(t) ==
  /\ t.pc # "idle" => t.since <= now /\ now <= t.since + MaxLatency
  /\ t.pc \in {"ask", "save"} => Covers(t.total, t.since)
  /\ t.pc = "save" => t.expires <= now + TTL

RecentlyCached(c) ==
  /\ c.expires <= now + TTL
  /\ c.total > 0 => Covers(c.total, c.expires - TTL - MaxLatency)

AnalysesAreRecent == RecentlyCached(cache) /\ \A h \in Handlers : Recent(task[h])

(* One analysis at a time, which began when the last one had expired.      *)
OneAtATime ==
  /\ \A g, h \in Analyzing : g = h
  /\ \A h \in Handlers :
       /\ task[h].pc \in {"read", "ask"} => cache.expires <= now
       /\ task[h].pc \in {"ask", "save"} => task[h].total >= cache.total /\ task[h].total > 0
       /\ task[h].pc = "save" => task[h].expires = answered + TTL
  /\ (\A h \in Handlers : task[h].pc # "save") => cache.expires = answered + TTL

(* The number of trades only grows, from what is shown to what is saved.   *)
TotalsGrow ==
  /\ shown <= cache.total
  /\ cache.total = 0 => cache.expires = 0
  /\ cache.total <= Len(saved) /\ cache.total <= PageSize
  /\ \A h \in Handlers : task[h].pc \in {"ask", "save"} =>
       task[h].total <= Len(saved) /\ task[h].total <= PageSize

AnalyticsIInv ==
  /\ AnalyticsTypes /\ AnalysesAreRecent
  /\ ~clashed => OneAtATime /\ TotalsGrow

-----------------------------------------------------------------------------
(* A handler ends other than by failing: it shows an analysis.             *)
Shows(h) == task[h].pc \in {"start", "save"} /\ task'[h].pc = "idle"

(***************************************************************************)
(* analytics.go 30 and 84-94: whatever overlaps or fails, an analysis      *)
(* shown is about every trade saved a day and a call's duration before, as *)
(* far as one answer of Notion holds them.  (An analysis is dated when the *)
(* AI answers, after the trades were read, and an older one may overwrite  *)
(* a newer one: each is right for a day all the same.)                     *)
(***************************************************************************)
ShownIsRecent ==
  [][\A h \in Handlers : Shows(h) =>
       shown' >= Min({Cardinality(SavedBefore(now - TTL - MaxLatency)), PageSize})]_analyticsVars

(***************************************************************************)
(* analytics.go 33-36, 87, 94: as long as no two analyses overlap and the  *)
(* store works, what a member is shown never goes back to fewer trades,    *)
(* and the AI answers at most once in 24 hours.                            *)
(***************************************************************************)
CacheIsUsedUnlessDisturbed ==
  [][/\ \A h \in Handlers : Shows(h) => shown' >= shown \/ clashed'
     /\ \A h \in Handlers : task[h].pc = "ask" /\ task'[h].pc = "save" =>
          now - answered >= TTL \/ clashed]_analyticsVars

(***************************************************************************)
(* trade.go 55, "retrieves all trades for a member": an analysis that was  *)
(* not taken from the cache is about all trades that were saved when it    *)
(* began.  It is not: one page of the answer is read.                      *)
(***************************************************************************)
AllTradesAreRead ==
  [][\A h \in Handlers : task[h].pc = "read" /\ task'[h].pc = "ask" =>
       task'[h].total = Len(saved)]_analyticsVars
=============================================================================
