--------------------------- MODULE TelegramProofs ---------------------------
(***************************************************************************)
(* Proofs about the Telegram adapter: RateLimiter, Gate, which runs it,    *)
(* and BotPolling.  The limiter: its invariant, the limit for every        *)
(* period, and that it implements SlidingWindow, for any users, limit and  *)
(* window.  The gate: each of its steps is a step of the limiter or none,  *)
(* so what holds of the limiter holds behind the gate; who is served; how  *)
(* often the owner is told.  Polling, for any number of updates, failed    *)
(* calls and restarts: no update is skipped or started out of order.       *)
(***************************************************************************)
EXTENDS Gate, BotPolling, FiniteSetTheorems, TLAPS

USE RateLimiterAssumption

Finite == \A u \in Users : IsFiniteSet(accepted[u])

FInv == IInv /\ Finite

(* The requests a call counts are those of the window among all accepted:  *)
(* the heart of both results (ratelimit.go 38-45).                         *)
LEMMA CountsAll ==
  ASSUME TypeOK, Kept, NEW u \in Users
  PROVE  Valid(limits[u]) = Valid(accepted[u])
  BY DEF TypeOK, Kept, Valid

(* Parts of the accepted requests are finite.                              *)
LEMMA PartsFinite ==
  ASSUME TypeOK, Finite, NEW u \in Users, NEW start \in Int
  PROVE  /\ IsFiniteSet(Valid(accepted[u]))
         /\ Cardinality(Valid(accepted[u])) \in Nat
         /\ IsFiniteSet(InPeriod(accepted[u], start))
         /\ Cardinality(InPeriod(accepted[u], start)) \in Nat
<1>1. IsFiniteSet(accepted[u])
  BY DEF Finite
<1>2. IsFiniteSet(Valid(accepted[u])) /\ IsFiniteSet(InPeriod(accepted[u], start))
  BY <1>1, FS_Subset DEF Valid, InPeriod
<1>3. QED
  BY <1>2, FS_CardinalityType

LEMMA InitFInv == Init => FInv
<1> SUFFICES ASSUME Init PROVE FInv
  OBVIOUS
<1>1. TypeOK /\ Kept
  BY DEF Init, TypeOK, Kept, Valid
<1>2. Finite
  BY FS_EmptySet DEF Init, Finite
<1>3. AtMostMaxReqs
  <2> SUFFICES ASSUME NEW u \in Users, NEW start \in -Window..now
               PROVE  Cardinality(InPeriod(accepted[u], start)) <= MaxReqs
    BY DEF AtMostMaxReqs
  <2>1. InPeriod(accepted[u], start) = {}
    BY DEF Init, InPeriod
  <2>2. QED
    BY <2>1, FS_EmptySet
<1>4. QED
  BY <1>1, <1>2, <1>3 DEF FInv, IInv

LEMMA TickFInv == FInv /\ Tick => FInv'
<1> SUFFICES ASSUME FInv, Tick PROVE FInv'
  OBVIOUS
<1>t. now \in Int /\ now' = now + 1 /\ accepted' = accepted /\ limits' = limits
  BY DEF FInv, IInv, TypeOK, Tick
<1>1. TypeOK'
  <2>1. Request \subseteq Request'
    BY <1>t DEF FInv, IInv, TypeOK, Tick, Request
  <2>2. QED
    BY <2>1, <1>t DEF FInv, IInv, TypeOK, Tick
<1>2. Kept'
  <2> SUFFICES ASSUME NEW u \in Users
               PROVE  limits[u] \subseteq accepted[u] /\ Valid(accepted[u])' \subseteq limits[u]
    BY <1>t DEF Kept
  <2>1. \A r \in accepted[u] : r.at \in Int
    BY DEF FInv, IInv, TypeOK, Request
  <2>2. Valid(accepted[u])' \subseteq Valid(accepted[u])
    BY <2>1, <1>t DEF Valid
  <2>3. QED
    BY <2>2 DEF FInv, IInv, Kept
<1>3. Finite'
  BY <1>t DEF FInv, Finite
<1>4. AtMostMaxReqs'
  <2> SUFFICES ASSUME NEW u \in Users, NEW start \in -Window..(now + 1)
               PROVE  Cardinality(InPeriod(accepted[u], start)) <= MaxReqs
    BY <1>t DEF AtMostMaxReqs, InPeriod
  <2>1. CASE start \in -Window..now
    BY <2>1 DEF FInv, IInv, AtMostMaxReqs
  <2>2. CASE start = now + 1
    <3>1. \A r \in accepted[u] : r.at \in 0..now
      BY DEF FInv, IInv, TypeOK, Request
    <3>2. InPeriod(accepted[u], start) = {}
      BY <3>1, <2>2, <1>t DEF InPeriod
    <3>3. QED
      BY <3>2, FS_EmptySet
  <2>3. QED
    BY <2>1, <2>2, <1>t
<1>5. QED
  BY <1>1, <1>2, <1>3, <1>4 DEF FInv, IInv

LEMMA CleanupFInv == FInv /\ Cleanup => FInv'
<1> SUFFICES ASSUME FInv, Cleanup PROVE FInv'
  OBVIOUS
<1>1. TypeOK'
  BY DEF FInv, IInv, TypeOK, Cleanup, Valid, Request
<1>2. Kept'
  BY CountsAll DEF FInv, IInv, Kept, Cleanup, Valid
<1>3. Finite'
  BY DEF FInv, Finite, Cleanup
<1>4. AtMostMaxReqs'
  BY DEF FInv, IInv, AtMostMaxReqs, Cleanup, InPeriod
<1>5. QED
  BY <1>1, <1>2, <1>3, <1>4 DEF FInv, IInv

LEMMA AllowFInv == ASSUME FInv, NEW u \in Users, Allow(u) PROVE FInv'
<1> DEFINE this == [id |-> requests + 1, at |-> now]
           ok == ~(Cardinality(Valid(limits[u])) >= MaxReqs)
<1>t. now \in Nat /\ requests \in Nat /\ now' = now /\ requests' = requests + 1
  BY DEF FInv, IInv, TypeOK, Allow
<1>e. Valid(limits[u]) = Valid(accepted[u])
  BY CountsAll DEF FInv, IInv
<1>f. /\ limits' = [limits EXCEPT ![u] = IF ok THEN Valid(limits[u]) \cup {this}
                                              ELSE Valid(limits[u])]
      /\ accepted' = [accepted EXCEPT ![u] = IF ok THEN @ \cup {this} ELSE @]
  BY DEF Allow
<1>r. Request \subseteq Request' /\ this \in Request'
  BY <1>t DEF Request
<1>1. TypeOK'
  <2>1. limits' \in [Users -> SUBSET Request']
    BY <1>f, <1>r DEF FInv, IInv, TypeOK, Valid
  <2>2. accepted' \in [Users -> SUBSET Request']
    BY <1>f, <1>r DEF FInv, IInv, TypeOK
  <2>3. answer' \in BOOLEAN
    BY DEF Allow
  <2>4. QED
    BY <2>1, <2>2, <2>3, <1>t DEF TypeOK
<1>2. Kept'
  <2> SUFFICES ASSUME NEW v \in Users
               PROVE  limits'[v] \subseteq accepted'[v] /\ Valid(accepted'[v]) \subseteq limits'[v]
    BY <1>t DEF Kept, Valid
  <2>1. CASE v # u
    BY <2>1, <1>f DEF FInv, IInv, TypeOK, Kept
  <2>2. CASE v = u
    <3>1. CASE ok
      BY <2>2, <3>1, <1>f, <1>e DEF FInv, IInv, TypeOK, Kept, Valid
    <3>2. CASE ~ok
      BY <2>2, <3>2, <1>f, <1>e DEF FInv, IInv, TypeOK, Kept, Valid
    <3>3. QED
      BY <3>1, <3>2
  <2>3. QED
    BY <2>1, <2>2
<1>3. Finite'
  <2> SUFFICES ASSUME NEW v \in Users PROVE IsFiniteSet(accepted'[v])
    BY DEF Finite
  <2>1. IsFiniteSet(accepted[v]) /\ IsFiniteSet(accepted[v] \cup {this})
    BY FS_AddElement DEF FInv, Finite
  <2>2. QED
    BY <2>1, <1>f DEF FInv, IInv, TypeOK
<1>4. AtMostMaxReqs'
  <2> SUFFICES ASSUME NEW v \in Users, NEW start \in -Window..now
               PROVE  Cardinality(InPeriod(accepted'[v], start)) <= MaxReqs
    BY <1>t DEF AtMostMaxReqs, InPeriod
  <2>0. Cardinality(InPeriod(accepted[v], start)) <= MaxReqs
    BY DEF FInv, IInv, AtMostMaxReqs
  <2>1. CASE v # u \/ ~ok
    <3>1. accepted'[v] = accepted[v]
      BY <2>1, <1>f DEF FInv, IInv, TypeOK
    <3>2. QED
      BY <3>1, <2>0
  <2>2. CASE v = u /\ ok
    <3>1. accepted'[u] = accepted[u] \cup {this}
      BY <2>2, <1>f DEF FInv, IInv, TypeOK
    <3>2. CASE start < now /\ now <= start + Window
      <4> DEFINE P == InPeriod(accepted[u], start)
                 V == Valid(accepted[u])
      <4>0. \A r \in accepted[u] : r.at \in Int
        BY DEF FInv, IInv, TypeOK, Request
      <4>1. P \subseteq V
        BY <3>2, <4>0, <1>t DEF InPeriod, Valid
      <4>2. IsFiniteSet(V) /\ Cardinality(V) \in Nat /\ IsFiniteSet(P) /\ Cardinality(P) \in Nat
        BY PartsFinite, <1>t DEF FInv, IInv
      <4>3. Cardinality(P) <= Cardinality(V)
        BY <4>1, <4>2, FS_Subset
      <4>4. Cardinality(V) < MaxReqs
        BY <2>2, <1>e, <4>2
      <4>5. InPeriod(accepted'[u], start) = P \cup {this}
        BY <3>1, <3>2 DEF InPeriod
      <4> HIDE DEF P, V, this
      <4>6. Cardinality(P \cup {this}) <= Cardinality(P) + 1
        <5>1. \/ Cardinality(P \cup {this}) = Cardinality(P)
              \/ Cardinality(P \cup {this}) = Cardinality(P) + 1
          BY <4>2, FS_AddElement
        <5>2. QED
          BY <5>1, <4>2
      <4>7. IsFiniteSet(P \cup {this}) /\ Cardinality(P \cup {this}) \in Nat
        BY <4>2, FS_AddElement, FS_CardinalityType
      <4>8. QED
        BY <4>2, <4>3, <4>4, <4>5, <4>6, <4>7, <2>2
    <3>3. CASE ~(start < now /\ now <= start + Window)
      <4>1. InPeriod(accepted'[u], start) = InPeriod(accepted[u], start)
        BY <3>1, <3>3 DEF InPeriod
      <4>2. QED
        BY <4>1, <2>0, <2>2
    <3>4. QED
      BY <3>2, <3>3
  <2>3. QED
    BY <2>1, <2>2
<1>5. QED
  BY <1>1, <1>2, <1>3, <1>4 DEF FInv, IInv

LEMMA NewLimiterFInv == FInv /\ NewLimiter => FInv'
<1> SUFFICES ASSUME FInv, NewLimiter PROVE FInv'
  OBVIOUS
<1>t. /\ now' = now /\ requests' = requests /\ now \in Nat
      /\ \A u \in Users : limits'[u] = {} /\ accepted'[u] = {}
  BY DEF FInv, IInv, TypeOK, NewLimiter
<1>1. TypeOK'
  BY DEF FInv, IInv, TypeOK, NewLimiter, Request
<1>2. Kept'
  BY <1>t DEF Kept, Valid
<1>3. Finite'
  BY <1>t, FS_EmptySet DEF Finite
<1>4. AtMostMaxReqs'
  <2> SUFFICES ASSUME NEW u \in Users, NEW start \in -Window..now
               PROVE  Cardinality(InPeriod(accepted'[u], start)) <= MaxReqs
    BY <1>t DEF AtMostMaxReqs, InPeriod
  <2>1. InPeriod(accepted'[u], start) = {}
    BY <1>t DEF InPeriod
  <2>2. QED
    BY <2>1, FS_EmptySet
<1>5. QED
  BY <1>1, <1>2, <1>3, <1>4 DEF FInv, IInv

LEMMA StutterFInv == FInv /\ UNCHANGED vars => FInv'
  BY DEF FInv, IInv, TypeOK, Kept, Finite, AtMostMaxReqs, InPeriod, Valid, Request, vars

LEMMA FInvariance == Spec => []FInv
<1>1. FInv /\ [Next]_vars => FInv'
  BY TickFInv, CleanupFInv, NewLimiterFInv, AllowFInv, StutterFInv DEF Next
<1>2. QED
  BY InitFInv, <1>1, PTL DEF Spec

(* The inductive invariant of ratelimit.go 31-54 and 76-97.                *)
THEOREM LimiterInvariance == Spec => []IInv
<1>1. FInv => IInv
  BY DEF FInv
<1>2. QED
  BY FInvariance, <1>1, PTL

(* ratelimit.go 18: at most MaxReqs requests of a user are allowed in any  *)
(* period of the window's length.                                          *)
THEOREM AtMostMaxReqsAllowed == Spec => []AtMostMaxReqs
<1>1. IInv => AtMostMaxReqs
  BY DEF IInv
<1>2. QED
  BY LimiterInvariance, <1>1, PTL

(* The abstract module's instance of FiniteSets counts as this one's does.  *)
LEMMA SameCardinality ==
  ASSUME NEW S PROVE Abstract!Cardinality(S) = Cardinality(S)
  BY DEF Abstract!Cardinality, Cardinality

(* Every answer is that of the limiter which remembers all requests: the   *)
(* pruning in Allow and the clean-up are never visible (ratelimit.go 8).   *)
THEOREM LimiterRefines == Spec => ImplementsSlidingWindow
<1>1. Init => Abstract!Init
  BY DEF Init, Abstract!Init
<1>2. FInv /\ [Next]_vars => [Abstract!Next]_Abstract!window
  <2> SUFFICES ASSUME FInv, [Next]_vars PROVE [Abstract!Next]_Abstract!window
    OBVIOUS
  <2>1. CASE Tick
    BY <2>1 DEF Tick, Abstract!Next, Abstract!Tick
  <2>2. CASE Cleanup
    BY <2>2 DEF Cleanup, Abstract!window
  <2>3. ASSUME NEW u \in Users, Allow(u) PROVE Abstract!Next
    <3> DEFINE this == [id |-> requests + 1, at |-> now]
               ok == ~(Cardinality(Valid(limits[u])) >= MaxReqs)
    <3>1. Valid(limits[u]) = Abstract!After(accepted[u], now - Window)
      BY CountsAll DEF FInv, IInv, Valid, Abstract!After
    <3>2. Cardinality(Valid(limits[u])) \in Nat
      BY CountsAll, PartsFinite DEF FInv, IInv
    <3>3. /\ answer' = ok /\ now' = now /\ requests' = requests + 1
          /\ accepted' = [accepted EXCEPT ![u] = IF ok THEN @ \cup {this} ELSE @]
      BY <2>3 DEF Allow
    <3>4. CASE ok
      <4>1. Abstract!Cardinality(Abstract!After(accepted[u], now - Window)) < MaxReqs
        BY <3>1, <3>2, <3>4, SameCardinality
      <4>2. answer' = TRUE /\ accepted' = [accepted EXCEPT ![u] = @ \cup {this}]
        BY <3>3, <3>4
      <4>3. QED
        BY <4>1, <4>2, <3>3 DEF Abstract!Next, Abstract!Request, Abstract!Accept
    <3>5. CASE ~ok
      <4>1. accepted' = accepted
        BY <3>3, <3>5 DEF FInv, IInv, TypeOK
      <4>2. Abstract!Reject(u)
        BY <3>1, <3>2, <3>3, <3>5, <4>1, SameCardinality DEF Abstract!Reject
      <4>3. QED
        BY <4>2, <3>3 DEF Abstract!Next, Abstract!Request
    <3>6. QED
      BY <3>4, <3>5
  <2>4. CASE NewLimiter
    BY <2>4 DEF NewLimiter, Abstract!Next, Abstract!Restart
  <2>5. CASE UNCHANGED vars
    BY <2>5 DEF vars, Abstract!window
  <2>6. QED
    BY <2>1, <2>2, <2>3, <2>4, <2>5 DEF Next
<1>3. QED
  BY <1>1, <1>2, FInvariance, PTL DEF Spec, ImplementsSlidingWindow, Abstract!Spec

-----------------------------------------------------------------------------
(* The gate.  The handlers only reach the limiter by its operations, and   *)
(* in between they leave it and its clock alone.                           *)
LEMMA GateStepsLimiter == GateIInv /\ [GateNext]_gateVars => [Next]_vars
<1> SUFFICES ASSUME GateIInv, [GateNext]_gateVars PROVE [Next]_vars
  OBVIOUS
<1>1. ASSUME NEW h \in Handlers, Limit(h) PROVE Next
  <2>1. task[h].user \in Users
    BY <1>1 DEF GateIInv, GateTypeOK, Limit
  <2>2. QED
    BY <1>1, <2>1 DEF Limit, Next
<1>2. ASSUME NEW h \in Handlers,
             Receive(h) \/ Check(h) \/ TestNotified(h) \/ Notify(h) \/ Route(h) \/ Serve(h)
      PROVE  UNCHANGED vars
  BY <1>2 DEF Receive, Check, TestNotified, Notify, Route, Serve
<1>3. CASE EndSession \/ JoinOrLeave
  BY <1>3 DEF EndSession, JoinOrLeave
<1>4. CASE PassTime \/ Restart
  BY <1>4 DEF PassTime, Restart, Next
<1>5. CASE UNCHANGED gateVars
  BY <1>5 DEF gateVars
<1>6. QED
  BY <1>1, <1>2, <1>3, <1>4, <1>5 DEF GateNext

GateInv == FInv /\ GateIInv

(* What a handler works on is of one of four forms.                        *)
LEMMA TaskFacts ==
  ASSUME NEW t, TaskOK(t)
  PROVE  /\ t.pc \in {"idle", "limit", "check", "denied", "notify", "admitted", "routed"}
         /\ t.pc # "idle" => t.user \in Users
         /\ t.pc \in {"limit", "check", "admitted", "routed"} =>
              t.text \in Texts /\ t.rightful \in BOOLEAN
         /\ t.pc = "idle" => t = Idle
         /\ t.pc \in {"limit", "check", "admitted"} => t \in Commands
         /\ t.pc \in {"denied", "notify"} => t \in Denials
  BY DEF TaskOK, Idle, Commands, Denials, IsRouted

(* The forms survive the changes of a field that the handlers make.        *)
LEMMA CommandChecked ==
  ASSUME NEW t \in Commands
  PROVE  /\ [t EXCEPT !.pc = "check"] \in Commands
         /\ [t EXCEPT !.pc = "check"].pc = "check"
         /\ [t EXCEPT !.pc = "check"].user = t.user
         /\ [t EXCEPT !.pc = "check"].rightful = t.rightful
  BY DEF Commands

LEMMA CommandRightful ==
  ASSUME NEW t \in Commands
  PROVE  /\ [t EXCEPT !.rightful = TRUE] \in Commands
         /\ [t EXCEPT !.rightful = TRUE].pc = t.pc
         /\ [t EXCEPT !.rightful = TRUE].user = t.user
         /\ [t EXCEPT !.rightful = TRUE].rightful
  BY DEF Commands

LEMMA DenialNotified ==
  ASSUME NEW t \in Denials
  PROVE  /\ [t EXCEPT !.pc = "notify"] \in Denials
         /\ [t EXCEPT !.pc = "notify"].pc = "notify"
         /\ [t EXCEPT !.pc = "notify"].user = t.user
  BY DEF Denials

(* One handler's work changes, the others' does not.                       *)
LEMMA OneTask ==
  ASSUME GateIInv, NEW h \in Handlers, NEW t, task' = [task EXCEPT ![h] = t]
  PROVE  /\ DOMAIN task' = Handlers /\ task' = [g \in Handlers |-> task'[g]]
         /\ task'[h] = t
         /\ \A g \in Handlers \ {h} : task'[g] = task[g]
  BY DEF GateIInv

(* A step that begins no denial and no notification, and does not touch    *)
(* what is remembered of them, disturbs no one.                            *)
LEMMA StaysUndisturbed ==
  ASSUME GateInv, FInv', now' >= now,
         noticed' = noticed, unauthNotified' = unauthNotified, disturbed \subseteq disturbed',
         \A g \in Handlers : task'[g].pc \in {"denied", "notify"} => task'[g] = task[g]
  PROVE  \A u \in Users \ disturbed' : Undisturbed(u)'
<1> SUFFICES ASSUME NEW u \in Users \ disturbed' PROVE Undisturbed(u)'
  OBVIOUS
<1>1. Undisturbed(u)
  BY DEF GateInv, GateIInv
<1>2. Denying(u)' \subseteq Denying(u)
  BY DEF Denying
<1>3. \A h \in Denying(u)' : task'[h] = task[h]
  BY DEF Denying
<1>4. now \in Nat /\ now' \in Nat /\ noticed[u] \in Int
  BY DEF GateInv, GateIInv, GateTypeOK, FInv, IInv, TypeOK
<1>5. \A h, g \in Denying(u)' : h = g
  BY <1>1, <1>2 DEF Undisturbed
<1>6. ASSUME NEW h \in Denying(u)', task'[h].pc = "notify"
      PROVE  noticed'[u] = Never \/ now' - noticed'[u] > Hour
  <2>1. noticed[u] = Never \/ now - noticed[u] > Hour
    BY <1>1, <1>2, <1>3, <1>6 DEF Undisturbed
  <2>2. QED
    BY <2>1, <1>4, GateAssumption
<1>7. QED
  BY <1>1, <1>5, <1>6 DEF Undisturbed

(* What remains to be shown of a step that leaves all else alone: that the *)
(* handler's new work is in order and denies nobody.                       *)
LEMMA QuietTask ==
  ASSUME GateInv, NEW h \in Handlers, NEW t,
         TaskOK(t), Rightful(t, members'), t.pc \notin {"denied", "notify"},
         FInv', now' = now, task' = [task EXCEPT ![h] = t],
         UNCHANGED <<members, unauthNotified, restarts, noticed, early, disturbed>>,
         sessions' \subseteq Users
  PROVE  GateIInv'
<1>1. /\ DOMAIN task' = Handlers /\ task' = [g \in Handlers |-> task'[g]]
      /\ task'[h] = t /\ \A g \in Handlers \ {h} : task'[g] = task[g]
  BY OneTask DEF GateInv
<1>2. \A g \in Handlers : TaskOK(task[g])' /\ Rightful(task[g], members)'
  BY <1>1 DEF GateInv, GateIInv, Rightful, TaskOK, IsRouted, Commands, Denials, Idle
<1>3. GateTypeOK'
  BY <1>2, TaskFacts DEF GateInv, GateIInv, GateTypeOK, FInv, IInv
<1>4. \A u \in Users \ disturbed' : Undisturbed(u)'
  <2>1. now \in Nat
    BY DEF GateInv, FInv, IInv, TypeOK
  <2>2. \A g \in Handlers : task'[g].pc \in {"denied", "notify"} => task'[g] = task[g]
    BY <1>1
  <2>3. QED
    BY <2>1, <2>2, StaysUndisturbed
<1>5. QED
  BY <1>1, <1>2, <1>3, <1>4 DEF GateInv, GateIInv, NotifiedHourlyUnlessDisturbed

LEMMA ReceiveKeeps == ASSUME GateInv, FInv', NEW h \in Handlers, Receive(h) PROVE GateIInv'
<1>1. PICK u \in Users, text \in Texts : task' = [task EXCEPT ![h] = Update(u, text)]
  BY DEF Receive
<1> DEFINE t == Update(u, text)
<1>2. t \in Commands /\ t.pc \in {"limit", "check"} /\ t.user = u /\ t.rightful = (u \in members)
  BY DEF Update, Commands
<1>3. TaskOK(t) /\ Rightful(t, members')
  BY <1>2 DEF TaskOK, Rightful, Receive
<1>4. now' = now /\ sessions' \subseteq Users /\ task' = [task EXCEPT ![h] = t]
  BY <1>1 DEF Receive, vars, GateInv, GateIInv, GateTypeOK
<1> HIDE DEF t
<1>5. UNCHANGED <<members, unauthNotified, restarts, noticed, early, disturbed>>
  BY DEF Receive
<1>6. QED
  BY <1>2, <1>3, <1>4, <1>5, QuietTask

LEMMA LimitKeeps == ASSUME GateInv, FInv', NEW h \in Handlers, Limit(h) PROVE GateIInv'
<1> DEFINE t == IF answer' THEN [task[h] EXCEPT !.pc = "check"] ELSE Idle
<1>1. task[h] \in Commands /\ task[h].pc = "limit" /\ Rightful(task[h], members)
  BY TaskFacts DEF Limit, GateInv, GateIInv
<1>2. TaskOK(t) /\ Rightful(t, members') /\ t.pc \notin {"denied", "notify"}
  <2>1. CASE answer'
    <3>1. t = [task[h] EXCEPT !.pc = "check"]
      BY <2>1
    <3>2. t \in Commands /\ t.pc = "check" /\ t.user = task[h].user
          /\ t.rightful = task[h].rightful
      <4> HIDE DEF t
      <4> QED BY <3>1, <1>1, CommandChecked
    <3> HIDE DEF t
    <3>3. members' = members
      BY DEF Limit
    <3>4. QED
      BY <3>2, <3>3, <1>1 DEF TaskOK, Rightful
  <2>2. CASE ~answer'
    BY <2>2 DEF TaskOK, Rightful, Idle
  <2>3. QED
    BY <2>1, <2>2
<1>3. now' = now /\ sessions' \subseteq Users /\ task' = [task EXCEPT ![h] = t]
  BY DEF Limit, Allow, GateInv, GateIInv, GateTypeOK
<1> HIDE DEF t
<1>4. QED
  BY <1>2, <1>3, QuietTask DEF Limit

LEMMA AdmitKeeps ==
  ASSUME GateInv, FInv', NEW h \in Handlers, task[h].pc = "check", NEW failed \in BOOLEAN,
         failed \/ task[h].user \in members, Admit(h, failed),
         UNCHANGED <<vars, members, unauthNotified, sessions, restarts, noticed, early, disturbed>>
  PROVE  GateIInv'
<1> DEFINE t == [task[h] EXCEPT !.pc = "admitted", !.rightful = @ \/ failed]
<1>1. task[h] \in Commands /\ Rightful(task[h], members)
  BY TaskFacts DEF GateInv, GateIInv
<1>2. t \in Commands /\ t.pc = "admitted" /\ t.rightful
  <2>1. task[h].rightful \/ failed
    BY <1>1 DEF Rightful
  <2>2. (task[h].rightful \/ failed) = TRUE
    BY <2>1
  <2>3. t = [task[h] EXCEPT !.pc = "admitted", !.rightful = TRUE]
    BY <2>2
  <2> HIDE DEF t
  <2>4. task[h] = [pc |-> task[h].pc, user |-> task[h].user, text |-> task[h].text,
                   rightful |-> task[h].rightful]
    BY <1>1 DEF Commands
  <2>5. t.pc = "admitted" /\ t.user = task[h].user /\ t.text = task[h].text
        /\ t.rightful
    BY <2>4, <2>3
  <2>6. t = [pc |-> t.pc, user |-> t.user, text |-> t.text, rightful |-> t.rightful]
    BY <2>4, <2>3
  <2>7. task[h].user \in Users /\ task[h].text \in Texts
    BY <1>1 DEF Commands
  <2>8. QED
    BY <2>5, <2>6, <2>7 DEF Commands
<1>3. task' = [task EXCEPT ![h] = t]
  BY DEF Admit
<1> HIDE DEF t
<1>4. TaskOK(t) /\ Rightful(t, members')
  BY <1>2 DEF TaskOK, Rightful
<1>5. now' = now /\ sessions' \subseteq Users
  BY DEF vars, GateInv, GateIInv, GateTypeOK
<1>6. QED
  BY <1>2, <1>3, <1>4, <1>5, QuietTask

LEMMA DenyKeeps ==
  ASSUME GateInv, FInv', NEW h \in Handlers, task[h].pc = "check", Deny(h),
         UNCHANGED <<vars, members, unauthNotified, sessions, restarts, noticed, early>>
  PROVE  GateIInv'
<1> DEFINE u == task[h].user
           t == [pc |-> "denied", user |-> u]
<1>1. u \in Users /\ t \in Denials
  BY TaskFacts DEF GateInv, GateIInv, Denials
<1>2. task' = [task EXCEPT ![h] = t]
  BY DEF Deny
<1> HIDE DEF t
<1>3. /\ DOMAIN task' = Handlers /\ task' = [g \in Handlers |-> task'[g]]
      /\ task'[h] = t /\ \A g \in Handlers \ {h} : task'[g] = task[g]
  BY <1>2, OneTask DEF GateInv
<1>4. now' = now /\ disturbed \subseteq disturbed' /\ disturbed' \subseteq Users
  BY <1>1 DEF Deny, vars, GateInv, GateIInv, GateTypeOK
<1>5. \A g \in Handlers : TaskOK(task[g])' /\ Rightful(task[g], members)'
  BY <1>1, <1>3 DEF GateInv, GateIInv, Rightful, TaskOK, IsRouted, Commands, Denials, Idle, t
<1>6. GateTypeOK'
  BY <1>4, <1>5, TaskFacts DEF GateInv, GateIInv, GateTypeOK, FInv, IInv
<1>7. ASSUME NEW v \in Users \ disturbed' PROVE Undisturbed(v)'
  <2>1. Undisturbed(v)
    BY <1>4 DEF GateInv, GateIInv
  <2>2. CASE v # u
    <3>1. Denying(v)' = Denying(v) /\ h \notin Denying(v)
      BY <2>2, <1>3 DEF Denying, t
    <3>2. \A g \in Denying(v) : task'[g] = task[g]
      BY <3>1, <1>3 DEF Denying
    <3>3. QED
      BY <2>1, <3>1, <3>2, <1>4 DEF Undisturbed
  <2>3. CASE v = u
    <3>1. Denying(u) = {}
      BY <2>3, <1>1 DEF Deny
    <3>2. Denying(v)' \subseteq {h} /\ task'[h].pc = "denied"
      BY <2>3, <3>1, <1>3 DEF Denying, t
    <3>3. noticed' = noticed /\ unauthNotified' = unauthNotified
      OBVIOUS
    <3>4. QED
      BY <2>1, <3>2, <3>3 DEF Undisturbed
  <2>4. QED
    BY <2>2, <2>3
<1>8. QED
  BY <1>3, <1>4, <1>5, <1>6, <1>7 DEF GateInv, GateIInv, NotifiedHourlyUnlessDisturbed

LEMMA CheckKeeps == ASSUME GateInv, FInv', NEW h \in Handlers, Check(h) PROVE GateIInv'
<1>1. CASE Admit(h, TRUE) /\ UNCHANGED disturbed
  BY <1>1, AdmitKeeps DEF Check
<1>2. CASE task[h].user \in members /\ Admit(h, FALSE) /\ UNCHANGED disturbed
  BY <1>2, AdmitKeeps DEF Check
<1>3. CASE Deny(h)
  BY <1>3, DenyKeeps DEF Check
<1>4. QED
  BY <1>1, <1>2, <1>3 DEF Check

LEMMA TestNotifiedKeeps ==
  ASSUME GateInv, FInv', NEW h \in Handlers, TestNotified(h) PROVE GateIInv'
<1> DEFINE u == task[h].user
           last == unauthNotified[u]
           t == [task[h] EXCEPT !.pc = "notify"]
<1>1. task[h] \in Denials /\ task[h].pc = "denied" /\ u \in Users
  BY TaskFacts DEF TestNotified, GateInv, GateIInv
<1>2. now' = now /\ sessions' \subseteq Users
  BY DEF TestNotified, vars, GateInv, GateIInv, GateTypeOK
<1>3. UNCHANGED <<members, unauthNotified, restarts, noticed, early, disturbed>>
  BY DEF TestNotified
<1>4. CASE last = Never \/ now - last > Hour
  <2>1. t \in Denials /\ t.pc = "notify" /\ t.user = u
    BY <1>1, DenialNotified
  <2>2. task' = [task EXCEPT ![h] = t]
    BY <1>4 DEF TestNotified
  <2> HIDE DEF t
  <2>3. /\ DOMAIN task' = Handlers /\ task' = [g \in Handlers |-> task'[g]]
        /\ task'[h] = t /\ \A g \in Handlers \ {h} : task'[g] = task[g]
    BY <2>2, OneTask DEF GateInv
  <2>4. \A g \in Handlers : TaskOK(task[g])' /\ Rightful(task[g], members)'
    BY <2>1, <2>3, <1>3 DEF GateInv, GateIInv, Rightful, TaskOK, IsRouted, Commands, Denials, Idle
  <2>5. GateTypeOK'
    BY <1>2, <1>3, <2>4, TaskFacts DEF GateInv, GateIInv, GateTypeOK, FInv, IInv
  <2>6. ASSUME NEW v \in Users \ disturbed PROVE Undisturbed(v)'
    <3>1. Undisturbed(v)
      BY DEF GateInv, GateIInv
    <3>2. Denying(v)' = Denying(v)
      BY <1>1, <2>1, <2>3 DEF Denying
    <3>3. ASSUME NEW g \in Denying(v), task'[g].pc = "notify"
          PROVE  noticed[v] = Never \/ now - noticed[v] > Hour
      <4>1. CASE g = h
        BY <4>1, <3>1, <1>4 DEF Undisturbed, Denying
      <4>2. CASE g # h
        BY <4>2, <3>1, <3>3, <2>3 DEF Undisturbed, Denying
      <4>3. QED
        BY <4>1, <4>2
    <3>4. QED
      BY <3>1, <3>2, <3>3, <1>2, <1>3 DEF Undisturbed
  <2>7. QED
    BY <2>3, <2>4, <2>5, <2>6, <1>3 DEF GateInv, GateIInv, NotifiedHourlyUnlessDisturbed
<1>5. CASE ~(last = Never \/ now - last > Hour)
  <2>1. task' = [task EXCEPT ![h] = Idle]
    BY <1>5 DEF TestNotified
  <2>2. TaskOK(Idle) /\ Rightful(Idle, members') /\ Idle.pc \notin {"denied", "notify"}
    BY DEF TaskOK, Rightful, Idle
  <2>3. QED
    BY <1>2, <1>3, <2>1, <2>2, QuietTask
<1>6. QED
  BY <1>4, <1>5

LEMMA NotifyKeeps == ASSUME GateInv, FInv', NEW h \in Handlers, Notify(h) PROVE GateIInv'
<1> DEFINE u == task[h].user
<1>1. task[h].pc = "notify" /\ u \in Users /\ h \in Denying(u)
  BY TaskFacts DEF Notify, GateInv, GateIInv, Denying
<1>2. /\ now' = now /\ now \in Nat /\ UNCHANGED <<members, sessions, restarts, disturbed>>
      /\ unauthNotified' = [unauthNotified EXCEPT ![u] = now]
      /\ noticed' = [noticed EXCEPT ![u] = now]
      /\ task' = [task EXCEPT ![h] = Idle]
  BY DEF Notify, vars, GateInv, FInv, IInv, TypeOK
<1>3. /\ DOMAIN task' = Handlers /\ task' = [g \in Handlers |-> task'[g]]
      /\ task'[h] = Idle /\ \A g \in Handlers \ {h} : task'[g] = task[g]
  BY <1>2, OneTask DEF GateInv
<1>4. \A g \in Handlers : TaskOK(task[g])' /\ Rightful(task[g], members)'
  BY <1>2, <1>3 DEF GateInv, GateIInv, Rightful, TaskOK, IsRouted, Commands, Denials, Idle
<1>5. early' \subseteq Users /\ early' \subseteq disturbed'
  <2>1. early \subseteq Users /\ early \subseteq disturbed
    BY DEF GateInv, GateIInv, GateTypeOK, NotifiedHourlyUnlessDisturbed
  <2>2. CASE u \in disturbed
    BY <2>1, <2>2, <1>1, <1>2 DEF Notify
  <2>3. CASE u \notin disturbed
    <3>1. noticed[u] = Never \/ now - noticed[u] > Hour
      BY <2>3, <1>1 DEF GateInv, GateIInv, Undisturbed
    <3>2. noticed[u] \in Int
      BY <1>1 DEF GateInv, GateIInv, GateTypeOK
    <3>3. early' = early
      BY <3>1, <3>2, <1>2, GateAssumption DEF Notify
    <3>4. QED
      BY <3>3, <2>1, <1>2
  <2>4. QED
    BY <2>2, <2>3
<1>6. GateTypeOK'
  <2>1. unauthNotified' \in [Users -> -1..now'] /\ noticed' \in [Users -> -1..now']
    <3>1. /\ unauthNotified \in [Users -> -1..now] /\ noticed \in [Users -> -1..now]
          /\ now \in -1..now
      BY <1>2 DEF GateInv, GateIInv, GateTypeOK
    <3>2. QED
      BY <3>1, <1>2
  <2>2. QED
    BY <2>1, <1>2, <1>4, <1>5, TaskFacts DEF GateInv, GateIInv, GateTypeOK, FInv, IInv
<1>7. ASSUME NEW v \in Users \ disturbed PROVE Undisturbed(v)'
  <2>1. Undisturbed(v)
    BY DEF GateInv, GateIInv
  <2>2. Denying(v)' \subseteq Denying(v) \ {h}
    BY <1>3 DEF Denying, Idle
  <2>3. unauthNotified'[v] = noticed'[v]
    BY <2>1, <1>2 DEF Undisturbed, GateInv, GateIInv, GateTypeOK
  <2>4. CASE v = u
    BY <2>1, <2>2, <2>3, <2>4, <1>1 DEF Undisturbed
  <2>5. CASE v # u
    <3>1. noticed'[v] = noticed[v]
      BY <2>5, <1>2 DEF GateInv, GateIInv, GateTypeOK
    <3>2. \A g \in Denying(v)' : g \in Denying(v) /\ task'[g] = task[g]
      BY <2>2, <1>3 DEF Denying
    <3>3. QED
      BY <2>1, <2>3, <3>1, <3>2, <1>2 DEF Undisturbed
  <2>6. QED
    BY <2>4, <2>5
<1>8. QED
  BY <1>2, <1>3, <1>4, <1>5, <1>6, <1>7 DEF GateInv, GateIInv, NotifiedHourlyUnlessDisturbed

LEMMA RouteKeeps == ASSUME GateInv, FInv', NEW h \in Handlers, Route(h) PROVE GateIInv'
<1> DEFINE inSession == task[h].user \in sessions
           t == [pc |-> "routed", user |-> task[h].user, text |-> task[h].text,
                 rightful |-> task[h].rightful, guided |-> inSession,
                 dest |-> IF inSession THEN "guided" ELSE RouteOf(task[h].text)]
<1>1. TaskOK(task[h]) /\ task[h].pc = "admitted" /\ Rightful(task[h], members)
  BY DEF Route, GateInv, GateIInv
<1>2. task' = [task EXCEPT ![h] = t]
  BY DEF Route
<1>3. /\ t.pc = "routed" /\ t.user = task[h].user /\ t.text = task[h].text
      /\ t.rightful = task[h].rightful
  OBVIOUS
<1> HIDE DEF t
<1>4. TaskOK(t) /\ Rightful(t, members')
  BY <1>1, <1>3, TaskFacts DEF TaskOK, IsRouted, Rightful
<1>5. now' = now /\ sessions' \subseteq Users
  BY DEF Route, vars, GateInv, GateIInv, GateTypeOK
<1>6. UNCHANGED <<members, unauthNotified, restarts, noticed, early, disturbed>>
  BY DEF Route
<1>7. QED
  BY <1>2, <1>3, <1>4, <1>5, <1>6, QuietTask

LEMMA ServeKeeps == ASSUME GateInv, FInv', NEW h \in Handlers, Serve(h) PROVE GateIInv'
<1>1. TaskOK(Idle) /\ Rightful(Idle, members') /\ Idle.pc \notin {"denied", "notify"}
  BY DEF TaskOK, Rightful, Idle
<1>2. task[h].user \in Users /\ sessions \subseteq Users
  BY DEF Serve, GateInv, GateIInv, GateTypeOK
<1>3. now' = now /\ sessions' \subseteq Users /\ task' = [task EXCEPT ![h] = Idle]
  BY <1>2 DEF Serve, vars
<1>4. UNCHANGED <<members, unauthNotified, restarts, noticed, early, disturbed>>
  BY DEF Serve
<1>5. QED
  BY <1>1, <1>3, <1>4, QuietTask

(* Steps that leave the handlers alone.                                    *)
LEMMA OtherKeeps ==
  ASSUME GateInv, FInv', now' >= now, sessions' \subseteq Users,
         UNCHANGED <<members, unauthNotified, task, restarts, noticed, early, disturbed>>
  PROVE  GateIInv'
<1>1. now \in Nat /\ now' \in Nat
  BY DEF GateInv, FInv, IInv, TypeOK
<1>2. GateTypeOK'
  BY <1>1 DEF GateInv, GateIInv, GateTypeOK, FInv, IInv
<1>3. \A u \in Users \ disturbed' : Undisturbed(u)'
  BY StaysUndisturbed
<1>4. QED
  BY <1>2, <1>3 DEF GateInv, GateIInv, Rightful, NotifiedHourlyUnlessDisturbed

LEMMA EndSessionKeeps == GateInv /\ FInv' /\ EndSession => GateIInv'
<1> SUFFICES ASSUME GateInv, FInv', EndSession PROVE GateIInv'
  OBVIOUS
<1>1. now \in Nat /\ now' = now /\ sessions' \subseteq Users
  BY DEF EndSession, vars, GateInv, GateIInv, GateTypeOK, FInv, IInv, TypeOK
<1>2. QED
  BY <1>1, OtherKeeps DEF EndSession

LEMMA PassTimeKeeps == GateInv /\ FInv' /\ PassTime => GateIInv'
<1> SUFFICES ASSUME GateInv, FInv', PassTime PROVE GateIInv'
  OBVIOUS
<1>1. now \in Nat /\ now' >= now /\ sessions' \subseteq Users
  BY DEF PassTime, Tick, Cleanup, GateInv, GateIInv, GateTypeOK, FInv, IInv, TypeOK
<1>2. QED
  BY <1>1, OtherKeeps DEF PassTime

LEMMA IdleGateKeeps == GateInv /\ FInv' /\ UNCHANGED gateVars => GateIInv'
<1> SUFFICES ASSUME GateInv, FInv', UNCHANGED gateVars PROVE GateIInv'
  OBVIOUS
<1>1. now \in Nat /\ now' = now /\ sessions' \subseteq Users
  BY DEF gateVars, vars, GateInv, GateIInv, GateTypeOK, FInv, IInv, TypeOK
<1>2. QED
  BY <1>1, OtherKeeps DEF gateVars

(* Who joins while his update is on its way counts as a member; who leaves *)
(* was one.                                                                *)
LEMMA JoinOrLeaveKeeps == GateInv /\ FInv' /\ JoinOrLeave => GateIInv'
<1> SUFFICES ASSUME GateInv, FInv', JoinOrLeave PROVE GateIInv'
  OBVIOUS
<1>1. PICK u \in Users :
        /\ members' = IF u \in members THEN members \ {u} ELSE members \cup {u}
        /\ task' = [h \in Handlers |->
             IF task[h].pc \in {"limit", "check"} /\ task[h].user = u /\ u \notin members
             THEN [task[h] EXCEPT !.rightful = TRUE] ELSE task[h]]
  BY DEF JoinOrLeave
<1>2. /\ now' = now /\ now \in Nat
      /\ UNCHANGED <<unauthNotified, sessions, restarts, noticed, early, disturbed>>
  BY DEF JoinOrLeave, vars, GateInv, FInv, IInv, TypeOK
<1>3. DOMAIN task' = Handlers /\ task' = [g \in Handlers |-> task'[g]]
  BY <1>1
<1>4. ASSUME NEW h \in Handlers
      PROVE  /\ TaskOK(task'[h]) /\ Rightful(task'[h], members')
             /\ task'[h].pc \in {"denied", "notify"} => task'[h] = task[h]
  <2>1. TaskOK(task[h]) /\ Rightful(task[h], members)
    BY DEF GateInv, GateIInv
  <2>2. CASE task[h].pc \in {"limit", "check"} /\ task[h].user = u /\ u \notin members
    <3>1. task'[h] = [task[h] EXCEPT !.rightful = TRUE] /\ task[h] \in Commands
      BY <2>1, <2>2, <1>1, TaskFacts
    <3>2. task'[h] \in Commands /\ task'[h].pc = task[h].pc /\ task'[h].rightful
      BY <3>1, CommandRightful
    <3>3. QED
      BY <2>2, <3>2 DEF TaskOK, Rightful
  <2>3. CASE ~(task[h].pc \in {"limit", "check"} /\ task[h].user = u /\ u \notin members)
    <3>1. task'[h] = task[h]
      BY <2>3, <1>1
    <3>2. Rightful(task[h], members')
      BY <2>1, <2>3, <1>1 DEF Rightful
    <3>3. QED
      BY <2>1, <3>1, <3>2
  <2>4. QED
    BY <2>2, <2>3
<1>5. members' \subseteq Users
  BY <1>1 DEF GateInv, GateIInv, GateTypeOK
<1>6. GateTypeOK'
  BY <1>2, <1>4, <1>5, TaskFacts DEF GateInv, GateIInv, GateTypeOK, FInv, IInv
<1>7. \A v \in Users \ disturbed' : Undisturbed(v)'
  BY <1>2, <1>4, StaysUndisturbed
<1>8. QED
  BY <1>2, <1>3, <1>4, <1>6, <1>7 DEF GateInv, GateIInv, NotifiedHourlyUnlessDisturbed

LEMMA RestartKeeps == GateInv /\ FInv' /\ Restart => GateIInv'
<1> SUFFICES ASSUME GateInv, FInv', Restart PROVE GateIInv'
  OBVIOUS
<1>1. /\ now' = now /\ now \in Nat /\ UNCHANGED <<members, noticed, early>>
      /\ unauthNotified' = [u \in Users |-> Never] /\ sessions' = {}
      /\ task' = [h \in Handlers |-> Idle] /\ restarts' \in 0..MaxRestarts
      /\ disturbed' = disturbed \cup {u \in Users : noticed[u] # Never}
  BY GateAssumption
  DEF Restart, NewLimiter, GateInv, FInv, IInv, TypeOK, GateIInv, GateTypeOK
<1>2. \A h \in Handlers : task'[h] = Idle /\ TaskOK(task'[h]) /\ Rightful(task'[h], members')
  BY <1>1 DEF TaskOK, Rightful, Idle
<1>3. GateTypeOK'
  <2>1. unauthNotified' \in [Users -> -1..now']
    BY <1>1 DEF Never
  <2>2. QED
    BY <2>1, <1>1, <1>2, TaskFacts DEF GateInv, GateIInv, GateTypeOK, FInv, IInv
<1>4. \A u \in Users \ disturbed' : Undisturbed(u)'
  BY <1>1, <1>2 DEF Undisturbed, Denying, Idle
<1>5. QED
  BY <1>1, <1>2, <1>3, <1>4 DEF GateInv, GateIInv, NotifiedHourlyUnlessDisturbed

LEMMA GateInitInv == GateInit => GateInv
<1> SUFFICES ASSUME GateInit PROVE GateInv
  OBVIOUS
<1>1. FInv
  BY InitFInv DEF GateInit
<1>2. \A h \in Handlers : task[h] = Idle /\ TaskOK(task[h]) /\ Rightful(task[h], members)
  BY DEF GateInit, TaskOK, Rightful, Idle
<1>3. GateTypeOK
  <2>1. now = 0
    BY DEF GateInit, Init
  <2>2. unauthNotified \in [Users -> -1..now] /\ noticed \in [Users -> -1..now]
    BY <2>1 DEF GateInit, Never
  <2>3. QED
    BY <2>2, <1>1, <1>2, TaskFacts, GateAssumption DEF GateInit, GateTypeOK, FInv, IInv
<1>4. \A u \in Users : Undisturbed(u)
  BY <1>2 DEF Undisturbed, GateInit, Denying, Idle
<1>5. QED
  BY <1>1, <1>2, <1>3, <1>4 DEF GateInv, GateIInv, GateInit, NotifiedHourlyUnlessDisturbed

LEMMA GateInvariance == GateSpec => []GateInv
<1>1. GateInv /\ [GateNext]_gateVars => GateInv'
  <2> SUFFICES ASSUME GateInv, [GateNext]_gateVars PROVE GateInv'
    OBVIOUS
  <2>1. FInv'
    <3>1. [Next]_vars
      BY GateStepsLimiter DEF GateInv
    <3>2. QED
      BY <3>1, TickFInv, CleanupFInv, NewLimiterFInv, AllowFInv, StutterFInv DEF Next, GateInv
  <2>2. GateIInv'
    BY <2>1, ReceiveKeeps, LimitKeeps, CheckKeeps, TestNotifiedKeeps, NotifyKeeps, RouteKeeps,
       ServeKeeps, EndSessionKeeps, JoinOrLeaveKeeps, PassTimeKeeps, RestartKeeps, IdleGateKeeps
    DEF GateNext
  <2>3. QED
    BY <2>1, <2>2 DEF GateInv
<1>2. QED
  BY GateInitInv, <1>1, PTL DEF GateSpec

(* What a handler works on is always of its form, and neither map of the   *)
(* notifications runs ahead of the clock (handler.go 40-200).              *)
THEOREM GateTyped == GateSpec => []GateTypeOK
<1>1. GateInv => GateTypeOK
  BY DEF GateInv, GateIInv
<1>2. QED
  BY GateInvariance, <1>1, PTL

(* handler.go 83-115: who is served was in the community at some time      *)
(* between his update and its check, unless the check could not be made.   *)
THEOREM OnlyMembersServed == GateSpec => []ServedWereMembers
<1>1. GateInv => ServedWereMembers
  BY DEF GateInv, GateIInv, Rightful, ServedWereMembers
<1>2. QED
  BY GateInvariance, <1>1, PTL

(* handler.go 95-110: the owner hears of a user at most once an hour, if   *)
(* no two of his updates are denied side by side and no restart forgets.   *)
THEOREM OwnerToldHourly == GateSpec => []NotifiedHourlyUnlessDisturbed
<1>1. GateInv => NotifiedHourlyUnlessDisturbed
  BY DEF GateInv, GateIInv
<1>2. QED
  BY GateInvariance, <1>1, PTL

(* bot.go 52 and ratelimit.go: under any interleaving of the handlers the  *)
(* limiter behind the gate makes only steps of its own specification.      *)
THEOREM GateRunsLimiter == GateSpec => Spec
<1>1. GateInit => Init
  BY DEF GateInit
<1>2. GateInv /\ [GateNext]_gateVars => [Next]_vars
  BY GateStepsLimiter DEF GateInv
<1>3. QED
  BY <1>1, <1>2, GateInvariance, PTL DEF GateSpec, Spec

(* ratelimit.go 18, behind the gate.                                       *)
THEOREM GateAtMostMaxReqs == GateSpec => []AtMostMaxReqs
  BY GateRunsLimiter, AtMostMaxReqsAllowed, PTL

(* ratelimit.go 8, behind the gate: what the handlers are answered is what *)
(* the limiter that remembers every request would answer.                  *)
THEOREM GateRefines == GateSpec => ImplementsSlidingWindow
  BY GateRunsLimiter, LimiterRefines, PTL

-----------------------------------------------------------------------------
(***************************************************************************)
(* Polling.                                                                *)
(***************************************************************************)
LEMMA PollInitIInv == PollInit => PollIInv
  BY PollingAssumption
     DEF PollInit, PollIInv, PollTypeOK, StartedInOrder, InOrderOnce, NothingSkipped,
         Position, AnswerGoesOn, BelowOffset, Ids

(* What the invariant says of the numbers.                                 *)
LEMMA PollTypes ==
  ASSUME PollIInv
  PROVE  /\ sent \in Nat /\ sent <= MaxUpdates /\ MaxUpdates \in Nat
         /\ kept \in Nat /\ 1 <= kept /\ kept <= sent + 1
         /\ offset \in Nat /\ offset <= sent + 1
         /\ batch \in Seq(1..sent) /\ life \in Seq(1..sent)
         /\ botRestarts \in Nat
         /\ started \in [Ids -> Nat]
         /\ \A i \in Ids : started[i] <= botRestarts + 1
  <1>1. sent \in 0..MaxUpdates /\ kept \in 1..(sent + 1) /\ offset \in 0..(sent + 1)
          /\ botRestarts \in Nat /\ started \in [Ids -> 0..(botRestarts + 1)]
    BY DEF PollIInv, PollTypeOK
  <1> QED BY <1>1, PollingAssumption DEF PollIInv, PollTypeOK

LEMMA SendUpdateIInv ==
  ASSUME PollIInv, SendUpdate
  PROVE  PollIInv'
<1> USE DEF SendUpdate
<1>1. 1..sent \subseteq 1..sent'  BY PollTypes
<1>2. batch' \in Seq(1..sent') /\ life' \in Seq(1..sent')
  BY <1>1, PollTypes
<1>3. PollTypeOK'  BY <1>2, PollTypes DEF PollIInv, PollTypeOK
<1> QED BY <1>3 DEF PollIInv, StartedInOrder, InOrderOnce, NothingSkipped, Position,
                    AnswerGoesOn, BelowOffset

(* Confirming keeps what was not started: the offset is past what was.     *)
LEMMA ConfirmFacts ==
  ASSUME PollIInv, Confirm
  PROVE  /\ kept' \in 1..(sent + 1)
         /\ kept' = IF life = <<>> THEN kept ELSE offset
         /\ \A i \in Ids : i < kept' => started[i] > 0
  BY PollTypes DEF Confirm, Largest, PollIInv, Position, BelowOffset, StartedInOrder,
                   NothingSkipped

LEMMA AnswerFacts ==
  ASSUME NEW first \in Nat \ {0}, NEW last \in Int, NEW top \in Nat,
         first - 1 <= last, last <= top
  PROVE  /\ Answer(first, last) \in Seq(1..top)
         /\ \A i \in 2..Len(Answer(first, last)) :
              Answer(first, last)[i] = Answer(first, last)[i - 1] + 1
         /\ Answer(first, last) # <<>> => Head(Answer(first, last)) = first
<1> DEFINE n == last - first + 1
           a == [i \in 1..n |-> first + i - 1]
<1>1. n \in Nat  OBVIOUS
<1>2. \A i \in 1..n : first + i - 1 \in 1..top  OBVIOUS
<1>3. Answer(first, last) = a  BY DEF Answer
<1> HIDE DEF n
<1>4. a \in Seq(1..top) /\ Len(a) = n  BY <1>1, <1>2
<1>5. \A i \in 2..n : a[i] = a[i - 1] + 1  BY <1>1
<1>6. a # <<>> => Head(a) = first
  <2>1. a # <<>> => 1 \in 1..n  BY <1>1, <1>4
  <2>2. 1 \in 1..n => a[1] = first  OBVIOUS
  <2> QED BY <2>1, <2>2, <1>4
<1> QED BY <1>3, <1>4, <1>5, <1>6

LEMMA GetUpdatesIInv ==
  ASSUME PollIInv, NEW last \in 0..MaxUpdates, GetUpdates(last)
  PROVE  PollIInv'
<1>0. /\ batch = <<>> /\ Confirm
      /\ UNCHANGED <<sent, offset, errors, botRestarts, started, life>>
  BY DEF GetUpdates
<1>1. kept' \in 1..(sent + 1) /\ kept' = IF life = <<>> THEN kept ELSE offset
  BY <1>0, ConfirmFacts
<1>2. last \in (kept' - 1)..sent /\ batch' = Answer(kept', last)  BY DEF GetUpdates
<1>3. /\ batch' \in Seq(1..sent)
      /\ \A i \in 2..Len(batch') : batch'[i] = batch'[i - 1] + 1
      /\ batch' # <<>> => Head(batch') = kept'
  <2>1. kept' \in Nat \ {0} /\ last \in Int /\ kept' - 1 <= last /\ last <= sent /\ sent \in Nat
    BY <1>1, <1>2, PollTypes
  <2> QED BY <1>2, <2>1, AnswerFacts
<1>4. PollTypeOK'  BY <1>0, <1>1, <1>3, PollTypes DEF PollIInv, PollTypeOK
<1>5. StartedInOrder'
  BY <1>0, ConfirmFacts DEF PollIInv, StartedInOrder, InOrderOnce, NothingSkipped
<1>6. Position'  BY <1>0, <1>1, PollTypes DEF PollIInv, Position
<1>7. AnswerGoesOn'  BY <1>0, <1>1, <1>3 DEF AnswerGoesOn
<1>8. BelowOffset'  BY <1>0 DEF PollIInv, BelowOffset
<1> QED BY <1>4, <1>5, <1>6, <1>7, <1>8 DEF PollIInv

LEMMA GetUpdatesFailsIInv ==
  ASSUME PollIInv, GetUpdatesFails
  PROVE  PollIInv'
<1> USE DEF GetUpdatesFails
<1>1. /\ kept' \in 1..(sent + 1)
      /\ kept' = kept \/ kept' = (IF life = <<>> THEN kept ELSE offset)
      /\ \A i \in Ids : i < kept' => started[i] > 0
  BY ConfirmFacts, PollTypes DEF PollIInv, StartedInOrder, NothingSkipped
<1>2. PollTypeOK'  BY <1>1 DEF PollIInv, PollTypeOK
<1>3. StartedInOrder'
  BY <1>1 DEF PollIInv, StartedInOrder, InOrderOnce, NothingSkipped
<1>4. Position'  BY <1>1, PollTypes DEF PollIInv, Position
<1>5. AnswerGoesOn' /\ BelowOffset'  BY DEF PollIInv, AnswerGoesOn, BelowOffset
<1> QED BY <1>2, <1>3, <1>4, <1>5 DEF PollIInv

(***************************************************************************)
(* The next update of the answer is the one at the offset, or the first    *)
(* that Telegram keeps: nothing is between it and what was started.        *)
(***************************************************************************)
LEMMA StartHandlerIInv ==
  ASSUME PollIInv, StartHandler
  PROVE  PollIInv'
<1> DEFINE h == Head(batch)
           rest == Tail(batch)
<1>0. /\ batch # <<>> /\ batch' = rest /\ life' = Append(life, h)
      /\ offset' = IF h >= offset THEN h + 1 ELSE offset
      /\ started' = [started EXCEPT ![h] = @ + 1]
      /\ UNCHANGED <<sent, kept, errors, botRestarts>>
  BY DEF StartHandler
<1>1. /\ sent \in Nat /\ kept \in Nat /\ offset \in Nat /\ botRestarts \in Nat
      /\ sent <= MaxUpdates /\ MaxUpdates \in Nat
      /\ batch \in Seq(1..sent) /\ life \in Seq(1..sent)
  BY PollTypes
<1>2. h \in 1..sent /\ rest \in Seq(1..sent) /\ Len(rest) = Len(batch) - 1
        /\ (\A i \in 1..Len(rest) : rest[i] = batch[i + 1]) /\ h = batch[1]
        /\ Len(batch) \in Nat
  BY <1>0, <1>1
<1>3. h \in Nat /\ 1 <= h /\ h <= sent /\ h \in Ids  BY <1>1, <1>2 DEF Ids
<1>4. h = (IF life = <<>> THEN kept ELSE offset) /\ (life = <<>> => offset = 0)
  BY <1>0 DEF PollIInv, AnswerGoesOn, Position
<1> HIDE DEF h, rest
<1>5. offset' = h + 1  BY <1>0, <1>1, <1>3, <1>4
<1>6. /\ started'[h] = started[h] + 1
      /\ \A i \in Ids : i # h => started'[i] = started[i]
      /\ started' = [i \in Ids |-> started'[i]]
  <2>1. started \in [Ids -> Nat]  BY PollTypes
  <2> QED BY <2>1, <1>0, <1>3
<1>7. \A i \in Ids : started[i] \in Nat /\ started[i] <= botRestarts + 1
  BY PollTypes
<1>8. started[h] <= botRestarts
  BY <1>1, <1>3, <1>4 DEF PollIInv, BelowOffset
<1>9. started' \in [Ids -> 0..(botRestarts + 1)]
  <2>1. ASSUME NEW i \in Ids PROVE started'[i] \in 0..(botRestarts + 1)
    <3>1. started[i] \in Nat /\ started[i] <= botRestarts + 1 /\ started[h] \in Nat
      BY <1>3, <1>7
    <3>2. botRestarts \in Nat  BY <1>1
    <3>3. CASE i = h
      <4>1. started'[i] = started[h] + 1  BY <3>3, <1>6
      <4> QED BY <3>1, <3>2, <4>1, <1>8
    <3>4. CASE i # h
      <4>1. started'[i] = started[i]  BY <3>4, <1>6
      <4> QED BY <3>1, <3>2, <4>1
    <3> QED BY <3>3, <3>4
  <2> QED BY <2>1, <1>6
<1>10. life' \in Seq(1..sent) /\ Len(life') = Len(life) + 1 /\ life'[Len(life')] = h
        /\ (\A i \in 1..Len(life) : life'[i] = life[i]) /\ life' # <<>> /\ Len(life) \in Nat
  <2>1. life' = Append(life, h) /\ life \in Seq(1..sent) /\ h \in 1..sent
    BY <1>0, <1>1, <1>2
  <2> QED BY <2>1
<1>11. PollTypeOK'
  <2>1. sent' = sent /\ kept' = kept /\ errors' = errors /\ botRestarts' = botRestarts
    BY <1>0
  <2>2. offset' \in 0..(sent + 1)  BY <1>1, <1>3, <1>5
  <2>3. batch' \in Seq(1..sent)  BY <1>0, <1>2
  <2> QED BY <2>1, <2>2, <2>3, <1>9, <1>10 DEF PollIInv, PollTypeOK
<1>12. BelowOffset'
  <2> SUFFICES ASSUME NEW i \in Ids
               PROVE  IF i < h + 1 THEN started'[i] > 0 ELSE started'[i] <= botRestarts
    BY <1>0, <1>5 DEF BelowOffset
  <2>1. CASE i = h
    <3>1. started[h] \in Nat  BY <1>3, <1>7
    <3> QED BY <2>1, <3>1, <1>3, <1>6
  <2>2. CASE i # h
    <3>1. i \in Nat /\ started'[i] = started[i]  BY <2>2, <1>6 DEF Ids
    <3>2. i < h => started[i] > 0
      BY <3>1, <1>4 DEF PollIInv, StartedInOrder, NothingSkipped, BelowOffset
    <3>3. i > h => started[i] <= botRestarts
      <4> SUFFICES ASSUME i > h PROVE started[i] <= botRestarts  OBVIOUS
      <4>1. ~ (i < offset)  BY <3>1, <1>1, <1>3, <1>4
      <4> QED BY <4>1 DEF PollIInv, BelowOffset
    <3> QED BY <2>2, <3>1, <3>2, <3>3, <1>3
  <2> QED BY <2>1, <2>2
<1>13. InOrderOnce'
  <2> SUFFICES ASSUME NEW i \in 2..Len(life') PROVE life'[i] = life'[i - 1] + 1
    BY DEF InOrderOnce
  <2>1. CASE i \in 2..Len(life)
    <3>1. life[i] = life[i - 1] + 1  BY <2>1 DEF PollIInv, StartedInOrder, InOrderOnce
    <3>2. i \in 1..Len(life) /\ i - 1 \in 1..Len(life)  BY <2>1, <1>10
    <3> QED BY <3>1, <3>2, <1>10
  <2>2. CASE i = Len(life')
    <3>1. Len(life) \in Nat \ {0} /\ i - 1 = Len(life) /\ life # <<>>
      BY <2>2, <1>1, <1>10
    <3>2. life[Len(life)] = offset - 1 /\ h = offset
      BY <3>1, <1>4 DEF PollIInv, Position
    <3>3. life'[i - 1] = life[Len(life)]  BY <3>1, <1>10
    <3> QED BY <2>2, <3>2, <3>3, <1>1, <1>10
  <2> QED BY <2>1, <2>2, <1>10
<1>14. NothingSkipped'
  <2> SUFFICES ASSUME NEW i \in Ids, i < kept PROVE started'[i] > 0
    BY <1>0 DEF NothingSkipped
  <2>1. started[i] > 0  BY DEF PollIInv, StartedInOrder, NothingSkipped
  <2>2. started[i] \in Nat /\ started[h] \in Nat  BY <1>3, <1>7
  <2> QED BY <2>1, <2>2, <1>6
<1>15. Position'
  <2>1. kept <= h + 1
    <3>1. life # <<>> => kept <= offset  BY DEF PollIInv, Position
    <3> QED BY <3>1, <1>1, <1>3, <1>4
  <2> QED BY <2>1, <1>0, <1>3, <1>5, <1>10 DEF Position
<1>16. AnswerGoesOn'
  <2>1. \A i \in 2..Len(batch) : batch[i] = batch[i - 1] + 1
    BY DEF PollIInv, AnswerGoesOn
  <2>2. ASSUME NEW i \in 2..Len(rest) PROVE rest[i] = rest[i - 1] + 1
    <3>1. i \in 1..Len(rest) /\ i - 1 \in 1..Len(rest) /\ i + 1 \in 2..Len(batch)
            /\ (i + 1) - 1 = i /\ (i - 1) + 1 = i
      BY <1>2
    <3>2. batch[i + 1] = batch[i] + 1  BY <2>1, <3>1
    <3> QED BY <3>1, <3>2, <1>2
  <2>3. rest # <<>> => Head(rest) = h + 1
    <3> SUFFICES ASSUME rest # <<>> PROVE Head(rest) = h + 1  OBVIOUS
    <3>1. 1 \in 1..Len(rest) /\ Head(rest) = rest[1]  BY <1>2
    <3>2. 2 \in 2..Len(batch)  BY <3>1, <1>2
    <3>3. batch[2] = batch[1] + 1  BY <2>1, <3>2
    <3> QED BY <3>1, <3>3, <1>2
  <2> QED BY <2>2, <2>3, <1>0, <1>5, <1>10 DEF AnswerGoesOn
<1> QED BY <1>11, <1>12, <1>13, <1>14, <1>15, <1>16 DEF PollIInv, StartedInOrder

LEMMA RestartBotIInv ==
  ASSUME PollIInv, RestartBot
  PROVE  PollIInv'
<1> USE DEF RestartBot
<1>1. \A i \in Ids : started[i] \in 0..(botRestarts' + 1) /\ started[i] <= botRestarts'
  BY PollTypes
<1>2. started' \in [Ids -> 0..(botRestarts' + 1)]
  <2>1. started = [i \in Ids |-> started[i]]  BY PollTypes
  <2> QED BY <1>1, <2>1
<1>3. PollTypeOK'  BY <1>2, PollTypes DEF PollIInv, PollTypeOK
<1>4. StartedInOrder'
  BY DEF PollIInv, StartedInOrder, InOrderOnce, NothingSkipped
<1>5. BelowOffset'  BY <1>1 DEF BelowOffset, Ids
<1> QED BY <1>3, <1>4, <1>5 DEF PollIInv, Position, AnswerGoesOn

LEMMA PollNextIInv == PollIInv /\ [PollNext]_pollVars => PollIInv'
<1> SUFFICES ASSUME PollIInv, [PollNext]_pollVars PROVE PollIInv'  OBVIOUS
<1>1. CASE SendUpdate  BY <1>1, SendUpdateIInv
<1>2. CASE Poll  BY <1>2, GetUpdatesIInv, StartHandlerIInv DEF Poll
<1>3. CASE GetUpdatesFails  BY <1>3, GetUpdatesFailsIInv
<1>4. CASE RestartBot  BY <1>4, RestartBotIInv
<1>5. CASE UNCHANGED pollVars
  BY <1>5 DEF pollVars, PollIInv, PollTypeOK, StartedInOrder, InOrderOnce, NothingSkipped,
              Position, AnswerGoesOn, BelowOffset
<1> QED BY <1>1, <1>2, <1>3, <1>4, <1>5 DEF PollNext

(* Offset, answer and what was started fit together at every moment.       *)
THEOREM PollInvariance == PollSpec => []PollIInv
  BY PollInitIInv, PollNextIInv, PTL DEF PollSpec

(***************************************************************************)
(* Types, and: an update is started at most once by each process, so at    *)
(* most once more than the bot was restarted (bot.go 43-53).               *)
(***************************************************************************)
THEOREM PollingTyped == PollSpec => []PollTypeOK
<1>1. PollIInv => PollTypeOK  BY DEF PollIInv
<1> QED BY <1>1, PollInvariance, PTL

(***************************************************************************)
(* bot.go 43-53 and 106-138: a process starts the updates one after the    *)
(* other, and Telegram forgets none that was not started, for any number   *)
(* of updates, failed calls and restarts.                                  *)
(***************************************************************************)
THEOREM AlwaysStartedInOrder == PollSpec => []StartedInOrder
<1>1. PollIInv => StartedInOrder  BY DEF PollIInv
<1> QED BY <1>1, PollInvariance, PTL
=============================================================================
