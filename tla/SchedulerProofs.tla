--------------------------- MODULE SchedulerProofs ---------------------------
(***************************************************************************)
(* Proofs about Scheduler for any set of jobs, any hours in which they are *)
(* due, any length of the bodies and any number of restarts.               *)
(***************************************************************************)
EXTENDS Scheduler, TLAPS

LEMMA SchedInitIInv == SchedInit => SchedIInv
BY SchedulerAssumption
   DEF SchedInit, SchedIInv, SchedTypeOK, AtMostOncePerHour, TickIsLater,
       FiredIsKnown, MarkIsPast, PhaseIsPast, Hours, Minutes, NoHour

LEMMA HoursAreIntegers ==
  ASSUME SchedTypeOK
  PROVE  /\ hour \in Int
         /\ \A j \in Jobs : lastFired[j] \in Int /\ born[j] \in Int
<1>1. Hours \subseteq Int /\ NoHour \in Int  BY SchedulerAssumption DEF Hours, NoHour
<1> QED BY <1>1 DEF SchedTypeOK

(***************************************************************************)
(* Minutes: a ticker whose minute comes was created in an earlier hour.    *)
(***************************************************************************)
LEMMA PassMinuteIInv ==
  ASSUME SchedIInv, PassMinute
  PROVE  SchedIInv'
<1> USE SchedulerAssumption DEF PassMinute, SchedIInv
<1>1. SchedTypeOK'  BY DEF SchedTypeOK, Hours, Minutes
<1>2. AtMostOncePerHour'  BY DEF AtMostOncePerHour
<1>3. (hour' = hour /\ minute' = minute + 1) \/ hour' = hour + 1
  OBVIOUS
<1>4. TickIsLater'
  <2> SUFFICES ASSUME NEW j \in Jobs, pending'[j]
               PROVE  state'[j] # "new" /\ born'[j] < hour'
    BY DEF TickIsLater
  <2>1. CASE pending[j]
    BY <2>1, <1>3 DEF TickIsLater, SchedTypeOK, Hours
  <2>2. CASE state[j] # "new" /\ minute' = phase[j]
    <3>1. born[j] <= hour  BY <2>2 DEF MarkIsPast
    <3>2. born[j] = hour => phase[j] <= minute  BY <2>2 DEF PhaseIsPast
    <3> QED BY <2>2, <3>1, <3>2, <1>3 DEF SchedTypeOK, Hours, Minutes
  <2> QED BY <2>1, <2>2 DEF SchedTypeOK
<1>5. FiredIsKnown'
  BY <1>3 DEF FiredIsKnown, SchedTypeOK, Hours
<1>6. MarkIsPast'
  <2>1. \A j \in Jobs : lastFired[j] <= hour /\ (state[j] # "new" => born[j] <= hour)
    BY DEF MarkIsPast
  <2> QED BY <2>1, <1>3, HoursAreIntegers DEF MarkIsPast
<1>7. PhaseIsPast'
  BY <1>3 DEF PhaseIsPast, MarkIsPast, SchedTypeOK, Hours, Minutes
<1> QED BY <1>1, <1>2, <1>4, <1>5, <1>6, <1>7

LEMMA StartTickerIInv ==
  ASSUME SchedIInv, NEW j \in Jobs, StartTicker(j)
  PROVE  SchedIInv'
<1> USE DEF StartTicker, SchedIInv, clock
<1>1. SchedTypeOK'  BY DEF SchedTypeOK
<1>2. AtMostOncePerHour'  BY DEF AtMostOncePerHour
<1>3. TickIsLater'  BY DEF TickIsLater, SchedTypeOK
<1>4. FiredIsKnown'  BY DEF FiredIsKnown, SchedTypeOK
<1>5. MarkIsPast'  BY DEF MarkIsPast, SchedTypeOK, Hours
<1>6. PhaseIsPast'  BY DEF PhaseIsPast, SchedTypeOK, Minutes
<1> QED BY <1>1, <1>2, <1>3, <1>4, <1>5, <1>6

(***************************************************************************)
(* A job that runs did not run in this hour: a run in this hour would be   *)
(* one that this process remembers, or one before its ticker was created,  *)
(* and the tick proves that hour over.                                     *)
(***************************************************************************)
LEMMA FireIInv ==
  ASSUME SchedIInv, NEW j \in Jobs, Fire(j)
  PROVE  SchedIInv'
<1> USE DEF Fire, Receive, ShouldRun, HourKey, SchedIInv, clock
<1>0. hour \in Hours /\ fired[j] \in [Hours -> Nat]  BY DEF SchedTypeOK
<1>1. fired[j][hour] = 0
  <2>1. born[j] < hour /\ state[j] # "new" /\ lastFired[j] <= hour
    BY DEF TickIsLater, MarkIsPast
  <2>2. ~ (hour <= born[j] \/ hour <= lastFired[j])
    BY <2>1, HoursAreIntegers
  <2> QED BY <2>1, <2>2, <1>0 DEF FiredIsKnown
<1>2. /\ fired'[j] = [fired[j] EXCEPT ![hour] = 1]
      /\ \A k \in Jobs : k # j => fired'[k] = fired[k]
  BY <1>0, <1>1 DEF SchedTypeOK
<1>3. SchedTypeOK'  BY <1>0 DEF SchedTypeOK
<1>4. AtMostOncePerHour'  BY <1>0, <1>2 DEF AtMostOncePerHour
<1>5. TickIsLater'  BY DEF TickIsLater, SchedTypeOK
<1>6. FiredIsKnown'
  <2> SUFFICES ASSUME NEW k \in Jobs, NEW h \in Hours, fired'[k][h] > 0
               PROVE  /\ h <= hour
                      /\ state'[k] # "new" => h <= born[k] \/ h <= lastFired'[k]
    BY DEF FiredIsKnown
  <2>1. CASE k # j
    BY <2>1, <1>2 DEF FiredIsKnown, SchedTypeOK
  <2>2. CASE k = j /\ h = hour
    BY <2>2, <1>0 DEF SchedTypeOK, Hours
  <2>3. CASE k = j /\ h # hour
    <3>1. fired[j][h] > 0  BY <2>3, <1>0, <1>2
    <3> QED BY <2>3, <3>1, <1>0 DEF FiredIsKnown, SchedTypeOK, Hours
  <2> QED BY <2>1, <2>2, <2>3
<1>7. MarkIsPast'  BY <1>0 DEF MarkIsPast, SchedTypeOK, Hours
<1>8. PhaseIsPast'  BY DEF PhaseIsPast, SchedTypeOK
<1> QED BY <1>3, <1>4, <1>5, <1>6, <1>7, <1>8

LEMMA SkipIInv ==
  ASSUME SchedIInv, NEW j \in Jobs, Skip(j)
  PROVE  SchedIInv'
BY DEF Skip, Receive, clock, SchedIInv, SchedTypeOK, AtMostOncePerHour,
       TickIsLater, FiredIsKnown, MarkIsPast, PhaseIsPast

LEMMA FinishIInv ==
  ASSUME SchedIInv, NEW j \in Jobs, Finish(j)
  PROVE  SchedIInv'
BY DEF Finish, clock, ticker, SchedIInv, SchedTypeOK, AtMostOncePerHour,
       TickIsLater, FiredIsKnown, MarkIsPast, PhaseIsPast

LEMMA RestartIInv ==
  ASSUME SchedIInv, Restart
  PROVE  SchedIInv'
BY DEF Restart, clock, SchedIInv, SchedTypeOK, AtMostOncePerHour, Hours, NoHour,
       TickIsLater, FiredIsKnown, MarkIsPast, PhaseIsPast

LEMMA SchedNextIInv == SchedIInv /\ [SchedNext]_schedVars => SchedIInv'
<1> SUFFICES ASSUME SchedIInv, [SchedNext]_schedVars PROVE SchedIInv'  OBVIOUS
<1>1. CASE PassMinute  BY <1>1, PassMinuteIInv
<1>2. ASSUME NEW j \in Jobs, StartTicker(j) \/ Fire(j) \/ Skip(j) \/ Finish(j)
      PROVE  SchedIInv'
  BY <1>2, StartTickerIInv, FireIInv, SkipIInv, FinishIInv
<1>3. CASE Restart  BY <1>3, RestartIInv
<1>4. CASE UNCHANGED schedVars
  BY <1>4 DEF schedVars, clock, ticker, SchedIInv, SchedTypeOK, AtMostOncePerHour,
              TickIsLater, FiredIsKnown, MarkIsPast, PhaseIsPast
<1> QED BY <1>1, <1>2, <1>3, <1>4 DEF SchedNext

-----------------------------------------------------------------------------
(* The inductive invariant of the scheduler.                               *)
THEOREM SchedInvariance == SchedSpec => []SchedIInv
BY SchedInitIInv, SchedNextIInv, PTL DEF SchedSpec

(***************************************************************************)
(* scheduler.go 19-20 as a theorem: no job runs twice in a clock hour,     *)
(* whatever is restarted, and however late a tick is received.             *)
(***************************************************************************)
THEOREM JobsFireAtMostOncePerHour == SchedSpec => []AtMostOncePerHour
<1>1. SchedIInv => AtMostOncePerHour  BY DEF SchedIInv
<1> QED BY <1>1, SchedInvariance, PTL
=============================================================================
