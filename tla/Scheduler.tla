------------------------------ MODULE Scheduler ------------------------------
(***************************************************************************)
(* internal/scheduler/scheduler.go and the guards of the jobs in           *)
(* cmd/bot/main.go.                                                        *)
(*                                                                         *)
(* Each job has a goroutine with a ticker of one hour.  The first tick     *)
(* comes one hour after the ticker was created, the channel holds one      *)
(* tick and the body runs in the goroutine that receives the ticks, so a   *)
(* slow body delays the next tick and drops those behind it.  A job that   *)
(* is due in the current clock hour runs its body if MarkAndCheck did not  *)
(* see this hour before; what it saw is kept in memory only.               *)
(*                                                                         *)
(* Time is a clock hour and a minute of that hour (WIB is a whole number   *)
(* of hours from UTC).  A ticker created at minute p of an hour ticks at   *)
(* minute p of every later hour.                                           *)
(***************************************************************************)
EXTENDS Integers

CONSTANTS
  Jobs,         \* the names of the jobs
  Due,          \* Due[j]: the hours in which the guard of job j holds
  HourLen,      \* minutes in an hour
  MaxHour,      \* bound: the last hour
  MaxRestarts   \* bound: restarts of the process

ASSUME SchedulerAssumption ==
  /\ Due \in [Jobs -> SUBSET Nat]
  /\ HourLen \in Nat \ {0}
  /\ MaxHour \in Nat
  /\ MaxRestarts \in Nat

VARIABLES
  hour, minute,  \* the clock
  state,         \* of each job's goroutine: "new", "waiting" or "running"
  phase,         \* the minute at which the job's ticker was created
  pending,       \* whether a tick waits in the ticker's channel
  lastFired,     \* the key of the hour in which the job ran last
  restarts,
  born,          \* history: the hour in which the job's ticker was created
  fired          \* history: how often the job ran in each hour

clock == <<hour, minute>>
ticker == <<phase, pending, born>>
schedVars == <<clock, state, ticker, lastFired, restarts, fired>>

NoHour == -1   \* the key of a job that never ran: the empty string
Hours == 0..MaxHour
Minutes == 0..(HourLen - 1)

-----------------------------------------------------------------------------
SchedInit ==
  /\ hour = 0 /\ minute = 0
  /\ state = [j \in Jobs |-> "new"]
  /\ phase = [j \in Jobs |-> 0]
  /\ pending = [j \in Jobs |-> FALSE]
  /\ lastFired = [j \in Jobs |-> NoHour]
  /\ restarts = 0
  /\ born = [j \in Jobs |-> 0]
  /\ fired = [j \in Jobs |-> [h \in Hours |-> 0]]

(***************************************************************************)
(* A minute passes; a ticker whose minute has come leaves a tick in its    *)
(* channel unless one is there already.                                    *)
(***************************************************************************)
PassMinute ==
  /\ IF minute < HourLen - 1
     THEN minute' = minute + 1 /\ hour' = hour
     ELSE minute' = 0 /\ hour < MaxHour /\ hour' = hour + 1
  /\ pending' = [j \in Jobs |->
                   pending[j] \/ (state[j] # "new" /\ minute' = phase[j])]
  /\ UNCHANGED <<state, phase, born, lastFired, restarts, fired>>

(* Faulty variant: the first tick comes at once.                           *)
StartTickerTicking(j) ==
  /\ state[j] = "new"
  /\ state' = [state EXCEPT ![j] = "waiting"]
  /\ phase' = [phase EXCEPT ![j] = minute]
  /\ born' = [born EXCEPT ![j] = hour]
  /\ pending' = [pending EXCEPT ![j] = TRUE]
  /\ UNCHANGED <<clock, lastFired, restarts, fired>>

(* The job's goroutine creates its ticker, some time after the start.      *)
StartTicker(j) ==
  /\ state[j] = "new"
  /\ state' = [state EXCEPT ![j] = "waiting"]
  /\ phase' = [phase EXCEPT ![j] = minute]
  /\ born' = [born EXCEPT ![j] = hour]
  /\ UNCHANGED <<clock, pending, lastFired, restarts, fired>>

(* The key of a clock hour: its date and hour.                             *)
HourKey(h) == h

ShouldRun(j) == hour \in Due[j] /\ lastFired[j] # HourKey(hour)

Receive(j) ==
  /\ state[j] = "waiting" /\ pending[j]
  /\ pending' = [pending EXCEPT ![j] = FALSE]
  /\ UNCHANGED <<clock, phase, born, restarts>>

(* A tick is received in an hour in which the job is to run: MarkAndCheck  *)
(* marks the hour and the body starts.                                     *)
Fire(j) ==
  /\ Receive(j)
  /\ ShouldRun(j)
  /\ lastFired' = [lastFired EXCEPT ![j] = HourKey(hour)]
  /\ state' = [state EXCEPT ![j] = "running"]
  /\ fired' = [fired EXCEPT ![j][hour] = @ + 1]

(* A tick is received and the job is not due, or ran in this hour already. *)
Skip(j) ==
  /\ Receive(j)
  /\ ~ShouldRun(j)
  /\ UNCHANGED <<state, lastFired, fired>>

(* The body returns, with or without an error.                             *)
Finish(j) ==
  /\ state[j] = "running"
  /\ state' = [state EXCEPT ![j] = "waiting"]
  /\ UNCHANGED <<clock, ticker, lastFired, restarts, fired>>

(* The process ends, in the middle of a body or not, and is started again. *)
Restart ==
  /\ restarts < MaxRestarts
  /\ restarts' = restarts + 1
  /\ state' = [j \in Jobs |-> "new"]
  /\ pending' = [j \in Jobs |-> FALSE]
  /\ lastFired' = [j \in Jobs |-> NoHour]
  /\ UNCHANGED <<clock, phase, born, fired>>

SchedNext ==
  \/ PassMinute
  \/ \E j \in Jobs : StartTicker(j) \/ Fire(j) \/ Skip(j) \/ Finish(j)
  \/ Restart

SchedSpec == SchedInit /\ [][SchedNext]_schedVars

-----------------------------------------------------------------------------
SchedTypeOK ==
  /\ hour \in Hours /\ minute \in Minutes
  /\ state \in [Jobs -> {"new", "waiting", "running"}]
  /\ phase \in [Jobs -> Minutes]
  /\ pending \in [Jobs -> BOOLEAN]
  /\ lastFired \in [Jobs -> Hours \cup {NoHour}]
  /\ restarts \in Nat
  /\ born \in [Jobs -> Hours]
  /\ fired \in [Jobs -> [Hours -> Nat]]

(***************************************************************************)
(* scheduler.go 19-20: jobs "fire at most once per clock-hour", across     *)
(* restarts within the same hour too, although lastFired is lost: what     *)
(* protects a restart is the hour that the new ticker waits.               *)
(***************************************************************************)
AtMostOncePerHour == \A j \in Jobs, h \in Hours : fired[j][h] <= 1

-----------------------------------------------------------------------------
(***************************************************************************)
(* Why the hours do not repeat.  A tick is only there once the hour of the *)
(* ticker's creation is over; what earlier processes ran, they ran before; *)
(* and this process remembers the last hour.                               *)
(***************************************************************************)
TickIsLater == \A j \in Jobs : pending[j] => state[j] # "new" /\ born[j] < hour

FiredIsKnown ==
  \A j \in Jobs, h \in Hours : fired[j][h] > 0 =>
    /\ h <= hour
    /\ state[j] # "new" => h <= born[j] \/ h <= lastFired[j]

MarkIsPast == \A j \in Jobs :
  /\ lastFired[j] <= hour
  /\ state[j] # "new" => born[j] <= hour

(* Within the hour of its creation a ticker's minute has already passed.   *)
PhaseIsPast == \A j \in Jobs :
  state[j] # "new" /\ born[j] = hour => phase[j] <= minute

SchedIInv ==
  SchedTypeOK /\ AtMostOncePerHour /\ TickIsLater /\ FiredIsKnown /\ MarkIsPast /\ PhaseIsPast
=============================================================================
