--------------------------- MODULE ReminderProofs ---------------------------
(***************************************************************************)
(* Proofs about Reminder: nobody is reminded twice for an hour unless it   *)
(* ended between two reads of the clock, and a job that is never late and  *)
(* does not fail reminds whoever is to be reminded, and nobody else.  For  *)
(* any users, any length of the day and of the run, on the invariant of    *)
(* the scheduler.                                                          *)
(***************************************************************************)
EXTENDS Reminder, SchedulerProofs

USE ReminderAssumption, SchedulerAssumption

LEMMA HoursAreNat == Hours \subseteq Nat /\ (\A h \in Hours : Day(h) \in Nat /\ Day(h) \in Days)
                     /\ (\A h \in Hours : HourOfDay(h) \in 0..(DayLen - 1))
  BY DEF Hours, Day, Days, HourOfDay

(* The days follow the hours.                                              *)
LEMMA DaysInOrder == \A g, h \in Hours : g <= h => Day(g) <= Day(h)
<1> SUFFICES ASSUME NEW g \in Nat, NEW h \in Nat, g <= h PROVE g \div DayLen <= h \div DayLen
  BY HoursAreNat DEF Day
<1>1. QED
  OBVIOUS

LEMMA StateTypes ==
  ASSUME IInv
  PROVE  /\ Remind \in Jobs /\ Due[Remind] = Hours
         /\ hour \in Hours /\ hour \in Nat /\ minute \in Minutes /\ minute \in Nat
         /\ state \in [Jobs -> {"new", "waiting", "running"}]
         /\ phase[Remind] \in Minutes /\ phase[Remind] \in Nat
         /\ pending \in [Jobs -> BOOLEAN]
         /\ born[Remind] \in Hours /\ born[Remind] \in Nat
         /\ fired \in [Jobs -> [Hours -> Nat]]
         /\ pref \in [Users -> [on : BOOLEAN, hour : 0..(DayLen - 1)]]
         /\ lastLog \in [Users -> Days \cup {NoDate}]
         /\ today \in [Users -> SUBSET Days] /\ logged \in [Users -> SUBSET Days]
         /\ putBack \subseteq Users
         /\ changes \in Nat /\ errors \in Nat
         /\ reminded \in [Users -> [Hours -> Nat]] /\ settled \in [Users -> Hours]
  BY HoursAreNat DEF IInv, TypeOK, SchedTypeOK, Minutes

LEMMA DatesAreInt ==
  ASSUME IInv, NEW u \in Users
  PROVE  /\ lastLog[u] \in Int /\ (\A d \in today[u] : d \in Days)
         /\ (\A d \in logged[u] : d \in Days) /\ (\A d \in Days : d \in Nat)
<1>1. Days \subseteq Nat /\ Days \cup {NoDate} \subseteq Int
  BY HoursAreNat DEF Days, NoDate
<1>2. lastLog[u] \in Days \cup {NoDate} /\ today[u] \subseteq Days /\ logged[u] \subseteq Days
  BY StateTypes
<1>3. QED
  BY <1>1, <1>2

(* Whose stored date is that of an hour has logged a trade for its day.    *)
LEMMA StoredIsLogged ==
  ASSUME IInv, NEW u \in Users, NEW h \in Hours, lastLog[u] = Day(h)
  PROVE  Day(h) \in logged[u]
<1>1. Day(h) # NoDate
  BY HoursAreNat DEF NoDate
<1>2. QED
  BY <1>1 DEF IInv, DatesOK

(* The clock goes on, and calls are cut off: dates are still not ahead.    *)
LEMMA DatesKeep ==
  ASSUME IInv, UNCHANGED <<lastLog, logged, putBack>>, hour' \in Hours, hour <= hour',
         \A u \in Users : today'[u] \subseteq today[u]
  PROVE  DatesOK'
<1>1. Day(hour) <= Day(hour)' /\ Day(hour) \in Nat /\ Day(hour)' \in Nat
  BY StateTypes, DaysInOrder, HoursAreNat DEF Day
<1>2. ASSUME NEW u \in Users
      PROVE  lastLog[u] <= Day(hour)' /\ \A d \in today'[u] : d <= Day(hour)'
  <2>1. lastLog[u] \in Int /\ \A d \in today[u] : d \in Nat
    BY DatesAreInt
  <2>2. lastLog[u] <= Day(hour) /\ \A d \in today[u] : d <= Day(hour)
    BY DEF IInv, DatesOK
  <2>3. QED
    BY <1>1, <2>1, <2>2
<1>3. QED
  BY <1>2 DEF DatesOK, IInv

LEMMA IdleIsNotAtWork == \A j \in AtWork : j # Idle /\ j.step # "idle"
  BY DEF AtWork, Idle

(* The body is at work exactly while the scheduler's job runs.             *)
LEMMA WorkFacts ==
  ASSUME IInv, job.step # "idle"
  PROVE  /\ job \in AtWork /\ job # Idle /\ state[Remind] = "running"
         /\ job.marked \in Hours /\ job.now \in Hours
         /\ job.prefs \subseteq [user : Users, hour : 0..(DayLen - 1)]
         /\ job.due \subseteq Users /\ job.logged \subseteq Users
         /\ job.step \in {"list", "clock"} => job.due = {}
<1>1. job \in AtWork
  BY DEF IInv, JobOK, Idle
<1>2. job # Idle /\ state[Remind] = "running"
  BY <1>1, IdleIsNotAtWork DEF IInv, TypeOK
<1>3. QED
  BY <1>1, <1>2 DEF AtWork, IInv, JobOK

SameSched == UNCHANGED <<hour, minute, state, phase, pending, born, lastFired, fired>>

LEMMA SchedSame == ASSUME IInv, UNCHANGED schedVars PROVE SameSched /\ SchedIInv' /\ SchedTypeOK'
<1>1. SameSched
  BY DEF schedVars, clock, ticker, SameSched
<1>2. SchedIInv'
  BY SchedNextIInv DEF IInv
<1>3. QED
  BY <1>1, <1>2 DEF SchedIInv

(* The types of what is known of trades.                                   *)
LogsTyped ==
  /\ lastLog \in [Users -> Days \cup {NoDate}]
  /\ today \in [Users -> SUBSET Days] /\ logged \in [Users -> SUBSET Days]
  /\ putBack \subseteq Users

LEMMA LogsSame == ASSUME IInv, UNCHANGED <<lastLog, today, logged, putBack>> PROVE LogsTyped'
  BY StateTypes DEF LogsTyped

(* TypeOK of a state in which the body is at work.                         *)
LEMMA WorkTyped ==
  ASSUME IInv, SchedTypeOK', state'[Remind] = "running", job' \in AtWork,
         UNCHANGED <<pref, settled>>, LogsTyped',
         changes' \in Nat, errors' \in Nat, reminded' \in [Users -> [Hours -> Nat]]
  PROVE  TypeOK'
<1>1. /\ job'.step \in {"list", "clock", "check", "send"}
      /\ job'.marked \in Hours /\ job'.now \in Hours
      /\ job'.due \cup job'.logged \subseteq Users
  BY DEF AtWork
<1>2. QED
  BY <1>1, StateTypes DEF TypeOK, LogsTyped

(* and of one in which it is not.                                          *)
LEMMA IdleTyped ==
  ASSUME IInv, SchedTypeOK', state'[Remind] # "running", job' = Idle,
         pref' \in [Users -> [on : BOOLEAN, hour : 0..(DayLen - 1)]],
         LogsTyped', settled' \in [Users -> Hours],
         changes' \in Nat, errors' \in Nat, reminded' \in [Users -> [Hours -> Nat]]
  PROVE  TypeOK'
  BY DEF TypeOK, Idle, LogsTyped

(***************************************************************************)
(* A step of the body that reminds nobody yet: the list of due users grows *)
(* only by those who have not logged, and the rest is shown per step.      *)
(***************************************************************************)
LEMMA BodyKeeps ==
  ASSUME IInv, job.step # "idle", UNCHANGED schedVars,
         UNCHANGED <<pref, lastLog, today, logged, putBack, changes, reminded, settled, late>>,
         job' \in AtWork, job'.marked = job.marked, job'.logged = job.logged,
         errors' \in Nat, errors <= errors',
         job'.step \in {"list", "clock"} => job'.due = {},
         \A u \in job'.due : u \in job.due \/ lastLog[u] # Day(job'.now),
         job'.now = job.now \/ (job'.now = hour /\ job.due = {}),
         ~slipped' => ~slipped /\ job'.now = job.marked,
         \A u \in Users : job'.step # "send" \/ u \in job'.due =>
                            job.step # "send" \/ u \in job.due,
         errors' = 0 /\ ~late /\ TickOnTime /\ OnlyChosen /\ OnTheWay =>
           ~slipped' /\ OnlyChosen' /\ OnTheWay'
  PROVE  IInv'
<1>1. SameSched /\ SchedIInv' /\ SchedTypeOK'
  BY SchedSame
<1>2. job # Idle /\ state[Remind] = "running" /\ job' # Idle
  BY WorkFacts, IdleIsNotAtWork
<1>3. TypeOK'
  BY <1>1, <1>2, WorkTyped, LogsSame, StateTypes DEF SameSched
<1>4. JobOK' /\ DatesOK' /\ LoggedKnown'
  <2>1. JobOK'
    BY DEF JobOK
  <2>2. DatesOK'
    BY <1>1, DatesKeep, StateTypes DEF SameSched
  <2>3. ASSUME NEW u \in Users \ putBack, lastLog[u] > Day(job'.now) PROVE u \in job.logged
    <3>1. CASE job'.now = job.now
      BY <3>1, <2>3, <1>2 DEF IInv, LoggedKnown
    <3>2. CASE job'.now = hour
      <4>1. lastLog[u] <= Day(hour)
        BY DEF IInv, DatesOK
      <4>2. lastLog[u] \in Int /\ Day(hour) \in Nat
        BY DatesAreInt, StateTypes, HoursAreNat
      <4>3. QED
        BY <4>1, <4>2, <3>2, <2>3
    <3>3. QED
      BY <3>1, <3>2
  <2>4. ASSUME NEW u \in Users \ putBack, u \in job'.due, Day(job'.now) \in logged[u]
        PROVE  u \in job.logged
    <3>1. CASE u \in job.due
      BY <3>1, <2>4, <1>2 DEF IInv, LoggedKnown
    <3>2. CASE lastLog[u] # Day(job'.now)
      <4>1. Day(job'.now) <= lastLog[u]
        BY <2>4 DEF IInv, DatesOK
      <4>2. Day(job'.now) \in Nat /\ lastLog[u] \in Int
        BY DatesAreInt, HoursAreNat DEF AtWork
      <4>3. QED
        BY <4>1, <4>2, <3>2, <2>3
    <3>3. QED
      BY <3>1, <3>2, <2>4
  <2>5. LoggedKnown'
    BY <2>3, <2>4 DEF LoggedKnown, Day
  <2>6. QED
    BY <2>1, <2>2, <2>5
<1>5. ~slipped' => CountedOnce'
  BY <1>1, <1>2 DEF IInv, CountedOnce, SameSched
<1>6. ASSUME errors' = 0, ~late' PROVE TickOnTime' /\ OnlyChosen' /\ OnTheWay' /\ AllServed'
  <2>1. errors = 0 /\ ~late
    BY <1>6, StateTypes
  <2>2. TickOnTime /\ OnlyChosen /\ OnTheWay /\ AllServed
    BY <2>1 DEF IInv
  <2>3. ~slipped' /\ OnlyChosen' /\ OnTheWay'
    BY <2>1, <2>2, <1>6
  <2>4. TickOnTime'
    BY <2>2, <2>3, <1>1, <1>2 DEF TickOnTime, SameSched
  <2>5. AllServed'
    BY <2>2, <1>1, <1>2 DEF AllServed, Served, ToServe, Chosen, SameSched
  <2>6. QED
    BY <2>3, <2>4, <2>5
<1>7. QED
  BY <1>1, <1>3, <1>4, <1>5, <1>6 DEF IInv

LEMMA ListKeeps == ASSUME IInv, ListEnabledReminders PROVE IInv'
<1> DEFINE listed == {[user |-> u, hour |-> pref[u].hour] : u \in {v \in Users : pref[v].on}}
<1>1. job.step = "list" /\ job \in AtWork /\ job.due = {} /\ job # Idle
  BY WorkFacts DEF ListEnabledReminders, logVars
<1>2. listed \in SUBSET [user : Users, hour : 0..(DayLen - 1)]
  BY StateTypes
<1>3. /\ job' = [job EXCEPT !.step = "clock", !.prefs = listed]
      /\ UNCHANGED schedVars
      /\ UNCHANGED <<pref, lastLog, today, logged, putBack, changes, errors, reminded, settled, slipped, late>>
  BY DEF ListEnabledReminders, logVars
<1> HIDE DEF listed
<1>4. /\ job' \in AtWork /\ job'.step = "clock" /\ job'.prefs = listed /\ job'.due = {}
      /\ job'.marked = job.marked /\ job'.now = job.now /\ job'.logged = job.logged
  BY <1>1, <1>2, <1>3 DEF AtWork
<1>5. ~slipped => job.now = job.marked
  BY <1>1 DEF IInv, CountedOnce
<1>6. SameSched
  BY <1>3, SchedSame
<1>7. ASSUME OnlyChosen PROVE OnlyChosen' /\ OnTheWay'
  <2>1. \A q \in listed : pref[q.user] = [on |-> TRUE, hour |-> q.hour]
    <3> SUFFICES ASSUME NEW q \in listed PROVE pref[q.user] = [on |-> TRUE, hour |-> q.hour]
      OBVIOUS
    <3>1. PICK u \in Users : pref[u].on /\ q = [user |-> u, hour |-> pref[u].hour]
      BY DEF listed
    <3>2. pref[u] \in [on : BOOLEAN, hour : 0..(DayLen - 1)]
      BY StateTypes
    <3>3. QED
      BY <3>1, <3>2
  <2>2. OnlyChosen'
    BY <2>1, <1>3, <1>4, <1>6, <1>7 DEF OnlyChosen, Chosen, SameSched
  <2>3. \A u \in Users : pref[u].on => [user |-> u, hour |-> pref[u].hour] \in listed
    BY DEF listed
  <2>4. OnTheWay'
    BY <2>3, <1>3, <1>4, <1>6 DEF OnTheWay, ToServe, Chosen, SameSched
  <2>5. QED
    BY <2>2, <2>4
<1>8. QED
  BY <1>1, <1>3, <1>4, <1>5, <1>7, StateTypes, BodyKeeps DEF TickOnTime

LEMMA ReadClockKeeps == ASSUME IInv, ReadClock PROVE IInv'
<1>1. job.step = "clock" /\ job \in AtWork /\ job.due = {} /\ job # Idle
  BY WorkFacts DEF ReadClock, logVars
<1>2. /\ job' = [job EXCEPT !.step = "check", !.now = hour]
      /\ slipped' = (slipped \/ hour # job.marked) /\ UNCHANGED schedVars
      /\ UNCHANGED <<pref, lastLog, today, logged, putBack, changes, errors, reminded, settled, late>>
  BY DEF ReadClock, logVars
<1>3. /\ job' \in AtWork /\ job'.step = "check" /\ job'.prefs = job.prefs /\ job'.due = {}
      /\ job'.marked = job.marked /\ job'.now = hour /\ job'.logged = job.logged
  BY <1>1, <1>2, StateTypes DEF AtWork
<1>4. SameSched
  BY <1>2, SchedSame
<1>5. ASSUME TickOnTime, OnlyChosen, OnTheWay PROVE ~slipped' /\ OnlyChosen' /\ OnTheWay'
  <2>1. ~slipped'
    BY <1>1, <1>2, <1>5 DEF TickOnTime
  <2>2. OnlyChosen'
    BY <1>1, <1>2, <1>3, <1>4, <1>5 DEF OnlyChosen, Chosen, SameSched
  <2>3. OnTheWay'
    BY <1>1, <1>2, <1>3, <1>4, <1>5 DEF OnTheWay, ToServe, Chosen, SameSched
  <2>4. QED
    BY <2>1, <2>2, <2>3
<1>6. ~slipped' => ~slipped /\ job'.now = job.marked
  BY <1>2, <1>3
<1>7. QED
  BY <1>1, <1>2, <1>3, <1>5, <1>6, StateTypes, BodyKeeps

(* The round of one preference p.                                          *)
LEMMA RoundFacts ==
  ASSUME IInv, job.step = "check", NEW p \in job.prefs, NEW due \in SUBSET Users,
         job' = [job EXCEPT !.prefs = @ \ {p}, !.due = due]
  PROVE  /\ job \in AtWork /\ job # Idle /\ p.user \in Users /\ p.hour \in 0..(DayLen - 1)
         /\ p = [user |-> p.user, hour |-> p.hour]
         /\ job' \in AtWork /\ job'.step = "check" /\ job'.prefs = job.prefs \ {p}
         /\ job'.due = due /\ job'.marked = job.marked /\ job'.now = job.now
         /\ job'.logged = job.logged
<1>1. job \in AtWork /\ job # Idle
  BY WorkFacts
<1>2. p \in [user : Users, hour : 0..(DayLen - 1)]
  BY <1>1 DEF AtWork
<1>3. QED
  BY <1>1, <1>2 DEF AtWork

LEMMA CheckKeeps ==
  ASSUME IInv, job.step = "check", NEW p \in job.prefs, Check(p)
  PROVE  IInv'
<1> DEFINE isDue == p.hour = HourOfDay(job.now) /\ lastLog[p.user] # Day(job.now)
           due == IF isDue THEN job.due \cup {p.user} ELSE job.due
<1>1. p.user \in Users /\ job.due \subseteq Users
  BY WorkFacts DEF AtWork
<1>2. /\ job' = [job EXCEPT !.prefs = @ \ {p}, !.due = due]
      /\ UNCHANGED schedVars
      /\ UNCHANGED <<pref, lastLog, today, logged, putBack, changes, errors, reminded, settled, slipped, late>>
  BY DEF Check, logVars
<1>3. due \in SUBSET Users
  BY <1>1
<1>4. \A u \in due : u \in job.due \/ (u = p.user /\ isDue)
  OBVIOUS
<1>5. isDue => p.user \in due
  OBVIOUS
<1>6. job.due \subseteq due
  OBVIOUS
<1> HIDE DEF due
<1>7. /\ job # Idle /\ p.user \in Users /\ p = [user |-> p.user, hour |-> p.hour]
      /\ job' \in AtWork /\ job'.step = "check" /\ job'.prefs = job.prefs \ {p}
      /\ job'.due = due /\ job'.marked = job.marked /\ job'.now = job.now
      /\ job'.logged = job.logged
  BY <1>2, <1>3, RoundFacts
<1>8. SameSched
  BY <1>2, SchedSame
<1>9. ~slipped => job.now = job.marked
  BY <1>7 DEF IInv, CountedOnce
<1>10. ASSUME TickOnTime, OnlyChosen, OnTheWay PROVE OnlyChosen' /\ OnTheWay'
  <2>1. job.now = hour
    BY <1>7, <1>10 DEF TickOnTime
  <2>2. ASSUME NEW u \in due, settled[u] < hour PROVE Chosen(u, hour)
    <3>1. CASE u \in job.due
      BY <3>1, <2>2, <1>7, <1>10 DEF OnlyChosen
    <3>2. CASE u = p.user /\ isDue
      <4>1. pref[u] = [on |-> TRUE, hour |-> p.hour]
        BY <3>2, <2>2, <1>7, <1>10 DEF OnlyChosen
      <4>2. QED
        BY <4>1, <3>2, <2>1 DEF Chosen
    <3>3. QED
      BY <3>1, <3>2, <1>4
  <2>3. OnlyChosen'
    BY <2>2, <1>2, <1>7, <1>8, <1>10 DEF OnlyChosen, Chosen, SameSched
  <2>4. ASSUME NEW u \in Users, ToServe(u, hour)
        PROVE  [user |-> u, hour |-> pref[u].hour] \in job.prefs \ {p} \/ u \in due
    <3>1. [user |-> u, hour |-> pref[u].hour] \in job.prefs \/ u \in job.due
      BY <2>4, <1>7, <1>10 DEF OnTheWay
    <3>2. CASE p = [user |-> u, hour |-> pref[u].hour]
      <4>1. p.user = u /\ p.hour = pref[u].hour
        BY <3>2
      <4>2. isDue
        BY <4>1, <2>1, <2>4, StoredIsLogged, StateTypes DEF ToServe, Chosen
      <4>3. QED
        BY <4>1, <4>2, <1>5
    <3>3. QED
      BY <3>1, <3>2, <1>6
  <2>5. OnTheWay'
    BY <2>4, <1>2, <1>7, <1>8 DEF OnTheWay, ToServe, Chosen, SameSched
  <2>6. QED
    BY <2>3, <2>5
<1>11. \A u \in job'.due : u \in job.due \/ lastLog[u] # Day(job'.now)
  BY <1>4, <1>7
<1>12. QED
  BY <1>2, <1>7, <1>9, <1>10, <1>11, StateTypes, BodyKeeps DEF TickOnTime

LEMMA CheckFailsKeeps ==
  ASSUME IInv, job.step = "check", NEW p \in job.prefs, CheckFails(p)
  PROVE  IInv'
<1>1. /\ job' = [job EXCEPT !.prefs = @ \ {p}] /\ errors' = errors + 1
      /\ UNCHANGED schedVars
      /\ UNCHANGED <<pref, lastLog, today, logged, putBack, changes, reminded, settled, slipped, late>>
  BY DEF CheckFails, logVars
<1>2. job \in AtWork /\ job # Idle
  BY WorkFacts
<1>3. /\ job' \in AtWork /\ job'.step = "check" /\ job'.due = job.due
      /\ job'.marked = job.marked /\ job'.now = job.now /\ job'.logged = job.logged
  BY <1>1, <1>2 DEF AtWork
<1>4. ~slipped => job.now = job.marked
  BY <1>2 DEF IInv, CountedOnce
<1>5. QED
  BY <1>1, <1>3, <1>4, StateTypes, BodyKeeps

LEMMA ReturnDueKeeps == ASSUME IInv, ReturnDue PROVE IInv'
<1>1. job.step = "check" /\ job.prefs = {} /\ job \in AtWork /\ job # Idle
  BY WorkFacts DEF ReturnDue, logVars
<1>2. /\ job' = [job EXCEPT !.step = "send"] /\ UNCHANGED schedVars
      /\ UNCHANGED <<pref, lastLog, today, logged, putBack, changes, errors, reminded, settled, slipped, late>>
  BY DEF ReturnDue, logVars
<1>3. /\ job' \in AtWork /\ job'.step = "send" /\ job'.prefs = {} /\ job'.due = job.due
      /\ job'.marked = job.marked /\ job'.now = job.now /\ job'.logged = job.logged
  BY <1>1, <1>2 DEF AtWork
<1>4. SameSched
  BY <1>2, SchedSame
<1>5. ~slipped => job.now = job.marked
  BY <1>1 DEF IInv, CountedOnce
<1>6. ASSUME OnlyChosen, OnTheWay PROVE OnlyChosen' /\ OnTheWay'
  <2>1. OnlyChosen'
    BY <1>1, <1>2, <1>3, <1>4, <1>6 DEF OnlyChosen, Chosen, SameSched
  <2>2. OnTheWay'
    BY <1>1, <1>2, <1>3, <1>4, <1>6 DEF OnTheWay, ToServe, Chosen, SameSched
  <2>3. QED
    BY <2>1, <2>2
<1>7. QED
  BY <1>1, <1>2, <1>3, <1>5, <1>6, StateTypes, BodyKeeps DEF TickOnTime

LEMMA IdleFacts ==
  ASSUME IInv, state[Remind] # "running" PROVE job = Idle /\ job.step = "idle"
<1>1. job \notin AtWork
  BY IdleIsNotAtWork DEF IInv, TypeOK
<1>2. QED
  BY <1>1 DEF IInv, JobOK, Idle

(* The job starts in an hour in which it did not run yet.                  *)
LEMMA StartKeeps == ASSUME IInv, Start PROVE IInv'
<1>1. /\ Fire(Remind)
      /\ job' = [step |-> "list", marked |-> hour, now |-> hour, prefs |-> {}, due |-> {},
                 logged |-> {}]
      /\ UNCHANGED <<pref, lastLog, today, logged, putBack, changes, errors, reminded, settled, slipped, late>>
  BY DEF Start, logVars
<1>2. /\ state[Remind] = "waiting" /\ pending[Remind]
      /\ state'[Remind] = "running" /\ ~pending'[Remind]
      /\ UNCHANGED <<hour, minute, phase, born>>
  BY <1>1, StateTypes DEF Fire, Receive, clock
<1>3. SchedIInv' /\ SchedTypeOK' /\ AtMostOncePerHour'
  <2>1. SchedIInv'
    BY <1>1, StateTypes, FireIInv DEF IInv
  <2>2. QED
    BY <2>1 DEF SchedIInv
<1>4. /\ fired'[Remind] = [fired[Remind] EXCEPT ![hour] = fired[Remind][hour] + 1]
      /\ fired[Remind] \in [Hours -> Nat]
  BY <1>1, StateTypes DEF Fire
<1>5. /\ fired'[Remind][hour] > 0 /\ fired[Remind][hour] = 0
      /\ \A h \in Hours : fired[Remind][h] > 0 => fired'[Remind][h] > 0
  <2>1. fired'[Remind][hour] = fired[Remind][hour] + 1 /\ fired'[Remind][hour] <= 1
    BY <1>2, <1>3, <1>4, StateTypes DEF AtMostOncePerHour
  <2>2. QED
    BY <2>1, <1>4, StateTypes
<1>6. /\ job' \in AtWork /\ job' # Idle /\ job'.step = "list" /\ job'.prefs = {}
      /\ job'.due = {} /\ job'.marked = hour /\ job'.now = hour
  BY <1>1, StateTypes DEF AtWork, Idle
<1>7. TypeOK' /\ JobOK' /\ DatesOK' /\ LoggedKnown'
  <2>1. TypeOK'
    BY <1>1, <1>2, <1>3, <1>6, WorkTyped, LogsSame, StateTypes
  <2>2. DatesOK'
    BY <1>1, <1>2, DatesKeep, StateTypes
  <2>3. \A u \in Users : ~(lastLog[u] > Day(hour))
    BY DatesAreInt, StateTypes, HoursAreNat DEF IInv, DatesOK
  <2>4. LoggedKnown'
    BY <2>3, <1>1, <1>2, <1>6 DEF LoggedKnown, Day
  <2>5. QED
    BY <2>1, <2>2, <2>4, <1>6 DEF JobOK
<1>8. ASSUME ~slipped' PROVE CountedOnce'
  <2>1. CountedOnce
    BY <1>1, <1>8 DEF IInv
  <2>2. \A u \in Users : reminded[u][hour] = 0
    <3> SUFFICES ASSUME NEW u \in Users PROVE reminded[u][hour] = 0
      OBVIOUS
    <3>1. reminded[u][hour] \in Nat /\ ~(reminded[u][hour] > 0)
      BY <2>1, <1>5, StateTypes DEF CountedOnce
    <3>2. QED
      BY <3>1
  <2>3. QED
    BY <2>1, <2>2, <1>1, <1>5, <1>6 DEF CountedOnce
<1>9. ASSUME errors' = 0, ~late' PROVE TickOnTime' /\ OnlyChosen' /\ OnTheWay' /\ AllServed'
  <2>1. TickOnTime /\ OnlyChosen /\ AllServed
    BY <1>1, <1>9 DEF IInv
  <2>2. born[Remind] < hour /\ minute = phase[Remind]
    BY <2>1, <1>2, StateTypes DEF TickOnTime, IInv, SchedIInv, TickIsLater
  <2>3. TickOnTime'
    BY <2>1, <2>2, <1>1, <1>2, <1>6, StateTypes DEF TickOnTime
  <2>4. OnlyChosen' /\ OnTheWay'
    BY <2>1, <1>1, <1>2, <1>6 DEF OnlyChosen, OnTheWay, Chosen
  <2>5. AllServed'
    BY <2>1, <1>1, <1>2 DEF AllServed, Served, ToServe, Chosen
  <2>6. QED
    BY <2>3, <2>4, <2>5
<1>10. QED
  BY <1>3, <1>7, <1>8, <1>9 DEF IInv

(* A due user, who has not been reminded for this hour, is.                *)
LEMMA SendKeeps ==
  ASSUME IInv, job.step = "send", NEW u \in job.due, Send(u)
  PROVE  IInv'
<1>1. /\ job \in AtWork /\ job # Idle /\ state[Remind] = "running"
      /\ job.now \in Hours /\ u \in Users
  BY WorkFacts
<1>2. PICK n \in Hours : n = job.now
  BY <1>1
<1>3. /\ job' = [job EXCEPT !.due = @ \ {u}]
      /\ reminded' = [reminded EXCEPT ![u][n] = @ + 1] /\ UNCHANGED schedVars
      /\ UNCHANGED <<pref, lastLog, today, logged, putBack, changes, errors, settled, slipped, late>>
  BY <1>2 DEF Send, logVars
<1>4. SameSched /\ SchedIInv' /\ SchedTypeOK'
  BY <1>3, SchedSame
<1>5. /\ job' \in AtWork /\ job'.step = "send" /\ job'.prefs = job.prefs
      /\ job'.due = job.due \ {u} /\ job'.marked = job.marked /\ job'.now = n
      /\ job'.logged = job.logged /\ job' # Idle
  BY <1>1, <1>2, <1>3 DEF AtWork, Idle
<1>6. /\ reminded' \in [Users -> [Hours -> Nat]] /\ reminded'[u][n] = reminded[u][n] + 1
      /\ \A v \in Users, h \in Hours : v # u \/ h # n => reminded'[v][h] = reminded[v][h]
  BY <1>1, <1>3, StateTypes
<1>7. \A v \in Users, h \in Hours : reminded[v][h] > 0 => reminded'[v][h] > 0
  <2> SUFFICES ASSUME NEW v \in Users, NEW h \in Hours, reminded[v][h] > 0
               PROVE  reminded'[v][h] > 0
    OBVIOUS
  <2>1. CASE v = u /\ h = n
    BY <2>1, <1>1, <1>6, StateTypes
  <2>2. CASE ~(v = u /\ h = n)
    BY <2>2, <1>6
  <2>3. QED
    BY <2>1, <2>2
<1>8. TypeOK' /\ JobOK' /\ DatesOK' /\ LoggedKnown'
  <2>1. TypeOK'
    BY <1>1, <1>3, <1>4, <1>5, <1>6, WorkTyped, LogsSame, StateTypes DEF SameSched
  <2>2. DatesOK'
    BY <1>3, <1>4, DatesKeep, StateTypes DEF SameSched
  <2>3. LoggedKnown'
    BY <1>1, <1>2, <1>3, <1>5 DEF LoggedKnown, IInv, Day
  <2>4. QED
    BY <2>1, <2>2, <2>3, <1>5 DEF JobOK
<1>9. ASSUME ~slipped' PROVE CountedOnce'
  <2>1. CountedOnce
    BY <1>3, <1>9 DEF IInv
  <2>2. fired[Remind][n] > 0 /\ reminded[u][n] = 0 /\ n = job.marked
    BY <2>1, <1>1, <1>2 DEF CountedOnce
  <2>3. \A v \in Users, h \in Hours :
          reminded'[v][h] <= 1 /\ (reminded'[v][h] > 0 => fired[Remind][h] > 0)
    <3> SUFFICES ASSUME NEW v \in Users, NEW h \in Hours
                 PROVE  reminded'[v][h] <= 1 /\ (reminded'[v][h] > 0 => fired[Remind][h] > 0)
      OBVIOUS
    <3>1. CASE v = u /\ h = n
      BY <3>1, <2>2, <1>6
    <3>2. CASE ~(v = u /\ h = n)
      BY <3>2, <2>1, <1>6 DEF CountedOnce
    <3>3. QED
      BY <3>1, <3>2
  <2>4. \A v \in job.due \ {u} : reminded'[v][n] = 0
    BY <2>1, <1>1, <1>2, <1>6, WorkFacts DEF CountedOnce
  <2>5. QED
    BY <2>2, <2>3, <2>4, <1>4, <1>5 DEF CountedOnce, SameSched
<1>10. ASSUME errors' = 0, ~late' PROVE TickOnTime' /\ OnlyChosen' /\ OnTheWay' /\ AllServed'
  <2>1. TickOnTime /\ OnlyChosen /\ OnTheWay /\ AllServed
    BY <1>3, <1>10 DEF IInv
  <2>2. n = hour
    BY <2>1, <1>1, <1>2 DEF TickOnTime
  <2>3. TickOnTime'
    BY <2>1, <2>2, <1>1, <1>2, <1>3, <1>4, <1>5 DEF TickOnTime, SameSched
  <2>4. OnlyChosen'
    <3>1. settled[u] < hour => Chosen(u, hour)
      BY <2>1, <1>1 DEF OnlyChosen
    <3>2. ASSUME NEW v \in Users, NEW h \in Hours, settled[v] < h, h <= hour, reminded'[v][h] > 0
          PROVE  Chosen(v, h)
      <4>1. CASE v = u /\ h = n
        BY <4>1, <3>1, <3>2, <2>2
      <4>2. CASE ~(v = u /\ h = n)
        BY <4>2, <3>2, <2>1, <1>6 DEF OnlyChosen
      <4>3. QED
        BY <4>1, <4>2
    <3>3. /\ \A p \in job.prefs : settled[p.user] < hour =>
                                    pref[p.user] = [on |-> TRUE, hour |-> p.hour]
          /\ \A v \in job.due : settled[v] < hour => Chosen(v, hour)
      BY <2>1, <1>1 DEF OnlyChosen
    <3>4. QED
      BY <3>2, <3>3, <1>3, <1>4, <1>5 DEF OnlyChosen, Chosen, SameSched
  <2>5. OnTheWay'
    <3>1. \A v \in Users : ToServe(v, hour) => v \in job.due \ {u} \/ reminded'[v][hour] > 0
      <4> SUFFICES ASSUME NEW v \in Users, ToServe(v, hour)
                   PROVE  v \in job.due \ {u} \/ reminded'[v][hour] > 0
        OBVIOUS
      <4>1. v \in job.due \/ reminded[v][hour] > 0
        BY <2>1, <1>1 DEF OnTheWay
      <4>2. reminded'[u][n] > 0
        BY <1>1, <1>6, StateTypes
      <4>3. QED
        BY <4>1, <4>2, <2>2, <1>7
    <3>2. QED
      BY <3>1, <1>3, <1>4, <1>5 DEF OnTheWay, ToServe, Chosen, SameSched
  <2>6. AllServed'
    BY <2>1, <1>1, <1>3, <1>4, <1>7 DEF AllServed, Served, ToServe, Chosen, SameSched
  <2>7. QED
    BY <2>3, <2>4, <2>5, <2>6
<1>11. QED
  BY <1>4, <1>8, <1>9, <1>10 DEF IInv

(* A step after which the body is not at work: CountedOnce only looks at   *)
(* what was sent.                                                          *)
LEMMA IdleKeeps ==
  ASSUME IInv, SchedIInv', state'[Remind] # "running", job' = Idle, errors' \in Nat,
         UNCHANGED <<pref, lastLog, logged, putBack, changes, reminded, settled, slipped, hour, fired>>,
         today' \in [Users -> SUBSET Days], \A u \in Users : today'[u] \subseteq today[u],
         errors' = 0 /\ ~late' => TickOnTime' /\ AllServed',
         errors' = 0 /\ ~late' => errors = 0 /\ ~late
  PROVE  IInv'
<1>1. SchedTypeOK'
  BY DEF SchedIInv
<1>2. TypeOK' /\ JobOK' /\ DatesOK' /\ LoggedKnown'
  <2>1. LogsTyped'
    BY StateTypes DEF LogsTyped
  <2>2. DatesOK'
    BY DatesKeep, StateTypes
  <2>3. QED
    BY <2>1, <2>2, <1>1, IdleTyped, StateTypes DEF JobOK, LoggedKnown
<1>3. ~slipped' => CountedOnce'
  BY DEF IInv, CountedOnce
<1>4. errors' = 0 /\ ~late' => OnlyChosen' /\ OnTheWay'
  BY DEF IInv, OnlyChosen, OnTheWay, Chosen
<1>5. QED
  BY <1>2, <1>3, <1>4 DEF IInv

LEMMA FinishFacts ==
  ASSUME IInv, Finish(Remind)
  PROVE  /\ SchedIInv' /\ state'[Remind] = "waiting"
         /\ UNCHANGED <<hour, minute, phase, pending, born, lastFired, fired>>
<1>1. SchedIInv'
  BY StateTypes, FinishIInv DEF IInv
<1>2. QED
  BY <1>1, StateTypes DEF Finish, clock, ticker

LEMMA EndKeeps == ASSUME IInv, End PROVE IInv'
<1>1. /\ job.step = "send" /\ job.due = {} /\ job # Idle /\ job' = Idle /\ state[Remind] = "running"
      /\ UNCHANGED <<pref, lastLog, today, logged, putBack, changes, errors, reminded, settled, slipped, late>>
  BY WorkFacts DEF End, logVars
<1>2. /\ SchedIInv' /\ state'[Remind] = "waiting"
      /\ UNCHANGED <<hour, minute, phase, pending, born, lastFired, fired>>
  BY FinishFacts DEF End
<1>3. ASSUME errors' = 0, ~late' PROVE TickOnTime' /\ AllServed'
  <2>1. TickOnTime /\ OnTheWay /\ AllServed
    BY <1>1, <1>3 DEF IInv
  <2>2. ~pending[Remind] /\ minute = phase[Remind]
    BY <2>1, <1>1 DEF TickOnTime
  <2>3. TickOnTime'
    BY <2>1, <2>2, <1>1, <1>2, StateTypes DEF TickOnTime
  <2>4. \A u \in Users : ToServe(u, hour) => reminded[u][hour] > 0
    BY <2>1, <1>1 DEF OnTheWay
  <2>5. AllServed'
    BY <2>1, <2>4, <1>1, <1>2 DEF AllServed, Served, ToServe, Chosen
  <2>6. QED
    BY <2>3, <2>5
<1>4. QED
  BY <1>1, <1>2, <1>3, StateTypes, IdleKeeps

LEMMA ListFailsKeeps == ASSUME IInv, ListFails PROVE IInv'
<1>1. /\ errors' = errors + 1 /\ job' = Idle
      /\ UNCHANGED <<pref, lastLog, today, logged, putBack, changes, reminded, settled, slipped, late>>
  BY DEF ListFails, logVars
<1>2. SchedIInv' /\ state'[Remind] = "waiting" /\ UNCHANGED <<hour, fired>>
  BY FinishFacts DEF ListFails
<1>3. errors' \in Nat /\ errors' # 0
  BY <1>1, StateTypes
<1>4. QED
  BY <1>1, <1>2, <1>3, StateTypes, IdleKeeps

LEMMA CrashKeeps == ASSUME IInv, Crash PROVE IInv'
<1>1. /\ Restart /\ job' = Idle /\ today' = [u \in Users |-> {}]
      /\ UNCHANGED <<pref, lastLog, logged, putBack, changes, errors, reminded, settled, slipped, late>>
  BY DEF Crash
<1>2. /\ state'[Remind] = "new" /\ ~pending'[Remind]
      /\ UNCHANGED <<hour, minute, phase, born, fired>>
  BY <1>1, StateTypes DEF Restart, clock
<1>3. SchedIInv'
  BY <1>1, RestartIInv DEF IInv
<1>4. ASSUME errors' = 0, ~late' PROVE TickOnTime' /\ AllServed'
  BY <1>1, <1>2, <1>4 DEF IInv, TickOnTime, AllServed, Served
<1>5. QED
  BY <1>1, <1>2, <1>3, <1>4, StateTypes, IdleKeeps

-----------------------------------------------------------------------------
(* A preference that is saved does not count for this hour.                *)
LEMMA SetReminderKeeps ==
  ASSUME IInv, NEW u \in Users, NEW on \in BOOLEAN, NEW h \in 0..(DayLen - 1),
         SetReminder(u, on, h)
  PROVE  IInv'
<1>1. /\ pref' = [pref EXCEPT ![u] = [on |-> on, hour |-> IF on THEN h ELSE 0]]
      /\ settled' = [settled EXCEPT ![u] = hour] /\ changes' = changes + 1
      /\ UNCHANGED schedVars
      /\ UNCHANGED <<lastLog, today, logged, putBack, job, errors, reminded, slipped, late>>
  BY DEF SetReminder, logVars
<1>2. SameSched /\ SchedIInv' /\ SchedTypeOK'
  BY <1>1, SchedSame
<1>3. /\ pref' \in [Users -> [on : BOOLEAN, hour : 0..(DayLen - 1)]]
      /\ settled' \in [Users -> Hours] /\ settled'[u] = hour
      /\ \A v \in Users \ {u} : pref'[v] = pref[v] /\ settled'[v] = settled[v]
  BY <1>1, StateTypes
<1>4. TypeOK' /\ JobOK' /\ DatesOK' /\ LoggedKnown'
  <2>1. DatesOK'
    BY <1>1, <1>2, DatesKeep, StateTypes DEF SameSched
  <2>2. TypeOK'
    BY <1>1, <1>2, <1>3, StateTypes DEF TypeOK, IInv, SameSched
  <2>3. QED
    BY <2>1, <2>2, <1>1, <1>2 DEF JobOK, LoggedKnown, IInv, Day, SameSched
<1>5. ~slipped' => CountedOnce'
  BY <1>1, <1>2 DEF IInv, CountedOnce, SameSched
<1>6. ASSUME errors' = 0, ~late' PROVE TickOnTime' /\ OnlyChosen' /\ OnTheWay' /\ AllServed'
  <2>1. TickOnTime /\ OnlyChosen /\ OnTheWay /\ AllServed
    BY <1>1, <1>6 DEF IInv
  <2>2. TickOnTime'
    BY <2>1, <1>1, <1>2 DEF TickOnTime, SameSched
  <2>3. \A v \in Users, g \in Hours : settled'[v] < g /\ g <= hour =>
          v # u /\ settled'[v] = settled[v] /\ pref'[v] = pref[v]
    BY <1>3, StateTypes, HoursAreNat
  <2>4. OnlyChosen'
    <3>1. ASSUME NEW v \in Users, NEW g \in Hours, settled'[v] < g, g <= hour,
                 reminded[v][g] > 0
          PROVE  Chosen(v, g)'
      BY <3>1, <2>1, <2>3 DEF OnlyChosen, Chosen
    <3>2. ASSUME job # Idle
          PROVE  /\ \A p \in job.prefs : settled'[p.user] < hour =>
                                           pref'[p.user] = [on |-> TRUE, hour |-> p.hour]
                 /\ \A v \in job.due : settled'[v] < hour => Chosen(v, hour)'
      <4>1. job.step # "idle"
        BY <3>2, IdleIsNotAtWork DEF IInv, JobOK
      <4>2. job.due \subseteq Users /\ \A p \in job.prefs : p.user \in Users
        BY <4>1, WorkFacts
      <4>c. \A v \in Users : settled'[v] < hour =>
                              settled'[v] = settled[v] /\ pref'[v] = pref[v]
        BY <2>3, StateTypes
      <4>3. \A p \in job.prefs : settled'[p.user] < hour =>
                                   pref'[p.user] = [on |-> TRUE, hour |-> p.hour]
        <5> SUFFICES ASSUME NEW p \in job.prefs, settled'[p.user] < hour
                     PROVE  pref'[p.user] = [on |-> TRUE, hour |-> p.hour]
          OBVIOUS
        <5>1. settled'[p.user] = settled[p.user] /\ pref'[p.user] = pref[p.user]
          BY <4>2, <4>c
        <5>2. settled[p.user] < hour => pref[p.user] = [on |-> TRUE, hour |-> p.hour]
          BY <3>2, <2>1 DEF OnlyChosen
        <5> QED BY <5>1, <5>2
      <4>4. \A v \in job.due : settled'[v] < hour => Chosen(v, hour)'
        <5> SUFFICES ASSUME NEW v \in job.due, settled'[v] < hour PROVE Chosen(v, hour)'
          OBVIOUS
        <5>1. settled'[v] = settled[v] /\ pref'[v] = pref[v]
          BY <4>2, <4>c
        <5>2. Chosen(v, hour)
          BY <5>1, <3>2, <2>1 DEF OnlyChosen
        <5> QED BY <5>1, <5>2, <1>2 DEF Chosen, SameSched, HourOfDay
      <4>5. QED
        BY <4>3, <4>4
    <3>3. QED
      BY <3>1, <3>2, <1>1, <1>2 DEF OnlyChosen, Chosen, SameSched
  <2>5. \A v \in Users, g \in Hours : g <= hour /\ ToServe(v, g)' =>
          ToServe(v, g) /\ pref'[v] = pref[v]
    BY <2>3, <1>1 DEF ToServe, Chosen
  <2>6. OnTheWay' /\ AllServed'
    BY <2>1, <2>5, <1>1, <1>2, StateTypes DEF OnTheWay, AllServed, Served, SameSched
  <2>7. QED
    BY <2>2, <2>4, <2>6
<1>7. QED
  BY <1>2, <1>4, <1>5, <1>6 DEF IInv

(* A call reads the clock, or fails: only what is about to be saved        *)
(* changes, and no invariant but DatesOK looks at it.                      *)
LEMMA CallKeeps ==
  ASSUME IInv, LogsTyped', DatesOK', UNCHANGED schedVars,
         UNCHANGED <<pref, lastLog, logged, putBack, job, changes, errors, reminded,
                     settled, slipped, late>>
  PROVE  IInv'
<1>1. SameSched /\ SchedIInv' /\ SchedTypeOK'
  BY SchedSame
<1>2. TypeOK' /\ JobOK' /\ LoggedKnown'
  BY <1>1 DEF IInv, TypeOK, JobOK, LoggedKnown, Day, LogsTyped, SameSched
<1>3. ~slipped' => CountedOnce'
  BY <1>1 DEF IInv, CountedOnce, SameSched
<1>4. errors' = 0 /\ ~late' => TickOnTime' /\ OnlyChosen' /\ OnTheWay' /\ AllServed'
  BY <1>1 DEF IInv, TickOnTime, OnlyChosen, OnTheWay, AllServed, Served, ToServe, Chosen,
              SameSched
<1>5. QED
  BY <1>1, <1>2, <1>3, <1>4 DEF IInv

LEMMA RecordTradeKeeps == ASSUME IInv, NEW u \in Users, RecordTrade(u) PROVE IInv'
<1>1. /\ today' = [today EXCEPT ![u] = @ \cup {Day(hour)}] /\ UNCHANGED schedVars
      /\ UNCHANGED <<pref, lastLog, logged, putBack, job, changes, errors, reminded,
                     settled, slipped, late>>
  BY DEF RecordTrade
<1>2. LogsTyped'
  BY <1>1, StateTypes, HoursAreNat DEF LogsTyped
<1>3. hour' = hour /\ Day(hour) \in Nat
  BY <1>1, SchedSame, StateTypes, HoursAreNat DEF SameSched
<1>4. \A v \in Users : today'[v] = today[v] \/ today'[v] = today[v] \cup {Day(hour)}
  BY <1>1, StateTypes
<1>5. DatesOK'
  <2>1. \A v \in Users : \A d \in today'[v] : d <= Day(hour)
    BY <1>3, <1>4 DEF IInv, DatesOK
  <2>2. QED
    BY <2>1, <1>1, <1>3 DEF IInv, DatesOK, Day
<1>6. QED
  BY <1>1, <1>2, <1>5, CallKeeps

LEMMA SaveFailsKeeps ==
  ASSUME IInv, NEW u \in Users, NEW d \in Days, SaveFails(u, d) PROVE IInv'
<1>1. /\ today' = [today EXCEPT ![u] = @ \ {d}] /\ UNCHANGED schedVars
      /\ UNCHANGED <<pref, lastLog, logged, putBack, job, changes, errors, reminded,
                     settled, slipped, late>>
  BY DEF SaveFails
<1>2. LogsTyped' /\ \A v \in Users : today'[v] \subseteq today[v]
  BY <1>1, StateTypes DEF LogsTyped
<1>3. DatesOK'
  BY <1>1, <1>2, SchedSame, DatesKeep, StateTypes DEF SameSched
<1>4. QED
  BY <1>1, <1>2, <1>3, CallKeeps

(* What is logged stays logged, whichever date is stored.                  *)
LEMMA SaveStreakKeeps ==
  ASSUME IInv, NEW u \in Users, NEW d \in Days, SaveStreak(u, d) PROVE IInv'
<1>1. /\ d \in today[u] /\ lastLog' = [lastLog EXCEPT ![u] = d]
      /\ today' \in {today, [today EXCEPT ![u] = @ \ {d}]}
      /\ logged' = [logged EXCEPT ![u] = @ \cup {d}]
      /\ putBack' = IF d < lastLog[u] THEN putBack \cup {u} ELSE putBack
      /\ job' = IF job = Idle THEN Idle ELSE [job EXCEPT !.logged = @ \cup {u}]
      /\ UNCHANGED schedVars
      /\ UNCHANGED <<pref, changes, errors, reminded, settled, slipped, late>>
  BY DEF SaveStreak
<1>2. SameSched /\ SchedIInv' /\ SchedTypeOK'
  BY <1>1, SchedSame
<1>3. /\ lastLog'[u] = d /\ logged'[u] = logged[u] \cup {d} /\ putBack \subseteq putBack'
      /\ \A v \in Users \ {u} : lastLog'[v] = lastLog[v] /\ logged'[v] = logged[v]
      /\ \A v \in Users : today'[v] \subseteq today[v] /\ logged[v] \subseteq logged'[v]
  BY <1>1, StateTypes
<1>4. /\ job # Idle <=> job' # Idle
      /\ job # Idle => /\ job' \in AtWork /\ job'.logged = job.logged \cup {u}
                       /\ job'.step = job.step /\ job'.marked = job.marked /\ job'.now = job.now
                       /\ job'.prefs = job.prefs /\ job'.due = job.due
  <2>1. CASE job = Idle
    BY <2>1, <1>1
  <2>2. CASE job # Idle
    <3>1. job \in AtWork
      BY <2>2 DEF IInv, JobOK
    <3>2. job' = [job EXCEPT !.logged = @ \cup {u}]
      BY <2>2, <1>1
    <3>3. /\ job' \in AtWork /\ job'.logged = job.logged \cup {u}
          /\ job'.step = job.step /\ job'.marked = job.marked /\ job'.now = job.now
          /\ job'.prefs = job.prefs /\ job'.due = job.due
      BY <3>1, <3>2 DEF AtWork
    <3>4. QED
      BY <3>3, <2>2, IdleIsNotAtWork
  <2>3. QED
    BY <2>1, <2>2
<1>5. LogsTyped'
  <2>1. lastLog' \in [Users -> Days \cup {NoDate}] /\ logged' \in [Users -> SUBSET Days]
    BY <1>1, StateTypes
  <2>2. today' \in [Users -> SUBSET Days] /\ putBack' \subseteq Users
    BY <1>1, StateTypes
  <2>3. QED
    BY <2>1, <2>2 DEF LogsTyped
<1>6. TypeOK' /\ JobOK'
  <2>1. CASE job = Idle
    <3>1. job' = Idle /\ state'[Remind] # "running"
      BY <2>1, <1>1, <1>2 DEF Idle, IInv, TypeOK, SameSched
    <3>2. QED
      BY <3>1, <1>1, <1>2, <1>5, StateTypes, IdleTyped DEF JobOK
  <2>2. CASE job # Idle
    <3>1. state'[Remind] = "running"
      BY <2>2, <1>2, IdleFacts DEF SameSched
    <3>2. TypeOK'
      BY <3>1, <2>2, <1>1, <1>2, <1>4, <1>5, StateTypes, WorkTyped
    <3>3. JobOK'
      BY <2>2, <1>4 DEF JobOK, IInv
    <3>4. QED
      BY <3>2, <3>3
  <2>3. QED
    BY <2>1, <2>2
<1>7. DatesOK'
  <2>1. ASSUME NEW v \in Users
        PROVE  /\ lastLog'[v] <= Day(hour) /\ \A e \in today'[v] : e <= Day(hour)
               /\ lastLog'[v] # NoDate => lastLog'[v] \in logged'[v]
               /\ v \notin putBack' => \A e \in logged'[v] : e <= lastLog'[v]
    <3>1. /\ lastLog[v] <= Day(hour) /\ \A e \in today[v] : e <= Day(hour)
          /\ lastLog[v] # NoDate => lastLog[v] \in logged[v]
          /\ v \notin putBack => \A e \in logged[v] : e <= lastLog[v]
      BY DEF IInv, DatesOK
    <3>2. CASE v # u
      BY <3>1, <3>2, <1>3
    <3>3. CASE v = u
      <4>1. lastLog'[v] <= Day(hour) /\ lastLog'[v] \in logged'[v]
        BY <3>1, <3>3, <1>1, <1>3
      <4>2. ASSUME v \notin putBack', NEW e \in logged'[v] PROVE e <= d
        <5>1. ~(d < lastLog[v]) /\ v \notin putBack
          BY <3>3, <4>2, <1>1
        <5>2. d \in Nat /\ lastLog[v] \in Int /\ \A g \in logged[v] : g \in Nat
          BY DatesAreInt
        <5>3. e = d \/ e \in logged[v]
          BY <3>3, <4>2, <1>3
        <5>4. QED
          BY <5>1, <5>2, <5>3, <3>1
      <4>3. QED
        BY <4>1, <4>2, <3>1, <3>3, <1>3
    <3>4. QED
      BY <3>2, <3>3
  <2>2. hour' = hour
    BY <1>2 DEF SameSched
  <2>3. QED
    BY <2>1, <2>2 DEF DatesOK, Day
<1>8. LoggedKnown'
  <2>1. ASSUME job # Idle, NEW v \in Users \ putBack'
        PROVE  /\ lastLog'[v] > Day(job.now) => v \in job'.logged
               /\ v \in job.due /\ Day(job.now) \in logged'[v] => v \in job'.logged
    <3>1. CASE v = u
      BY <3>1, <2>1, <1>4
    <3>2. CASE v # u
      BY <3>2, <2>1, <1>3, <1>4 DEF IInv, LoggedKnown
    <3>3. QED
      BY <3>1, <3>2
  <2>2. QED
    BY <2>1, <1>4 DEF LoggedKnown, Day
<1>9. ~slipped' => CountedOnce'
  BY <1>1, <1>2, <1>4 DEF IInv, CountedOnce, SameSched
<1>10. ASSUME errors' = 0, ~late' PROVE TickOnTime' /\ OnlyChosen' /\ OnTheWay' /\ AllServed'
  <2>1. TickOnTime /\ OnlyChosen /\ OnTheWay /\ AllServed
    BY <1>1, <1>10 DEF IInv
  <2>2. TickOnTime' /\ OnlyChosen'
    BY <2>1, <1>1, <1>2, <1>4 DEF TickOnTime, OnlyChosen, Chosen, SameSched
  <2>3. ASSUME NEW v \in Users, NEW g \in Hours, ToServe(v, g)' PROVE ToServe(v, g)
    BY <2>3, <1>1, <1>3 DEF ToServe, Chosen, Day
  <2>4. OnTheWay' /\ AllServed'
    BY <2>1, <2>3, <1>1, <1>2, <1>4, StateTypes DEF OnTheWay, AllServed, Served, SameSched
  <2>5. QED
    BY <2>2, <2>4
<1>11. QED
  BY <1>2, <1>6, <1>7, <1>8, <1>9, <1>10 DEF IInv

-----------------------------------------------------------------------------
(* A minute passes while the job has nothing to do, or it is late.         *)
LEMMA MinuteKeeps ==
  ASSUME IInv, PassMinute, late' = (late \/ state[Remind] # "waiting" \/ pending[Remind]),
         UNCHANGED <<pref, lastLog, today, logged, putBack, job, changes, errors, reminded, settled, slipped>>
  PROVE  IInv'
<1>1. SchedIInv' /\ SchedTypeOK'
  <2>1. SchedIInv'
    BY PassMinuteIInv DEF IInv
  <2>2. QED
    BY <2>1 DEF SchedIInv
<1>2. /\ \/ minute' = minute + 1 /\ hour' = hour
         \/ minute' = 0 /\ minute >= HourLen - 1 /\ hour' = hour + 1
      /\ pending'[Remind] <=> pending[Remind] \/ (state[Remind] # "new" /\ minute' = phase[Remind])
      /\ UNCHANGED <<state, phase, born, lastFired, fired>>
  <2>1. pending'[Remind] = (pending[Remind] \/ (state[Remind] # "new" /\ minute' = phase[Remind]))
    BY StateTypes DEF PassMinute
  <2>2. \/ minute' = minute + 1 /\ hour' = hour
        \/ minute' = 0 /\ minute >= HourLen - 1 /\ hour' = hour + 1
    BY StateTypes DEF PassMinute
  <2>3. QED
    BY <2>1, <2>2 DEF PassMinute
<1>3. TypeOK' /\ JobOK' /\ DatesOK' /\ LoggedKnown'
  <2>1. hour' \in Hours /\ hour <= hour'
    BY <1>1, <1>2, StateTypes DEF SchedTypeOK
  <2>2. DatesOK'
    BY <2>1, DatesKeep
  <2>3. QED
    BY <2>2, <1>1, <1>2 DEF IInv, TypeOK, JobOK, LoggedKnown, Day
<1>4. ~slipped' => CountedOnce'
  BY <1>2 DEF IInv, CountedOnce
<1>5. ASSUME errors' = 0, ~late' PROVE TickOnTime' /\ OnlyChosen' /\ OnTheWay' /\ AllServed'
  <2>1. state[Remind] = "waiting" /\ ~pending[Remind] /\ ~late /\ job = Idle
    BY <1>5, IdleFacts
  <2>2. TickOnTime /\ OnlyChosen /\ AllServed /\ CountedOnce
    BY <2>1, <1>5 DEF IInv, TickOnTime
  <2>3. lastFired[Remind] \in Int /\ lastFired[Remind] <= hour
    BY StateTypes, HoursAreIntegers DEF IInv, SchedIInv, MarkIsPast
  <2>4. TickOnTime'
    BY <2>1, <2>2, <2>3, <1>2, StateTypes DEF TickOnTime
  <2>5. ASSUME NEW h \in Hours, h <= hour', \E u \in Users : reminded[u][h] > 0 PROVE h <= hour
    <3>1. fired[Remind][h] > 0
      BY <2>2, <2>5 DEF CountedOnce
    <3>2. QED
      BY <3>1, StateTypes DEF IInv, SchedIInv, FiredIsKnown
  <2>6. OnlyChosen' /\ OnTheWay'
    BY <2>1, <2>2, <2>5 DEF OnlyChosen, OnTheWay, Chosen
  <2>7. AllServed'
    <3>1. \A h \in Hours : Served(h)' <=> Served(h)
      BY <1>2 DEF Served, ToServe, Chosen, Day
    <3>2. CASE minute' = minute + 1 /\ hour' = hour
      <4>1. ~pending'[Remind] /\ minute' >= phase[Remind] => minute >= phase[Remind]
        <5> SUFFICES ASSUME ~pending'[Remind], minute' >= phase[Remind]
                     PROVE  minute >= phase[Remind]
          OBVIOUS
        <5>1. minute' # phase[Remind]
          BY <2>1, <1>2
        <5>2. minute \in Nat /\ phase[Remind] \in Nat
          BY StateTypes
        <5>3. QED
          BY <5>1, <5>2, <3>2
      <4>2. ~pending'[Remind] /\ minute' >= phase[Remind] => Served(hour)
        BY <4>1, <2>1, <2>2 DEF AllServed
      <4>3. Served(hour) => Served(hour)'
        BY <3>2, <1>2 DEF Served, ToServe, Chosen, Day
      <4>4. QED
        BY <3>1, <3>2, <4>2, <4>3, <2>2, <1>2 DEF AllServed
    <3>3. CASE minute' = 0 /\ minute >= HourLen - 1 /\ hour' = hour + 1
      <4>1. minute >= phase[Remind]
        BY <3>3, StateTypes DEF Minutes
      <4>2. Served(hour)
        BY <4>1, <2>1, <2>2 DEF AllServed
      <4>3. \A h \in Hours : h < hour' => h < hour \/ h = hour
        <5>1. hour \in Int /\ \A h \in Hours : h \in Int
          BY StateTypes, HoursAreNat
        <5>2. QED
          BY <5>1, <3>3
      <4>4. \A h \in Hours : h < hour' => Served(h)'
        BY <4>2, <4>3, <3>1, <2>2 DEF AllServed
      <4>5. ~(~pending'[Remind] /\ minute' >= phase'[Remind])
        BY <3>3, <2>1, <1>2, StateTypes
      <4>6. QED
        BY <4>4, <4>5 DEF AllServed
    <3>4. QED
      BY <3>2, <3>3, <1>2
  <2>8. QED
    BY <2>4, <2>6, <2>7
<1>6. QED
  BY <1>1, <1>3, <1>4, <1>5 DEF IInv

(* A new ticker has nothing to answer for in the hour of its creation.     *)
LEMMA StartTickerKeeps ==
  ASSUME IInv, StartTicker(Remind), UNCHANGED remVars PROVE IInv'
<1>1. /\ state[Remind] = "new" /\ state'[Remind] = "waiting" /\ ~pending'[Remind]
      /\ phase'[Remind] = minute /\ born'[Remind] = hour /\ job = Idle
      /\ UNCHANGED <<hour, minute, pending, lastFired, fired>>
  <2>1. pending[Remind] => state[Remind] # "new"
    BY StateTypes DEF IInv, SchedIInv, TickIsLater
  <2>2. state[Remind] = "new" /\ UNCHANGED <<hour, minute, pending, lastFired, fired>>
    BY DEF StartTicker, clock
  <2>3. phase' = [phase EXCEPT ![Remind] = minute] /\ born' = [born EXCEPT ![Remind] = hour]
        /\ state' = [state EXCEPT ![Remind] = "waiting"]
    BY DEF StartTicker
  <2>4. phase \in [Jobs -> Minutes] /\ born \in [Jobs -> Hours]
    BY DEF IInv, TypeOK, SchedTypeOK
  <2>5. QED
    BY <2>1, <2>2, <2>3, <2>4, StateTypes, IdleFacts
<1>2. UNCHANGED <<pref, lastLog, today, logged, putBack, job, changes, errors, reminded, settled, slipped, late>>
  BY DEF remVars, logVars
<1>3. SchedIInv'
  BY StateTypes, StartTickerIInv DEF IInv
<1>4. ASSUME errors' = 0, ~late' PROVE TickOnTime' /\ AllServed'
  BY <1>1, <1>2, <1>4, StateTypes, HoursAreNat DEF IInv, TickOnTime, AllServed, Served
<1>5. QED
  BY <1>1, <1>2, <1>3, <1>4, StateTypes, IdleKeeps

(* A job that is never late skips no tick.                                 *)
LEMMA SkipKeeps == ASSUME IInv, Skip(Remind), UNCHANGED remVars PROVE IInv'
<1>1. /\ state[Remind] = "waiting" /\ state'[Remind] = "waiting" /\ pending[Remind]
      /\ lastFired[Remind] = hour /\ job = Idle /\ UNCHANGED <<hour, fired>>
  BY StateTypes, IdleFacts DEF Skip, Receive, ShouldRun, HourKey, clock
<1>2. UNCHANGED <<pref, lastLog, today, logged, putBack, job, changes, errors, reminded, settled, slipped, late>>
  BY DEF remVars, logVars
<1>3. SchedIInv'
  BY StateTypes, SkipIInv DEF IInv
<1>4. ~(errors = 0 /\ ~late)
  BY <1>1, StateTypes DEF IInv, TickOnTime
<1>5. QED
  BY <1>1, <1>2, <1>3, <1>4, StateTypes, IdleKeeps

LEMMA InitIInv == Init => IInv
<1> SUFFICES ASSUME Init PROVE IInv
  OBVIOUS
<1>1. /\ hour = 0 /\ minute = 0 /\ state[Remind] = "new" /\ ~pending[Remind] /\ job = Idle
      /\ lastFired[Remind] = NoHour /\ ~slipped
      /\ pref = [u \in Users |-> NoPref] /\ lastLog = [u \in Users |-> NoDate]
      /\ changes = 0 /\ errors = 0 /\ settled = [u \in Users |-> 0]
      /\ today = [u \in Users |-> {}] /\ logged = [u \in Users |-> {}] /\ putBack = {}
      /\ reminded = [u \in Users |-> [h \in Hours |-> 0]]
  BY DEF Init, SchedInit
<1>2. SchedIInv /\ SchedTypeOK
  BY SchedInitIInv DEF Init, SchedIInv
<1>3. TypeOK
  BY <1>1, <1>2 DEF TypeOK, Idle, NoPref, Hours
<1>4. JobOK /\ DatesOK /\ LoggedKnown /\ CountedOnce
  <2>1. Day(hour) \in Nat
    BY <1>2, HoursAreNat DEF SchedTypeOK
  <2>2. DatesOK
    BY <2>1, <1>1 DEF DatesOK, NoDate
  <2>3. QED
    BY <2>2, <1>1 DEF JobOK, LoggedKnown, CountedOnce
<1>5. TickOnTime /\ OnlyChosen /\ OnTheWay /\ AllServed
  BY <1>1 DEF TickOnTime, OnlyChosen, OnTheWay, AllServed, Served
<1>6. QED
  BY <1>2, <1>3, <1>4, <1>5 DEF IInv

LEMMA NextIInv == IInv /\ [Next]_vars => IInv'
<1> SUFFICES ASSUME IInv, [Next]_vars PROVE IInv'
  OBVIOUS
<1>1. CASE Body
  <2>1. CASE Start \/ ListEnabledReminders \/ ReadClock \/ ReturnDue \/ End \/ ListFails
    BY <2>1, StartKeeps, ListKeeps, ReadClockKeeps, ReturnDueKeeps, EndKeeps, ListFailsKeeps
  <2>2. CASE job.step = "check" /\ \E p \in job.prefs : Check(p) \/ CheckFails(p)
    BY <2>2, CheckKeeps, CheckFailsKeeps
  <2>3. CASE job.step = "send" /\ \E u \in job.due : Send(u)
    BY <2>3, SendKeeps
  <2>4. QED
    BY <1>1, <2>1, <2>2, <2>3 DEF Body
<1>2. ASSUME NEW u \in Users, NEW on \in BOOLEAN, NEW h \in 0..(DayLen - 1), SetReminder(u, on, h)
      PROVE  IInv'
  BY <1>2, SetReminderKeeps
<1>3. ASSUME NEW u \in Users, RecordTrade(u) \/ \E d \in Days : SaveStreak(u, d) \/ SaveFails(u, d)
      PROVE  IInv'
  BY <1>3, RecordTradeKeeps, SaveStreakKeeps, SaveFailsKeeps
<1>4. CASE Clock
  BY <1>4, MinuteKeeps, StartTickerKeeps, SkipKeeps DEF Clock, logVars
<1>5. CASE Crash
  BY <1>5, CrashKeeps
<1>6. CASE UNCHANGED vars
  <2>1. UNCHANGED <<pref, lastLog, today, logged, putBack, job, changes, errors, reminded, settled, slipped, late>>
        /\ UNCHANGED schedVars
    BY <1>6 DEF vars, remVars, logVars
  <2>2. SameSched /\ SchedIInv' /\ SchedTypeOK'
    BY <2>1, SchedSame
  <2>3. TypeOK' /\ JobOK' /\ DatesOK' /\ LoggedKnown'
    <3>1. DatesOK'
      BY <2>1, <2>2, DatesKeep, StateTypes DEF SameSched
    <3>2. QED
      BY <3>1, <2>1, <2>2 DEF IInv, TypeOK, JobOK, LoggedKnown, Day, SameSched
  <2>4. ~slipped' => CountedOnce'
    BY <2>1, <2>2 DEF IInv, CountedOnce, SameSched
  <2>5. errors' = 0 /\ ~late' => TickOnTime' /\ OnlyChosen' /\ OnTheWay' /\ AllServed'
    BY <2>1, <2>2 DEF IInv, TickOnTime, OnlyChosen, OnTheWay, AllServed, Served, ToServe,
                      Chosen, SameSched
  <2>6. QED
    BY <2>2, <2>3, <2>4, <2>5 DEF IInv
<1>7. QED
  BY <1>1, <1>2, <1>3, <1>4, <1>5, <1>6 DEF Next

-----------------------------------------------------------------------------
(* The inductive invariant of the reminders.                               *)
THEOREM ReminderInvariance == Spec => []IInv
  BY InitIInv, NextIInv, PTL DEF Spec

(* Preferences, dates and the body's variables are of their types, and the *)
(* body is at work exactly while the scheduler runs the job.               *)
THEOREM ReminderTyped == Spec => []TypeOK
<1>1. IInv => TypeOK
  BY DEF IInv
<1>2. QED
  BY <1>1, ReminderInvariance, PTL

(***************************************************************************)
(* scheduler.go 19-20 and reminder.go 46-91: however the bot fails or is   *)
(* restarted and preferences change, nobody is reminded twice for a clock  *)
(* hour, unless an hour ended between the two reads of the clock.          *)
(***************************************************************************)
THEOREM RemindedAtMostOnce == Spec => []RemindedOnceUnlessSlipped
<1>1. IInv => RemindedOnceUnlessSlipped
  BY DEF IInv, RemindedOnceUnlessSlipped, CountedOnce
<1>2. QED
  BY <1>1, ReminderInvariance, PTL

LEMMA OnTimeIsWhenDue == IInv => RemindedWhenDue
<1> SUFFICES ASSUME IInv PROVE RemindedWhenDue
  OBVIOUS
<1>1. ASSUME errors = 0, ~late, NEW u \in Users, NEW h \in Hours, settled[u] < h, h < hour
      PROVE  /\ reminded[u][h] = 1 => Chosen(u, h)
             /\ (/\ Chosen(u, h) /\ state[Remind] # "new" /\ born[Remind] < h
                 /\ Day(h) \notin logged[u]) => reminded[u][h] = 1
  <2>1. OnlyChosen /\ AllServed /\ CountedOnce
    BY <1>1 DEF IInv, TickOnTime
  <2>2. reminded[u][h] \in Nat /\ reminded[u][h] <= 1 /\ h <= hour
    BY <2>1, <1>1, StateTypes, HoursAreNat DEF CountedOnce
  <2>3. reminded[u][h] = 1 => Chosen(u, h)
    BY <2>1, <2>2, <1>1 DEF OnlyChosen
  <2>4. ASSUME Chosen(u, h), state[Remind] # "new", born[Remind] < h, Day(h) \notin logged[u]
        PROVE  reminded[u][h] = 1
    <3>1. Served(h) /\ ToServe(u, h)
      BY <2>1, <2>4, <1>1 DEF AllServed, ToServe
    <3>2. QED
      BY <3>1, <2>2, <2>4 DEF Served
  <2>5. QED
    BY <2>3, <2>4
<1>2. ServedOnTime
  BY <1>1 DEF ServedOnTime, Chosen
<1>3. ASSUME job.step = "send", NEW u \in job.due \ putBack, Day(job.now) \in logged[u]
      PROVE  u \in job.logged
  BY <1>3, WorkFacts DEF IInv, LoggedKnown
<1>4. QED
  BY <1>2, <1>3 DEF RemindedWhenDue

(***************************************************************************)
(* reminder.go 62-81: as long as the job is never late and does not fail,  *)
(* whoever chose an hour and has not logged a trade is reminded in it, and *)
(* nobody is at another hour; of those who logged only those whose date    *)
(* was saved while the job was at work, or put back (gamification.go 145). *)
(***************************************************************************)
THEOREM AlwaysRemindedWhenDue == Spec => []RemindedWhenDue
  BY ReminderInvariance, OnTimeIsWhenDue, PTL
=============================================================================
