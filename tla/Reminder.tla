------------------------------ MODULE Reminder ------------------------------
(***************************************************************************)
(* The daily reminder: ReminderService (internal/service/reminder.go) over *)
(* the Badger repository of preferences, called by the job daily-reminder  *)
(* of cmd/bot/main.go, which the Scheduler runs every hour.                *)
(*                                                                         *)
(* The job reads the clock to mark the hour; GetDueReminders lists the     *)
(* enabled preferences, reads the clock again, and then reads the streaks  *)
(* one by one; the messages are sent one by one, which takes time.         *)
(* Meanwhile users change their preference, in one store transaction, and  *)
(* record trades: each call of OnTradeRecorded (gamification.go 80-145)    *)
(* reads the clock for the date, and later saves it with the streak.  In   *)
(* between midnight may pass, another call of the user may save a later    *)
(* date, and the call may fail or be cut off.                              *)
(* The result of sending a message is ignored, here it is sent.            *)
(***************************************************************************)
EXTENDS Scheduler

CONSTANTS
  Users,
  DayLen,      \* hours in a day
  MaxChanges,  \* bound: preferences saved
  MaxErrors    \* bound: failed transactions of the job

Remind == "daily-reminder"

ASSUME ReminderAssumption ==
  /\ Jobs = {Remind}
  /\ Due[Remind] = Hours
  /\ DayLen \in Nat \ {0}
  /\ MaxChanges \in Nat /\ MaxErrors \in Nat

VARIABLES
  pref,      \* stored: each user's preference
  lastLog,   \* stored: LastLogDate of each user's streak
  today,     \* the dates that calls of OnTradeRecorded for a user are about to save
  job,       \* the local variables of the job's body, and (history) for whom a
             \* date was saved while it runs
  changes, errors,
  logged,    \* history: the days for which a trade of a user was logged
  putBack,   \* history: the users whose stored date was replaced by an earlier one
  reminded,  \* history: how often a user was reminded for each clock hour
  settled,   \* history: the hour in which the preference was saved last
  slipped,   \* history: whether the hour ended between the two clock reads
  late       \* history: whether a minute passed while the job had to do something

logVars == <<lastLog, today, logged, putBack>>
remVars == <<pref, logVars, job, changes, errors, reminded, settled, slipped, late>>
vars == <<schedVars, remVars>>

Day(h) == h \div DayLen
HourOfDay(h) == h % DayLen
Days == {Day(h) : h \in Hours}

NoDate == -1
NoPref == [on |-> FALSE, hour |-> 0]
Idle == [step |-> "idle"]

-----------------------------------------------------------------------------
Init ==
  /\ SchedInit
  /\ pref = [u \in Users |-> NoPref]
  /\ lastLog = [u \in Users |-> NoDate]
  /\ today = [u \in Users |-> {}]
  /\ logged = [u \in Users |-> {}] /\ putBack = {}
  /\ job = Idle
  /\ changes = 0 /\ errors = 0
  /\ reminded = [u \in Users |-> [h \in Hours |-> 0]]
  /\ settled = [u \in Users |-> 0]
  /\ slipped = FALSE /\ late = FALSE

(* /reminder on, /reminder off: SetReminder.                               *)
SetReminder(u, on, h) ==
  /\ changes < MaxChanges
  /\ changes' = changes + 1
  /\ pref' = [pref EXCEPT ![u] = [on |-> on, hour |-> IF on THEN h ELSE 0]]
  /\ settled' = [settled EXCEPT ![u] = hour]
  /\ UNCHANGED <<schedVars, logVars, job, errors, reminded, slipped, late>>

(* A call for a trade of the user has read the streak and reads the clock. *)
(* Any number of calls may be under way.                                   *)
RecordTrade(u) ==
  /\ Day(hour) \notin today[u]
  /\ today' = [today EXCEPT ![u] = @ \cup {Day(hour)}]
  /\ UNCHANGED <<schedVars, pref, lastLog, job, changes, errors, logged, putBack,
                 reminded, settled, slipped, late>>

(* One saves the streak with its date d, whatever date is stored by now;   *)
(* others may still be about to save d.                                    *)
SaveStreak(u, d) ==
  /\ d \in today[u]
  /\ lastLog' = [lastLog EXCEPT ![u] = d]
  /\ today' \in {today, [today EXCEPT ![u] = @ \ {d}]}
  /\ logged' = [logged EXCEPT ![u] = @ \cup {d}]
  /\ putBack' = IF d < lastLog[u] THEN putBack \cup {u} ELSE putBack
  /\ job' = IF job = Idle THEN Idle ELSE [job EXCEPT !.logged = @ \cup {u}]
  /\ UNCHANGED <<schedVars, pref, changes, errors, reminded, settled, slipped, late>>

(* The profile or the streak cannot be saved: the calls return the error.  *)
SaveFails(u, d) ==
  /\ d \in today[u]
  /\ today' = [today EXCEPT ![u] = @ \ {d}]
  /\ UNCHANGED <<schedVars, pref, lastLog, job, changes, errors, logged, putBack,
                 reminded, settled, slipped, late>>

-----------------------------------------------------------------------------
(* The hour is marked.                                                     *)
Start ==
  /\ Fire(Remind)
  /\ job' = [step |-> "list", marked |-> hour, now |-> hour, prefs |-> {}, due |-> {},
             logged |-> {}]
  /\ UNCHANGED <<pref, logVars, changes, errors, reminded, settled, slipped, late>>

ListEnabledReminders ==
  /\ job.step = "list"
  /\ job' = [job EXCEPT !.step = "clock",
       !.prefs = {[user |-> u, hour |-> pref[u].hour] : u \in {v \in Users : pref[v].on}}]
  /\ UNCHANGED <<schedVars, pref, logVars, changes, errors, reminded, settled, slipped, late>>

(* currentHour and today.                                                  *)
ReadClock ==
  /\ job.step = "clock"
  /\ job' = [job EXCEPT !.step = "check", !.now = hour]
  /\ slipped' = (slipped \/ hour # job.marked)
  /\ UNCHANGED <<schedVars, pref, logVars, changes, errors, reminded, settled, late>>

(* Faulty variant: the hour of the preference is not compared.             *)
CheckAnyHour(p) ==
  /\ job.step = "check" /\ p \in job.prefs
  /\ job' = [job EXCEPT !.prefs = @ \ {p},
       !.due = IF lastLog[p.user] # Day(job.now) THEN @ \cup {p.user} ELSE @]
  /\ UNCHANGED <<schedVars, pref, logVars, changes, errors, reminded, settled, slipped, late>>

(* One round of the loop: the user is due unless a trade was logged today. *)
Check(p) ==
  /\ job.step = "check" /\ p \in job.prefs
  /\ job' = [job EXCEPT !.prefs = @ \ {p},
       !.due = IF p.hour = HourOfDay(job.now) /\ lastLog[p.user] # Day(job.now)
               THEN @ \cup {p.user} ELSE @]
  /\ UNCHANGED <<schedVars, pref, logVars, changes, errors, reminded, settled, slipped, late>>

(* The streak cannot be read: the user is passed over.                     *)
CheckFails(p) ==
  /\ job.step = "check" /\ p \in job.prefs /\ p.hour = HourOfDay(job.now)
  /\ errors < MaxErrors
  /\ errors' = errors + 1
  /\ job' = [job EXCEPT !.prefs = @ \ {p}]
  /\ UNCHANGED <<schedVars, pref, logVars, changes, reminded, settled, slipped, late>>

ReturnDue ==
  /\ job.step = "check" /\ job.prefs = {}
  /\ job' = [job EXCEPT !.step = "send"]
  /\ UNCHANGED <<schedVars, pref, logVars, changes, errors, reminded, settled, slipped, late>>

(* Faulty variant: the user is not taken off the list.                     *)
SendAgain(u) ==
  /\ job.step = "send" /\ u \in job.due
  /\ reminded[u][job.now] < 2
  /\ reminded' = [reminded EXCEPT ![u][job.now] = @ + 1]
  /\ UNCHANGED <<schedVars, pref, logVars, job, changes, errors, settled, slipped, late>>

(* The message to one of the due users; the streak it shows is read now.   *)
Send(u) ==
  /\ job.step = "send" /\ u \in job.due
  /\ job' = [job EXCEPT !.due = @ \ {u}]
  /\ reminded' = [reminded EXCEPT ![u][job.now] = @ + 1]
  /\ UNCHANGED <<schedVars, pref, logVars, changes, errors, settled, slipped, late>>

(* Faulty variant: the body's variables survive its end.                   *)
EndKeepsJob ==
  /\ job.step = "send" /\ job.due = {}
  /\ Finish(Remind)
  /\ UNCHANGED remVars

End ==
  /\ job.step = "send" /\ job.due = {}
  /\ job' = Idle
  /\ Finish(Remind)
  /\ UNCHANGED <<pref, logVars, changes, errors, reminded, settled, slipped, late>>

(* The preferences cannot be listed: the body returns the error.           *)
ListFails ==
  /\ job.step = "list"
  /\ errors < MaxErrors
  /\ errors' = errors + 1
  /\ job' = Idle
  /\ Finish(Remind)
  /\ UNCHANGED <<pref, logVars, changes, reminded, settled, slipped, late>>

-----------------------------------------------------------------------------
Body ==
  \/ Start \/ ListEnabledReminders \/ ReadClock \/ ReturnDue \/ End \/ ListFails
  \/ job.step = "check" /\ \E p \in job.prefs : Check(p) \/ CheckFails(p)
  \/ job.step = "send" /\ \E u \in job.due : Send(u)

Clock ==
  \/ /\ PassMinute
     /\ late' = (late \/ state[Remind] # "waiting" \/ pending[Remind])
     /\ UNCHANGED <<pref, logVars, job, changes, errors, reminded, settled, slipped>>
  \/ (StartTicker(Remind) \/ Skip(Remind)) /\ UNCHANGED remVars

Crash ==
  /\ Restart
  /\ job' = Idle
  /\ today' = [u \in Users |-> {}]
  /\ UNCHANGED <<pref, lastLog, logged, putBack, changes, errors, reminded, settled, slipped, late>>

Next ==
  \/ Body
  \/ \E u \in Users, on \in BOOLEAN, h \in 0..(DayLen - 1) : SetReminder(u, on, h)
  \/ \E u \in Users : RecordTrade(u)
  \/ \E u \in Users, d \in Days : SaveStreak(u, d) \/ SaveFails(u, d)
  \/ Clock
  \/ Crash

Spec == Init /\ [][Next]_vars

-----------------------------------------------------------------------------
TypeOK ==
  /\ SchedTypeOK
  /\ pref \in [Users -> [on : BOOLEAN, hour : 0..(DayLen - 1)]]
  /\ lastLog \in [Users -> Days \cup {NoDate}]
  /\ today \in [Users -> SUBSET Days] /\ logged \in [Users -> SUBSET Days] /\ putBack \subseteq Users
  /\ job.step \in {"idle", "list", "clock", "check", "send"}
  /\ (job.step = "idle") <=> (state[Remind] # "running")
  /\ job.step # "idle" => job.marked \in Hours /\ job.now \in Hours /\ job.due \cup job.logged \subseteq Users
  /\ changes \in Nat /\ errors \in Nat
  /\ reminded \in [Users -> [Hours -> Nat]]
  /\ settled \in [Users -> Hours]

(***************************************************************************)
(* A user is reminded at most once for a clock hour, whatever fails or is  *)
(* restarted in that hour and however the preference changes meanwhile,    *)
(* as long as no hour ended between the two reads of the clock (main.go    *)
(* 209, reminder.go 57).                                                   *)
(***************************************************************************)
RemindedOnceUnlessSlipped ==
  slipped \/ \A u \in Users, h \in Hours : reminded[u][h] <= 1

(***************************************************************************)
(* As long as the job is never late and does not fail, a user whose        *)
(* preference stands is reminded on every day at the hour chosen, unless a *)
(* trade was logged for that day, from the hour after the job's ticker was *)
(* created on; and never at another hour (reminder.go 62-81).  Whatever    *)
(* fails or is late, of the users who logged a trade for that day only     *)
(* those are reminded for whom one was saved while the job was at work, or *)
(* whose date a slow call of the day before has put back (reminder.go 76,  *)
(* gamification.go 145).                                                   *)
(***************************************************************************)
ServedOnTime ==
  errors = 0 /\ ~late => \A u \in Users, h \in Hours :
    settled[u] < h /\ h < hour =>
      /\ reminded[u][h] = 1 => pref[u].on /\ HourOfDay(h) = pref[u].hour
      /\ (/\ pref[u].on /\ HourOfDay(h) = pref[u].hour
          /\ state[Remind] # "new" /\ born[Remind] < h
          /\ Day(h) \notin logged[u]) => reminded[u][h] = 1

RemindedWhenDue ==
  /\ ServedOnTime
  /\ job.step = "send" => \A u \in job.due \ putBack : Day(job.now) \in logged[u] => u \in job.logged

-----------------------------------------------------------------------------
(* What documents and texts say, and the code does not do.                 *)

(***************************************************************************)
(* main.go 166 (and 190, 238), of a job that is due in an hour: the hour   *)
(* is not missed if the job is never late.                                 *)
(***************************************************************************)
DueHourNotMissed ==
  ~late => \A h \in Hours : 0 < h /\ h < hour => fired[Remind][h] > 0

(***************************************************************************)
(* handler.go 732, "Daily reminder" at the hour chosen: one reminder a day *)
(* for a preference that was not changed on that day.                      *)
(***************************************************************************)
OneReminderADay ==
  \A u \in Users, d \in Days : Day(settled[u]) < d =>
    \A g, h \in {i \in Hours : Day(i) = d} :
      reminded[u][g] <= 1 /\ (reminded[u][g] > 0 /\ reminded[u][h] > 0 => g = h)

(***************************************************************************)
(* reminder.go 49-50: the reminder is for users "who have not yet logged a *)
(* trade today".                                                           *)
(***************************************************************************)
RemindedNotLogged ==
  [][\A u \in Users : reminded'[u] # reminded[u] => Day(job.now) \notin logged[u]]_vars

(***************************************************************************)
(* formatter.go 400, "Jangan sampai putus!" (do not let it break) about    *)
(* the streak of a user who logged once: the streak that a reminder shows  *)
(* is not broken yet, its last day is yesterday or today.                  *)
(***************************************************************************)
ShownStreakIsAlive ==
  job.step = "send" => \A u \in job.due :
    lastLog[u] # NoDate => lastLog[u] >= Day(job.now) - 1

-----------------------------------------------------------------------------
(* The invariant behind these.  The body's variables.                      *)
AtWork == [step : {"list", "clock", "check", "send"}, marked : Hours, now : Hours,
           prefs : SUBSET [user : Users, hour : 0..(DayLen - 1)],
           due : SUBSET Users, logged : SUBSET Users]

JobOK ==
  /\ job = Idle \/ job \in AtWork
  /\ job # Idle /\ job.step \in {"list", "clock"} => job.due = {}

(* Users are only reminded in hours in which the job ran, those on the     *)
(* list have not been yet.                                                 *)
CountedOnce ==
  /\ \A u \in Users, h \in Hours :
       reminded[u][h] <= 1 /\ (reminded[u][h] > 0 => fired[Remind][h] > 0)
  /\ job # Idle =>
       /\ job.now = job.marked /\ fired[Remind][job.now] > 0
       /\ \A u \in Users : job.step # "send" \/ u \in job.due => reminded[u][job.now] = 0

(* Dates are not ahead of the clock, and the stored one is the last logged *)
(* unless it was put back.                                                 *)
DatesOK ==
  \A u \in Users :
    /\ lastLog[u] <= Day(hour) /\ \A d \in today[u] : d <= Day(hour)
    /\ lastLog[u] # NoDate => lastLog[u] \in logged[u]
    /\ u \notin putBack => \A d \in logged[u] : d <= lastLog[u]

(* Who logged for the day of the job, or a later one, and is or may become *)
(* due, did so while the job was at work.                                  *)
LoggedKnown ==
  job # Idle => \A u \in Users \ putBack :
    /\ lastLog[u] > Day(job.now) => u \in job.logged
    /\ u \in job.due /\ Day(job.now) \in logged[u] => u \in job.logged

(* A job that is never late handles the tick of an hour in the minute of   *)
(* the tick.                                                               *)
TickOnTime ==
  /\ ~slipped
  /\ pending[Remind] => minute = phase[Remind]
  /\ state[Remind] # "new" /\ (pending[Remind] \/ minute < phase[Remind]) =>
       lastFired[Remind] < hour
  /\ job # Idle => job.marked = hour /\ job.now = hour /\ born[Remind] < hour
                   /\ ~pending[Remind] /\ minute = phase[Remind]

(* Nobody is listed, due or reminded without having chosen the hour.       *)
Chosen(u, h) == pref[u].on /\ HourOfDay(h) = pref[u].hour

OnlyChosen ==
  /\ \A u \in Users, h \in Hours :
       settled[u] < h /\ h <= hour /\ reminded[u][h] > 0 => Chosen(u, h)
  /\ job # Idle =>
       /\ \A p \in job.prefs : settled[p.user] < hour => pref[p.user] = [on |-> TRUE, hour |-> p.hour]
       /\ \A u \in job.due : settled[u] < hour => Chosen(u, hour)

(* Who is to be reminded is on the way through the lists of the job,       *)
ToServe(u, h) == settled[u] < h /\ Chosen(u, h) /\ Day(h) \notin logged[u]

OnTheWay ==
  job # Idle /\ job.step # "list" => \A u \in Users : ToServe(u, hour) =>
    IF job.step = "send" THEN u \in job.due \/ reminded[u][hour] > 0
    ELSE [user |-> u, hour |-> pref[u].hour] \in job.prefs \/ u \in job.due

(* and reminded when the tick of the hour has been handled.                *)
Served(h) ==
  state[Remind] # "new" /\ born[Remind] < h =>
    \A u \in Users : ToServe(u, h) => reminded[u][h] > 0

AllServed ==
  /\ \A h \in Hours : h < hour => Served(h)
  /\ state[Remind] = "waiting" /\ ~pending[Remind] /\ minute >= phase[Remind] => Served(hour)

IInv ==
  /\ SchedIInv /\ TypeOK /\ JobOK /\ DatesOK /\ LoggedKnown
  /\ ~slipped => CountedOnce
  /\ errors = 0 /\ ~late => TickOnTime /\ OnlyChosen /\ OnTheWay /\ AllServed
=============================================================================
