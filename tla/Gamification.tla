---------------------------- MODULE Gamification ----------------------------
(***************************************************************************)
(* GamificationService (internal/service/gamification.go) over the Badger  *)
(* store (internal/adapter/badger/gamification.go).                        *)
(*                                                                         *)
(* The bot handles every update in a goroutine of its own and the          *)
(* scheduler's jobs in others, and nothing locks a member's records: a     *)
(* call reads the profile and the streak in one store transaction each and *)
(* writes them back in later ones.  A worker is a goroutine that may be    *)
(* inside OnTradeRecorded or AwardXP; a step is one store transaction or   *)
(* the computation between the reads and the writes.  Any transaction can  *)
(* fail, which abandons the call where it stands, and the process can be   *)
(* killed between any two steps.                                           *)
(*                                                                         *)
(* granted, worked, bonus and disturbed are history: what the calls         *)
(* computed so far, and the members for whom calls overlapped or stopped   *)
(* half way.                                                               *)
(***************************************************************************)
EXTENDS XP, FiniteSets

CONSTANTS
  Members,     \* Telegram ids
  Workers,     \* goroutines that may call the service
  Trades,      \* the kinds of trade that are recorded
  Awards,      \* the amounts AwardXP is called with
  FirstDay,    \* the WIB calendar day on which the bot is first started
  MaxDay,      \* bound: the last calendar day
  MaxCalls,    \* bound: calls of the service
  MaxErrors,   \* bound: failed store transactions
  MaxCrashes   \* bound: restarts of the process

ASSUME GamificationAssumption ==
  /\ Trades \subseteq Trade
  /\ Awards \subseteq Nat
  /\ FirstDay \in Nat \ {0}
  /\ MaxDay \in Nat
  /\ MaxCalls \in Nat
  /\ MaxErrors \in Nat
  /\ MaxCrashes \in Nat

VARIABLES
  profile,  \* stored: TotalXP and Level of each member
  streak,   \* stored: CurrentStreak, LongestStreak and LastLogDate
  logged,   \* stored: the sum of the amounts of the member's XP events
  pc,       \* the step each worker takes next
  call,     \* the local variables of the call each worker is in
  today,    \* the calendar day in WIB
  calls, errors, crashes,
  granted,  \* history: XP computed for the member
  worked,   \* history: the days on which a trade of the member was processed
  bonus,    \* history: the part of granted that is streak XP
  disturbed \* history: the members with overlapping or unfinished calls

store == <<profile, streak, logged>>
history == <<granted, worked, bonus, disturbed>>
vars == <<store, pc, call, today, calls, errors, crashes, history>>

NoDate == -1  \* LastLogDate of a member who never logged: the empty string
Day == Nat

Profile == [xp : Nat, level : Levels]
Streak == [current : Nat, longest : Nat, last : Day \cup {NoDate}]

(* A record that is not stored yet is replaced by these.                   *)
DefaultProfile == [xp |-> 0, level |-> 1]
DefaultStreak == [current |-> 0, longest |-> 0, last |-> NoDate]

Steps == {"idle", "getStreak", "compute", "saveProfile", "saveStreak", "appendEvent"}

TradeCall == [kind : {"trade"}, member : Members, trade : Trades,
              prof : Profile, strk : Streak, gain : Nat]
AwardCall == [kind : {"award"}, member : Members, prof : Profile, gain : Nat]
NoCall == [kind |-> "none"]

-----------------------------------------------------------------------------
(***************************************************************************)
(* The computation between the reads and the writes.                       *)
(***************************************************************************)
(* Faulty variant: the level is computed before the XP is added.           *)
AddXPStaleLevel(p, amount) ==
  [xp |-> p.xp + amount, level |-> LevelForXP(p.xp)]

AddXP(p, amount) ==
  [xp |-> p.xp + amount, level |-> LevelForXP(p.xp + amount)]

StreakIncremented(s, day) == s.last # day

(* Faulty variant: a gap does not reset the streak.                        *)
UpdatedStreakNoReset(s, day) ==
  LET cur == IF s.last = day THEN s.current ELSE s.current + 1
  IN  [current |-> cur, longest |-> IF cur > s.longest THEN cur ELSE s.longest, last |-> day]

UpdatedStreak(s, day) ==
  LET cur == IF s.last = day THEN s.current
             ELSE IF s.last = day - 1 THEN s.current + 1
             ELSE 1
  IN  [current |-> cur,
       longest |-> IF cur > s.longest THEN cur ELSE s.longest,
       last    |-> day]

StreakGain(s, day) ==
  IF StreakIncremented(s, day) THEN StreakXP(UpdatedStreak(s, day).current) ELSE 0

-----------------------------------------------------------------------------
Init ==
  /\ profile = [m \in Members |-> DefaultProfile]
  /\ streak = [m \in Members |-> DefaultStreak]
  /\ logged = [m \in Members |-> 0]
  /\ pc = [w \in Workers |-> "idle"]
  /\ call = [w \in Workers |-> NoCall]
  /\ today = FirstDay
  /\ calls = 0 /\ errors = 0 /\ crashes = 0
  /\ granted = [m \in Members |-> 0]
  /\ worked = [m \in Members |-> {}]
  /\ bonus = [m \in Members |-> 0]
  /\ disturbed = {}

Goto(w, from, to) == pc[w] = from /\ pc' = [pc EXCEPT ![w] = to]

(* The call returns: its local variables are gone.                         *)
Return(w) == call' = [call EXCEPT ![w] = NoCall]

(* The members for whom worker w is inside a call.                         *)
Busy(w) == IF pc[w] = "idle" THEN {} ELSE {call[w].member}

Begins(w, m) ==
  /\ calls < MaxCalls
  /\ calls' = calls + 1
  /\ disturbed' = IF \E v \in Workers : m \in Busy(v)
                  THEN disturbed \cup {m} ELSE disturbed
  /\ UNCHANGED <<store, today, errors, crashes>>

(* OnTradeRecorded reads the profile.                                      *)
GetProfile(w, m, t) ==
  /\ Begins(w, m)
  /\ Goto(w, "idle", "getStreak")
  /\ call' = [call EXCEPT ![w] =
       [kind |-> "trade", member |-> m, trade |-> t,
        prof |-> profile[m], strk |-> DefaultStreak, gain |-> 0]]
  /\ UNCHANGED <<granted, worked, bonus>>

GetStreak(w) ==
  /\ Goto(w, "getStreak", "compute")
  /\ call' = [call EXCEPT ![w].strk = streak[call[w].member]]
  /\ UNCHANGED <<store, today, calls, errors, crashes, history>>

(* The clock is read, the streak and the profile are updated in memory.    *)
Compute(w) ==
  LET c == call[w]
      gain == TradeXP(c.trade) + StreakGain(c.strk, today)
  IN
  /\ Goto(w, "compute", "saveProfile")
  /\ call' = [call EXCEPT ![w] =
       [c EXCEPT !.prof = AddXP(c.prof, gain),
                 !.strk = UpdatedStreak(c.strk, today),
                 !.gain = gain]]
  /\ granted' = [granted EXCEPT ![c.member] = @ + gain]
  /\ worked' = [worked EXCEPT ![c.member] = @ \cup {today}]
  /\ bonus' = [bonus EXCEPT ![c.member] = @ + StreakGain(c.strk, today)]
  /\ UNCHANGED <<store, today, calls, errors, crashes, disturbed>>

(* Faulty variant: the profile is not saved.                               *)
AwardXPNoSave(w, m, amount) ==
  /\ Begins(w, m)
  /\ Goto(w, "idle", "appendEvent")
  /\ call' = [call EXCEPT ![w] =
       [kind |-> "award", member |-> m,
        prof |-> AddXP(profile[m], amount), gain |-> amount]]
  /\ granted' = [granted EXCEPT ![m] = @ + amount]
  /\ UNCHANGED <<worked, bonus>>

(* AwardXP reads the profile and adds the amount to its copy.              *)
AwardXP(w, m, amount) ==
  /\ Begins(w, m)
  /\ Goto(w, "idle", "saveProfile")
  /\ call' = [call EXCEPT ![w] =
       [kind |-> "award", member |-> m,
        prof |-> AddXP(profile[m], amount), gain |-> amount]]
  /\ granted' = [granted EXCEPT ![m] = @ + amount]
  /\ UNCHANGED <<worked, bonus>>

(* Faulty variant: the copy, which holds the total, is added to the store. *)
SaveProfileAdds(w) ==
  /\ Goto(w, "saveProfile", IF call[w].kind = "trade" THEN "saveStreak" ELSE "appendEvent")
  /\ profile' = [profile EXCEPT ![call[w].member] = AddXP(@, call[w].prof.xp)]
  /\ UNCHANGED <<streak, logged, call, today, calls, errors, crashes, history>>

SaveProfile(w) ==
  /\ Goto(w, "saveProfile", IF call[w].kind = "trade" THEN "saveStreak" ELSE "appendEvent")
  /\ profile' = [profile EXCEPT ![call[w].member] = call[w].prof]
  /\ UNCHANGED <<streak, logged, call, today, calls, errors, crashes, history>>

SaveStreak(w) ==
  /\ Goto(w, "saveStreak", "appendEvent")
  /\ streak' = [streak EXCEPT ![call[w].member] = call[w].strk]
  /\ UNCHANGED <<profile, logged, call, today, calls, errors, crashes, history>>

AppendXPEvent(w) ==
  /\ Goto(w, "appendEvent", "idle")
  /\ logged' = [logged EXCEPT ![call[w].member] = @ + call[w].gain]
  /\ Return(w)
  /\ UNCHANGED <<profile, streak, today, calls, errors, crashes, history>>

(***************************************************************************)
(* A store transaction fails and the call returns the error.  What the     *)
(* call wrote before stays, nothing is undone.  (A failure of the first    *)
(* read is a call that does nothing.)                                      *)
(***************************************************************************)
StoreError(w) ==
  /\ pc[w] \in Steps \ {"idle", "compute"}
  /\ errors < MaxErrors
  /\ errors' = errors + 1
  /\ pc' = [pc EXCEPT ![w] = "idle"]
  /\ Return(w)
  /\ disturbed' = disturbed \cup Busy(w)
  /\ UNCHANGED <<store, today, calls, crashes, granted, worked, bonus>>

NextDay ==
  /\ today < MaxDay
  /\ today' = today + 1
  /\ UNCHANGED <<store, pc, call, calls, errors, crashes, history>>

(* The process stops, handlers are not waited for, and is started again.   *)
Crash ==
  /\ crashes < MaxCrashes
  /\ crashes' = crashes + 1
  /\ pc' = [w \in Workers |-> "idle"]
  /\ call' = [w \in Workers |-> NoCall]
  /\ disturbed' = disturbed \cup UNION {Busy(w) : w \in Workers}
  /\ UNCHANGED <<store, today, calls, errors, granted, worked, bonus>>

Step(w) ==
  \/ \E m \in Members, t \in Trades : GetProfile(w, m, t)
  \/ \E m \in Members, a \in Awards : AwardXP(w, m, a)
  \/ GetStreak(w)
  \/ Compute(w)
  \/ SaveProfile(w)
  \/ SaveStreak(w)
  \/ AppendXPEvent(w)
  \/ StoreError(w)

Next == (\E w \in Workers : Step(w)) \/ NextDay \/ Crash

Spec == Init /\ [][Next]_vars

-----------------------------------------------------------------------------
(***************************************************************************)
(* Properties.                                                             *)
(***************************************************************************)

(* The type of the stored records and of the calls in progress.            *)
TypeOK ==
  /\ profile \in [Members -> Profile]
  /\ streak \in [Members -> Streak]
  /\ logged \in [Members -> Nat]
  /\ pc \in [Workers -> Steps]
  /\ call \in [Workers -> TradeCall \cup AwardCall \cup {NoCall}]
  /\ \A w \in Workers :
       /\ pc[w] = "idle" <=> call[w] = NoCall
       /\ pc[w] \in {"getStreak", "compute", "saveStreak"} => call[w] \in TradeCall
  /\ today \in Nat \ {0}
  /\ calls \in Nat /\ errors \in Nat /\ crashes \in Nat
  /\ granted \in [Members -> Nat]
  /\ worked \in [Members -> SUBSET Day]
  /\ bonus \in [Members -> Nat]
  /\ disturbed \subseteq Members

(* What a streak record claims, against the days on which trades were      *)
(* processed: one on each of the last "current" days up to the last log    *)
(* date, and a run of "longest" days at some time.                         *)
CurrentIsBacked(s, days) ==
  \A d \in (s.last - s.current + 1)..s.last : d \in days

LongestIsBacked(s, days) ==
  \E e \in days \cup {NoDate} : \A d \in (e - s.longest + 1)..e : d \in days

(***************************************************************************)
(* A stored streak never claims a day without a trade, whatever calls      *)
(* overlap, fail half way or are cut by a restart, and also when midnight  *)
(* passes between the read of the streak and the read of the clock         *)
(* (gamification.go 70-100): a lost update may shorten a streak, never     *)
(* invent one.                                                             *)
(***************************************************************************)
Backed(s, days) ==
  /\ CurrentIsBacked(s, days)
  /\ LongestIsBacked(s, days)
  /\ s.current <= s.longest

StreakHonest == \A m \in Members : Backed(streak[m], worked[m])

(***************************************************************************)
(* The stored XP is never more than the calls granted, although several    *)
(* calls write profiles they read earlier (gamification.go 137, 178).      *)
(***************************************************************************)
XPNeverOverstated == \A m \in Members : profile[m].xp <= granted[m]

(***************************************************************************)
(* The stored level is that of the stored XP, although it is a copy        *)
(* written by whichever call came last (gamification.go 138, 179).         *)
(***************************************************************************)
LevelMatchesXP == \A m \in Members : profile[m].level = LevelForXP(profile[m].xp)

(***************************************************************************)
(* The copies that calls hold, and will write back later, obey the same    *)
(* rules: with this the three invariants above are inductive.              *)
(***************************************************************************)
CopiesHonest ==
  \A w \in Workers : pc[w] # "idle" =>
    LET c == call[w] IN
    /\ c.prof.xp <= granted[c.member]
    /\ c.prof.level = LevelForXP(c.prof.xp)
    /\ c.kind = "trade" => Backed(c.strk, worked[c.member])

IInv == TypeOK /\ StreakHonest /\ XPNeverOverstated /\ LevelMatchesXP /\ CopiesHonest

(***************************************************************************)
(* Exactness where nothing interfered: for a member whose calls never      *)
(* overlapped, failed or were cut by a restart, and who is in no call now, *)
(* profile, log and grants agree.  Calls for other members do not matter.  *)
(***************************************************************************)
XPExactUnlessDisturbed ==
  \A m \in Members \ disturbed :
    (\A w \in Workers : m \notin Busy(w)) =>
      profile[m].xp = granted[m] /\ logged[m] = granted[m]

(* The days of the run that ends with day e.                               *)
RunTo(e, days) == {d \in days : d <= e /\ d..e \subseteq days}

RunEndingAt(e, days) == Cardinality(RunTo(e, days))

(* The streak record is what a reader of the calendar would count.         *)
StreakIsCounted(s, days) ==
  /\ s.last \in days
  /\ \A d \in days : d <= s.last
  /\ s.current = RunEndingAt(s.last, days)
  /\ s.longest \in {RunEndingAt(d, days) : d \in days}
  /\ \A d \in days : RunEndingAt(d, days) <= s.longest

(* The days on which a run became n days long, and the streak XP due.      *)
Reached(n, days) == {d \in days : RunEndingAt(d, days) = n}

StreakXPDue(days) ==
  XPDailyStreak * Cardinality(days)
    + XPStreak7 * Cardinality(Reached(7, days))
    + XPStreak30 * Cardinality(Reached(30, days))

(***************************************************************************)
(* For such a member the stored streak is what a reader of the calendar    *)
(* would count: the run of days that ends at the last one worked, and the  *)
(* longest run (gamification.go 86-99, one record per call).  Streak XP    *)
(* was paid once for each day with a trade, and each milestone once for    *)
(* each run that reached it (117-128), also when midnight passes in the    *)
(* middle of a call.                                                       *)
(***************************************************************************)
StreakExactUnlessDisturbed ==
  \A m \in Members \ disturbed :
    /\ (\A w \in Workers : m \notin Busy(w)) /\ worked[m] # {} =>
         StreakIsCounted(streak[m], worked[m])
    /\ bonus[m] = StreakXPDue(worked[m])

(***************************************************************************)
(* What is true of an undisturbed member at any moment.  The two           *)
(* invariants above speak only of members in no call; they are inductive   *)
(* together with what the one call in progress still has to write.         *)
(***************************************************************************)

(* Two calls for one member at a time: the member is disturbed.            *)
Alone == \A v, w \in Workers : v # w => Busy(v) \cap Busy(w) \subseteq disturbed

(* No trade is processed on a day to come.                                 *)
DaysPassed == \A m \in Members : worked[m] \subseteq 1..today

(* The streak that the days worked so far make.                            *)
Counted(s, days) == IF days = {} THEN s = DefaultStreak ELSE StreakIsCounted(s, days)

Settled(m) ==
  profile[m].xp = granted[m] /\ logged[m] = granted[m] /\ Counted(streak[m], worked[m])

(* How far the call of worker w for member m has come: it was alone, so    *)
(* what is not stored yet is in its own copies.                            *)
Pending(w, m) ==
  LET c == call[w] IN
  /\ c.prof.xp = granted[m]
  /\ profile[m].xp + (IF pc[w] = "saveProfile" THEN c.gain ELSE 0) = granted[m]
  /\ logged[m] + (IF pc[w] \in {"getStreak", "compute"} THEN 0 ELSE c.gain) = granted[m]
  /\ pc[w] = "compute" => Counted(c.strk, worked[m])
  /\ IF c.kind = "trade" /\ pc[w] \in {"saveProfile", "saveStreak"}
     THEN Counted(c.strk, worked[m])
     ELSE Counted(streak[m], worked[m])

ExactInv ==
  /\ Alone
  /\ DaysPassed
  /\ \A m \in Members \ disturbed :
       /\ bonus[m] = StreakXPDue(worked[m])
       /\ (\A w \in Workers : m \notin Busy(w)) => Settled(m)
       /\ \A w \in Workers : m \in Busy(w) => Pending(w, m)

-----------------------------------------------------------------------------
(***************************************************************************)
(* What a comment says, and the code does not do.                          *)
(***************************************************************************)

(***************************************************************************)
(* gamification.go 169: "AwardXP grants the given amount of XP to a        *)
(* member" - so once all calls have returned without an error the profile  *)
(* holds everything that was granted.                                      *)
(***************************************************************************)
AwardedXPIsKept ==
  errors = 0 /\ crashes = 0 /\ (\A w \in Workers : pc[w] = "idle") =>
    \A m \in Members : profile[m].xp = granted[m]
=============================================================================
