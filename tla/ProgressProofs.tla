--------------------------- MODULE ProgressProofs ---------------------------
(***************************************************************************)
(* What trades earn and what they count for: proofs about Gamification,    *)
(* for any number of members, goroutines, days, calls, failures and        *)
(* restarts, and about Periods, for any calendar, any number of trades and *)
(* any interleaving of what reads them.                                    *)
(***************************************************************************)
EXTENDS Gamification, Periods, FiniteSetTheorems, WellFoundedInduction, TLAPS

(* The level table covers every amount of XP (xp.go 42-54).                *)
LEMMA LevelType ==
  ASSUME NEW xp \in Nat
  PROVE  LevelForXP(xp) \in Levels
<1> DEFINE IsLevel(l) == /\ l = 1 \/ \A i \in 1..l : xp >= LevelTable[i]
                         /\ l = 10 \/ xp < LevelTable[l + 1]
<1>1. \E l \in Levels : IsLevel(l)
  <2>1. CASE xp < 50    BY <2>1 DEF LevelTable, Levels
  <2>2. CASE 50 <= xp /\ xp < 150    BY <2>2 DEF LevelTable, Levels
  <2>3. CASE 150 <= xp /\ xp < 350   BY <2>3 DEF LevelTable, Levels
  <2>4. CASE 350 <= xp /\ xp < 600   BY <2>4 DEF LevelTable, Levels
  <2>5. CASE 600 <= xp /\ xp < 1000  BY <2>5 DEF LevelTable, Levels
  <2>6. CASE 1000 <= xp /\ xp < 1500 BY <2>6 DEF LevelTable, Levels
  <2>7. CASE 1500 <= xp /\ xp < 2200 BY <2>7 DEF LevelTable, Levels
  <2>8. CASE 2200 <= xp /\ xp < 3000 BY <2>8 DEF LevelTable, Levels
  <2>9. CASE 3000 <= xp /\ xp < 4000 BY <2>9 DEF LevelTable, Levels
  <2>10. CASE 4000 <= xp             BY <2>10 DEF LevelTable, Levels
  <2> QED BY <2>1, <2>2, <2>3, <2>4, <2>5, <2>6, <2>7, <2>8, <2>9, <2>10
<1> QED BY <1>1 DEF LevelForXP

LEMMA AddXPType ==
  ASSUME NEW p \in Profile, NEW amount \in Nat
  PROVE  /\ AddXP(p, amount) \in Profile
         /\ AddXP(p, amount).xp = p.xp + amount
         /\ AddXP(p, amount).level = LevelForXP(AddXP(p, amount).xp)
<1>1. p.xp + amount \in Nat  BY DEF Profile
<1>2. LevelForXP(p.xp + amount) \in Levels  BY <1>1, LevelType
<1> QED BY <1>1, <1>2 DEF AddXP, Profile

LEMMA DefaultProfileType ==
  /\ DefaultProfile \in Profile
  /\ DefaultProfile.level = LevelForXP(DefaultProfile.xp)
<1>1. 0 >= LevelTable[1] /\ 0 < LevelTable[2]  BY DEF LevelTable
<1>2. LevelForXP(0) = 1
  <2>1. \A l \in Levels : l # 1 => ~ \A i \in 1..l : 0 >= LevelTable[i]
    BY DEF LevelTable, Levels
  <2>2. \E l \in Levels : /\ l = 1 \/ \A i \in 1..l : 0 >= LevelTable[i]
                          /\ l = 10 \/ 0 < LevelTable[l + 1]
    BY <1>1 DEF Levels
  <2> QED BY <2>1, <2>2 DEF LevelForXP
<1> QED BY <1>2 DEF DefaultProfile, Profile, Levels

LEMMA GainType ==
  /\ \A t \in Trade : TradeXP(t) \in Nat
  /\ \A s \in Streak, day \in Nat : StreakGain(s, day) \in Nat
<1>1. \A t \in Trade : TradeXP(t) \in Nat
  BY DEF Trade, TradeXP, XPTradeLogged, XPWinHighRR, XPWinBonus, XPScreenshot
<1>2. \A cur : StreakXP(cur) \in Nat
  BY DEF StreakXP, XPDailyStreak, XPStreak7, XPStreak30
<1> QED BY <1>1, <1>2 DEF StreakGain

LEMMA UpdatedStreakType ==
  ASSUME NEW s \in Streak, NEW day \in Nat
  PROVE  UpdatedStreak(s, day) \in Streak
BY DEF UpdatedStreak, Streak, Day, NoDate

(* Days are only ever added to the history, which backs what was backed.   *)
LEMMA BackedMonotone ==
  ASSUME NEW s, NEW days, NEW more, days \subseteq more, Backed(s, days)
  PROVE  Backed(s, more)
BY DEF Backed, CurrentIsBacked, LongestIsBacked

(***************************************************************************)
(* The heart of the matter: updating a backed streak with the day of the   *)
(* clock gives a streak that is backed once that day is in the history.    *)
(***************************************************************************)
LEMMA UpdatedStreakBacked ==
  ASSUME NEW s \in Streak, NEW days \in SUBSET Day, NEW day \in Nat \ {0},
         Backed(s, days)
  PROVE  Backed(UpdatedStreak(s, day), days \cup {day})
<1> DEFINE u == UpdatedStreak(s, day)
           more == days \cup {day}
<1>1. u \in Streak  BY UpdatedStreakType
<1>2. u.last = day  BY DEF UpdatedStreak
<1>3. CurrentIsBacked(u, more)
  <2>1. CASE s.last = day
    <3>1. u.current = s.current  BY <2>1 DEF UpdatedStreak
    <3> QED BY <1>2, <2>1, <3>1 DEF Backed, CurrentIsBacked
  <2>2. CASE s.last = day - 1
    <3>1. u.current = s.current + 1  BY <2>2 DEF UpdatedStreak, Streak
    <3>2. \A d \in (day - (s.current + 1) + 1)..day :
             d = day \/ d \in (s.last - s.current + 1)..s.last
      BY <2>2 DEF Streak
    <3> QED BY <1>2, <3>1, <3>2 DEF Backed, CurrentIsBacked
  <2>3. CASE s.last # day /\ s.last # day - 1
    <3>1. u.current = 1  BY <2>3 DEF UpdatedStreak
    <3> QED BY <1>2, <3>1 DEF CurrentIsBacked
  <2> QED BY <2>1, <2>2, <2>3
<1>4. u.longest = s.longest \/ (u.longest = u.current /\ s.longest < u.current)
  BY DEF UpdatedStreak
<1>5. LongestIsBacked(u, more)
  <2>1. CASE u.longest = s.longest
    BY <2>1 DEF Backed, LongestIsBacked
  <2>2. CASE u.longest = u.current
    <3>1. \A d \in (u.last - u.longest + 1)..u.last : d \in more
      BY <1>3, <2>2 DEF CurrentIsBacked
    <3> QED BY <1>2, <3>1 DEF LongestIsBacked
  <2> QED BY <1>4, <2>1, <2>2
<1>6. u.current <= u.longest
  BY DEF UpdatedStreak, Backed, Streak
<1> QED BY <1>3, <1>5, <1>6 DEF Backed

LEMMA DefaultStreakBacked ==
  /\ DefaultStreak \in Streak
  /\ \A days : Backed(DefaultStreak, days)
BY DEF DefaultStreak, Streak, Day, NoDate, Backed, CurrentIsBacked, LongestIsBacked

-----------------------------------------------------------------------------
LEMMA InitIInv == Init => IInv
<1> SUFFICES ASSUME Init PROVE IInv  OBVIOUS
<1> USE GamificationAssumption, DefaultProfileType, DefaultStreakBacked DEF Init
<1>1. TypeOK  BY DEF TypeOK, Steps, Day, NoCall
<1>2. StreakHonest  BY DEF StreakHonest
<1>3. XPNeverOverstated  BY DEF XPNeverOverstated, DefaultProfile
<1>4. LevelMatchesXP  BY DEF LevelMatchesXP
<1>5. CopiesHonest  BY DEF CopiesHonest
<1> QED BY <1>1, <1>2, <1>3, <1>4, <1>5 DEF IInv

(* What IInv says of a call in progress.                                   *)
LEMMA CallFacts ==
  ASSUME IInv, NEW w \in Workers, pc[w] # "idle"
  PROVE  /\ call[w] \in TradeCall \cup AwardCall
         /\ call[w].member \in Members
         /\ call[w].prof \in Profile
         /\ call[w].gain \in Nat
         /\ call[w].prof.xp <= granted[call[w].member]
         /\ call[w].prof.level = LevelForXP(call[w].prof.xp)
         /\ call[w] \in TradeCall <=> call[w].kind = "trade"
         /\ call[w] \in TradeCall =>
              /\ call[w].trade \in Trades
              /\ call[w].strk \in Streak
              /\ Backed(call[w].strk, worked[call[w].member])
<1>1. call[w] \in TradeCall \cup AwardCall  BY DEF IInv, TypeOK
<1> QED BY <1>1 DEF IInv, CopiesHonest, TradeCall, AwardCall

LEMMA GetProfileIInv ==
  ASSUME IInv, NEW w \in Workers, NEW m \in Members, NEW t \in Trades, GetProfile(w, m, t)
  PROVE  IInv'
<1> DEFINE c == [kind |-> "trade", member |-> m, trade |-> t,
                 prof |-> profile[m], strk |-> DefaultStreak, gain |-> 0]
<1> USE DEF GetProfile, Begins, Goto, store, IInv
<1>1. c \in TradeCall  BY DefaultStreakBacked DEF TradeCall, TypeOK
<1>2. TypeOK'
  BY <1>1 DEF TypeOK, Steps, NoCall, TradeCall
<1>3. StreakHonest' /\ XPNeverOverstated' /\ LevelMatchesXP'
  BY DEF StreakHonest, XPNeverOverstated, LevelMatchesXP
<1>4. CopiesHonest'
  <2> SUFFICES ASSUME NEW v \in Workers, pc'[v] # "idle"
               PROVE  /\ call'[v].prof.xp <= granted[call'[v].member]
                      /\ call'[v].prof.level = LevelForXP(call'[v].prof.xp)
                      /\ call'[v].kind = "trade" =>
                            Backed(call'[v].strk, worked[call'[v].member])
    BY DEF CopiesHonest
  <2>1. CASE v = w
    BY <2>1, DefaultStreakBacked DEF TypeOK, XPNeverOverstated, LevelMatchesXP
  <2>2. CASE v # w
    BY <2>2 DEF TypeOK, CopiesHonest
  <2> QED BY <2>1, <2>2
<1> QED BY <1>2, <1>3, <1>4

LEMMA AwardXPIInv ==
  ASSUME IInv, NEW w \in Workers, NEW m \in Members, NEW a \in Awards, AwardXP(w, m, a)
  PROVE  IInv'
<1> DEFINE c == [kind |-> "award", member |-> m,
                 prof |-> AddXP(profile[m], a), gain |-> a]
<1> USE DEF AwardXP, Begins, Goto, store, IInv
<1>0. a \in Nat /\ profile[m] \in Profile  BY GamificationAssumption DEF TypeOK
<1>1. c \in AwardCall  BY <1>0, AddXPType DEF AwardCall
<1>2. granted' \in [Members -> Nat] /\ \A n \in Members : granted[n] <= granted'[n]
  BY <1>0 DEF TypeOK
<1>3. TypeOK'
  BY <1>1, <1>2 DEF TypeOK, Steps, NoCall, AwardCall
<1>4. StreakHonest' /\ LevelMatchesXP'
  BY DEF StreakHonest, LevelMatchesXP
<1>5. XPNeverOverstated'
  BY <1>2 DEF XPNeverOverstated, TypeOK, Profile
<1>6. CopiesHonest'
  <2> SUFFICES ASSUME NEW v \in Workers, pc'[v] # "idle"
               PROVE  /\ call'[v].prof.xp <= granted'[call'[v].member]
                      /\ call'[v].prof.level = LevelForXP(call'[v].prof.xp)
                      /\ call'[v].kind = "trade" =>
                            Backed(call'[v].strk, worked[call'[v].member])
    BY DEF CopiesHonest
  <2>1. CASE v = w
    <3>1. call'[v] = c  BY <2>1 DEF TypeOK
    <3>2. c.prof.xp = profile[m].xp + a /\ granted'[m] = granted[m] + a
      BY <1>0, AddXPType DEF TypeOK
    <3> QED BY <3>1, <3>2, <1>0, AddXPType DEF XPNeverOverstated, TypeOK, Profile
  <2>2. CASE v # w
    <3>1. pc[v] # "idle" /\ call'[v] = call[v]  BY <2>2 DEF TypeOK
    <3> QED BY <3>1, <1>2, CallFacts DEF Profile, TypeOK
  <2> QED BY <2>1, <2>2
<1> QED BY <1>3, <1>4, <1>5, <1>6

LEMMA GetStreakIInv ==
  ASSUME IInv, NEW w \in Workers, GetStreak(w)
  PROVE  IInv'
<1> USE DEF GetStreak, Goto, store, history, IInv
<1>1. call[w] \in TradeCall /\ call[w].member \in Members
  BY CallFacts DEF TypeOK
<1>2. call'[w] = [call[w] EXCEPT !.strk = streak[call[w].member]]
  BY DEF TypeOK
<1>3. call'[w] \in TradeCall  BY <1>1, <1>2 DEF TypeOK, TradeCall
<1>4. TypeOK'  BY <1>3 DEF TypeOK, Steps, NoCall, TradeCall
<1>5. StreakHonest' /\ XPNeverOverstated' /\ LevelMatchesXP'
  BY DEF StreakHonest, XPNeverOverstated, LevelMatchesXP
<1>6. CopiesHonest'
  <2> SUFFICES ASSUME NEW v \in Workers, pc'[v] # "idle"
               PROVE  /\ call'[v].prof.xp <= granted[call'[v].member]
                      /\ call'[v].prof.level = LevelForXP(call'[v].prof.xp)
                      /\ call'[v].kind = "trade" =>
                            Backed(call'[v].strk, worked[call'[v].member])
    BY DEF CopiesHonest
  <2>1. CASE v = w
    BY <2>1, <1>1, <1>2, CallFacts DEF StreakHonest, TradeCall
  <2>2. CASE v # w
    BY <2>2 DEF TypeOK, CopiesHonest
  <2> QED BY <2>1, <2>2
<1> QED BY <1>4, <1>5, <1>6

LEMMA ComputeIInv ==
  ASSUME IInv, NEW w \in Workers, Compute(w)
  PROVE  IInv'
<1> DEFINE c == call[w]
           gain == TradeXP(c.trade) + StreakGain(c.strk, today)
           d == [c EXCEPT !.prof = AddXP(c.prof, gain),
                          !.strk = UpdatedStreak(c.strk, today),
                          !.gain = gain]
<1> USE DEF Compute, Goto, store, IInv
<1>0. today \in Nat \ {0}  BY DEF TypeOK
<1>1. c \in TradeCall  BY DEF TypeOK
<1>2. c.member \in Members /\ c.trade \in Trade /\ c.strk \in Streak /\ c.prof \in Profile
  BY <1>1, GamificationAssumption DEF TradeCall
<1>3. gain \in Nat /\ StreakGain(c.strk, today) \in Nat  BY <1>0, <1>2, GainType
<1>4. d \in TradeCall
  BY <1>0, <1>1, <1>2, <1>3, AddXPType, UpdatedStreakType DEF TradeCall
<1>5. call' = [call EXCEPT ![w] = d]  OBVIOUS
<1>6. /\ granted' = [granted EXCEPT ![c.member] = @ + gain]
      /\ worked' = [worked EXCEPT ![c.member] = @ \cup {today}]
  OBVIOUS
<1>7. /\ granted' \in [Members -> Nat]
      /\ worked' \in [Members -> SUBSET Day]
      /\ bonus' \in [Members -> Nat]
  BY <1>0, <1>2, <1>3 DEF TypeOK, Day
<1>8. \A m \in Members : granted[m] <= granted'[m] /\ worked[m] \subseteq worked'[m]
  BY <1>2, <1>3, <1>6 DEF TypeOK
<1> HIDE DEF d, gain, c
<1>9. TypeOK'
  <2>1. call' \in [Workers -> TradeCall \cup AwardCall \cup {NoCall}]
    BY <1>4, <1>5 DEF TypeOK
  <2>2. ASSUME NEW v \in Workers
        PROVE  /\ pc'[v] = "idle" <=> call'[v] = NoCall
               /\ pc'[v] \in {"getStreak", "compute", "saveStreak"} => call'[v] \in TradeCall
    <3>1. CASE v = w  BY <3>1, <1>4, <1>5 DEF TypeOK, TradeCall, NoCall
    <3>2. CASE v # w  BY <3>2, <1>5 DEF TypeOK
    <3> QED BY <3>1, <3>2
  <2> QED BY <1>7, <2>1, <2>2 DEF TypeOK, Steps
<1>10. StreakHonest'
  BY <1>8, BackedMonotone DEF StreakHonest
<1>11. XPNeverOverstated'
  BY <1>7, <1>8 DEF XPNeverOverstated, TypeOK, Profile
<1>12. LevelMatchesXP'  BY DEF LevelMatchesXP
<1>13. CopiesHonest'
  <2> SUFFICES ASSUME NEW v \in Workers, pc'[v] # "idle"
               PROVE  /\ call'[v].prof.xp <= granted'[call'[v].member]
                      /\ call'[v].prof.level = LevelForXP(call'[v].prof.xp)
                      /\ call'[v].kind = "trade" =>
                            Backed(call'[v].strk, worked'[call'[v].member])
    BY DEF CopiesHonest
  <2>1. CASE v = w
    <3>1. call'[v] = d  BY <2>1, <1>5 DEF TypeOK
    <3>2. d.member = c.member /\ d.prof = AddXP(c.prof, gain)
            /\ d.strk = UpdatedStreak(c.strk, today)
      BY <1>1 DEF d, TradeCall
    <3>3. c.prof.xp <= granted[c.member] /\ Backed(c.strk, worked[c.member])
      BY <1>1, CallFacts DEF c
    <3>4. granted'[c.member] = granted[c.member] + gain
            /\ worked'[c.member] = worked[c.member] \cup {today}
      BY <1>2, <1>6 DEF TypeOK
    <3>5. AddXP(c.prof, gain).xp = c.prof.xp + gain
            /\ AddXP(c.prof, gain).level = LevelForXP(AddXP(c.prof, gain).xp)
      BY <1>2, <1>3, AddXPType
    <3>6. Backed(UpdatedStreak(c.strk, today), worked[c.member] \cup {today})
      BY <1>0, <1>2, <3>3, UpdatedStreakBacked DEF TypeOK
    <3>7. AddXP(c.prof, gain).xp <= granted'[c.member]
      <4>1. c.prof.xp \in Nat /\ granted[c.member] \in Nat  BY <1>2 DEF Profile, TypeOK
      <4> QED BY <4>1, <3>3, <3>4, <3>5, <1>3
    <3> QED BY <3>1, <3>2, <3>4, <3>5, <3>6, <3>7
  <2>2. CASE v # w
    <3>1. pc[v] # "idle" /\ call'[v] = call[v]  BY <2>2, <1>5 DEF TypeOK
    <3> DEFINE m == call[v].member
    <3>2. m \in Members /\ call[v].prof.xp \in Nat
      BY <3>1, CallFacts DEF Profile
    <3>3. call[v].prof.xp <= granted'[m]
      <4>1. granted[m] \in Nat /\ granted'[m] \in Nat /\ granted[m] <= granted'[m]
        BY <3>2, <1>7, <1>8 DEF TypeOK
      <4>2. call[v].prof.xp <= granted[m]  BY <3>1, CallFacts
      <4> QED BY <3>2, <4>1, <4>2
    <3>4. call[v].kind = "trade" => Backed(call[v].strk, worked[m])
      BY <3>1, CallFacts
    <3>5. call[v].kind = "trade" => Backed(call[v].strk, worked'[m])
      BY <3>2, <3>4, <1>8, BackedMonotone
    <3>6. call[v].prof.level = LevelForXP(call[v].prof.xp)  BY <3>1, CallFacts
    <3> QED BY <3>1, <3>3, <3>5, <3>6
  <2> QED BY <2>1, <2>2
<1> QED BY <1>9, <1>10, <1>11, <1>12, <1>13

LEMMA SaveProfileIInv ==
  ASSUME IInv, NEW w \in Workers, SaveProfile(w)
  PROVE  IInv'
<1> USE DEF SaveProfile, Goto, history, IInv
<1>1. call[w] \in TradeCall \cup AwardCall /\ call[w].member \in Members
        /\ call[w].prof \in Profile
  BY CallFacts DEF TypeOK
<1>2. call[w].kind = "trade" => call[w] \in TradeCall  BY CallFacts DEF TypeOK
<1>3. TypeOK'  BY <1>1, <1>2 DEF TypeOK, Steps
<1>4. StreakHonest'  BY DEF StreakHonest
<1>5. XPNeverOverstated'
  BY <1>1, CallFacts DEF XPNeverOverstated, TypeOK
<1>6. LevelMatchesXP'
  BY <1>1, CallFacts DEF LevelMatchesXP, TypeOK
<1>7. CopiesHonest'  BY DEF CopiesHonest, TypeOK
<1> QED BY <1>3, <1>4, <1>5, <1>6, <1>7

LEMMA SaveStreakIInv ==
  ASSUME IInv, NEW w \in Workers, SaveStreak(w)
  PROVE  IInv'
<1> USE DEF SaveStreak, Goto, history, IInv
<1>1. call[w] \in TradeCall  BY DEF TypeOK
<1>2. call[w].member \in Members /\ call[w].strk \in Streak
        /\ Backed(call[w].strk, worked[call[w].member])
  BY <1>1, CallFacts DEF TypeOK
<1>3. TypeOK'  BY <1>2 DEF TypeOK, Steps
<1>4. StreakHonest'  BY <1>2 DEF StreakHonest, TypeOK
<1>5. XPNeverOverstated' /\ LevelMatchesXP'  BY DEF XPNeverOverstated, LevelMatchesXP
<1>6. CopiesHonest'  BY DEF CopiesHonest, TypeOK
<1> QED BY <1>3, <1>4, <1>5, <1>6

(* Returning calls leave nothing behind that could break the invariant.    *)
LEMMA ReturnsIInv ==
  ASSUME IInv,
         UNCHANGED <<profile, streak, today, calls, granted, worked, bonus>>,
         logged' \in [Members -> Nat], errors' \in Nat, crashes' \in Nat,
         disturbed' \subseteq Members,
         pc' \in [Workers -> Steps],
         call' \in [Workers -> TradeCall \cup AwardCall \cup {NoCall}],
         \A w \in Workers : \/ pc'[w] = "idle" /\ call'[w] = NoCall
                            \/ pc'[w] = pc[w] /\ call'[w] = call[w]
  PROVE  IInv'
<1> USE DEF IInv
<1>1. TypeOK'  BY DEF TypeOK
<1>2. StreakHonest' /\ XPNeverOverstated' /\ LevelMatchesXP'
  BY DEF StreakHonest, XPNeverOverstated, LevelMatchesXP
<1>3. CopiesHonest'  BY DEF CopiesHonest
<1> QED BY <1>1, <1>2, <1>3

LEMMA AppendXPEventIInv ==
  ASSUME IInv, NEW w \in Workers, AppendXPEvent(w)
  PROVE  IInv'
<1> USE DEF AppendXPEvent, Goto, Return, history
<1>1. call[w].gain \in Nat /\ call[w].member \in Members  BY CallFacts DEF IInv, TypeOK
<1>2. logged' \in [Members -> Nat]  BY <1>1 DEF IInv, TypeOK
<1>3. errors' \in Nat /\ crashes' \in Nat /\ disturbed' \subseteq Members
        /\ pc' \in [Workers -> Steps]
        /\ call' \in [Workers -> TradeCall \cup AwardCall \cup {NoCall}]
  BY DEF IInv, TypeOK, Steps
<1>4. \A v \in Workers : \/ pc'[v] = "idle" /\ call'[v] = NoCall
                         \/ pc'[v] = pc[v] /\ call'[v] = call[v]
  BY DEF IInv, TypeOK
<1> QED BY <1>2, <1>3, <1>4, ReturnsIInv

LEMMA BusyType ==
  ASSUME IInv, NEW w \in Workers
  PROVE  Busy(w) \subseteq Members
BY CallFacts DEF Busy

LEMMA StoreErrorIInv ==
  ASSUME IInv, NEW w \in Workers, StoreError(w)
  PROVE  IInv'
<1> USE DEF StoreError, Return, store
<1>1. logged' \in [Members -> Nat] /\ errors' \in Nat /\ crashes' \in Nat
        /\ disturbed' \subseteq Members
        /\ pc' \in [Workers -> Steps]
        /\ call' \in [Workers -> TradeCall \cup AwardCall \cup {NoCall}]
  BY BusyType DEF IInv, TypeOK, Steps
<1>2. \A v \in Workers : \/ pc'[v] = "idle" /\ call'[v] = NoCall
                         \/ pc'[v] = pc[v] /\ call'[v] = call[v]
  BY DEF IInv, TypeOK
<1> QED BY <1>1, <1>2, ReturnsIInv

LEMMA CrashIInv ==
  ASSUME IInv, Crash
  PROVE  IInv'
<1> USE DEF Crash, store
<1>1. logged' \in [Members -> Nat] /\ errors' \in Nat /\ crashes' \in Nat
        /\ disturbed' \subseteq Members
        /\ pc' \in [Workers -> Steps]
        /\ call' \in [Workers -> TradeCall \cup AwardCall \cup {NoCall}]
  BY BusyType DEF IInv, TypeOK, Steps
<1>2. \A v \in Workers : pc'[v] = "idle" /\ call'[v] = NoCall
  OBVIOUS
<1> QED BY <1>1, <1>2, ReturnsIInv

LEMMA NextDayIInv ==
  ASSUME IInv, NextDay
  PROVE  IInv'
BY DEF NextDay, store, history, IInv, TypeOK, StreakHonest, XPNeverOverstated,
       LevelMatchesXP, CopiesHonest

LEMMA NextIInv == IInv /\ [Next]_vars => IInv'
<1> SUFFICES ASSUME IInv, [Next]_vars PROVE IInv'  OBVIOUS
<1>1. ASSUME NEW w \in Workers, Step(w) PROVE IInv'
  BY <1>1, GetProfileIInv, AwardXPIInv, GetStreakIInv, ComputeIInv, SaveProfileIInv,
     SaveStreakIInv, AppendXPEventIInv, StoreErrorIInv DEF Step
<1>2. CASE NextDay  BY <1>2, NextDayIInv
<1>3. CASE Crash  BY <1>3, CrashIInv
<1>4. CASE UNCHANGED vars
  BY <1>4 DEF vars, store, history, IInv, TypeOK, StreakHonest, XPNeverOverstated,
              LevelMatchesXP, CopiesHonest
<1> QED BY <1>1, <1>2, <1>3, <1>4 DEF Next

-----------------------------------------------------------------------------
(* The inductive invariant holds in every reachable state.                 *)
THEOREM Invariance == Spec => []IInv
BY InitIInv, NextIInv, PTL DEF Spec

(* Records and calls keep their types (gamification.go, badger store).     *)
THEOREM TypeCorrect == Spec => []TypeOK
<1>1. IInv => TypeOK  BY DEF IInv
<1> QED BY <1>1, Invariance, PTL

(***************************************************************************)
(* For any number of overlapping calls, failed transactions and restarts,  *)
(* a stored streak is backed by a trade on every day it counts.            *)
(***************************************************************************)
THEOREM StreaksAreHonest == Spec => []StreakHonest
<1>1. IInv => StreakHonest  BY DEF IInv
<1> QED BY <1>1, Invariance, PTL

(* Whatever overlaps, no member is ever given XP that was not granted.     *)
THEOREM XPIsNeverOverstated == Spec => []XPNeverOverstated
<1>1. IInv => XPNeverOverstated  BY DEF IInv
<1> QED BY <1>1, Invariance, PTL

(* The stored level is always the level of the stored XP.                  *)
THEOREM LevelsMatchXP == Spec => []LevelMatchesXP
<1>1. IInv => LevelMatchesXP  BY DEF IInv
<1> QED BY <1>1, Invariance, PTL

-----------------------------------------------------------------------------
(***************************************************************************)
(* Counting days.  The lemmas say what happens to the runs when a day is   *)
(* worked that is later than all others.                                   *)
(***************************************************************************)
LEMMA RunType ==
  ASSUME NEW days, IsFiniteSet(days), NEW e
  PROVE  IsFiniteSet(RunTo(e, days)) /\ RunEndingAt(e, days) \in Nat
BY FS_Subset, FS_CardinalityType DEF RunTo, RunEndingAt

LEMMA EarlierRunsStay ==
  ASSUME NEW days \in SUBSET Nat, NEW day \in Nat, NEW e \in Nat, e < day
  PROVE  RunEndingAt(e, days \cup {day}) = RunEndingAt(e, days)
<1>1. \A d \in Nat : d..e \subseteq days \cup {day} <=> d..e \subseteq days
  OBVIOUS
<1>2. RunTo(e, days \cup {day}) = RunTo(e, days)
  BY <1>1 DEF RunTo
<1> QED BY <1>2 DEF RunEndingAt

(* The run of the new day is that of the day before, and one day longer.   *)
LEMMA NewRun ==
  ASSUME NEW days \in SUBSET Nat, IsFiniteSet(days), NEW day \in Nat \ {0},
         \A d \in days : d < day
  PROVE  RunEndingAt(day, days \cup {day}) =
           IF day - 1 \in days THEN RunEndingAt(day - 1, days) + 1 ELSE 1
<1> DEFINE more == days \cup {day}
<1>1. CASE day - 1 \in days
  <2>1. \A d \in days : d..day \subseteq more <=> d..(day - 1) \subseteq days
    <3> SUFFICES ASSUME NEW d \in days
                 PROVE  d..day \subseteq more <=> d..(day - 1) \subseteq days
      OBVIOUS
    <3>1. d..day = d..(day - 1) \cup {day}  OBVIOUS
    <3>2. day \notin d..(day - 1)  OBVIOUS
    <3> QED BY <3>1, <3>2
  <2>2. \A d \in days : d <= day /\ d <= day - 1  OBVIOUS
  <2>3. day..day \subseteq more  OBVIOUS
  <2>4. RunTo(day, more) = RunTo(day - 1, days) \cup {day}
    <3>1. ASSUME NEW d \in days
          PROVE  d \in RunTo(day, more) <=> d \in RunTo(day - 1, days)
      BY <2>1, <2>2 DEF RunTo
    <3>2. day \in RunTo(day, more)  BY <2>3 DEF RunTo
    <3>3. RunTo(day, more) \subseteq more /\ RunTo(day - 1, days) \subseteq days
      BY DEF RunTo
    <3> QED BY <3>1, <3>2, <3>3
  <2>5. day \notin RunTo(day - 1, days)  BY DEF RunTo
  <2>6. IsFiniteSet(RunTo(day - 1, days))  BY RunType
  <2> QED BY <1>1, <2>4, <2>5, <2>6, FS_AddElement DEF RunEndingAt
<1>2. CASE day - 1 \notin days
  <2>1. \A d \in days : day - 1 \in d..day /\ day - 1 \notin more  BY <1>2
  <2>2. \A d \in days : ~ (d..day \subseteq more)  BY <2>1
  <2>3. day..day \subseteq more /\ day <= day  OBVIOUS
  <2>4. RunTo(day, more) = {day}  BY <2>2, <2>3 DEF RunTo
  <2> QED BY <1>2, <2>4, FS_Singleton DEF RunEndingAt
<1> QED BY <1>1, <1>2

LEMMA ReachedGrows ==
  ASSUME NEW days \in SUBSET Nat, IsFiniteSet(days), NEW day \in Nat \ {0},
         \A d \in days : d < day, NEW n
  PROVE  /\ Cardinality(Reached(n, days)) \in Nat
         /\ Cardinality(Reached(n, days \cup {day})) =
              Cardinality(Reached(n, days))
                + (IF RunEndingAt(day, days \cup {day}) = n THEN 1 ELSE 0)
<1> DEFINE more == days \cup {day}
<1>1. IsFiniteSet(Reached(n, days))  BY FS_Subset DEF Reached
<1>2. \A d \in days : RunEndingAt(d, more) = RunEndingAt(d, days)
  BY EarlierRunsStay
<1>3. Reached(n, more) = Reached(n, days)
        \cup (IF RunEndingAt(day, more) = n THEN {day} ELSE {})
  BY <1>2 DEF Reached
<1>4. day \notin Reached(n, days)  BY DEF Reached
<1>5. Cardinality(Reached(n, days)) \in Nat  BY <1>1, FS_CardinalityType
<1>6. CASE RunEndingAt(day, more) = n
  <2>1. Reached(n, more) = Reached(n, days) \cup {day}  BY <1>3, <1>6
  <2>2. Cardinality(Reached(n, more)) = Cardinality(Reached(n, days)) + 1
    BY <1>1, <1>4, <2>1, FS_AddElement
  <2> QED BY <2>2, <1>5, <1>6
<1>7. CASE RunEndingAt(day, more) # n
  <2>1. Reached(n, more) = Reached(n, days)  BY <1>3, <1>7
  <2> QED BY <2>1, <1>5, <1>7
<1> QED BY <1>5, <1>6, <1>7

(***************************************************************************)
(* A streak that counts the days worked, updated with today, counts them   *)
(* and today, and the streak XP of the update is what the new day is due.  *)
(***************************************************************************)
LEMMA CountedUpdated ==
  ASSUME NEW s \in Streak, NEW day \in Nat \ {0}, NEW days \in SUBSET (1..day),
         Counted(s, days)
  PROVE  /\ Counted(UpdatedStreak(s, day), days \cup {day})
         /\ StreakXPDue(days) \in Nat
         /\ StreakXPDue(days \cup {day}) = StreakXPDue(days) + StreakGain(s, day)
<1> DEFINE more == days \cup {day}
           u == UpdatedStreak(s, day)
<1>1. days \in SUBSET Nat /\ IsFiniteSet(days) /\ IsFiniteSet(more)
  <2>1. IsFiniteSet(1..day)  BY FS_Interval
  <2>2. IsFiniteSet(days) /\ IsFiniteSet(more)  BY <2>1, FS_Subset, FS_AddElement
  <2>3. \A d \in 1..day : d \in Nat  OBVIOUS
  <2> QED BY <2>2, <2>3
<1>2. Cardinality(days) \in Nat /\ Cardinality(Reached(7, days)) \in Nat
        /\ Cardinality(Reached(30, days)) \in Nat
  <2>1. IsFiniteSet(Reached(7, days)) /\ IsFiniteSet(Reached(30, days))
    BY <1>1, FS_Subset DEF Reached
  <2> QED BY <1>1, <2>1, FS_CardinalityType
<1>3. StreakXPDue(days) \in Nat
  BY <1>2 DEF StreakXPDue, XPDailyStreak, XPStreak7, XPStreak30
<1>4. CASE s.last = day
  <2>1. days # {}  BY <1>4 DEF Counted, DefaultStreak, NoDate
  <2>2. StreakIsCounted(s, days)  BY <2>1 DEF Counted
  <2>3. day \in days /\ more = days  BY <1>4, <2>2 DEF StreakIsCounted
  <2>4. s.current <= s.longest  BY <2>2 DEF StreakIsCounted
  <2>5. u.current = s.current /\ u.longest = s.longest /\ u.last = s.last
    BY <1>4, <2>4 DEF UpdatedStreak, Streak
  <2>6. StreakIsCounted(u, more)  BY <2>2, <2>3, <2>5 DEF StreakIsCounted
  <2>7. StreakGain(s, day) = 0  BY <1>4 DEF StreakGain, StreakIncremented
  <2>8. Counted(u, more)  BY <2>1, <2>3, <2>6 DEF Counted
  <2>9. StreakXPDue(more) = StreakXPDue(days) + StreakGain(s, day)
    BY <1>3, <2>3, <2>7
  <2> QED BY <1>3, <2>8, <2>9
<1>5. CASE s.last # day
  <2>0. \A d \in days : s.last \in days /\ d <= s.last
    BY DEF Counted, StreakIsCounted
  <2>1. \A d \in days : d < day
    <3> SUFFICES ASSUME NEW d \in days PROVE d < day  OBVIOUS
    <3>1. s.last \in 1..day /\ d \in 1..day /\ d <= s.last  BY <2>0
    <3> QED BY <3>1, <1>5
  <2>2. u.current = RunEndingAt(day, more)
    <3>1. CASE s.last = day - 1
      <4>1. days # {} /\ StreakIsCounted(s, days)
        BY <3>1 DEF Counted, DefaultStreak, NoDate
      <4>2. day - 1 \in days /\ s.current = RunEndingAt(day - 1, days)
        BY <3>1, <4>1 DEF StreakIsCounted
      <4>3. u.current = s.current + 1  BY <3>1, <1>5 DEF UpdatedStreak
      <4> QED BY <1>1, <2>1, <4>2, <4>3, NewRun
    <3>2. CASE s.last # day - 1
      <4>1. day - 1 \notin days
        <5>1. ASSUME day - 1 \in days PROVE FALSE
          <6>1. s.last \in 1..day /\ day - 1 <= s.last  BY <2>0, <5>1
          <6> QED BY <6>1, <1>5, <3>2
        <5> QED BY <5>1
      <4>2. u.current = 1  BY <3>2, <1>5 DEF UpdatedStreak
      <4> QED BY <1>1, <2>1, <4>1, <4>2, NewRun
    <3> QED BY <3>1, <3>2
  <2>3. \A d \in days : RunEndingAt(d, more) = RunEndingAt(d, days)
    BY <1>1, <2>1, EarlierRunsStay
  <2>4. RunEndingAt(day, more) \in Nat /\ \A d \in days : RunEndingAt(d, days) \in Nat
    BY <1>1, RunType
  <2>5. u.last = day /\ u.longest = IF u.current > s.longest THEN u.current ELSE s.longest
    BY DEF UpdatedStreak
  <2>6. StreakIsCounted(u, more)
    <3>1. u.longest \in {RunEndingAt(d, more) : d \in more}
            /\ \A d \in more : RunEndingAt(d, more) <= u.longest
      <4>1. CASE days = {}
        <5>1. s.longest = 0  BY <4>1 DEF Counted, DefaultStreak
        <5>2. u.current = 1  BY <1>1, <2>1, <2>2, <4>1, NewRun
        <5> QED BY <2>2, <2>5, <4>1, <5>1, <5>2
      <4>2. CASE days # {}
        <5>1. s.longest \in {RunEndingAt(d, days) : d \in days}
                /\ \A d \in days : RunEndingAt(d, days) <= s.longest
          BY <4>2 DEF Counted, StreakIsCounted
        <5>2. s.longest \in Nat  BY DEF Streak
        <5>3. CASE u.current > s.longest
          BY <5>1, <5>2, <5>3, <2>2, <2>3, <2>4, <2>5
        <5>4. CASE ~ (u.current > s.longest)
          BY <5>1, <5>2, <5>4, <2>2, <2>3, <2>4, <2>5
        <5> QED BY <5>3, <5>4
      <4> QED BY <4>1, <4>2
    <3>2. day \in more /\ \A d \in more : d <= day  BY <1>1, <2>1
    <3> QED BY <2>2, <2>5, <3>1, <3>2 DEF StreakIsCounted
  <2>7. Cardinality(more) = Cardinality(days) + 1
    BY <1>1, <2>1, FS_AddElement
  <2>8. /\ Cardinality(Reached(7, more)) = Cardinality(Reached(7, days))
             + (IF u.current = 7 THEN 1 ELSE 0)
        /\ Cardinality(Reached(30, more)) = Cardinality(Reached(30, days))
             + (IF u.current = 30 THEN 1 ELSE 0)
    BY <1>1, <2>1, <2>2, ReachedGrows
  <2>9. StreakGain(s, day) = StreakXP(u.current)
    BY <1>5 DEF StreakGain, StreakIncremented
  <2>10. StreakXPDue(more) = StreakXPDue(days) + StreakGain(s, day)
    BY <1>2, <2>7, <2>8, <2>9
    DEF StreakXPDue, StreakXP, XPDailyStreak, XPStreak7, XPStreak30
  <2> QED BY <1>3, <2>6, <2>10 DEF Counted
<1> QED BY <1>4, <1>5

-----------------------------------------------------------------------------
(***************************************************************************)
(* Exactness for undisturbed members.                                      *)
(***************************************************************************)
LEMMA InitExact == Init => ExactInv
<1> SUFFICES ASSUME Init PROVE ExactInv  OBVIOUS
<1>1. \A w \in Workers : Busy(w) = {}  BY DEF Init, Busy
<1>2. Alone  BY <1>1 DEF Alone
<1>3. DaysPassed  BY DEF Init, DaysPassed
<1>4. StreakXPDue({}) = 0
  <2>1. \A n : Reached(n, {}) = {}  BY DEF Reached
  <2> QED BY <2>1, FS_EmptySet DEF StreakXPDue, XPDailyStreak, XPStreak7, XPStreak30
<1>5. \A m \in Members : Settled(m) /\ bonus[m] = StreakXPDue(worked[m])
  BY <1>4 DEF Init, Settled, DefaultProfile, Counted
<1> QED BY <1>1, <1>2, <1>3, <1>5 DEF ExactInv

(***************************************************************************)
(* A step of worker w that concerns member m leaves the others' accounts   *)
(* alone; what it owes is m's own account, if m is still undisturbed.      *)
(***************************************************************************)
LEMMA StepExact ==
  ASSUME ExactInv, NEW w \in Workers, NEW m \in Members,
         disturbed \subseteq disturbed',
         \A v \in Workers : v # w => pc'[v] = pc[v] /\ call'[v] = call[v],
         \A n \in Members : n # m =>
           /\ profile'[n] = profile[n] /\ streak'[n] = streak[n] /\ logged'[n] = logged[n]
           /\ granted'[n] = granted[n] /\ worked'[n] = worked[n] /\ bonus'[n] = bonus[n],
         Busy(w) \subseteq {m}, Busy(w)' \subseteq {m},
         DaysPassed',
         m \notin disturbed' =>
           /\ \A v \in Workers : v # w => m \notin Busy(v)
           /\ bonus'[m] = StreakXPDue(worked'[m])
           /\ IF m \in Busy(w)' THEN Pending(w, m)' ELSE Settled(m)'
  PROVE  ExactInv'
<1>1. \A v \in Workers : v # w => Busy(v)' = Busy(v)  BY DEF Busy
<1>2. Alone'
  <2> SUFFICES ASSUME NEW u \in Workers, NEW v \in Workers, u # v
               PROVE  Busy(u)' \cap Busy(v)' \subseteq disturbed'
    BY DEF Alone
  <2>1. CASE u # w /\ v # w  BY <1>1, <2>1 DEF ExactInv, Alone
  <2>2. CASE u = w  BY <1>1, <2>2
  <2>3. CASE v = w  BY <1>1, <2>3
  <2> QED BY <2>1, <2>2, <2>3
<1>3. ASSUME NEW n \in Members, n \notin disturbed'
      PROVE  /\ bonus'[n] = StreakXPDue(worked'[n])
             /\ (\A v \in Workers : n \notin Busy(v)') => Settled(n)'
             /\ \A v \in Workers : n \in Busy(v)' => Pending(v, n)'
  <2>1. CASE n = m  BY <1>1, <1>3, <2>1
  <2>2. CASE n # m
    <3>1. n \in Members \ disturbed  BY <1>3
    <3>2. bonus'[n] = StreakXPDue(worked'[n])  BY <2>2, <3>1 DEF ExactInv
    <3>3. ASSUME \A v \in Workers : n \notin Busy(v)' PROVE Settled(n)'
      <4>1. \A v \in Workers : n \notin Busy(v)  BY <1>1, <2>2, <3>3
      <4>2. Settled(n)  BY <3>1, <4>1 DEF ExactInv
      <4> QED BY <2>2, <4>2 DEF Settled
    <3>4. ASSUME NEW v \in Workers, n \in Busy(v)' PROVE Pending(v, n)'
      <4>1. v # w  BY <2>2, <3>4
      <4>2. Pending(v, n)  BY <1>1, <3>1, <3>4, <4>1 DEF ExactInv
      <4> QED BY <2>2, <4>1, <4>2 DEF Pending
    <3> QED BY <3>2, <3>3, <3>4
  <2> QED BY <2>1, <2>2
<1> QED BY <1>2, <1>3 DEF ExactInv

(* A call begins with the account of its member settled, or disturbs it.   *)
LEMMA BeginsAlone ==
  ASSUME ExactInv, NEW w \in Workers, NEW m \in Members, pc[w] = "idle", Begins(w, m)
  PROVE  /\ disturbed \subseteq disturbed'
         /\ m \notin disturbed' =>
              /\ m \notin disturbed
              /\ \A v \in Workers : m \notin Busy(v)
              /\ Settled(m)
              /\ bonus[m] = StreakXPDue(worked[m])
BY DEF Begins, ExactInv

LEMMA GetProfileExact ==
  ASSUME IInv, IInv', ExactInv, NEW w \in Workers, NEW m \in Members, NEW t \in Trades,
         GetProfile(w, m, t)
  PROVE  ExactInv'
<1> USE DEF GetProfile, Goto
<1>1. Begins(w, m) /\ pc[w] = "idle"  OBVIOUS
<1>2. UNCHANGED <<profile, streak, logged, today, granted, worked, bonus>>
  BY DEF Begins, store
<1>3. pc'[w] = "getStreak"
        /\ call'[w] = [kind |-> "trade", member |-> m, trade |-> t,
                       prof |-> profile[m], strk |-> DefaultStreak, gain |-> 0]
        /\ \A v \in Workers : v # w => pc'[v] = pc[v] /\ call'[v] = call[v]
  BY DEF IInv, TypeOK
<1>4. Busy(w) = {} /\ Busy(w)' = {m}  BY <1>1, <1>3 DEF Busy
<1>5. DaysPassed'  BY <1>2 DEF ExactInv, DaysPassed
<1>6. m \notin disturbed' => Pending(w, m)'
  <2>1. profile[m].xp \in Nat /\ logged[m] \in Nat  BY DEF IInv, TypeOK, Profile
  <2> QED BY <1>1, <1>2, <1>3, <2>1, BeginsAlone DEF Pending, Settled
<1> QED BY <1>1, <1>2, <1>3, <1>4, <1>5, <1>6, BeginsAlone, StepExact

LEMMA AwardXPExact ==
  ASSUME IInv, IInv', ExactInv, NEW w \in Workers, NEW m \in Members, NEW a \in Awards,
         AwardXP(w, m, a)
  PROVE  ExactInv'
<1> USE DEF AwardXP, Goto
<1>1. Begins(w, m) /\ pc[w] = "idle"  OBVIOUS
<1>2. UNCHANGED <<profile, streak, logged, today, worked, bonus>>
  BY DEF Begins, store
<1>3. pc'[w] = "saveProfile"
        /\ call'[w] = [kind |-> "award", member |-> m,
                       prof |-> AddXP(profile[m], a), gain |-> a]
        /\ \A v \in Workers : v # w => pc'[v] = pc[v] /\ call'[v] = call[v]
  BY DEF IInv, TypeOK
<1>4. Busy(w) = {} /\ Busy(w)' = {m}  BY <1>1, <1>3 DEF Busy
<1>5. DaysPassed'  BY <1>2 DEF ExactInv, DaysPassed
<1>6. granted'[m] = granted[m] + a /\ \A n \in Members : n # m => granted'[n] = granted[n]
  BY DEF IInv, TypeOK
<1>7. m \notin disturbed' => Pending(w, m)'
  <2>1. a \in Nat /\ profile[m] \in Profile /\ profile[m].xp \in Nat /\ logged[m] \in Nat
    BY GamificationAssumption DEF IInv, TypeOK, Profile
  <2>2. AddXP(profile[m], a).xp = profile[m].xp + a  BY <2>1, AddXPType
  <2> QED BY <1>1, <1>2, <1>3, <1>6, <2>1, <2>2, BeginsAlone DEF Pending, Settled
<1> QED BY <1>1, <1>2, <1>3, <1>4, <1>5, <1>6, <1>7, BeginsAlone, StepExact

(* What the invariant says of the call a worker goes on with.              *)
LEMMA GoesOn ==
  ASSUME IInv, ExactInv, NEW w \in Workers, pc[w] # "idle"
  PROVE  LET m == call[w].member IN
         /\ m \in Members /\ Busy(w) = {m}
         /\ m \notin disturbed =>
              /\ \A v \in Workers : v # w => m \notin Busy(v)
              /\ Pending(w, m)
              /\ bonus[m] = StreakXPDue(worked[m])
<1> DEFINE m == call[w].member
<1>1. m \in Members /\ Busy(w) = {m}  BY CallFacts DEF Busy
<1>2. ASSUME m \notin disturbed, NEW v \in Workers, v # w PROVE m \notin Busy(v)
  BY <1>1, <1>2 DEF ExactInv, Alone
<1> QED BY <1>1, <1>2 DEF ExactInv

LEMMA GetStreakExact ==
  ASSUME IInv, IInv', ExactInv, NEW w \in Workers, GetStreak(w)
  PROVE  ExactInv'
<1> SUFFICES ASSUME NEW m \in Members, m = call[w].member PROVE ExactInv'
  BY CallFacts DEF GetStreak, Goto
<1> USE DEF GetStreak, Goto, store, history
<1>1. pc[w] = "getStreak" /\ pc[w] # "idle" /\ call[w] \in TradeCall
  BY DEF IInv, TypeOK
<1>2. pc'[w] = "compute" /\ call'[w] = [call[w] EXCEPT !.strk = streak[m]]
        /\ \A v \in Workers : v # w => pc'[v] = pc[v] /\ call'[v] = call[v]
  BY DEF IInv, TypeOK
<1>3. call'[w].member = m /\ call'[w].prof = call[w].prof /\ call'[w].strk = streak[m]
        /\ call'[w].kind = "trade" /\ call'[w].gain = call[w].gain
  BY <1>1, <1>2 DEF TradeCall
<1>4. m \in Members /\ Busy(w) = {m} /\ Busy(w)' = {m}
  BY <1>1, <1>2, <1>3, GoesOn DEF Busy
<1>5. DaysPassed'  BY DEF ExactInv, DaysPassed
<1>6. m \notin disturbed' => Pending(w, m)'
  BY <1>1, <1>2, <1>3, GoesOn DEF Pending
<1> QED BY <1>1, <1>2, <1>4, <1>5, <1>6, GoesOn, StepExact

LEMMA ComputeExact ==
  ASSUME IInv, IInv', ExactInv, NEW w \in Workers, Compute(w)
  PROVE  ExactInv'
<1> SUFFICES ASSUME NEW m \in Members, m = call[w].member PROVE ExactInv'
  BY CallFacts DEF Compute, Goto
<1> DEFINE c == call[w]
           gain == TradeXP(c.trade) + StreakGain(c.strk, today)
<1>0. /\ Goto(w, "compute", "saveProfile")
      /\ call' = [call EXCEPT ![w] = [c EXCEPT !.prof = AddXP(c.prof, gain),
                                              !.strk = UpdatedStreak(c.strk, today),
                                              !.gain = gain]]
      /\ granted' = [granted EXCEPT ![m] = @ + gain]
      /\ worked' = [worked EXCEPT ![m] = @ \cup {today}]
      /\ bonus' = [bonus EXCEPT ![m] = @ + StreakGain(c.strk, today)]
      /\ UNCHANGED <<profile, streak, logged, today, disturbed>>
  BY DEF Compute, store
<1>1. pc[w] = "compute" /\ pc[w] # "idle" /\ c \in TradeCall
  BY <1>0 DEF Goto, IInv, TypeOK
<1>2. /\ today \in Nat \ {0} /\ m \in Members /\ c.trade \in Trade
      /\ c.strk \in Streak /\ c.prof \in Profile
  BY <1>1, GamificationAssumption DEF TradeCall, IInv, TypeOK
<1>3. gain \in Nat /\ StreakGain(c.strk, today) \in Nat  BY <1>2, GainType
<1>4. /\ pc'[w] = "saveProfile"
      /\ call'[w] = [c EXCEPT !.prof = AddXP(c.prof, gain),
                              !.strk = UpdatedStreak(c.strk, today),
                              !.gain = gain]
      /\ \A v \in Workers : v # w => pc'[v] = pc[v] /\ call'[v] = call[v]
  BY <1>0 DEF Goto, IInv, TypeOK
<1>5. /\ call'[w].member = m /\ call'[w].kind = "trade" /\ call'[w].gain = gain
      /\ call'[w].prof.xp = c.prof.xp + gain
      /\ call'[w].strk = UpdatedStreak(c.strk, today)
  <2>1. AddXP(c.prof, gain).xp = c.prof.xp + gain  BY <1>2, <1>3, AddXPType
  <2> HIDE DEF gain
  <2> QED BY <1>1, <1>4, <2>1 DEF TradeCall
<1>6. /\ granted'[m] = granted[m] + gain
      /\ worked'[m] = worked[m] \cup {today}
      /\ bonus'[m] = bonus[m] + StreakGain(c.strk, today)
      /\ \A n \in Members : n # m =>
           granted'[n] = granted[n] /\ worked'[n] = worked[n] /\ bonus'[n] = bonus[n]
  BY <1>0, <1>2 DEF IInv, TypeOK
<1>7. Busy(w) = {m} /\ Busy(w)' = {m}  BY <1>1, <1>4, <1>5 DEF Busy
<1>8. DaysPassed'
  <2>1. today' = today /\ today \in 1..today  BY <1>0, <1>2
  <2> QED BY <1>6, <2>1 DEF ExactInv, DaysPassed
<1> HIDE DEF gain
<1>9. ASSUME m \notin disturbed'
      PROVE  bonus'[m] = StreakXPDue(worked'[m]) /\ Pending(w, m)'
  <2>1. m \notin disturbed  BY <1>0, <1>9
  <2>2. Pending(w, m) /\ bonus[m] = StreakXPDue(worked[m])  BY <1>1, <2>1, GoesOn
  <2>3. Counted(c.strk, worked[m])  BY <1>1, <2>2 DEF Pending
  <2>4. worked[m] \in SUBSET (1..today)  BY <1>2 DEF ExactInv, DaysPassed
  <2>5. /\ Counted(UpdatedStreak(c.strk, today), worked[m] \cup {today})
        /\ StreakXPDue(worked[m] \cup {today})
             = StreakXPDue(worked[m]) + StreakGain(c.strk, today)
    BY <1>2, <2>3, <2>4, CountedUpdated
  <2>6. profile[m].xp \in Nat /\ logged[m] \in Nat /\ granted[m] \in Nat
    BY <1>2 DEF IInv, TypeOK, Profile
  <2>7. c.prof.xp = granted[m] /\ profile[m].xp = granted[m] /\ logged[m] = granted[m]
    BY <1>1, <2>2, <2>6 DEF Pending
  <2>8. Pending(w, m)'
    <3>1. call'[w].prof.xp = granted'[m]  BY <1>5, <1>6, <2>7
    <3>2. profile'[m].xp + gain = granted'[m] /\ logged'[m] + gain = granted'[m]
      BY <1>6, <1>0, <2>7
    <3>3. Counted(call'[w].strk, worked'[m])  BY <1>5, <1>6, <2>5
    <3> QED BY <1>4, <1>5, <3>1, <3>2, <3>3 DEF Pending
  <2> QED BY <1>6, <2>2, <2>5, <2>8
<1>10. m \notin disturbed' => \A v \in Workers : v # w => m \notin Busy(v)
  BY <1>1, <1>0, GoesOn
<1>11. m \notin disturbed' =>
         /\ \A v \in Workers : v # w => m \notin Busy(v)
         /\ bonus'[m] = StreakXPDue(worked'[m])
         /\ IF m \in Busy(w)' THEN Pending(w, m)' ELSE Settled(m)'
  BY <1>7, <1>9, <1>10
<1>12. \A v \in Workers : v # w => pc'[v] = pc[v] /\ call'[v] = call[v]
  BY <1>4
<1>13. /\ disturbed \subseteq disturbed'
       /\ \A n \in Members : n # m =>
            /\ profile'[n] = profile[n] /\ streak'[n] = streak[n] /\ logged'[n] = logged[n]
            /\ granted'[n] = granted[n] /\ worked'[n] = worked[n] /\ bonus'[n] = bonus[n]
  BY <1>0, <1>6
<1>14. Busy(w) \subseteq {m} /\ Busy(w)' \subseteq {m}  BY <1>7
<1> QED BY <1>8, <1>11, <1>12, <1>13, <1>14, StepExact

LEMMA SaveProfileExact ==
  ASSUME IInv, IInv', ExactInv, NEW w \in Workers, SaveProfile(w)
  PROVE  ExactInv'
<1> SUFFICES ASSUME NEW m \in Members, m = call[w].member PROVE ExactInv'
  BY CallFacts DEF SaveProfile, Goto
<1> USE DEF SaveProfile, Goto, history
<1>1. pc[w] = "saveProfile" /\ pc[w] # "idle"  OBVIOUS
<1>2. /\ pc'[w] = IF call[w].kind = "trade" THEN "saveStreak" ELSE "appendEvent"
      /\ \A v \in Workers : v # w => pc'[v] = pc[v]
  BY DEF IInv, TypeOK
<1>3. m \in Members /\ Busy(w) = {m} /\ Busy(w)' = {m}
  BY <1>1, <1>2, GoesOn DEF Busy
<1>4. profile'[m] = call[w].prof /\ \A n \in Members : n # m => profile'[n] = profile[n]
  BY <1>3 DEF IInv, TypeOK
<1>5. DaysPassed'  BY DEF ExactInv, DaysPassed
<1>6. ASSUME m \notin disturbed' PROVE Pending(w, m)'
  <2>1. Pending(w, m) /\ granted[m] \in Nat  BY <1>1, <1>3, <1>6, GoesOn DEF IInv, TypeOK
  <2> QED BY <1>1, <1>2, <1>4, <2>1 DEF Pending
<1> QED BY <1>1, <1>2, <1>3, <1>4, <1>5, <1>6, GoesOn, StepExact

LEMMA SaveStreakExact ==
  ASSUME IInv, IInv', ExactInv, NEW w \in Workers, SaveStreak(w)
  PROVE  ExactInv'
<1> SUFFICES ASSUME NEW m \in Members, m = call[w].member PROVE ExactInv'
  BY CallFacts DEF SaveStreak, Goto
<1> USE DEF SaveStreak, Goto, history
<1>1. pc[w] = "saveStreak" /\ pc[w] # "idle" /\ call[w].kind = "trade"
  BY DEF IInv, TypeOK, TradeCall
<1>2. pc'[w] = "appendEvent" /\ \A v \in Workers : v # w => pc'[v] = pc[v]
  BY DEF IInv, TypeOK
<1>3. m \in Members /\ Busy(w) = {m} /\ Busy(w)' = {m}
  BY <1>1, <1>2, GoesOn DEF Busy
<1>4. streak'[m] = call[w].strk /\ \A n \in Members : n # m => streak'[n] = streak[n]
  BY <1>3 DEF IInv, TypeOK
<1>5. DaysPassed'  BY DEF ExactInv, DaysPassed
<1>6. ASSUME m \notin disturbed' PROVE Pending(w, m)'
  <2>1. Pending(w, m)  BY <1>1, <1>6, GoesOn
  <2> QED BY <1>1, <1>2, <1>4, <2>1 DEF Pending
<1> QED BY <1>1, <1>2, <1>3, <1>4, <1>5, <1>6, GoesOn, StepExact

LEMMA AppendXPEventExact ==
  ASSUME IInv, IInv', ExactInv, NEW w \in Workers, AppendXPEvent(w)
  PROVE  ExactInv'
<1> SUFFICES ASSUME NEW m \in Members, m = call[w].member PROVE ExactInv'
  BY CallFacts DEF AppendXPEvent, Goto
<1>0. /\ Goto(w, "appendEvent", "idle") /\ Return(w)
      /\ logged' = [logged EXCEPT ![m] = @ + call[w].gain]
      /\ UNCHANGED <<profile, streak, today, granted, worked, bonus, disturbed>>
  BY DEF AppendXPEvent, history
<1>1. pc[w] = "appendEvent" /\ pc[w] # "idle"  BY <1>0 DEF Goto
<1>2. pc'[w] = "idle"
        /\ \A v \in Workers : v # w => pc'[v] = pc[v] /\ call'[v] = call[v]
  BY <1>0 DEF Goto, Return, IInv, TypeOK
<1>3. m \in Members /\ Busy(w) = {m} /\ Busy(w)' = {}
  BY <1>1, <1>2, GoesOn DEF Busy
<1>4. logged'[m] = logged[m] + call[w].gain
        /\ \A n \in Members : n # m => logged'[n] = logged[n]
  BY <1>0, <1>3 DEF IInv, TypeOK
<1>5. DaysPassed'  BY <1>0 DEF ExactInv, DaysPassed
<1>6. ASSUME m \notin disturbed' PROVE Settled(m)'
  <2>1. Pending(w, m)  BY <1>0, <1>1, <1>6, GoesOn
  <2>2. profile[m].xp \in Nat  BY <1>3 DEF IInv, TypeOK, Profile
  <2>3. profile[m].xp = granted[m] /\ logged[m] + call[w].gain = granted[m]
          /\ Counted(streak[m], worked[m])
    BY <1>1, <2>1, <2>2 DEF Pending
  <2> QED BY <1>0, <1>4, <2>3 DEF Settled
<1>7. m \notin disturbed' =>
        /\ \A v \in Workers : v # w => m \notin Busy(v)
        /\ bonus'[m] = StreakXPDue(worked'[m])
  BY <1>0, <1>1, GoesOn
<1> QED BY <1>0, <1>2, <1>3, <1>4, <1>5, <1>6, <1>7, StepExact

LEMMA StoreErrorExact ==
  ASSUME IInv, IInv', ExactInv, NEW w \in Workers, StoreError(w)
  PROVE  ExactInv'
<1> SUFFICES ASSUME NEW m \in Members, m = call[w].member PROVE ExactInv'
  BY CallFacts DEF StoreError
<1> USE DEF StoreError, Return, store
<1>1. pc[w] # "idle"  OBVIOUS
<1>2. pc'[w] = "idle"
        /\ \A v \in Workers : v # w => pc'[v] = pc[v] /\ call'[v] = call[v]
  BY DEF IInv, TypeOK
<1>3. m \in Members /\ Busy(w) = {m} /\ Busy(w)' = {} /\ m \in disturbed'
  BY <1>1, <1>2, GoesOn DEF Busy
<1>4. DaysPassed'  BY DEF ExactInv, DaysPassed
<1> QED BY <1>2, <1>3, <1>4, StepExact

LEMMA CrashExact ==
  ASSUME ExactInv, Crash
  PROVE  ExactInv'
<1> USE DEF Crash, store
<1>1. \A w \in Workers : Busy(w)' = {}  BY DEF Busy
<1>2. Alone' /\ DaysPassed'  BY <1>1 DEF Alone, ExactInv, DaysPassed
<1>3. ASSUME NEW m \in Members \ disturbed'
      PROVE  bonus'[m] = StreakXPDue(worked'[m]) /\ Settled(m)'
  <2>1. m \in Members \ disturbed /\ \A w \in Workers : m \notin Busy(w)
    BY <1>3
  <2>2. bonus[m] = StreakXPDue(worked[m]) /\ Settled(m)  BY <2>1 DEF ExactInv
  <2> QED BY <2>2 DEF Settled
<1> QED BY <1>1, <1>2, <1>3 DEF ExactInv

LEMMA IdleExact ==
  ASSUME IInv, ExactInv, NextDay \/ UNCHANGED vars
  PROVE  ExactInv'
<1> USE DEF NextDay, vars, store, history
<1>1. \A w \in Workers : Busy(w)' = Busy(w)  BY DEF Busy
<1>2. Alone'  BY <1>1 DEF Alone, ExactInv
<1>3. DaysPassed'
  <2>1. today \in Nat /\ today' \in Nat /\ today <= today'  BY DEF IInv, TypeOK
  <2>2. 1..today \subseteq 1..today'  BY <2>1
  <2> QED BY <2>2 DEF ExactInv, DaysPassed
<1>4. \A m \in Members : Settled(m)' = Settled(m)  BY DEF Settled
<1>5. \A m \in Members, w \in Workers : Pending(w, m)' = Pending(w, m)  BY DEF Pending
<1> QED BY <1>1, <1>2, <1>3, <1>4, <1>5 DEF ExactInv

LEMMA NextExact == IInv /\ ExactInv /\ [Next]_vars => ExactInv'
<1> SUFFICES ASSUME IInv, ExactInv, [Next]_vars PROVE ExactInv'  OBVIOUS
<1>1. IInv'  BY NextIInv
<1>2. ASSUME NEW w \in Workers, Step(w) PROVE ExactInv'
  BY <1>1, <1>2, GetProfileExact, AwardXPExact, GetStreakExact, ComputeExact,
     SaveProfileExact, SaveStreakExact, AppendXPEventExact, StoreErrorExact DEF Step
<1>3. CASE Crash  BY <1>3, CrashExact
<1>4. CASE NextDay \/ UNCHANGED vars  BY <1>4, IdleExact
<1> QED BY <1>2, <1>3, <1>4 DEF Next

-----------------------------------------------------------------------------
(* The accounts of undisturbed members are exact at every moment.          *)
THEOREM ExactInvariance == Spec => []ExactInv
<1>1. Spec => [](IInv /\ ExactInv)
  BY InitIInv, NextIInv, InitExact, NextExact, PTL DEF Spec
<1> QED BY <1>1, PTL

(***************************************************************************)
(* Profile, event log and grants agree for a member whose calls never      *)
(* overlapped, failed or were cut off, whatever happens to other members   *)
(* (gamification.go 100-160, 169-195).                                     *)
(***************************************************************************)
THEOREM XPAlwaysExact == Spec => []XPExactUnlessDisturbed
<1>1. ExactInv => XPExactUnlessDisturbed
  BY DEF ExactInv, Settled, XPExactUnlessDisturbed
<1> QED BY <1>1, ExactInvariance, PTL

(***************************************************************************)
(* The streak of such a member is the run of days a reader of the calendar *)
(* counts, and streak XP and milestones were paid once for each day and    *)
(* run (gamification.go 86-128), for any number of days and wherever       *)
(* midnight falls.                                                         *)
(***************************************************************************)
THEOREM StreaksAlwaysExact == Spec => []StreakExactUnlessDisturbed
<1>1. ExactInv => StreakExactUnlessDisturbed
  BY DEF ExactInv, Settled, Counted, StreakExactUnlessDisturbed
<1> QED BY <1>1, ExactInvariance, PTL

-----------------------------------------------------------------------------
(***************************************************************************)
(* Periods.                                                                *)
(***************************************************************************)
(* A set of numbers has a least one.                                       *)
LEMMA LeastNumber ==
  ASSUME NEW S, S \subseteq Nat, S # {}
  PROVE  \E k \in S : \A j \in S : k <= j
<1> DEFINE R == {ss \in Nat \X Nat : ss[1] < ss[2]}
<1>1. IsWellFoundedOn(R, Nat)  BY NatLessThanWellFounded DEF OpToRel
<1>2. PICK k \in S : \A j \in S : ~(<<j, k>> \in R)  BY <1>1, WFMin
<1>3. ASSUME NEW j \in S  PROVE k <= j
  <2>1. ~(<<j, k>> \in R)  BY <1>2
  <2>2. <<j, k>>[1] = j /\ <<j, k>>[2] = k  OBVIOUS
  <2>3. <<j, k>> \in Nat \X Nat  OBVIOUS
  <2>4. ~(j < k)  BY <2>1, <2>2, <2>3
  <2> QED BY <2>4
<1> QED BY <1>3

LEMMA MonthOfDay ==
  ASSUME NEW d \in Nat
  PROVE  /\ FirstOfMonth(d) \in FirstDays
         /\ FirstOfMonth(d) <= d
         /\ \A k \in FirstDays : k <= d => k <= FirstOfMonth(d)
<1> USE CalendarAssumption
<1> DEFINE ages == {d - k : k \in {j \in FirstDays : j <= d}}
<1>1. ages \subseteq Nat /\ d - 0 \in ages  OBVIOUS
<1>2. PICK a \in ages : \A b \in ages : a <= b
  <2> HIDE DEF ages
  <2> QED BY <1>1, LeastNumber
<1>3. PICK m \in FirstDays : m <= d /\ a = d - m  BY <1>2
<1>4. \A k \in FirstDays : k <= d => k <= m
  <2> SUFFICES ASSUME NEW k \in FirstDays, k <= d  PROVE k <= m  OBVIOUS
  <2>1. d - k \in ages  OBVIOUS
  <2>2. d - m <= d - k  BY <1>2, <1>3, <2>1
  <2> HIDE DEF ages
  <2>3. k \in Nat /\ m \in Nat  OBVIOUS
  <2> QED BY <2>2, <2>3
<1> HIDE DEF ages
<1> QED BY <1>3, <1>4 DEF FirstOfMonth

LEMMA MonthIs ==
  ASSUME NEW d \in Nat, NEW m \in FirstDays, m <= d,
         \A k \in FirstDays : k <= d => k <= m
  PROVE  FirstOfMonth(d) = m
<1>1. FirstOfMonth(d) \in Nat /\ m \in Nat  BY MonthOfDay, CalendarAssumption
<1>2. m <= FirstOfMonth(d) /\ FirstOfMonth(d) <= m  BY MonthOfDay
<1> QED BY <1>1, <1>2

LEMMA MonthAfter ==
  ASSUME NEW m \in FirstDays, ~IsLast(m)
  PROVE  /\ NextMonth(m) \in FirstDays
         /\ NextMonth(m) > m
         /\ \A j \in FirstDays : j > m => NextMonth(m) <= j
<1> USE CalendarAssumption
<1> DEFINE later == {j \in FirstDays : j > m}
<1>1. later \subseteq Nat /\ later # {}
  <2>1. PICK k \in FirstDays : ~(k <= m)  BY DEF IsLast
  <2>2. k > m  BY <2>1
  <2> QED BY <2>2
<1>2. PICK k \in later : \A j \in later : k <= j
  <2> HIDE DEF later
  <2> QED BY <1>1, LeastNumber
<1>3. k \in FirstDays /\ k > m /\ \A j \in FirstDays : j > m => k <= j  BY <1>2
<1> HIDE DEF later
<1> QED BY <1>3 DEF NextMonth

LEMMA NextMonthIs ==
  ASSUME NEW m \in FirstDays, NEW n \in FirstDays, n > m,
         \A j \in FirstDays : j > m => n <= j
  PROVE  ~IsLast(m) /\ NextMonth(m) = n
<1> USE CalendarAssumption
<1>1. ~IsLast(m)  BY DEF IsLast
<1>2. NextMonth(m) \in Nat /\ n \in Nat  BY <1>1, MonthAfter
<1>3. NextMonth(m) <= n /\ n <= NextMonth(m)  BY <1>1, MonthAfter
<1> QED BY <1>1, <1>2, <1>3

(* A day is of month m iff it is neither before m nor after the next.      *)
LEMMA DaysOfMonth ==
  ASSUME NEW d \in Nat, NEW m \in FirstDays
  PROVE  FirstOfMonth(d) = m <=> m <= d /\ (IsLast(m) \/ d < NextMonth(m))
<1> USE CalendarAssumption
<1>1. CASE IsLast(m)
  <2>1. \A k \in FirstDays : k <= m  BY <1>1 DEF IsLast
  <2>2. m <= d => FirstOfMonth(d) = m  BY <2>1, MonthIs
  <2> QED BY <1>1, <2>2, MonthOfDay
<1>2. CASE ~IsLast(m)
  <2>1. m <= d /\ d < NextMonth(m) => FirstOfMonth(d) = m
    <3> SUFFICES ASSUME m <= d, d < NextMonth(m)
                 PROVE \A k \in FirstDays : k <= d => k <= m
      BY MonthIs
    <3> TAKE k \in FirstDays
    <3> HAVE k <= d
    <3>1. NextMonth(m) \in Nat /\ k \in Nat /\ m \in Nat  BY <1>2, MonthAfter
    <3>2. k > m => NextMonth(m) <= k  BY <1>2, MonthAfter
    <3> QED BY <3>1, <3>2
  <2>2. FirstOfMonth(d) = m => m <= d /\ d < NextMonth(m)
    <3> HAVE FirstOfMonth(d) = m
    <3>1. NextMonth(m) \in FirstDays /\ NextMonth(m) > m  BY <1>2, MonthAfter
    <3>2. NextMonth(m) <= d => NextMonth(m) <= m  BY <3>1, MonthOfDay
    <3>3. NextMonth(m) \in Nat /\ m \in Nat  BY <3>1
    <3> QED BY <3>1, <3>2, <3>3, MonthOfDay
  <2> QED BY <1>2, <2>1, <2>2
<1> QED BY <1>1, <1>2

-----------------------------------------------------------------------------
(* Instants and days.                                                      *)
LEMMA DayOfInstant ==
  ASSUME NEW i \in Nat
  PROVE  /\ UTCDay(i) \in Nat /\ WIBDay(i) \in Nat
         /\ MidnightUTC(UTCDay(i)) <= i /\ i < MidnightUTC(UTCDay(i)) + DayLen
         /\ i + Offset = MidnightUTC(WIBDay(i)) + WIBHour(i)
<1> USE CalendarAssumption
<1>1. ASSUME NEW a \in Nat
      PROVE /\ a \div DayLen \in Nat /\ a % DayLen \in 0..(DayLen - 1)
            /\ a = (DayLen * (a \div DayLen)) + (a % DayLen)
  OBVIOUS
<1>2. ASSUME NEW a \in Nat  PROVE a * DayLen = DayLen * a  OBVIOUS
<1>3. i + Offset \in Nat  OBVIOUS
<1> DEFINE a == i \div DayLen
           r == i % DayLen
           b == (i + Offset) \div DayLen
           s == (i + Offset) % DayLen
<1>4. a \in Nat /\ r \in 0..(DayLen - 1) /\ i = (DayLen * a) + r  BY <1>1
<1>5. b \in Nat /\ s \in 0..(DayLen - 1) /\ i + Offset = (DayLen * b) + s  BY <1>1, <1>3
<1>6. a * DayLen = DayLen * a /\ b * DayLen = DayLen * b  BY <1>2, <1>4, <1>5
<1> HIDE DEF a, r, b, s
<1>7. a * DayLen <= i /\ i < (a * DayLen) + DayLen /\ i + Offset = (b * DayLen) + s
  <2> DEFINE x == DayLen * a
             y == DayLen * b
  <2>1. x \in Nat /\ y \in Nat  BY <1>4, <1>5
  <2> HIDE DEF x, y
  <2>2. x <= i /\ i < x + DayLen /\ i + Offset = y + s  BY <1>4, <1>5, <2>1 DEF x, y
  <2> QED BY <1>6, <2>2 DEF x, y
<1> QED BY <1>4, <1>5, <1>7 DEF UTCDay, WIBDay, WIBHour, MidnightUTC, a, b, s

LEMMA MidnightsApart ==
  ASSUME NEW a \in Nat, NEW b \in Nat
  PROVE  /\ MidnightUTC(a) \in Nat
         /\ a < b => MidnightUTC(a) + DayLen <= MidnightUTC(b)
<1> USE CalendarAssumption
<1>1. a < b => (a * DayLen) + DayLen <= b * DayLen  OBVIOUS
<1>2. a * DayLen \in Nat  OBVIOUS
<1> QED BY <1>1, <1>2 DEF MidnightUTC

LEMMA DaysInOrder ==
  ASSUME NEW i \in Nat, NEW j \in Nat, i <= j
  PROVE  UTCDay(i) <= UTCDay(j) /\ WIBDay(i) <= WIBDay(j)
<1> USE CalendarAssumption
<1>1. ASSUME NEW a \in Nat, NEW b \in Nat, a <= b  PROVE UTCDay(a) <= UTCDay(b)
  <2> SUFFICES ASSUME UTCDay(b) < UTCDay(a)  PROVE FALSE  BY <1>1, DayOfInstant
  <2>1. MidnightUTC(UTCDay(b)) + DayLen <= MidnightUTC(UTCDay(a))
    BY DayOfInstant, MidnightsApart
  <2>2. MidnightUTC(UTCDay(a)) \in Nat /\ MidnightUTC(UTCDay(b)) \in Nat
    BY DayOfInstant, MidnightsApart
  <2> QED BY <1>1, <2>1, <2>2, DayOfInstant
<1>2. UTCDay(i + Offset) = WIBDay(i) /\ UTCDay(j + Offset) = WIBDay(j)
  BY DEF UTCDay, WIBDay
<1>3. i + Offset \in Nat /\ j + Offset \in Nat /\ i + Offset <= j + Offset  OBVIOUS
<1> QED BY <1>1, <1>2, <1>3

(* Whatever the offset, the filter of a month selects the days of it.      *)
LEMMA MonthFilter ==
  ASSUME NEW d \in Nat, NEW m \in FirstDays
  PROVE  /\ SinceMonth(d, m) <=> m <= d
         /\ InMonth(d, m) <=> FirstOfMonth(d) = m
<1> USE CalendarAssumption
<1>1. ASSUME NEW n \in Nat
      PROVE  /\ MidnightUTC(d) >= MidnightWIB(n) <=> n <= d
             /\ MidnightUTC(d) < MidnightWIB(n) <=> d < n
  <2>1. MidnightWIB(n) = MidnightUTC(n) - Offset  BY DEF MidnightWIB, MidnightUTC
  <2>2. d < n => MidnightUTC(d) + DayLen <= MidnightUTC(n)  BY MidnightsApart
  <2>3. n < d => MidnightUTC(n) + DayLen <= MidnightUTC(d)  BY MidnightsApart
  <2>4. MidnightUTC(n) \in Nat /\ MidnightUTC(d) \in Nat  BY MidnightsApart
  <2> QED BY <2>1, <2>2, <2>3, <2>4
<1>2. SinceMonth(d, m) <=> m <= d  BY <1>1 DEF SinceMonth
<1>3. ~IsLast(m) => (MidnightUTC(d) < MidnightWIB(NextMonth(m)) <=> d < NextMonth(m))
  BY <1>1, MonthAfter
<1> QED BY <1>2, <1>3, DaysOfMonth DEF InMonth

(* A day of the month of a later day, but not before it, is of that month. *)
LEMMA WithinMonth ==
  ASSUME NEW d \in Nat, NEW e \in Nat, FirstOfMonth(e) <= d, d <= e
  PROVE  FirstOfMonth(d) = FirstOfMonth(e)
<1> USE CalendarAssumption
<1>1. FirstOfMonth(e) \in FirstDays
      /\ \A k \in FirstDays : k <= e => k <= FirstOfMonth(e)
  BY MonthOfDay
<1>2. \A k \in FirstDays : k <= d => k <= FirstOfMonth(e)  BY <1>1
<1> QED BY <1>1, <1>2, MonthIs

LEMMA MonthsInOrder ==
  ASSUME NEW d \in Nat, NEW e \in Nat, d <= e
  PROVE  FirstOfMonth(d) <= FirstOfMonth(e)
<1>1. FirstOfMonth(d) \in FirstDays /\ FirstOfMonth(d) <= d  BY MonthOfDay
<1>2. FirstOfMonth(d) \in Nat  BY <1>1, CalendarAssumption
<1>3. FirstOfMonth(d) <= e  BY <1>1, <1>2
<1> QED BY <1>1, <1>3, MonthOfDay

(* A week is the days from a Monday on.                                    *)
LEMMA DaysOfWeek ==
  ASSUME NEW d \in Nat, NEW e \in Nat
  PROVE  /\ Monday(e) \in Nat
         /\ Monday(d) = Monday(e) <=> Monday(e) <= d /\ d < Monday(e) + WeekLen
<1> USE CalendarAssumption
<1> DEFINE a == d \div WeekLen
           b == e \div WeekLen
           x == a * WeekLen
           y == b * WeekLen
           r == d % WeekLen
           s == e % WeekLen
<1>1. ASSUME NEW n \in Nat
      PROVE /\ n \div WeekLen \in Nat /\ n % WeekLen \in 0..(WeekLen - 1)
            /\ n = (WeekLen * (n \div WeekLen)) + (n % WeekLen)
  OBVIOUS
<1>2. ASSUME NEW n \in Nat  PROVE n * WeekLen = WeekLen * n /\ n * WeekLen \in Nat  OBVIOUS
<1>3. ASSUME NEW m \in Nat, NEW n \in Nat, m < n
      PROVE  (m * WeekLen) + WeekLen <= n * WeekLen
  BY <1>3
<1>4. a \in Nat /\ b \in Nat /\ r \in 0..(WeekLen - 1) /\ s \in 0..(WeekLen - 1)
  BY <1>1
<1>5. d = WeekLen * a + r /\ e = WeekLen * b + s  BY <1>1
<1>6. x = WeekLen * a /\ y = WeekLen * b /\ x \in Nat /\ y \in Nat  BY <1>2, <1>4
<1>7. d = x + r /\ e = y + s  BY <1>5, <1>6
<1>8. (a < b => x + WeekLen <= y) /\ (b < a => y + WeekLen <= x)  BY <1>3, <1>4
<1>9. a = b => x = y  OBVIOUS
<1>10. Monday(d) = x /\ Monday(e) = y
  <2>1. Monday(d) = d - r /\ Monday(e) = e - s  BY DEF Monday
  <2> HIDE DEF a, b, x, y, r, s
  <2> QED BY <2>1, <1>4, <1>6, <1>7
<1> HIDE DEF a, b, x, y, r, s
<1>11. x = y <=> y <= d /\ d < y + WeekLen
  <2>1. a < b \/ b < a \/ a = b  BY <1>4
  <2> QED BY <2>1, <1>4, <1>6, <1>7, <1>8, <1>9
<1> QED BY <1>6, <1>10, <1>11

LEMMA WeekFilter ==
  ASSUME NEW d \in Nat, NEW e \in Nat
  PROVE  /\ InChallenge(d, Monday(e)) <=> Monday(d) = Monday(e)
         /\ InReport(d, Monday(e)) <=> Monday(d) = Monday(e)
<1> USE CalendarAssumption
<1> DEFINE w == Monday(e)
<1>1. w \in Nat /\ w + WeekLen \in Nat  BY DaysOfWeek
<1>2. Monday(d) = w <=> w <= d /\ d < w + WeekLen  BY DaysOfWeek
<1> HIDE DEF w
<1>3. ASSUME NEW n \in Nat
      PROVE  /\ MidnightUTC(d) >= MidnightUTC(n) <=> n <= d
             /\ MidnightUTC(d) >= MidnightWIB(n) <=> n <= d
             /\ MidnightUTC(d) < MidnightUTC(n) <=> d < n
             /\ MidnightUTC(d) <= MidnightWIB(n) - 1 <=> d < n
  <2>1. MidnightWIB(n) = MidnightUTC(n) - Offset  BY DEF MidnightWIB, MidnightUTC
  <2>2. d < n => MidnightUTC(d) + DayLen <= MidnightUTC(n)  BY MidnightsApart
  <2>3. n < d => MidnightUTC(n) + DayLen <= MidnightUTC(d)  BY MidnightsApart
  <2>4. MidnightUTC(n) \in Nat /\ MidnightUTC(d) \in Nat  BY MidnightsApart
  <2>5. n = d => MidnightUTC(n) = MidnightUTC(d)  OBVIOUS
  <2> QED BY <2>1, <2>2, <2>3, <2>4, <2>5
<1>4. InChallenge(d, w) <=> w <= d /\ d < w + WeekLen  BY <1>1, <1>3 DEF InChallenge
<1>5. InReport(d, w) <=> w <= d /\ d < w + WeekLen  BY <1>1, <1>3 DEF InReport
<1> QED BY <1>2, <1>4, <1>5 DEF w

-----------------------------------------------------------------------------
LEMMA MonthsType == Months \subseteq FirstDays /\ FirstDays \subseteq Nat
<1>1. \A d \in 0..WIBDay(MaxTime) : d \in Nat
  BY DayOfInstant, PeriodsAssumption
<1>2. \A d \in 0..WIBDay(MaxTime) : FirstOfMonth(d) \in FirstDays  BY <1>1, MonthOfDay
<1> QED BY <1>2, CalendarAssumption DEF Months

(* A step leaves the clock alone, or no call under way is too late.        *)
LEMMA InTimeStep ==
  ASSUME NEW since, PeriodTypes, InTime(since),
         \/ now' = now
         \/ now' = now + 1 /\ ~Late(since)
  PROVE  InTime(since)'
<1>1. now \in Nat /\ MaxLatency \in Nat /\ since \in 0..now /\ now <= since + MaxLatency
  BY PeriodsAssumption DEF PeriodTypes, InTime
<1>2. CASE now' = now  BY <1>1, <1>2 DEF InTime
<1>3. CASE now' = now + 1 /\ ~Late(since)
  <2>1. now - since < MaxLatency  BY <1>1, <1>3 DEF Late
  <2> QED BY <1>1, <1>3, <2>1 DEF InTime
<1> QED BY <1>2, <1>3

LEMMA ThisMonthType ==
  ASSUME PeriodTypes
  PROVE  /\ WIBDay(now) \in Nat /\ UTCDay(now) \in Nat
         /\ ThisMonth \in FirstDays /\ ThisMonth \in Months
<1>1. now \in Nat /\ MaxTime \in Nat /\ now <= MaxTime  BY PeriodsAssumption DEF PeriodTypes
<1>2. WIBDay(now) \in Nat /\ WIBDay(MaxTime) \in Nat /\ WIBDay(now) <= WIBDay(MaxTime)
  BY <1>1, DayOfInstant, DaysInOrder
<1>3. ThisMonth \in Months  BY <1>2 DEF Months, ThisMonth
<1> QED BY <1>1, <1>2, <1>3, DayOfInstant, MonthOfDay DEF ThisMonth

LEMMA NowInTime ==
  ASSUME PeriodTypes
  PROVE  InTime(now)
BY PeriodsAssumption DEF PeriodTypes, InTime

(* No call is older than its longest time: a trade is saved within         *)
(* MaxLatency of the instant its date is taken from (journal.go 31), a     *)
(* goal is checked within MaxLatency of the clock read that chose its      *)
(* month (goal.go 77-88).                                                  *)
THEOREM PeriodsInvariance == PeriodsSpec => []ClockIInv
<1>1. ASSUME PeriodsInit  PROVE ClockIInv
  <2> USE <1>1 DEF PeriodsInit
  <2>1. PeriodTypes  BY FS_EmptySet, PeriodsAssumption DEF PeriodTypes
  <2> QED BY <2>1 DEF ClockIInv, SavingInTime, CheckInTime
<1>2. ASSUME ClockIInv, [PeriodsNext]_periodsVars  PROVE ClockIInv'
  <2> USE DEF trades
  <2>0. PeriodTypes /\ SavingInTime /\ CheckInTime  BY <1>2 DEF ClockIInv
  <2>T. /\ now \in Nat /\ recorded \in Nat
        /\ WIBDay(now) \in Nat /\ UTCDay(now) \in Nat /\ InTime(now)
    BY <2>0, ThisMonthType, NowInTime DEF PeriodTypes
  (* What is on its way stays in time while the clock stands still.        *)
  <2>S. ASSUME now' = now, saving' \subseteq saving  PROVE SavingInTime'
    <3>1. \A t \in saving : InTime(t.since)'  BY <2>S, <2>0, InTimeStep DEF SavingInTime
    <3> QED BY <2>S, <2>0, <3>1 DEF SavingInTime
  <2>C. ASSUME now' = now, saved \subseteq saved', check' \in {check, None}
        PROVE  CheckInTime'
    <3>1. CASE check' = None  BY <3>1 DEF CheckInTime
    <3>2. CASE check' = check  BY <2>C, <2>0, <3>2 DEF CheckInTime, InTime
    <3> QED BY <2>C, <3>1, <3>2
  <2>1. CASE Record
    <3> USE <2>1 DEF Record
    <3>1. PeriodTypes'  BY <2>0 DEF PeriodTypes
    <3>2. \A t \in saving : InTime(t.since)'  BY <2>0, InTimeStep DEF SavingInTime
    <3>3. InTime(now)'  BY <2>0, <2>T, InTimeStep
    <3>4. SavingInTime'  BY <2>0, <2>T, <3>2, <3>3 DEF SavingInTime
    <3>5. CheckInTime'  BY <2>C
    <3> QED BY <3>1, <3>4, <3>5 DEF ClockIInv
  <2>2. CASE Save
    <3> USE <2>2 DEF Save
    <3>1. PICK t \in saving : /\ saving' = saving \ {t}
                              /\ saved' = saved \cup {[id |-> t.id, day |-> t.day]}
      OBVIOUS
    <3>2. t.id \in Nat /\ t.since \in 0..now /\ t.day = UTCDay(t.since)
      BY <2>0 DEF SavingInTime, InTime
    <3>3. t.day \in Nat /\ t.day <= UTCDay(now)  BY <2>T, <3>2, DayOfInstant, DaysInOrder
    <3>4. IsFiniteSet(saved')
      <4>1. IsFiniteSet(saved)  BY <2>0 DEF PeriodTypes
      <4> QED BY <3>1, <4>1, FS_AddElement
    <3>5. PeriodTypes'  BY <2>0, <3>1, <3>2, <3>3, <3>4 DEF PeriodTypes
    <3>6. SavingInTime'  BY <2>S, <3>1
    <3>7. CheckInTime'  BY <2>C, <3>1
    <3> QED BY <3>5, <3>6, <3>7 DEF ClockIInv
  <2>3. ASSUME NEW target \in Targets, SetGoal(target)  PROVE ClockIInv'
    <3> USE <2>3 DEF SetGoal
    <3>1. goals' \in [Months -> {None} \cup [target : Nat, achieved : BOOLEAN]]
      BY <2>0, PeriodsAssumption DEF PeriodTypes
    <3>2. PeriodTypes'  BY <2>0, <3>1 DEF PeriodTypes
    <3> QED BY <2>S, <2>C, <3>2 DEF ClockIInv
  <2>4. CASE CheckGoal
    <3> USE <2>4 DEF CheckGoal
    <3>1. PeriodTypes'  BY <2>0 DEF PeriodTypes
    <3>2. InTime(now)'  BY <2>0, <2>T, InTimeStep
    <3>3. goals[ThisMonth].target \in Nat
      <4>1. ThisMonth \in Months  BY <2>0, ThisMonthType
      <4> QED BY <2>0, <4>1 DEF PeriodTypes
    <3>4. CheckInTime'  BY <3>2, <3>3 DEF CheckInTime, ThisMonth
    <3> QED BY <2>S, <3>1, <3>4 DEF ClockIInv
  <2>5. CASE ReadTrades
    <3> USE <2>5 DEF ReadTrades
    <3>1. PeriodTypes'  BY <2>0 DEF PeriodTypes
    <3>2. InTime(check.since)'  BY <2>0, InTimeStep DEF CheckInTime
    <3>3. CheckInTime'  BY <2>0, <3>2 DEF CheckInTime
    <3> QED BY <2>S, <3>1, <3>3 DEF ClockIInv
  <2>6. CASE CountTrades
    <3> USE <2>6 DEF CountTrades
    <3>1. goals' \in [Months -> {None} \cup [target : Nat, achieved : BOOLEAN]]
      <4>1. check.target \in Nat  BY <2>0 DEF CheckInTime
      <4> QED BY <2>0, <4>1 DEF PeriodTypes
    <3>2. PeriodTypes'  BY <2>0, <3>1 DEF PeriodTypes
    <3> QED BY <2>S, <2>C, <3>2 DEF ClockIInv
  <2>7. CASE \/ CreateChallenge(WIBDay(now)) \/ CreateChallenge(UTCDay(now))
             \/ FinalizeChallenge
    <3> USE <2>7 DEF CreateChallenge, FinalizeChallenge
    <3>1. PeriodTypes'  BY <2>0 DEF PeriodTypes
    <3> QED BY <2>S, <2>C, <3>1 DEF ClockIInv
  <2>8. CASE WeeklyReport \/ MonthlyReportCard \/ ReadMonth
    <3> USE <2>8 DEF WeeklyReport, MonthlyReportCard, ReadMonth
    <3>1. PeriodTypes'  BY <2>0 DEF PeriodTypes
    <3> QED BY <2>S, <2>C, <3>1 DEF ClockIInv
  <2>9. CASE SaveReportCard
    <3> USE <2>9 DEF SaveReportCard
    <3>1. DOMAIN cards' = Months  BY <2>0 DEF PeriodTypes
    <3>2. PeriodTypes'  BY <2>0, <3>1 DEF PeriodTypes
    <3> QED BY <2>S, <2>C, <3>2 DEF ClockIInv
  <2>10. CASE GiveUp \/ ProcessStops
    <3> USE <2>10 DEF GiveUp, ProcessStops
    <3>1. PeriodTypes'  BY <2>0 DEF PeriodTypes
    <3> QED BY <2>S, <2>C, <3>1 DEF ClockIInv
  <2>11. CASE PassTime
    <3> USE <2>11 DEF PassTime
    <3>1. now' \in 0..MaxTime /\ UTCDay(now)' \in Nat /\ UTCDay(now) <= UTCDay(now)'
      <4>1. now + 1 \in 0..MaxTime /\ now + 1 \in Nat /\ now <= now + 1
        BY <2>T, PeriodsAssumption
      <4> QED BY <2>T, <4>1, DayOfInstant, DaysInOrder
    <3>2. PeriodTypes'
      <4>1. \A t \in saved : t.day <= UTCDay(now)'  BY <2>0, <2>T, <3>1 DEF PeriodTypes
      <4> QED BY <2>0, <3>1, <4>1 DEF PeriodTypes
    <3>3. \A t \in saving : InTime(t.since)'  BY <2>0, InTimeStep DEF SavingInTime
    <3>4. SavingInTime'  BY <2>0, <3>3 DEF SavingInTime
    <3>5. check # None => InTime(check.since)'  BY <2>0, InTimeStep DEF CheckInTime
    <3>6. CheckInTime'  BY <2>0, <3>5 DEF CheckInTime
    <3> QED BY <3>2, <3>4, <3>6 DEF ClockIInv
  <2>12. CASE UNCHANGED periodsVars
    <3> USE <2>12 DEF periodsVars
    <3>1. PeriodTypes'  BY <2>0 DEF PeriodTypes
    <3> QED BY <2>S, <2>C, <3>1 DEF ClockIInv
  <2> QED BY <1>2, <2>1, <2>2, <2>3, <2>4, <2>5, <2>6, <2>7, <2>8, <2>9, <2>10,
             <2>11, <2>12 DEF PeriodsNext
<1> QED BY <1>1, <1>2, PTL DEF PeriodsSpec

-----------------------------------------------------------------------------
(***************************************************************************)
(* challenge.go 55-64 and 100, report.go 60: in every calendar, with any   *)
(* offset between the zones and whichever clock created the challenge, a   *)
(* final challenge and a weekly report have counted exactly the trades in  *)
(* Notion that are dated on the seven days of their week.                  *)
(***************************************************************************)
THEOREM WeeksCountTheirTrades == PeriodsSpec => CountsForItsWeek
<1> DEFINE Counts ==
      /\ \A w \in Mondays : Final(w)' /\ ~Final(w) =>
           challenges'[w].counted = {t \in saved : Monday(t.day) = w}
      /\ report' # report =>
           report'.counted = {t \in saved : Monday(t.day) = report'.week}
<1>1. ASSUME ClockIInv, PeriodsNext  PROVE Counts
  <2>1. /\ \A t \in saved : t.day \in Nat
        /\ WIBDay(now) \in Nat /\ UTCDay(now) \in Nat
        /\ DOMAIN challenges = Mondays
    BY <1>1, ThisMonthType DEF ClockIInv, PeriodTypes
  <2>2. CASE FinalizeChallenge
    <3> DEFINE week == Monday(WIBDay(now))
    <3>1. {t \in saved : InChallenge(t.day, week)} = {t \in saved : Monday(t.day) = week}
      BY <2>1, WeekFilter
    <3>2. UNCHANGED report  BY <2>2 DEF FinalizeChallenge
    <3>3. ASSUME NEW w \in Mondays, Final(w)', ~Final(w)
          PROVE  challenges'[w].counted = {t \in saved : Monday(t.day) = w}
      <4> HIDE DEF week
      <4>1. challenges' = [challenges EXCEPT ![week] =
              [final |-> TRUE, counted |-> {t \in saved : InChallenge(t.day, week)}]]
        BY <2>2, <3>3 DEF FinalizeChallenge, Final, week
      <4>2. w = week  BY <2>1, <3>3, <4>1 DEF Final
      <4> QED BY <2>1, <3>1, <3>3, <4>1, <4>2
    <3> QED BY <3>2, <3>3
  <2>3. CASE WeeklyReport
    <3>1. {t \in saved : InReport(t.day, Monday(UTCDay(now)))}
          = {t \in saved : Monday(t.day) = Monday(UTCDay(now))}
      BY <2>1, WeekFilter
    <3> QED BY <2>3, <3>1 DEF WeeklyReport, Final
  <2>4. CASE \/ CreateChallenge(WIBDay(now)) \/ CreateChallenge(UTCDay(now))
    <3>1. \A w \in Mondays : Final(w)' => Final(w)
      BY <2>1, <2>4 DEF CreateChallenge, Final
    <3>2. UNCHANGED report  BY <2>4 DEF CreateChallenge
    <3> QED BY <3>1, <3>2
  <2>5. CASE ~(\/ FinalizeChallenge \/ WeeklyReport
               \/ CreateChallenge(WIBDay(now)) \/ CreateChallenge(UTCDay(now)))
    <3>1. UNCHANGED <<challenges, report>>
      BY <1>1, <2>5 DEF PeriodsNext, Record, Save, SetGoal, CheckGoal, ReadTrades, CountTrades,
         MonthlyReportCard, ReadMonth, SaveReportCard, GiveUp, PassTime, ProcessStops
    <3> QED BY <3>1 DEF Final
  <2> QED BY <2>2, <2>3, <2>4, <2>5
<1>2. ClockIInv /\ [PeriodsNext]_periodsVars => [Counts]_periodsVars  BY <1>1
<1> QED BY <1>2, PeriodsInvariance, PTL DEF PeriodsSpec, CountsForItsWeek

(***************************************************************************)
(* reportcard.go 39-45 and 200-203: a report card is cached for good, so   *)
(* it must miss no trade of its month. It does not, provided that the      *)
(* report hour lies at least one call's time after the midnight of UTC,    *)
(* until when trades are still dated in the old month: REPORT_HOUR is 20   *)
(* unless it is set, the midnight is at 7, and the calls time out.         *)
(***************************************************************************)
THEOREM CardsAlwaysComplete ==
  ASSUME ReportHour >= Offset + MaxLatency
  PROVE  PeriodsSpec => []CardsAreComplete
<1> DEFINE CardIInv == CardOver /\ CardsAreComplete
<1>1. ASSUME PeriodsInit  PROVE CardIInv
  BY <1>1 DEF PeriodsInit, CardOver, CardsAreComplete
<1>2. ASSUME ClockIInv, CardIInv, [PeriodsNext]_periodsVars  PROVE CardIInv'
  <2>0. /\ now \in Nat /\ MaxLatency \in Nat /\ DOMAIN cards = Months
        /\ \A t \in saved : t.day \in Nat
    BY <1>2, PeriodsAssumption DEF ClockIInv, PeriodTypes
  <2>1. ASSUME NEW m \in FirstDays, Over(m), now' \in {now, now + 1}  PROVE Over(m)'
    <3>1. MidnightUTC(NextMonth(m)) \in Nat
      BY <2>1, MonthsType, MonthAfter, MidnightsApart DEF Over
    <3> QED BY <2>0, <2>1, <3>1 DEF Over
  (* No trade of a month that is over gets saved.                          *)
  <2>2. CASE Save
    <3> USE DEF trades
    <3>1. PICK t \in saving : saved' = saved \cup {[id |-> t.id, day |-> t.day]}
      BY <2>2 DEF Save
    <3>2. t.since \in Nat /\ now <= t.since + MaxLatency /\ t.day = UTCDay(t.since)
      BY <1>2, <2>0 DEF ClockIInv, SavingInTime, InTime
    <3>3. ASSUME NEW m \in FirstDays, Over(m)  PROVE OfMonth(m)' = OfMonth(m)
      <4> SUFFICES ASSUME FirstOfMonth(t.day) = m  PROVE FALSE
        BY <3>1 DEF OfMonth
      <4>1. t.day \in Nat /\ t.since < MidnightUTC(t.day) + DayLen
        BY <3>2, DayOfInstant
      <4>2. ~IsLast(m) /\ MidnightUTC(NextMonth(m)) + MaxLatency <= now  BY <3>3 DEF Over
      <4>3. t.day < NextMonth(m) /\ NextMonth(m) \in Nat
        BY <4>1, <4>2, DaysOfMonth, MonthAfter, MonthsType
      <4>4. MidnightUTC(t.day) + DayLen <= MidnightUTC(NextMonth(m))
            /\ MidnightUTC(t.day) \in Nat /\ MidnightUTC(NextMonth(m)) \in Nat
        BY <4>1, <4>3, MidnightsApart
      <4> QED BY <2>0, <3>2, <4>1, <4>2, <4>4, CalendarAssumption
    <3>4. UNCHANGED <<now, cards, card>>  BY <2>2 DEF Save
    <3>5. CardOver'  BY <1>2, <3>3, <3>4 DEF CardOver, Over
    <3>6. CardsAreComplete'
      BY <1>2, <3>3, <3>4, MonthsType DEF CardOver, CardsAreComplete
    <3> QED BY <3>5, <3>6
  (* The job runs when the last month is over.                             *)
  <2>3. CASE MonthlyReportCard
    <3>0. PICK first, last : first = WIBDay(now) /\ last = FirstOfMonth(first - 1)
      OBVIOUS
    <3>1. first \in FirstDays /\ first > 0 /\ WIBHour(now) = ReportHour
          /\ UNCHANGED <<now, cards, saved>>
      BY <2>3, <3>0 DEF MonthlyReportCard, Due, trades
    <3>2. first \in Nat /\ now + Offset = MidnightUTC(first) + ReportHour
      BY <2>0, <3>0, <3>1, DayOfInstant
    <3>3. ThisMonth = first /\ LastMonth = last
      BY <3>0, <3>1, <3>2, MonthIs DEF ThisMonth, LastMonth
    <3>4. last \in FirstDays /\ last <= first - 1
          /\ \A k \in FirstDays : k <= first - 1 => k <= last
      BY <3>0, <3>1, <3>2, MonthOfDay
    <3>5. ~IsLast(last) /\ NextMonth(last) = first
      <4>1. \A j \in FirstDays : j > last => first <= j
        <5> TAKE j \in FirstDays
        <5>1. j \in Nat /\ last \in Nat  BY <3>4, MonthsType
        <5>2. j <= first - 1 => j <= last  BY <3>4
        <5> QED BY <3>2, <5>1, <5>2
      <4>2. last < first  BY <3>2, <3>4, MonthsType
      <4> QED BY <3>1, <3>4, <4>1, <4>2, NextMonthIs
    <3>6. Over(last)
      <4>1. MidnightUTC(first) \in Nat  BY <3>2, MidnightsApart
      <4>2. MidnightUTC(first) + MaxLatency <= now
        BY <2>0, <3>2, <4>1, CalendarAssumption, PeriodsAssumption
      <4> QED BY <3>5, <4>2 DEF Over
    <3>7. CardOver'
      <4>1. card' = None \/ card' = [pc |-> "trades", month |-> last, since |-> now]
        BY <2>3, <3>3 DEF MonthlyReportCard
      <4>2. Over(last)'  BY <3>1, <3>6 DEF Over
      <4>3. \A m \in Months : Over(m)' = Over(m)  BY <3>1 DEF Over
      <4> QED BY <1>2, <3>1, <3>4, <4>1, <4>2, <4>3 DEF CardOver
    <3> QED BY <1>2, <3>1, <3>7 DEF CardsAreComplete, OfMonth
  <2>4. CASE ReadMonth
    <3> USE <2>4 DEF ReadMonth, trades
    <3>1. card # None /\ card.month \in FirstDays /\ Over(card.month)
      BY <1>2 DEF CardOver
    <3>2. {t \in saved : InMonth(t.day, card.month)} = OfMonth(card.month)
      BY <2>0, <3>1, MonthFilter DEF OfMonth
    <3>3. CardOver'  BY <1>2, <3>1, <3>2 DEF CardOver, Over, OfMonth
    <3> QED BY <1>2, <3>3 DEF CardsAreComplete, OfMonth
  <2>5. CASE SaveReportCard
    <3> USE <2>5 DEF SaveReportCard, trades
    <3>1. card.month \in FirstDays /\ Over(card.month) /\ card.trades = OfMonth(card.month)
      BY <1>2 DEF CardOver
    <3>2. \A m \in Months :
            \/ cards'[m] = cards[m]
            \/ m = card.month /\ cards'[m] = [trades |-> card.trades]
      <4>1. CASE cards' = cards  BY <4>1
      <4>2. CASE cards' = [cards EXCEPT ![card.month] = [trades |-> card.trades]]
        BY <2>0, <4>2
      <4> QED BY <4>1, <4>2
    <3>3. CardOver'  BY <1>2, <3>1, <3>2 DEF CardOver, Over
    <3>4. CardsAreComplete'  BY <1>2, <3>1, <3>2 DEF CardsAreComplete, OfMonth
    <3> QED BY <3>3, <3>4
  <2>6. CASE PassTime \/ GiveUp \/ ProcessStops
    <3> USE <2>6 DEF PassTime, GiveUp, ProcessStops, trades
    <3>1. UNCHANGED <<cards, saved>> /\ card' \in {card, None} /\ now' \in {now, now + 1}
      OBVIOUS
    <3>2. CardOver'
      <4>1. \A m \in FirstDays : Over(m) => Over(m)'  BY <2>1, <3>1
      <4>2. CASE card' = None  BY <1>2, <3>1, <4>1, <4>2, MonthsType DEF CardOver
      <4>3. CASE card' = card
        BY <1>2, <3>1, <4>1, <4>3, MonthsType DEF CardOver, OfMonth
      <4> QED BY <3>1, <4>2, <4>3
    <3> QED BY <1>2, <3>1, <3>2 DEF CardsAreComplete, OfMonth
  <2>7. CASE ~(\/ Save \/ MonthlyReportCard \/ ReadMonth \/ SaveReportCard
               \/ PassTime \/ GiveUp \/ ProcessStops)
    <3>1. UNCHANGED <<now, saved, cards, card>>
      BY <1>2, <2>7 DEF PeriodsNext, periodsVars, trades, Record, SetGoal, CheckGoal, ReadTrades,
         CountTrades, CreateChallenge, FinalizeChallenge, WeeklyReport
    <3> QED BY <1>2, <3>1 DEF CardOver, Over, OfMonth, CardsAreComplete
  <2> QED BY <2>2, <2>3, <2>4, <2>5, <2>6, <2>7
<1>3. CardIInv => CardsAreComplete  OBVIOUS
<1> QED BY <1>1, <1>2, <1>3, PeriodsInvariance, PTL DEF PeriodsSpec

(***************************************************************************)
(* goal.go 76-88, 108-142 and 171-183: an achieved goal is backed by as    *)
(* many trades of its own month as it asks for, although its clock is read *)
(* twice, provided that a call does not take longer than the two zones are *)
(* apart (7 hours): then no trade is dated in the new month while a check  *)
(* that began in the old one counts.                                       *)
(***************************************************************************)
THEOREM GoalsAlwaysBacked ==
  ASSUME Offset >= MaxLatency
  PROVE  PeriodsSpec => []GoalIsBacked
<1>1. ASSUME PeriodsInit  PROVE GoalIsBacked
  BY <1>1 DEF PeriodsInit, GoalIsBacked
<1>2. ASSUME ClockIInv, GoalIsBacked, [PeriodsNext]_periodsVars  PROVE GoalIsBacked'
  <2>0. /\ now \in Nat /\ MaxLatency \in Nat /\ Offset \in Nat
        /\ IsFiniteSet(saved)
        /\ \A t \in saved : t.day \in Nat /\ t.day <= UTCDay(now)
        /\ goals \in [Months -> {None} \cup [target : Nat, achieved : BOOLEAN]]
    BY <1>2, PeriodsAssumption, CalendarAssumption DEF ClockIInv, PeriodTypes
  <2>1. ASSUME NEW m  PROVE IsFiniteSet(OfMonth(m)) /\ Cardinality(OfMonth(m)) \in Nat
    <3>1. OfMonth(m) \subseteq saved  BY DEF OfMonth
    <3> QED BY <2>0, <3>1, FS_Subset, FS_CardinalityType
  <2>2. CASE Save
    <3>1. PICK t \in saving : saved' = saved \cup {[id |-> t.id, day |-> t.day]}
      BY <2>2 DEF Save
    <3>2. ASSUME NEW m  PROVE Cardinality(OfMonth(m)) <= Cardinality(OfMonth(m)')
                              /\ Cardinality(OfMonth(m)') \in Nat
      <4>1. OfMonth(m) \subseteq OfMonth(m)'  BY <3>1 DEF OfMonth
      <4>2. IsFiniteSet(OfMonth(m)')
        <5>1. IsFiniteSet(saved')  BY <2>0, <3>1, FS_AddElement
        <5>2. OfMonth(m)' \subseteq saved'  BY DEF OfMonth
        <5> QED BY <5>1, <5>2, FS_Subset
      <4> QED BY <4>1, <4>2, FS_Subset, FS_CardinalityType
    <3>3. UNCHANGED goals  BY <2>2 DEF Save
    <3> SUFFICES ASSUME NEW m \in Months, goals[m] # None, goals[m].achieved
                 PROVE  Cardinality(OfMonth(m)') >= goals[m].target
      BY <3>3 DEF GoalIsBacked
    <3>4. goals[m].target \in Nat  BY <2>0
    <3>5. Cardinality(OfMonth(m)) >= goals[m].target  BY <1>2 DEF GoalIsBacked
    <3> QED BY <2>1, <3>2, <3>4, <3>5
  <2>3. ASSUME NEW target \in Targets, SetGoal(target)  PROVE GoalIsBacked'
    <3> USE <2>3 DEF SetGoal, trades
    <3>1. \A m \in Months : goals'[m] = goals[m]
                         \/ goals'[m] = [target |-> target, achieved |-> FALSE]
      BY <2>0
    <3> QED BY <1>2, <3>1 DEF GoalIsBacked, OfMonth
  (* The trades counted are not older than the month that begins at the    *)
  (* second reading of the clock and, since a call takes no longer than    *)
  (* WIB is ahead, not younger than the day of the first.                  *)
  <2>4. CASE CountTrades
    <3> USE <2>4 DEF CountTrades, trades
    <3> DEFINE day == WIBDay(check.since)
               counted == {t \in check.trades : SinceMonth(t.day, ThisMonth)}
    <3>1. /\ check.since \in Nat /\ check.since <= now /\ now <= check.since + MaxLatency
          /\ check.month = FirstOfMonth(day) /\ check.target \in Nat
          /\ check.trades \subseteq saved
      BY <1>2, <2>0 DEF ClockIInv, CheckInTime, InTime
    <3>2. day \in Nat /\ UTCDay(now) <= day
      <4>1. now <= check.since + Offset /\ check.since + Offset \in Nat  BY <2>0, <3>1
      <4>2. UTCDay(check.since + Offset) = day  BY DEF UTCDay, WIBDay
      <4> QED BY <2>0, <3>1, <4>1, <4>2, DaysInOrder, DayOfInstant
    <3>3. check.month <= ThisMonth /\ ThisMonth \in FirstDays
      <4>1. WIBDay(now) \in Nat /\ day <= WIBDay(now)
        BY <2>0, <3>1, DaysInOrder, DayOfInstant
      <4> QED BY <3>1, <3>2, <4>1, MonthsInOrder, MonthOfDay DEF ThisMonth
    <3>4. counted \subseteq OfMonth(check.month)
      <4> SUFFICES ASSUME NEW t \in check.trades, SinceMonth(t.day, ThisMonth)
                   PROVE  FirstOfMonth(t.day) = FirstOfMonth(day)
        BY <3>1 DEF OfMonth
      <4>1. t.day \in Nat /\ t.day <= UTCDay(now) /\ UTCDay(now) \in Nat
        BY <2>0, <3>1, DayOfInstant
      <4>2. ThisMonth <= t.day  BY <3>3, <4>1, MonthFilter
      <4>3. FirstOfMonth(day) \in Nat /\ ThisMonth \in Nat
        BY <3>2, <3>3, MonthOfDay, MonthsType
      <4>4. FirstOfMonth(day) <= t.day /\ t.day <= day
        BY <3>1, <3>2, <3>3, <4>1, <4>2, <4>3
      <4> QED BY <3>2, <4>1, <4>4, WithinMonth
    <3>5. Cardinality(counted) <= Cardinality(OfMonth(check.month))
          /\ Cardinality(counted) \in Nat
      BY <2>1, <3>4, FS_Subset, FS_CardinalityType
    <3>6. \A m \in Months :
            \/ goals'[m] = goals[m]
            \/ /\ m = check.month /\ Cardinality(counted) >= check.target
               /\ goals'[m] = [target |-> check.target, achieved |-> TRUE]
      BY <2>0
    <3>7. \A m : OfMonth(m)' = OfMonth(m)  BY DEF OfMonth
    <3> HIDE DEF counted, day
    <3> SUFFICES ASSUME NEW m \in Months, goals'[m] # None, goals'[m].achieved
                 PROVE  Cardinality(OfMonth(m)) >= goals'[m].target
      BY <3>7 DEF GoalIsBacked
    <3>8. CASE goals'[m] = goals[m]  BY <1>2, <3>8 DEF GoalIsBacked
    <3>9. CASE /\ m = check.month /\ Cardinality(counted) >= check.target
               /\ goals'[m] = [target |-> check.target, achieved |-> TRUE]
      BY <2>1, <3>1, <3>5, <3>9
    <3> QED BY <3>6, <3>8, <3>9
  <2>5. CASE ~(Save \/ (\E target \in Targets : SetGoal(target)) \/ CountTrades)
    <3>1. UNCHANGED <<saved, goals>>
      BY <1>2, <2>5 DEF PeriodsNext, periodsVars, trades, Record, CheckGoal, ReadTrades,
         CreateChallenge, FinalizeChallenge, WeeklyReport, MonthlyReportCard, ReadMonth,
         SaveReportCard, GiveUp, PassTime, ProcessStops
    <3> QED BY <1>2, <3>1 DEF GoalIsBacked, OfMonth
  <2> QED BY <2>2, <2>3, <2>4, <2>5
<1> QED BY <1>1, <1>2, PeriodsInvariance, PTL DEF PeriodsSpec
=============================================================================
