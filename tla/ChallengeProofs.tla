-------------------------- MODULE ChallengeProofs --------------------------
(***************************************************************************)
(* Proofs about Challenge: the prizes of a week are those of one standings *)
(* and a finalized week is completely paid, whatever fails or is           *)
(* restarted and whatever handlers do meanwhile.  For any members, weeks   *)
(* and handlers, on the invariant of the scheduler.                        *)
(***************************************************************************)
EXTENDS Challenge, SchedulerProofs, FiniteSetTheorems

USE ChallengeAssumption, SchedulerAssumption

Prize == [member : Members, xp : Nat]

LEMMA JobFacts == /\ Announce \in Jobs /\ Finalize \in Jobs /\ Announce # Finalize
                  /\ Announce \in Callers /\ Handlers \subseteq Callers
  BY DEF Announce, Finalize, Callers

LEMMA HoursAreNat == Hours \subseteq Nat
  BY DEF Hours

LEMMA WeekOfHour == \A h \in Hours : YearWeek(h) \in Weeks
  BY DEF Weeks

(* A caller's week is a week of the clock, in WIB or on the host.          *)
LEMMA WeekOfCaller == ASSUME hour \in Hours, NEW c \in Callers PROVE WeekOf(c) \in Weeks
<1>1. 0 \in Hours /\ (hour >= HostLag => hour - HostLag \in Hours)
  BY DEF Hours
<1>2. CASE c = Announce
  BY <1>2, WeekOfHour DEF WeekOf
<1>3. CASE c # Announce
  BY <1>1, <1>3, WeekOfHour, HoursAreNat DEF WeekOf
<1>4. QED
  BY <1>2, <1>3

LEMMA PrizeIsNat == \A rank \in Nat : PrizeXP(rank) \in Nat
  BY DEF PrizeXP, XPChallenge1st, XPChallenge2nd, XPChallenge3rd, XPChallengeParticip

LEMMA RankingFacts ==
  ASSUME NEW s \in Rankings
  PROVE  /\ s \in Seq(Members) /\ Len(s) \in Nat
         /\ \A i \in 1..Len(s) : s[i] \in Members
         /\ s # <<>> => s[1] \in Members /\ Len(s) >= 1
<1>1. PICK n \in 0..Cardinality(Members) : s \in [1..n -> Members]
  BY DEF Rankings
<1>2. n \in Nat
  BY <1>1, FS_CardinalityType
<1>3. s \in Seq(Members)
  BY <1>1, <1>2
<1>4. QED
  BY <1>3

LEMMA EmptyRanking == <<>> \in Rankings
<1>1. 0 \in 0..Cardinality(Members)
  BY FS_CardinalityType
<1>2. <<>> \in [1..0 -> Members] /\ \A i, j \in 1..0 : i # j => <<>>[i] # <<>>[j]
  OBVIOUS
<1>3. <<>> \in {s \in [1..0 -> Members] : \A i, j \in 1..0 : i # j => s[i] # s[j]}
  BY <1>2
<1>4. QED
  BY <1>1, <1>3 DEF Rankings

LEMMA StateTypes ==
  ASSUME IInv
  PROVE  /\ hour \in Hours /\ state \in [Jobs -> {"new", "waiting", "running"}]
         /\ fired \in [Jobs -> [Hours -> Nat]]
         /\ challenge \in [Weeks -> {"none", "open", "final"}]
         /\ prizes \in [Weeks -> Seq(Prize)] /\ badges \subseteq Members
         /\ badgeXP \in [Members -> Nat]
         /\ saving \in [Callers -> Weeks \cup {NotSaving}]
         /\ errors \in Nat /\ standings \in [Weeks -> Rankings]
  BY DEF IInv, TypeOK, SchedTypeOK, Prize

LEMMA IdleIsNotAtWork == \A f \in AtWork : f # Idle /\ f.step # "idle"
  BY DEF AtWork, Idle

LEMMA WorkFacts ==
  ASSUME IInv, fin.step # "idle"
  PROVE  /\ fin # Idle /\ FinOK /\ state[Finalize] = "running"
         /\ fin \in AtWork /\ fin.week \in Weeks /\ fin.results \in Rankings /\ fin.rank \in Nat
<1>1. fin # Idle /\ FinOK /\ state[Finalize] = "running"
  BY DEF IInv, TypeOK, Idle
<1>2. fin \in AtWork
  BY <1>1 DEF FinOK
<1>3. QED
  BY <1>1, <1>2 DEF AtWork

LEMMA IdleFacts == ASSUME IInv, state[Finalize] # "running" PROVE fin = Idle
  BY IdleIsNotAtWork DEF IInv, TypeOK, FinOK

(* What the job ran stays run.                                             *)
RunsStay == \A h \in Hours : fired[Finalize][h] > 0 => fired'[Finalize][h] > 0

LEMMA RanStays == ASSUME RunsStay, NEW w, Ran(w) PROVE Ran(w)'
  BY DEF RunsStay, Ran, YearWeek

(***************************************************************************)
(* What others do: they may open a challenge, again or not.                *)
(***************************************************************************)
LEMMA OthersKeep ==
  ASSUME IInv, SchedIInv', RunsStay,
         state'[Finalize] = "running" <=> state[Finalize] = "running",
         UNCHANGED <<prizes, badges, badgeXP, fin, errors, standings>>,
         challenge' \in [Weeks -> {"none", "open", "final"}],
         \A w \in Weeks : challenge'[w] = challenge[w] \/ challenge'[w] = "open",
         saving' \in [Callers -> Weeks \cup {NotSaving}]
  PROVE  IInv'
<1>1. TypeOK'
  BY DEF IInv, TypeOK, SchedIInv
<1>2. PrizesOfOneRanking' /\ FinalizedIsPaid'
  BY DEF IInv, PrizesOfOneRanking, FinalizedIsPaid
<1>3. fin' = Idle \/ FinOK'
  <2>1. CASE fin = Idle
    BY <2>1
  <2>2. CASE fin # Idle
    <3>1. FinOK /\ fin.week \in Weeks
      BY <2>2, WorkFacts, IdleIsNotAtWork DEF IInv, FinOK
    <3>2. Ran(fin.week)'
      <4>1. PICK w \in Weeks : w = fin.week
        BY <3>1
      <4>2. Ran(w)'
        BY <4>1, <3>1, RanStays DEF FinOK
      <4>3. QED
        BY <4>1, <4>2
    <3>3. QED
      BY <3>1, <3>2 DEF FinOK, Untouched
  <2>3. QED
    BY <2>1, <2>2
<1>4. \A w \in Weeks : Untouched(w)' \/ Ran(w)'
  BY RanStays DEF IInv, Untouched
<1>5. QED
  BY <1>1, <1>2, <1>3, <1>4 DEF IInv

(* The job returns, is cut off or fails: nothing is taken back.            *)
LEMMA StopKeeps ==
  ASSUME IInv, SchedIInv', RunsStay, state'[Finalize] # "running", fin' = Idle,
         UNCHANGED <<prizes, badges, badgeXP, standings>>, errors' \in Nat,
         challenge' \in [Weeks -> {"none", "open", "final"}], FinalizedIsPaid',
         saving' \in [Callers -> Weeks \cup {NotSaving}]
  PROVE  IInv'
<1>1. TypeOK'
  BY DEF IInv, TypeOK, SchedIInv, Idle
<1>2. PrizesOfOneRanking'
  BY DEF IInv, PrizesOfOneRanking
<1>3. \A w \in Weeks : Untouched(w)' \/ Ran(w)'
  BY RanStays DEF IInv, Untouched
<1>4. QED
  BY <1>1, <1>2, <1>3 DEF IInv

(* Steps of FinalizeChallenge that only go on.                             *)
LEMMA WorkKeeps ==
  ASSUME IInv, UNCHANGED schedVars, fin.step # "idle", FinOK', fin'.week = fin.week,
         UNCHANGED <<challenge, saving, errors>>,
         prizes' \in [Weeks -> Seq(Prize)], badges' \subseteq Members,
         badgeXP' \in [Members -> Nat], standings' \in [Weeks -> Rankings],
         \A w \in Weeks \ {fin.week} : prizes'[w] = prizes[w] /\ standings'[w] = standings[w],
         PrizesOfOneRanking', FinalizedIsPaid'
  PROVE  IInv'
<1>1. SchedIInv' /\ SchedTypeOK' /\ UNCHANGED <<state, fired>>
  <2>1. SchedIInv'
    BY SchedNextIInv DEF IInv
  <2>2. QED
    BY <2>1 DEF SchedIInv, schedVars
<1>2. fin' \in AtWork /\ state'[Finalize] = "running"
  BY <1>1, WorkFacts DEF FinOK
<1>3. TypeOK'
  BY <1>1, <1>2, StateTypes DEF TypeOK, AtWork, Prize
<1>4. \A w \in Weeks : Untouched(w)' \/ Ran(w)'
  <2> SUFFICES ASSUME NEW w \in Weeks PROVE Untouched(w)' \/ Ran(w)'
    OBVIOUS
  <2>1. CASE w = fin.week
    BY <2>1 DEF FinOK
  <2>2. CASE w # fin.week
    BY <2>2, <1>1 DEF IInv, Untouched, Ran, YearWeek
  <2>3. QED
    BY <2>1, <2>2
<1>5. QED
  BY <1>1, <1>3, <1>4 DEF IInv

LEMMA SchedSame ==
  ASSUME IInv, UNCHANGED schedVars
  PROVE  SchedIInv' /\ RunsStay /\ UNCHANGED <<hour, state, fired>>
<1>1. SchedIInv'
  BY SchedNextIInv DEF IInv
<1>2. QED
  BY <1>1 DEF schedVars, clock, RunsStay

-----------------------------------------------------------------------------
(* GetOrCreateChallenge, by a handler or by the announcement.              *)
LEMMA GetKeeps ==
  ASSUME IInv, SchedIInv', RunsStay, hour \in Hours,
         state'[Finalize] = "running" <=> state[Finalize] = "running",
         NEW c \in Callers, GetChallenge(c)
  PROVE  IInv'
<1>1. PICK w \in Weeks : w = WeekOf(c)
  BY WeekOfCaller
<1>2. saving' = [saving EXCEPT ![c] = w]
  BY <1>1 DEF GetChallenge
<1>3. saving' \in [Callers -> Weeks \cup {NotSaving}]
  BY <1>2, StateTypes
<1>4. QED
  BY <1>3, StateTypes, OthersKeep DEF GetChallenge

LEMMA SaveKeeps ==
  ASSUME IInv, UNCHANGED schedVars, NEW c \in Callers, SaveChallenge(c) PROVE IInv'
<1>1. PICK w \in Weeks : w = saving[c]
  BY StateTypes DEF SaveChallenge
<1>2. /\ challenge' = [challenge EXCEPT ![w] = "open"]
      /\ saving' = [saving EXCEPT ![c] = NotSaving]
      /\ UNCHANGED <<prizes, badges, badgeXP, fin, errors, standings>>
  BY <1>1 DEF SaveChallenge
<1>3. /\ challenge' \in [Weeks -> {"none", "open", "final"}]
      /\ \A v \in Weeks : challenge'[v] = challenge[v] \/ challenge'[v] = "open"
      /\ saving' \in [Callers -> Weeks \cup {NotSaving}]
  BY <1>2, StateTypes
<1>4. QED
  BY <1>2, <1>3, SchedSame, OthersKeep

LEMMA SaveFailsKeeps ==
  ASSUME IInv, UNCHANGED schedVars, NEW c \in Callers, SaveFails(c) PROVE IInv'
<1>1. saving' \in [Callers -> Weeks \cup {NotSaving}]
  BY StateTypes DEF SaveFails
<1>2. QED
  BY <1>1, StateTypes, SchedSame, OthersKeep DEF SaveFails

(* The scheduler's part of the announcement.                               *)
LEMMA FireFacts ==
  ASSUME IInv, NEW j \in Jobs, Fire(j)
  PROVE  /\ SchedIInv' /\ RunsStay /\ state'[j] = "running" /\ state[j] = "waiting"
         /\ hour \in Due[j] /\ hour' = hour /\ fired'[j][hour] = fired[j][hour] + 1
         /\ \A k \in Jobs \ {j} : state'[k] = state[k]
<1>1. SchedIInv'
  BY FireIInv DEF IInv
<1>2. /\ fired' = [fired EXCEPT ![j][hour] = fired[j][hour] + 1]
      /\ state' = [state EXCEPT ![j] = "running"]
      /\ state[j] = "waiting" /\ hour \in Due[j] /\ hour' = hour
  BY DEF Fire, Receive, ShouldRun, clock
<1>3. /\ fired'[j][hour] = fired[j][hour] + 1
      /\ \A h \in Hours : fired[j][h] > 0 => fired'[j][h] > 0
      /\ \A k \in Jobs \ {j} : fired'[k] = fired[k] /\ state'[k] = state[k]
  BY <1>2, StateTypes
<1>4. RunsStay
  BY <1>3, JobFacts DEF RunsStay
<1>5. QED
  BY <1>1, <1>2, <1>3, <1>4, StateTypes

LEMMA FinishFacts ==
  ASSUME IInv, NEW j \in Jobs, Finish(j)
  PROVE  /\ SchedIInv' /\ RunsStay /\ state'[j] = "waiting"
         /\ \A k \in Jobs \ {j} : state'[k] = state[k]
<1>1. SchedIInv'
  BY FinishIInv DEF IInv
<1>2. QED
  BY <1>1, StateTypes DEF Finish, RunsStay

LEMMA AnnounceStartKeeps == ASSUME IInv, AnnounceStart PROVE IInv'
<1>1. SchedIInv' /\ RunsStay /\ state'[Finalize] = state[Finalize] /\ hour \in Hours
  BY FireFacts, JobFacts, StateTypes DEF AnnounceStart
<1>2. CASE GetChallenge(Announce)
  BY <1>1, <1>2, JobFacts, GetKeeps
<1>3. CASE UNCHANGED chalVars
  BY <1>1, <1>3, StateTypes, OthersKeep DEF chalVars
<1>4. QED
  BY <1>2, <1>3 DEF AnnounceStart

LEMMA AnnounceEndKeeps == ASSUME IInv, AnnounceEnd PROVE IInv'
<1>1. SchedIInv' /\ RunsStay /\ state'[Finalize] = state[Finalize]
  BY FinishFacts, JobFacts DEF AnnounceEnd
<1>2. QED
  BY <1>1, StateTypes, OthersKeep DEF AnnounceEnd, chalVars

LEMMA ClockKeeps == ASSUME IInv, Clock PROVE IInv'
<1>1. /\ SchedIInv' /\ RunsStay
      /\ state'[Finalize] = "running" <=> state[Finalize] = "running"
  <2>1. CASE PassMinute
    BY <2>1, PassMinuteIInv DEF PassMinute, RunsStay, IInv
  <2>2. ASSUME NEW j \in Jobs, StartTicker(j) PROVE <1>1!1 /\ <1>1!2
    <3>1. SchedIInv'
      BY <2>2, StartTickerIInv DEF IInv
    <3>2. QED
      BY <2>2, <3>1, StateTypes DEF StartTicker, RunsStay
  <2>3. ASSUME NEW j \in Jobs, Skip(j) PROVE <1>1!1 /\ <1>1!2
    <3>1. SchedIInv'
      BY <2>3, SkipIInv DEF IInv
    <3>2. QED
      BY <2>3, <3>1 DEF Skip, RunsStay
  <2>4. QED
    BY <2>1, <2>2, <2>3 DEF Clock
<1>2. QED
  BY <1>1, StateTypes, OthersKeep DEF Clock, chalVars

-----------------------------------------------------------------------------
(***************************************************************************)
(* The job starts in the only hour of the week in which it is due, and did *)
(* not run in it yet: the week is untouched.                               *)
(***************************************************************************)
LEMMA FinalizeStartKeeps == ASSUME IInv, FinalizeStart PROVE IInv'
<1>1. PICK w \in Weeks : w = YearWeek(hour)
  BY StateTypes, WeekOfHour
<1>2. /\ Fire(Finalize)
      /\ fin' = [step |-> "get", week |-> w, results |-> <<>>, rank |-> 1]
      /\ UNCHANGED <<challenge, prizes, badges, badgeXP, saving, errors, standings>>
  BY <1>1 DEF FinalizeStart
<1>3. /\ SchedIInv' /\ RunsStay /\ state'[Finalize] = "running" /\ state[Finalize] = "waiting"
      /\ hour \in Due[Finalize] /\ hour \in Hours
      /\ fired'[Finalize][hour] = fired[Finalize][hour] + 1
  BY <1>2, FireFacts, JobFacts, StateTypes
<1>4. fired[Finalize][hour] = 0 /\ fired'[Finalize][hour] = 1
  <2>1. fired'[Finalize][hour] <= 1 /\ fired[Finalize][hour] \in Nat
    BY <1>3, JobFacts, StateTypes DEF SchedIInv, AtMostOncePerHour
  <2>2. QED
    BY <2>1, <1>3
<1>5. ~Ran(w)
  <2> SUFFICES ASSUME NEW h \in Hours, h \in Due[Finalize], YearWeek(h) = w, fired[Finalize][h] > 0
               PROVE  FALSE
    BY DEF Ran
  <2>1. h = hour
    BY <1>1, <1>3
  <2>2. QED
    BY <2>1, <1>4
<1>6. Untouched(w)
  BY <1>5 DEF IInv
<1>7. Ran(w)'
  BY <1>1, <1>3, <1>4 DEF Ran, YearWeek
<1>8. fin' \in AtWork /\ fin'.step = "get" /\ fin'.week = w
  BY <1>2, EmptyRanking DEF AtWork
<1>9. FinOK'
  BY <1>2, <1>6, <1>7, <1>8 DEF FinOK, Untouched
<1>10. TypeOK' /\ PrizesOfOneRanking' /\ FinalizedIsPaid'
  BY <1>2, <1>3, <1>8 DEF IInv, TypeOK, SchedIInv, PrizesOfOneRanking, FinalizedIsPaid
<1>11. \A v \in Weeks : Untouched(v)' \/ Ran(v)'
  BY <1>2, <1>3, RanStays DEF IInv, Untouched
<1>12. QED
  BY <1>3, <1>9, <1>10, <1>11 DEF IInv

LEMMA FinalizeGetKeeps == ASSUME IInv, FinalizeGet PROVE IInv'
<1>1. /\ fin.step = "get" /\ FinOK /\ fin \in AtWork /\ fin.week \in Weeks
      /\ UNCHANGED <<challenge, prizes, badges, badgeXP, saving, errors, standings>>
  BY WorkFacts DEF FinalizeGet
<1>2. PrizesOfOneRanking' /\ FinalizedIsPaid'
  BY <1>1 DEF IInv, PrizesOfOneRanking, FinalizedIsPaid
<1>3. CASE challenge[fin.week] = "open"
  <2>1. fin' = [fin EXCEPT !.step = "standings"] /\ UNCHANGED schedVars
    BY <1>3 DEF FinalizeGet, FinGoto
  <2>2. /\ fin' \in AtWork /\ fin'.step = "standings" /\ fin'.week = fin.week
        /\ fin'.rank = fin.rank /\ UNCHANGED fired
    BY <2>1, <1>1, SchedSame DEF AtWork
  <2>3. FinOK'
    BY <2>2, <1>1, <1>3 DEF FinOK, Untouched, Ran, YearWeek
  <2>4. QED
    BY <2>1, <2>2, <2>3, <1>1, <1>2, StateTypes, WorkKeeps
<1>4. CASE challenge[fin.week] # "open"
  <2>1. fin' = Idle /\ Finish(Finalize)
    BY <1>4 DEF FinalizeGet
  <2>2. SchedIInv' /\ RunsStay /\ state'[Finalize] # "running"
    BY <2>1, FinishFacts, JobFacts
  <2>3. QED
    BY <2>1, <2>2, <1>1, <1>2, StateTypes, StopKeeps
<1>5. QED
  BY <1>3, <1>4

(* The standings of an untouched week.                                     *)
LEMMA FinalizeStandingsKeeps ==
  ASSUME IInv, NEW s \in Rankings, FinalizeStandings(s) PROVE IInv'
<1>1. PICK w \in Weeks : w = fin.week
  BY WorkFacts DEF FinalizeStandings
<1>2. /\ fin.step = "standings" /\ FinOK /\ fin \in AtWork
      /\ fin' = [fin EXCEPT !.results = s, !.step = IF s = <<>> THEN "save" ELSE "award"]
      /\ standings' = [standings EXCEPT ![w] = s] /\ UNCHANGED schedVars
      /\ UNCHANGED <<challenge, prizes, badges, badgeXP, saving, errors>>
  BY <1>1, WorkFacts DEF FinalizeStandings
<1>3. /\ fin' \in AtWork /\ fin'.week = w /\ fin'.results = s /\ fin'.rank = fin.rank
      /\ fin'.step = (IF s = <<>> THEN "save" ELSE "award")
  BY <1>1, <1>2 DEF AtWork
<1>4. /\ standings' \in [Weeks -> Rankings] /\ standings'[w] = s
      /\ \A v \in Weeks \ {w} : standings'[v] = standings[v]
  BY <1>2, StateTypes
<1>5. /\ challenge[w] = "open" /\ prizes[w] = <<>> /\ Len(prizes[w]) = 0
      /\ fin.rank = 1 /\ UNCHANGED fired
  BY <1>1, <1>2, SchedSame DEF FinOK, Untouched
<1>6. FinOK'
  <2>1. s # <<>> => Len(s) >= 1
    BY RankingFacts
  <2>2. Len(s) = 0 <=> s = <<>>
    BY RankingFacts
  <2>3. Ran(fin.week)'
    BY <1>2, <1>3, <1>5 DEF FinOK, Ran, YearWeek
  <2>4. QED
    BY <2>1, <2>2, <2>3, <1>1, <1>2, <1>3, <1>4, <1>5 DEF FinOK, Ran, YearWeek
<1>7. PrizesOfOneRanking'
  <2>1. ASSUME NEW v \in Weeks
        PROVE  /\ Len(prizes[v]) <= Len(standings'[v])
               /\ \A i \in 1..Len(prizes[v]) :
                    prizes[v][i] = [member |-> standings'[v][i], xp |-> PrizeXP(i)]
    <3>1. CASE v = w
      BY <3>1, <1>4, <1>5, RankingFacts
    <3>2. CASE v # w
      BY <3>2, <1>4 DEF IInv, PrizesOfOneRanking
    <3>3. QED
      BY <3>1, <3>2
  <2>2. QED
    BY <2>1, <1>2 DEF PrizesOfOneRanking, PrizeXP
<1>8. FinalizedIsPaid'
  BY <1>2, <1>4, <1>5 DEF IInv, FinalizedIsPaid
<1>9. QED
  BY <1>1, <1>2, <1>3, <1>4, <1>6, <1>7, <1>8, StateTypes, WorkKeeps

(* The next prize is that of the next rank.                                *)
LEMMA FinalizeAwardKeeps == ASSUME IInv, FinalizeAward PROVE IInv'
<1>1. PICK w \in Weeks : w = fin.week
  BY WorkFacts DEF FinalizeAward
<1>2. PICK k \in Nat : k = fin.rank
  BY WorkFacts DEF FinalizeAward
<1>3. PICK s \in Rankings : s = fin.results
  BY WorkFacts DEF FinalizeAward
<1> DEFINE p == [member |-> s[k], xp |-> PrizeXP(k)]
<1>4. /\ fin.step = "award" /\ FinOK /\ fin \in AtWork
      /\ prizes' = [prizes EXCEPT ![w] = Append(prizes[w], p)]
      /\ fin' = (IF k < Len(s) THEN [fin EXCEPT !.rank = k + 1] ELSE [fin EXCEPT !.step = "badge"])
      /\ UNCHANGED schedVars
      /\ UNCHANGED <<challenge, badges, badgeXP, saving, errors, standings>>
  BY <1>1, <1>2, <1>3, WorkFacts DEF FinalizeAward
<1>5. /\ challenge[w] = "open" /\ s = standings[w] /\ s # <<>>
      /\ k = Len(prizes[w]) + 1 /\ k <= Len(s) /\ UNCHANGED fired
  BY <1>1, <1>2, <1>3, <1>4, SchedSame DEF FinOK
<1>6. prizes[w] \in Seq(Prize) /\ Len(prizes[w]) \in Nat /\ Len(s) \in Nat /\ s[k] \in Members
  BY <1>5, StateTypes, RankingFacts
<1>7. p \in Prize
  BY <1>6, PrizeIsNat DEF Prize
<1> HIDE DEF p
<1>8. /\ prizes' \in [Weeks -> Seq(Prize)] /\ Len(prizes'[w]) = k
      /\ \A i \in 1..k : prizes'[w][i] = IF i = k THEN p ELSE prizes[w][i]
      /\ \A v \in Weeks \ {w} : prizes'[v] = prizes[v]
  BY <1>4, <1>5, <1>6, <1>7, StateTypes
<1>9. /\ fin' \in AtWork /\ fin'.week = w /\ fin'.results = s
      /\ fin'.step = (IF k < Len(s) THEN "award" ELSE "badge")
      /\ fin'.step = "award" => fin'.rank = k + 1
  BY <1>1, <1>2, <1>3, <1>4 DEF AtWork
<1>10. FinOK'
  <2>1. Ran(w)'
    BY <1>1, <1>4, <1>5 DEF FinOK, Ran, YearWeek
  <2>2. /\ challenge' = challenge /\ standings' = standings
        /\ fin'.step \in {"award", "badge"} /\ fin'.week = w
    BY <1>4, <1>9
  <2>3. fin'.step = "award" => fin'.rank = Len(prizes'[w]) + 1 /\ fin'.rank <= Len(s)
    BY <1>5, <1>6, <1>8, <1>9
  <2>4. fin'.step = "badge" => Len(prizes'[w]) = Len(s)
    BY <1>5, <1>6, <1>8, <1>9
  <2>5. QED
    BY <2>1, <2>2, <2>3, <2>4, <1>5, <1>9 DEF FinOK
<1>11. PrizesOfOneRanking'
  <2>1. ASSUME NEW v \in Weeks
        PROVE  /\ Len(prizes'[v]) <= Len(standings[v])
               /\ \A i \in 1..Len(prizes'[v]) :
                    prizes'[v][i] = [member |-> standings[v][i], xp |-> PrizeXP(i)]
    <3>1. CASE v = w
      <4>1. Len(prizes'[w]) = k /\ standings[w] = s /\ k <= Len(s)
        BY <1>5, <1>8
      <4>2. ASSUME NEW i \in 1..k
            PROVE  prizes'[w][i] = [member |-> s[i], xp |-> PrizeXP(i)]
        <5>1. CASE i = k
          BY <5>1, <1>8 DEF p
        <5>2. CASE i # k
          <6>1. i \in 1..Len(prizes[w])
            BY <5>2, <1>5, <1>6
          <6>2. prizes[w][i] = [member |-> standings[w][i], xp |-> PrizeXP(i)]
            BY <6>1 DEF IInv, PrizesOfOneRanking
          <6>3. QED
            BY <6>2, <5>2, <4>1, <1>8
        <5>3. QED
          BY <5>1, <5>2
      <4>3. QED
        BY <3>1, <4>1, <4>2
    <3>2. CASE v # w
      BY <3>2, <1>8 DEF IInv, PrizesOfOneRanking
    <3>3. QED
      BY <3>1, <3>2
  <2>2. QED
    BY <2>1, <1>4 DEF PrizesOfOneRanking, PrizeXP
<1>12. FinalizedIsPaid'
  BY <1>4, <1>5, <1>8 DEF IInv, FinalizedIsPaid
<1>13. QED
  BY <1>1, <1>4, <1>8, <1>9, <1>10, <1>11, <1>12, StateTypes, WorkKeeps

(* The winner's badge: stored once, then paid once.                        *)
LEMMA AwardBadgeKeeps == ASSUME IInv, AwardBadge PROVE IInv'
<1>1. /\ fin.step = "badge" /\ FinOK /\ fin \in AtWork /\ fin.week \in Weeks
      /\ fin.results \in Rankings /\ fin.results # <<>>
      /\ UNCHANGED schedVars
      /\ UNCHANGED <<challenge, prizes, badgeXP, saving, errors, standings>>
  BY WorkFacts DEF AwardBadge, FinOK
<1>2. PICK m \in Members : m = fin.results[1]
  BY <1>1, RankingFacts
<1>3. IF m \in badges THEN fin' = [fin EXCEPT !.step = "save"] /\ UNCHANGED badges
      ELSE fin' = [fin EXCEPT !.step = "badgeXP"] /\ badges' = badges \cup {m}
  BY <1>2 DEF AwardBadge, FinGoto
<1>4. /\ fin' \in AtWork /\ fin'.week = fin.week /\ fin'.results = fin.results
      /\ fin'.step = (IF m \in badges THEN "save" ELSE "badgeXP")
      /\ badges' = badges \cup {m} /\ UNCHANGED fired
  BY <1>1, <1>3, SchedSame DEF AtWork
<1>5. m \notin badges => badgeXP[m] = 0
  <2>1. badgeXP[m] \in Nat /\ badgeXP[m] <= 1 /\ (badgeXP[m] = 1 => m \in badges)
    BY StateTypes DEF IInv, FinalizedIsPaid
  <2>2. QED
    BY <2>1
<1>6. FinOK'
  <2>1. Ran(fin.week)'
    BY <1>1, <1>4 DEF FinOK, Ran, YearWeek
  <2>2. QED
    BY <2>1, <1>1, <1>2, <1>4, <1>5 DEF FinOK, Ran, YearWeek
<1>7. PrizesOfOneRanking' /\ FinalizedIsPaid'
  BY <1>1, <1>4 DEF IInv, PrizesOfOneRanking, FinalizedIsPaid
<1>8. badges' \subseteq Members
  BY <1>4, StateTypes
<1>9. QED
  BY <1>1, <1>4, <1>6, <1>7, <1>8, StateTypes, WorkKeeps

LEMMA AwardBadgeXPKeeps == ASSUME IInv, AwardBadgeXP PROVE IInv'
<1>1. /\ fin.step = "badgeXP" /\ FinOK /\ fin \in AtWork /\ fin.week \in Weeks
      /\ fin.results \in Rankings /\ fin.results # <<>>
      /\ fin' = [fin EXCEPT !.step = "save"] /\ UNCHANGED schedVars
      /\ UNCHANGED <<challenge, prizes, badges, saving, errors, standings>>
  BY WorkFacts DEF AwardBadgeXP, FinGoto, FinOK
<1>2. PICK m \in Members : m = fin.results[1]
  BY <1>1, RankingFacts
<1>3. m \in badges /\ badgeXP[m] = 0 /\ badgeXP' = [badgeXP EXCEPT ![m] = @ + 1]
  BY <1>1, <1>2 DEF AwardBadgeXP, FinOK
<1>4. /\ badgeXP' \in [Members -> Nat] /\ badgeXP'[m] = 1
      /\ \A n \in Members \ {m} : badgeXP'[n] = badgeXP[n]
  BY <1>3, StateTypes
<1>5. /\ fin' \in AtWork /\ fin'.week = fin.week /\ fin'.results = fin.results
      /\ fin'.step = "save" /\ UNCHANGED fired
  BY <1>1, SchedSame DEF AtWork
<1>6. FinOK'
  BY <1>1, <1>5 DEF FinOK, Ran, YearWeek
<1>7. PrizesOfOneRanking'
  BY <1>1 DEF IInv, PrizesOfOneRanking
<1>8. FinalizedIsPaid'
  BY <1>1, <1>3, <1>4 DEF IInv, FinalizedIsPaid
<1>9. QED
  BY <1>1, <1>4, <1>5, <1>6, <1>7, <1>8, StateTypes, WorkKeeps

(* The challenge becomes final when all is paid.                           *)
LEMMA SaveFinalizedKeeps == ASSUME IInv, SaveFinalized PROVE IInv'
<1>1. PICK w \in Weeks : w = fin.week
  BY WorkFacts DEF SaveFinalized
<1>2. /\ fin.step = "save" /\ FinOK /\ challenge' = [challenge EXCEPT ![w] = "final"]
      /\ fin' = Idle /\ Finish(Finalize)
      /\ UNCHANGED <<prizes, badges, badgeXP, saving, errors, standings>>
  BY <1>1, WorkFacts DEF SaveFinalized
<1>3. SchedIInv' /\ RunsStay /\ state'[Finalize] # "running"
  BY <1>2, FinishFacts, JobFacts
<1>4. /\ Len(prizes[w]) = Len(standings[w])
      /\ standings[w] # <<>> => standings[w][1] \in badges
  BY <1>1, <1>2 DEF FinOK
<1>5. FinalizedIsPaid'
  BY <1>2, <1>4, StateTypes DEF IInv, FinalizedIsPaid
<1>6. challenge' \in [Weeks -> {"none", "open", "final"}]
  BY <1>2, StateTypes
<1>7. QED
  BY <1>2, <1>3, <1>5, <1>6, StateTypes, StopKeeps

LEMMA FinalizeErrorKeeps == ASSUME IInv, FinalizeError PROVE IInv'
<1>1. SchedIInv' /\ RunsStay /\ state'[Finalize] # "running"
  BY FinishFacts, JobFacts DEF FinalizeError
<1>2. FinalizedIsPaid'
  BY DEF FinalizeError, IInv, FinalizedIsPaid
<1>3. QED
  BY <1>1, <1>2, StateTypes, StopKeeps DEF FinalizeError

LEMMA CrashKeeps == ASSUME IInv, Crash PROVE IInv'
<1>1. SchedIInv'
  BY RestartIInv DEF Crash, IInv
<1>2. RunsStay /\ state'[Finalize] # "running"
  BY JobFacts DEF Crash, Restart, RunsStay
<1>3. FinalizedIsPaid'
  BY DEF Crash, IInv, FinalizedIsPaid
<1>4. QED
  BY <1>1, <1>2, <1>3, StateTypes, StopKeeps DEF Crash

-----------------------------------------------------------------------------
LEMMA InitIInv == Init => IInv
<1> SUFFICES ASSUME Init PROVE IInv
  OBVIOUS
<1>1. SchedIInv /\ SchedTypeOK
  BY SchedInitIInv DEF Init, SchedIInv
<1>2. /\ challenge = [w \in Weeks |-> "none"] /\ prizes = [w \in Weeks |-> <<>>]
      /\ badges = {} /\ badgeXP = [m \in Members |-> 0] /\ fin = Idle
      /\ saving = [c \in Callers |-> NotSaving] /\ errors = 0
      /\ standings = [w \in Weeks |-> <<>>] /\ state[Finalize] = "new"
  BY JobFacts DEF Init, SchedInit
<1>3. TypeOK
  BY <1>1, <1>2, EmptyRanking DEF TypeOK, Idle
<1>4. PrizesOfOneRanking /\ FinalizedIsPaid
  BY <1>2 DEF PrizesOfOneRanking, FinalizedIsPaid
<1>5. QED
  BY <1>1, <1>2, <1>3, <1>4 DEF IInv, Untouched

LEMMA NextIInv == IInv /\ [Next]_vars => IInv'
<1> SUFFICES ASSUME IInv, [Next]_vars PROVE IInv'
  OBVIOUS
<1>1. CASE Clock
  BY <1>1, ClockKeeps
<1>2. ASSUME NEW c \in Handlers, HandleChallenge(c) PROVE IInv'
  BY <1>2, GetKeeps, SaveKeeps, SaveFailsKeeps, SchedSame, StateTypes, JobFacts DEF HandleChallenge
<1>3. CASE AnnounceStart \/ AnnounceEnd
  BY <1>3, AnnounceStartKeeps, AnnounceEndKeeps
<1>4. CASE AnnounceSave
  BY <1>4, SaveKeeps, SaveFailsKeeps, JobFacts DEF AnnounceSave
<1>5. CASE FinalizeStep
  BY <1>5, FinalizeStartKeeps, FinalizeGetKeeps, FinalizeStandingsKeeps, FinalizeAwardKeeps,
     AwardBadgeKeeps, AwardBadgeXPKeeps, SaveFinalizedKeeps, FinalizeErrorKeeps
  DEF FinalizeStep
<1>6. CASE Crash
  BY <1>6, CrashKeeps
<1>7. CASE UNCHANGED vars
  BY <1>7, SchedSame, StateTypes, OthersKeep DEF vars, chalVars
<1>8. QED
  BY <1>1, <1>2, <1>3, <1>4, <1>5, <1>6, <1>7 DEF Next

-----------------------------------------------------------------------------
(* The inductive invariant of the weekly challenge.                        *)
THEOREM ChallengeInvariance == Spec => []IInv
  BY InitIInv, NextIInv, PTL DEF Spec

(* Challenges, prizes, badges and the job's variables are of their types,  *)
(* and the body is at work exactly while the scheduler runs the job.       *)
THEOREM ChallengeTyped == Spec => []TypeOK
<1>1. IInv => TypeOK
  BY DEF IInv
<1>2. QED
  BY <1>1, ChallengeInvariance, PTL

(***************************************************************************)
(* scheduler.go 19-20 for the two jobs of the challenge, as they are here. *)
(***************************************************************************)
THEOREM ChallengeJobsOncePerHour == Spec => []AtMostOncePerHour
<1>1. IInv => AtMostOncePerHour
  BY DEF IInv, SchedIInv
<1>2. QED
  BY <1>1, ChallengeInvariance, PTL

(***************************************************************************)
(* challenge.go 177-198: whatever fails or is restarted, and whoever       *)
(* reopens the challenge, a week's prizes are those of one standings, in   *)
(* rank order.                                                             *)
(***************************************************************************)
THEOREM PrizesAlwaysOfOneRanking == Spec => []PrizesOfOneRanking
<1>1. IInv => PrizesOfOneRanking
  BY DEF IInv
<1>2. QED
  BY <1>1, ChallengeInvariance, PTL

(***************************************************************************)
(* challenge.go 200-211: a finalized week is completely paid and its       *)
(* winner has the badge, whose XP is paid once.                            *)
(***************************************************************************)
THEOREM FinalizedIsAlwaysPaid == Spec => []FinalizedIsPaid
<1>1. IInv => FinalizedIsPaid
  BY DEF IInv
<1>2. QED
  BY <1>1, ChallengeInvariance, PTL
=============================================================================
