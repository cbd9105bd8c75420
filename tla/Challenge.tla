------------------------------ MODULE Challenge ------------------------------
(***************************************************************************)
(* ChallengeService (internal/service/challenge.go) driven by the jobs     *)
(* challenge-announce and challenge-finalize of cmd/bot/main.go, which the *)
(* Scheduler runs, and by /challenge handlers, each in its own goroutine.  *)
(*                                                                         *)
(* A step is one store transaction or one award.  AwardXP is atomic here:  *)
(* Gamification has its steps.  The standings are computed from Notion     *)
(* data that may change until they are read: any ranking can come out.     *)
(***************************************************************************)
EXTENDS Scheduler, XP, Sequences, FiniteSets

CONSTANTS
  Members,    \* Telegram ids
  Handlers,   \* goroutines that may handle a /challenge command
  WeekLen,    \* hours in an ISO week
  HostLag,    \* hours the host's clock, which a handler reads, is behind WIB
  MaxErrors   \* bound: failed store transactions of FinalizeChallenge

Announce == "challenge-announce"
Finalize == "challenge-finalize"

(* YearWeekString: the ISO week of a clock hour.                           *)
YearWeek(h) == h \div WeekLen
Weeks == {YearWeek(h) : h \in Hours}

(***************************************************************************)
(* "Sunday and hour = ReportHour" holds in one clock hour of a week.       *)
(***************************************************************************)
ASSUME ChallengeAssumption ==
  /\ Jobs = {Announce, Finalize}
  /\ WeekLen \in Nat \ {0}
  /\ HostLag \in Nat
  /\ MaxErrors \in Nat
  /\ \A g, h \in Due[Finalize] : YearWeek(g) = YearWeek(h) => g = h
  /\ IsFiniteSet(Members)

VARIABLES
  challenge,  \* stored: each week's challenge: none, open or final
  prizes,     \* the placement XP awarded for each week, in the order of award
  badges,     \* stored: the members with the challenge_winner badge
  badgeXP,    \* how often the XP of that badge was awarded to each member
  fin,        \* the local variables of FinalizeChallenge
  saving,     \* callers of GetOrCreateChallenge that found none: their week
  errors,
  standings   \* history: the standings that were computed for each week

chalVars == <<challenge, prizes, badges, badgeXP, fin, saving, errors, standings>>
vars == <<schedVars, chalVars>>

NotSaving == -1
Callers == Handlers \cup {Announce}

(* The standings: members with trades in the week, best first.             *)
Rankings == UNION {{s \in [1..n -> Members] : \A i, j \in 1..n : i # j => s[i] # s[j]} :
                     n \in 0..Cardinality(Members)}

PrizeXP(rank) ==
  CASE rank = 1 -> XPChallenge1st
    [] rank = 2 -> XPChallenge2nd
    [] rank = 3 -> XPChallenge3rd
    [] OTHER    -> XPChallengeParticip

Idle == [step |-> "idle"]

-----------------------------------------------------------------------------
Init ==
  /\ SchedInit
  /\ challenge = [w \in Weeks |-> "none"]
  /\ prizes = [w \in Weeks |-> <<>>]
  /\ badges = {}
  /\ badgeXP = [m \in Members |-> 0]
  /\ fin = Idle
  /\ saving = [c \in Callers |-> NotSaving]
  /\ errors = 0
  /\ standings = [w \in Weeks |-> <<>>]

(* The job asks for the week in WIB, a handler for that of the host.       *)
WeekOf(c) ==
  YearWeek(IF c = Announce THEN hour ELSE IF hour < HostLag THEN 0 ELSE hour - HostLag)

(***************************************************************************)
(* GetOrCreateChallenge for the caller's week: the read finds none, and a  *)
(* later transaction saves a new one.  Otherwise the read finds a          *)
(* challenge or fails, and the call returns it or the error.               *)
(***************************************************************************)
GetChallenge(c) ==
  /\ saving[c] = NotSaving
  /\ challenge[WeekOf(c)] = "none"
  /\ saving' = [saving EXCEPT ![c] = WeekOf(c)]
  /\ UNCHANGED <<challenge, prizes, badges, badgeXP, fin, errors, standings>>

SaveChallenge(c) ==
  /\ saving[c] # NotSaving
  /\ challenge' = [challenge EXCEPT ![saving[c]] = "open"]
  /\ saving' = [saving EXCEPT ![c] = NotSaving]
  /\ UNCHANGED <<prizes, badges, badgeXP, fin, errors, standings>>

SaveFails(c) ==
  /\ saving[c] # NotSaving
  /\ saving' = [saving EXCEPT ![c] = NotSaving]
  /\ UNCHANGED <<challenge, prizes, badges, badgeXP, fin, errors, standings>>

(* A handler that finds a challenge, or cannot read it, changes nothing.   *)
HandleChallenge(c) ==
  /\ c \in Handlers
  /\ GetChallenge(c) \/ SaveChallenge(c) \/ SaveFails(c)
  /\ UNCHANGED schedVars

(* The announcement: a tick in the hour, then GetOrCreateChallenge.  It    *)
(* finds none, or has its challenge, or cannot read it and has an error.   *)
AnnounceStart ==
  /\ Fire(Announce)
  /\ GetChallenge(Announce) \/ UNCHANGED chalVars

AnnounceSave ==
  /\ SaveChallenge(Announce) \/ SaveFails(Announce)
  /\ UNCHANGED schedVars

AnnounceEnd ==
  /\ Finish(Announce)
  /\ saving[Announce] = NotSaving
  /\ UNCHANGED chalVars

-----------------------------------------------------------------------------
(***************************************************************************)
(* FinalizeChallenge.                                                      *)
(***************************************************************************)
FinGoto(from, to) == fin.step = from /\ fin' = [fin EXCEPT !.step = to]

FinalizeStart ==
  /\ Fire(Finalize)
  /\ fin' = [step |-> "get", week |-> YearWeek(hour), results |-> <<>>, rank |-> 1]
  /\ UNCHANGED <<challenge, prizes, badges, badgeXP, saving, errors, standings>>

(* A challenge that is missing or final is left alone.                     *)
FinalizeGet ==
  /\ fin.step = "get"
  /\ IF challenge[fin.week] = "open"
     THEN FinGoto("get", "standings") /\ UNCHANGED schedVars
     ELSE fin' = Idle /\ Finish(Finalize)
  /\ UNCHANGED <<challenge, prizes, badges, badgeXP, saving, errors, standings>>

(* Faulty variant: the challenge is marked final before it is paid.        *)
FinalizeStandingsMarks(s) ==
  /\ fin.step = "standings"
  /\ fin' = [fin EXCEPT !.results = s,
                        !.step = IF s = <<>> THEN "save" ELSE "award"]
  /\ standings' = [standings EXCEPT ![fin.week] = s]
  /\ challenge' = [challenge EXCEPT ![fin.week] = "final"]
  /\ UNCHANGED <<schedVars, prizes, badges, badgeXP, saving, errors>>

FinalizeStandings(s) ==
  /\ fin.step = "standings"
  /\ fin' = [fin EXCEPT !.results = s,
                        !.step = IF s = <<>> THEN "save" ELSE "award"]
  /\ standings' = [standings EXCEPT ![fin.week] = s]
  /\ UNCHANGED <<schedVars, challenge, prizes, badges, badgeXP, saving, errors>>

FinalizeAward ==
  /\ fin.step = "award"
  /\ prizes' = [prizes EXCEPT ![fin.week] =
       Append(@, [member |-> fin.results[fin.rank], xp |-> PrizeXP(fin.rank)])]
  /\ fin' = IF fin.rank < Len(fin.results)
            THEN [fin EXCEPT !.rank = @ + 1]
            ELSE [fin EXCEPT !.step = "badge"]
  /\ UNCHANGED <<schedVars, challenge, badges, badgeXP, saving, errors, standings>>

(***************************************************************************)
(* AwardChallengeBadge for the winner: the badge is looked up, then stored *)
(* (this job is its only writer), then its XP is awarded.                  *)
(***************************************************************************)
AwardBadge ==
  LET winner == fin.results[1] IN
  /\ fin.step = "badge"
  /\ IF winner \in badges
     THEN FinGoto("badge", "save") /\ UNCHANGED badges
     ELSE FinGoto("badge", "badgeXP") /\ badges' = badges \cup {winner}
  /\ UNCHANGED <<schedVars, challenge, prizes, badgeXP, saving, errors, standings>>

AwardBadgeXP ==
  /\ FinGoto("badgeXP", "save")
  /\ badgeXP' = [badgeXP EXCEPT ![fin.results[1]] = @ + 1]
  /\ UNCHANGED <<schedVars, challenge, prizes, badges, saving, errors, standings>>

(* Faulty variant: the job goes back to its ticker in the middle.          *)
SaveFinalizedKeepsFin ==
  /\ fin.step = "save"
  /\ challenge' = [challenge EXCEPT ![fin.week] = "final"]
  /\ Finish(Finalize)
  /\ UNCHANGED <<prizes, badges, badgeXP, fin, saving, errors, standings>>

SaveFinalized ==
  /\ fin.step = "save"
  /\ challenge' = [challenge EXCEPT ![fin.week] = "final"]
  /\ fin' = Idle
  /\ Finish(Finalize)
  /\ UNCHANGED <<prizes, badges, badgeXP, saving, errors, standings>>

(* Faulty variant: the job starts over after an error.                     *)
FinalizeErrorRetries ==
  /\ fin.step # "idle"
  /\ errors < MaxErrors
  /\ errors' = errors + 1
  /\ fin' = [fin EXCEPT !.step = "get", !.rank = 1]
  /\ UNCHANGED <<schedVars, challenge, prizes, badges, badgeXP, saving, standings>>

(* A transaction fails: the job returns the error and is not run again.    *)
FinalizeError ==
  /\ fin.step # "idle"
  /\ errors < MaxErrors
  /\ errors' = errors + 1
  /\ fin' = Idle
  /\ Finish(Finalize)
  /\ UNCHANGED <<challenge, prizes, badges, badgeXP, saving, standings>>

FinalizeStep ==
  \/ FinalizeStart \/ FinalizeGet \/ (\E s \in Rankings : FinalizeStandings(s))
  \/ FinalizeAward \/ AwardBadge \/ AwardBadgeXP \/ SaveFinalized \/ FinalizeError

-----------------------------------------------------------------------------
Clock ==
  /\ PassMinute \/ (\E j \in Jobs : StartTicker(j) \/ Skip(j))
  /\ UNCHANGED chalVars

Crash ==
  /\ Restart
  /\ fin' = Idle
  /\ saving' = [c \in Callers |-> NotSaving]
  /\ UNCHANGED <<challenge, prizes, badges, badgeXP, errors, standings>>

Next ==
  \/ Clock
  \/ \E c \in Handlers : HandleChallenge(c)
  \/ AnnounceStart \/ AnnounceSave \/ AnnounceEnd
  \/ FinalizeStep
  \/ Crash

Spec == Init /\ [][Next]_vars

-----------------------------------------------------------------------------
TypeOK ==
  /\ SchedTypeOK
  /\ challenge \in [Weeks -> {"none", "open", "final"}]
  /\ prizes \in [Weeks -> Seq([member : Members, xp : Nat])]
  /\ badges \subseteq Members
  /\ badgeXP \in [Members -> Nat]
  /\ fin.step \in {"idle", "get", "standings", "award", "badge", "badgeXP", "save"}
  /\ (fin.step = "idle") <=> (state[Finalize] # "running")
  /\ saving \in [Callers -> Weeks \cup {NotSaving}]
  /\ errors \in Nat
  /\ standings \in [Weeks -> Rankings]

(***************************************************************************)
(* The prizes of a week are those of one standings, paid in rank order and *)
(* to each member at most once, whatever is restarted or fails, and also   *)
(* if a handler reopens the finalized challenge (challenge.go 177-198): a  *)
(* failed award leaves the last members without a prize but none with two. *)
(***************************************************************************)
PrizesOfOneRanking ==
  \A w \in Weeks :
    /\ Len(prizes[w]) <= Len(standings[w])
    /\ \A i \in 1..Len(prizes[w]) :
         prizes[w][i] = [member |-> standings[w][i], xp |-> PrizeXP(i)]

(***************************************************************************)
(* A finalized week is completely paid, and its winner has the badge       *)
(* (challenge.go 200-211: Finalized is saved last); the badge's XP is paid *)
(* for the badge and once, however many weeks a member wins and whenever   *)
(* the bot restarts (badge.go 165-166, "or nil if already earned").        *)
(***************************************************************************)
FinalizedIsPaid ==
  /\ \A w \in Weeks : challenge[w] = "final" =>
       /\ Len(prizes[w]) = Len(standings[w])
       /\ standings[w] # <<>> => standings[w][1] \in badges
  /\ \A m \in Members : badgeXP[m] <= 1 /\ (badgeXP[m] = 1 => m \in badges)

-----------------------------------------------------------------------------
(* The invariant behind these.  A week's challenge is only worked on if    *)
(* the job ran in the one hour of the week in which it is due.             *)
Ran(w) == \E h \in Hours : h \in Due[Finalize] /\ YearWeek(h) = w /\ fired[Finalize][h] > 0

Untouched(w) == prizes[w] = <<>> /\ standings[w] = <<>>

AtWork == [step : {"get", "standings", "award", "badge", "badgeXP", "save"},
           week : Weeks, results : Rankings, rank : Nat]

(* What FinalizeChallenge has done so far is what its variables say.       *)
FinOK ==
  LET w == fin.week IN
  /\ fin \in AtWork /\ Ran(w)
  /\ fin.step # "get" => challenge[w] = "open"
  /\ fin.step \in {"get", "standings"} => Untouched(w) /\ fin.rank = 1
  /\ fin.step \in {"award", "badge", "badgeXP", "save"} => fin.results = standings[w]
  /\ fin.step \in {"award", "badge", "badgeXP"} => fin.results # <<>>
  /\ fin.step = "award" => fin.rank = Len(prizes[w]) + 1 /\ fin.rank <= Len(fin.results)
  /\ fin.step \in {"badge", "badgeXP", "save"} => Len(prizes[w]) = Len(fin.results)
  /\ fin.step = "badgeXP" => fin.results[1] \in badges /\ badgeXP[fin.results[1]] = 0
  /\ fin.step = "save" /\ fin.results # <<>> => fin.results[1] \in badges

IInv ==
  /\ SchedIInv /\ TypeOK /\ PrizesOfOneRanking /\ FinalizedIsPaid
  /\ fin = Idle \/ FinOK
  /\ \A w \in Weeks : Untouched(w) \/ Ran(w)
=============================================================================
