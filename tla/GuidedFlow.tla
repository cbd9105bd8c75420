----------------------------- MODULE GuidedFlow -----------------------------
(***************************************************************************)
(* The guided journal flow: GuidedFlow (internal/adapter/telegram/         *)
(* guided.go) and its handlers in handler.go.                              *)
(*                                                                         *)
(* Every update is handled in a goroutine of its own.  A handler first     *)
(* looks up the user's session, later takes the session's mutex, and uses  *)
(* the session it looked up although it may have been removed or expired   *)
(* in between.  Submitting calls Notion and holds the mutex all the while. *)
(* The map's mutex gf.mu is only held inside Start, Get, Remove and the    *)
(* clean-up, which take no other lock, so these are single steps.          *)
(*                                                                         *)
(* Prompts of abandoned and expired sessions stay in the chat with their   *)
(* buttons, and a button's data does not name its session, so any button   *)
(* can be pressed at any time.  Answers are abstracted to what the         *)
(* handlers tell apart.                                                    *)
(***************************************************************************)
EXTENDS Integers, Sequences, FiniteSets

CONSTANTS
  Users,        \* Telegram user ids
  Procs,        \* goroutines that handle an update
  NoProc,       \* "nobody" as the owner of a mutex
  MaxSessions,  \* bound: sessions started
  MaxUpdates    \* bound: updates received

ASSUME GuidedAssumption ==
  /\ NoProc \notin Procs
  /\ MaxSessions \in Nat
  /\ MaxUpdates \in Nat

VARIABLES
  sess,      \* the sessions, by number
  started,   \* the number of sessions started
  active,    \* gf.sessions: each user's session, 0 for none
  lock,      \* the owner of each session's mutex
  pc, arg,   \* each handler's next step and local variables
  updates,
  recorded   \* stored: the trades saved in Notion for each session

vars == <<sess, started, active, lock, pc, arg, updates, recorded>>

Sessions == 1..MaxSessions

Steps == {"assetType", "symbol", "direction", "result", "rrAmount", "timeWindow",
          "confluence", "screenshot", "confirm"}

Buttons == {"asset", "dir", "WIN", "LOSS", "BE", "OPEN", "window", "skip", "yes", "no"}

(* Messages: a number, any other text, /journal, a photo without caption.  *)
Messages == {"number", "text", "/journal", "photo"}

(* rr is the sign of ResultRR; url says whether ScreenshotURL is set, which *)
(* nothing in the program does.                                            *)
Trade == [symbol : BOOLEAN, direction : BOOLEAN, status : {"", "WIN", "LOSS", "BE", "OPEN"},
          rr : {-1, 0, 1}, url : BOOLEAN]

Session == [step : Steps, trade : Trade, photo : {"none", "chosen", "uploaded"},
            submitting : BOOLEAN, expired : BOOLEAN]

NewSession ==
  [step |-> "assetType",
   trade |-> [symbol |-> FALSE, direction |-> FALSE, status |-> "", rr |-> 0, url |-> FALSE],
   photo |-> "none", submitting |-> FALSE, expired |-> FALSE]

NoArg == [input |-> "none"]

Init ==
  /\ sess = [s \in Sessions |-> NewSession]
  /\ started = 0
  /\ active = [u \in Users |-> 0]
  /\ lock = [s \in Sessions |-> NoProc]
  /\ pc = [p \in Procs |-> "idle"]
  /\ arg = [p \in Procs |-> NoArg]
  /\ updates = 0
  /\ recorded = [s \in Sessions |-> <<>>]

-----------------------------------------------------------------------------
(***************************************************************************)
(* What an input does to a session whose mutex is held.                    *)
(***************************************************************************)
Ask(s, step) == [s EXCEPT !.step = step]

PressButton(s, b) ==
  CASE b = "asset"  -> Ask(s, "symbol")
    [] b = "dir"    -> [Ask(s, "result") EXCEPT !.trade.direction = TRUE]
    [] b \in {"WIN", "LOSS"} -> [Ask(s, "rrAmount") EXCEPT !.trade.status = b]
    [] b = "BE"     -> [Ask(s, "timeWindow") EXCEPT !.trade.status = b, !.trade.rr = 0]
    [] b = "OPEN"   -> [Ask(s, "timeWindow") EXCEPT !.trade.status = b]
    [] b = "window" -> Ask(s, "confluence")
    [] b = "skip"   -> Ask(s, "confirm")

SendMessage(s, m) ==
  CASE s.step = "symbol" ->
         [Ask(s, "direction") EXCEPT !.trade.symbol = (m # "photo")]
    [] s.step = "rrAmount" /\ m = "number" ->
         [Ask(s, "timeWindow") EXCEPT !.trade.rr =
            CASE s.trade.status = "WIN" -> 1 [] s.trade.status = "LOSS" -> -1 [] OTHER -> @]
    [] s.step = "confluence" -> Ask(s, "screenshot")
    [] s.step = "screenshot" /\ m = "photo" -> [Ask(s, "confirm") EXCEPT !.photo = "chosen"]
    [] OTHER -> s

(* Trade.Validate.                                                         *)
Valid(t) == t.symbol /\ t.direction

-----------------------------------------------------------------------------
At(p, step) == pc[p] = step

Goto(p, to) ==
  /\ pc' = [pc EXCEPT ![p] = to]
  /\ arg' = IF to = "idle" THEN [arg EXCEPT ![p] = NoArg] ELSE arg

Unlock(s) == lock' = [lock EXCEPT ![s] = NoProc]

(* An update arrives and gets a goroutine; the bound on sessions is kept   *)
(* here, so that it never stops a handler.                                 *)
Receive(p, u, i) ==
  /\ updates < MaxUpdates
  /\ updates' = updates + 1
  /\ i = "/journal" =>
       started + Cardinality({q \in Procs : arg[q].input = "/journal"}) < MaxSessions
  /\ At(p, "idle")
  /\ pc' = [pc EXCEPT ![p] = "get"]
  /\ arg' = [arg EXCEPT ![p] = [user |-> u, input |-> i, sid |-> 0]]
  /\ UNCHANGED <<sess, started, active, lock, recorded>>

(***************************************************************************)
(* GuidedFlow.Get: the session unless there is none or its time is up.     *)
(* With a session, a message answers it whatever the message is; without   *)
(* one, /journal starts one and a button does nothing.                     *)
(***************************************************************************)
Get(p) ==
  LET s == active[arg[p].user]
      found == s # 0 /\ ~sess[s].expired
  IN
  /\ At(p, "get")
  /\ \/ /\ found
        /\ pc' = [pc EXCEPT ![p] = IF arg[p].input = "no" THEN "cancel" ELSE "lock"]
        /\ arg' = [arg EXCEPT ![p].sid = s]
     \/ ~found /\ Goto(p, IF arg[p].input = "/journal" THEN "start" ELSE "idle")
  /\ UNCHANGED <<sess, started, active, lock, updates, recorded>>

(* Faulty variant: the session is in the map before it is there.           *)
StartUncounted(p) ==
  /\ At(p, "start")
  /\ Goto(p, "idle")
  /\ active' = [active EXCEPT ![arg[p].user] = started + 1]
  /\ UNCHANGED <<sess, started, lock, updates, recorded>>

(* GuidedFlow.Start replaces a session that may have come in between.      *)
Start(p) ==
  /\ At(p, "start")
  /\ Goto(p, "idle")
  /\ started' = started + 1
  /\ active' = [active EXCEPT ![arg[p].user] = started + 1]
  /\ UNCHANGED <<sess, lock, updates, recorded>>

(* confirm:no removes the user's session, without its mutex.               *)
Cancel(p) ==
  /\ At(p, "cancel")
  /\ Goto(p, "idle")
  /\ active' = [active EXCEPT ![arg[p].user] = 0]
  /\ UNCHANGED <<sess, started, lock, updates, recorded>>

(* Faulty variant: the answer is applied without waiting for the mutex.    *)
LockIgnored(p) ==
  LET s == arg[p].sid IN
  /\ At(p, "lock")
  /\ Goto(p, IF arg[p].input = "yes" THEN "submit" ELSE "apply")
  /\ lock' = IF lock[s] = NoProc THEN [lock EXCEPT ![s] = p] ELSE lock
  /\ UNCHANGED <<sess, started, active, updates, recorded>>

Lock(p) ==
  LET s == arg[p].sid IN
  /\ At(p, "lock")
  /\ Goto(p, IF arg[p].input = "yes" THEN "submit" ELSE "apply")
  /\ lock[s] = NoProc
  /\ lock' = [lock EXCEPT ![s] = p]
  /\ UNCHANGED <<sess, started, active, updates, recorded>>

(* The answer changes the session and the next prompt is sent.             *)
Apply(p) ==
  LET s == arg[p].sid
      i == arg[p].input
  IN
  /\ At(p, "apply")
  /\ Goto(p, "idle")
  /\ sess' = [sess EXCEPT ![s] =
                IF i \in Buttons THEN PressButton(@, i) ELSE SendMessage(@, i)]
  /\ Unlock(s)
  /\ UNCHANGED <<started, active, updates, recorded>>

-----------------------------------------------------------------------------
(***************************************************************************)
(* submitGuidedTrade, holding the session's mutex from here on.            *)
(***************************************************************************)
Submit(p) ==
  LET s == arg[p].sid IN
  \/ /\ At(p, "submit")
     /\ Goto(p, "idle")
     /\ sess[s].submitting
     /\ Unlock(s)
     /\ UNCHANGED <<sess, started, active, updates, recorded>>
  \/ /\ At(p, "submit")
     /\ Goto(p, "record")
     /\ ~sess[s].submitting
     /\ sess' = [sess EXCEPT ![s].submitting = TRUE,
                             ![s].trade.status = IF @ = "" THEN "OPEN" ELSE @]
     /\ UNCHANGED <<started, active, lock, updates, recorded>>

(* Faulty variant: an error leaves the session in the map.                 *)
RecordKeepsSession(p, saved, err) ==
  LET s == arg[p].sid IN
  /\ At(p, "record")
  /\ Goto(p, IF err THEN "idle" ELSE "upload")
  /\ ~saved => err
  /\ saved => Valid(sess[s].trade)
  /\ IF err THEN Unlock(s) ELSE UNCHANGED lock
  /\ recorded' = IF saved THEN [recorded EXCEPT ![s] = Append(@, sess[s].trade)] ELSE recorded
  /\ UNCHANGED <<sess, started, active, updates>>

(***************************************************************************)
(* RecordTrade validates the trade and saves it in Notion.  It fails if    *)
(* the trade is not valid or a request fails; Notion may have saved the    *)
(* trade although its answer is lost.                                      *)
(***************************************************************************)
Record(p, saved, err) ==
  LET s == arg[p].sid IN
  /\ At(p, "record")
  /\ Goto(p, IF err THEN "remove" ELSE "upload")
  /\ ~saved => err
  /\ saved => Valid(sess[s].trade)
  /\ recorded' = IF saved THEN [recorded EXCEPT ![s] = Append(@, sess[s].trade)] ELSE recorded
  /\ UNCHANGED <<sess, started, active, lock, updates>>

(* A chosen photo is uploaded to the trade's page; errors are only logged. *)
Upload(p, ok) ==
  LET s == arg[p].sid IN
  /\ At(p, "upload")
  /\ Goto(p, "reward")
  /\ ok => sess[s].photo = "chosen"
  /\ sess' = IF ok THEN [sess EXCEPT ![s].photo = "uploaded"] ELSE sess
  /\ UNCHANGED <<started, active, lock, updates, recorded>>

(* XP, badges and goal (Gamification has the XP part); whatever fails      *)
(* there, the flow ends.                                                   *)
Reward(p) ==
  /\ At(p, "reward")
  /\ Goto(p, "remove")
  /\ UNCHANGED <<sess, started, active, lock, updates, recorded>>

(* Faulty variant: the mutex is not released when the flow ends.           *)
RemoveKeepsLock(p) ==
  /\ At(p, "remove")
  /\ Goto(p, "idle")
  /\ active' = [active EXCEPT ![arg[p].user] = 0]
  /\ UNCHANGED <<sess, started, lock, updates, recorded>>

(* GuidedFlow.Remove deletes what the map holds for the user, whichever    *)
(* session that is by now.                                                 *)
RemoveSession(p) ==
  /\ At(p, "remove")
  /\ Goto(p, "idle")
  /\ active' = [active EXCEPT ![arg[p].user] = 0]
  /\ Unlock(arg[p].sid)
  /\ UNCHANGED <<sess, started, updates, recorded>>

-----------------------------------------------------------------------------
(* 15 minutes after the start; answers do not extend the time.  Only Get   *)
(* and the clean-up look at it, for sessions in the map.                   *)
Expire(s) ==
  /\ ~sess[s].expired
  /\ \E u \in Users : active[u] = s
  /\ sess' = [sess EXCEPT ![s].expired = TRUE]
  /\ UNCHANGED <<started, active, lock, pc, arg, updates, recorded>>

CleanUp ==
  /\ \E u \in Users : active[u] # 0 /\ sess[active[u]].expired
  /\ active' = [u \in Users |->
       IF active[u] # 0 /\ sess[active[u]].expired THEN 0 ELSE active[u]]
  /\ UNCHANGED <<sess, started, lock, pc, arg, updates, recorded>>

Handle(p) ==
  \/ Get(p) \/ Start(p) \/ Cancel(p) \/ Lock(p) \/ Apply(p)
  \/ Submit(p) \/ (\E saved, err \in BOOLEAN : Record(p, saved, err))
  \/ (\E ok \in BOOLEAN : Upload(p, ok)) \/ Reward(p) \/ RemoveSession(p)

Next ==
  \/ \E p \in Procs, u \in Users, i \in Buttons \cup Messages : Receive(p, u, i)
  \/ \E p \in Procs : Handle(p)
  \/ \E s \in Sessions : Expire(s)
  \/ CleanUp

Spec == Init /\ [][Next]_vars

-----------------------------------------------------------------------------
Submits(p, s) == arg[p] # NoArg /\ arg[p].sid = s /\ pc[p] \in {"record", "upload", "reward", "remove"}

TypeOK ==
  /\ sess \in [Sessions -> Session]
  /\ started \in 0..MaxSessions
  /\ active \in [Users -> 0..started]
  /\ lock \in [Sessions -> Procs \cup {NoProc}]
  /\ pc \in [Procs -> {"idle", "get", "start", "cancel", "lock", "apply",
                       "submit", "record", "upload", "reward", "remove"}]
  /\ updates \in 0..MaxUpdates
  /\ recorded \in [Sessions -> Seq(Trade)]

(***************************************************************************)
(* handler.go 449, 516, 579-636, guided.go 38, "prevents double submit":   *)
(* the flow implements TradeEntry.  However often confirm is pressed, also *)
(* on expired and replaced sessions and after a lost answer of Notion, a   *)
(* session stores at most one trade, with a symbol, a direction and a      *)
(* status although buttons can skip the steps that ask for them, and it is *)
(* the trade that was submitted: answers that arrive meanwhile wait.       *)
(***************************************************************************)
Phase(s) ==
  IF ~sess[s].submitting THEN "draft"
  ELSE IF \E p \in Procs : Submits(p, s) THEN "submitting" ELSE "done"

Entry == INSTANCE TradeEntry WITH
  Entries <- Sessions, Drafts <- Trade,
  Complete <- {t \in Trade : Valid(t) /\ t.status # ""},
  draft <- [s \in Sessions |-> sess[s].trade],
  phase <- [s \in Sessions |-> Phase(s)],
  stored <- recorded

ImplementsTradeEntry == Entry!Spec

(***************************************************************************)
(* Submitting is never reset, so a session marked with it must not stay a  *)
(* user's session: all further answers would be swallowed.  It is gone     *)
(* when the submit ends, with success or not (handler.go 594-636).         *)
(***************************************************************************)
NoDeadSession ==
  \A u \in Users : active[u] # 0 /\ sess[active[u]].submitting =>
    \E p \in Procs : Submits(p, active[u])

(***************************************************************************)
(* No deadlock among the handlers, and none that keeps a session locked:   *)
(* whoever owns a session's mutex is in the middle of using that session,  *)
(* so it neither waits for a mutex nor has come to its end (handler.go     *)
(* 434-449, 516-517, 581-582).                                             *)
(***************************************************************************)
OwnersMoveOn ==
  \A s \in Sessions : lock[s] # NoProc =>
    /\ arg[lock[s]].input # "none" /\ arg[lock[s]].sid = s
    /\ pc[lock[s]] \in {"apply", "submit", "record", "upload", "reward", "remove"}

-----------------------------------------------------------------------------
(* What comments say, and the code does not do.                            *)

(***************************************************************************)
(* stats.go 62, where the RR of a LOSS is a "negative value": a loss is    *)
(* never recorded with a positive RR.                                      *)
(***************************************************************************)
LossIsNegative ==
  \A s \in Sessions : \A k \in 1..Len(recorded[s]) :
    recorded[s][k].status = "LOSS" => recorded[s][k].rr <= 0

(***************************************************************************)
(* trade.go 49, "URL after uploaded to Notion": XP is given for a trade    *)
(* whose screenshot is uploaded with its ScreenshotURL set, which the XP   *)
(* for a screenshot depends on (gamification.go 131).                      *)
(***************************************************************************)
UploadSetsURL ==
  \A p \in Procs : pc[p] = "reward" /\ sess[arg[p].sid].photo = "uploaded" =>
    sess[arg[p].sid].trade.url

-----------------------------------------------------------------------------
(* The invariant behind these.  What a handler has in hand, by its pc.     *)
Answering == Buttons \cup Messages

Using == {"apply", "submit", "record", "upload", "reward", "remove"}

HandlerOK(p) ==
  IF pc[p] = "idle" THEN arg[p] = NoArg
  ELSE /\ arg[p] \in [user : Users, input : Answering, sid : 0..started]
       /\ pc[p] = "start" => arg[p].input = "/journal"
       /\ pc[p] = "lock" => arg[p].input # "no"
       /\ pc[p] = "apply" => arg[p].input \notin {"yes", "no"}
       /\ pc[p] \in {"lock"} \cup Using => arg[p].sid # 0

(* Each session that is being started has been counted.                    *)
Journaling == {p \in Procs : arg[p].input = "/journal"}

Counted ==
  /\ IsFiniteSet(Journaling)
  /\ started + Cardinality(Journaling) <= MaxSessions

(* Who uses a session owns its mutex.                                      *)
UsersOwn == \A p \in Procs : pc[p] \in Using => lock[arg[p].sid] = p

(* A session belongs to one user, also while a handler still uses it.      *)
OneUser ==
  /\ \A u, v \in Users : active[u] # 0 /\ active[u] = active[v] => u = v
  /\ \A p \in Procs, u \in Users :
       pc[p] # "idle" /\ arg[p].sid # 0 /\ active[u] = arg[p].sid => arg[p].user = u

(* How far the submitting of a session is.                                 *)
NotStarted == \A s \in Sessions : s > started => ~sess[s].submitting

NotRecorded == \A s \in Sessions : ~sess[s].submitting => recorded[s] = <<>>

Submitted ==
  \A p \in Procs : pc[p] \in {"record", "upload", "reward", "remove"} =>
    sess[arg[p].sid].submitting

ToRecord ==
  \A p \in Procs : pc[p] = "record" =>
    recorded[arg[p].sid] = <<>> /\ sess[arg[p].sid].trade.status # ""

Progress == NotStarted /\ NotRecorded /\ Submitted /\ ToRecord

IInv ==
  /\ TypeOK
  /\ arg = [p \in Procs |-> arg[p]]
  /\ \A p \in Procs : HandlerOK(p)
  /\ Counted /\ UsersOwn /\ OneUser /\ Progress /\ NoDeadSession /\ OwnersMoveOn
=============================================================================
