-------------------------------- MODULE Gate --------------------------------
(***************************************************************************)
(* internal/adapter/telegram/handler.go, HandleUpdate: what stands between *)
(* a Telegram update and the command it names.                             *)
(*                                                                         *)
(* Every update has a goroutine of its own (bot.go 52).  A command passes  *)
(* the rate limiter, then getChatMember asks Telegram whether the sender   *)
(* belongs to the community; the sender of an update that is turned away   *)
(* is reported to the owner.  The report is remembered in a map of the     *)
(* handler that no mutex guards, and that a restart empties.  An update    *)
(* that is let in goes to the sender's guided session, if there is one,    *)
(* and otherwise to the first command whose prefix it has.                 *)
(*                                                                         *)
(* The bot is configured with a community group and an owner; without a    *)
(* group everyone is let in.  The rate limiter is that of RateLimiter,     *)
(* shared by all goroutines and with the same clock.  The guided session   *)
(* is GuidedFlow's: here it may end at any time.                           *)
(***************************************************************************)
EXTENDS RateLimiter, Sequences, FiniteSetsExt

CONSTANTS
  Handlers,     \* the goroutines of the updates in progress
  Texts,        \* the texts of the messages
  Hour,         \* one hour, in ticks of the clock
  MaxRestarts   \* bound: restarts of the process

ASSUME GateAssumption ==
  /\ Texts \subseteq STRING
  /\ Hour \in Nat \ {0}
  /\ MaxRestarts \in Nat

VARIABLES
  members,         \* the users in the community group
  unauthNotified,  \* per user, the time of the owner's last notification
  sessions,        \* the users with a guided session
  task,            \* what each handler works on
  restarts,
  noticed,         \* history: per user, the time of the last notification sent
  early,           \* history: users the owner heard of twice within an hour
  disturbed        \* history: users two of whose updates were denied at a
                   \* time, or denied before and after a restart

gateVars ==
  <<vars, members, unauthNotified, sessions, task, restarts, noticed, early, disturbed>>

Never == -1
Idle == [pc |-> "idle"]

GateInit ==
  /\ Init
  /\ members \in SUBSET Users
  /\ unauthNotified = [u \in Users |-> Never]
  /\ sessions = {}
  /\ task = [h \in Handlers |-> Idle]
  /\ restarts = 0
  /\ noticed = [u \in Users |-> Never]
  /\ early = {}
  /\ disturbed = {}

-----------------------------------------------------------------------------
(* The routes, in the order in which they are tried (149-184).             *)
Routes == <<"/journal", "/stats", "/leaderboard", "/export", "/report", "/help", "/start",
            "/profile", "/badges", "/challenge", "/reminder", "/goal", "/analyze",
            "/reportcard", "#journal">>

HasPrefix(text, p) == Len(p) <= Len(text) /\ SubSeq(text, 1, Len(p)) = p

Matching(text) == {i \in 1..Len(Routes) : HasPrefix(text, Routes[i])}

RouteOf(text) ==
  IF Matching(text) = {} THEN "none" ELSE Routes[Min(Matching(text))]

(* The handlers between the test of unauthNotified and its update.         *)
Denying(u) == {h \in Handlers : task[h].pc \in {"denied", "notify"} /\ task[h].user = u}

Update(u, text) ==
  [pc |-> IF HasPrefix(text, "/") THEN "limit" ELSE "check", user |-> u, text |-> text,
   rightful |-> u \in members]

Limiting == {h \in Handlers : task[h].pc = "limit"}

(* An update arrives and a goroutine is started for it.                    *)
Receive(h) ==
  /\ task[h].pc = "idle"
  /\ \E u \in Users, text \in Texts :
       /\ HasPrefix(text, "/") => requests + Cardinality(Limiting) < MaxRequests
       /\ task' = [task EXCEPT ![h] = Update(u, text)]
  /\ UNCHANGED <<vars, members, unauthNotified, sessions, restarts, noticed, early, disturbed>>

(* A command passes the rate limiter or is refused; a text that is none,   *)
(* such as #journal, does not come here.                                   *)
Limit(h) ==
  /\ task[h].pc = "limit"
  /\ Allow(task[h].user)
  /\ task' = [task EXCEPT ![h] = IF answer' THEN [@ EXCEPT !.pc = "check"] ELSE Idle]
  /\ UNCHANGED <<members, unauthNotified, sessions, restarts, noticed, early, disturbed>>

Admit(h, failed) ==
  task' = [task EXCEPT ![h].pc = "admitted", ![h].rightful = @ \/ failed]

Deny(h) ==
  /\ task' = [task EXCEPT ![h] = [pc |-> "denied", user |-> @.user]]
  /\ disturbed' = IF Denying(task[h].user) # {}
                  THEN disturbed \cup {task[h].user} ELSE disturbed

(* Faulty variant: the status of the answer is not looked at.              *)
CheckAnyStatus(h) ==
  /\ task[h].pc = "check"
  /\ \/ Admit(h, TRUE) /\ UNCHANGED disturbed
     \/ Admit(h, FALSE) /\ UNCHANGED disturbed
     \/ Deny(h)
  /\ UNCHANGED <<vars, members, unauthNotified, sessions, restarts, noticed, early>>

(* isAuthorized: the call fails and the update is let in, or Telegram      *)
(* answers with the sender's status, or with an error, which counts as     *)
(* not being a member.                                                     *)
Check(h) ==
  /\ task[h].pc = "check"
  /\ \/ Admit(h, TRUE) /\ UNCHANGED disturbed
     \/ task[h].user \in members /\ Admit(h, FALSE) /\ UNCHANGED disturbed
     \/ Deny(h)
  /\ UNCHANGED <<vars, members, unauthNotified, sessions, restarts, noticed, early>>

(* Faulty variant: the owner is told of every attempt.                     *)
TestNotifiedAlways(h) ==
  /\ task[h].pc = "denied"
  /\ task' = [task EXCEPT ![h].pc = "notify"]
  /\ UNCHANGED <<vars, members, unauthNotified, sessions, restarts, noticed, early, disturbed>>

(* The owner was told of the sender more than an hour ago, or never.       *)
TestNotified(h) ==
  /\ task[h].pc = "denied"
  /\ LET last == unauthNotified[task[h].user]
     IN  task' = [task EXCEPT ![h] =
           IF last = Never \/ now - last > Hour THEN [@ EXCEPT !.pc = "notify"] ELSE Idle]
  /\ UNCHANGED <<vars, members, unauthNotified, sessions, restarts, noticed, early, disturbed>>

(* Faulty variant: what is remembered is when to tell the owner next.      *)
NotifyNextTime(h) ==
  /\ task[h].pc = "notify"
  /\ LET u == task[h].user IN
       /\ unauthNotified' = [unauthNotified EXCEPT ![u] = now + Hour]
       /\ early' = IF noticed[u] # Never /\ now - noticed[u] <= Hour
                   THEN early \cup {u} ELSE early
       /\ noticed' = [noticed EXCEPT ![u] = now]
  /\ task' = [task EXCEPT ![h] = Idle]
  /\ UNCHANGED <<vars, members, sessions, restarts, disturbed>>

(* The time is remembered and the owner is told.                           *)
Notify(h) ==
  /\ task[h].pc = "notify"
  /\ LET u == task[h].user IN
       /\ unauthNotified' = [unauthNotified EXCEPT ![u] = now]
       /\ early' = IF noticed[u] # Never /\ now - noticed[u] <= Hour
                   THEN early \cup {u} ELSE early
       /\ noticed' = [noticed EXCEPT ![u] = now]
  /\ task' = [task EXCEPT ![h] = Idle]
  /\ UNCHANGED <<vars, members, sessions, restarts, disturbed>>

(* The sender has a session, which takes the text, or the text is routed.  *)
Route(h) ==
  /\ task[h].pc = "admitted"
  /\ LET inSession == task[h].user \in sessions IN
       task' = [task EXCEPT ![h] =
         [pc |-> "routed", user |-> @.user, text |-> @.text, rightful |-> @.rightful,
          guided |-> inSession,
          dest |-> IF inSession THEN "guided" ELSE RouteOf(@.text)]]
  /\ UNCHANGED <<vars, members, unauthNotified, sessions, restarts, noticed, early, disturbed>>

(* The command runs; /journal opens a session.                             *)
Serve(h) ==
  /\ task[h].pc = "routed"
  /\ sessions' = IF task[h].dest = "/journal" THEN sessions \cup {task[h].user} ELSE sessions
  /\ task' = [task EXCEPT ![h] = Idle]
  /\ UNCHANGED <<vars, members, unauthNotified, restarts, noticed, early, disturbed>>

(* A session is submitted, cancelled or expires.                           *)
EndSession ==
  /\ \E u \in sessions : sessions' = sessions \ {u}
  /\ UNCHANGED <<vars, members, unauthNotified, task, restarts, noticed, early, disturbed>>

(* A user joins or leaves the group.                                       *)
JoinOrLeave ==
  /\ \E u \in Users :
       /\ members' = IF u \in members THEN members \ {u} ELSE members \cup {u}
       /\ task' = [h \in Handlers |->
            IF task[h].pc \in {"limit", "check"} /\ task[h].user = u /\ u \notin members
            THEN [task[h] EXCEPT !.rightful = TRUE] ELSE task[h]]
  /\ UNCHANGED <<vars, unauthNotified, sessions, restarts, noticed, early, disturbed>>

PassTime ==
  /\ Tick \/ Cleanup
  /\ UNCHANGED <<members, unauthNotified, sessions, task, restarts, noticed, early, disturbed>>

(* The process ends and is started again.  (The runtime itself ends it     *)
(* when it sees one goroutine write the map while another uses it.)        *)
Restart ==
  /\ restarts < MaxRestarts
  /\ NewLimiter
  /\ restarts' = restarts + 1
  /\ unauthNotified' = [u \in Users |-> Never]
  /\ sessions' = {}
  /\ task' = [h \in Handlers |-> Idle]
  /\ disturbed' = disturbed \cup {u \in Users : noticed[u] # Never}
  /\ UNCHANGED <<members, noticed, early>>

GateNext ==
  \/ \E h \in Handlers : \/ Receive(h) \/ Limit(h) \/ Check(h) \/ TestNotified(h)
                         \/ Notify(h) \/ Route(h) \/ Serve(h)
  \/ EndSession \/ JoinOrLeave \/ PassTime \/ Restart

GateSpec == GateInit /\ [][GateNext]_gateVars

-----------------------------------------------------------------------------
GateTypeOK ==
  /\ TypeOK
  /\ members \subseteq Users /\ sessions \subseteq Users
  /\ early \subseteq Users /\ disturbed \subseteq Users
  /\ unauthNotified \in [Users -> -1..now] /\ noticed \in [Users -> -1..now]
  /\ restarts \in 0..MaxRestarts
  /\ \A h \in Handlers :
       /\ task[h].pc \in {"idle", "limit", "check", "denied", "notify", "admitted", "routed"}
       /\ task[h].pc # "idle" => task[h].user \in Users
       /\ task[h].pc \in {"limit", "check", "admitted", "routed"} =>
            task[h].text \in Texts /\ task[h].rightful \in BOOLEAN

(***************************************************************************)
(* handler.go 83-115: whoever is served was in the community at some time  *)
(* between the arrival of the update and its check, unless the check could *)
(* not be made.  (He may have left since.)                                 *)
(***************************************************************************)
ServedWereMembers ==
  \A h \in Handlers : task[h].pc \in {"admitted", "routed"} => task[h].rightful

(***************************************************************************)
(* handler.go 103: the owner hears of a user at most once an hour, as long *)
(* as two updates of his were not denied side by side and the process was  *)
(* not restarted in between.                                               *)
(***************************************************************************)
NotifiedHourlyUnlessDisturbed == early \subseteq disturbed

(* handler.go 103, as it is written: "at most once per user per hour".     *)
NotifiedHourly == early = {}

(***************************************************************************)
(* The help text (formatter.go 120-139) lists the commands: one that it    *)
(* lists, sent outside a guided session, reaches the handler of its name.  *)
(***************************************************************************)
ListedCommandIsReached ==
  \A h \in Handlers :
    task[h].pc = "routed" /\ ~task[h].guided /\ RouteOf(task[h].text) # "none" =>
      task[h].dest = task[h].text
-----------------------------------------------------------------------------
(* The invariant behind these.  What a handler works on, by its pc:        *)
Commands == [pc : {"limit", "check", "admitted"}, user : Users, text : Texts,
             rightful : BOOLEAN]
Denials == [pc : {"denied", "notify"}, user : Users]

IsRouted(t) ==
  t.pc = "routed" /\ t.user \in Users /\ t.text \in Texts /\ t.rightful \in BOOLEAN

TaskOK(t) == t = Idle \/ t \in Commands \/ t \in Denials \/ IsRouted(t)

(* Who is in the community before his check has been so since his update.  *)
Rightful(t, ms) ==
  /\ t.pc \in {"limit", "check"} /\ t.user \in ms => t.rightful
  /\ t.pc \in {"admitted", "routed"} => t.rightful

(* Of a user who was not disturbed the map knows the last notification, at *)
(* most one handler is about to use it, and only if the hour is over.      *)
Undisturbed(u) ==
  /\ unauthNotified[u] = noticed[u]
  /\ \A h, g \in Denying(u) : h = g
  /\ \A h \in Denying(u) :
       task[h].pc = "notify" => noticed[u] = Never \/ now - noticed[u] > Hour

GateIInv ==
  /\ GateTypeOK
  /\ DOMAIN task = Handlers /\ task = [h \in Handlers |-> task[h]]
  /\ \A h \in Handlers : TaskOK(task[h]) /\ Rightful(task[h], members)
  /\ NotifiedHourlyUnlessDisturbed
  /\ \A u \in Users \ disturbed : Undisturbed(u)
=============================================================================
