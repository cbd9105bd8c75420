---------------------------- MODULE RateLimiter ----------------------------
(***************************************************************************)
(* RateLimiter (internal/adapter/telegram/ratelimit.go).  Each method      *)
(* holds the mutex from its first to its last line and is one step; the    *)
(* clean-up loop may run at any time.  The limiter only keeps the requests *)
(* of the current window; that it still answers as if it knew all of them  *)
(* is the refinement of SlidingWindow.  The order of the kept times does   *)
(* not matter to the code, and two may be equal, so the list is a set of   *)
(* numbered requests.  A restart of the process begins with a new limiter. *)
(***************************************************************************)
EXTENDS Integers, FiniteSets

CONSTANTS
  Users,        \* Telegram user ids
  MaxReqs,      \* rl.maxReqs
  Window,       \* rl.window, in clock ticks
  MaxTime,      \* bound: the clock
  MaxRequests   \* bound: requests

ASSUME RateLimiterAssumption ==
  /\ MaxReqs \in Nat
  /\ Window \in Nat \ {0}
  /\ MaxTime \in Nat
  /\ MaxRequests \in Nat

VARIABLES
  now,        \* time.Now()
  limits,     \* rl.limits: the kept requests of each user
  requests,   \* the number of requests so far
  answer,     \* what the last Allow returned
  accepted    \* history: all requests that this process ever allowed

vars == <<now, limits, requests, answer, accepted>>

Abstract == INSTANCE SlidingWindow WITH
  Users <- Users, MaxReqs <- MaxReqs, Window <- Window,
  now <- now, requests <- requests, accepted <- accepted, answer <- answer

Request == [id : 1..requests, at : 0..now]

Init ==
  /\ now = 0
  /\ limits = [u \in Users |-> {}]
  /\ requests = 0
  /\ answer = TRUE
  /\ accepted = [u \in Users |-> {}]

Tick ==
  /\ now < MaxTime
  /\ now' = now + 1
  /\ UNCHANGED <<limits, requests, answer, accepted>>

-----------------------------------------------------------------------------
(* Faulty variant: a request counts for one tick more.                     *)
ValidTooLong(times) == {r \in times : r.at >= now - Window}
Valid(times) == {r \in times : r.at > now - Window}

Allow(u) ==
  LET valid == Valid(limits[u])
      this == [id |-> requests + 1, at |-> now]
      ok == ~(Cardinality(valid) >= MaxReqs)
  IN
  /\ requests < MaxRequests
  /\ requests' = requests + 1
  /\ answer' = ok
  /\ limits' = [limits EXCEPT ![u] = IF ok THEN valid \cup {this} ELSE valid]
  /\ accepted' = [accepted EXCEPT ![u] = IF ok THEN @ \cup {this} ELSE @]
  /\ UNCHANGED now

(* Faulty variant: the clean-up forgets requests of the current window.    *)
CleanupAll ==
  /\ limits' = [u \in Users |-> {}]
  /\ UNCHANGED <<now, requests, answer, accepted>>

(* One round of cleanupLoop.  A user without entry has the empty list.     *)
Cleanup ==
  /\ limits' = [u \in Users |-> Valid(limits[u])]
  /\ UNCHANGED <<now, requests, answer, accepted>>

(* NewRateLimiter.                                                         *)
NewLimiter ==
  /\ limits' = [u \in Users |-> {}]
  /\ accepted' = [u \in Users |-> {}]
  /\ UNCHANGED <<now, requests, answer>>

Next == Tick \/ Cleanup \/ NewLimiter \/ \E u \in Users : Allow(u)

Spec == Init /\ [][Next]_vars

-----------------------------------------------------------------------------
TypeOK ==
  /\ now \in Nat
  /\ requests \in Nat
  /\ limits \in [Users -> SUBSET Request]
  /\ accepted \in [Users -> SUBSET Request]
  /\ answer \in BOOLEAN

(***************************************************************************)
(* ratelimit.go 18, "the maximum requests allowed within the window        *)
(* duration": of the requests made within any period of the window's       *)
(* length, wherever it starts, at most MaxReqs of a user were allowed.     *)
(***************************************************************************)
InPeriod(rs, start) == {r \in rs : r.at > start /\ r.at <= start + Window}

AtMostMaxReqs ==
  \A u \in Users, start \in -Window..now :
    Cardinality(InPeriod(accepted[u], start)) <= MaxReqs

(***************************************************************************)
(* Pruning and cleaning up never change an answer: the limiter implements  *)
(* the one that remembers every request it allowed, so it neither allows   *)
(* too many nor refuses a request too early (ratelimit.go 31-54, 76-97).   *)
(***************************************************************************)
ImplementsSlidingWindow == Abstract!Spec

-----------------------------------------------------------------------------
(* The invariant behind both: what is not kept has left the window.        *)
Kept ==
  \A u \in Users :
    /\ limits[u] \subseteq accepted[u]
    /\ Valid(accepted[u]) \subseteq limits[u]

IInv == TypeOK /\ Kept /\ AtMostMaxReqs
=============================================================================
