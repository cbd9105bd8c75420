--------------------------- MODULE SlidingWindow ---------------------------
(***************************************************************************)
(* What a per-user sliding window rate limiter promises (ratelimit.go 8    *)
(* and 17-18): a request is accepted exactly if fewer than MaxReqs of the  *)
(* user's requests were accepted in the window that ends now.  Nothing is  *)
(* forgotten but by a restart of the process.                              *)
(***************************************************************************)
EXTENDS Integers, FiniteSets

CONSTANTS
  Users,       \* Telegram user ids
  MaxReqs,     \* the requests allowed within a window
  Window       \* the length of the window, in clock ticks

VARIABLES
  now,        \* the clock
  requests,   \* the number of requests so far
  accepted,   \* for each user the accepted requests
  answer      \* the answer to the last request

window == <<now, requests, accepted, answer>>

(* The requests of rs that were made after the time cutoff.                *)
After(rs, cutoff) == {r \in rs : r.at > cutoff}

Init ==
  /\ now = 0
  /\ requests = 0
  /\ accepted = [u \in Users |-> {}]
  /\ answer = TRUE

Tick ==
  /\ now' = now + 1
  /\ UNCHANGED <<requests, accepted, answer>>

Accept(u) ==
  /\ Cardinality(After(accepted[u], now - Window)) < MaxReqs
  /\ accepted' = [accepted EXCEPT ![u] = @ \cup {[id |-> requests + 1, at |-> now]}]
  /\ answer' = TRUE

Reject(u) ==
  /\ Cardinality(After(accepted[u], now - Window)) >= MaxReqs
  /\ answer' = FALSE
  /\ UNCHANGED accepted

Request(u) ==
  /\ requests' = requests + 1
  /\ Accept(u) \/ Reject(u)
  /\ UNCHANGED now

Restart ==
  /\ accepted' = [u \in Users |-> {}]
  /\ UNCHANGED <<now, requests, answer>>

Next == Tick \/ Restart \/ \E u \in Users : Request(u)

Spec == Init /\ [][Next]_window
=============================================================================
