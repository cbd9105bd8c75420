----------------------------- MODULE MemberRepo -----------------------------
(***************************************************************************)
(* The members' pages and trade databases in Notion: MemberRepo            *)
(* (internal/adapter/notion/member.go), SaveTrade and GetTrades            *)
(* (internal/adapter/notion/trade.go), called by RecordTrade               *)
(* (internal/service/journal.go) and by the services that read trades.     *)
(*                                                                         *)
(* The cache's mutex is held for one look-up or one write at a time, so    *)
(* calls for the same member interleave between the look-up, the search,   *)
(* the two creations and the write.  Notion is external: a request may     *)
(* fail, with or without having had its effect, and the search may miss a  *)
(* page or find another member's.  A page has at most one database, so a   *)
(* page's number also names its database.                                  *)
(***************************************************************************)
EXTENDS Naturals

CONSTANTS
  Members,        \* Telegram ids
  NoMember,       \* the owner of a page that does not exist
  Workers,        \* goroutines
  MaxPages,       \* bound: member pages
  MaxCalls,       \* bound: calls
  MaxErrors,      \* bound: failed requests
  MaxRestarts     \* bound: restarts of the process

ASSUME MemberRepoAssumption ==
  /\ NoMember \notin Members
  /\ MaxPages \in Nat
  /\ MaxCalls \in Nat
  /\ MaxErrors \in Nat
  /\ MaxRestarts \in Nat

VARIABLES
  owner,      \* Notion: the member named on each page
  hasDB,      \* Notion: the pages with a trade database
  saved,      \* Notion: the databases the trades of members are in
  cache,      \* r.cache
  pc, call,   \* each worker's next step and local variables
  calls, errors, restarts,
  disturbed   \* history: members with overlapping or failed calls, a wrong
              \* answer to a search, or a restart

notion == <<owner, hasDB, saved>>
vars == <<notion, cache, pc, call, calls, errors, restarts, disturbed>>

Pages == 1..MaxPages

(* A domain.Member: its page, 0 for none, and whether NotionDBID is set.   *)
NoEntry == [page |-> 0, db |-> FALSE]
Entry == [page : Pages \cup {0}, db : BOOLEAN]

Steps == {"idle", "ensure", "search", "createPage", "createDB", "cacheEnsured",
          "get", "find", "cacheFound", "use"}

Call == [kind : {"record", "read"}, member : Members, entry : Entry]
NoCall == [kind |-> "none"]

Init ==
  /\ owner = [p \in Pages |-> NoMember]
  /\ hasDB = {}
  /\ saved = {}
  /\ cache = [m \in Members |-> NoEntry]
  /\ pc = [w \in Workers |-> "idle"]
  /\ call = [w \in Workers |-> NoCall]
  /\ calls = 0 /\ errors = 0 /\ restarts = 0
  /\ disturbed = {}

-----------------------------------------------------------------------------
At(w, step) == pc[w] = step

Goto(w, step) == pc' = [pc EXCEPT ![w] = step]

Return(w) ==
  /\ pc' = [pc EXCEPT ![w] = "idle"]
  /\ call' = [call EXCEPT ![w] = NoCall]

Holding(w, entry) == call' = [call EXCEPT ![w].entry = entry]

(* A request that fails is counted and disturbs the member.                *)
Failing(w, err) ==
  IF err THEN /\ errors < MaxErrors
              /\ errors' = errors + 1
              /\ disturbed' = disturbed \cup {call[w].member}
         ELSE UNCHANGED <<errors, disturbed>>

OwnPages(m) == {p \in Pages : owner[p] = m}

(* What a search for the member may answer: any page, or 0 for none.       *)
SearchPages == {0} \cup {p \in Pages : owner[p] # NoMember}

(* What it should answer.                                                  *)
ExactPages(m) == IF OwnPages(m) = {} THEN {0} ELSE OwnPages(m)

(* A search that fails or answers something else disturbs the member.      *)
Searching(w, found, err) ==
  LET m == call[w].member IN
  IF err THEN Failing(w, TRUE)
  ELSE /\ disturbed' = IF found \in ExactPages(m) THEN disturbed ELSE disturbed \cup {m}
       /\ UNCHANGED errors

(* RecordTrade or a reader of the member's trades is called.               *)
Begin(w, m, kind) ==
  /\ At(w, "idle")
  /\ calls < MaxCalls
  /\ calls' = calls + 1
  /\ Goto(w, IF kind = "record" THEN "ensure" ELSE "get")
  /\ call' = [call EXCEPT ![w] = [kind |-> kind, member |-> m, entry |-> NoEntry]]
  /\ disturbed' = IF \E v \in Workers : call[v] # NoCall /\ call[v].member = m
                  THEN disturbed \cup {m} ELSE disturbed
  /\ UNCHANGED <<notion, cache, errors, restarts>>

-----------------------------------------------------------------------------
(***************************************************************************)
(* EnsureMember.                                                           *)
(***************************************************************************)
EnsureCached(w) ==
  /\ At(w, "ensure")
  /\ Goto(w, IF cache[call[w].member] = NoEntry THEN "search" ELSE "get")
  /\ UNCHANGED <<notion, cache, call, calls, errors, restarts, disturbed>>

(* Faulty variant: a page that is found is taken to have its database.     *)
SearchTrusted(w, found, err) ==
  /\ At(w, "search")
  /\ Searching(w, found, err)
  /\ IF err \/ found = 0 THEN Goto(w, "createPage") /\ UNCHANGED call
     ELSE Goto(w, "cacheEnsured") /\ Holding(w, [page |-> found, db |-> TRUE])
  /\ UNCHANGED <<notion, cache, calls, restarts>>

(* The page is created if none is found, and also if the search fails.     *)
Search(w, found, err) ==
  /\ At(w, "search")
  /\ Searching(w, found, err)
  /\ IF err \/ found = 0 THEN Goto(w, "createPage") /\ UNCHANGED call
     ELSE Goto(w, "cacheEnsured") /\ Holding(w, [page |-> found, db |-> FALSE])
  /\ UNCHANGED <<notion, cache, calls, restarts>>

(* Faulty variant: a page whose creation failed may be left without owner  *)
(* while the call goes on as if it were there.                             *)
CreatePageUnchecked(w, done, err) ==
  /\ At(w, "createPage")
  /\ Failing(w, err)
  /\ \E p \in Pages :
       /\ owner[p] = NoMember
       /\ owner' = IF done THEN [owner EXCEPT ![p] = call[w].member] ELSE owner
       /\ Goto(w, "createDB") /\ Holding(w, [page |-> p, db |-> FALSE])
  /\ UNCHANGED <<hasDB, saved, cache, calls, restarts>>

(* Notion may have created the page although the answer is an error.       *)
CreatePage(w, done, err) ==
  /\ At(w, "createPage")
  /\ ~err => done
  /\ Failing(w, err)
  /\ \E p \in Pages :
       /\ owner[p] = NoMember
       /\ owner' = IF done THEN [owner EXCEPT ![p] = call[w].member] ELSE owner
       /\ IF err THEN Return(w)
          ELSE Goto(w, "createDB") /\ Holding(w, [page |-> p, db |-> FALSE])
  /\ UNCHANGED <<hasDB, saved, cache, calls, restarts>>

(* createTradeDatabase.                                                    *)
CreateDB(w, done, err) ==
  LET p == call[w].entry.page IN
  /\ At(w, "createDB")
  /\ ~err => done
  /\ Failing(w, err)
  /\ hasDB' = IF done THEN hasDB \cup {p} ELSE hasDB
  /\ IF err THEN Return(w)
     ELSE Goto(w, "cacheEnsured") /\ Holding(w, [page |-> p, db |-> TRUE])
  /\ UNCHANGED <<owner, saved, cache, calls, restarts>>

(* Faulty variant: the new member is not cached.                           *)
CacheEnsuredNot(w) ==
  /\ At(w, "cacheEnsured")
  /\ Goto(w, "get")
  /\ UNCHANGED <<notion, cache, call, calls, errors, restarts, disturbed>>

CacheEnsured(w) ==
  /\ At(w, "cacheEnsured")
  /\ cache' = [cache EXCEPT ![call[w].member] = call[w].entry]
  /\ Goto(w, "get")
  /\ UNCHANGED <<notion, call, calls, errors, restarts, disturbed>>

-----------------------------------------------------------------------------
(***************************************************************************)
(* GetMember, and then what SaveTrade and GetTrades do with the member.    *)
(***************************************************************************)
GetCached(w) ==
  LET e == cache[call[w].member] IN
  /\ At(w, "get")
  /\ IF e = NoEntry THEN Goto(w, "find") /\ UNCHANGED call
     ELSE Goto(w, "use") /\ Holding(w, e)
  /\ UNCHANGED <<notion, cache, calls, errors, restarts, disturbed>>

Find(w, found, err) ==
  /\ At(w, "find")
  /\ Searching(w, found, err)
  /\ IF err \/ found = 0 THEN Return(w)
     ELSE Goto(w, "cacheFound") /\ Holding(w, [page |-> found, db |-> FALSE])
  /\ UNCHANGED <<notion, cache, calls, restarts>>

(* What was found is cached over whatever was cached meanwhile.            *)
CacheFound(w) ==
  /\ At(w, "cacheFound")
  /\ cache' = [cache EXCEPT ![call[w].member] = call[w].entry]
  /\ Goto(w, "use")
  /\ UNCHANGED <<notion, call, calls, errors, restarts, disturbed>>

(* GetTrades; a member without database has no trades.                     *)
GetTrades(w) ==
  /\ At(w, "use") /\ call[w].kind = "read"
  /\ Return(w)
  /\ UNCHANGED <<notion, cache, calls, errors, restarts, disturbed>>

(* A member without database is an error; an error of the request may come *)
(* after the trade was saved.                                              *)
SaveTrade(w, done, err) ==
  LET e == call[w].entry IN
  /\ At(w, "use") /\ call[w].kind = "record"
  /\ ~err => done \/ ~e.db
  /\ done => e.db
  /\ Failing(w, err)
  /\ saved' = IF done THEN saved \cup {[member |-> call[w].member, db |-> e.page]} ELSE saved
  /\ Return(w)
  /\ UNCHANGED <<owner, hasDB, cache, calls, restarts>>

(* ListMembers returns the members in the cache.                           *)
ListMembers == {m \in Members : cache[m] # NoEntry}

-----------------------------------------------------------------------------
(* The process is restarted: the cache and the calls are gone.             *)
Restart ==
  /\ restarts < MaxRestarts
  /\ restarts' = restarts + 1
  /\ cache' = [m \in Members |-> NoEntry]
  /\ pc' = [w \in Workers |-> "idle"]
  /\ call' = [w \in Workers |-> NoCall]
  /\ disturbed' = Members
  /\ UNCHANGED <<notion, calls, errors>>

Step(w) ==
  \/ EnsureCached(w) \/ CacheEnsured(w)
  \/ GetCached(w) \/ CacheFound(w) \/ GetTrades(w)
  \/ \E done, err \in BOOLEAN :
       CreatePage(w, done, err) \/ CreateDB(w, done, err) \/ SaveTrade(w, done, err)
  \/ \E found \in SearchPages, err \in BOOLEAN :
       Search(w, found, err) \/ Find(w, found, err)

Next ==
  \/ \E w \in Workers, m \in Members, kind \in {"record", "read"} : Begin(w, m, kind)
  \/ \E w \in Workers : Step(w)
  \/ Restart

Spec == Init /\ [][Next]_vars

-----------------------------------------------------------------------------
TypeOK ==
  /\ owner \in [Pages -> Members \cup {NoMember}]
  /\ hasDB \subseteq {p \in Pages : owner[p] # NoMember}
  /\ saved \subseteq [member : Members, db : hasDB]
  /\ cache \in [Members -> Entry]
  /\ pc \in [Workers -> Steps]
  /\ call \in [Workers -> Call \cup {NoCall}]
  /\ disturbed \subseteq Members

(***************************************************************************)
(* A trade is never put into another member's database, even if a search   *)
(* finds another member's page, by which GetMember and EnsureMember        *)
(* identify members (member.go 161-171).                                   *)
(***************************************************************************)
TradesInOwnDB == \A t \in saved : owner[t.db] = t.member

(***************************************************************************)
(* While the calls for a member neither overlap nor fail nor are cut off   *)
(* by a restart, and its searches are answered rightly, the member has one *)
(* page, every call that gets as far as using the member knows its         *)
(* database, and GetTrades reads the database that holds all the member's  *)
(* trades (member.go 32-106, trade.go 23-77).                              *)
(***************************************************************************)
SeenUnlessDisturbed ==
  \A m \in Members \ disturbed :
    /\ \A p, q \in OwnPages(m) : p = q
    /\ \A w \in Workers : pc[w] = "use" /\ call[w].member = m => call[w].entry.db
    /\ \A t \in saved : t.member = m => cache[m] = [page |-> t.db, db |-> TRUE]

(***************************************************************************)
(* ports/repository.go 20: "EnsureMember creates the member page in Notion *)
(* if it doesn't exist".                                                   *)
(***************************************************************************)
OnePagePerMember == \A m \in Members : \A p, q \in OwnPages(m) : p = q

(***************************************************************************)
(* member.go 167, of a page that was found: "the trade DB ID will be       *)
(* resolved lazily".  So a call that uses a member knows the database that *)
(* the member's page has.                                                  *)
(***************************************************************************)
DBIsResolved ==
  \A w \in Workers : pc[w] = "use" /\ call[w].entry.page \in hasDB => call[w].entry.db

(***************************************************************************)
(* ports/repository.go 27: "ListMembers returns all registered members",   *)
(* so whoever has recorded a trade is listed (and is ranked, reported and  *)
(* given a place in the challenge).                                        *)
(***************************************************************************)
AllAreListed ==
  \A t \in saved : t.member \in ListMembers

-----------------------------------------------------------------------------
(* The invariant behind these.  Whoever knows a database knows the one on  *)
(* the member's own page.                                                  *)
EntryOK(e, m) == e.db => e.page \in hasDB /\ owner[e.page] = m

WorkerOK(w) ==
  IF pc[w] = "idle" THEN call[w] = NoCall
  ELSE /\ call[w] \in Call
       /\ EntryOK(call[w].entry, call[w].member)
       /\ pc[w] = "createDB" => /\ call[w].entry.page \in Pages
                               /\ owner[call[w].entry.page] = call[w].member

Known ==
  /\ \A w \in Workers : WorkerOK(w)
  /\ \A m \in Members : EntryOK(cache[m], m)

Serves(w, m) == pc[w] # "idle" /\ call[w].member = m

(* What the one worker of an undisturbed member has in hand: it searches   *)
(* and creates only what is not there, and uses what is cached.            *)
Alone(w, m) ==
  /\ pc[w] \in {"search", "createPage", "createDB", "cacheEnsured", "find"} => cache[m] = NoEntry
  /\ pc[w] \in {"search", "createPage", "find"} => OwnPages(m) = {}
  /\ pc[w] = "cacheEnsured" => call[w].entry.db
  /\ pc[w] # "cacheFound"
  /\ pc[w] = "use" => cache[m] # NoEntry /\ call[w].entry = cache[m]

(* The member's page is cached with its database unless it is being made.  *)
Account(m) ==
  /\ \A p, q \in OwnPages(m) : p = q
  /\ \A v, w \in Workers : Serves(v, m) /\ Serves(w, m) => v = w
  /\ \A w \in Workers : Serves(w, m) => Alone(w, m)
  /\ cache[m] # NoEntry => cache[m].db
  /\ cache[m] = NoEntry =>
       /\ \A t \in saved : t.member # m
       /\ OwnPages(m) # {} =>
            \E w \in Workers : Serves(w, m) /\ pc[w] \in {"createDB", "cacheEnsured"}

IInv ==
  /\ TypeOK /\ Known /\ TradesInOwnDB
  /\ \A m \in Members \ disturbed : Account(m)
=============================================================================
