-------------------------- MODULE MemberRepoProofs --------------------------
(***************************************************************************)
(* Proofs about MemberRepo: no trade is ever put into another member's     *)
(* database, and a member whose calls are not disturbed has one page and   *)
(* one database, which is the one that is read.  For any members, workers, *)
(* pages and numbers of failures and restarts.                             *)
(***************************************************************************)
EXTENDS MemberRepo, TLAPS

USE MemberRepoAssumption

(* All workers but w stay where they are.                                  *)
Moves(w) ==
  /\ pc' = [v \in Workers |-> pc'[v]] /\ call' = [v \in Workers |-> call'[v]]
  /\ \A v \in Workers \ {w} : pc'[v] = pc[v] /\ call'[v] = call[v]

(* Pages keep their owner and their database.                              *)
Grows ==
  /\ \A p \in Pages : owner[p] # NoMember => owner'[p] = owner[p]
  /\ hasDB \subseteq hasDB'

(* A member's account while w alone may serve the member.                  *)
Only(m, w) ==
  /\ \A p, q \in OwnPages(m) : p = q
  /\ Serves(w, m) => Alone(w, m)
  /\ cache[m] # NoEntry => cache[m].db
  /\ cache[m] = NoEntry =>
       /\ \A t \in saved : t.member # m
       /\ OwnPages(m) # {} => Serves(w, m) /\ pc[w] \in {"createDB", "cacheEnsured"}

LEMMA NoEntryFacts == NoEntry \in Entry /\ ~NoEntry.db /\ 0 \notin Pages
  BY DEF NoEntry, Entry, Pages

LEMMA StateTypes ==
  ASSUME IInv
  PROVE  /\ owner \in [Pages -> Members \cup {NoMember}]
         /\ hasDB \subseteq {p \in Pages : owner[p] # NoMember}
         /\ saved \subseteq [member : Members, db : hasDB]
         /\ cache \in [Members -> Entry]
         /\ pc \in [Workers -> Steps] /\ call \in [Workers -> Call \cup {NoCall}]
         /\ disturbed \subseteq Members
  BY DEF IInv, TypeOK

(* A worker under way has a call, for a member.                            *)
LEMMA WorkFacts ==
  ASSUME IInv, NEW w \in Workers, pc[w] # "idle"
  PROVE  /\ call[w] \in Call /\ call[w].member \in Members /\ call[w].entry \in Entry
         /\ EntryOK(call[w].entry, call[w].member)
         /\ pc[w] = "createDB" => /\ call[w].entry.page \in Pages
                                  /\ owner[call[w].entry.page] = call[w].member
  BY DEF IInv, Known, WorkerOK, Call

LEMMA ReturnFacts ==
  ASSUME IInv, NEW w \in Workers, Return(w)
  PROVE  Moves(w) /\ pc'[w] = "idle" /\ pc'[w] \in Steps /\ WorkerOK(w)'
<1>1. Moves(w) /\ pc'[w] = "idle" /\ call'[w] = NoCall
  BY StateTypes DEF Return, Moves
<1>2. QED
  BY <1>1 DEF WorkerOK, Steps

LEMMA GotoFacts ==
  ASSUME IInv, NEW w \in Workers, NEW step, Goto(w, step), UNCHANGED call
  PROVE  Moves(w) /\ pc'[w] = step /\ call'[w] = call[w]
  BY StateTypes DEF Goto, Moves

LEMMA HoldingFacts ==
  ASSUME IInv, NEW w \in Workers, pc[w] # "idle", NEW step, NEW e \in Entry,
         Goto(w, step), Holding(w, e)
  PROVE  /\ Moves(w) /\ pc'[w] = step /\ call'[w] \in Call /\ call'[w].entry = e
         /\ call'[w].member = call[w].member
<1>1. Moves(w) /\ pc'[w] = step /\ call'[w] = [call[w] EXCEPT !.entry = e]
  BY StateTypes DEF Goto, Holding, Moves
<1>2. call[w] \in Call
  BY WorkFacts
<1>3. QED
  BY <1>1, <1>2 DEF Call

(* What someone knows of a database stays true.                            *)
LEMMA EntryStays ==
  ASSUME IInv, Grows, NEW e \in Entry, NEW m \in Members, EntryOK(e, m)
  PROVE  EntryOK(e, m)'
  BY StateTypes DEF EntryOK, Grows

LEMMA SavedStays ==
  ASSUME IInv, Grows, saved' = saved
  PROVE  saved' \subseteq [member : Members, db : hasDB'] /\ TradesInOwnDB'
<1>1. saved' \subseteq [member : Members, db : hasDB']
  BY StateTypes DEF Grows
<1>2. ASSUME NEW t \in saved PROVE owner'[t.db] = t.member
  <2>1. t \in [member : Members, db : hasDB] /\ owner[t.db] = t.member
    BY StateTypes DEF IInv, TradesInOwnDB
  <2>2. t.db \in Pages /\ owner[t.db] # NoMember
    BY <2>1, StateTypes
  <2>3. QED
    BY <2>1, <2>2 DEF Grows
<1>3. QED
  BY <1>1, <1>2 DEF TradesInOwnDB

(***************************************************************************)
(* A step of worker w, which serves member m, keeps the invariant if w and *)
(* m's cached entry are right after it, nothing changes for other members, *)
(* and m's account is right if w alone serves m.                           *)
(***************************************************************************)
LEMMA StepKeeps ==
  ASSUME IInv, NEW w \in Workers, NEW m \in Members, Serves(w, m), Moves(w), Grows,
         pc'[w] \in Steps, WorkerOK(w)', pc'[w] = "idle" \/ call'[w].member = m,
         owner' \in [Pages -> Members \cup {NoMember}],
         hasDB' \subseteq {p \in Pages : owner'[p] # NoMember},
         saved' \subseteq [member : Members, db : hasDB'], TradesInOwnDB',
         \A t \in saved' : t \in saved \/ t.member = m,
         cache' \in [Members -> Entry], EntryOK(cache[m], m)',
         \A n \in Members \ {m} : cache'[n] = cache[n] /\ OwnPages(n)' = OwnPages(n),
         disturbed' \subseteq Members, disturbed \subseteq disturbed',
         m \notin disturbed' /\ Only(m, w) => Only(m, w)'
  PROVE  IInv'
<1>1. \A v \in Workers : WorkerOK(v)'
  <2> SUFFICES ASSUME NEW v \in Workers, v # w PROVE WorkerOK(v)'
    OBVIOUS
  <2>1. WorkerOK(v) /\ pc'[v] = pc[v] /\ call'[v] = call[v]
    BY DEF IInv, Known, Moves
  <2>2. CASE pc[v] = "idle"
    BY <2>1, <2>2 DEF WorkerOK
  <2>3. CASE pc[v] # "idle"
    <3>1. PICK c \in Call : c = call[v] /\ c = call'[v]
      BY <2>1, <2>3, WorkFacts
    <3>2. c.entry \in Entry /\ c.member \in Members /\ EntryOK(c.entry, c.member)
      BY <3>1, <2>3, WorkFacts
    <3>3. EntryOK(c.entry, c.member)'
      BY <3>2, EntryStays
    <3>4. pc[v] = "createDB" => c.entry.page \in Pages /\ owner'[c.entry.page] = c.member
      <4> SUFFICES ASSUME pc[v] = "createDB"
                   PROVE  c.entry.page \in Pages /\ owner'[c.entry.page] = c.member
        OBVIOUS
      <4>1. c.entry.page \in Pages /\ owner[c.entry.page] = c.member
        BY <3>1, <2>3, WorkFacts
      <4>2. QED
        BY <4>1, <3>2 DEF Grows
    <3>5. QED
      BY <3>1, <3>3, <3>4, <2>1, <2>3 DEF WorkerOK
  <2>4. QED
    BY <2>2, <2>3
<1>2. \A n \in Members : EntryOK(cache[n], n)'
  <2> SUFFICES ASSUME NEW n \in Members, n # m PROVE EntryOK(cache[n], n)'
    OBVIOUS
  <2>1. PICK e \in Entry : e = cache[n] /\ e = cache'[n]
    BY StateTypes
  <2>2. EntryOK(e, n)
    BY <2>1 DEF IInv, Known
  <2>3. EntryOK(e, n)'
    BY <2>2, EntryStays
  <2>4. QED
    BY <2>1, <2>3 DEF EntryOK
<1>3. TypeOK'
  <2>1. pc' \in [Workers -> Steps]
    BY StateTypes DEF Moves
  <2>2. call' \in [Workers -> Call \cup {NoCall}]
    BY <1>1 DEF Moves, WorkerOK
  <2>3. QED
    BY <2>1, <2>2 DEF TypeOK
<1>4. ASSUME NEW n \in Members \ disturbed' PROVE Account(n)'
  <2>1. Account(n)
    BY DEF IInv
  <2>2. CASE n # m
    <3>1. \A v \in Workers : /\ Serves(v, n)' = Serves(v, n)
                             /\ Serves(v, n) => pc'[v] = pc[v] /\ call'[v] = call[v]
      BY <2>2 DEF Serves, Moves
    <3>2. cache'[n] = cache[n] /\ OwnPages(n)' = OwnPages(n)
      BY <2>2
    <3>3. \A v \in Workers : Serves(v, n)' => Alone(v, n)'
      BY <2>1, <3>1, <3>2 DEF Account, Alone
    <3>4. \A t \in saved' : t.member = n => t \in saved
      BY <2>2
    <3>5. QED
      BY <2>1, <3>1, <3>2, <3>3, <3>4 DEF Account
  <2>3. CASE n = m
    <3>1. \A v \in Workers \ {w} : ~Serves(v, m)'
      BY <2>1, <2>3 DEF Account, Serves, Moves
    <3>2. Only(m, w)
      BY <2>1, <2>3 DEF Account, Only
    <3>3. Only(m, w)'
      BY <3>2, <2>3
    <3>4. QED
      BY <3>1, <3>3, <2>3 DEF Account, Only
  <2>4. QED
    BY <2>2, <2>3
<1>5. QED
  BY <1>1, <1>2, <1>3, <1>4 DEF IInv, Known

(* A step that leaves Notion and the cache alone.                          *)
LEMMA QuietKeeps ==
  ASSUME IInv, NEW w \in Workers, NEW m \in Members, Serves(w, m), Moves(w),
         pc'[w] \in Steps, WorkerOK(w)', pc'[w] = "idle" \/ call'[w].member = m,
         UNCHANGED <<owner, hasDB, saved, cache>>,
         disturbed' \subseteq Members, disturbed \subseteq disturbed',
         m \notin disturbed' /\ Only(m, w) => Only(m, w)'
  PROVE  IInv'
<1>1. Grows
  BY DEF Grows
<1>2. EntryOK(cache[m], m)'
  BY DEF IInv, Known, EntryOK
<1>3. \A n \in Members : OwnPages(n)' = OwnPages(n)
  BY DEF OwnPages
<1>4. QED
  BY <1>1, <1>2, <1>3, StateTypes, SavedStays, StepKeeps

-----------------------------------------------------------------------------
(* The first state.                                                        *)
LEMMA InitIInv == Init => IInv
<1> SUFFICES ASSUME Init PROVE IInv
  OBVIOUS
<1>1. TypeOK /\ TradesInOwnDB
  BY NoEntryFacts DEF Init, TypeOK, TradesInOwnDB, Steps
<1>2. Known
  BY NoEntryFacts DEF Init, Known, WorkerOK, EntryOK
<1>3. ASSUME NEW m \in Members PROVE Account(m)
  <2>1. OwnPages(m) = {}
    BY DEF Init, OwnPages
  <2>2. QED
    BY <2>1 DEF Init, Account, Serves
<1>4. QED
  BY <1>1, <1>2, <1>3 DEF IInv

(* A call for a member; one that overlaps with another is disturbed.       *)
LEMMA BeginKeeps ==
  ASSUME IInv, NEW w \in Workers, NEW m \in Members, NEW kind \in {"record", "read"},
         Begin(w, m, kind)
  PROVE  IInv'
<1> DEFINE c == [kind |-> kind, member |-> m, entry |-> NoEntry]
<1>1. /\ pc[w] = "idle" /\ pc'[w] \in {"ensure", "get"} /\ call'[w] = c /\ Moves(w)
      /\ disturbed' = IF \E v \in Workers : call[v] # NoCall /\ call[v].member = m
                      THEN disturbed \cup {m} ELSE disturbed
      /\ UNCHANGED <<owner, hasDB, saved, cache>>
  BY StateTypes DEF Begin, At, Goto, Moves, notion
<1>2. c \in Call /\ c.member = m /\ c.entry = NoEntry
  BY NoEntryFacts DEF Call
<1> HIDE DEF c
<1>3. TypeOK'
  <2>1. pc' \in [Workers -> Steps] /\ call' \in [Workers -> Call \cup {NoCall}]
    BY <1>1, <1>2, StateTypes DEF Moves, Steps
  <2>2. disturbed' \subseteq Members
    BY <1>1, StateTypes
  <2>3. QED
    BY <2>1, <2>2, <1>1 DEF TypeOK, IInv
<1>4. Known' /\ TradesInOwnDB'
  <2>1. WorkerOK(w)'
    BY <1>1, <1>2, NoEntryFacts DEF WorkerOK, EntryOK
  <2>2. \A v \in Workers \ {w} : WorkerOK(v)'
    BY <1>1 DEF IInv, Known, WorkerOK, EntryOK, Moves
  <2>3. QED
    BY <2>1, <2>2, <1>1 DEF IInv, Known, EntryOK, TradesInOwnDB
<1>5. ASSUME NEW n \in Members \ disturbed' PROVE Account(n)'
  <2>1. Account(n) /\ OwnPages(n)' = OwnPages(n) /\ cache'[n] = cache[n]
    BY <1>1 DEF IInv, OwnPages
  <2>2. \A v \in Workers \ {w} : /\ Serves(v, n)' = Serves(v, n)
                                 /\ pc'[v] = pc[v] /\ call'[v] = call[v]
    BY <1>1 DEF Serves, Moves
  <2>3. ~Serves(w, n)
    BY <1>1 DEF Serves
  <2>4. Serves(w, n)' => \A v \in Workers : ~Serves(v, n)
    <3> SUFFICES ASSUME Serves(w, n)', NEW v \in Workers, Serves(v, n) PROVE FALSE
      OBVIOUS
    <3>1. n = m
      BY <1>1, <1>2 DEF Serves
    <3>2. call[v].member = m /\ call[v] # NoCall
      BY <3>1, WorkFacts DEF Serves, Call, NoCall
    <3>3. QED
      BY <3>1, <3>2, <1>1
  <2>5. \A v \in Workers : Serves(v, n)' => Alone(v, n)'
    <3>1. Alone(w, n)'
      BY <1>1 DEF Alone
    <3>2. \A v \in Workers \ {w} : Serves(v, n)' => Alone(v, n)'
      BY <2>1, <2>2 DEF Account, Alone
    <3>3. QED
      BY <3>1, <3>2
  <2>6. \A u, v \in Workers : Serves(u, n)' /\ Serves(v, n)' => u = v
    BY <2>1, <2>2, <2>4 DEF Account
  <2>7. cache[n] = NoEntry /\ OwnPages(n) # {} =>
          \E v \in Workers : Serves(v, n)' /\ pc'[v] \in {"createDB", "cacheEnsured"}
    BY <2>1, <2>2, <2>3 DEF Account
  <2>8. QED
    BY <2>1, <2>5, <2>6, <2>7, <1>1 DEF Account
<1>6. QED
  BY <1>3, <1>4, <1>5 DEF IInv

-----------------------------------------------------------------------------
(* EnsureMember.                                                           *)
LEMMA EnsureCachedKeeps == ASSUME IInv, NEW w \in Workers, EnsureCached(w) PROVE IInv'
<1>1. PICK m \in Members : Serves(w, m)
  BY WorkFacts DEF EnsureCached, At, Serves
<1>2. /\ pc[w] = "ensure" /\ call[w].member = m /\ Moves(w) /\ call'[w] = call[w]
      /\ pc'[w] = IF cache[m] = NoEntry THEN "search" ELSE "get"
      /\ UNCHANGED <<owner, hasDB, saved, cache, disturbed>>
  BY <1>1, GotoFacts DEF EnsureCached, At, Serves, notion
<1>3. WorkerOK(w)' /\ pc'[w] \in Steps
  BY <1>2, WorkFacts DEF WorkerOK, Steps, EntryOK
<1>4. ASSUME Only(m, w) PROVE Only(m, w)'
  <2>1. OwnPages(m)' = OwnPages(m)
    BY <1>2 DEF OwnPages
  <2>2. cache[m] = NoEntry => OwnPages(m) = {}
    BY <1>2, <1>4 DEF Only
  <2>3. QED
    BY <2>1, <2>2, <1>2, <1>4 DEF Only, Alone, Serves
<1>5. QED
  BY <1>1, <1>2, <1>3, <1>4, StateTypes, QuietKeeps

(* What a search says of the member and its disturbance.                   *)
LEMMA SearchingFacts ==
  ASSUME IInv, NEW w \in Workers, NEW m \in Members, call[w].member = m,
         NEW found \in SearchPages, NEW err \in BOOLEAN, Searching(w, found, err)
  PROVE  /\ found \in Pages \cup {0}
         /\ disturbed' \subseteq Members /\ disturbed \subseteq disturbed'
         /\ m \notin disturbed' => ~err /\ found \in ExactPages(m)
  BY StateTypes DEF Searching, Failing, SearchPages

LEMMA SearchKeeps ==
  ASSUME IInv, NEW w \in Workers, NEW found \in SearchPages, NEW err \in BOOLEAN,
         Search(w, found, err)
  PROVE  IInv'
<1>1. PICK m \in Members : Serves(w, m)
  BY WorkFacts DEF Search, At, Serves
<1>2. /\ pc[w] = "search" /\ call[w].member = m
      /\ UNCHANGED <<owner, hasDB, saved, cache>>
  BY <1>1 DEF Search, At, Serves, notion
<1>3. /\ found \in Pages \cup {0}
      /\ disturbed' \subseteq Members /\ disturbed \subseteq disturbed'
      /\ m \notin disturbed' => ~err /\ found \in ExactPages(m)
  BY <1>2, SearchingFacts DEF Search
<1>4. CASE err \/ found = 0
  <2>1. Moves(w) /\ pc'[w] = "createPage" /\ call'[w] = call[w]
    BY <1>4, GotoFacts DEF Search
  <2>2. WorkerOK(w)' /\ pc'[w] \in Steps
    BY <2>1, <1>2, WorkFacts DEF WorkerOK, Steps, EntryOK
  <2>3. ASSUME Only(m, w) PROVE Only(m, w)'
    <3>1. OwnPages(m)' = OwnPages(m)
      BY <1>2 DEF OwnPages
    <3>2. QED
      BY <3>1, <2>1, <2>3, <1>1, <1>2 DEF Only, Alone, Serves
  <2>4. QED
    BY <2>1, <2>2, <2>3, <1>1, <1>2, <1>3, QuietKeeps
<1>5. CASE ~(err \/ found = 0)
  <2> DEFINE e == [page |-> found, db |-> FALSE]
  <2>1. e \in Entry
    BY <1>3 DEF Entry
  <2>2. /\ Moves(w) /\ pc'[w] = "cacheEnsured" /\ call'[w] \in Call
        /\ call'[w].entry = e /\ call'[w].member = m
    BY <2>1, <1>2, <1>5, HoldingFacts DEF Search
  <2>3. WorkerOK(w)' /\ pc'[w] \in Steps
    BY <2>2 DEF WorkerOK, Steps, EntryOK
  <2>4. m \notin disturbed' /\ Only(m, w) => Only(m, w)'
    <3> SUFFICES ASSUME m \notin disturbed', Only(m, w) PROVE FALSE
      OBVIOUS
    <3>1. OwnPages(m) = {}
      BY <1>1, <1>2 DEF Only, Alone
    <3>2. QED
      BY <3>1, <1>3, <1>5 DEF ExactPages
  <2>5. QED
    BY <2>2, <2>3, <2>4, <1>1, <1>2, <1>3, QuietKeeps
<1>6. QED
  BY <1>4, <1>5

LEMMA FailingFacts ==
  ASSUME IInv, NEW w \in Workers, NEW m \in Members, call[w].member = m,
         NEW err \in BOOLEAN, Failing(w, err)
  PROVE  /\ disturbed' \subseteq Members /\ disturbed \subseteq disturbed'
         /\ m \notin disturbed' => ~err
  BY StateTypes DEF Failing

(* The new page is the first one of an undisturbed member.                 *)
LEMMA CreatePageKeeps ==
  ASSUME IInv, NEW w \in Workers, NEW done \in BOOLEAN, NEW err \in BOOLEAN,
         CreatePage(w, done, err)
  PROVE  IInv'
<1>1. PICK m \in Members : Serves(w, m)
  BY WorkFacts DEF CreatePage, At, Serves
<1>2. /\ pc[w] = "createPage" /\ call[w].member = m /\ (~err => done)
      /\ UNCHANGED <<hasDB, saved, cache>>
  BY <1>1 DEF CreatePage, At, Serves
<1>3. /\ disturbed' \subseteq Members /\ disturbed \subseteq disturbed'
      /\ m \notin disturbed' => ~err
  BY <1>2, FailingFacts DEF CreatePage
<1>4. PICK p \in Pages :
        /\ owner[p] = NoMember
        /\ owner' = IF done THEN [owner EXCEPT ![p] = m] ELSE owner
        /\ IF err THEN Return(w)
           ELSE Goto(w, "createDB") /\ Holding(w, [page |-> p, db |-> FALSE])
  BY <1>2 DEF CreatePage
<1>5. /\ owner' \in [Pages -> Members \cup {NoMember}]
      /\ \A q \in Pages \ {p} : owner'[q] = owner[q]
      /\ done => owner'[p] = m
      /\ ~done => owner' = owner
  BY <1>4, StateTypes
<1>6. Grows /\ hasDB' \subseteq {q \in Pages : owner'[q] # NoMember}
  BY <1>2, <1>4, <1>5, StateTypes DEF Grows
<1>7. \A n \in Members \ {m} : cache'[n] = cache[n] /\ OwnPages(n)' = OwnPages(n)
  BY <1>2, <1>4, <1>5 DEF OwnPages
<1>8. /\ saved' \subseteq [member : Members, db : hasDB'] /\ TradesInOwnDB'
      /\ cache' \in [Members -> Entry] /\ EntryOK(cache[m], m)'
  <2>1. PICK e \in Entry : e = cache[m] /\ e = cache'[m]
    BY <1>2, StateTypes
  <2>2. EntryOK(e, m)'
    BY <2>1, <1>6, EntryStays DEF IInv, Known
  <2>3. EntryOK(cache[m], m)'
    BY <2>1, <2>2 DEF EntryOK
  <2>4. QED
    BY <2>3, <1>2, <1>6, StateTypes, SavedStays
<1>9. CASE err
  <2>1. Moves(w) /\ pc'[w] = "idle" /\ pc'[w] \in Steps /\ WorkerOK(w)'
    BY <1>4, <1>9, ReturnFacts
  <2>2. QED
    BY <2>1, <1>1, <1>2, <1>3, <1>5, <1>6, <1>7, <1>8, <1>9, StepKeeps
<1>10. CASE ~err
  <2> DEFINE e == [page |-> p, db |-> FALSE]
  <2>1. e \in Entry
    BY DEF Entry
  <2>2. /\ Moves(w) /\ pc'[w] = "createDB" /\ call'[w] \in Call
        /\ call'[w].entry = e /\ call'[w].member = m
    BY <2>1, <1>2, <1>4, <1>10, HoldingFacts
  <2>3. WorkerOK(w)' /\ pc'[w] \in Steps
    BY <2>2, <1>2, <1>5, <1>10 DEF WorkerOK, Steps, EntryOK
  <2>4. ASSUME Only(m, w) PROVE Only(m, w)'
    <3>1. OwnPages(m) = {} /\ cache[m] = NoEntry
      BY <2>4, <1>1, <1>2 DEF Only, Alone
    <3>2. \A q \in OwnPages(m)' : q = p
      BY <3>1, <1>5 DEF OwnPages
    <3>3. QED
      BY <3>1, <3>2, <2>2, <2>4, <1>2 DEF Only, Alone, Serves
  <2>5. QED
    BY <2>2, <2>3, <2>4, <1>1, <1>2, <1>3, <1>5, <1>6, <1>7, <1>8, StepKeeps
<1>11. QED
  BY <1>9, <1>10

(* The database is created under the page that the call itself made.       *)
LEMMA CreateDBKeeps ==
  ASSUME IInv, NEW w \in Workers, NEW done \in BOOLEAN, NEW err \in BOOLEAN,
         CreateDB(w, done, err)
  PROVE  IInv'
<1>1. PICK m \in Members : Serves(w, m)
  BY WorkFacts DEF CreateDB, At, Serves
<1>2. /\ pc[w] = "createDB" /\ call[w].member = m /\ (~err => done)
      /\ call[w].entry.page \in Pages /\ owner[call[w].entry.page] = m
      /\ UNCHANGED <<owner, saved, cache>>
  BY <1>1, WorkFacts DEF CreateDB, At, Serves
<1>3. /\ disturbed' \subseteq Members /\ disturbed \subseteq disturbed'
      /\ m \notin disturbed' => ~err
  BY <1>2, FailingFacts DEF CreateDB
<1>4. PICK p \in Pages : p = call[w].entry.page
  BY <1>2
<1>5. hasDB' = IF done THEN hasDB \cup {p} ELSE hasDB
  BY <1>4 DEF CreateDB
<1>6. Grows /\ hasDB' \subseteq {q \in Pages : owner'[q] # NoMember}
  BY <1>2, <1>4, <1>5, StateTypes DEF Grows
<1>7. \A n \in Members : cache'[n] = cache[n] /\ OwnPages(n)' = OwnPages(n)
  BY <1>2 DEF OwnPages
<1>8. /\ saved' \subseteq [member : Members, db : hasDB'] /\ TradesInOwnDB'
      /\ owner' \in [Pages -> Members \cup {NoMember}]
      /\ cache' \in [Members -> Entry] /\ EntryOK(cache[m], m)'
  <2>1. PICK e \in Entry : e = cache[m] /\ e = cache'[m]
    BY <1>2, StateTypes
  <2>2. EntryOK(e, m)'
    BY <2>1, <1>6, EntryStays DEF IInv, Known
  <2>3. EntryOK(cache[m], m)'
    BY <2>1, <2>2 DEF EntryOK
  <2>4. QED
    BY <2>3, <1>2, <1>6, StateTypes, SavedStays
<1>9. CASE err
  <2>1. Moves(w) /\ pc'[w] = "idle" /\ pc'[w] \in Steps /\ WorkerOK(w)'
    BY <1>9, ReturnFacts DEF CreateDB
  <2>2. QED
    BY <2>1, <1>1, <1>2, <1>3, <1>6, <1>7, <1>8, <1>9, StepKeeps
<1>10. CASE ~err
  <2> DEFINE e == [page |-> p, db |-> TRUE]
  <2>1. e \in Entry
    BY DEF Entry
  <2>2. Goto(w, "cacheEnsured") /\ Holding(w, e)
    BY <1>4, <1>10 DEF CreateDB
  <2>3. /\ Moves(w) /\ pc'[w] = "cacheEnsured" /\ call'[w] \in Call
        /\ call'[w].entry = e /\ call'[w].member = m
    BY <2>1, <2>2, <1>2, HoldingFacts
  <2>4. WorkerOK(w)' /\ pc'[w] \in Steps
    BY <2>3, <1>2, <1>4, <1>5, <1>10 DEF WorkerOK, Steps, EntryOK
  <2>5. ASSUME Only(m, w) PROVE Only(m, w)'
    <3>1. cache[m] = NoEntry
      BY <2>5, <1>1, <1>2 DEF Only, Alone
    <3>2. QED
      BY <3>1, <2>3, <2>5, <1>2, <1>7 DEF Only, Alone, Serves
  <2>6. QED
    BY <2>3, <2>4, <2>5, <1>1, <1>2, <1>3, <1>6, <1>7, <1>8, StepKeeps
<1>11. QED
  BY <1>9, <1>10

(* The entry that a call writes into the cache is right for its member.    *)
LEMMA CachingKeeps ==
  ASSUME IInv, NEW w \in Workers, NEW m \in Members, Serves(w, m), NEW step \in Steps,
         pc[w] \in {"cacheEnsured", "cacheFound"}, step \in {"get", "use"},
         pc[w] = "cacheEnsured" => step = "get",
         Goto(w, step), UNCHANGED <<call, owner, hasDB, saved, disturbed>>,
         cache' = [cache EXCEPT ![m] = call[w].entry]
  PROVE  IInv'
<1>1. PICK e \in Entry : e = call[w].entry
  BY WorkFacts DEF Serves
<1>2. Moves(w) /\ pc'[w] = step /\ call'[w] = call[w] /\ call[w].member = m
  BY GotoFacts DEF Serves
<1>3. Grows /\ EntryOK(e, m) /\ WorkerOK(w)'
  BY <1>1, <1>2, WorkFacts DEF Grows, WorkerOK, EntryOK
<1>4. /\ cache' \in [Members -> Entry] /\ cache'[m] = e
      /\ \A n \in Members \ {m} : cache'[n] = cache[n]
  BY <1>1, StateTypes
<1>5. EntryOK(cache[m], m)'
  BY <1>3, <1>4 DEF EntryOK
<1>6. \A n \in Members : OwnPages(n)' = OwnPages(n)
  BY DEF OwnPages
<1>7. ASSUME Only(m, w) PROVE Only(m, w)'
  <2>1. pc[w] = "cacheEnsured" /\ e.db
    BY <1>1, <1>7 DEF Only, Alone
  <2>2. e # NoEntry
    BY <2>1, NoEntryFacts
  <2>3. QED
    BY <2>1, <2>2, <1>2, <1>4, <1>6, <1>7 DEF Only, Alone, Serves
<1>8. QED
  BY <1>2, <1>3, <1>4, <1>5, <1>6, <1>7, StateTypes, SavedStays, StepKeeps

LEMMA CacheEnsuredKeeps == ASSUME IInv, NEW w \in Workers, CacheEnsured(w) PROVE IInv'
<1>1. PICK m \in Members : Serves(w, m)
  BY WorkFacts DEF CacheEnsured, At, Serves
<1>2. "get" \in Steps
  BY DEF Steps
<1>3. QED
  BY <1>1, <1>2, CachingKeeps DEF CacheEnsured, At, Serves, notion

LEMMA CacheFoundKeeps == ASSUME IInv, NEW w \in Workers, CacheFound(w) PROVE IInv'
<1>1. PICK m \in Members : Serves(w, m)
  BY WorkFacts DEF CacheFound, At, Serves
<1>2. "use" \in Steps
  BY DEF Steps
<1>3. QED
  BY <1>1, <1>2, CachingKeeps DEF CacheFound, At, Serves, notion

-----------------------------------------------------------------------------
(* GetMember and its callers.                                              *)
LEMMA GetCachedKeeps == ASSUME IInv, NEW w \in Workers, GetCached(w) PROVE IInv'
<1>1. PICK m \in Members : Serves(w, m)
  BY WorkFacts DEF GetCached, At, Serves
<1>2. /\ pc[w] = "get" /\ call[w].member = m
      /\ UNCHANGED <<owner, hasDB, saved, cache, disturbed>>
      /\ IF cache[m] = NoEntry THEN Goto(w, "find") /\ UNCHANGED call
         ELSE Goto(w, "use") /\ Holding(w, cache[m])
  BY <1>1 DEF GetCached, At, Serves, notion
<1>3. OwnPages(m)' = OwnPages(m)
  BY <1>2 DEF OwnPages
<1>4. CASE cache[m] = NoEntry
  <2>1. Moves(w) /\ pc'[w] = "find" /\ call'[w] = call[w]
    BY <1>2, <1>4, GotoFacts
  <2>2. WorkerOK(w)' /\ pc'[w] \in Steps
    BY <2>1, <1>2, WorkFacts DEF WorkerOK, Steps, EntryOK
  <2>3. ASSUME Only(m, w) PROVE Only(m, w)'
    <3>1. OwnPages(m) = {}
      BY <2>3, <1>2, <1>4 DEF Only
    <3>2. QED
      BY <3>1, <2>1, <2>3, <1>2, <1>3, <1>4 DEF Only, Alone, Serves
  <2>4. QED
    BY <2>1, <2>2, <2>3, <1>1, <1>2, StateTypes, QuietKeeps
<1>5. CASE cache[m] # NoEntry
  <2>1. PICK e \in Entry : e = cache[m]
    BY StateTypes
  <2>2. /\ Moves(w) /\ pc'[w] = "use" /\ call'[w] \in Call
        /\ call'[w].entry = e /\ call'[w].member = m
    BY <2>1, <1>2, <1>5, HoldingFacts
  <2>3. WorkerOK(w)' /\ pc'[w] \in Steps
    BY <2>1, <2>2, <1>2 DEF WorkerOK, Steps, EntryOK, IInv, Known
  <2>4. ASSUME Only(m, w) PROVE Only(m, w)'
    BY <2>1, <2>2, <2>4, <1>2, <1>3, <1>5 DEF Only, Alone, Serves
  <2>5. QED
    BY <2>2, <2>3, <2>4, <1>1, <1>2, StateTypes, QuietKeeps
<1>6. QED
  BY <1>4, <1>5

LEMMA FindKeeps ==
  ASSUME IInv, NEW w \in Workers, NEW found \in SearchPages, NEW err \in BOOLEAN,
         Find(w, found, err)
  PROVE  IInv'
<1>1. PICK m \in Members : Serves(w, m)
  BY WorkFacts DEF Find, At, Serves
<1>2. /\ pc[w] = "find" /\ call[w].member = m
      /\ UNCHANGED <<owner, hasDB, saved, cache>>
  BY <1>1 DEF Find, At, Serves, notion
<1>3. /\ found \in Pages \cup {0}
      /\ disturbed' \subseteq Members /\ disturbed \subseteq disturbed'
      /\ m \notin disturbed' => ~err /\ found \in ExactPages(m)
  BY <1>2, SearchingFacts DEF Find
<1>4. CASE err \/ found = 0
  <2>1. Moves(w) /\ pc'[w] = "idle" /\ pc'[w] \in Steps /\ WorkerOK(w)'
    BY <1>4, ReturnFacts DEF Find
  <2>2. ASSUME Only(m, w) PROVE Only(m, w)'
    <3>1. OwnPages(m)' = OwnPages(m)
      BY <1>2 DEF OwnPages
    <3>2. QED
      BY <3>1, <2>1, <2>2, <1>2 DEF Only, Serves
  <2>3. QED
    BY <2>1, <2>2, <1>1, <1>2, <1>3, QuietKeeps
<1>5. CASE ~(err \/ found = 0)
  <2> DEFINE e == [page |-> found, db |-> FALSE]
  <2>1. e \in Entry
    BY <1>3 DEF Entry
  <2>2. /\ Moves(w) /\ pc'[w] = "cacheFound" /\ call'[w] \in Call
        /\ call'[w].entry = e /\ call'[w].member = m
    BY <2>1, <1>2, <1>5, HoldingFacts DEF Find
  <2>3. WorkerOK(w)' /\ pc'[w] \in Steps
    BY <2>2 DEF WorkerOK, Steps, EntryOK
  <2>4. m \notin disturbed' /\ Only(m, w) => Only(m, w)'
    <3> SUFFICES ASSUME m \notin disturbed', Only(m, w) PROVE FALSE
      OBVIOUS
    <3>1. OwnPages(m) = {}
      BY <1>1, <1>2 DEF Only, Alone
    <3>2. QED
      BY <3>1, <1>3, <1>5 DEF ExactPages
  <2>5. QED
    BY <2>2, <2>3, <2>4, <1>1, <1>2, <1>3, QuietKeeps
<1>6. QED
  BY <1>4, <1>5

LEMMA GetTradesKeeps == ASSUME IInv, NEW w \in Workers, GetTrades(w) PROVE IInv'
<1>1. PICK m \in Members : Serves(w, m)
  BY WorkFacts DEF GetTrades, At, Serves
<1>2. pc[w] = "use" /\ UNCHANGED <<owner, hasDB, saved, cache, disturbed>>
  BY DEF GetTrades, At, notion
<1>3. Moves(w) /\ pc'[w] = "idle" /\ pc'[w] \in Steps /\ WorkerOK(w)'
  BY ReturnFacts DEF GetTrades
<1>4. ASSUME Only(m, w) PROVE Only(m, w)'
  <2>1. OwnPages(m)' = OwnPages(m)
    BY <1>2 DEF OwnPages
  <2>2. QED
    BY <2>1, <1>2, <1>3, <1>4 DEF Only, Serves
<1>5. QED
  BY <1>1, <1>2, <1>3, <1>4, StateTypes, QuietKeeps

(* The trade goes into the database that the call knows.                   *)
LEMMA SaveTradeKeeps ==
  ASSUME IInv, NEW w \in Workers, NEW done \in BOOLEAN, NEW err \in BOOLEAN,
         SaveTrade(w, done, err)
  PROVE  IInv'
<1>1. PICK m \in Members : Serves(w, m)
  BY WorkFacts DEF SaveTrade, At, Serves
<1>2. PICK e \in Entry : e = call[w].entry
  BY WorkFacts DEF SaveTrade, At
<1>3. /\ pc[w] = "use" /\ call[w].member = m /\ EntryOK(e, m) /\ (done => e.db)
      /\ saved' = IF done THEN saved \cup {[member |-> m, db |-> e.page]} ELSE saved
      /\ UNCHANGED <<owner, hasDB, cache>>
  BY <1>1, <1>2, WorkFacts DEF SaveTrade, At, Serves
<1>4. /\ Moves(w) /\ pc'[w] = "idle" /\ pc'[w] \in Steps /\ WorkerOK(w)'
      /\ disturbed' \subseteq Members /\ disturbed \subseteq disturbed'
  BY <1>3, ReturnFacts, FailingFacts DEF SaveTrade
<1>5. Grows /\ EntryOK(cache[m], m)' /\ \A n \in Members : OwnPages(n)' = OwnPages(n)
  BY <1>3 DEF Grows, IInv, Known, EntryOK, OwnPages
<1>6. CASE ~done
  <2>1. saved' = saved
    BY <1>3, <1>6
  <2>2. ASSUME Only(m, w) PROVE Only(m, w)'
    BY <2>1, <2>2, <1>3, <1>4, <1>5 DEF Only, Serves
  <2>3. QED
    BY <2>1, <2>2, <1>1, <1>3, <1>4, QuietKeeps
<1>7. CASE done
  <2>1. e.db /\ e.page \in hasDB /\ owner[e.page] = m
    BY <1>3, <1>7 DEF EntryOK
  <2> DEFINE t == [member |-> m, db |-> e.page]
  <2>2. saved' = saved \cup {t} /\ t.member = m /\ t \in [member : Members, db : hasDB]
    BY <2>1, <1>3, <1>7
  <2>3. saved' \subseteq [member : Members, db : hasDB'] /\ TradesInOwnDB'
    BY <2>1, <2>2, <1>3, StateTypes DEF IInv, TradesInOwnDB
  <2>4. ASSUME Only(m, w) PROVE Only(m, w)'
    BY <2>4, <1>1, <1>3, <1>4, <1>5 DEF Only, Alone, Serves
  <2>5. \A u \in saved' : u \in saved \/ u.member = m
    BY <2>2
  <2>6. QED
    BY <2>3, <2>4, <2>5, <1>1, <1>3, <1>4, <1>5, StateTypes, StepKeeps
<1>8. QED
  BY <1>6, <1>7

-----------------------------------------------------------------------------
(* A restart forgets what was cached, and disturbs everyone.               *)
LEMMA RestartKeeps == ASSUME IInv, Restart PROVE IInv'
<1>1. TypeOK'
  BY NoEntryFacts, StateTypes DEF Restart, TypeOK, notion, Steps
<1>2. Known'
  BY NoEntryFacts DEF Restart, Known, WorkerOK, EntryOK
<1>3. TradesInOwnDB' /\ Members \ disturbed' = {}
  BY DEF IInv, TradesInOwnDB, Restart, notion
<1>4. QED
  BY <1>1, <1>2, <1>3 DEF IInv

LEMMA NextIInv == IInv /\ [Next]_vars => IInv'
<1> SUFFICES ASSUME IInv, [Next]_vars PROVE IInv'
  OBVIOUS
<1>1. ASSUME NEW w \in Workers, NEW m \in Members, NEW kind \in {"record", "read"},
             Begin(w, m, kind)
      PROVE  IInv'
  BY <1>1, BeginKeeps
<1>2. ASSUME NEW w \in Workers, Step(w) PROVE IInv'
  <2>1. CASE EnsureCached(w) \/ CacheEnsured(w)
    BY <2>1, EnsureCachedKeeps, CacheEnsuredKeeps
  <2>2. CASE GetCached(w) \/ CacheFound(w) \/ GetTrades(w)
    BY <2>2, GetCachedKeeps, CacheFoundKeeps, GetTradesKeeps
  <2>3. ASSUME NEW done \in BOOLEAN, NEW err \in BOOLEAN,
               CreatePage(w, done, err) \/ CreateDB(w, done, err) \/ SaveTrade(w, done, err)
        PROVE  IInv'
    BY <2>3, CreatePageKeeps, CreateDBKeeps, SaveTradeKeeps
  <2>4. ASSUME NEW found \in SearchPages, NEW err \in BOOLEAN,
               Search(w, found, err) \/ Find(w, found, err)
        PROVE  IInv'
    BY <2>4, SearchKeeps, FindKeeps
  <2>5. QED
    BY <1>2, <2>1, <2>2, <2>3, <2>4 DEF Step
<1>3. CASE Restart
  BY <1>3, RestartKeeps
<1>4. CASE UNCHANGED vars
  <2>1. UNCHANGED <<owner, hasDB, saved, cache, pc, call, disturbed>>
    BY <1>4 DEF vars, notion
  <2>2. TypeOK' /\ Known' /\ TradesInOwnDB'
    BY <2>1 DEF IInv, TypeOK, Known, WorkerOK, EntryOK, TradesInOwnDB
  <2>3. \A m \in Members \ disturbed' : Account(m)'
    BY <2>1 DEF IInv, Account, Alone, Serves, OwnPages
  <2>4. QED
    BY <2>2, <2>3 DEF IInv
<1>5. QED
  BY <1>1, <1>2, <1>3, <1>4 DEF Next

-----------------------------------------------------------------------------
(* The inductive invariant of the repository of members.                   *)
THEOREM MemberRepoInvariance == Spec => []IInv
  BY InitIInv, NextIInv, PTL DEF Spec

(* Pages, databases, cache and calls are of their types; a database is     *)
(* only there on a page that has an owner.                                 *)
THEOREM MemberRepoTyped == Spec => []TypeOK
<1>1. IInv => TypeOK
  BY DEF IInv
<1>2. QED
  BY <1>1, MemberRepoInvariance, PTL

(***************************************************************************)
(* member.go 32-106, 161-171 and trade.go 23-50: whatever a search answers *)
(* and however calls overlap, fail or are cut off, a trade is never put    *)
(* into another member's database, because a call only knows a database    *)
(* that was created for its own member.                                    *)
(***************************************************************************)
THEOREM TradesAlwaysInOwnDB == Spec => []TradesInOwnDB
<1>1. IInv => TradesInOwnDB
  BY DEF IInv
<1>2. QED
  BY <1>1, MemberRepoInvariance, PTL

(* What is cached for an undisturbed member is all there is.               *)
LEMMA UndisturbedAreSeen == IInv => SeenUnlessDisturbed
<1> SUFFICES ASSUME IInv, NEW m \in Members \ disturbed
             PROVE  /\ \A p, q \in OwnPages(m) : p = q
                    /\ \A w \in Workers : pc[w] = "use" /\ call[w].member = m => call[w].entry.db
                    /\ \A t \in saved : t.member = m => cache[m] = [page |-> t.db, db |-> TRUE]
  BY DEF SeenUnlessDisturbed
<1>1. Account(m)
  BY DEF IInv
<1>2. ASSUME NEW w \in Workers, pc[w] = "use", call[w].member = m
      PROVE  call[w].entry.db
  BY <1>1, <1>2 DEF Account, Alone, Serves
<1>3. ASSUME NEW t \in saved, t.member = m
      PROVE  cache[m] = [page |-> t.db, db |-> TRUE]
  <2>1. PICK e \in Entry : e = cache[m]
    BY StateTypes
  <2>2. e.db /\ EntryOK(e, m)
    BY <2>1, <1>1, <1>3 DEF Account, IInv, Known
  <2>3. t.db \in OwnPages(m) /\ e.page \in OwnPages(m)
    <3>1. t.db \in hasDB /\ owner[t.db] = m
      BY <1>3, StateTypes DEF IInv, TradesInOwnDB
    <3>2. QED
      BY <3>1, <2>2, StateTypes DEF EntryOK, OwnPages
  <2>4. e.page = t.db
    BY <2>3, <1>1 DEF Account
  <2>5. QED
    BY <2>1, <2>2, <2>4 DEF Entry
<1>4. QED
  BY <1>1, <1>2, <1>3 DEF Account

(***************************************************************************)
(* member.go 32-106 and trade.go 23-77: a member whose calls neither       *)
(* overlap nor fail, and whose searches are answered rightly, has one      *)
(* page, every call that uses the member knows its database, and reads     *)
(* see the database with all the member's trades.                          *)
(***************************************************************************)
THEOREM UndisturbedMembersSeen == Spec => []SeenUnlessDisturbed
  BY MemberRepoInvariance, UndisturbedAreSeen, PTL
=============================================================================
