---------------------------------- MODULE MonitorProofs ----------------------------------
(***************************************************************************)
(* What holds of the Process Instance screen for every history of the      *)
(* database, every page size and whatever the user and the network do, and *)
(* of the filters saved in the browser for every number of tabs.           *)
(***************************************************************************)
EXTENDS MonitorInstance, SavedFilters, FiniteSetTheorems, WellFoundedInduction, TLAPS

\* What the provers may use on a leaf that names no prover itself.
USE ZenonT(40), SMTT(40)

--------------------------------------------------------------------------------
(* The Process Instance screen. *)

Query == [data : Nat, failed : BOOLEAN, flight : Int, invalid : BOOLEAN,
          awaited : BOOLEAN, joined : BOOLEAN, left : BOOLEAN]

\* What the query shows, or will show once it is answered, is not older than state k,
\* unless it joined an earlier request.
NotOlder(q, k) ==
    \/ q.joined
    \/ q.flight \in {Sent, Paused}
    \/ q.flight > 0 /\ q.flight >= k
    \/ q.flight = Idle /\ (q.failed \/ q.data >= k)

IsCycle(c) == c = [phase |-> c.phase, view |-> c.view, cursor |-> c.cursor]

\* A detail that a cycle awaited is read in the cycle's first phase only, and since
\* then the page of history has been asked for after it.
InstanceInv ==
    /\ now \in Nat \ {0}
    /\ detailQ \in Query /\ detailQ.data <= now /\ detailQ.flight <= now
    /\ \A c \in DOMAIN executionsQ : executionsQ[c] \in Query
    /\ cursor \in DOMAIN executionsQ
    /\ IsCycle(cycle)
    /\ (cycle.phase # "detail" /\ detailQ.awaited) =>
           detailQ.flight = Idle /\ NotOlder(executionsQ[cursor], detailQ.data)

\* The operations on a query keep its type; a request made now is not older than anything.
LEMMA QueryTypes ==
    ASSUME NEW q \in Query, NEW b \in BOOLEAN
    PROVE  /\ Start(q) \in Query /\ Fetch(q, b) \in Query /\ Broken(q) \in Query /\ Resumed(q) \in Query
           /\ q.flight > 0 => Answered(q) \in Query
           /\ now \in Nat => AtNow(q) \in Query
<1>0. Idle \in Int /\ Sent \in Int /\ Paused \in Int
  BY SMTT(40) DEF Idle, Sent, Paused
<1>1. Start(q) \in Query
  <2> DEFINE flight == IF online THEN Sent ELSE Paused
             failed == q.failed /\ q.data # 0
             record == [q EXCEPT !.flight = flight, !.failed = failed,
                                 !.awaited = FALSE, !.joined = FALSE, !.left = FALSE]
  <2>1. flight \in Int /\ failed \in BOOLEAN
    BY <1>0
  <2> HIDE DEF flight, failed
  <2>2. record \in Query
    BY <2>1 DEF Query
  <2> QED BY <2>2 DEF Start, flight, failed
<1>2. Fetch(q, b) \in Query
  BY <1>1 DEF Query, Fetch
<1>3. Broken(q) \in Query
  BY <1>0 DEF Query, Broken
<1>4. Resumed(q) \in Query
  BY <1>0 DEF Query, Resumed
<1>5. ASSUME q.flight > 0
      PROVE  Answered(q) \in Query
  <2>1. q.flight \in Nat
    BY SMTT(40), <1>5 DEF Query
  <2> DEFINE flight == q.flight
  <2> HIDE DEF flight
  <2>2. flight \in Nat
    BY <2>1 DEF flight
  <2>3. [q EXCEPT !.data = flight, !.failed = FALSE, !.flight = Idle, !.invalid = FALSE] \in Query
    BY <1>0, <2>2 DEF Query
  <2> QED BY <2>3 DEF Answered, flight
<1>6. now \in Nat => AtNow(q) \in Query
  BY SMTT(40) DEF Query, AtNow
<1> QED BY <1>1, <1>2, <1>3, <1>4, <1>5, <1>6

\* A query that is asked for is as new as wanted, unless it joins an earlier request.
LEMMA FetchIsNew ==
    ASSUME NEW q \in Query, NEW b \in BOOLEAN, NEW k
    PROVE  NotOlder(Fetch(q, b), k)
<1>1. CASE q.flight # Idle /\ ~(b /\ q.data # 0)
  BY <1>1 DEF Query, Fetch, NotOlder
<1>2. CASE ~(q.flight # Idle /\ ~(b /\ q.data # 0))
  BY <1>2 DEF Query, Fetch, Start, NotOlder
<1> QED BY <1>1, <1>2

\* Failures, pauses and answers do not make what a query will show older.
LEMMA NotOlderStays ==
    ASSUME NEW q \in Query, NEW k \in Nat
    PROVE  /\ NotOlder(Broken(q), k)
           /\ NotOlder(q, k) => NotOlder(Resumed(q), k)
           /\ NotOlder(q, k) /\ q.flight > 0 => NotOlder(Answered(q), k)
           /\ now \in Nat \ {0} /\ k <= now => NotOlder(AtNow(q), k)
<1>1. NotOlder(Broken(q), k)
  BY DEF Query, NotOlder, Broken
<1>2. ASSUME NotOlder(q, k) PROVE NotOlder(Resumed(q), k)
  BY <1>2 DEF Query, NotOlder, Resumed
<1>3. ASSUME NotOlder(q, k), q.flight > 0 PROVE NotOlder(Answered(q), k)
  BY SMTT(40), <1>3 DEF Query, NotOlder, Answered, Sent, Paused, Idle
<1>4. ASSUME now \in Nat \ {0}, k <= now PROVE NotOlder(AtNow(q), k)
  BY SMTT(40), <1>4 DEF Query, NotOlder, AtNow
<1> QED BY <1>1, <1>2, <1>3, <1>4

--------------------------------------------------------------------------------

\* A step that leaves status, page and phase alone, or moves on in them as described.
LEMMA StepKeepsInv ==
    ASSUME InstanceInv, now' \in Nat, now <= now',
           detailQ' \in Query, detailQ'.data <= now', detailQ'.flight <= now',
           \A c \in DOMAIN executionsQ' : executionsQ'[c] \in Query,
           cursor' \in DOMAIN executionsQ',
           IsCycle(cycle'),
           (cycle'.phase # "detail" /\ detailQ'.awaited) =>
               detailQ'.flight = Idle /\ NotOlder(executionsQ'[cursor'], detailQ'.data)
    PROVE  InstanceInv'
  BY SMTT(40) DEF InstanceInv, NotOlder, Sent, Paused, Idle, IsCycle, Query

\* Steps about anything else.
LEMMA OtherKeepsInv ==
    ASSUME InstanceInv, now' \in Nat, now <= now', UNCHANGED <<detailQ, executionsQ, cursor>>,
           cycle' = cycle \/ cycle' = Settled(cycle, executionsQ, variablesQ')
    PROVE  InstanceInv'
<1>1. IsCycle(cycle') /\ (cycle'.phase # "detail" => cycle.phase # "detail")
  BY SMTT(40) DEF InstanceInv, IsCycle, Settled, NoCycle
<1> QED BY SMTT(40), <1>1, StepKeepsInv DEF InstanceInv, Query

\* refresh starts with the status.
LEMMA RefreshKeepsInv ==
    ASSUME InstanceInv, refresh, UNCHANGED <<now, cursor>>
    PROVE  InstanceInv'
<1>1. CASE cycle.phase # "none"
  BY <1>1, OtherKeepsInv DEF refresh, queries, InstanceInv
<1>2. CASE cycle.phase = "none"
  <2> DEFINE q == Fetch(detailQ, FALSE)
  <2>1. q \in Query
    BY QueryTypes DEF InstanceInv
  <2>2. q.data = detailQ.data /\ q.flight <= now
    BY SMTT(40) DEF InstanceInv, Query, Fetch, Start, Sent, Paused
  <2> HIDE DEF q
  <2>3. detailQ' = [q EXCEPT !.awaited = TRUE, !.joined = FALSE] /\ cycle'.phase = "detail" /\ IsCycle(cycle')
    BY SMTT(40), <1>2 DEF refresh, Await, q, IsCycle
  <2>4. detailQ' \in Query /\ detailQ'.data = q.data /\ detailQ'.flight = q.flight
    BY <2>1, <2>3 DEF Query
  <2>5. executionsQ' = executionsQ
    BY <1>2 DEF refresh
  <2> QED BY <2>2, <2>3, <2>4, <2>5, StepKeepsInv DEF InstanceInv
<1> QED BY <1>1, <1>2

\* The status is in: history and variables are asked for after it.
LEMMA AfterDetailKeepsInv ==
    ASSUME InstanceInv, NEW q \in Query, afterDetail(q), q.data <= now, q.flight = Idle,
           q.awaited = detailQ.awaited, Flying(detailQ), UNCHANGED <<now, cursor>>
    PROVE  InstanceInv'
<1>0. detailQ' = q /\ q.flight <= now
  BY SMTT(40) DEF afterDetail, Idle, InstanceInv
<1>1. CASE cycle.phase = "detail"
  <2>1. executionsQ' = [executionsQ EXCEPT ![cursor] = Fetch(@, TRUE)]
    BY <1>1 DEF afterDetail
  <2>2. cycle' = [cycle EXCEPT !.phase = "rest", !.cursor = cursor]
    BY <1>1 DEF afterDetail
  <2>3. IsCycle(cycle')
    BY <2>2 DEF InstanceInv, IsCycle
  <2>4. Fetch(executionsQ[cursor], TRUE) \in Query
    BY QueryTypes DEF InstanceInv
  <2>5. NotOlder(Fetch(executionsQ[cursor], TRUE), q.data)
    BY FetchIsNew DEF InstanceInv
  <2>6. /\ \A c \in DOMAIN executionsQ' : executionsQ'[c] \in Query
        /\ cursor' \in DOMAIN executionsQ' /\ NotOlder(executionsQ'[cursor'], q.data)
    BY <2>1, <2>4, <2>5 DEF InstanceInv
  <2> QED BY <1>0, <2>3, <2>6, StepKeepsInv DEF InstanceInv
<1>2. CASE cycle.phase # "detail"
  <2>1. UNCHANGED <<executionsQ, cycle>>
    BY <1>2 DEF afterDetail
  <2>2. ~detailQ.awaited
    BY <1>2 DEF InstanceInv, Flying
  <2> QED BY <1>0, <2>1, <2>2, StepKeepsInv DEF InstanceInv
<1> QED BY <1>1, <1>2

\* A cycle whose detail arrives, or fails, goes on to ask for the history.
LEMMA DetailKeepsInv ==
    ASSUME InstanceInv,
           ReadDetail \/ DetailAnswered
             \/ (Flying(detailQ) /\ afterDetail(Broken(detailQ)) /\ UNCHANGED <<now, cursor>>)
    PROVE  InstanceInv'
<1>1. CASE ReadDetail
  <2>1. detailQ' = AtNow(detailQ) /\ UNCHANGED <<now, cursor, executionsQ, cycle>> /\ detailQ.flight = Sent
    BY <1>1 DEF ReadDetail, browser, views
  <2>2. AtNow(detailQ) \in Query
    BY QueryTypes DEF InstanceInv
  <2>3. AtNow(detailQ).data = detailQ.data /\ AtNow(detailQ).flight = now
    BY DEF AtNow, InstanceInv, Query
  <2>4. AtNow(detailQ).awaited = detailQ.awaited
    BY DEF AtNow, InstanceInv, Query
  <2>5. ~(cycle.phase # "detail" /\ detailQ.awaited)
    BY SMTT(40), <2>1 DEF InstanceInv, Sent, Idle
  <2> QED BY SMTT(40), <2>1, <2>2, <2>3, <2>4, <2>5, StepKeepsInv DEF InstanceInv
<1>2. CASE DetailAnswered
  <2>1. detailQ.flight > 0 /\ afterDetail(Answered(detailQ)) /\ UNCHANGED <<now, cursor>>
    BY <1>2 DEF DetailAnswered, browser, views
  <2>2. Answered(detailQ) \in Query
    BY <2>1, QueryTypes DEF InstanceInv
  <2>3. Answered(detailQ).data = detailQ.flight /\ Answered(detailQ).flight = Idle
    BY DEF Answered, InstanceInv, Query
  <2>4. Answered(detailQ).awaited = detailQ.awaited
    BY DEF Answered, InstanceInv, Query
  <2>5. Flying(detailQ)
    BY SMTT(40), <2>1 DEF Flying, Idle, Paused, InstanceInv, Query
  <2> QED BY <2>1, <2>2, <2>3, <2>4, <2>5, AfterDetailKeepsInv DEF InstanceInv
<1>3. CASE Flying(detailQ) /\ afterDetail(Broken(detailQ)) /\ UNCHANGED <<now, cursor>>
  <2>1. Broken(detailQ) \in Query
    BY QueryTypes DEF InstanceInv
  <2>2. Broken(detailQ).data = detailQ.data /\ Broken(detailQ).flight = Idle
    BY DEF Broken, InstanceInv, Query
  <2>3. Broken(detailQ).awaited = detailQ.awaited
    BY DEF Broken, InstanceInv, Query
  <2> QED BY <1>3, <2>1, <2>2, <2>3, AfterDetailKeepsInv DEF InstanceInv
<1> QED BY <1>1, <1>2, <1>3

\* A page of the history is read, answered or fails.
LEMMA PageKeepsInv ==
    ASSUME InstanceInv, NEW c \in DOMAIN executionsQ, NEW q \in Query,
           executionsQ' = [executionsQ EXCEPT ![c] = q],
           \A k \in Nat : k <= now /\ NotOlder(executionsQ[c], k) => NotOlder(q, k),
           cycle' = cycle \/ cycle' = Settled(cycle, executionsQ', variablesQ),
           UNCHANGED <<now, cursor, detailQ>>
    PROVE  InstanceInv'
<1>1. IsCycle(cycle') /\ (cycle'.phase # "detail" => cycle.phase # "detail")
  BY SMTT(40) DEF InstanceInv, IsCycle, Settled, NoCycle
<1>2. detailQ.data \in Nat
  BY DEF InstanceInv, Query
<1>3. /\ \A k \in DOMAIN executionsQ' : executionsQ'[k] \in Query
      /\ cursor' \in DOMAIN executionsQ'
      /\ NotOlder(executionsQ[cursor], detailQ.data) => NotOlder(executionsQ'[cursor'], detailQ.data)
  BY <1>2 DEF InstanceInv
<1> QED BY <1>1, <1>3, StepKeepsInv DEF InstanceInv

\* Pages of the history that are read, answered or fail.
LEMMA HistoryKeepsInv ==
    ASSUME InstanceInv,
           \/ ReadHistory \/ HistoryAnswered
           \/ /\ \E c \in DOMAIN executionsQ :
                    Flying(executionsQ[c]) /\ executionsQ' = [executionsQ EXCEPT ![c] = Broken(@)]
              /\ cycle' = Settled(cycle, executionsQ', variablesQ)
              /\ UNCHANGED <<now, cursor, detailQ, variablesQ, snapshotsQ>>
    PROVE  InstanceInv'
<1>0. UNCHANGED <<now, cursor, detailQ>> /\ (cycle' = cycle \/ cycle' = Settled(cycle, executionsQ', variablesQ))
  BY DEF ReadHistory, HistoryAnswered, browser, views
<1>1. CASE ReadHistory
  <2>1. PICK c \in DOMAIN executionsQ : executionsQ' = [executionsQ EXCEPT ![c] = AtNow(@)]
    BY <1>1 DEF ReadHistory
  <2>2. AtNow(executionsQ[c]) \in Query
    BY QueryTypes DEF InstanceInv
  <2>3. \A k \in Nat : k <= now => NotOlder(AtNow(executionsQ[c]), k)
    BY NotOlderStays DEF InstanceInv
  <2> QED BY <1>0, <2>1, <2>2, <2>3, PageKeepsInv
<1>2. CASE HistoryAnswered
  <2>1. PICK c \in DOMAIN executionsQ :
            executionsQ[c].flight > 0 /\ executionsQ' = [executionsQ EXCEPT ![c] = Answered(@)]
    BY <1>2 DEF HistoryAnswered
  <2>2. Answered(executionsQ[c]) \in Query
    BY <2>1, QueryTypes DEF InstanceInv
  <2>3. \A k \in Nat : NotOlder(executionsQ[c], k) => NotOlder(Answered(executionsQ[c]), k)
    BY <2>1, NotOlderStays DEF InstanceInv
  <2> QED BY <1>0, <2>1, <2>2, <2>3, PageKeepsInv
<1>3. CASE \E c \in DOMAIN executionsQ : executionsQ' = [executionsQ EXCEPT ![c] = Broken(@)]
  <2>1. PICK c \in DOMAIN executionsQ : executionsQ' = [executionsQ EXCEPT ![c] = Broken(@)]
    BY <1>3
  <2>2. Broken(executionsQ[c]) \in Query
    BY QueryTypes DEF InstanceInv
  <2>3. \A k \in Nat : NotOlder(Broken(executionsQ[c]), k)
    BY NotOlderStays DEF InstanceInv
  <2> QED BY <1>0, <2>1, <2>2, <2>3, PageKeepsInv
<1> QED BY <1>1, <1>2, <1>3

\* Whichever request fails.
LEMMA FailureKeepsInv ==
    ASSUME InstanceInv, RequestFails
    PROVE  InstanceInv'
<1>1. UNCHANGED <<now, cursor>>
  BY DEF RequestFails, Fault, views
<1>2. CASE UNCHANGED <<detailQ, executionsQ>> /\ (cycle' = cycle \/ cycle' = Settled(cycle, executionsQ, variablesQ'))
  BY SMTT(40), <1>1, <1>2, OtherKeepsInv DEF InstanceInv
<1> QED BY <1>1, <1>2, DetailKeepsInv, HistoryKeepsInv DEF RequestFails

\* Paused requests go on; a new cycle starts with the status.
LEMMA AwakeKeepsInv ==
    ASSUME InstanceInv, Awake, UNCHANGED <<now, cursor>>
    PROVE  InstanceInv'
<1>1. executionsQ' = [c \in DOMAIN executionsQ |-> Resumed(executionsQ[c])]
  BY DEF Awake
<1>2. \A c \in DOMAIN executionsQ : Resumed(executionsQ[c]) \in Query
  BY QueryTypes DEF InstanceInv
<1>3. NotOlder(executionsQ[cursor], detailQ.data) => NotOlder(Resumed(executionsQ[cursor]), detailQ.data)
  <2>1. detailQ.data \in Nat
    BY DEF InstanceInv, Query
  <2> QED BY <2>1, NotOlderStays DEF InstanceInv
<1>4. /\ \A c \in DOMAIN executionsQ' : executionsQ'[c] \in Query
      /\ cursor' \in DOMAIN executionsQ' /\ executionsQ'[cursor'] = Resumed(executionsQ[cursor])
  BY <1>1, <1>2 DEF InstanceInv
<1> DEFINE q == Resumed(detailQ)
<1>5. q \in Query
  BY QueryTypes DEF InstanceInv
<1>6. q.data = detailQ.data /\ q.flight <= now /\ (detailQ.flight = Idle => q.flight = Idle)
  BY SMTT(40) DEF InstanceInv, Query, Resumed, Sent, Paused, Idle
<1>7. q.awaited = detailQ.awaited
  BY DEF InstanceInv, Query, Resumed
<1> HIDE DEF q
<1>8. CASE cycle.phase # "none"
  <2>1. detailQ' = q /\ cycle' = cycle
    BY <1>8 DEF Awake, q
  <2> QED BY <1>3, <1>4, <1>5, <1>6, <1>7, <2>1, StepKeepsInv DEF InstanceInv
<1>9. CASE cycle.phase = "none"
  <2> DEFINE f == Fetch(q, FALSE)
             a == [f EXCEPT !.awaited = TRUE, !.joined = FALSE]
  <2>1. f \in Query
    BY <1>5, QueryTypes
  <2>2. f.data = q.data /\ f.flight <= now
    BY SMTT(40), <1>5, <1>6 DEF InstanceInv, Query, Fetch, Start, Sent, Paused
  <2> HIDE DEF f
  <2>3. a \in Query /\ a.data = f.data /\ a.flight = f.flight
    BY <2>1 DEF Query
  <2>4. detailQ' = [a EXCEPT !.flight = IF @ = Paused THEN Sent ELSE @]
    BY <1>9 DEF Awake, Await, q, f
  <2> HIDE DEF a
  <2>5. detailQ' \in Query /\ detailQ'.data = a.data /\ detailQ'.flight <= now
    BY SMTT(40), <2>2, <2>3, <2>4 DEF Query, Sent, InstanceInv
  <2>6. cycle'.phase = "detail" /\ IsCycle(cycle')
    BY <1>9 DEF Awake, IsCycle
  <2> QED BY <1>4, <1>6, <2>2, <2>3, <2>5, <2>6, StepKeepsInv DEF InstanceInv
<1> QED BY SMTT(40), <1>8, <1>9

\* The page that the user goes to is asked for on mount.
LEMMA PagingKeepsInv ==
    ASSUME InstanceInv, NEW c, GoToPage(c), UNCHANGED now
    PROVE  InstanceInv'
<1> DEFINE q == IF c \in DOMAIN executionsQ THEN executionsQ[c] ELSE NoQuery
<1>1. q \in Query
  BY SMTT(40) DEF InstanceInv, NoQuery, Query, Idle
<1> HIDE DEF q
<1>2. Fetch(q, FALSE) \in Query
  BY <1>1, QueryTypes
<1>3. NotOlder(Fetch(q, FALSE), detailQ.data)
  BY <1>1, FetchIsNew
<1>4. /\ cursor' = c /\ UNCHANGED <<detailQ, cycle>>
      /\ executionsQ' = [k \in DOMAIN executionsQ \cup {c} |-> IF k = c THEN Fetch(q, FALSE) ELSE executionsQ[k]]
  BY DEF GoToPage, q
<1>5. /\ \A k \in DOMAIN executionsQ' : executionsQ'[k] \in Query
      /\ cursor' \in DOMAIN executionsQ' /\ executionsQ'[cursor'] = Fetch(q, FALSE)
  BY <1>2, <1>4 DEF InstanceInv
<1> QED BY <1>3, <1>4, <1>5, StepKeepsInv DEF InstanceInv

\* Whatever the user clicks.
LEMMA UserKeepsInv ==
    ASSUME InstanceInv, User
    PROVE  InstanceInv'
<1>1. now' = now
  BY DEF User, Hide, Hides, ClickRefresh, RetrySnapshots, Inspect, ToggleSnapshots, SelectTab, SelectHistory,
         NewestPage, PreviousPage, NextPage, Paging, Move, browser
<1>2. CASE ClickRefresh
  BY <1>1, <1>2, RefreshKeepsInv DEF ClickRefresh, views
<1>3. CASE NewestPage \/ PreviousPage \/ NextPage
  <2>1. PICK c : GoToPage(c)
    BY <1>3 DEF NewestPage, PreviousPage, NextPage
  <2> QED BY <1>1, <2>1, PagingKeepsInv
<1>4. CASE \/ Hide \/ RetrySnapshots \/ Inspect \/ ToggleSnapshots
           \/ \E view \in {"overview", "variables"} : SelectTab(view)
           \/ \E history \in {"table", "timeline"} : SelectHistory(history)
  <2>1. UNCHANGED <<detailQ, executionsQ, cursor, cycle>>
    BY <1>4 DEF Hide, RetrySnapshots, Inspect, ToggleSnapshots, SelectTab, SelectHistory, queries, views
  <2> QED BY <1>1, <2>1, OtherKeepsInv DEF InstanceInv
<1> QED BY <1>2, <1>3, <1>4 DEF User

\* The screen opens with all its queries under way and no cycle observed.
LEMMA InstanceInitInv == InstanceInit => InstanceInv
<1> SUFFICES ASSUME InstanceInit PROVE InstanceInv
  OBVIOUS
<1> DEFINE q == [NoQuery EXCEPT !.flight = Sent]
<1>1. q \in Query /\ q.data = 0 /\ q.flight = 0
  <2>1. NoQuery \in Query /\ NoQuery.data = 0
    BY SMTT(40) DEF NoQuery, Query, Idle
  <2> QED BY SMTT(40), <2>1 DEF Query, Sent
<1>2. ~q.awaited
  BY DEF NoQuery
<1>3. detailQ = q /\ executionsQ = [c \in {<<>>} |-> q] /\ cursor = <<>> /\ cycle = NoCycle /\ now = 1
  BY DEF InstanceInit, BrowserInit
<1> HIDE DEF q
<1>4. IsCycle(cycle)
  BY <1>3 DEF NoCycle, IsCycle
<1> QED BY SMTT(40), <1>1, <1>2, <1>3, <1>4 DEF InstanceInv

\* Every step keeps the invariant.
LEMMA InstanceNextInv == InstanceInv /\ [InstanceNext]_instanceVars => InstanceInv'
<1> SUFFICES ASSUME InstanceInv, [InstanceNext]_instanceVars PROVE InstanceInv'
  OBVIOUS
<1>1. CASE CommitState \/ ReadVariables \/ ReadSnapshots \/ SnapshotsAnswered \/ GoOffline \/ UNCHANGED instanceVars
  <2>1. UNCHANGED <<detailQ, executionsQ, cursor, cycle>>
    BY <1>1 DEF CommitState, ReadVariables, ReadSnapshots, SnapshotsAnswered, GoOffline, instanceVars, queries, views
  <2>2. now' = now \/ now' = now + 1
    BY <1>1 DEF CommitState, Commits, ReadVariables, ReadSnapshots, SnapshotsAnswered, GoOffline, Drops, Fault,
                instanceVars, browser
  <2> QED BY SMTT(40), <2>1, <2>2, OtherKeepsInv DEF InstanceInv
<1>2. CASE VariablesAnswered
  BY SMTT(40), <1>2, OtherKeepsInv DEF VariablesAnswered, InstanceInv, browser, views
<1>3. CASE Poll
  BY <1>3, RefreshKeepsInv DEF Poll, browser, views
<1>4. CASE Show \/ GoOnline
  <2>1. UNCHANGED <<now, cursor>>
    BY <1>4 DEF Show, Shows, GoOnline, Reconnects, views
  <2>2. CASE UNCHANGED <<queries, cycle>>
    BY <2>1, <2>2, OtherKeepsInv DEF InstanceInv, queries
  <2> QED BY <1>4, <2>1, <2>2, AwakeKeepsInv, RefreshKeepsInv DEF Show, GoOnline
<1> QED
  BY <1>1, <1>2, <1>3, <1>4, FailureKeepsInv, DetailKeepsInv, HistoryKeepsInv, UserKeepsInv DEF InstanceNext

\* A detail that a refresh cycle awaited is never newer than the page of history that
\* the cycle went on to ask for.
THEOREM InstanceInvariance == InstanceSpec => []InstanceInv
<1> QED BY InstanceInitInv, InstanceNextInv, PTL DEF InstanceSpec

\* Whatever the engine commits meanwhile, however requests are delayed, fail or are
\* paused, and whatever the user does: once polling rests on a status that a refresh
\* cycle observed, the history on the screen is not older than that status.
THEOREM HistoryIsRefreshed == InstanceSpec => []FinalHistoryIsRefreshed
<1>1. InstanceInv => FinalHistoryIsRefreshed
  <2> SUFFICES ASSUME InstanceInv, Resting, detailQ.awaited, ~historyPage.joined
               PROVE  historyPage.data >= detailQ.data
    BY DEF FinalHistoryIsRefreshed
  <2>1. ~historyPage.failed /\ historyPage.flight = Idle /\ cycle.phase = "none"
    BY DEF Resting, shouldPoll, Stale
  <2>2. NotOlder(historyPage, detailQ.data)
    BY <2>1 DEF InstanceInv, historyPage
  <2> QED BY SMTT(40), <2>1, <2>2 DEF NotOlder, Idle, Sent, Paused
<1> QED BY <1>1, InstanceInvariance, PTL

--------------------------------------------------------------------------------
(* The pages of the step history. *)

\* A nonempty set of naturals has a least element.
LEMMA LeastNatural ==
    ASSUME NEW T, T \subseteq Nat, T # {}
    PROVE  \E x \in T : \A y \in T : x <= y
<1>1. PICK x \in T : \A y \in T : ~(<<y, x>> \in OpToRel(<, Nat))
  BY NatLessThanWellFounded, WFMin
<1>2. \A y \in T : ~(y < x)
  <2> SUFFICES ASSUME NEW y \in T, y < x PROVE FALSE
    OBVIOUS
  <2>1. <<y, x>> \in Nat \X Nat /\ <<y, x>>[1] = y /\ <<y, x>>[2] = x
    OBVIOUS
  <2>2. <<y, x>> \in OpToRel(<, Nat)
    BY <2>1 DEF OpToRel
  <2> QED BY <1>1, <2>2
<1> QED BY SMTT(40), <1>2

\* Rows as the database holds them.
Rows(S) == \A e \in S : e.id \in Nat /\ e.startedAt \in Nat

Newer(r, q) == Less(StartedKey(r), StartedKey(q))

\* The order of the history: by the start, then by the id.
LEMMA NewerIsLexicographic ==
    ASSUME NEW S, Rows(S), NEW r \in S, NEW q \in S
    PROVE  Newer(r, q) <=> (r.startedAt < q.startedAt \/ (r.startedAt = q.startedAt /\ r.id < q.id))
<1> DEFINE a == <<r.startedAt, r.id>>
           b == <<q.startedAt, q.id>>
<1>1. DOMAIN a = {1, 2} /\ a[1] = r.startedAt /\ a[2] = r.id /\ b[1] = q.startedAt /\ b[2] = q.id
  BY SMTT(40)
<1>2. 1..(1 - 1) = {} /\ 1..(2 - 1) = {1}
  BY SMTT(40)
<1>3. Newer(r, q) <=> \E n \in DOMAIN a : a[n] < b[n] /\ \A m \in 1..(n - 1) : a[m] = b[m]
  BY DEF Newer, Less, StartedKey
<1> HIDE DEF a, b
<1> QED BY <1>1, <1>2, <1>3

\* The last row of a page is one of its rows.
LEMMA LastIsThere ==
    ASSUME NEW S, Rows(S), S # {}
    PROVE  Last(S, StartedKey) \in S
<1>1. PICK t \in {e.startedAt : e \in S} : \A u \in {e.startedAt : e \in S} : t <= u
  BY LeastNatural DEF Rows
<1> DEFINE First == {e \in S : e.startedAt = t}
<1>2. First # {} /\ First \subseteq S
  BY <1>1
<1>3. PICK n \in {e.id : e \in First} : \A m \in {e.id : e \in First} : n <= m
  <2>1. {e.id : e \in First} \subseteq Nat /\ {e.id : e \in First} # {}
    BY <1>2 DEF Rows
  <2> HIDE DEF First
  <2> QED BY <2>1, LeastNatural
<1>4. PICK r \in S : r.startedAt = t /\ r.id = n
  BY <1>3
<1>5. ASSUME NEW q \in S PROVE ~Newer(q, r)
  <2>1. t <= q.startedAt /\ (q.startedAt = t => n <= q.id)
    BY <1>1, <1>3
  <2> HIDE DEF First
  <2>2. q.startedAt \in Nat /\ q.id \in Nat /\ t \in Nat /\ n \in Nat
    BY <1>4 DEF Rows
  <2> QED BY SMTT(40), <1>4, <2>1, <2>2, NewerIsLexicographic
<1> QED BY <1>5 DEF Last, Newer

\* A page of a nonempty list is not empty.
LEMMA GreatestIsThere ==
    ASSUME NEW S, IsFiniteSet(S), Rows(S), S # {}, NEW n \in Nat \ {0}
    PROVE  Greatest(S, StartedKey, n) # {}
<1> DEFINE Above(r) == {q \in S : Newer(r, q)}
<1>1. \A r \in S : IsFiniteSet(Above(r)) /\ Cardinality(Above(r)) \in Nat
  BY FS_Subset, FS_CardinalityType
<1>2. PICK least \in {Cardinality(Above(r)) : r \in S} : \A m \in {Cardinality(Above(r)) : r \in S} : least <= m
  <2> DEFINE T == {Cardinality(Above(r)) : r \in S}
  <2> HIDE DEF Above
  <2>1. T \subseteq Nat /\ T # {}
    BY <1>1
  <2> HIDE DEF T
  <2>2. \E least \in T : \A m \in T : least <= m
    BY <2>1, LeastNatural
  <2> QED BY <2>2 DEF T
<1>3. PICK r \in S : least = Cardinality(Above(r))
  BY <1>2
<1>4. Above(r) = {}
  <2> SUFFICES ASSUME NEW q \in Above(r) PROVE FALSE
    OBVIOUS
  <2>1. Above(q) \subseteq Above(r) /\ q \notin Above(q)
    BY SMTT(40), NewerIsLexicographic DEF Rows
  <2>2. Cardinality(Above(q)) # Cardinality(Above(r)) /\ Cardinality(Above(q)) <= Cardinality(Above(r))
    BY <1>1, <2>1, FS_Subset
  <2>3. q \in S /\ Cardinality(Above(r)) <= Cardinality(Above(q))
    BY <1>2, <1>3
  <2> HIDE DEF Above
  <2> QED BY SMTT(40), <1>1, <2>2, <2>3
<1>5. Cardinality(Above(r)) = 0
  BY <1>4, FS_EmptySet
<1>6. r \in Greatest(S, StartedKey, n)
  BY SMTT(40), <1>5 DEF Greatest, Newer
<1> QED BY <1>6

\* The pages of the history hold rows of the instance, and lead to further pages.
LEMMA HistoryPages ==
    ASSUME NEW r \in DOMAIN Runs, NEW k \in DOMAIN Runs[r], NEW c \in Cursors(r)
    PROVE  /\ Histories[r][k][c].items \subseteq {e \in Runs[r][k].executions : e.instance = InstanceId}
           /\ Histories[r][k][c].nextCursor \in Cursors(r)
<1> DEFINE scope  == [instanceId |-> InstanceId]
           rows   == {e \in Runs[r][k].executions : e.instance = InstanceId /\ After(c, StartedKey(e))}
           mapped == Greatest(rows, StartedKey, HistoryLimit + 1)
           page   == Greatest(mapped, StartedKey, HistoryLimit)
           last   == StartedKey(Last(page, StartedKey))
<1>1. decodeCursor(c, scope)
  BY SMTT(40) DEF Cursors, decodeCursor, encodeCursor
<1>2. Histories[r][k][c] = Page(rows, StartedKey, HistoryLimit, scope)
  BY <1>1, HistoryLimitAssumption DEF Histories, listStepExecutions
<1>3. /\ Histories[r][k][c].items = page
      /\ Histories[r][k][c].nextCursor = IF Cardinality(mapped) > HistoryLimit
                                         THEN encodeCursor(last[1], last[2], scope) ELSE <<>>
  BY SMTT(40), <1>2 DEF Page
<1>4. page \subseteq mapped /\ mapped \subseteq rows /\ rows \subseteq Runs[r][k].executions
  BY DEF Greatest
<1>5. IsFiniteSet(mapped) /\ Rows(mapped)
  <2>1. IsFiniteSet(Runs[r][k].executions)
    BY RunsAssumption
  <2>2. Rows(Runs[r][k].executions)
    BY RunsAssumption DEF Rows
  <2> HIDE DEF mapped, rows
  <2> QED BY <1>4, <2>1, <2>2, FS_Subset DEF Rows
<1>6. HistoryLimit \in Nat \ {0}
  BY SMTT(40), HistoryLimitAssumption, LimitsAssumption DEF pageSize
<1>7. ASSUME Cardinality(mapped) > HistoryLimit
      PROVE  encodeCursor(last[1], last[2], scope) \in Cursors(r)
  <2>1. mapped # {}
    <3> HIDE DEF mapped
    <3> QED BY SMTT(40), <1>6, <1>7, FS_EmptySet
  <2>2. page # {}
    <3> HIDE DEF mapped
    <3> QED BY <1>5, <1>6, <2>1, GreatestIsThere
  <2>3. Rows(page)
    <3> HIDE DEF mapped, page
    <3> QED BY <1>4, <1>5 DEF Rows
  <2>4. Last(page, StartedKey) \in Runs[r][k].executions
    <3> HIDE DEF mapped, page, rows
    <3> QED BY <1>4, <2>2, <2>3, LastIsThere
  <2> DEFINE l == Last(page, StartedKey)
  <2> HIDE DEF l
  <2>5. l \in Runs[r][k].executions /\ last[1] = l.startedAt /\ last[2] = l.id
    BY <2>4 DEF l, StartedKey
  <2> HIDE DEF last
  <2> QED BY <2>5 DEF Cursors
<1>8. page \subseteq {e \in Runs[r][k].executions : e.instance = InstanceId}
  BY <1>4
<1> HIDE DEF page, mapped, last, scope
<1> QED BY <1>3, <1>7, <1>8 DEF Cursors

--------------------------------------------------------------------------------
(* The snapshots on the screen. *)

\* The snapshots read from state k hold what the row e announces.
Covers(r, k, e) ==
    LET answer == recordedVariables(Runs[r][k], InstanceId, e.id)
    IN  /\ e.output # <<>> => answer.recordedOutput.status # "notRecorded"
        /\ e.input # <<>> => answer.recordedInput.status # "notRecorded"

\* What the query of an inspector shows or is about to show is as new as its row, with
\* the exceptions that InspectorFollowsHistory makes.
Follows(r, q, e) ==
    \/ q.joined \/ q.left
    \/ q.invalid /\ q.flight = Idle
    \/ q.flight \in {Sent, Paused}
    \/ q.flight > 0 /\ Covers(r, q.flight, e)
    \/ q.flight = Idle /\ (q.data = 0 \/ Covers(r, q.data, e))

\* The query of execution n while the inspectors of rows are mounted.
SnapshotFits(r, q, n, rows, opened) ==
    /\ \A e \in rows : e.id = n =>
           /\ Follows(r, q, e)
           /\ (n = opened /\ HasSnapshots(e) /\ q.flight = Idle /\ q.invalid) => q.failed
    /\ n \notin Ids(rows) => q.left \/ (q.data = 0 /\ q.flight = Idle)

\* Snapshots that are asked for again follow any row.
LEMMA FetchFollows ==
    ASSUME NEW r, NEW q \in Query, NEW b \in BOOLEAN, NEW e
    PROVE  Follows(r, Fetch(q, b), e) /\ Fetch(q, b).flight # Idle
<1>1. CASE q.flight # Idle /\ ~(b /\ q.data # 0)
  BY <1>1 DEF Query, Fetch, Follows
<1>2. CASE ~(q.flight # Idle /\ ~(b /\ q.data # 0))
  <2>1. Fetch(q, b).flight \in {Sent, Paused}
    BY <1>2 DEF Query, Fetch, Start
  <2> QED BY SMTT(40), <2>1 DEF Follows, Sent, Paused, Idle
<1> QED BY <1>1, <1>2

\* Invalidated snapshots follow any row: they are asked for, or known to be stale.
LEMMA InvalidateFollows ==
    ASSUME NEW r, NEW q \in Query, NEW enabled \in BOOLEAN, NEW e
    PROVE  /\ invalidateQueries(q, enabled) \in Query
           /\ Follows(r, invalidateQueries(q, enabled), e)
           /\ enabled => invalidateQueries(q, enabled).flight # Idle
<1>1. CASE enabled
  <2> DEFINE i == [q EXCEPT !.invalid = TRUE]
  <2>1. i \in Query
    BY DEF Query
  <2>2. invalidateQueries(q, enabled) = Fetch(i, TRUE)
    BY <1>1 DEF invalidateQueries
  <2> HIDE DEF i
  <2>3. Fetch(i, TRUE) \in Query
    BY <2>1, QueryTypes
  <2>4. Follows(r, Fetch(i, TRUE), e) /\ Fetch(i, TRUE).flight # Idle
    BY <2>1, FetchFollows
  <2> QED BY <2>2, <2>3, <2>4
<1>2. CASE ~enabled
  <2> DEFINE j == q.joined \/ q.flight # Idle
             i == [q EXCEPT !.invalid = TRUE, !.joined = j]
  <2>1. invalidateQueries(q, enabled) = i
    BY <1>2 DEF invalidateQueries
  <2>2. j \in BOOLEAN
    OBVIOUS
  <2> HIDE DEF j
  <2>3. i \in Query /\ i.flight = q.flight
    BY <2>2 DEF Query
  <2>4. i.invalid /\ i.joined = j
    BY DEF Query
  <2> HIDE DEF i
  <2>5. Follows(r, i, e)
    BY <2>3, <2>4 DEF Follows, j
  <2> QED BY <1>2, <2>1, <2>3, <2>5
<1> QED BY <1>1, <1>2

\* A request for an inspector on the screen.
LEMMA RequestFits ==
    ASSUME NEW r, NEW n, NEW rows, n \in Ids(rows), NEW opened, NEW q \in Query, q.flight \in {Sent, Paused}
    PROVE  SnapshotFits(r, q, n, rows, opened)
  BY SMTT(40) DEF SnapshotFits, Follows, Sent, Paused, Idle

\* So they fit whatever is mounted.
LEMMA FetchFits ==
    ASSUME NEW r, NEW n, NEW rows, n \in Ids(rows), NEW opened, NEW q \in Query, NEW b \in BOOLEAN
    PROVE  SnapshotFits(r, Fetch(q, b), n, rows, opened)
  BY FetchFollows DEF SnapshotFits

\* Pauses, answers, failures and reads keep what an inspector shows fit.
LEMMA NetworkFits ==
    ASSUME NEW r, NEW n, NEW rows, NEW opened, NEW q \in Query, SnapshotFits(r, q, n, rows, opened)
    PROVE  /\ SnapshotFits(r, Resumed(q), n, rows, opened)
           /\ q.flight > 0 => SnapshotFits(r, Answered(q), n, rows, opened)
           /\ Flying(q) => SnapshotFits(r, Broken(q), n, rows, opened)
           /\ (q.flight = Sent /\ now \in Nat \ {0} /\ \A e \in rows : e.id = n => Covers(r, now, e)) =>
                  SnapshotFits(r, AtNow(q), n, rows, opened)
<1>1. SnapshotFits(r, Resumed(q), n, rows, opened)
  BY SMTT(40) DEF SnapshotFits, Follows, Resumed, Query, Sent, Paused, Idle
<1>2. ASSUME q.flight > 0 PROVE SnapshotFits(r, Answered(q), n, rows, opened)
  BY SMTT(40), <1>2 DEF SnapshotFits, Follows, Answered, Query, Sent, Paused, Idle
<1>3. ASSUME Flying(q) PROVE SnapshotFits(r, Broken(q), n, rows, opened)
  BY <1>3 DEF SnapshotFits, Follows, Broken, Flying, Query, Sent, Paused, Idle
<1>4. ASSUME q.flight = Sent, now \in Nat \ {0}, \A e \in rows : e.id = n => Covers(r, now, e)
      PROVE  SnapshotFits(r, AtNow(q), n, rows, opened)
  BY SMTT(40), <1>4 DEF SnapshotFits, Follows, AtNow, Query, Sent, Paused, Idle
<1> QED BY <1>1, <1>2, <1>3, <1>4

--------------------------------------------------------------------------------

AllIds(r) == UNION {Ids(Runs[r][k].executions) : k \in DOMAIN Runs[r]}

\* Two rows with the same signature announce the same.
LEMMA SameSignature ==
    ASSUME NEW r, NEW q, NEW e, NEW f, Signature(e) = Signature(f)
    PROVE  /\ e.id = f.id /\ HasSnapshots(e) <=> HasSnapshots(f)
           /\ Follows(r, q, e) <=> Follows(r, q, f)
<1>1. e.id = f.id
  BY DEF Signature
<1>2. (e.input # <<>>) <=> (f.input # <<>>)
  BY DEF Signature
<1>3. (e.output # <<>>) <=> (f.output # <<>>)
  BY DEF Signature
<1>4. \A k : Covers(r, k, e) <=> Covers(r, k, f)
  BY <1>1, <1>2, <1>3 DEF Covers
<1> QED BY <1>1, <1>2, <1>3, <1>4 DEF HasSnapshots, Follows

\* The query of one execution when the screen goes on with other inspectors.
LEMMA MountedFits ==
    ASSUME NEW r, NEW n \in DOMAIN snapshotsQ, snapshotsQ[n] \in Query,
           NEW before, NEW after, NEW kept \in SUBSET (Ids(before) \cap Ids(after)), NEW opened,
           SnapshotFits(r, snapshotsQ[n], n, before, expanded),
           (n = opened /\ n \in kept) => expanded = n
    PROVE  /\ snapshotsOn(n, before, after, kept, opened) \in Query
           /\ SnapshotFits(r, snapshotsOn(n, before, after, kept, opened), n, after, opened)
<1> DEFINE q == IF n \in Ids(before) \ kept THEN [snapshotsQ[n] EXCEPT !.left = TRUE] ELSE snapshotsQ[n]
           enabled == n = opened /\ \E e \in after : e.id = n /\ HasSnapshots(e)
           changed == n \in kept /\ \E e \in after, f \in before :
                          e.id = n /\ f.id = n /\ Signature(e) # Signature(f)
           stale == /\ enabled /\ ~(n \in kept /\ \E f \in before : f.id = n /\ Enabled(f))
                    /\ \E e \in after : e.id = n /\ SnapshotsStale(q, e)
<1>1. snapshotsOn(n, before, after, kept, opened) =
          IF changed THEN invalidateQueries(q, enabled) ELSE IF stale THEN Fetch(q, FALSE) ELSE q
  BY DEF snapshotsOn
<1>2. q \in Query
  BY DEF Query
<1>3. q.flight = snapshotsQ[n].flight /\ q.data = snapshotsQ[n].data
  BY DEF Query
<1>4. n \in Ids(before) \ kept => q.left
  BY DEF Query
<1>5. n \notin Ids(before) \ kept => q = snapshotsQ[n]
  OBVIOUS
<1> HIDE DEF q
<1>6. CASE changed
  <2>1. n \in Ids(after)
    BY <1>6
  <2>2. enabled \in BOOLEAN
    OBVIOUS
  <2>3. \A e \in after : n = opened /\ e.id = n /\ HasSnapshots(e) => enabled
    OBVIOUS
  <2> HIDE DEF enabled, changed, stale
  <2> DEFINE i == invalidateQueries(q, enabled)
  <2>4. i \in Query /\ (enabled => i.flight # Idle) /\ \A e : Follows(r, i, e)
    BY <1>2, <2>2, InvalidateFollows
  <2>5. snapshotsOn(n, before, after, kept, opened) = i
    BY <1>1, <1>6
  <2> HIDE DEF i
  <2>6. SnapshotFits(r, i, n, after, opened)
    BY <2>1, <2>3, <2>4 DEF SnapshotFits
  <2> QED BY <2>4, <2>5, <2>6
<1>7. CASE ~changed /\ stale
  <2>1. n \in Ids(after)
    BY <1>7 DEF Ids
  <2> HIDE DEF changed, stale, enabled
  <2>2. snapshotsOn(n, before, after, kept, opened) = Fetch(q, FALSE)
    BY <1>1, <1>7
  <2>3. Fetch(q, FALSE) \in Query
    BY <1>2, QueryTypes
  <2>4. SnapshotFits(r, Fetch(q, FALSE), n, after, opened)
    BY <1>2, <2>1, FetchFits
  <2> QED BY <2>2, <2>3, <2>4
<1>8. CASE ~changed /\ ~stale
  <2>1. CASE n \in kept
    <3>1. PICK f \in before : f.id = n
      BY <2>1 DEF Ids
    <3>2. q = snapshotsQ[n] /\ n \in Ids(after)
      BY <1>5, <2>1
    <3>3. ASSUME NEW e \in after, e.id = n
          PROVE  /\ Follows(r, q, e)
                 /\ (n = opened /\ HasSnapshots(e) /\ q.flight = Idle /\ q.invalid) => q.failed
      <4>1. Signature(e) = Signature(f)
        BY <1>8, <2>1, <3>1, <3>3
      <4> QED BY <2>1, <3>1, <3>2, <4>1, SameSignature DEF SnapshotFits
    <3> HIDE DEF changed, stale, enabled
    <3> QED BY <1>1, <1>2, <1>8, <3>2, <3>3 DEF SnapshotFits
  <2>2. CASE n \notin kept
    <3>1. q.left \/ (q.data = 0 /\ q.flight = Idle)
      BY <1>3, <1>4, <1>5, <2>2 DEF SnapshotFits
    <3>2. ASSUME NEW e \in after, e.id = n, n = opened, HasSnapshots(e)
          PROVE  ~q.invalid
      BY <1>8, <2>2, <3>2 DEF SnapshotsStale
    <3> HIDE DEF changed, stale, enabled
    <3> QED BY <1>1, <1>2, <1>8, <3>1, <3>2 DEF SnapshotFits, Follows
  <2> QED BY <2>1, <2>2
<1> QED BY <1>6, <1>7, <1>8

\* With InstanceInv: what the screen shows comes from the history of the database,
\* and the query of every inspector fits its row.
ScreenInv ==
    /\ run \in DOMAIN Runs /\ now \in DOMAIN Runs[run]
    /\ \A c \in DOMAIN executionsQ :
           c \in Cursors(run) /\ executionsQ[c].data <= now /\ executionsQ[c].flight <= now
    /\ cursorHistory \in Seq(Cursors(run))
    /\ DOMAIN snapshotsQ = AllIds(run)
    /\ \A n \in DOMAIN snapshotsQ :
           snapshotsQ[n] \in Query /\ SnapshotFits(run, snapshotsQ[n], n, mounted, expanded)

\* The states of a run are numbered from 1.
LEMMA RunLengths ==
    ASSUME NEW r \in DOMAIN Runs
    PROVE  DOMAIN Runs[r] = 1..Len(Runs[r]) /\ Len(Runs[r]) \in Nat
  BY RunsAssumption

\* A row that was read once is covered by every later read of its snapshots.
LEMMA LaterReadsCover ==
    ASSUME run \in DOMAIN Runs, NEW m \in DOMAIN Runs[run], NEW k \in Nat, k <= m, NEW c \in Cursors(run),
           NEW e \in Items(k, c)
    PROVE  e.id \in AllIds(run) /\ e.id # 0 /\ Covers(run, m, e)
<1>1. k \in DOMAIN Runs[run] /\ e \in Histories[run][k][c].items
  <2>1. k # 0 /\ e \in Histories[run][k][c].items
    BY DEF Items
  <2>2. DOMAIN Runs[run] = 1..Len(Runs[run]) /\ Len(Runs[run]) \in Nat
    BY RunLengths
  <2> QED BY SMTT(40), <2>1, <2>2
<1>2. e \in Runs[run][k].executions /\ e.instance = InstanceId
  BY <1>1, HistoryPages
<1>3. e.id \in AllIds(run) /\ e.id # 0
  BY SMTT(40), <1>1, <1>2, RunsAssumption DEF AllIds, Ids
<1>4. PICK f \in Runs[run][m].executions :
          /\ f.id = e.id /\ f.instance = e.instance
          /\ e.input # <<>> => f.input # <<>>
          /\ e.output # <<>> => f.output # <<>>
  BY SMTT(40), <1>1, <1>2, RunsAssumption
<1>5. {g \in Runs[run][m].executions : g.id = e.id /\ g.instance = InstanceId} = {f}
  <2>1. \A g \in Runs[run][m].executions : g.id = f.id => g = f
    BY SMTT(40), RunsAssumption
  <2> QED BY <1>2, <1>4, <2>1
<1>6. One({f}) = <<f>>
  BY DEF One
<1> DEFINE answer == recordedVariables(Runs[run][m], InstanceId, e.id)
<1>7. answer.recordedInput = Recorded(f.input) /\ answer.recordedOutput = Recorded(f.output)
  <2>1. <<f>> # <<>> /\ <<f>>[1] = f
    OBVIOUS
  <2> QED BY <1>5, <1>6, <2>1 DEF recordedVariables
<1>8. \A s : s # <<>> => Recorded(s).status # "notRecorded"
  BY DEF Recorded, variableDocument
<1> HIDE DEF answer
<1>9. Covers(run, m, e)
  BY <1>4, <1>7, <1>8 DEF Covers, answer
<1> QED BY <1>3, <1>9

\* An inspector on the screen shows an attempt of the history as it is, or was.
LEMMA MountedAreRows ==
    ASSUME InstanceInv, ScreenInv
    PROVE  \A e \in mounted : e.id \in DOMAIN snapshotsQ /\ e.id # 0 /\ Covers(run, now, e)
<1>1. cursor \in Cursors(run) /\ historyPage.data \in Nat /\ historyPage.data <= now
  BY DEF InstanceInv, ScreenInv, Query, historyPage
<1>2. \A e \in items : e.id \in AllIds(run) /\ e.id # 0 /\ Covers(run, now, e)
  BY <1>1, LaterReadsCover DEF ScreenInv, items
<1>3. mounted \subseteq items
  BY DEF mounted, Inspectors
<1> QED BY <1>2, <1>3 DEF ScreenInv

\* The screen goes on with other inspectors.
LEMMA InspectorsFit ==
    ASSUME ScreenInv, NEW view, NEW history, NEW id, NEW rows, \A e \in rows : e.id # 0,
           inspectorsOn(view, history, id, rows)
    PROVE  /\ DOMAIN snapshotsQ' = DOMAIN snapshotsQ
           /\ \A n \in DOMAIN snapshotsQ :
                  /\ snapshotsQ'[n] \in Query
                  /\ SnapshotFits(run, snapshotsQ'[n], n, Inspectors(view, history, id, rows), expanded')
<1> DEFINE after == Inspectors(view, history, id, rows)
           kept  == IF view = detailView /\ (view = "overview" => history = historyView)
                    THEN Ids(mounted) \cap Ids(after) ELSE {}
<1>1. /\ expanded' = IF view = "overview" /\ ~Ids(after) \subseteq kept THEN id
                     ELSE IF expanded \in kept THEN expanded ELSE 0
      /\ snapshotsQ' = [n \in DOMAIN snapshotsQ |-> snapshotsOn(n, mounted, after, kept, expanded')]
  BY DEF inspectorsOn
<1>2. kept \in SUBSET (Ids(mounted) \cap Ids(after))
  OBVIOUS
<1>3. \A n \in Ids(after) : n # 0
  BY DEF Inspectors, Ids
<1>4. view = "overview" => Ids(after) \subseteq {id}
  BY DEF Inspectors, Ids
<1> HIDE DEF after, kept
<1>5. \A n : n = expanded' /\ n \in kept => expanded = n
  BY <1>1, <1>2, <1>3, <1>4
<1>6. ASSUME NEW n \in DOMAIN snapshotsQ
      PROVE  /\ snapshotsOn(n, mounted, after, kept, expanded') \in Query
             /\ SnapshotFits(run, snapshotsOn(n, mounted, after, kept, expanded'), n, after, expanded')
  BY <1>2, <1>5, MountedFits DEF ScreenInv
<1>7. /\ DOMAIN snapshotsQ' = DOMAIN snapshotsQ
      /\ \A n \in DOMAIN snapshotsQ :
             snapshotsQ'[n] \in Query /\ SnapshotFits(run, snapshotsQ'[n], n, after, expanded')
  BY <1>1, <1>6
<1> QED BY <1>7 DEF after

\* What the invariants say of a page of the history, and of the time.
LEMMA PageBounds ==
    ASSUME InstanceInv, ScreenInv, NEW c \in DOMAIN executionsQ
    PROVE  executionsQ[c] \in Query /\ executionsQ[c].data <= now /\ executionsQ[c].flight <= now /\ now \in Nat
  BY DEF InstanceInv, ScreenInv

\* Steps between two commits.
LEMMA StillNow ==
    ASSUME InstanceInv, ScreenInv, now' = now
    PROVE  now' \in DOMAIN Runs[run] /\ now <= now'
<1>1. now \in Nat /\ now \in DOMAIN Runs[run]
  BY DEF InstanceInv, ScreenInv
<1> QED BY SMTT(40), <1>1

\* Steps after which the same rows are mounted.
LEMMA SameRows ==
    ASSUME InstanceInv, ScreenInv, InstanceInv',
           UNCHANGED <<run, cursor, cursorHistory, detailView, historyView, inspected>>,
           now' \in DOMAIN Runs[run], now <= now',
           DOMAIN executionsQ' = DOMAIN executionsQ,
           \A c \in DOMAIN executionsQ :
               executionsQ'[c].data = executionsQ[c].data /\ executionsQ'[c].flight <= now',
           DOMAIN snapshotsQ' = DOMAIN snapshotsQ,
           \A n \in DOMAIN snapshotsQ :
               snapshotsQ'[n] \in Query /\ SnapshotFits(run, snapshotsQ'[n], n, mounted, expanded')
    PROVE  ScreenInv'
<1>1. mounted' = mounted
  <2>1. cursor \in DOMAIN executionsQ
    BY DEF InstanceInv
  <2>2. items' = items
    BY <2>1 DEF items, Items, historyPage
  <2> QED BY <2>2 DEF mounted
<1>2. ASSUME NEW c \in DOMAIN executionsQ
      PROVE  c \in Cursors(run) /\ executionsQ'[c].data <= now' /\ executionsQ'[c].flight <= now'
  <2>1. executionsQ[c].data <= now /\ now \in Nat /\ now' \in Nat
    BY PageBounds, RunLengths DEF InstanceInv
  <2>2. executionsQ[c].data \in Nat /\ executionsQ'[c].data = executionsQ[c].data
    BY PageBounds DEF Query
  <2>3. executionsQ'[c].data <= now'
    BY SMTT(40), <2>1, <2>2
  <2> QED BY <2>3 DEF ScreenInv
<1> QED BY <1>1, <1>2 DEF ScreenInv

\* Where the operations on a query leave its data and its request.
LEMMA QueryBounds ==
    ASSUME NEW q \in Query, NEW b \in BOOLEAN, NEW m \in Nat, q.data <= m, q.flight <= m
    PROVE  /\ Fetch(q, b).data = q.data /\ Fetch(q, b).flight <= m
           /\ Broken(q).data = q.data /\ Broken(q).flight <= m
           /\ Resumed(q).data = q.data /\ Resumed(q).flight <= m
           /\ AtNow(q).data = q.data /\ AtNow(q).flight = now
           /\ Answered(q).data = q.flight /\ Answered(q).flight <= m
<1>1. Fetch(q, b).data = q.data /\ Fetch(q, b).flight <= m
  BY SMTT(40) DEF Fetch, Start, Query, Sent, Paused
<1>2. Broken(q).data = q.data /\ Broken(q).flight <= m
  BY SMTT(40) DEF Broken, Query, Idle
<1>3. Resumed(q).data = q.data /\ Resumed(q).flight <= m
  BY SMTT(40) DEF Resumed, Query, Sent
<1>4. AtNow(q).data = q.data /\ AtNow(q).flight = now
  BY DEF AtNow, Query
<1>5. Answered(q).data = q.flight /\ Answered(q).flight <= m
  BY SMTT(40) DEF Answered, Query, Idle
<1> QED BY <1>1, <1>2, <1>3, <1>4, <1>5

\* Steps that only ask for pages of the history, or do not touch them.
LEMMA PagesAsked ==
    ASSUME InstanceInv, ScreenInv, InstanceInv', UNCHANGED <<run, now, views, snapshotsQ>>,
           \/ executionsQ' = executionsQ
           \/ \E c \in DOMAIN executionsQ :
                  \E q \in {Fetch(executionsQ[c], TRUE), Broken(executionsQ[c]), AtNow(executionsQ[c])} :
                      executionsQ' = [executionsQ EXCEPT ![c] = q]
    PROVE  ScreenInv'
<1>1. ASSUME NEW c \in DOMAIN executionsQ,
             NEW q \in {Fetch(executionsQ[c], TRUE), Broken(executionsQ[c]), AtNow(executionsQ[c])}
      PROVE  q.data = executionsQ[c].data /\ q.flight <= now
  <2>0. executionsQ[c] \in Query /\ executionsQ[c].data <= now /\ executionsQ[c].flight <= now /\ now \in Nat
    BY PageBounds
  <2>1. \A b \in BOOLEAN : Fetch(executionsQ[c], b).data = executionsQ[c].data /\ Fetch(executionsQ[c], b).flight <= now
    BY <2>0, QueryBounds
  <2>2. Broken(executionsQ[c]).data = executionsQ[c].data /\ Broken(executionsQ[c]).flight <= now
    BY <2>0, QueryBounds
  <2>3. AtNow(executionsQ[c]).data = executionsQ[c].data /\ AtNow(executionsQ[c]).flight <= now
    BY SMTT(40), <2>0 DEF AtNow, Query
  <2> QED BY <1>1, <2>1, <2>2, <2>3
<1>2. /\ DOMAIN executionsQ' = DOMAIN executionsQ
      /\ \A c \in DOMAIN executionsQ :
             executionsQ'[c].data = executionsQ[c].data /\ executionsQ'[c].flight <= now'
  BY <1>1, PageBounds
<1>3. now' \in DOMAIN Runs[run] /\ now <= now'
  BY StillNow
<1> QED BY <1>2, <1>3, SameRows DEF ScreenInv, views

\* Steps that change queries of inspectors only.
LEMMA SnapshotsAsked ==
    ASSUME InstanceInv, ScreenInv, InstanceInv',
           UNCHANGED <<run, now, cursor, cursorHistory, detailView, historyView, inspected, executionsQ>>,
           DOMAIN snapshotsQ' = DOMAIN snapshotsQ,
           \A n \in DOMAIN snapshotsQ :
               snapshotsQ'[n] \in Query /\ SnapshotFits(run, snapshotsQ'[n], n, mounted, expanded')
    PROVE  ScreenInv'
<1>1. \A c \in DOMAIN executionsQ :
          executionsQ'[c].data = executionsQ[c].data /\ executionsQ'[c].flight <= now'
  BY PageBounds
<1>2. now' \in DOMAIN Runs[run] /\ now <= now'
  BY StillNow
<1> QED BY <1>1, <1>2, SameRows

\* The database, the status, the variables, and pages that are asked for.
LEMMA PlainSteps ==
    ASSUME InstanceInv, ScreenInv, InstanceInv',
           \/ CommitState \/ ReadDetail \/ ReadHistory \/ ReadVariables \/ DetailAnswered \/ VariablesAnswered
           \/ GoOffline \/ Hide \/ Poll \/ ClickRefresh \/ UNCHANGED instanceVars
    PROVE  ScreenInv'
<1>1. CASE CommitState
  <2>1. UNCHANGED <<run, views, queries>> /\ now' = now + 1 /\ now < Len(Runs[run])
    BY <1>1 DEF CommitState, Commits
  <2>2. now' \in DOMAIN Runs[run] /\ now <= now'
    <3>1. /\ DOMAIN Runs[run] = 1..Len(Runs[run]) /\ Len(Runs[run]) \in Nat
          /\ now \in DOMAIN Runs[run]
      BY RunLengths DEF ScreenInv
    <3> QED BY SMTT(40), <2>1, <3>1
  <2>3. \A c \in DOMAIN executionsQ : executionsQ[c].flight <= now'
    BY SMTT(40), <2>1, PageBounds DEF InstanceInv, Query
  <2> QED BY <2>1, <2>2, <2>3, SameRows DEF ScreenInv, views, queries
<1>2. CASE ReadHistory
  <2>1. PICK c \in DOMAIN executionsQ : executionsQ' = [executionsQ EXCEPT ![c] = AtNow(@)]
    BY <1>2 DEF ReadHistory
  <2>2. UNCHANGED <<run, now, views, snapshotsQ>>
    BY <1>2 DEF ReadHistory, browser
  <2> QED BY <2>1, <2>2, PagesAsked
<1>3. CASE DetailAnswered
  <2>1. UNCHANGED <<run, now, views, snapshotsQ>>
    BY <1>3 DEF DetailAnswered, afterDetail, browser
  <2>2. executionsQ' = executionsQ \/ executionsQ' = [executionsQ EXCEPT ![cursor] = Fetch(@, TRUE)]
    BY <1>3 DEF DetailAnswered, afterDetail
  <2>3. cursor \in DOMAIN executionsQ
    BY DEF InstanceInv
  <2> QED BY <2>1, <2>2, <2>3, PagesAsked
<1>4. CASE ReadDetail \/ ReadVariables \/ VariablesAnswered \/ GoOffline \/ Hide \/ Poll \/ ClickRefresh
             \/ UNCHANGED instanceVars
  <2>1. UNCHANGED <<run, now, views>>
    BY <1>4 DEF ReadDetail, ReadVariables, VariablesAnswered, GoOffline, Drops, Fault, Hide, Hides, Poll,
                ClickRefresh, Move, instanceVars, browser
  <2>2. UNCHANGED <<executionsQ, snapshotsQ>>
    BY <1>4 DEF ReadDetail, ReadVariables, VariablesAnswered, GoOffline, Hide, Poll,
                ClickRefresh, refresh, instanceVars, queries
  <2> QED BY <2>1, <2>2, PagesAsked
<1> QED BY <1>1, <1>2, <1>3, <1>4

\* The queries of inspectors on the network.
LEMMA SnapshotSteps ==
    ASSUME InstanceInv, ScreenInv, InstanceInv',
           \/ ReadSnapshots \/ SnapshotsAnswered
           \/ /\ \E n \in DOMAIN snapshotsQ :
                    Flying(snapshotsQ[n]) /\ snapshotsQ' = [snapshotsQ EXCEPT ![n] = Broken(@)]
              /\ UNCHANGED <<run, now, views, detailQ, executionsQ, variablesQ, cycle>>
    PROVE  ScreenInv'
<1>1. UNCHANGED <<run, now, views, executionsQ>>
  BY DEF ReadSnapshots, SnapshotsAnswered, browser
<1>2. ASSUME NEW n \in DOMAIN snapshotsQ, NEW q \in Query, SnapshotFits(run, q, n, mounted, expanded),
             snapshotsQ' = [snapshotsQ EXCEPT ![n] = q]
      PROVE  ScreenInv'
  <2>1. /\ DOMAIN snapshotsQ' = DOMAIN snapshotsQ
        /\ \A m \in DOMAIN snapshotsQ :
               snapshotsQ'[m] \in Query /\ SnapshotFits(run, snapshotsQ'[m], m, mounted, expanded)
    BY <1>2 DEF ScreenInv
  <2> QED BY <1>1, <2>1, SnapshotsAsked DEF views
<1>3. CASE ReadSnapshots
  <2>1. PICK n \in DOMAIN snapshotsQ :
            snapshotsQ[n].flight = Sent /\ snapshotsQ' = [snapshotsQ EXCEPT ![n] = AtNow(@)]
    BY <1>3 DEF ReadSnapshots
  <2>2. AtNow(snapshotsQ[n]) \in Query
    BY QueryTypes DEF ScreenInv, InstanceInv
  <2>3. SnapshotFits(run, AtNow(snapshotsQ[n]), n, mounted, expanded)
    BY <2>1, NetworkFits, MountedAreRows DEF ScreenInv, InstanceInv
  <2> QED BY <1>2, <2>1, <2>2, <2>3
<1>4. CASE SnapshotsAnswered
  <2>1. PICK n \in DOMAIN snapshotsQ :
            snapshotsQ[n].flight > 0 /\ snapshotsQ' = [snapshotsQ EXCEPT ![n] = Answered(@)]
    BY <1>4 DEF SnapshotsAnswered
  <2>2. Answered(snapshotsQ[n]) \in Query
    BY <2>1, QueryTypes DEF ScreenInv
  <2>3. SnapshotFits(run, Answered(snapshotsQ[n]), n, mounted, expanded)
    BY <2>1, NetworkFits DEF ScreenInv
  <2> QED BY <1>2, <2>1, <2>2, <2>3
<1>5. CASE \E n \in DOMAIN snapshotsQ :
              Flying(snapshotsQ[n]) /\ snapshotsQ' = [snapshotsQ EXCEPT ![n] = Broken(@)]
  <2>1. PICK n \in DOMAIN snapshotsQ :
            Flying(snapshotsQ[n]) /\ snapshotsQ' = [snapshotsQ EXCEPT ![n] = Broken(@)]
    BY <1>5
  <2>2. Broken(snapshotsQ[n]) \in Query
    BY QueryTypes DEF ScreenInv
  <2>3. SnapshotFits(run, Broken(snapshotsQ[n]), n, mounted, expanded)
    BY <2>1, NetworkFits DEF ScreenInv
  <2> QED BY <1>2, <2>1, <2>2, <2>3
<1> QED BY <1>3, <1>4, <1>5

\* Whichever request fails.
LEMMA FailureKeepsScreen ==
    ASSUME InstanceInv, ScreenInv, InstanceInv', RequestFails
    PROVE  ScreenInv'
<1>1. UNCHANGED <<run, now, views>>
  BY DEF RequestFails, Fault
<1>2. CASE Flying(detailQ) /\ afterDetail(Broken(detailQ))
  <2>1. UNCHANGED snapshotsQ
    BY <1>2 DEF afterDetail
  <2>2. executionsQ' = executionsQ \/ executionsQ' = [executionsQ EXCEPT ![cursor] = Fetch(@, TRUE)]
    BY <1>2 DEF afterDetail
  <2>3. cursor \in DOMAIN executionsQ
    BY DEF InstanceInv
  <2> QED BY <1>1, <2>1, <2>2, <2>3, PagesAsked
<1>3. CASE UNCHANGED snapshotsQ /\ \E c \in DOMAIN executionsQ : executionsQ' = [executionsQ EXCEPT ![c] = Broken(@)]
  BY <1>1, <1>3, PagesAsked
<1>4. CASE UNCHANGED <<executionsQ, snapshotsQ>>
  BY <1>1, <1>4, PagesAsked
<1>5. CASE /\ \E n \in DOMAIN snapshotsQ :
                 Flying(snapshotsQ[n]) /\ snapshotsQ' = [snapshotsQ EXCEPT ![n] = Broken(@)]
           /\ UNCHANGED <<detailQ, executionsQ, variablesQ, cycle>>
  BY <1>1, <1>5, SnapshotSteps
<1> QED BY <1>2, <1>3, <1>4, <1>5 DEF RequestFails

\* A page that comes back resumes its paused requests and refetches the stale snapshots.
LEMMA AwakeKeepsScreen ==
    ASSUME InstanceInv, ScreenInv, InstanceInv', Awake, UNCHANGED <<run, now, views>>
    PROVE  ScreenInv'
<1>1. executionsQ' = [c \in DOMAIN executionsQ |-> Resumed(executionsQ[c])]
  BY DEF Awake
<1>2. /\ DOMAIN executionsQ' = DOMAIN executionsQ
      /\ \A c \in DOMAIN executionsQ :
             executionsQ'[c].data = executionsQ[c].data /\ executionsQ'[c].flight <= now'
  <2>1. \A c \in DOMAIN executionsQ :
            Resumed(executionsQ[c]).data = executionsQ[c].data /\ Resumed(executionsQ[c]).flight <= now
    BY PageBounds, QueryBounds
  <2> QED BY <1>1, <2>1
<1> DEFINE again(n) == /\ snapshotsQ[n].flight = Idle /\ n = expanded
                       /\ \E e \in mounted : e.id = n /\ HasSnapshots(e) /\ SnapshotsStale(snapshotsQ[n], e)
           started(n) == [Start(snapshotsQ[n]) EXCEPT !.flight = Sent]
<1>3. snapshotsQ' = [n \in DOMAIN snapshotsQ |-> IF again(n) THEN started(n) ELSE Resumed(snapshotsQ[n])]
  BY DEF Awake
<1>4. ASSUME NEW n \in DOMAIN snapshotsQ, again(n)
      PROVE  started(n) \in Query /\ SnapshotFits(run, started(n), n, mounted, expanded)
  <2>1. n \in Ids(mounted)
    BY <1>4 DEF Ids
  <2>2. Start(snapshotsQ[n]) \in Query
    BY QueryTypes DEF ScreenInv
  <2>3. started(n) \in Query /\ started(n).flight = Sent
    BY SMTT(40), <2>2 DEF Query, Sent
  <2> HIDE DEF started
  <2> QED BY <2>1, <2>3, RequestFits
<1>5. ASSUME NEW n \in DOMAIN snapshotsQ
      PROVE  Resumed(snapshotsQ[n]) \in Query /\ SnapshotFits(run, Resumed(snapshotsQ[n]), n, mounted, expanded)
  BY QueryTypes, NetworkFits DEF ScreenInv
<1> HIDE DEF again, started
<1>6. /\ DOMAIN snapshotsQ' = DOMAIN snapshotsQ
      /\ \A n \in DOMAIN snapshotsQ :
             snapshotsQ'[n] \in Query /\ SnapshotFits(run, snapshotsQ'[n], n, mounted, expanded)
  BY <1>3, <1>4, <1>5
<1>7. now' \in DOMAIN Runs[run] /\ now <= now'
  BY StillNow
<1> QED BY <1>2, <1>6, <1>7, SameRows DEF views

\* The page is shown again, or the browser is online again.
LEMMA ReturnKeepsScreen ==
    ASSUME InstanceInv, ScreenInv, InstanceInv', Show \/ GoOnline
    PROVE  ScreenInv'
<1>1. UNCHANGED <<run, now, views>>
  BY DEF Show, Shows, GoOnline, Reconnects
<1>2. CASE Awake
  BY <1>1, <1>2, AwakeKeepsScreen
<1>3. CASE refresh \/ UNCHANGED <<queries, cycle>>
  <2>1. UNCHANGED <<executionsQ, snapshotsQ>>
    BY <1>3 DEF refresh, queries
  <2> QED BY <1>1, <2>1, PagesAsked
<1> QED BY <1>2, <1>3 DEF Show, GoOnline

\* Expand, Collapse and Retry.
LEMMA TogglesKeepScreen ==
    ASSUME InstanceInv, ScreenInv, InstanceInv', ToggleSnapshots \/ RetrySnapshots
    PROVE  ScreenInv'
<1>1. UNCHANGED <<run, now, cursor, cursorHistory, detailView, historyView, inspected, executionsQ>>
  BY DEF ToggleSnapshots, RetrySnapshots, Move, browser, views
<1>2. ASSUME NEW n \in DOMAIN snapshotsQ, NEW b \in BOOLEAN, n \in Ids(mounted)
      PROVE  /\ Fetch(snapshotsQ[n], b) \in Query
             /\ SnapshotFits(run, Fetch(snapshotsQ[n], b), n, mounted, expanded')
  BY <1>2, FetchFits, QueryTypes DEF ScreenInv
<1>3. CASE RetrySnapshots
  <2>1. PICK e \in mounted : snapshotsQ' = [snapshotsQ EXCEPT ![e.id] = Fetch(@, TRUE)]
    BY <1>3 DEF RetrySnapshots
  <2>2. expanded' = expanded /\ e.id \in Ids(mounted) /\ e.id \in DOMAIN snapshotsQ
    BY <1>3, MountedAreRows DEF RetrySnapshots, views, Ids
  <2>3. /\ DOMAIN snapshotsQ' = DOMAIN snapshotsQ
        /\ \A n \in DOMAIN snapshotsQ :
               snapshotsQ'[n] \in Query /\ SnapshotFits(run, snapshotsQ'[n], n, mounted, expanded')
    BY <1>2, <2>1, <2>2 DEF ScreenInv
  <2> QED BY <1>1, <2>3, SnapshotsAsked
<1>4. CASE ToggleSnapshots
  <2>1. PICK e \in mounted :
            /\ HasSnapshots(e) /\ expanded \in {0, e.id}
            /\ expanded' = IF expanded = e.id THEN 0 ELSE e.id
            /\ snapshotsQ' = IF expanded = 0 /\ SnapshotsStale(snapshotsQ[e.id], e)
                             THEN [snapshotsQ EXCEPT ![e.id] = Fetch(@, FALSE)] ELSE snapshotsQ
    BY <1>4 DEF ToggleSnapshots
  <2>2. e.id \in Ids(mounted) /\ e.id \in DOMAIN snapshotsQ /\ e.id # 0 /\ \A f \in mounted : f.id # 0
    BY MountedAreRows DEF Ids
  <2>3. ASSUME NEW n \in DOMAIN snapshotsQ, n = expanded' => ~snapshotsQ[n].invalid
        PROVE  SnapshotFits(run, snapshotsQ[n], n, mounted, expanded')
    BY <2>3 DEF ScreenInv, SnapshotFits
  <2>4. \A n \in DOMAIN snapshotsQ : n # e.id => (n = expanded' => n = 0)
    BY <2>1
  <2>5. ASSUME NEW n \in DOMAIN snapshotsQ, n = 0
        PROVE  SnapshotFits(run, snapshotsQ[n], n, mounted, expanded')
    BY <2>2, <2>5 DEF ScreenInv, SnapshotFits
  <2>6. ASSUME ~(expanded = 0 /\ SnapshotsStale(snapshotsQ[e.id], e)), e.id = expanded'
        PROVE  ~snapshotsQ[e.id].invalid
    BY <2>1, <2>2, <2>6 DEF SnapshotsStale
  <2>7. /\ DOMAIN snapshotsQ' = DOMAIN snapshotsQ
        /\ \A n \in DOMAIN snapshotsQ :
               snapshotsQ'[n] \in Query /\ SnapshotFits(run, snapshotsQ'[n], n, mounted, expanded')
    <3>1. CASE expanded = 0 /\ SnapshotsStale(snapshotsQ[e.id], e)
      BY <1>2, <2>1, <2>2, <2>3, <2>4, <2>5, <3>1 DEF ScreenInv
    <3>2. CASE ~(expanded = 0 /\ SnapshotsStale(snapshotsQ[e.id], e))
      BY <2>1, <2>3, <2>4, <2>5, <2>6, <3>2 DEF ScreenInv
    <3> QED BY <3>1, <3>2
  <2> QED BY SMTT(40), <1>1, <2>7, SnapshotsAsked
<1> QED BY <1>3, <1>4

\* Steps after which other rows are mounted.
LEMMA OtherRows ==
    ASSUME InstanceInv, ScreenInv, InstanceInv', UNCHANGED <<run, now>>,
           \A c \in DOMAIN executionsQ' :
               c \in Cursors(run) /\ executionsQ'[c].data <= now /\ executionsQ'[c].flight <= now,
           cursorHistory' \in Seq(Cursors(run)),
           inspectorsOn(detailView', historyView', inspected', items')
    PROVE  ScreenInv'
<1>1. \A e \in items' : e.id # 0
  <2>1. cursor' \in Cursors(run) /\ executionsQ'[cursor'].data \in Nat /\ executionsQ'[cursor'].data <= now
    BY DEF InstanceInv, Query
  <2>2. items' = Items(executionsQ'[cursor'].data, cursor')
    BY DEF items, Items, historyPage
  <2> QED BY <2>1, <2>2, LaterReadsCover DEF ScreenInv
<1>2. mounted' = Inspectors(detailView', historyView', inspected', items')
  BY DEF mounted
<1>3. /\ DOMAIN snapshotsQ' = DOMAIN snapshotsQ
      /\ \A n \in DOMAIN snapshotsQ :
             snapshotsQ'[n] \in Query /\ SnapshotFits(run, snapshotsQ'[n], n, mounted', expanded')
  BY <1>1, <1>2, InspectorsFit
<1> QED BY <1>3 DEF ScreenInv

\* New rows on the page invalidate the snapshots of the rows that changed.
LEMMA HistoryAnsweredKeepsScreen ==
    ASSUME InstanceInv, ScreenInv, InstanceInv', HistoryAnswered
    PROVE  ScreenInv'
<1>1. PICK c \in DOMAIN executionsQ :
          /\ executionsQ[c].flight > 0
          /\ executionsQ' = [executionsQ EXCEPT ![c] = Answered(@)]
          /\ IF c = cursor
             THEN inspectorsOn(detailView, historyView, inspected, Items(executionsQ[c].flight, c))
             ELSE UNCHANGED <<snapshotsQ, expanded>>
  BY DEF HistoryAnswered
<1>2. UNCHANGED <<run, now, cursor, cursorHistory, detailView, historyView, inspected>>
  BY DEF HistoryAnswered, browser
<1>3. Answered(executionsQ[c]).data = executionsQ[c].flight /\ Answered(executionsQ[c]).flight <= now
  BY PageBounds, QueryBounds
<1>4. \A d \in DOMAIN executionsQ' :
          d \in Cursors(run) /\ executionsQ'[d].data <= now /\ executionsQ'[d].flight <= now
  BY <1>1, <1>3, PageBounds DEF ScreenInv
<1>5. CASE c = cursor
  <2>1. executionsQ'[cursor].data = executionsQ[c].flight
    BY <1>1, <1>3, <1>5
  <2>2. items' = Items(executionsQ[c].flight, c)
    BY <1>2, <1>5, <2>1 DEF items, Items, historyPage
  <2>3. inspectorsOn(detailView', historyView', inspected', items')
    BY <1>1, <1>2, <1>5, <2>2
  <2>4. cursorHistory' \in Seq(Cursors(run))
    BY <1>2 DEF ScreenInv
  <2> QED BY <1>2, <1>4, <2>3, <2>4, OtherRows
<1>6. CASE c # cursor
  <2>1. UNCHANGED <<snapshotsQ, expanded>> /\ executionsQ'[cursor] = executionsQ[cursor]
    BY SMTT(40), <1>1, <1>6
  <2>2. items' = items
    BY <1>2, <2>1 DEF items, Items, historyPage
  <2>3. mounted' = mounted
    BY <1>2, <2>2 DEF mounted
  <2> QED BY <1>2, <1>4, <2>1, <2>3 DEF ScreenInv
<1> QED BY <1>5, <1>6

\* Tabs and the timeline.
LEMMA ViewsKeepScreen ==
    ASSUME InstanceInv, ScreenInv, InstanceInv',
           \/ \E view \in {"overview", "variables"} : SelectTab(view)
           \/ \E history \in {"table", "timeline"} : SelectHistory(history)
           \/ Inspect
    PROVE  ScreenInv'
<1>1. UNCHANGED <<run, now, cursor, cursorHistory, executionsQ>>
  BY DEF SelectTab, SelectHistory, Inspect, Move
<1>2. items' = items
  BY <1>1 DEF items, Items, historyPage
<1>3. inspectorsOn(detailView', historyView', inspected', items)
  <2>1. ASSUME NEW view, SelectTab(view) PROVE inspectorsOn(detailView', historyView', inspected', items)
    BY <2>1 DEF SelectTab
  <2>2. ASSUME NEW history, SelectHistory(history) PROVE inspectorsOn(detailView', historyView', inspected', items)
    BY <2>2 DEF SelectHistory
  <2>3. ASSUME Inspect PROVE inspectorsOn(detailView', historyView', inspected', items)
    BY <2>3 DEF Inspect
  <2> QED BY <2>1, <2>2, <2>3
<1>4. \A c \in DOMAIN executionsQ' :
          c \in Cursors(run) /\ executionsQ'[c].data <= now /\ executionsQ'[c].flight <= now
  BY <1>1 DEF ScreenInv
<1>5. cursorHistory' \in Seq(Cursors(run))
  BY <1>1 DEF ScreenInv
<1> QED BY <1>1, <1>2, <1>3, <1>4, <1>5, OtherRows

\* Another page of the history mounts other inspectors.
LEMMA PagingKeepsScreen ==
    ASSUME InstanceInv, ScreenInv, InstanceInv', NewestPage \/ PreviousPage \/ NextPage
    PROVE  ScreenInv'
<1>1. UNCHANGED <<run, now>> /\ historyPage.data # 0
  BY DEF NewestPage, PreviousPage, NextPage, Paging, Move
<1>2. PICK c \in Cursors(run) : GoToPage(c) /\ cursorHistory' \in Seq(Cursors(run))
  <2>1. CASE NewestPage
    <3>1. GoToPage(<<>>) /\ cursorHistory' = <<>>
      BY <2>1 DEF NewestPage
    <3>2. <<>> \in Cursors(run)
      BY DEF Cursors
    <3> QED BY SMTT(40), <3>1, <3>2
  <2>2. CASE PreviousPage
    <3>1. /\ GoToPage(cursorHistory[Len(cursorHistory)]) /\ cursorHistory # <<>>
          /\ cursorHistory' = SubSeq(cursorHistory, 1, Len(cursorHistory) - 1)
      BY <2>2 DEF PreviousPage
    <3>2. cursorHistory \in Seq(Cursors(run))
      BY DEF ScreenInv
    <3>3. Len(cursorHistory) \in DOMAIN cursorHistory /\ cursorHistory[Len(cursorHistory)] \in Cursors(run)
      BY SMTT(40), <3>1, <3>2
    <3>4. SubSeq(cursorHistory, 1, Len(cursorHistory) - 1) \in Seq(Cursors(run))
      BY SMTT(40), <3>2
    <3> QED BY <3>1, <3>3, <3>4
  <2>3. CASE NextPage
    <3>1. GoToPage(nextCursor) /\ cursorHistory' = Append(cursorHistory, cursor)
      BY <2>3 DEF NextPage
    <3>2. cursor \in Cursors(run) /\ historyPage.data \in Nat /\ historyPage.data <= now
      BY DEF InstanceInv, ScreenInv, Query, historyPage
    <3>3. historyPage.data \in DOMAIN Runs[run]
      <4>1. DOMAIN Runs[run] = 1..Len(Runs[run]) /\ Len(Runs[run]) \in Nat
        BY RunLengths DEF ScreenInv
      <4> QED BY SMTT(40), <1>1, <3>2, <4>1 DEF ScreenInv
    <3>4. nextCursor \in Cursors(run)
      BY <3>2, <3>3, HistoryPages DEF ScreenInv, nextCursor
    <3>5. cursorHistory \in Seq(Cursors(run))
      BY SMTT(40) DEF ScreenInv
    <3>6. Append(cursorHistory, cursor) \in Seq(Cursors(run))
      BY SMTT(40), <3>2, <3>5
    <3> QED BY <3>1, <3>4, <3>6
  <2> QED BY <2>1, <2>2, <2>3
<1> DEFINE q == IF c \in DOMAIN executionsQ THEN executionsQ[c] ELSE NoQuery
<1>3. q \in Query /\ q.data <= now /\ q.flight <= now
  <2>1. NoQuery \in Query /\ NoQuery.data = 0 /\ NoQuery.flight = Idle
    BY SMTT(40) DEF NoQuery, Query, Idle
  <2>2. now \in Nat /\ Idle <= now /\ 0 <= now
    BY SMTT(40) DEF InstanceInv, Idle
  <2> QED BY <2>1, <2>2, PageBounds
<1>4. /\ cursor' = c /\ UNCHANGED <<detailView, historyView, inspected>>
      /\ executionsQ' = [k \in DOMAIN executionsQ \cup {c} |-> IF k = c THEN Fetch(q, FALSE) ELSE executionsQ[k]]
      /\ inspectorsOn(detailView, historyView, inspected, Items(q.data, c))
  BY <1>2 DEF GoToPage
<1> HIDE DEF q
<1>5. Fetch(q, FALSE).data = q.data /\ Fetch(q, FALSE).flight <= now
  BY <1>3, QueryBounds DEF InstanceInv
<1>6. \A k \in DOMAIN executionsQ' :
          k \in Cursors(run) /\ executionsQ'[k].data <= now /\ executionsQ'[k].flight <= now
  BY <1>2, <1>3, <1>4, <1>5, PageBounds DEF ScreenInv
<1>7. items' = Items(q.data, c)
  <2>1. executionsQ'[cursor'].data = q.data
    BY <1>4, <1>5
  <2> QED BY <1>1, <1>4, <2>1 DEF items, Items, historyPage
<1>8. inspectorsOn(detailView', historyView', inspected', items')
  BY <1>4, <1>7
<1> QED BY <1>1, <1>2, <1>6, <1>8, OtherRows

\* The screen opens with no row.
LEMMA ScreenInitInv == InstanceInit => ScreenInv
<1> SUFFICES ASSUME InstanceInit PROVE ScreenInv
  BY SMTT(40)
<1>1. run \in DOMAIN Runs /\ now = 1
  BY DEF InstanceInit, BrowserInit
<1>2. now \in DOMAIN Runs[run]
  BY SMTT(40), <1>1, RunsAssumption
<1> DEFINE sent == [NoQuery EXCEPT !.flight = Sent]
<1>3. NoQuery \in Query /\ NoQuery.data = 0 /\ NoQuery.flight = Idle
  BY SMTT(40) DEF NoQuery, Query, Idle
<1>4. sent.data = 0 /\ sent.flight = 0
  BY <1>3 DEF Query, Sent
<1>5. executionsQ = [c \in {<<>>} |-> sent] /\ cursor = <<>> /\ cursorHistory = <<>>
  BY DEF InstanceInit
<1> HIDE DEF sent
<1>6. \A c \in DOMAIN executionsQ :
          c \in Cursors(run) /\ executionsQ[c].data <= now /\ executionsQ[c].flight <= now
  BY SMTT(40), <1>1, <1>4, <1>5 DEF Cursors
<1>7. cursorHistory \in Seq(Cursors(run))
  BY SMTT(40), <1>5
<1>8. snapshotsQ = [n \in AllIds(run) |-> NoQuery]
  BY DEF InstanceInit, AllIds
<1>9. items = {} /\ mounted = {}
  <2>1. items = {}
    BY <1>4, <1>5 DEF items, Items, historyPage
  <2> QED BY <2>1 DEF mounted, Inspectors
<1>10. \A n \in DOMAIN snapshotsQ : SnapshotFits(run, snapshotsQ[n], n, mounted, expanded)
  BY <1>3, <1>8, <1>9 DEF SnapshotFits
<1> QED BY <1>1, <1>2, <1>3, <1>6, <1>7, <1>8, <1>10 DEF ScreenInv

\* Every step keeps it.
LEMMA ScreenNextInv == InstanceInv /\ InstanceInv' /\ ScreenInv /\ [InstanceNext]_instanceVars => ScreenInv'
<1> SUFFICES ASSUME InstanceInv, InstanceInv', ScreenInv, [InstanceNext]_instanceVars PROVE ScreenInv'
  OBVIOUS
<1>1. CASE User
  BY <1>1, PlainSteps, TogglesKeepScreen, ViewsKeepScreen, PagingKeepsScreen DEF User
<1> QED BY <1>1, PlainSteps, SnapshotSteps, FailureKeepsScreen, HistoryAnsweredKeepsScreen, ReturnKeepsScreen
        DEF InstanceNext

\* The rows on the screen come from the history, and their snapshots fit them.
THEOREM ScreenInvariance == InstanceSpec => []ScreenInv
<1> QED BY InstanceInvariance, ScreenInitInv, ScreenNextInv, PTL DEF InstanceSpec

\* Whatever the engine commits meanwhile and however the user leaves and reopens
\* inspectors: the snapshots of an expanded attempt are as new as its row of the history.
THEOREM InspectorFollows == InstanceSpec => []InspectorFollowsHistory
<1>1. InstanceInv /\ ScreenInv => InspectorFollowsHistory
  <2> SUFFICES ASSUME InstanceInv, ScreenInv, NEW e \in mounted, Enabled(e), snapshotsQ[e.id].data # 0,
                      snapshotsQ[e.id].flight = Idle, ~snapshotsQ[e.id].failed,
                      ~snapshotsQ[e.id].joined, ~snapshotsQ[e.id].left
               PROVE  Covers(run, snapshotsQ[e.id].data, e)
    BY DEF InspectorFollowsHistory, Covers
  <2>1. e.id \in DOMAIN snapshotsQ
    BY MountedAreRows
  <2>2. SnapshotFits(run, snapshotsQ[e.id], e.id, mounted, expanded)
    BY <2>1 DEF ScreenInv
  <2>3. Follows(run, snapshotsQ[e.id], e) /\ ~snapshotsQ[e.id].invalid
    BY <2>2 DEF SnapshotFits, Enabled
  <2> QED BY SMTT(40), <2>3 DEF Follows, Idle, Sent, Paused
<1> QED BY <1>1, InstanceInvariance, ScreenInvariance, PTL

--------------------------------------------------------------------------------
(* Saved filters. *)

\* A list of views, with names that can be trimmed.
IsViews(vs) ==
    /\ Len(vs) \in Nat /\ vs = [n \in 1..Len(vs) |-> vs[n]]
    /\ \A n \in 1..Len(vs) : vs[n].name \in Names

\* What the storage holds can be loaded as it is.
SavedInv ==
    /\ IsViews(stored.views)
    /\ stored.readable => loadSavedFilters = Accepted(stored.views)

\* The limits are numbers.
LEMMA Limits == MAX_FILTERS \in Nat /\ MAX_STORAGE_BYTES \in Nat
  BY SavedFiltersAssumption

\* A list given by its elements.
LEMMA ListedViews ==
    ASSUME NEW k \in Nat, NEW vs, vs = [n \in 1..k |-> vs[n]]
    PROVE  Len(vs) = k /\ DOMAIN vs = 1..k
<1> DEFINE S == {vs[n] : n \in 1..k}
<1>1. vs \in [1..k -> S]
  OBVIOUS
<1> HIDE DEF S
<1>2. vs \in Seq(S)
  BY SMTT(40), <1>1
<1> QED BY SMTT(40), <1>1, <1>2

\* normalizeFilterSearch changes nothing that normalizes reads, and nothing the second time.
LEMMA NormalSearch ==
    ASSUME NEW s
    PROVE  /\ normalizes(normalizeFilterSearch(s)) <=> normalizes(s)
           /\ normalizeFilterSearch(normalizeFilterSearch(s)) = normalizeFilterSearch(s)
<1>1. /\ normalizeFilterSearch(s).filters = s.filters
      /\ normalizeFilterSearch(s).unsupported = s.unsupported
      /\ normalizeFilterSearch(s).bytes = s.bytes
  BY DEF normalizeFilterSearch
<1>2. normalizes(normalizeFilterSearch(s)) <=> normalizes(s)
  BY <1>1 DEF normalizes
<1>3. normalizeFilterSearch(normalizeFilterSearch(s)) = normalizeFilterSearch(s)
  BY <1>1 DEF normalizeFilterSearch
<1> QED BY <1>2, <1>3

Valid(vs) ==
    /\ Len(vs) <= MAX_FILTERS
    /\ \A n \in DOMAIN vs : Trim[vs[n].name] # "" /\ normalizes(vs[n].search)
    /\ \A m, n \in DOMAIN vs : m # n =>
           /\ vs[m].id # vs[n].id
           /\ Lower[Trim[vs[m].name]] # Lower[Trim[vs[n].name]]

Trimmed(vs) ==
    [n \in DOMAIN vs |-> [id |-> vs[n].id, name |-> Trim[vs[n].name],
                          search |-> normalizeFilterSearch(vs[n].search)]]

\* validateViews accepts a valid list, trimmed, and nothing else.
LEMMA ValidateViews ==
    ASSUME NEW vs
    PROVE  validateViews(vs) = IF Valid(vs) THEN Accepted(Trimmed(vs)) ELSE Rejected
  BY DEF validateViews, Valid, Trimmed

\* What validateViews has accepted it accepts again, as it is.
LEMMA TrimmedIsValid ==
    ASSUME NEW vs, IsViews(vs), Valid(vs)
    PROVE  /\ IsViews(Trimmed(vs)) /\ Len(Trimmed(vs)) = Len(vs)
           /\ \A n \in 1..Len(vs) : Trimmed(vs)[n].id = vs[n].id
           /\ Valid(Trimmed(vs)) /\ Trimmed(Trimmed(vs)) = Trimmed(vs)
<1> DEFINE w == Trimmed(vs)
<1>0. Len(vs) \in Nat /\ DOMAIN vs = 1..Len(vs)
  BY DEF IsViews
<1>1. w = [n \in 1..Len(vs) |-> [id |-> vs[n].id, name |-> Trim[vs[n].name],
                                 search |-> normalizeFilterSearch(vs[n].search)]]
  BY <1>0 DEF Trimmed
<1>2. DOMAIN w = 1..Len(vs)
  BY <1>1
<1>3. \A n \in 1..Len(vs) : /\ w[n].id = vs[n].id /\ w[n].name = Trim[vs[n].name]
                            /\ w[n].search = normalizeFilterSearch(vs[n].search)
  BY SMTT(40), <1>1
<1>4. w = [n \in 1..Len(vs) |-> w[n]]
  BY <1>1
<1> HIDE DEF w
<1>5. Len(w) = Len(vs)
  BY <1>0, <1>4, ListedViews
<1>6. \A n \in 1..Len(vs) : /\ w[n].name \in Names /\ Trim[w[n].name] = w[n].name
  <2> TAKE n \in 1..Len(vs)
  <2>1. vs[n].name \in Names /\ w[n].name = Trim[vs[n].name]
    BY <1>3 DEF IsViews
  <2>2. Trim[vs[n].name] \in Names /\ Trim[Trim[vs[n].name]] = Trim[vs[n].name]
    BY <2>1, SavedFiltersAssumption
  <2> QED BY <2>1, <2>2
<1>7. IsViews(w)
  BY <1>0, <1>4, <1>5, <1>6 DEF IsViews
<1>8. Valid(w)
  <2>1. \A n \in 1..Len(vs) : normalizes(w[n].search)
    <3> SUFFICES ASSUME NEW n \in 1..Len(vs) PROVE normalizes(w[n].search)
      OBVIOUS
    <3>1. normalizes(vs[n].search) /\ w[n].search = normalizeFilterSearch(vs[n].search)
      BY <1>0, <1>3 DEF Valid
    <3> QED BY <3>1, NormalSearch
  <2>2. \A n \in 1..Len(vs) : Trim[w[n].name] = Trim[vs[n].name]
    BY <1>3, <1>6
  <2>3. Len(w) <= MAX_FILTERS
    BY <1>5 DEF Valid
  <2>4. \A n \in 1..Len(vs) : Trim[w[n].name] # ""
    BY <1>0, <2>2 DEF Valid
  <2>5. \A m, n \in 1..Len(vs) : m # n => /\ w[m].id # w[n].id
                                          /\ Lower[Trim[w[m].name]] # Lower[Trim[w[n].name]]
    <3> SUFFICES ASSUME NEW m \in 1..Len(vs), NEW n \in 1..Len(vs), m # n
                 PROVE  w[m].id # w[n].id /\ Lower[Trim[w[m].name]] # Lower[Trim[w[n].name]]
      OBVIOUS
    <3>1. vs[m].id # vs[n].id /\ Lower[Trim[vs[m].name]] # Lower[Trim[vs[n].name]]
      BY <1>0 DEF Valid
    <3> QED BY <1>3, <2>2, <3>1
  <2> QED BY <1>2, <2>1, <2>3, <2>4, <2>5 DEF Valid
<1>9. Trimmed(w) = w
  <2>1. Trimmed(w) = [n \in 1..Len(vs) |-> [id |-> w[n].id, name |-> Trim[w[n].name],
                                             search |-> normalizeFilterSearch(w[n].search)]]
    BY <1>2 DEF Trimmed
  <2>2. \A n \in 1..Len(vs) : normalizeFilterSearch(w[n].search) = w[n].search
    BY <1>3, NormalSearch
  <2>3. \A n \in 1..Len(vs) : w[n] = [id |-> w[n].id, name |-> w[n].name, search |-> w[n].search]
    BY SMTT(40), <1>1 DEF w
  <2> QED BY <1>4, <1>6, <2>1, <2>2, <2>3
<1> QED BY <1>3, <1>5, <1>7, <1>8, <1>9 DEF w

\* What storeSavedFilters writes can be loaded again, and has the ids it was given.
LEMMA StoredIsUsable ==
    ASSUME NEW vs, IsViews(vs), storeSavedFilters(vs).ok,
           stored' = [readable |-> TRUE, views |-> storeSavedFilters(vs).views]
    PROVE  /\ SavedInv'
           /\ Len(stored'.views) = Len(vs) /\ \A n \in 1..Len(vs) : stored'.views[n].id = vs[n].id
<1>1. Valid(vs) /\ storeSavedFilters(vs) = Accepted(Trimmed(vs)) /\ ~(Bytes(Trimmed(vs)) > MAX_STORAGE_BYTES)
  <2>1. Rejected.ok = FALSE /\ Accepted(Trimmed(vs)).views = Trimmed(vs) /\ Accepted(Trimmed(vs)).ok = TRUE
    BY DEF Rejected, Accepted
  <2> QED BY <2>1, ValidateViews DEF storeSavedFilters
<1>2. stored'.readable = TRUE /\ stored'.views = Trimmed(vs)
  BY SMTT(40), <1>1 DEF Accepted
<1>3. validateViews(Trimmed(vs)) = Accepted(Trimmed(vs))
  BY <1>1, ValidateViews, TrimmedIsValid
<1>4. loadSavedFilters' = Accepted(stored.views)'
  BY <1>1, <1>2, <1>3 DEF loadSavedFilters, Accepted
<1>5. /\ IsViews(stored'.views) /\ Len(stored'.views) = Len(vs)
      /\ \A n \in 1..Len(vs) : stored'.views[n].id = vs[n].id
  BY SMTT(40), <1>1, <1>2, TrimmedIsValid
<1>6. SavedInv'
  BY <1>4, <1>5 DEF SavedInv
<1> QED BY <1>5, <1>6

\* The API accepts the search of a saved filter.
LEMMA ApiAccepts ==
    ASSUME NEW s, normalizes(s)
    PROVE  validateFilters(s.filters)
  BY DEF normalizes, validateFilters, RangeIncreases

\* Loading gives a list of views, what is stored if it succeeds.
LEMMA LoadedViews ==
    ASSUME SavedInv, loadSavedFilters.ok
    PROVE  loadSavedFilters.views = stored.views /\ IsViews(stored.views) /\ Valid(stored.views)
<1>1. stored.readable
  BY DEF loadSavedFilters, Rejected
<1>2. loadSavedFilters = Accepted(stored.views)
  BY <1>1 DEF SavedInv
<1>3. loadSavedFilters = validateViews(stored.views)
  BY <1>1, <1>2 DEF loadSavedFilters, Rejected, Accepted
<1>4. Valid(stored.views)
  BY SMTT(40), <1>2, <1>3, ValidateViews DEF Rejected, Accepted
<1> QED BY <1>2, <1>4 DEF SavedInv, Accepted

\* Only the views with these ids may be lost.
Keeps(vs, ws, ids) ==
    \A n \in 1..Len(vs) : vs[n].id \in ids \/ \E m \in 1..Len(ws) : ws[m].id = vs[n].id

\* A view is added.
LEMMA AppendedViews ==
    ASSUME NEW vs, IsViews(vs), NEW v, v.name \in Names
    PROVE  IsViews(Append(vs, v)) /\ Keeps(vs, Append(vs, v), {})
<1> DEFINE S == {vs[n] : n \in 1..Len(vs)} \cup {v}
<1>1. vs \in [1..Len(vs) -> S] /\ v \in S /\ Len(vs) \in Nat
  BY DEF IsViews
<1> HIDE DEF S
<1>2. vs \in Seq(S)
  BY SMTT(40), <1>1
<1>3. /\ Append(vs, v) \in Seq(S) /\ Len(Append(vs, v)) = Len(vs) + 1
      /\ \A n \in 1..Len(vs) : Append(vs, v)[n] = vs[n]
      /\ Append(vs, v)[Len(vs) + 1] = v
  BY SMTT(40), <1>1, <1>2
<1>4. \A n \in 1..(Len(vs) + 1) : Append(vs, v)[n].name \in Names
  BY SMTT(40), <1>1, <1>3 DEF IsViews
<1>5. IsViews(Append(vs, v))
  <2> DEFINE w == Append(vs, v)
  <2>1. w \in Seq(S) /\ Len(w) = Len(vs) + 1 /\ \A n \in 1..(Len(vs) + 1) : w[n].name \in Names
    BY <1>3, <1>4
  <2> HIDE DEF w
  <2>2. Len(w) \in Nat /\ w = [n \in 1..Len(w) |-> w[n]]
    BY SMTT(40), <2>1
  <2>3. IsViews(w)
    BY <2>1, <2>2 DEF IsViews
  <2> QED BY <2>3 DEF w
<1> QED BY SMTT(40), <1>1, <1>3, <1>5 DEF Keeps

\* A view is renamed.
LEMMA RenamedViews ==
    ASSUME NEW vs, IsViews(vs), NEW id, NEW name \in Names
    PROVE  IsViews(Renamed(vs, id, name)) /\ Keeps(vs, Renamed(vs, id, name), {})
<1> DEFINE w == Renamed(vs, id, name)
<1>1. Len(vs) \in Nat /\ DOMAIN vs = 1..Len(vs)
  BY DEF IsViews
<1>2. /\ w = [n \in 1..Len(vs) |-> w[n]]
      /\ \A n \in 1..Len(vs) : w[n].id = vs[n].id /\ w[n].name \in {name, vs[n].name}
  BY <1>1 DEF Renamed
<1> HIDE DEF w
<1>3. Len(w) = Len(vs)
  BY <1>1, <1>2, ListedViews
<1> QED BY <1>1, <1>2, <1>3 DEF IsViews, Keeps, w

\* A view is deleted.
LEMMA WithoutViews ==
    ASSUME NEW vs, IsViews(vs), Valid(vs), NEW id
    PROVE  IsViews(Without(vs, id)) /\ Keeps(vs, Without(vs, id), {id})
<1>1. Len(vs) \in Nat /\ DOMAIN vs = 1..Len(vs)
  BY SMTT(40) DEF IsViews
<1>2. CASE ~\E n \in DOMAIN vs : vs[n].id = id
  BY <1>1, <1>2 DEF Without, Keeps
<1>3. CASE \E n \in DOMAIN vs : vs[n].id = id
  <2> DEFINE n == CHOOSE n \in DOMAIN vs : vs[n].id = id
             S == {vs[k] : k \in 1..Len(vs)}
             w == SubSeq(vs, 1, n - 1) \o SubSeq(vs, n + 1, Len(vs))
  <2>1. n \in 1..Len(vs) /\ vs[n].id = id
    BY <1>1, <1>3
  <2>2. Without(vs, id) = w
    BY <1>3 DEF Without
  <2> HIDE DEF n
  <2>3. vs \in [1..Len(vs) -> S] /\ \A v \in S : v.name \in Names
    BY DEF IsViews
  <2> HIDE DEF S
  <2>4. vs \in Seq(S)
    BY SMTT(40), <1>1, <2>3
  <2>5. /\ SubSeq(vs, 1, n - 1) \in Seq(S) /\ Len(SubSeq(vs, 1, n - 1)) = n - 1
        /\ \A k \in 1..(n - 1) : SubSeq(vs, 1, n - 1)[k] = vs[k]
    BY SMTT(40), <1>1, <2>1, <2>4
  <2>6. /\ SubSeq(vs, n + 1, Len(vs)) \in Seq(S) /\ Len(SubSeq(vs, n + 1, Len(vs))) = Len(vs) - n
        /\ \A k \in 1..(Len(vs) - n) : SubSeq(vs, n + 1, Len(vs))[k] = vs[n + k]
    <3> DEFINE b == SubSeq(vs, n + 1, Len(vs))
    <3>0. n + 1 \in Nat /\ Len(vs) \in Nat /\ n + 1 <= Len(vs) + 1 /\ n + 1 >= 1
      BY SMTT(40), <1>1, <2>1
    <3>1. b \in Seq(S) /\ Len(b) = Len(vs) - n
      <4>1. b \in Seq(S)
        BY SMTT(40), <2>4, <3>0
      <4>2. Len(b) = Len(vs) - n
        <5>1. CASE n = Len(vs)
          BY SMTT(40), <1>1, <2>4, <5>1
        <5>2. CASE n < Len(vs)
          <6>1. n + 1 \in 1..Len(vs)
            BY SMTT(40), <1>1, <2>1, <5>2
          <6>2. Len(b) = Len(vs) - (n + 1) + 1
            BY SMTT(40), <1>1, <2>4, <6>1
          <6> HIDE DEF b
          <6> QED BY SMTT(40), <1>1, <2>1, <6>2
        <5>3. n = Len(vs) \/ n < Len(vs)
          <6>1. n \in 1..Len(vs) /\ Len(vs) \in Nat
            BY <1>1, <2>1
          <6> QED BY SMTT(40), <6>1
        <5> QED BY <5>1, <5>2, <5>3
      <4> QED BY <4>1, <4>2
    <3>2. ASSUME NEW k \in 1..(Len(vs) - n) PROVE b[k] = vs[n + k]
      <4>1. k \in 1..(Len(vs) - (n + 1) + 1) /\ (n + 1) + k - 1 = n + k
        BY SMTT(40), <1>1, <2>1
      <4>2. b[k] = vs[(n + 1) + k - 1]
        BY SMTT(40), <1>1, <2>1, <2>4, <4>1
      <4> QED BY <4>1, <4>2
    <3> QED BY <3>1, <3>2
  <2>7. /\ w \in Seq(S) /\ Len(w) = Len(vs) - 1
        /\ \A k \in 1..(n - 1) : w[k] = vs[k]
        /\ \A k \in n..(Len(vs) - 1) : w[k] = vs[k + 1]
    <3> HIDE DEF w
    <3> DEFINE a == SubSeq(vs, 1, n - 1)
               b == SubSeq(vs, n + 1, Len(vs))
    <3>1. w = a \o b
      BY DEF w
    <3>2. /\ a \in Seq(S) /\ Len(a) = n - 1 /\ \A k \in 1..(n - 1) : a[k] = vs[k]
          /\ b \in Seq(S) /\ Len(b) = Len(vs) - n /\ \A k \in 1..(Len(vs) - n) : b[k] = vs[n + k]
      BY <2>5, <2>6
    <3> HIDE DEF a, b
    <3>3. w \in Seq(S) /\ Len(w) = Len(vs) - 1
      <4>0. a \in Seq(S) /\ b \in Seq(S)
        BY <3>2
      <4>1. w \in Seq(S) /\ Len(w) = Len(a) + Len(b)
        BY SMTT(40), <3>1, <4>0
      <4> QED BY SMTT(40), <1>1, <2>1, <3>2, <4>1
    <3>4. ASSUME NEW k \in 1..(n - 1) PROVE w[k] = vs[k]
      BY SMTT(40), <1>1, <2>1, <3>1, <3>2
    <3>5. ASSUME NEW k \in n..(Len(vs) - 1) PROVE w[k] = vs[k + 1]
      <4>1. w[k] = b[k - Len(a)]
        BY SMTT(40), <1>1, <2>1, <3>1, <3>2
      <4>2. k - Len(a) \in 1..(Len(vs) - n) /\ n + (k - Len(a)) = k + 1
        BY SMTT(40), <1>1, <2>1, <3>2
      <4> QED BY <3>2, <4>1, <4>2
    <3> QED BY <3>3, <3>4, <3>5
  <2> HIDE DEF w
  <2>8. IsViews(w)
    BY SMTT(40), <2>3, <2>7 DEF IsViews
  <2>9. Keeps(vs, w, {id})
    <3> SUFFICES ASSUME NEW k \in 1..Len(vs), vs[k].id # id
                 PROVE  \E m \in 1..Len(w) : w[m].id = vs[k].id
      BY DEF Keeps
    <3>1. CASE k < n
      BY SMTT(40), <1>1, <2>1, <2>7, <3>1
    <3>2. CASE k > n
      <4>1. k - 1 \in n..(Len(vs) - 1) /\ (k - 1) + 1 = k /\ k - 1 \in 1..Len(w)
        BY SMTT(40), <1>1, <2>1, <2>7, <3>2
      <4> QED BY <2>7, <4>1
    <3> QED BY SMTT(40), <1>1, <2>1, <3>1, <3>2
  <2> QED BY <2>2, <2>8, <2>9
<1> QED BY <1>2, <1>3

\* An update stores a list that can be loaded, or leaves the storage alone.
LEMMA Updates ==
    ASSUME SavedInv, NEW t, NEW vs, NEW sel, NEW ids, update(t, vs, sel),
           loadSavedFilters.ok => IsViews(vs) /\ Keeps(stored.views, vs, ids)
    PROVE  SavedInv' /\ (stored' = stored \/ Keeps(stored.views, stored'.views, ids))
<1>1. CASE stored' = stored
  BY <1>1 DEF SavedInv, loadSavedFilters
<1>2. CASE stored' # stored
  <2>1. /\ loadSavedFilters.ok /\ storeSavedFilters(vs).ok
        /\ stored' = [readable |-> TRUE, views |-> storeSavedFilters(vs).views]
    BY <1>2 DEF update, Fail, viewsToChange
  <2>2. /\ SavedInv'
        /\ Len(stored'.views) = Len(vs) /\ \A n \in 1..Len(vs) : stored'.views[n].id = vs[n].id
    BY <2>1, StoredIsUsable
  <2> QED BY SMTT(40), <2>1, <2>2 DEF Keeps
<1> QED BY <1>1, <1>2

\* A step keeps the storage usable, and loses at most the view that a tab has selected.
LEMMA SavedStep ==
    ASSUME SavedInv, NEW t, Save(t) \/ Rename(t) \/ Delete(t)
    PROVE  SavedInv' /\ (stored' = stored \/ Keeps(stored.views, stored'.views, {panels[t].selected}))
<1>0. loadSavedFilters.ok => /\ viewsToChange(t).views = stored.views
                             /\ IsViews(stored.views) /\ Valid(stored.views)
  BY LoadedViews DEF viewsToChange
<1>1. CASE Save(t)
  <2>1. PICK name \in Names :
          LET view == [id |-> saves + 1, name |-> name, search |-> panels[t].search]
          IN  Fail \/ update(t, Append(viewsToChange(t).views, view), panels[t].selected)
    BY <1>1 DEF Save
  <2> DEFINE view == [id |-> saves + 1, name |-> name, search |-> panels[t].search]
  <2>2. CASE Fail
    BY <2>2 DEF Fail, SavedInv, loadSavedFilters
  <2>3. CASE update(t, Append(viewsToChange(t).views, view), panels[t].selected)
    <3>1. view.name \in Names
      OBVIOUS
    <3> HIDE DEF view
    <3>2. loadSavedFilters.ok => /\ IsViews(Append(viewsToChange(t).views, view))
                                 /\ Keeps(stored.views, Append(viewsToChange(t).views, view), {})
      BY <1>0, <3>1, AppendedViews
    <3>3. SavedInv' /\ (stored' = stored \/ Keeps(stored.views, stored'.views, {}))
      BY <2>3, <3>2, Updates
    <3> QED BY <3>3 DEF Keeps
  <2> QED BY <2>1, <2>2, <2>3
<1>2. CASE Rename(t)
  <2>1. PICK name \in Names :
          update(t, Renamed(viewsToChange(t).views, panels[t].selected, name), panels[t].selected)
    BY <1>2 DEF Rename
  <2>2. loadSavedFilters.ok =>
          /\ IsViews(Renamed(viewsToChange(t).views, panels[t].selected, name))
          /\ Keeps(stored.views, Renamed(viewsToChange(t).views, panels[t].selected, name), {})
    BY <1>0, RenamedViews
  <2>3. SavedInv' /\ (stored' = stored \/ Keeps(stored.views, stored'.views, {}))
    BY <2>1, <2>2, Updates
  <2> QED BY SMTT(40), <2>3 DEF Keeps
<1>3. CASE Delete(t)
  <2>1. update(t, Without(viewsToChange(t).views, panels[t].selected), 0)
    BY <1>3 DEF Delete
  <2>2. loadSavedFilters.ok =>
          /\ IsViews(Without(viewsToChange(t).views, panels[t].selected))
          /\ Keeps(stored.views, Without(viewsToChange(t).views, panels[t].selected), {panels[t].selected})
    BY <1>0, WithoutViews
  <2> QED BY <2>1, <2>2, Updates
<1> QED BY <1>1, <1>2, <1>3

\* An empty list can be loaded.
LEMMA NothingStored ==
    IsViews(<<>>) /\ validateViews(<<>>) = Accepted(<<>>) /\ ~(Bytes(<<>>) > MAX_STORAGE_BYTES)
<1>1. IsViews(<<>>)
  BY SMTT(40) DEF IsViews
<1>2. validateViews(<<>>) = Accepted(<<>>)
  <2>1. Valid(<<>>)
    <3>1. Len(<<>>) <= MAX_FILTERS /\ DOMAIN <<>> = {}
      BY SMTT(40), Limits
    <3> QED BY <3>1 DEF Valid
  <2>2. Trimmed(<<>>) = <<>>
    BY SMTT(40) DEF Trimmed
  <2> QED BY <2>1, <2>2, ValidateViews
<1>3. Bytes(<<>>) = 0
  <2> DEFINE IsSum(f) == f = [n \in 0..0 |-> IF n = 0 THEN 0 ELSE f[n - 1] + <<>>[n].search.bytes]
  <2>1. IsSum([n \in 0..0 |-> 0])
    BY SMTT(40)
  <2>2. IsSum(CHOOSE f : IsSum(f))
    BY <2>1
  <2>3. (CHOOSE f : IsSum(f))[0] = 0
    BY SMTT(40), <2>2
  <2>4. Len(<<>>) = 0
    OBVIOUS
  <2> QED BY <2>3, <2>4 DEF Bytes
<1>4. ~(Bytes(<<>>) > MAX_STORAGE_BYTES)
  BY SMTT(40), <1>3, Limits
<1> QED BY <1>1, <1>2, <1>4

\* Initially nothing is stored, or nothing this version can read.
LEMMA SavedInitInv ==
    ASSUME SavedInit PROVE SavedInv
<1>1. stored.views = <<>>
  BY SMTT(40) DEF SavedInit
<1> QED BY <1>1, NothingStored DEF SavedInv, loadSavedFilters

\* Every step keeps the storage usable.
LEMMA SavedNextInv ==
    ASSUME SavedInv, [SavedNext]_savedVars
    PROVE  /\ SavedInv'
           /\ \/ stored' = stored \/ stored'.views = <<>>
              \/ \E t \in Tabs : Keeps(stored.views, stored'.views, {panels[t].selected})
<1>1. CASE stored' = stored
  BY <1>1 DEF SavedInv, loadSavedFilters
<1>2. ASSUME NEW t \in Tabs, Save(t) \/ Rename(t) \/ Delete(t)
      PROVE  /\ SavedInv'
             /\ \/ stored' = stored \/ stored'.views = <<>>
                \/ \E u \in Tabs : Keeps(stored.views, stored'.views, {panels[u].selected})
  BY <1>2, SavedStep
<1>3. ASSUME NEW t \in Tabs, Clear(t)
      PROVE  SavedInv' /\ stored'.views = <<>>
  <2>1. stored'.views = <<>> /\ stored'.readable = TRUE
    BY <1>3 DEF Clear
  <2> QED BY <2>1, NothingStored DEF SavedInv, loadSavedFilters
<1>4. ASSUME NEW t \in Tabs, Select(t) \/ Apply(t) \/ Browse(t)
      PROVE  stored' = stored
  BY <1>4 DEF Select, Apply, Browse
<1>5. CASE UNCHANGED savedVars
  BY <1>1, <1>5 DEF savedVars
<1> QED BY <1>1, <1>2, <1>3, <1>4, <1>5 DEF SavedNext

\* Whatever two or more tabs do, what is stored can be loaded.
THEOREM SavedInvariance == SavedSpec => []SavedInv
<1> QED BY SavedInitInv, SavedNextInv, PTL DEF SavedSpec

\* For every set of names and searches and every limit: what is in the storage can be
\* loaded again as it is, and the API accepts every search a saved filter leads to.
THEOREM SavedUsable == SavedSpec => []SavedFiltersStayUsable
<1>1. SavedInv => SavedFiltersStayUsable
  <2> SUFFICES ASSUME SavedInv, stored.readable
               PROVE  /\ loadSavedFilters = Accepted(stored.views)
                      /\ \A n \in DOMAIN stored.views : validateFilters(stored.views[n].search.filters)
    BY DEF SavedFiltersStayUsable
  <2>1. loadSavedFilters = Accepted(stored.views)
    BY DEF SavedInv
  <2>2. Valid(stored.views)
    BY <2>1, LoadedViews DEF Accepted
  <2> QED BY <2>1, <2>2, ApiAccepts DEF Valid
<1> QED BY <1>1, SavedInvariance, PTL

\* However the steps of any number of tabs interleave, a saved filter is lost only when
\* a tab clears the list or deletes the very filter it has selected.
THEOREM SavedKept == SavedSpec => SavedFiltersSurvive
<1> DEFINE ids(vs) == {vs[n].id : n \in DOMAIN vs}
           Kept == \/ stored'.views = <<>>
                   \/ \E t \in Tabs : ids(stored.views) \ ids(stored'.views) \subseteq {panels[t].selected}
<1>1. SavedInv /\ [SavedNext]_savedVars => [Kept]_stored
  <2> SUFFICES ASSUME SavedInv, [SavedNext]_savedVars, stored' # stored, stored'.views # <<>> PROVE Kept
    OBVIOUS
  <2>1. PICK t \in Tabs : Keeps(stored.views, stored'.views, {panels[t].selected})
    BY SavedNextInv
  <2>2. SavedInv'
    BY SavedNextInv
  <2>3. DOMAIN stored.views = 1..Len(stored.views) /\ DOMAIN stored'.views = 1..Len(stored'.views)
    BY <2>2 DEF SavedInv, IsViews
  <2>4. ids(stored.views) \ ids(stored'.views) \subseteq {panels[t].selected}
    BY <2>1, <2>3 DEF Keeps
  <2> QED BY <2>4
<1> QED BY <1>1, SavedInvariance, PTL DEF SavedSpec, SavedFiltersSurvive
================================================================================
