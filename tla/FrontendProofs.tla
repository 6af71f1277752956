----------------------------- MODULE FrontendProofs -----------------------------
(***************************************************************************)
(* Proofs about the two browser applications, which keep what they show in *)
(* stores of their own: the editor of the modeller, for every length of    *)
(* the undo history, every limit of drafts and every number of edits,      *)
(* drafts and loads, and the lists of the monitor, for every history of    *)
(* the database, every page size and every set of filters.                 *)
(***************************************************************************)
EXTENDS ModellerEditor, MonitorLists, TLAPS

\* What the provers may use on a leaf that names no prover itself.
USE ZenonT(40), SMTT(40)

\* Sequences with the same elements in the same places are the same.
LEMMA SeqEqual ==
    ASSUME NEW S, NEW s \in Seq(S), NEW t \in Seq(S), Len(s) = Len(t), \A n \in 1..Len(s) : s[n] = t[n]
    PROVE  s = t
  BY SMTT(40)

--------------------------------------------------------------------------------
(* The lists: the inductive invariant. *)

\* A cached query belongs to its key: the newest fetch asked for it, the data answer
\* it, and the API did not refuse it.
Keyed(h, k, e) ==
    /\ {"q", "refused", "asked", "answers"} \subseteq DOMAIN e
    /\ {"data", "flight"} \subseteq DOMAIN e.q
    /\ e.asked = k
    /\ e.q.data # 0 => e.answers = k /\ fetchList(Runs[h][e.q.data], k).status = 200

CacheIsKeyed == \A k \in DOMAIN cache : Keyed(run, k, cache[k])

\* A location is one that the screens produce.
IsLocation(at) ==
    \/ at = InstancesAt(at.filters, at.cursor)
    \/ at = IncidentsAt(at.filters, at.cursor)
    \/ at = InstanceAt
    \/ at = IncidentAt(at.id)
    \/ at = OverviewAt(at.workflow, at.definition, at.age, at.cursor, at.stepCursor)

\* The cursors of a location were issued for its filters.
Fits(at) == \A r \in Requests(at) : decodeCursor(r.cursor, r.filters)

IsSequence(s) == s \in Seq({s[n] : n \in DOMAIN s})

EntriesFit ==
    /\ IsSequence(entries)
    /\ position \in DOMAIN entries
    /\ \A n \in DOMAIN entries : IsLocation(entries[n]) /\ Fits(entries[n])

\* The queries of the screen exist.
ScreenIsCached == Keys(location) \subseteq DOMAIN cache

ListsInv == CacheIsKeyed /\ EntriesFit /\ ScreenIsCached

--------------------------------------------------------------------------------
(* Queries and the cache. *)

\* Starting, joining, breaking and resuming a query leave its data alone.
LEMMA DataStay ==
    ASSUME NEW q, {"data", "flight"} \subseteq DOMAIN q, NEW b
    PROVE  /\ DOMAIN Fetch(q, b) = DOMAIN q /\ Fetch(q, b).data = q.data
           /\ DOMAIN Start(q) = DOMAIN q /\ Start(q).data = q.data
           /\ DOMAIN Broken(q) = DOMAIN q /\ Broken(q).data = q.data
           /\ DOMAIN Resumed(q) = DOMAIN q /\ Resumed(q).data = q.data
           /\ DOMAIN Answered(AtNow(q)) = DOMAIN q /\ Answered(AtNow(q)).data = now
<1>1. DOMAIN Start(q) = DOMAIN q /\ Start(q).data = q.data
  BY DEF Start
<1>2. DOMAIN Fetch(q, b) = DOMAIN q /\ Fetch(q, b).data = q.data
  BY <1>1 DEF Fetch
<1>3. DOMAIN Broken(q) = DOMAIN q /\ Broken(q).data = q.data
  BY DEF Broken
<1>4. DOMAIN Resumed(q) = DOMAIN q /\ Resumed(q).data = q.data
  BY DEF Resumed
<1>5. DOMAIN Answered(AtNow(q)) = DOMAIN q /\ Answered(AtNow(q)).data = now
  BY DEF Answered, AtNow
<1> QED BY <1>1, <1>2, <1>3, <1>4, <1>5

\* A query is fetched with the request that is its key.
LEMMA RefetchedIsKeyed ==
    ASSUME NEW h, NEW k, NEW e, Keyed(h, k, e), NEW b
    PROVE  Keyed(h, k, Refetched(e, k, b))
<1> DEFINE f == Fetch(e.q, b)
           g == [f EXCEPT !.joined = FALSE]
           new == Refetched(e, k, b)
<1>1. DOMAIN f = DOMAIN e.q /\ f.data = e.q.data
  BY SMTT(40), DataStay DEF Keyed
<1>2. {"data", "flight"} \subseteq DOMAIN g /\ g.data = e.q.data
  BY <1>1 DEF Keyed
<1>3. new = [e EXCEPT !.q = g, !.refused = @ /\ f.failed, !.asked = IF f.joined THEN @ ELSE k]
  BY DEF Refetched
<1> HIDE DEF f, g, new
<1>4. DOMAIN new = DOMAIN e /\ new.q = g /\ new.answers = e.answers
  BY <1>3 DEF Keyed
<1>5. new.asked = IF f.joined THEN e.asked ELSE k
  BY <1>3 DEF Keyed
<1> QED
  BY <1>2, <1>4, <1>5 DEF Keyed, new

\* A query that is not in the cache has no data.
LEMMA NewIsKeyed ==
    ASSUME NEW h, NEW k
    PROVE  Keyed(h, k, NoEntry(k))
  BY DEF Keyed, NoEntry, NoQuery

\* Fetching the queries in active keeps the cache keyed and adds their keys.
LEMMA CacheWithIsKeyed ==
    ASSUME NEW active, NEW b, CacheIsKeyed
    PROVE  /\ DOMAIN CacheWith(active, b) = DOMAIN cache \cup active
           /\ \A k \in DOMAIN CacheWith(active, b) : Keyed(run, k, CacheWith(active, b)[k])
<1> DEFINE new == CacheWith(active, b)
<1>1. DOMAIN new = DOMAIN cache \cup active
  BY DEF CacheWith, queryKey
<1>2. ASSUME NEW k \in DOMAIN new
      PROVE  Keyed(run, k, new[k])
  <2>1. CASE k \in active
    <3>1. (CHOOSE r \in active : queryKey(r) = k) = k
      BY <2>1 DEF queryKey
    <3>2. new[k] = Refetched(IF k \in DOMAIN cache THEN cache[k] ELSE NoEntry(k), k, b)
      BY <1>1, <2>1, <3>1 DEF CacheWith, queryKey
    <3>3. Keyed(run, k, IF k \in DOMAIN cache THEN cache[k] ELSE NoEntry(k))
      BY NewIsKeyed DEF CacheIsKeyed
    <3> QED BY <3>2, <3>3, RefetchedIsKeyed
  <2>2. CASE k \notin active
    <3>1. new[k] = cache[k] /\ k \in DOMAIN cache
      BY <1>1, <2>2 DEF CacheWith, queryKey
    <3> QED BY <3>1 DEF CacheIsKeyed
  <2> QED BY <2>1, <2>2
<1> QED BY <1>1, <1>2

--------------------------------------------------------------------------------
(* Locations and answers. *)

\* Requests are keyed by all that they ask for.
LEMMA KeysAreRequests ==
    ASSUME NEW at
    PROVE  Keys(at) = Requests(at)
  BY DEF Keys, queryKey

\* A sequence is one of its own elements.
LEMMA SeqOfItsElements ==
    ASSUME NEW S, NEW s \in Seq(S)
    PROVE  IsSequence(s)
  BY SMTT(40) DEF IsSequence

\* The history after a push: what lies ahead is dropped, the location is the last.
LEMMA PushedEntries ==
    ASSUME EntriesFit, NEW at, NEW new, new = Append(SubSeq(entries, 1, position), at)
    PROVE  /\ IsSequence(new)
           /\ position + 1 \in DOMAIN new /\ new[position + 1] = at
           /\ \A n \in DOMAIN new : new[n] = at \/ (n \in DOMAIN entries /\ new[n] = entries[n])
<1> DEFINE S == {entries[n] : n \in DOMAIN entries}
           before == SubSeq(entries, 1, position)
<1>1. entries \in Seq(S) /\ position \in 1..Len(entries)
  BY SMTT(40) DEF EntriesFit, IsSequence
<1> HIDE DEF S
<1>2. /\ before \in Seq(S) /\ Len(before) = position
      /\ \A n \in 1..position : before[n] = entries[n]
  BY SMTT(40), <1>1
<1> HIDE DEF before
<1>3. before \in Seq(S \cup {at})
  BY SMTT(40), <1>2
<1>4. new \in Seq(S \cup {at}) /\ Len(new) = position + 1
  BY SMTT(40), <1>1, <1>2, <1>3 DEF before
<1>5. new[position + 1] = at /\ \A n \in 1..position : new[n] = entries[n]
  BY SMTT(40), <1>1, <1>2, <1>3 DEF before
<1>6. IsSequence(new)
  BY <1>4, SeqOfItsElements
<1>7. DOMAIN new = 1..(position + 1) /\ DOMAIN entries = 1..Len(entries)
  BY SMTT(40), <1>1, <1>4
<1> QED
  BY SMTT(40), <1>1, <1>5, <1>6, <1>7

\* What a screen shows of a query is an answer to the request of its location.
LEMMA ScreenAnswers ==
    ASSUME ListsInv, NEW api, Loaded(api)
    PROVE  \E r \in Requests(location) : \E db :
               r.api = api /\ Response(api) = fetchList(db, r) /\ Response(api).status = 200
<1>1. RequestOf(api) \in Requests(location) /\ RequestOf(api).api = api
  BY DEF Loaded, RequestOf
<1>2. RequestOf(api) \in DOMAIN cache /\ EntryOf(api) = cache[RequestOf(api)]
  BY <1>1, KeysAreRequests DEF ListsInv, ScreenIsCached, EntryOf, queryKey
<1>3. EntryOf(api).q.data # 0
  BY DEF Loaded
<1>4. /\ EntryOf(api).answers = RequestOf(api)
      /\ fetchList(Runs[run][EntryOf(api).q.data], RequestOf(api)).status = 200
  BY SMTT(40), <1>2, <1>3 DEF ListsInv, CacheIsKeyed, Keyed
<1>5. Response(api) = fetchList(Runs[run][EntryOf(api).q.data], RequestOf(api))
  BY <1>4 DEF Response
<1> QED BY SMTT(40), <1>1, <1>4, <1>5

\* The cursor to the next page is issued for the filters of the request.
LEMMA ListCursorFits ==
    ASSUME NEW db, NEW r, r.api \in {"instances", "incidents"}, fetchList(db, r).status = 200
    PROVE  decodeCursor(fetchList(db, r).nextCursor, r.filters)
<1>1. CASE r.api = "instances"
  BY SMTT(40), <1>1 DEF fetchList, listInstances, BadRequest, Page, encodeCursor, filterFingerprint, decodeCursor
<1>2. CASE r.api = "incidents"
  BY SMTT(40), <1>2 DEF fetchList, listIncidents, BadRequest, Page, encodeCursor, filterFingerprint, decodeCursor
<1> QED BY <1>1, <1>2

\* The cursor of a page of the overview carries the fingerprint of its scope.
LEMMA AscendingCursorFits ==
    ASSUME NEW rows, NEW limit, NEW scope
    PROVE  decodeCursor(AscendingPage(rows, limit, scope).nextCursor, scope)
  BY DEF AscendingPage, filterFingerprint, decodeCursor

\* So the cursor of a page of definitions fits the workflow searched for,
LEMMA DefinitionsCursorFits ==
    ASSUME NEW db, NEW r, r.api = "definitions", r.filters = [workflow |-> r.filters.workflow],
           fetchList(db, r).status = 200
    PROVE  decodeCursor(fetchList(db, r).nextCursor, r.filters)
  BY SMTT(40), AscendingCursorFits DEF fetchList, overviewDefinitions, BadRequest

\* and the cursor of a page of steps fits the version and the age shown.
LEMMA StepsCursorFits ==
    ASSUME NEW db, NEW r, NEW at, r.api = "steps", r.filters = StepScope(at),
           fetchList(db, r).status = 200
    PROVE  decodeCursor(fetchList(db, r).nextCursor, r.filters)
<1> DEFINE f == r.filters
           page == AscendingPage(StepRows(db, f.definitionId, f.definitionVersion, db.clock - f.age, r.cursor),
                                 ListLimit, f)
<1>1. StepsScope(f.definitionId, f.definitionVersion, f.age) = f
  BY DEF StepScope, StepsScope
<1>2. fetchList(db, r) = overviewSteps(db, f.definitionId, f.definitionVersion, f.age, r.cursor, ListLimit)
  BY DEF fetchList
<1> HIDE DEF f
<1>3. fetchList(db, r) \in {BadRequest, StepPage(page, db.clock - f.age)}
  BY <1>1, <1>2 DEF overviewSteps
<1> HIDE DEF page
<1>4. fetchList(db, r).nextCursor = page.nextCursor
  BY SMTT(40), <1>3 DEF BadRequest, StepPage
<1> QED
  BY SMTT(40), <1>4, AscendingCursorFits DEF page, f

--------------------------------------------------------------------------------
(* Locations whose cursors fit. *)

Proper(at) == IsLocation(at) /\ Fits(at)

\* A list whose cursor fits its filters is a proper location.
LEMMA ListIsProper ==
    ASSUME NEW f, NEW c, decodeCursor(c, f)
    PROVE  Proper(InstancesAt(f, c)) /\ Proper(IncidentsAt(f, c))
<1>1. Requests(InstancesAt(f, c)) = {[api |-> "instances", filters |-> f, cursor |-> c]}
  BY DEF Requests, InstancesAt
<1>2. Requests(IncidentsAt(f, c)) = {[api |-> "incidents", filters |-> f, cursor |-> c]}
  BY DEF Requests, IncidentsAt
<1>3. Fits(InstancesAt(f, c)) /\ Fits(IncidentsAt(f, c))
  BY SMTT(40), <1>1, <1>2 DEF Fits
<1>4. IsLocation(InstancesAt(f, c)) /\ IsLocation(IncidentsAt(f, c))
  BY DEF IsLocation, InstancesAt, IncidentsAt
<1> QED BY <1>3, <1>4 DEF Proper

\* So is its first page.
LEMMA FirstPageIsProper ==
    ASSUME NEW f
    PROVE  Proper(InstancesAt(f, <<>>)) /\ Proper(IncidentsAt(f, <<>>))
  BY ListIsProper DEF decodeCursor

\* So are the screens of an instance and of an incident.
LEMMA DetailIsProper ==
    ASSUME NEW id
    PROVE  Proper(InstanceAt) /\ Proper(IncidentAt(id))
<1>1. Requests(InstanceAt) = {}
  BY DEF Requests, InstanceAt
<1>2. Requests(IncidentAt(id)) = {[api |-> "incident", filters |-> [id |-> id], cursor |-> <<>>]}
  BY DEF Requests, IncidentAt
<1>3. Fits(InstanceAt) /\ Fits(IncidentAt(id))
  BY SMTT(40), <1>1, <1>2 DEF Fits, decodeCursor
<1>4. IsLocation(InstanceAt) /\ IsLocation(IncidentAt(id))
  BY DEF IsLocation, InstanceAt, IncidentAt
<1> QED BY <1>3, <1>4 DEF Proper

\* The overview asks for its definitions, and for the steps of the one it inspects.
LEMMA OverviewRequests ==
    ASSUME NEW w, NEW d, NEW a, NEW c, NEW s
    PROVE  Requests(OverviewAt(w, d, a, c, s)) =
               {[api |-> "definitions", filters |-> [workflow |-> w], cursor |-> c]} \cup
               IF d = <<>> THEN {}
               ELSE {[api |-> "steps", filters |-> StepsScope(d[1], d[2], a), cursor |-> s]}
  BY DEF Requests, OverviewAt, StepScope

\* It is a proper location when both its cursors fit.
LEMMA OverviewIsProper ==
    ASSUME NEW w, NEW d, NEW a, NEW c, NEW s
    PROVE  Proper(OverviewAt(w, d, a, c, s)) <=>
               /\ decodeCursor(c, [workflow |-> w])
               /\ d # <<>> => decodeCursor(s, StepsScope(d[1], d[2], a))
<1> DEFINE at == OverviewAt(w, d, a, c, s)
           r1 == [api |-> "definitions", filters |-> [workflow |-> w], cursor |-> c]
           r2 == [api |-> "steps", filters |-> StepsScope(d[1], d[2], a), cursor |-> s]
<1>1. IsLocation(at)
  BY DEF IsLocation, OverviewAt
<1>2. Requests(at) = {r1} \cup IF d = <<>> THEN {} ELSE {r2}
  BY SMTT(40), OverviewRequests
<1>3. /\ r1.cursor = c /\ r1.filters = [workflow |-> w]
      /\ r2.cursor = s /\ r2.filters = StepsScope(d[1], d[2], a)
  OBVIOUS
<1> HIDE DEF at, r1, r2
<1>4. Fits(at) <=> /\ decodeCursor(r1.cursor, r1.filters)
                   /\ d # <<>> => decodeCursor(r2.cursor, r2.filters)
  BY <1>2 DEF Fits
<1> QED BY <1>1, <1>3, <1>4 DEF Proper, at

\* The screen is at a proper location.
LEMMA LocationIsProper ==
    ASSUME ListsInv
    PROVE  Proper(location)
  BY DEF ListsInv, EntriesFit, location, Proper

\* On the overview, the location is one of its locations.
LEMMA OverviewShown ==
    ASSUME ListsInv, OnOverview
    PROVE  location = OverviewAt(location.workflow, location.definition, location.age,
                                 location.cursor, location.stepCursor)
  BY SMTT(40), LocationIsProper DEF Proper, IsLocation, OnOverview, InstancesAt, IncidentsAt, InstanceAt, IncidentAt

--------------------------------------------------------------------------------
(* Navigation keeps the invariant. *)

\* The screen that is arrived at has asked for what it shows.
LEMMA ArriveKeepsCache ==
    ASSUME ListsInv, NEW at, Arrive(at), run' = run
    PROVE  CacheIsKeyed' /\ Requests(at) \subseteq DOMAIN cache'
<1> DEFINE old == IF at.path = location.path THEN Keys(location) ELSE {}
           active == {r \in Requests(at) : queryKey(r) \notin old}
<1>1. cache' = CacheWith(active, FALSE)
  BY DEF Arrive
<1>2. old \subseteq DOMAIN cache
  BY DEF ListsInv, ScreenIsCached
<1>3. Requests(at) \subseteq old \cup active
  BY DEF queryKey
<1> HIDE DEF old, active
<1>4. /\ DOMAIN cache' = DOMAIN cache \cup active
      /\ \A k \in DOMAIN cache' : Keyed(run, k, cache'[k])
  BY <1>1, CacheWithIsKeyed DEF ListsInv
<1>5. CacheIsKeyed'
  BY <1>4 DEF CacheIsKeyed
<1> QED BY <1>2, <1>3, <1>4, <1>5

\* A link drops the entries ahead of it and arrives at its location.
LEMMA PushKeepsInv ==
    ASSUME ListsInv, NEW at, Proper(at), push(at)
    PROVE  ListsInv'
<1>1. run' = run /\ entries' = Append(SubSeq(entries, 1, position), at) /\ position' = position + 1 /\ Arrive(at)
  BY DEF push, Move
<1>2. CacheIsKeyed' /\ Requests(at) \subseteq DOMAIN cache'
  BY <1>1, ArriveKeepsCache
<1>3. /\ IsSequence(entries')
      /\ position' \in DOMAIN entries' /\ entries'[position'] = at
      /\ \A n \in DOMAIN entries' : entries'[n] = at \/ (n \in DOMAIN entries /\ entries'[n] = entries[n])
  <2> DEFINE new == entries'
  <2>1. EntriesFit /\ new = Append(SubSeq(entries, 1, position), at)
    BY <1>1 DEF ListsInv
  <2> HIDE DEF new
  <2>2. /\ IsSequence(new)
        /\ position + 1 \in DOMAIN new /\ new[position + 1] = at
        /\ \A n \in DOMAIN new : new[n] = at \/ (n \in DOMAIN entries /\ new[n] = entries[n])
    BY <2>1, PushedEntries
  <2> QED BY <1>1, <2>2 DEF new
<1>4. EntriesFit'
  BY <1>3 DEF EntriesFit, Proper, ListsInv, IsLocation, Fits
<1>5. ScreenIsCached'
  BY <1>2, <1>3, KeysAreRequests DEF ScreenIsCached, location
<1> QED BY <1>2, <1>4, <1>5 DEF ListsInv

\* Back and forward arrive at a location of the history.
LEMMA WalkKeepsInv ==
    ASSUME ListsInv, run' = run, UNCHANGED entries, position' \in DOMAIN entries, Arrive(entries[position'])
    PROVE  ListsInv'
<1>1. CacheIsKeyed' /\ Requests(entries[position']) \subseteq DOMAIN cache'
  BY ArriveKeepsCache
<1>2. EntriesFit'
  BY DEF EntriesFit, ListsInv
<1>3. ScreenIsCached'
  BY <1>1, KeysAreRequests DEF ScreenIsCached, location
<1> QED BY <1>1, <1>2, <1>3 DEF ListsInv

--------------------------------------------------------------------------------
(* The controls of the screens. *)

\* The buttons of the browser.
LEMMA BackAndForth ==
    ASSUME ListsInv, back \/ BrowserForward
    PROVE  ListsInv'
<1>1. entries \in Seq({entries[n] : n \in DOMAIN entries}) /\ position \in DOMAIN entries
  BY DEF ListsInv, EntriesFit, IsSequence
<1>2. position' \in DOMAIN entries
  BY SMTT(40), <1>1 DEF back, BrowserForward
<1>3. run' = run /\ UNCHANGED entries /\ Arrive(entries[position'])
  BY DEF back, BrowserForward, Move
<1> QED BY <1>2, <1>3, WalkKeepsInv

\* The links of the sidebar.
LEMMA SidebarKeepsInv ==
    ASSUME ListsInv, Sidebar
    PROVE  ListsInv'
<1>1. PICK at \in {InstancesAt(NoFilters, <<>>), IncidentsAt(NoIncidentFilters, <<>>), NoOverview} : push(at)
  BY DEF Sidebar
<1>2. Proper(NoOverview)
  BY OverviewIsProper DEF NoOverview, decodeCursor
<1>3. Proper(at)
  BY <1>2, FirstPageIsProper
<1> QED BY <1>1, <1>3, PushKeepsInv

\* The cursor of the next page of a list fits the filters of the location.
LEMMA ListAnswerFits ==
    ASSUME ListsInv, OnList, Loaded(ListApi)
    PROVE  decodeCursor(Response(ListApi).nextCursor, location.filters)
<1>1. location.path \in {"/", "/incidents"}
  BY DEF OnList
<1>2. \A r \in Requests(location) : r.api = ListApi /\ r.filters = location.filters
  BY SMTT(40), <1>1 DEF Requests, ListApi
<1>3. PICK r \in Requests(location) : \E db :
          r.api = ListApi /\ Response(ListApi) = fetchList(db, r) /\ Response(ListApi).status = 200
  BY SMTT(40), ScreenAnswers
<1>4. r.api \in {"instances", "incidents"}
  BY <1>3 DEF ListApi
<1> QED BY SMTT(40), <1>2, <1>3, <1>4, ListCursorFits

\* The controls of the lists of instances and of incidents.
LEMMA ListControls ==
    ASSUME ListsInv, applyFilters \/ Newest \/ Next_ \/ OpenRow \/ LookupInstance \/ OpenIncidentInstance
    PROVE  ListsInv'
<1>1. CASE applyFilters
  <2>1. PICK f : push(ListAt(f, <<>>))
    BY <1>1 DEF applyFilters
  <2>2. Proper(ListAt(f, <<>>))
    BY FirstPageIsProper DEF ListAt
  <2> QED BY <2>1, <2>2, PushKeepsInv
<1>2. CASE Newest
  <2>1. push(ListAt(location.filters, <<>>))
    BY <1>2 DEF Newest, moveToCursor
  <2>2. Proper(ListAt(location.filters, <<>>))
    BY FirstPageIsProper DEF ListAt
  <2> QED BY <2>1, <2>2, PushKeepsInv
<1>3. CASE Next_
  <2>1. push(ListAt(location.filters, Response(ListApi).nextCursor))
    BY <1>3 DEF Next_, moveToCursor
  <2>2. decodeCursor(Response(ListApi).nextCursor, location.filters)
    BY <1>3, ListAnswerFits DEF Next_
  <2>3. Proper(ListAt(location.filters, Response(ListApi).nextCursor))
    BY <2>2, ListIsProper DEF ListAt
  <2> QED BY <2>1, <2>3, PushKeepsInv
<1>4. CASE OpenRow
  <2>1. PICK row : push(IF location.path = "/" THEN InstanceAt ELSE IncidentAt(row.id))
    BY <1>4 DEF OpenRow
  <2>2. Proper(IF location.path = "/" THEN InstanceAt ELSE IncidentAt(row.id))
    BY DetailIsProper
  <2> QED BY <2>1, <2>2, PushKeepsInv
<1>5. CASE LookupInstance \/ OpenIncidentInstance
  <2>1. push(InstanceAt)
    BY <1>5 DEF LookupInstance, OpenIncidentInstance
  <2> QED BY <2>1, DetailIsProper, PushKeepsInv
<1> QED BY <1>1, <1>2, <1>3, <1>4, <1>5

\* The cursors of the next pages of the overview fit its location.
LEMMA OverviewAnswersFit ==
    ASSUME ListsInv, OnOverview
    PROVE  /\ Loaded("definitions") =>
                  decodeCursor(Response("definitions").nextCursor, [workflow |-> location.workflow])
           /\ Loaded("steps") =>
                  decodeCursor(Response("steps").nextCursor,
                               StepsScope(location.definition[1], location.definition[2], location.age))
<1>1. /\ \A r \in Requests(location) : r.api = "definitions" => r.filters = [workflow |-> location.workflow]
      /\ \A r \in Requests(location) : r.api = "steps" => r.filters = StepScope(location)
  BY SMTT(40) DEF Requests, OnOverview
<1>2. ASSUME Loaded("definitions")
      PROVE  decodeCursor(Response("definitions").nextCursor, [workflow |-> location.workflow])
  <2>1. PICK r \in Requests(location) : \E db :
            r.api = "definitions" /\ Response("definitions") = fetchList(db, r) /\ Response("definitions").status = 200
    BY SMTT(40), <1>2, ScreenAnswers
  <2>2. r.filters = [workflow |-> location.workflow] /\ r.filters = [workflow |-> r.filters.workflow]
    BY SMTT(40), <1>1, <2>1
  <2> QED BY SMTT(40), <2>1, <2>2, DefinitionsCursorFits
<1>3. ASSUME Loaded("steps")
      PROVE  decodeCursor(Response("steps").nextCursor,
                          StepsScope(location.definition[1], location.definition[2], location.age))
  <2>1. PICK r \in Requests(location) : \E db :
            r.api = "steps" /\ Response("steps") = fetchList(db, r) /\ Response("steps").status = 200
    BY SMTT(40), <1>3, ScreenAnswers
  <2>2. r.filters = StepScope(location)
    BY <1>1, <2>1
  <2>3. decodeCursor(Response("steps").nextCursor, StepScope(location))
    BY SMTT(40), <2>1, <2>2, StepsCursorFits
  <2> QED BY <2>3 DEF StepScope
<1> QED BY <1>2, <1>3

\* The controls of the overview.
LEMMA OverviewControls ==
    ASSUME ListsInv,
           \/ searchWorkflows \/ InspectDefinition \/ ApplyAge \/ WorkflowPages \/ StepPages \/ FollowCount
    PROVE  ListsInv'
<1> DEFINE w == location.workflow
           d == location.definition
           a == location.age
           c == location.cursor
           s == location.stepCursor
<1>0. /\ OnOverview
      /\ location = OverviewAt(w, d, a, c, s)
  BY OverviewShown DEF searchWorkflows, InspectDefinition, ApplyAge, WorkflowPages, StepPages, FollowCount
<1>1. /\ decodeCursor(c, [workflow |-> w])
      /\ d # <<>> => decodeCursor(s, StepsScope(d[1], d[2], a))
  <2>1. Proper(OverviewAt(w, d, a, c, s))
    BY <1>0, LocationIsProper
  <2> QED BY <2>1, OverviewIsProper
<1>2. CASE searchWorkflows
  <2>1. PICK word : push(OverviewAt(word, <<>>, a, <<>>, <<>>))
    BY <1>2 DEF searchWorkflows
  <2>2. Proper(OverviewAt(word, <<>>, a, <<>>, <<>>))
    BY OverviewIsProper DEF decodeCursor
  <2> QED BY <2>1, <2>2, PushKeepsInv
<1>3. CASE InspectDefinition
  <2>1. PICK row : push(OverviewAt(w, row.key, a, c, <<>>))
    BY <1>3 DEF InspectDefinition
  <2>2. Proper(OverviewAt(w, row.key, a, c, <<>>))
    BY <1>1, OverviewIsProper DEF decodeCursor
  <2> QED BY <2>1, <2>2, PushKeepsInv
<1>4. CASE ApplyAge
  <2>1. PICK age : push(OverviewAt(w, d, age, c, <<>>))
    BY <1>4 DEF ApplyAge
  <2>2. Proper(OverviewAt(w, d, age, c, <<>>))
    BY <1>1, OverviewIsProper DEF decodeCursor
  <2> QED BY <2>1, <2>2, PushKeepsInv
<1>5. CASE WorkflowPages
  <2>1. ASSUME NEW next, moveToWorkflows(next), decodeCursor(next, [workflow |-> w])
        PROVE  ListsInv'
    <3>1. Proper(OverviewAt(w, d, a, next, s))
      BY <1>1, <2>1, OverviewIsProper
    <3> QED BY <2>1, <3>1, PushKeepsInv DEF moveToWorkflows
  <2>2. CASE moveToWorkflows(<<>>)
    BY <2>1, <2>2 DEF decodeCursor
  <2>3. CASE Loaded("definitions") /\ moveToWorkflows(Response("definitions").nextCursor)
    <3>1. decodeCursor(Response("definitions").nextCursor, [workflow |-> w])
      BY <1>0, <2>3, OverviewAnswersFit
    <3> QED BY <2>1, <2>3, <3>1
  <2> QED BY <1>5, <2>2, <2>3 DEF WorkflowPages
<1>6. CASE StepPages
  <2>1. ASSUME NEW next, moveToSteps(next), decodeCursor(next, StepsScope(d[1], d[2], a))
        PROVE  ListsInv'
    <3>1. Proper(OverviewAt(w, d, a, c, next))
      BY <1>1, <2>1, OverviewIsProper
    <3> QED BY <2>1, <3>1, PushKeepsInv DEF moveToSteps
  <2>2. CASE moveToSteps(<<>>)
    BY <2>1, <2>2 DEF decodeCursor
  <2>3. CASE Loaded("steps") /\ moveToSteps(Response("steps").nextCursor)
    <3>1. decodeCursor(Response("steps").nextCursor, StepsScope(d[1], d[2], a))
      BY <1>0, <2>3, OverviewAnswersFit
    <3> QED BY <2>1, <2>3, <3>1
  <2> QED BY <1>6, <2>2, <2>3 DEF StepPages
<1>7. CASE FollowCount
  <2>1. ASSUME NEW f, push(InstancesAt(f, <<>>))
        PROVE  ListsInv'
    BY <2>1, FirstPageIsProper, PushKeepsInv
  <2> QED BY <1>7, <2>1 DEF FollowCount
<1> QED BY <1>2, <1>3, <1>4, <1>5, <1>6, <1>7

--------------------------------------------------------------------------------
(* Polling and the network. *)

\* A step that stays at the location and keeps every query of the cache keyed.
LEMMA StayKeepsInv ==
    ASSUME ListsInv, UNCHANGED <<run, entries, position>>, DOMAIN cache \subseteq DOMAIN cache',
           \A k \in DOMAIN cache' : Keyed(run, k, cache'[k])
    PROVE  ListsInv'
<1>1. CacheIsKeyed'
  BY DEF CacheIsKeyed
<1>2. EntriesFit'
  BY DEF ListsInv, EntriesFit
<1>3. ScreenIsCached'
  BY DEF ListsInv, ScreenIsCached, location
<1> QED BY <1>1, <1>2, <1>3 DEF ListsInv

\* A poll or a refresh asks again for what is on the screen.
LEMMA RefetchKeepsInv ==
    ASSUME ListsInv, PollList \/ RefreshList
    PROVE  ListsInv'
<1>1. PICK active, b : cache' = CacheWith(active, b)
  BY DEF PollList, RefreshList
<1>2. UNCHANGED <<run, entries, position>>
  BY DEF PollList, RefreshList, browser, Move
<1> QED BY <1>1, <1>2, CacheWithIsKeyed, StayKeepsInv DEF ListsInv

\* An answer settles the query that it was asked for.
LEMMA AnswerKeepsInv ==
    ASSUME ListsInv, ListAnswered
    PROVE  ListsInv'
<1>1. PICK k \in DOMAIN cache :
          LET entry  == cache[k]
              status == fetchList(Runs[run][now], entry.asked).status
          IN  cache' = [cache EXCEPT ![k] =
                  IF status = 200
                  THEN [entry EXCEPT !.q = Answered(AtNow(@)), !.refused = FALSE, !.answers = entry.asked]
                  ELSE [entry EXCEPT !.q = Broken(@), !.refused = status = 400]]
  BY DEF ListAnswered
<1>2. UNCHANGED <<run, entries, position>>
  BY DEF ListAnswered, browser
<1> DEFINE e == cache[k]
           answered == [e EXCEPT !.q = Answered(AtNow(@)), !.refused = FALSE, !.answers = e.asked]
           broken(st) == [e EXCEPT !.q = Broken(@), !.refused = st = 400]
<1>3. Keyed(run, k, e)
  BY DEF ListsInv, CacheIsKeyed
<1>4. ASSUME fetchList(Runs[run][now], k).status = 200
      PROVE  Keyed(run, k, answered)
  <2>1. /\ DOMAIN answered = DOMAIN e /\ answered.q = Answered(AtNow(e.q))
        /\ answered.asked = e.asked /\ answered.answers = e.asked
    BY <1>3 DEF Keyed
  <2>2. DOMAIN Answered(AtNow(e.q)) = DOMAIN e.q /\ Answered(AtNow(e.q)).data = now
    BY <1>3, DataStay DEF Keyed
  <2> HIDE DEF answered
  <2> QED BY <1>3, <1>4, <2>1, <2>2 DEF Keyed
<1>5. ASSUME NEW st
      PROVE  Keyed(run, k, broken(st))
  <2>1. /\ DOMAIN broken(st) = DOMAIN e /\ broken(st).q = Broken(e.q)
        /\ broken(st).asked = e.asked /\ broken(st).answers = e.answers
    BY <1>3 DEF Keyed
  <2>2. DOMAIN Broken(e.q) = DOMAIN e.q /\ Broken(e.q).data = e.q.data
    BY <1>3, DataStay DEF Keyed
  <2> HIDE DEF broken
  <2> QED BY SMTT(40), <1>3, <2>1, <2>2 DEF Keyed
<1>6. /\ DOMAIN cache' = DOMAIN cache
      /\ \A n \in DOMAIN cache : n # k => cache'[n] = cache[n]
      /\ cache'[k] = IF fetchList(Runs[run][now], k).status = 200 THEN answered
                     ELSE broken(fetchList(Runs[run][now], k).status)
  <2>1. e.asked = k
    BY <1>3 DEF Keyed
  <2>2. cache' = [cache EXCEPT ![k] = IF fetchList(Runs[run][now], k).status = 200 THEN answered
                                      ELSE broken(fetchList(Runs[run][now], k).status)]
    BY SMTT(40), <1>1, <2>1
  <2> HIDE DEF answered, broken
  <2> QED BY <2>2
<1> HIDE DEF answered, broken
<1>7. \A n \in DOMAIN cache' : Keyed(run, n, cache'[n])
  BY SMTT(40), <1>4, <1>5, <1>6 DEF ListsInv, CacheIsKeyed
<1> QED BY <1>2, <1>6, <1>7, StayKeepsInv

\* A request that fails leaves the data of its key.
LEMMA FailKeepsInv ==
    ASSUME ListsInv, ListFails
    PROVE  ListsInv'
<1>1. PICK k \in DOMAIN cache : cache' = [cache EXCEPT ![k].q = Broken(@), ![k].refused = FALSE]
  BY DEF ListFails
<1>2. UNCHANGED <<run, entries, position>>
  BY DEF ListFails, Fault
<1> DEFINE e == cache[k]
           new == [e EXCEPT !.q = Broken(@), !.refused = FALSE]
<1>3. Keyed(run, k, e)
  BY SMTT(40) DEF ListsInv, CacheIsKeyed
<1>4. /\ DOMAIN new = DOMAIN e /\ new.q = Broken(e.q)
      /\ new.asked = e.asked /\ new.answers = e.answers
  BY <1>3 DEF Keyed
<1>5. DOMAIN Broken(e.q) = DOMAIN e.q /\ Broken(e.q).data = e.q.data
  BY SMTT(40), <1>3, DataStay DEF Keyed
<1>6. DOMAIN cache' = DOMAIN cache /\ cache'[k] = new /\ \A n \in DOMAIN cache : n # k => cache'[n] = cache[n]
  BY <1>1
<1> HIDE DEF new
<1>7. Keyed(run, k, new)
  BY SMTT(40), <1>3, <1>4, <1>5 DEF Keyed
<1>8. \A n \in DOMAIN cache' : Keyed(run, n, cache'[n])
  BY <1>6, <1>7 DEF ListsInv, CacheIsKeyed
<1> QED BY <1>2, <1>6, <1>8, StayKeepsInv

\* Coming back to the tab, or online, fetches the queries of the screen again.
LEMMA ReturnKeepsInv ==
    ASSUME ListsInv, ReturnList
    PROVE  ListsInv'
<1>1. UNCHANGED <<run, entries, position>>
  BY DEF ReturnList, Shows, Reconnects
<1>2. CASE cache' = cache
  BY <1>1, <1>2, StayKeepsInv DEF ListsInv, CacheIsKeyed
<1>3. CASE cache' = Refocus(cache)
  <2>1. DOMAIN cache' = DOMAIN cache
    BY <1>3 DEF Refocus
  <2>2. ASSUME NEW k \in DOMAIN cache
        PROVE  Keyed(run, k, cache'[k])
    <3> DEFINE e == cache[k]
               q == Resumed(e.q)
               again == IF k \in Keys(location) /\ q.flight = Idle
                        THEN [Start(q) EXCEPT !.flight = Sent] ELSE q
               new == [e EXCEPT !.q = again, !.refused = @ /\ q.data # 0]
    <3>1. Keyed(run, k, e)
      BY SMTT(40) DEF ListsInv, CacheIsKeyed
    <3>2. {"data", "flight"} \subseteq DOMAIN e.q
      BY <3>1 DEF Keyed
    <3> HIDE DEF e
    <3>3. DOMAIN q = DOMAIN e.q /\ q.data = e.q.data
      BY <3>2, DataStay
    <3> HIDE DEF q
    <3>4. DOMAIN Start(q) = DOMAIN q /\ Start(q).data = q.data
      BY <3>2, <3>3, DataStay
    <3>5. DOMAIN again = DOMAIN e.q /\ again.data = e.q.data
      BY <3>2, <3>3, <3>4
    <3>6. cache'[k] = new
      BY <1>3 DEF Refocus, e, q
    <3> HIDE DEF again
    <3>7. DOMAIN new = DOMAIN e /\ new.q = again /\ new.asked = e.asked /\ new.answers = e.answers
      BY <3>1 DEF Keyed
    <3> HIDE DEF new
    <3> QED BY <3>1, <3>5, <3>6, <3>7 DEF Keyed
  <2> QED BY <1>1, <2>1, <2>2, StayKeepsInv
<1> QED BY <1>2, <1>3 DEF ReturnList

--------------------------------------------------------------------------------
(* The theorems about the lists. *)

\* The monitor opens on one of its screens.
LEMMA ListsInitInv == ListsInit => ListsInv
<1> SUFFICES ASSUME ListsInit PROVE ListsInv
  OBVIOUS
<1>1. PICK at : entries = <<at>> /\ at \in {InstancesAt(NoFilters, <<>>), IncidentsAt(NoIncidentFilters, <<>>), NoOverview}
  BY DEF ListsInit
<1>2. position = 1 /\ location = at
  BY <1>1 DEF ListsInit, location
<1>3. Proper(at)
  <2>1. Proper(NoOverview)
    BY OverviewIsProper DEF NoOverview, decodeCursor
  <2> QED BY <1>1, <2>1, FirstPageIsProper
<1>4. EntriesFit
  BY SMTT(40), <1>1, <1>2, <1>3 DEF EntriesFit, IsSequence, Proper
<1>5. DOMAIN cache = Requests(at) /\ \A k \in Requests(at) : cache[k] = [NoEntry(k) EXCEPT !.q.flight = Sent]
  <2>1. \A k \in Requests(at) : (CHOOSE r \in Requests(at) : queryKey(r) = k) = k
    BY DEF queryKey
  <2>2. cache = [k \in Requests(at) |->
                    [NoEntry(CHOOSE r \in Requests(at) : queryKey(r) = k) EXCEPT !.q.flight = Sent]]
    BY SMTT(40), <1>1, KeysAreRequests DEF ListsInit
  <2> QED BY <2>1, <2>2
<1>6. ScreenIsCached
  BY <1>2, <1>5, KeysAreRequests DEF ScreenIsCached
<1>7. ASSUME NEW k
      PROVE  Keyed(run, k, [NoEntry(k) EXCEPT !.q.flight = Sent])
  BY DEF Keyed, NoEntry, NoQuery
<1>8. CacheIsKeyed
  BY <1>5, <1>7 DEF CacheIsKeyed
<1> QED BY <1>4, <1>6, <1>8 DEF ListsInv

\* Every step keeps the invariant.
LEMMA ListsNextInv == ListsInv /\ [ListsNext]_listsVars => ListsInv'
<1> SUFFICES ASSUME ListsInv, [ListsNext]_listsVars PROVE ListsInv'
  OBVIOUS
<1>1. CASE \/ Commits /\ UNCHANGED <<entries, position, cache>>
           \/ HideList \/ LoseList \/ UNCHANGED listsVars
  <2>1. UNCHANGED <<run, entries, position, cache>>
    BY <1>1 DEF Commits, HideList, Hides, LoseList, Drops, Fault, listsVars, browser
  <2> QED BY <2>1, StayKeepsInv DEF ListsInv, CacheIsKeyed
<1>2. CASE back \/ BrowserForward \/ Previous
  BY <1>2, BackAndForth DEF Previous
<1> QED
  BY <1>1, <1>2, RefetchKeepsInv, AnswerKeepsInv, FailKeepsInv, ReturnKeepsInv, SidebarKeepsInv,
     ListControls, OverviewControls DEF ListsNext

\* Whatever the user opens, the cache holds answers under the keys they answer, the
\* browser history holds locations whose cursors fit, and the screen has its queries.
THEOREM ListsInvariance == ListsSpec => []ListsInv
<1> QED BY ListsInitInv, ListsNextInv, PTL DEF ListsSpec

\* Whatever filters, histories of the database and page sizes: however the user
\* navigates, every location's cursors were issued for its filters.
THEOREM CursorsFit == ListsSpec => []CursorsFitFilters
<1>1. ListsInv => CursorsFitFilters
  BY DEF ListsInv, EntriesFit, Fits, CursorsFitFilters
<1> QED BY <1>1, ListsInvariance, PTL

\* Whatever was under way when the user went to a location, the rows on the screen
\* answer the filters and the page in its URL.
THEOREM RowsAnswerTheLocation == ListsSpec => []ShownRowsAnswerTheLocation
<1>1. ListsInv => ShownRowsAnswerTheLocation
  BY KeysAreRequests DEF ListsInv, ScreenIsCached, CacheIsKeyed, Keyed, ShownRowsAnswerTheLocation, queryKey
<1> QED BY <1>1, ListsInvariance, PTL

--------------------------------------------------------------------------------
(* The trail of definitions that the history stands for. *)

Trail(p, d, f) == p \o <<d>> \o Reversed(f)

\* What undo would bring back, what is shown, and what redo would bring back.
Lists(t, p, d, f) ==
    /\ Len(t) = Len(p) + 1 + Len(f)
    /\ \A n \in 1 .. Len(p) : t[n] = p[n]
    /\ t[Len(p) + 1] = d
    /\ \A n \in 1 .. Len(f) : t[Len(p) + 1 + n] = f[Len(f) + 1 - n]

Joins(t, p, d, r) ==
    /\ Len(t) = Len(p) + 1 + Len(r)
    /\ \A n \in 1 .. Len(p) : t[n] = p[n]
    /\ t[Len(p) + 1] = d
    /\ \A n \in 1 .. Len(r) : t[Len(p) + 1 + n] = r[n]

\* The elements of a concatenation.
LEMMA Joined ==
    ASSUME NEW p \in Seq(Definition), NEW d \in Definition, NEW r \in Seq(Definition)
    PROVE  p \o <<d>> \o r \in Seq(Definition) /\ Joins(p \o <<d>> \o r, p, d, r)
BY SMTT(40) DEF Joins

\* The elements of a trail.
LEMMA TrailLists ==
    ASSUME NEW p \in Seq(Definition), NEW d \in Definition, NEW f \in Seq(Definition)
    PROVE  Trail(p, d, f) \in Seq(Definition) /\ Lists(Trail(p, d, f), p, d, f)
<1>1. /\ Reversed(f) \in Seq(Definition) /\ Len(Reversed(f)) = Len(f)
      /\ \A n \in 1 .. Len(f) : Reversed(f)[n] = f[Len(f) + 1 - n]
  BY SMTT(40) DEF Reversed
<1>2. Trail(p, d, f) \in Seq(Definition) /\ Joins(Trail(p, d, f), p, d, Reversed(f))
  BY <1>1, Joined DEF Trail
<1>3. Len(p) \in Nat /\ Len(f) \in Nat
  BY SMTT(40)
<1> QED BY <1>1, <1>2, <1>3 DEF Joins, Lists

\* The last of p is shown instead of d, which redo would bring back.
Moves(p, d, f, q, e, g) ==
    /\ Len(p) > 0 /\ Len(q) = Len(p) - 1 /\ e = p[Len(p)]
    /\ \A n \in 1 .. Len(q) : q[n] = p[n]
    /\ g = Append(f, d)

\* Undo and redo move along one trail.
LEMMA TrailMoves ==
    ASSUME NEW p \in Seq(Definition), NEW d \in Definition, NEW f \in Seq(Definition),
           NEW q \in Seq(Definition), NEW e \in Definition, NEW g \in Seq(Definition),
           Moves(p, d, f, q, e, g)
    PROVE  Trail(q, e, g) = Trail(p, d, f)
<1>0. /\ Len(p) > 0 /\ Len(q) = Len(p) - 1 /\ e = p[Len(p)]
      /\ \A n \in 1 .. Len(q) : q[n] = p[n]
      /\ g = Append(f, d)
  BY DEF Moves
<1> DEFINE old == Trail(p, d, f)
           new == Trail(q, e, g)
<1>1. old \in Seq(Definition) /\ Lists(old, p, d, f) /\ new \in Seq(Definition) /\ Lists(new, q, e, g)
  BY TrailLists
<1> HIDE DEF old, new
<1>2. /\ Len(p) \in Nat /\ Len(q) \in Nat /\ Len(f) \in Nat /\ Len(g) = Len(f) + 1
      /\ g[Len(f) + 1] = d /\ \A n \in 1..Len(f) : g[n] = f[n]
      /\ Len(p) > 0 /\ Len(q) = Len(p) - 1
  BY SMTT(40), <1>0
<1>3. Len(old) = Len(new)
  BY SMTT(40), <1>1, <1>2 DEF Lists
<1>4. ASSUME NEW n \in 1..Len(old) PROVE old[n] = new[n]
  <2>1. CASE n <= Len(q)
    <3>1. n \in 1..Len(q) /\ n \in 1..Len(p)
      BY SMTT(40), <2>1, <1>2
    <3> QED BY <3>1, <1>0, <1>1, <1>2 DEF Lists
  <2>2. CASE n = Len(p)
    BY SMTT(40), <2>2, <1>0, <1>1, <1>2 DEF Lists
  <2>3. CASE n = Len(p) + 1
    BY SMTT(40), <2>3, <1>1, <1>2 DEF Lists
  <2>4. CASE n > Len(p) + 1
    <3> DEFINE k == n - Len(p) - 1
    <3>1. /\ k \in 1..Len(f) /\ n = Len(p) + 1 + k
          /\ k + 1 \in 1..Len(g) /\ n = Len(q) + 1 + (k + 1)
          /\ Len(g) + 1 - (k + 1) = Len(f) + 1 - k /\ Len(f) + 1 - k \in 1..Len(f)
      BY SMTT(40), <2>4, <1>1, <1>2 DEF Lists
    <3> HIDE DEF k
    <3>2. old[n] = f[Len(f) + 1 - k]
      BY <3>1, <1>1, <1>2 DEF Lists
    <3>3. new[n] = g[Len(f) + 1 - k]
      BY <3>1, <1>1, <1>2 DEF Lists
    <3> QED BY <3>1, <3>2, <3>3, <1>2
  <2> QED BY SMTT(40), <1>2, <2>1, <2>2, <2>3, <2>4
<1> QED BY <1>1, <1>3, <1>4, SeqEqual DEF old, new

\* q is all of p but the last.
IsFront(q, p) ==
    /\ q \in Seq(Definition) /\ Len(q) = Len(p) - 1
    /\ \A n \in 1 .. Len(q) : q[n] = p[n]

\* What undo and redo leave is all but the last.
LEMMA Fronts ==
    ASSUME NEW p \in Seq(Definition), Len(p) > 0
    PROVE  IsFront(SubSeq(p, 1, Len(p) - 1), p)
<1> DEFINE q == SubSeq(p, 1, Len(p) - 1)
<1>1. CASE Len(p) = 1
  BY SMTT(40), <1>1 DEF IsFront
<1>2. CASE Len(p) > 1
  <2>1. q \in Seq(Definition) /\ Len(q) = Len(p) - 1
    BY SMTT(40), <1>2
  <2>2. \A n \in 1 .. Len(p) - 1 : q[n] = p[n]
    BY SMTT(40), <1>2
  <2> QED BY <2>1, <2>2 DEF IsFront
<1>3. Len(p) = 1 \/ Len(p) > 1
  BY SMTT(40)
<1> QED BY <1>1, <1>2, <1>3

Agrees(t, s, m, l) == \A i \in 1 .. l : t[i] = s[m + i - 1]

\* An initial part of t that agrees with a part of s is that part.
LEMMA Cut ==
    ASSUME NEW s \in Seq(Definition), NEW t \in Seq(Definition),
           NEW m \in Nat, NEW n \in Nat, NEW l \in Nat,
           1 <= m, m <= n, n <= Len(s), l = n - m + 1, l <= Len(t), Agrees(t, s, m, l)
    PROVE  Len(SubSeq(s, m, n)) = l /\ SubSeq(t, 1, l) = SubSeq(s, m, n)
<1>1. /\ SubSeq(s, m, n) \in Seq(Definition) /\ Len(SubSeq(s, m, n)) = l
      /\ \A i \in 1 .. l : SubSeq(s, m, n)[i] = s[m + i - 1]
  <2>1. \A i \in m .. n : s[i] \in Definition
    BY SMTT(40)
  <2>2. m \in Int /\ n \in Int
    BY SMTT(40)
  <2> QED BY SMTT(40), <2>1, <2>2
<1>2. /\ SubSeq(t, 1, l) \in Seq(Definition) /\ Len(SubSeq(t, 1, l)) = l
      /\ \A i \in 1 .. l : SubSeq(t, 1, l)[i] = t[i]
  <2>1. \A i \in 1 .. l : t[i] \in Definition
    BY SMTT(40)
  <2>2. 1 \in Int /\ l \in Int
    BY SMTT(40)
  <2> QED BY SMTT(40), <2>1, <2>2
<1> QED BY <1>1, <1>2, SeqEqual DEF Agrees

Remembers(q, p, d) ==
    LET c == IF Len(p) = HISTORY_LIMIT THEN 1 ELSE 0
    IN  /\ Len(q) = Len(p) + 1 - c
        /\ \A n \in 1 .. Len(p) - c : q[n] = p[n + c]
        /\ q[Len(p) + 1 - c] = d

\* What remembering one more definition keeps.
LEMMA RememberFacts ==
    ASSUME NEW p \in Seq(Definition), NEW d \in Definition, Len(p) <= HISTORY_LIMIT
    PROVE  Remember(p, d) \in Seq(Definition) /\ Remembers(Remember(p, d), p, d)
<1>0. Len(p) \in Nat
  BY SMTT(40)
<1>1. CASE Len(p) >= HISTORY_LIMIT
  <2>1. Len(p) = HISTORY_LIMIT /\ Len(p) > 0
    BY SMTT(40), <1>0, <1>1, HistoryAssumption
  <2>2. Tail(p) \in Seq(Definition) /\ Len(Tail(p)) = Len(p) - 1 /\ \A n \in 1 .. Len(p) - 1 : Tail(p)[n] = p[n + 1]
    BY SMTT(40), <2>1
  <2> DEFINE q == Tail(p)
  <2>3. Remember(p, d) = Append(q, d)
    BY <1>1 DEF Remember
  <2> HIDE DEF q
  <2>4. /\ Append(q, d) \in Seq(Definition) /\ Len(Append(q, d)) = Len(q) + 1 /\ Append(q, d)[Len(q) + 1] = d
        /\ \A n \in 1 .. Len(q) : Append(q, d)[n] = q[n]
    BY SMTT(40), <2>2 DEF q
  <2> QED BY SMTT(40), <1>0, <2>1, <2>2, <2>3, <2>4 DEF Remembers, q
<1>2. CASE Len(p) < HISTORY_LIMIT
  <2>1. /\ Append(p, d) \in Seq(Definition) /\ Len(Append(p, d)) = Len(p) + 1 /\ Append(p, d)[Len(p) + 1] = d
        /\ \A n \in 1 .. Len(p) : Append(p, d)[n] = p[n]
    BY SMTT(40)
  <2>2. Remember(p, d) = Append(p, d)
    BY SMTT(40), <1>2, <1>0, HistoryAssumption DEF Remember
  <2> QED BY SMTT(40), <1>0, <1>2, <2>1, <2>2, HistoryAssumption DEF Remembers
<1> QED BY SMTT(40), <1>0, <1>1, <1>2, HistoryAssumption

First(p, n)      == IF Len(p) + n > HISTORY_LIMIT THEN Len(p) + n - HISTORY_LIMIT + 1 ELSE 1
Kept(p, d, f, n) == SubSeq(Trail(p, d, f), First(p, n), Len(p) + 1)

\* The abstract step from trail t, at a, to trail u, at b.
Records(t, u, a, b, n) ==
    LET done == a + n - 1
        kept == SubSeq(t, IF done > HISTORY_LIMIT THEN done - HISTORY_LIMIT + 1 ELSE 1, a)
    IN  /\ Len(u) = Len(kept) + n
        /\ SubSeq(u, 1, Len(kept)) = kept
        /\ b = Len(u)

\* The position counts the definition shown, the past does not.
LEMMA FirstKept ==
    ASSUME NEW p, Len(p) \in Nat, NEW n \in Nat
    PROVE  LET done == Len(p) + 1 + n - 1
           IN  First(p, n) = IF done > HISTORY_LIMIT THEN done - HISTORY_LIMIT + 1 ELSE 1
BY SMTT(40), HistoryAssumption DEF First

\* The trail after a handler records n definitions, q being the past it leaves.
LEMMA RecordedTrail ==
    ASSUME NEW p \in Seq(Definition), NEW d \in Definition, NEW f \in Seq(Definition),
           NEW q \in Seq(Definition), NEW e \in Definition, NEW n \in Nat, NEW l \in Nat,
           First(p, n) \in Nat, 1 <= First(p, n), First(p, n) <= Len(p) + 1,
           l = Len(p) + 1 - First(p, n) + 1, Len(q) = l + n - 1, n >= 1,
           Agrees(q, Trail(p, d, f), First(p, n), l)
    PROVE  Records(Trail(p, d, f), Trail(q, e, <<>>), Len(p) + 1, Len(q) + 1, n)
<1> DEFINE old == Trail(p, d, f)
           new == Trail(q, e, <<>>)
           m   == First(p, n)
           at  == Len(p) + 1
<1>1. <<>> \in Seq(Definition) /\ Len(<<>>) = 0 /\ Len(p) \in Nat /\ Len(f) \in Nat /\ Len(q) \in Nat
  BY SMTT(40)
<1>2. old \in Seq(Definition) /\ Lists(old, p, d, f)
  BY TrailLists
<1>3. new \in Seq(Definition) /\ Lists(new, q, e, <<>>)
  BY <1>1, TrailLists
<1> HIDE DEF old, new
<1>4. Len(new) = Len(q) + 1 /\ Len(old) = Len(p) + 1 + Len(f)
  BY SMTT(40), <1>1, <1>2, <1>3 DEF Lists
<1>5. Agrees(new, old, m, l)
  <2>1. Agrees(q, old, m, l)
    BY DEF old
  <2>2. \A i \in 1 .. l : new[i] = q[i]
    <3>1. \A i \in 1 .. Len(q) : new[i] = q[i]
      BY <1>3 DEF Lists
    <3> QED BY SMTT(40), <3>1, <1>1
  <2> QED BY <2>1, <2>2 DEF Agrees
<1>6. m \in Nat /\ at \in Nat /\ 1 <= m /\ m <= at /\ at <= Len(old) /\ l = at - m + 1 /\ l <= Len(new)
  <2>1. m \in Nat /\ 1 <= m /\ m <= at
    OBVIOUS
  <2>2. at \in Nat
    BY SMTT(40), <1>1
  <2>3. l = at - m + 1
    BY SMTT(40)
  <2>4. at <= Len(old)
    BY SMTT(40), <1>1, <1>4
  <2>5. l <= Len(new)
    BY SMTT(40), <1>1, <1>4
  <2> QED BY <2>1, <2>2, <2>3, <2>4, <2>5
<1> HIDE DEF m, at
<1>7. Len(SubSeq(old, m, at)) = l /\ SubSeq(new, 1, l) = SubSeq(old, m, at)
  <2>1. /\ m \in Nat /\ at \in Nat /\ 1 <= m /\ m <= at /\ at <= Len(old)
        /\ l = at - m + 1 /\ l <= Len(new) /\ old \in Seq(Definition) /\ new \in Seq(Definition)
    BY <1>2, <1>3, <1>6
  <2> QED BY <2>1, <1>5, Cut
<1>8. Kept(p, d, f, n) = SubSeq(old, m, at)
  BY DEF Kept, old, m, at
<1>9. /\ Len(new) = Len(Kept(p, d, f, n)) + n
      /\ SubSeq(new, 1, Len(Kept(p, d, f, n))) = Kept(p, d, f, n)
  <2>1. Len(SubSeq(old, m, at)) = l
    BY <1>7
  <2>2. Len(Kept(p, d, f, n)) = l
    BY <2>1, <1>8
  <2>3. Len(new) = l + n
    BY SMTT(40), <1>1, <1>4
  <2> QED BY <2>2, <2>3, <1>7, <1>8
<1> DEFINE done == (Len(p) + 1) + n - 1
           from == IF done > HISTORY_LIMIT THEN done - HISTORY_LIMIT + 1 ELSE 1
<1>10. from = First(p, n)
  BY <1>1, FirstKept
<1> HIDE DEF from
<1>11. Kept(p, d, f, n) = SubSeq(old, from, Len(p) + 1)
  BY <1>10 DEF Kept, old
<1>12. /\ Len(new) = Len(SubSeq(old, from, Len(p) + 1)) + n
       /\ SubSeq(new, 1, Len(SubSeq(old, from, Len(p) + 1))) = SubSeq(old, from, Len(p) + 1)
       /\ Len(q) + 1 = Len(new)
  BY <1>4, <1>9, <1>11
<1> QED BY <1>12 DEF Records, new, old, from

\* The past after one write is the kept part of the trail.
LEMMA RememberAgrees ==
    ASSUME NEW p \in Seq(Definition), NEW d \in Definition, NEW f \in Seq(Definition),
           Len(p) <= HISTORY_LIMIT
    PROVE  /\ First(p, 1) = IF Len(p) = HISTORY_LIMIT THEN 2 ELSE 1
           /\ Len(Remember(p, d)) = Len(p) + 1 - First(p, 1) + 1
           /\ Agrees(Remember(p, d), Trail(p, d, f), First(p, 1), Len(Remember(p, d)))
<1> DEFINE q   == Remember(p, d)
           old == Trail(p, d, f)
           m   == First(p, 1)
<1>1. q \in Seq(Definition) /\ Remembers(q, p, d) /\ Len(p) \in Nat
  BY SMTT(40), RememberFacts
<1>2. old \in Seq(Definition) /\ Lists(old, p, d, f)
  BY TrailLists
<1> HIDE DEF q, old
<1>3. m = IF Len(p) = HISTORY_LIMIT THEN 2 ELSE 1
  BY SMTT(40), <1>1, HistoryAssumption DEF First
<1> HIDE DEF m
<1>4. m \in Nat /\ 1 <= m /\ m <= Len(p) + 1 /\ Len(q) \in Nat /\ Len(q) = Len(p) + 1 - m + 1
  BY SMTT(40), <1>1, <1>3, HistoryAssumption DEF Remembers
<1>5. ASSUME NEW i \in 1 .. Len(q) PROVE q[i] = old[m + i - 1]
  <2>1. CASE i = Len(q)
    BY SMTT(40), <2>1, <1>1, <1>2, <1>3, HistoryAssumption DEF Remembers, Lists
  <2>2. CASE i < Len(q)
    <3>1. m + i - 1 \in 1 .. Len(p) /\ i \in 1 .. Len(p) - (m - 1) /\ i + (m - 1) = m + i - 1
      BY SMTT(40), <2>2, <1>1, <1>4
    <3>2. q[i] = p[i + (m - 1)]
      BY SMTT(40), <3>1, <1>1, <1>3, HistoryAssumption DEF Remembers
    <3> QED BY <3>1, <3>2, <1>1, <1>2 DEF Lists
  <2> QED BY SMTT(40), <2>1, <2>2, <1>4
<1>6. Agrees(q, old, m, Len(q))
  BY <1>5 DEF Agrees
<1> QED BY <1>3, <1>4, <1>6 DEF q, old, m

\* One write of the definition records one.
LEMMA RecordsOne ==
    ASSUME NEW p \in Seq(Definition), NEW d \in Definition, NEW f \in Seq(Definition),
           NEW e \in Definition, Len(p) <= HISTORY_LIMIT
    PROVE  LET q == Remember(p, d)
           IN  Records(Trail(p, d, f), Trail(q, e, <<>>), Len(p) + 1, Len(q) + 1, 1)
<1> DEFINE q == Remember(p, d)
           m == First(p, 1)
           l == Len(q)
<1>1. q \in Seq(Definition) /\ Len(p) \in Nat /\ l \in Nat
  BY SMTT(40), RememberFacts
<1>2. /\ m = IF Len(p) = HISTORY_LIMIT THEN 2 ELSE 1
      /\ l = Len(p) + 1 - m + 1
      /\ Agrees(q, Trail(p, d, f), m, l)
  BY RememberAgrees
<1> HIDE DEF q, m
<1>3. m \in Nat /\ 1 <= m /\ m <= Len(p) + 1 /\ Len(q) = l + 1 - 1
  BY SMTT(40), <1>1, <1>2, HistoryAssumption
<1> HIDE DEF l
<1> QED BY SMTT(40), <1>1, <1>2, <1>3, RecordedTrail DEF q, m

\* Two writes of one handler record two.
LEMMA RecordsTwo ==
    ASSUME NEW p \in Seq(Definition), NEW d \in Definition, NEW f \in Seq(Definition),
           NEW x \in Definition, NEW e \in Definition, Len(p) <= HISTORY_LIMIT
    PROVE  LET q == Remember(Remember(p, d), x)
           IN  Records(Trail(p, d, f), Trail(q, e, <<>>), Len(p) + 1, Len(q) + 1, 2)
<1> DEFINE r   == Remember(p, d)
           q   == Remember(r, x)
           old == Trail(p, d, f)
           k   == First(p, 1)
           m   == First(p, 2)
           c   == IF Len(r) = HISTORY_LIMIT THEN 1 ELSE 0
           l   == Len(r) - c
<1>1. r \in Seq(Definition) /\ Len(p) \in Nat /\ Len(r) \in Nat
  BY SMTT(40), RememberFacts
<1>2. /\ k = IF Len(p) = HISTORY_LIMIT THEN 2 ELSE 1
      /\ Len(r) = Len(p) + 1 - k + 1
      /\ Agrees(r, old, k, Len(r))
  BY RememberAgrees
<1> HIDE DEF r, k, old
<1>3. Len(r) <= HISTORY_LIMIT
  BY SMTT(40), <1>1, <1>2, HistoryAssumption
<1>4. q \in Seq(Definition) /\ Remembers(q, r, x)
  BY <1>1, <1>3, RememberFacts
<1> HIDE DEF q
<1>5. m = k + c
  BY SMTT(40), <1>1, <1>2, <1>3, HistoryAssumption DEF First
<1> HIDE DEF m
<1>6. /\ m \in Nat /\ 1 <= m /\ m <= Len(p) + 1 /\ l \in Nat
      /\ l = Len(p) + 1 - m + 1 /\ Len(q) = l + 2 - 1
  BY SMTT(40), <1>1, <1>2, <1>4, <1>5, HistoryAssumption DEF Remembers
<1>7. ASSUME NEW i \in 1 .. l PROVE q[i] = old[m + i - 1]
  <2>1. q[i] = r[i + c]
    BY <1>1, <1>4 DEF Remembers
  <2>2. i + c \in 1 .. Len(r) /\ k + (i + c) - 1 = m + i - 1
    BY SMTT(40), <1>1, <1>2, <1>5
  <2> QED BY <2>1, <2>2, <1>2 DEF Agrees
<1>8. Agrees(q, old, m, l)
  BY <1>7 DEF Agrees
<1>9. Agrees(q, Trail(p, d, f), First(p, 2), l)
  BY <1>8 DEF old, m
<1>10. /\ First(p, 2) \in Nat /\ 1 <= First(p, 2) /\ First(p, 2) <= Len(p) + 1 /\ l \in Nat
       /\ l = Len(p) + 1 - First(p, 2) + 1 /\ Len(q) = l + 2 - 1
  BY <1>6 DEF m
<1> HIDE DEF l
<1>11. Records(Trail(p, d, f), Trail(q, e, <<>>), Len(p) + 1, Len(q) + 1, 2)
  <2>1. 2 \in Nat /\ 2 >= 1 /\ q \in Seq(Definition)
    BY SMTT(40), <1>4
  <2> QED BY <2>1, <1>9, <1>10, RecordedTrail
<1> QED BY <1>11 DEF q, r

--------------------------------------------------------------------------------
(* The inductive invariant. *)

\* Undo and redo together never hold more than the limit, so redo has room.
HistoryFits == Len(past) + Len(future) <= HISTORY_LIMIT

\* While the question before an upload is open, no error is shown and none can arrive.
UploadAsked == dialog.kind = "upload?" => ~errors /\ upload = NoUpload

\* Drafts are told apart by ids that no later draft gets again.
DraftsNumbered ==
    /\ \A d \in drafts : d.id <= saves
    /\ \A d, e \in drafts : d.id = e.id => d = e

IInv == TypeOK /\ HistoryFits /\ UploadAsked /\ DraftsNumbered

\* The empty editor satisfies it.
LEMMA InitIInv == Init => IInv
<1> SUFFICES ASSUME Init PROVE IInv
  BY SMTT(40)
<1>1. EMPTY \in Definition /\ LIBRARY \in Definition /\ <<>> \in Seq(Definition) /\ Len(<<>>) = 0
  BY SMTT(40), BoundAssumption DEF EMPTY, LIBRARY, Definition
<1>2. TypeOK
  <2>1. definition \in Definition /\ {dirty, errors} \subseteq BOOLEAN
    BY <1>1 DEF Init
  <2>2. past \in Seq(Definition) /\ Len(past) <= HISTORY_LIMIT /\ future \in Seq(Definition)
    BY SMTT(40), <1>1, HistoryAssumption DEF Init
  <2>3. loads \in Seq(Definition) /\ server \subseteq Definition
    BY <1>1 DEF Init
  <2>4. /\ drafts \subseteq [id : 1 .. MaxDrafts, definition : Definition]
        /\ listed \subseteq 1 .. MaxDrafts
        /\ edits \in 0 .. MaxEdits /\ saves \in 0 .. MaxDrafts
    BY SMTT(40), BoundAssumption DEF Init
  <2> QED BY <2>1, <2>2, <2>3, <2>4 DEF Init, TypeOK, NoDialog
<1>3. HistoryFits
  BY SMTT(40), <1>1, HistoryAssumption DEF Init, HistoryFits
<1>4. UploadAsked /\ DraftsNumbered
  BY DEF Init, UploadAsked, DraftsNumbered, NoDialog
<1> QED BY <1>2, <1>3, <1>4 DEF IInv

--------------------------------------------------------------------------------
(* What a step does to the history. *)

Stays    == UNCHANGED <<definition, past, future>>
Replaces == /\ definition' \in Definition
            /\ \E x \in Definition : past' = Remember(Remember(past, definition), x)
            /\ future' = <<>>
Sets     == definition' \in Definition /\ set(definition')
Forgets  == definition' = definition /\ past' = <<>> /\ future' = <<>>

\* Every step leaves the history, records one definition or two, moves along it or
\* starts it again.
LEMMA StepShape ==
    ASSUME TypeOK, [Next]_vars
    PROVE  Stays \/ Sets \/ Replaces \/ Undo \/ Redo \/ Forgets
<1>1. ASSUME Write PROVE Fresh \in Definition
  BY SMTT(40), <1>1, BoundAssumption DEF Write, Fresh, Definition, TypeOK
<1>2. EMPTY \in Definition
  BY SMTT(40), BoundAssumption DEF EMPTY, Definition
<1>3. ASSUME NEW e \in Definition, set(e) \/ Open(e) PROVE Sets
  BY <1>3 DEF Sets, Open, set
<1>4. CASE Edit
  BY <1>4, <1>1, <1>3 DEF Edit
<1>5. CASE ReplaceAndDelete
  <2>1. Fresh \in Definition /\ Fresh + 1 \in Definition
    BY SMTT(40), <1>5, BoundAssumption DEF ReplaceAndDelete, Fresh, Definition, TypeOK
  <2> QED BY <1>5, <2>1 DEF ReplaceAndDelete, Replaces
<1>6. CASE handleNewWorkflow \/ ConfirmNew \/ handleSubmit
  BY <1>6, <1>1, <1>2, <1>3 DEF handleNewWorkflow, ConfirmNew, handleSubmit, Stays, history
<1>7. CASE handleRestore
  <2>1. ASSUME NEW id, loadDraft(id) PROVE Stays \/ Sets
    <3>1. ASSUME NEW d \in drafts, Open(d.definition) PROVE Sets
      BY <3>1, <1>3 DEF TypeOK
    <3> QED BY <2>1, <3>1 DEF loadDraft, Stays, history
  <2> QED BY <1>7, <2>1 DEF handleRestore, Stays, history
<1>8. CASE handleBlur
  <2>1. ASSUME json.state = "typed" PROVE json.text \in Definition
    BY SMTT(40), <2>1 DEF TypeOK, Closed, Showing, Focused, Bad, Rejected, Typed
  <2> QED BY <1>8, <2>1, <1>3 DEF handleBlur, Stays, history
<1>9. CASE UploadSucceeds
  BY <1>9, <1>3 DEF UploadSucceeds, TypeOK
<1>10. ASSUME NEW n \in DOMAIN loads, LoadArrives(n) \/ LoadFails(n) PROVE Sets \/ Stays
  <2>1. loads[n] \in Definition
    BY SMTT(40) DEF TypeOK
  <2> QED BY <1>10, <2>1, <1>3 DEF LoadArrives, LoadFails, Stays, history
<1>11. CASE Reload
  BY <1>11 DEF Reload, Forgets
<1>12. CASE \/ runValidation \/ OpenDialog \/ Cancel \/ handleUpload \/ ConfirmUpload \/ load
            \/ handleSave \/ handleDelete \/ setView \/ handleChange
            \/ UploadRejected \/ UploadFails \/ EngineStores \/ OtherTab \/ UNCHANGED vars
  BY <1>12 DEF runValidation, OpenDialog, Cancel, handleUpload, ConfirmUpload, load, handleSave,
               handleDelete, setView, handleChange, UploadRejected, UploadFails, EngineStores,
               OtherTab, vars, Stays, history
<1> QED BY <1>4, <1>5, <1>6, <1>7, <1>8, <1>9, <1>10, <1>11, <1>12 DEF Next, User, Answer

\* The history keeps its type and its bound.
LEMMA HistoryStep ==
    ASSUME TypeOK, HistoryFits, [Next]_vars
    PROVE  /\ definition' \in Definition
           /\ past' \in Seq(Definition) /\ future' \in Seq(Definition)
           /\ Len(past') + Len(future') <= HISTORY_LIMIT
<1>0. /\ definition \in Definition /\ past \in Seq(Definition) /\ future \in Seq(Definition)
      /\ Len(past) \in Nat /\ Len(future) \in Nat
      /\ Len(past) <= HISTORY_LIMIT /\ Len(past) + Len(future) <= HISTORY_LIMIT
  BY SMTT(40) DEF TypeOK, HistoryFits
<1>1. ASSUME NEW p \in Seq(Definition), NEW d \in Definition, Len(p) <= HISTORY_LIMIT
      PROVE  Remember(p, d) \in Seq(Definition) /\ Len(Remember(p, d)) \in Nat
             /\ Len(Remember(p, d)) <= HISTORY_LIMIT
  <2>1. Remember(p, d) \in Seq(Definition) /\ Remembers(Remember(p, d), p, d) /\ Len(p) \in Nat
    BY SMTT(40), <1>1, RememberFacts
  <2> QED BY SMTT(40), <2>1, <1>1, HistoryAssumption DEF Remembers
<1>2. CASE Stays
  BY <1>0, <1>2 DEF Stays
<1>3. CASE Sets
  BY SMTT(40), <1>0, <1>1, <1>3, HistoryAssumption DEF Sets, set
<1>4. CASE Replaces
  <2>1. PICK x \in Definition : past' = Remember(Remember(past, definition), x)
    BY <1>4 DEF Replaces
  <2>2. past' \in Seq(Definition) /\ Len(past') \in Nat /\ Len(past') <= HISTORY_LIMIT
    BY <1>0, <1>1, <2>1
  <2> QED BY SMTT(40), <1>4, <2>2, HistoryAssumption DEF Replaces
<1>5. CASE Undo
  <2>1. Len(past) > 0 /\ past[Len(past)] \in Definition
    BY SMTT(40), <1>0, <1>5 DEF Undo
  <2>2. past' \in Seq(Definition) /\ Len(past') = Len(past) - 1
    <3>1. past' = SubSeq(past, 1, Len(past) - 1)
      BY <1>5 DEF Undo
    <3>2. IsFront(past', past)
      BY <1>0, <2>1, <3>1, Fronts
    <3> QED BY <3>2 DEF IsFront
  <2>3. future' \in Seq(Definition) /\ Len(future') = Len(future) + 1
    BY SMTT(40), <1>0, <1>5 DEF Undo
  <2>4. definition' = past[Len(past)]
    BY <1>5 DEF Undo
  <2> QED BY SMTT(40), <1>0, <2>1, <2>2, <2>3, <2>4
<1>6. CASE Redo
  <2>1. Len(future) > 0 /\ future[Len(future)] \in Definition
    BY SMTT(40), <1>0, <1>6 DEF Redo
  <2>2. future' \in Seq(Definition) /\ Len(future') = Len(future) - 1
    <3>1. future' = SubSeq(future, 1, Len(future) - 1)
      BY SMTT(40), <1>6 DEF Redo
    <3>2. IsFront(future', future)
      BY <1>0, <2>1, <3>1, Fronts
    <3> QED BY SMTT(40), <3>2 DEF IsFront
  <2>3. past' \in Seq(Definition) /\ Len(past') = Len(past) + 1
    BY SMTT(40), <1>0, <1>6 DEF Redo
  <2>4. definition' = future[Len(future)]
    BY SMTT(40), <1>6 DEF Redo
  <2> QED BY SMTT(40), <1>0, <2>1, <2>2, <2>3, <2>4
<1>7. CASE Forgets
  BY SMTT(40), <1>0, <1>7, HistoryAssumption DEF Forgets
<1> QED BY <1>2, <1>3, <1>4, <1>5, <1>6, <1>7, StepShape

--------------------------------------------------------------------------------
(* What a step does to the drafts. *)

Unstored == UNCHANGED <<drafts, saves>>
Saves    == \E def \in Definition : saveDraft(def)
Deletes  == \E id : deleteDraft(id)

\* Every step saves a draft, deletes one or leaves them.
LEMMA DraftsShape ==
    ASSUME TypeOK, [Next]_vars
    PROVE  Unstored \/ Saves \/ Deletes
<1>1. LIBRARY \in Definition /\ definition \in Definition
  BY SMTT(40), BoundAssumption DEF LIBRARY, Definition, TypeOK
<1>2. CASE handleSave \/ handleDelete \/ OtherTab
  BY <1>1, <1>2 DEF handleSave, handleDelete, OtherTab, Unstored, Saves, Deletes, storage
<1>3. CASE \/ Edit \/ ReplaceAndDelete \/ Undo \/ Redo \/ runValidation
           \/ OpenDialog \/ Cancel \/ handleNewWorkflow \/ ConfirmNew \/ handleSubmit
           \/ handleUpload \/ ConfirmUpload \/ load \/ handleRestore
           \/ setView \/ handleChange \/ handleBlur \/ Reload
  BY <1>3 DEF Edit, ReplaceAndDelete, Undo, Redo, runValidation, OpenDialog, Cancel,
              handleNewWorkflow, ConfirmNew, handleSubmit, handleUpload, ConfirmUpload, load,
              handleRestore, setView, handleChange, handleBlur, Reload, Unstored, storage
<1>4. CASE Answer \/ EngineStores \/ UNCHANGED vars
  BY <1>4 DEF Answer, UploadSucceeds, UploadRejected, UploadFails, LoadArrives, LoadFails,
              EngineStores, vars, Unstored, storage
<1> QED BY <1>2, <1>3, <1>4 DEF Next, User

\* Saving gives the new draft an id of its own and keeps the others.
LEMMA SavedDraft ==
    ASSUME TypeOK, DraftsNumbered, NEW def \in Definition, saveDraft(def)
    PROVE  /\ drafts' \subseteq [id : 1 .. MaxDrafts, definition : Definition]
           /\ saves' \in 0 .. MaxDrafts
           /\ DraftsNumbered'
           /\ drafts \subseteq drafts'
<1> DEFINE new == [id |-> saves + 1, definition |-> def]
<1>1. /\ saves \in Nat /\ saves < MaxDrafts /\ MaxDrafts \in Nat /\ saves' = saves + 1
      /\ drafts' = drafts \cup {new}
  BY SMTT(40), BoundAssumption DEF TypeOK, saveDraft
<1>2. drafts \subseteq [id : 1 .. MaxDrafts, definition : Definition]
  BY DEF TypeOK
<1>3. new \in [id : 1 .. MaxDrafts, definition : Definition] /\ new.id = saves + 1
  BY SMTT(40), <1>1
<1> HIDE DEF new
<1>4. \A d \in drafts : d.id \in Int /\ d.id <= saves
  BY SMTT(40), <1>2 DEF DraftsNumbered
<1>5. DraftsNumbered'
  BY SMTT(40), <1>1, <1>3, <1>4 DEF DraftsNumbered
<1> QED BY SMTT(40), <1>1, <1>2, <1>3, <1>5

\* Deleting removes the one draft with the id, if it is still there.
LEMMA DeletedDraft ==
    ASSUME TypeOK, DraftsNumbered, NEW id, deleteDraft(id)
    PROVE  /\ drafts' \subseteq drafts /\ saves' = saves
           /\ DraftsNumbered'
           /\ drafts' = drafts \/ \E d \in drafts : drafts' = drafts \ {d}
<1>1. drafts' = {d \in drafts : d.id # id} /\ saves' = saves
  BY DEF deleteDraft
<1>2. DraftsNumbered'
  BY <1>1 DEF DraftsNumbered
<1>3. ASSUME NEW e \in drafts, e.id = id PROVE drafts' = drafts \ {e}
  BY <1>1, <1>3 DEF DraftsNumbered
<1> QED BY <1>1, <1>2, <1>3

\* The drafts keep their type and their ids, and a step disturbs at most one.
LEMMA DraftsStep ==
    ASSUME TypeOK, DraftsNumbered, [Next]_vars
    PROVE  /\ drafts' \subseteq [id : 1 .. MaxDrafts, definition : Definition]
           /\ saves' \in 0 .. MaxDrafts
           /\ DraftsNumbered'
           /\ \/ drafts \subseteq drafts'
              \/ \E d \in drafts : drafts' = drafts \ {d}
<1>0. /\ drafts \subseteq [id : 1 .. MaxDrafts, definition : Definition]
      /\ saves \in 0 .. MaxDrafts
  BY DEF TypeOK
<1>1. CASE Unstored
  BY <1>0, <1>1 DEF Unstored, DraftsNumbered
<1>2. CASE Saves
  BY <1>2, SavedDraft DEF Saves
<1>3. CASE Deletes
  BY <1>0, <1>3, DeletedDraft DEF Deletes
<1> QED BY <1>1, <1>2, <1>3, DraftsShape

--------------------------------------------------------------------------------
(* The other variables. *)

JsonType   == json \in {Closed, Showing, Focused, Bad, Rejected} \cup {Typed(d) : d \in Definition}
DialogType == dialog.kind \in {"none", "import", "browser", "drafts", "new?", "upload?",
                               "restore?", "delete?"}
UploadType == upload \in {NoUpload, [phase |-> "stored"]} \cup [phase : {"sent"}, body : Definition]

\* The JSON view keeps its type.
LEMMA JsonStep == ASSUME TypeOK, [Next]_vars PROVE JsonType'
<1>0. JsonType
  BY DEF TypeOK, JsonType
<1>1. ASSUME Follow PROVE JsonType'
  BY <1>0, <1>1 DEF Follow, JsonType
<1>2. CASE \/ Edit \/ ReplaceAndDelete \/ Undo \/ Redo \/ handleNewWorkflow \/ ConfirmNew
           \/ handleSubmit \/ UploadSucceeds \/ handleRestore
           \/ \E n \in DOMAIN loads : LoadArrives(n) \/ LoadFails(n)
  <2>1. Follow \/ json' = json
    BY <1>2 DEF Edit, ReplaceAndDelete, Undo, Redo, handleNewWorkflow, ConfirmNew, handleSubmit,
                UploadSucceeds, handleRestore, loadDraft, LoadArrives, LoadFails, Open
  <2> QED BY <2>1, <1>0, <1>1 DEF JsonType
<1>3. CASE setView \/ handleBlur \/ Reload
  BY <1>0, <1>3 DEF setView, handleBlur, Reload, JsonType
<1>4. CASE handleChange
  <2>1. ASSUME Write PROVE Fresh \in Definition
    BY SMTT(40), <2>1, BoundAssumption DEF Write, Fresh, Definition, TypeOK
  <2> QED BY <1>0, <1>4, <2>1 DEF handleChange, JsonType
<1>5. CASE \/ runValidation \/ OpenDialog \/ Cancel \/ handleUpload \/ ConfirmUpload \/ load
           \/ handleSave \/ handleDelete \/ UploadRejected \/ UploadFails \/ EngineStores
           \/ OtherTab \/ UNCHANGED vars
  BY <1>0, <1>5 DEF runValidation, OpenDialog, Cancel, handleUpload, ConfirmUpload, load,
                    handleSave, handleDelete, UploadRejected, UploadFails, EngineStores,
                    OtherTab, vars, JsonType
<1> QED BY <1>2, <1>3, <1>4, <1>5 DEF Next, User, Answer

\* Without the n-th, the loads under way are loads.
LEMMA WithoutType ==
    ASSUME NEW s \in Seq(Definition), NEW n \in DOMAIN s
    PROVE  Without(s, n) \in Seq(Definition)
<1>1. n \in 1 .. Len(s) /\ Len(s) \in Nat
  BY SMTT(40)
<1>2. SubSeq(s, 1, n - 1) \in Seq(Definition)
  <2>1. \A i \in 1 .. n - 1 : s[i] \in Definition
    BY SMTT(40), <1>1
  <2>2. 1 \in Int /\ n - 1 \in Int
    BY SMTT(40), <1>1
  <2> QED BY SMTT(40), <2>1, <2>2
<1>3. SubSeq(s, n + 1, Len(s)) \in Seq(Definition)
  <2>1. \A i \in n + 1 .. Len(s) : s[i] \in Definition
    BY SMTT(40), <1>1
  <2>2. n + 1 \in Int /\ Len(s) \in Int
    BY SMTT(40), <1>1
  <2> QED BY SMTT(40), <2>1, <2>2
<1> QED BY SMTT(40), <1>2, <1>3 DEF Without

\* The requests, what the engine stores, the lists and the flags keep their types.
LEMMA RequestsStep ==
    ASSUME TypeOK, [Next]_vars
    PROVE  /\ {dirty, errors}' \subseteq BOOLEAN
           /\ loads' \in Seq(Definition) /\ server' \subseteq Definition
           /\ edits' \in 0 .. MaxEdits
<1>0. /\ {dirty, errors} \subseteq BOOLEAN
      /\ loads \in Seq(Definition) /\ server \subseteq Definition /\ edits \in 0 .. MaxEdits
  BY DEF TypeOK
<1>1. ASSUME Write PROVE edits' \in 0 .. MaxEdits
  BY SMTT(40), <1>0, <1>1, BoundAssumption DEF Write
<1>2. CASE Edit \/ Undo \/ Redo
  BY <1>0, <1>1, <1>2 DEF Edit, Undo, Redo
<1>3. CASE ReplaceAndDelete
  <2>1. edits' \in 0 .. MaxEdits
    BY SMTT(40), <1>0, <1>3, BoundAssumption DEF ReplaceAndDelete
  <2> QED BY <1>0, <1>3, <2>1 DEF ReplaceAndDelete
<1>4. CASE runValidation
  <2>1. errors' \in BOOLEAN
    BY <1>4 DEF runValidation
  <2> QED BY <1>0, <1>4, <2>1 DEF runValidation
<1>5. CASE handleNewWorkflow \/ ConfirmNew \/ handleSubmit \/ handleRestore
  BY <1>0, <1>1, <1>5 DEF handleNewWorkflow, ConfirmNew, handleSubmit, handleRestore, loadDraft,
                          Open
<1>6. CASE load
  BY SMTT(40), <1>0, <1>1, <1>6 DEF load
<1>7. ASSUME NEW n \in DOMAIN loads, LoadArrives(n) \/ LoadFails(n)
      PROVE  /\ {dirty, errors}' \subseteq BOOLEAN
             /\ loads' \in Seq(Definition) /\ server' = server /\ edits' = edits
  BY <1>0, <1>7, WithoutType DEF LoadArrives, LoadFails, Open
<1>8. CASE EngineStores
  <2>1. upload.body \in Definition
    BY SMTT(40), <1>8 DEF EngineStores, TypeOK, NoUpload
  <2> QED BY <1>0, <1>8, <2>1 DEF EngineStores
<1>9. CASE \/ OpenDialog \/ Cancel \/ handleUpload \/ ConfirmUpload \/ handleSave \/ handleDelete
           \/ setView \/ handleChange \/ handleBlur
  BY <1>0, <1>1, <1>9 DEF OpenDialog, Cancel, handleUpload, ConfirmUpload, handleSave,
                          handleDelete, setView, handleChange, handleBlur
<1>10. CASE Reload
  <2>1. loads' \in Seq(Definition) /\ server' = server /\ edits' = edits
    BY SMTT(40), <1>10 DEF Reload
  <2>2. {dirty, errors}' \subseteq BOOLEAN
    BY <1>10 DEF Reload
  <2> QED BY <1>0, <2>1, <2>2
<1>11. CASE UploadSucceeds \/ UploadRejected \/ UploadFails \/ OtherTab \/ UNCHANGED vars
  BY <1>0, <1>11 DEF UploadSucceeds, UploadRejected, UploadFails, OtherTab, vars
<1> QED BY <1>0, <1>2, <1>3, <1>4, <1>5, <1>6, <1>7, <1>8, <1>9, <1>10, <1>11 DEF Next, User, Answer

\* The ids a dialog lists are ids of drafts, now or earlier.
LEMMA ListedStep ==
    ASSUME TypeOK, DraftsNumbered, [Next]_vars
    PROVE  listed' \subseteq 1 .. MaxDrafts
<1>1. {d.id : d \in drafts} \subseteq 1 .. MaxDrafts /\ listed \subseteq 1 .. MaxDrafts
  BY DEF TypeOK
<1>2. {d.id : d \in drafts'} \subseteq 1 .. MaxDrafts
  BY DraftsStep
<1>3. CASE \/ Edit \/ ReplaceAndDelete \/ Undo \/ Redo \/ runValidation
           \/ handleNewWorkflow \/ ConfirmNew \/ handleSubmit
           \/ handleUpload \/ ConfirmUpload \/ load
           \/ setView \/ handleChange \/ handleBlur
           \/ UploadSucceeds \/ UploadRejected \/ UploadFails \/ EngineStores \/ OtherTab
           \/ UNCHANGED vars
  BY <1>1, <1>3 DEF Edit, ReplaceAndDelete, Undo, Redo, runValidation, handleNewWorkflow,
                    ConfirmNew, handleSubmit, handleUpload, ConfirmUpload, load, setView,
                    handleChange, handleBlur, UploadSucceeds, UploadRejected, UploadFails,
                    EngineStores, OtherTab, vars
<1>4. CASE OpenDialog \/ Cancel \/ handleSave \/ handleRestore \/ handleDelete \/ Reload
  BY <1>1, <1>2, <1>4 DEF OpenDialog, Cancel, handleSave, handleRestore, loadDraft, handleDelete,
                          Reload
<1>5. ASSUME NEW n \in DOMAIN loads, LoadArrives(n) \/ LoadFails(n)
      PROVE  listed' \subseteq 1 .. MaxDrafts
  BY <1>1, <1>5 DEF LoadArrives, LoadFails
<1> QED BY <1>3, <1>4, <1>5 DEF Next, User, Answer

\* Only the answer to the question starts an upload, and none starts over errors.
LEMMA UploadStep ==
    ASSUME TypeOK, UploadAsked, [Next]_vars
    PROVE  /\ UploadType' /\ DialogType' /\ UploadAsked'
           /\ upload = NoUpload /\ upload' # NoUpload => ~errors
<1>0. UploadType /\ DialogType /\ definition \in Definition
  BY DEF TypeOK, UploadType, DialogType
<1>1. ASSUME UNCHANGED <<upload, dialog>>, errors' = errors \/ ~errors'
      PROVE  UploadType' /\ DialogType' /\ UploadAsked'
  BY SMTT(40), <1>0, <1>1 DEF UploadType, DialogType, UploadAsked
<1>2. ASSUME upload' = upload, DialogType', dialog'.kind # "upload?"
      PROVE  UploadType' /\ DialogType' /\ UploadAsked'
  BY <1>0, <1>2 DEF UploadType, UploadAsked
<1>3. CASE \/ Edit \/ ReplaceAndDelete \/ Undo \/ Redo \/ setView \/ handleChange \/ OtherTab
           \/ handleBlur \/ load \/ handleSave \/ UNCHANGED vars
  <2>1. UNCHANGED <<upload, dialog>> /\ (errors' = errors \/ ~errors')
    BY <1>3 DEF Edit, ReplaceAndDelete, Undo, Redo, setView, handleChange, OtherTab, handleBlur,
                load, handleSave, vars
  <2> QED BY <1>1, <2>1
<1>4. CASE OpenDialog \/ Cancel \/ runValidation
  <2>1. upload' = upload
    BY <1>4 DEF OpenDialog, Cancel, runValidation
  <2>2. dialog'.kind \in {"none", "import", "browser", "drafts"}
    <3>1. CASE OpenDialog
      BY SMTT(40), <3>1 DEF OpenDialog, Show
    <3>2. CASE Cancel
      BY SMTT(40), <3>2 DEF Cancel, NoDialog
    <3>3. CASE runValidation
      BY <3>3 DEF runValidation, NoDialog
    <3> QED BY <1>4, <3>1, <3>2, <3>3
  <2> QED BY <1>2, <2>1, <2>2 DEF DialogType
<1>5. CASE handleNewWorkflow \/ ConfirmNew \/ handleSubmit
  <2>1. upload' = upload /\ DialogType' /\ dialog'.kind # "upload?"
    BY SMTT(40), <1>5 DEF handleNewWorkflow, ConfirmNew, handleSubmit, DialogType, NoDialog
  <2> QED BY <1>2, <2>1
<1>6. CASE handleRestore \/ handleDelete
  <2>1. upload' = upload /\ DialogType' /\ dialog'.kind # "upload?"
    <3>1. CASE handleRestore
      <4>1. \/ dialog' = [kind |-> "drafts"] \/ dialog' = NoDialog
            \/ \E id \in listed : dialog' = [kind |-> "restore?", id |-> id]
        BY <3>1 DEF handleRestore, loadDraft
      <4>2. upload' = upload
        BY <3>1 DEF handleRestore
      <4> QED BY SMTT(40), <4>1, <4>2 DEF DialogType, NoDialog
    <3>2. CASE handleDelete
      <4>1. \/ dialog' = [kind |-> "drafts"]
            \/ \E id \in listed : dialog' = [kind |-> "delete?", id |-> id]
        BY <3>2 DEF handleDelete
      <4>2. upload' = upload
        BY <3>2 DEF handleDelete
      <4> QED BY SMTT(40), <4>1, <4>2 DEF DialogType
    <3> QED BY <1>6, <3>1, <3>2
  <2> QED BY SMTT(40), <1>2, <2>1
<1>7. CASE Reload
  BY <1>7 DEF Reload, UploadType, DialogType, UploadAsked, NoDialog
<1>8. CASE handleUpload
  BY <1>0, <1>8 DEF handleUpload, Show, uploading, UploadType, DialogType, UploadAsked
<1>9. CASE ConfirmUpload
  BY <1>0, <1>9 DEF ConfirmUpload, UploadType, DialogType, UploadAsked, NoDialog
<1>10. CASE EngineStores \/ UploadSucceeds \/ UploadRejected \/ UploadFails
  <2>1. upload # NoUpload /\ dialog' = dialog
    <3>1. dialog' = dialog
      BY <1>10 DEF EngineStores, UploadSucceeds, UploadRejected, UploadFails
    <3>2. upload # NoUpload \/ upload.phase = "sent" \/ upload.phase = "stored"
      BY <1>10 DEF EngineStores, UploadSucceeds, UploadRejected, UploadFails, uploading
    <3> QED BY SMTT(40), <3>1, <3>2 DEF NoUpload
  <2>2. UploadType'
    BY <1>0, <1>10 DEF EngineStores, UploadSucceeds, UploadRejected, UploadFails, UploadType
  <2> QED BY <1>0, <2>1, <2>2 DEF DialogType, UploadAsked
<1>11. CASE \E n \in DOMAIN loads : LoadArrives(n) \/ LoadFails(n)
  <2>1. /\ upload' = upload /\ (errors' = errors \/ ~errors')
        /\ dialog' = dialog \/ (dialog'.kind = "none")
    <3>1. /\ upload' = upload /\ (errors' = errors \/ errors' = FALSE)
          /\ dialog' = dialog \/ dialog' = NoDialog
      BY <1>11 DEF LoadArrives, LoadFails, Open
    <3> QED BY SMTT(40), <3>1 DEF NoDialog
  <2> QED BY <1>1, <1>2, <2>1 DEF DialogType
<1>12. UploadType' /\ DialogType' /\ UploadAsked'
  BY <1>3, <1>4, <1>5, <1>6, <1>7, <1>8, <1>9, <1>10, <1>11 DEF Next, User, Answer
<1>13. ConfirmUpload \/ upload' = upload \/ upload' = NoUpload \/ upload # NoUpload
  <2>1. CASE \/ Edit \/ ReplaceAndDelete \/ Undo \/ Redo \/ setView \/ handleChange \/ OtherTab
             \/ handleBlur \/ load \/ handleSave \/ UNCHANGED vars
    BY <2>1 DEF Edit, ReplaceAndDelete, Undo, Redo, setView, handleChange, OtherTab, handleBlur,
                load, handleSave, vars
  <2>2. CASE \/ OpenDialog \/ Cancel \/ runValidation \/ handleNewWorkflow \/ ConfirmNew
             \/ handleSubmit \/ handleRestore \/ handleDelete \/ handleUpload \/ Reload
    BY <2>2 DEF OpenDialog, Cancel, runValidation, handleNewWorkflow, ConfirmNew, handleSubmit,
                handleRestore, handleDelete, handleUpload, Reload
  <2>3. CASE EngineStores \/ UploadSucceeds \/ UploadRejected \/ UploadFails
    BY SMTT(40), <2>3 DEF EngineStores, UploadSucceeds, UploadRejected, UploadFails, NoUpload
  <2>4. CASE \E n \in DOMAIN loads : LoadArrives(n) \/ LoadFails(n)
    BY <2>4 DEF LoadArrives, LoadFails
  <2> QED BY <2>1, <2>2, <2>3, <2>4 DEF Next, User, Answer
<1>14. ConfirmUpload => ~errors
  BY DEF ConfirmUpload, UploadAsked
<1> QED BY <1>12, <1>13, <1>14

\* Every step keeps the invariant.
LEMMA NextIInv == IInv /\ [Next]_vars => IInv'
<1> SUFFICES ASSUME TypeOK, HistoryFits, UploadAsked, DraftsNumbered, [Next]_vars PROVE IInv'
  BY DEF IInv
<1>1. /\ definition' \in Definition /\ past' \in Seq(Definition) /\ future' \in Seq(Definition)
      /\ HistoryFits'
  BY HistoryStep DEF HistoryFits
<1>2. Len(past)' <= HISTORY_LIMIT
  <2>1. Len(past') \in Nat /\ Len(future') \in Nat
    BY SMTT(40), <1>1
  <2> QED BY SMTT(40), <2>1, <1>1, HistoryAssumption DEF HistoryFits
<1>3. TypeOK'
  BY <1>1, <1>2, DraftsStep, JsonStep, RequestsStep, ListedStep, UploadStep
     DEF TypeOK, JsonType, DialogType, UploadType
<1> QED BY <1>1, <1>3, DraftsStep, UploadStep DEF IInv

--------------------------------------------------------------------------------
(* Theorems. *)

\* The inductive invariant holds in every state.
THEOREM Invariance == Spec => []IInv
BY InitIInv, NextIInv, PTL DEF Spec

\* The editor's state keeps its type, and the undo history its limit.
THEOREM TypeCorrect == Spec => []TypeOK
<1>1. IInv => TypeOK
  BY DEF IInv
<1> QED BY <1>1, Invariance, PTL

\* A save never loses a draft another tab saved, and no step removes two.
THEOREM DraftsKept == Spec => DraftsSurvive
<1>1. IInv /\ [Next]_vars => [\/ drafts \subseteq drafts'
                              \/ \E d \in drafts : drafts' = drafts \ {d}]_drafts
  BY DraftsStep DEF IInv
<1> QED BY <1>1, Invariance, PTL DEF Spec, DraftsSurvive

\* No upload starts over an error, whenever the answer to an earlier one arrives.
THEOREM UploadsWithoutErrors == Spec => NoUploadOverErrors
<1>1. IInv /\ [Next]_vars => [upload = NoUpload /\ upload' # NoUpload => ~errors]_upload
  BY UploadStep DEF IInv
<1> QED BY <1>1, Invariance, PTL DEF Spec, NoUploadOverErrors

--------------------------------------------------------------------------------
(* The store implements EditHistory. *)

trail == past \o <<definition>> \o Reversed(future)
at    == Len(past) + 1

\* Recording on the trail is the abstract step.
LEMMA RecordSimulation ==
    ASSUME NEW n \in {1, 2}, Records(trail, trail', at, at', n)
    PROVE  History!Record(n)
BY DEF History!Record, Records, trail, at

\* A step records, moves along the trail, starts it again or leaves it.
LEMMA HistorySimulation == IInv /\ [Next]_vars => [History!Next]_<<trail, at>>
<1> SUFFICES ASSUME IInv, [Next]_vars PROVE [History!Next]_<<trail, at>>
  OBVIOUS
<1>0. /\ definition \in Definition /\ past \in Seq(Definition) /\ future \in Seq(Definition)
      /\ Len(past) \in Nat /\ Len(future) \in Nat /\ Len(past) <= HISTORY_LIMIT
  BY SMTT(40) DEF IInv, TypeOK
<1>1. definition' \in Definition /\ past' \in Seq(Definition) /\ future' \in Seq(Definition)
  BY HistoryStep DEF IInv
<1>2. trail = Trail(past, definition, future) /\ trail' = Trail(past', definition', future')
  BY DEF trail, Trail
<1>3. CASE Stays
  BY <1>3 DEF Stays, trail, at
<1>4. CASE Sets
  <2>1. past' = Remember(past, definition) /\ future' = <<>>
    BY <1>4 DEF Sets, set
  <2>2. Records(trail, trail', at, at', 1)
    BY <1>0, <1>1, <1>2, <2>1, RecordsOne DEF at
  <2>3. History!Record(1)
    BY <2>2, RecordSimulation
  <2> QED BY <2>3 DEF History!Next
<1>5. CASE Replaces
  <2>1. PICK x \in Definition : past' = Remember(Remember(past, definition), x)
    BY <1>5 DEF Replaces
  <2>2. Records(trail, trail', at, at', 2)
    <3>1. future' = <<>>
      BY <1>5 DEF Replaces
    <3> QED BY <1>0, <1>1, <1>2, <2>1, <3>1, RecordsTwo DEF at
  <2>3. History!Record(2)
    BY <2>2, RecordSimulation
  <2> QED BY <2>3 DEF History!Next
<1>6. CASE Undo
  <2>1. /\ past' = SubSeq(past, 1, Len(past) - 1) /\ definition' = past[Len(past)]
        /\ future' = Append(future, definition) /\ past # <<>>
    BY <1>6 DEF Undo
  <2>2. Len(past) > 0
    BY SMTT(40), <1>0, <2>1
  <2>3. IsFront(past', past)
    BY <1>0, <2>1, <2>2, Fronts
  <2>4. Len(past') = Len(past) - 1 /\ \A n \in 1 .. Len(past') : past'[n] = past[n]
    BY <2>3 DEF IsFront
  <2>5. trail' = trail
    <3>1. Moves(past, definition, future, past', definition', future')
      BY <2>1, <2>2, <2>4 DEF Moves
    <3> QED BY SMTT(40), <1>0, <1>1, <1>2, <3>1, TrailMoves
  <2>6. at > 1 /\ at' = at - 1
    BY SMTT(40), <1>0, <2>2, <2>4 DEF at
  <2> QED BY <2>5, <2>6 DEF History!Next, History!Undo, trail, at
<1>7. CASE Redo
  <2>1. /\ future' = SubSeq(future, 1, Len(future) - 1) /\ definition' = future[Len(future)]
        /\ past' = Append(past, definition) /\ future # <<>>
    BY SMTT(40), <1>7 DEF Redo
  <2>2. Len(future) > 0
    BY SMTT(40), <1>0, <2>1
  <2>3. /\ Len(past') = Len(past) + 1 /\ past'[Len(past')] = definition
        /\ \A n \in 1 .. Len(past) : past[n] = past'[n]
    BY SMTT(40), <1>0, <2>1
  <2>4. future = Append(future', definition')
    <3>1. IsFront(future', future)
      BY <1>0, <2>1, <2>2, Fronts
    <3> QED BY SMTT(40), <1>0, <1>1, <2>1, <2>2, <3>1 DEF IsFront
  <2>5. trail' = trail
    <3>1. Moves(past', definition', future', past, definition, future)
      BY SMTT(40), <1>0, <2>3, <2>4 DEF Moves
    <3> QED BY SMTT(40), <1>0, <1>1, <1>2, <3>1, TrailMoves
  <2>6. at < Len(trail) /\ at' = at + 1
    <3>1. Len(trail) = Len(past) + 1 + Len(future)
      BY <1>0, <1>2, TrailLists DEF Lists
    <3> QED BY SMTT(40), <1>0, <2>2, <2>3, <3>1 DEF at
  <2> QED BY <2>5, <2>6 DEF History!Next, History!Redo, trail, at
<1>8. CASE Forgets
  <2>1. at' = 1
    BY SMTT(40), <1>8 DEF Forgets, at
  <2>2. trail' = <<definition>>
    BY SMTT(40), <1>0, <1>8 DEF Forgets, trail, Reversed
  <2>3. trail[at] = definition
    BY <1>0, <1>2, TrailLists DEF Lists, at
  <2> QED BY <2>1, <2>2, <2>3 DEF History!Next, History!Forget, trail, at
<1> QED BY <1>3, <1>4, <1>5, <1>6, <1>7, <1>8, StepShape DEF IInv

\* Undo and redo walk along what the edits recorded, whatever writes the definition.
THEOREM StoreImplementsEditHistory == Spec => ImplementsEditHistory
<1>1. Init => History!Init
  BY SMTT(40) DEF Init, History!Init, Reversed
<1>2. IInv /\ [Next]_vars => [History!Next]_<<trail, at>>
  BY HistorySimulation
<1> QED BY <1>1, <1>2, Invariance, PTL DEF Spec, ImplementsEditHistory, History!Spec, trail, at
================================================================================
