------------------------------ MODULE MonitorLists ------------------------------
(***************************************************************************)
(* The screens of the monitor that list things: process instances,         *)
(* incidents and the overview.  What a screen shows is decided by the URL  *)
(* alone: filters, cursors and the selected definition are its parameters, *)
(* and every query is cached under the parameters it was asked with.       *)
(* The user applies filters, turns pages, follows links and goes back and  *)
(* forth in the browser's history while lists are polled.  What is in the  *)
(* filter form is chosen when it is applied; which instance a link opens   *)
(* is left out, because the screen of an instance is a part of its own.    *)
(***************************************************************************)
EXTENDS MonitorBrowser

CONSTANTS InstanceInputs, IncidentInputs,   \* filters the user may enter
          Ages, Words,                      \* minimum step ages, workflow searches
          ListLimit,                        \* rows of a page
          MaxPushes                         \* bound on navigation; a fault takes two off it

VARIABLES entries, position,   \* the browser's history of locations
          cache                \* queries, by key

InstancesAt(f, c) == [path |-> "/", filters |-> f, cursor |-> c]
IncidentsAt(f, c) == [path |-> "/incidents", filters |-> f, cursor |-> c]
InstanceAt        == [path |-> "/process-instances"]
IncidentAt(id)    == [path |-> "/incidents/id", id |-> id]
OverviewAt(w, d, a, c, s) ==
    [path |-> "/overview", workflow |-> w, definition |-> d, age |-> a, cursor |-> c, stepCursor |-> s]
NoOverview        == OverviewAt(0, <<>>, 1, <<>>, <<>>)

location == entries[position]

--------------------------------------------------------------------------------
(* Requests, their keys and their answers. *)

StepScope(at) == StepsScope(at.definition[1], at.definition[2], at.age)

Requests(at) ==
    IF at.path = "/" THEN {[api |-> "instances", filters |-> at.filters, cursor |-> at.cursor]}
    ELSE IF at.path = "/incidents" THEN {[api |-> "incidents", filters |-> at.filters, cursor |-> at.cursor]}
    ELSE IF at.path = "/incidents/id" THEN {[api |-> "incident", filters |-> [id |-> at.id], cursor |-> <<>>]}
    ELSE IF at.path = "/overview"
    THEN {[api |-> "definitions", filters |-> [workflow |-> at.workflow], cursor |-> at.cursor]} \cup
         IF at.definition = <<>> THEN {}
         ELSE {[api |-> "steps", filters |-> StepScope(at), cursor |-> at.stepCursor]}
    ELSE {}

\* Broken: the cursor is not part of the key.
queryKeyOfFilters(request) == [request EXCEPT !.cursor = <<>>]

queryKey(request) == request

Keys(at) == {queryKey(r) : r \in Requests(at)}

fetchList(db, request) ==
    LET f == request.filters
        c == request.cursor
    IN  IF request.api = "instances" THEN listInstances(db, f, c, ListLimit)
        ELSE IF request.api = "incidents" THEN listIncidents(db, f, c, ListLimit)
        ELSE IF request.api = "incident" THEN incidentDetail(db, f.id)
        ELSE IF request.api = "definitions" THEN overviewDefinitions(db, f.workflow, c, ListLimit)
        ELSE overviewSteps(db, f.definitionId, f.definitionVersion, f.age, c, ListLimit)

\* A cached query: refused after a FilterError; asked is the request of the newest
\* fetch, answers the request that the data answer.
NoEntry(request) == [q |-> NoQuery, refused |-> FALSE, asked |-> request, answers |-> request]

Refetched(entry, request, cancelRefetch) ==
    LET q == Fetch(entry.q, cancelRefetch)
    IN  [entry EXCEPT !.q = [q EXCEPT !.joined = FALSE],
                      !.refused = @ /\ q.failed,
                      !.asked = IF q.joined THEN @ ELSE request]

\* The active queries in active are fetched, those that are new are created.
CacheWith(active, cancelRefetch) ==
    [k \in DOMAIN cache \cup {queryKey(r) : r \in active} |->
        IF \E r \in active : queryKey(r) = k
        THEN LET r == CHOOSE r \in active : queryKey(r) = k
             IN  Refetched(IF k \in DOMAIN cache THEN cache[k] ELSE NoEntry(r), r, cancelRefetch)
        ELSE cache[k]]

--------------------------------------------------------------------------------
(* What the screen shows. *)

RequestOf(api) == CHOOSE r \in Requests(location) : r.api = api
EntryOf(api)   == cache[queryKey(RequestOf(api))]
Loaded(api)    == (\E r \in Requests(location) : r.api = api) /\ EntryOf(api).q.data # 0
Pending(api)   == EntryOf(api).q.data = 0 /\ ~EntryOf(api).q.failed
Response(api)  == fetchList(Runs[run][EntryOf(api).q.data], EntryOf(api).answers)

ListApi == IF location.path = "/" THEN "instances" ELSE "incidents"
OnList  == location.path \in {"/", "/incidents"} /\ ~Pending(ListApi)

--------------------------------------------------------------------------------
(* Navigation. *)

\* The queries of the new location are fetched on mount, or when their key changes.
Arrive(at) ==
    LET old == IF at.path = location.path THEN Keys(location) ELSE {}
    IN  cache' = CacheWith({r \in Requests(at) : queryKey(r) \notin old}, FALSE)

push(at) ==
    /\ Move(MaxPushes - 2 * faults)
    /\ entries' = Append(SubSeq(entries, 1, position), at)
    /\ position' = position + 1
    /\ Arrive(at)

back ==
    /\ position > 1 /\ Move(MaxPushes - 2 * faults)
    /\ position' = position - 1 /\ UNCHANGED entries
    /\ Arrive(entries[position - 1])

BrowserForward ==
    /\ position < Len(entries) /\ Move(MaxPushes - 2 * faults)
    /\ position' = position + 1 /\ UNCHANGED entries
    /\ Arrive(entries[position + 1])

Sidebar ==
    \E at \in {InstancesAt(NoFilters, <<>>), IncidentsAt(NoIncidentFilters, <<>>), NoOverview} :
        at.path # location.path /\ push(at)

--------------------------------------------------------------------------------
(* The two lists. *)

Inputs == IF location.path = "/" THEN InstanceInputs ELSE IncidentInputs
ListAt(f, c) == IF location.path = "/" THEN InstancesAt(f, c) ELSE IncidentsAt(f, c)

timeRangeError(from, to) ==
    \/ Malformed \in {from, to}
    \/ from # Absent /\ to # Absent /\ from >= to

\* Broken: the page number survives the new filters.
applyFiltersOnPage ==
    /\ OnList
    /\ \E f \in Inputs :
          ~timeRangeError(f.from, f.to) /\ ListAt(f, <<>>) # location /\ push(ListAt(f, location.cursor))

\* Applying what is applied already only lengthens the history.
applyFilters ==
    /\ OnList
    /\ \E f \in Inputs :
          ~timeRangeError(f.from, f.to) /\ ListAt(f, <<>>) # location /\ push(ListAt(f, <<>>))

moveToCursor(c) == push(ListAt(location.filters, c))

Newest   == OnList /\ location.cursor # <<>> /\ moveToCursor(<<>>)
Previous == OnList /\ location.cursor # <<>> /\ back
Next_    == /\ OnList /\ Loaded(ListApi) /\ Response(ListApi).nextCursor # <<>>
            /\ moveToCursor(Response(ListApi).nextCursor)

OpenRow ==
    /\ OnList /\ Loaded(ListApi)
    /\ \E row \in Response(ListApi).items :
          push(IF location.path = "/" THEN InstanceAt ELSE IncidentAt(row.id))

\* Open by Instance ID; the id is trimmed and must not be empty.
LookupInstance ==
    location.path = "/" /\ OnList /\ push(InstanceAt)

\* The link of an incident to its process instance.
OpenIncidentInstance ==
    /\ location.path = "/incidents/id" /\ Loaded("incident")
    /\ push(InstanceAt)

--------------------------------------------------------------------------------
(* The overview. *)

OnOverview == location.path = "/overview"

searchWorkflows ==
    /\ OnOverview
    /\ \E w \in Words : push(OverviewAt(w, <<>>, location.age, <<>>, <<>>))

InspectDefinition ==
    /\ OnOverview /\ Loaded("definitions")
    /\ \E row \in Response("definitions").items :
          push(OverviewAt(location.workflow, row.key, location.age, location.cursor, <<>>))

ApplyAge ==
    /\ OnOverview /\ location.definition # <<>>
    /\ \E age \in Ages : push(OverviewAt(location.workflow, location.definition, age, location.cursor, <<>>))

moveToWorkflows(c) ==
    push(OverviewAt(location.workflow, location.definition, location.age, c, location.stepCursor))

WorkflowPages ==
    /\ OnOverview
    /\ \/ location.cursor # <<>> /\ moveToWorkflows(<<>>)
       \/ /\ Loaded("definitions") /\ Response("definitions").nextCursor # <<>>
          /\ moveToWorkflows(Response("definitions").nextCursor)

moveToSteps(c) ==
    push(OverviewAt(location.workflow, location.definition, location.age, location.cursor, c))

StepPages ==
    /\ OnOverview /\ location.definition # <<>>
    /\ \/ location.stepCursor # <<>> /\ moveToSteps(<<>>)
       \/ /\ Loaded("steps") /\ Response("steps").nextCursor # <<>>
          /\ moveToSteps(Response("steps").nextCursor)

\* The search a count links to.
instanceLink(id, version, statuses, step, cutoff) ==
    [NoFilters EXCEPT !.definitionId = id, !.definitionVersion = version, !.statuses = statuses,
                      !.currentStepId = step, !.stepStartedBefore = cutoff]

FollowCount ==
    /\ OnOverview
    /\ \/ /\ Loaded("definitions")
          /\ \E row \in Response("definitions").items, st \in {"ACTIVE", "WAITING", "FAILED"} :
                push(InstancesAt(instanceLink(row.key[1], row.key[2], {st}, 0, Absent), <<>>))
       \/ /\ Loaded("steps")
          /\ \E row \in Response("steps").items, cutoff \in {Absent, Response("steps").stepStartedBefore} :
                push(InstancesAt(instanceLink(location.definition[1], location.definition[2],
                                              {"ACTIVE", "WAITING"}, row.key[1], cutoff), <<>>))

--------------------------------------------------------------------------------
(* Polling and the network. *)

\* refetchInterval: not after a refusal, not in a hidden tab.
PollList ==
    /\ visible
    /\ \E r \in Requests(location) :
          /\ ~cache[queryKey(r)].refused /\ cache[queryKey(r)].q.flight = Idle
          /\ cache' = CacheWith({r}, FALSE)
    /\ UNCHANGED <<browser, entries, position>>

RefreshList ==
    /\ Requests(location) # {} /\ Move(MaxPushes - 2 * faults)
    /\ cache' = CacheWith(Requests(location), TRUE)
    /\ UNCHANGED <<entries, position>>

\* The answer is read and arrives; one that is late is the same as one not yet read,
\* because nothing here depends on how old the rows are.
ListAnswered ==
    /\ \E k \in DOMAIN cache :
          /\ cache[k].q.flight = Sent
          /\ LET entry  == cache[k]
                 status == fetchList(Runs[run][now], entry.asked).status
             IN  cache' = [cache EXCEPT ![k] =
                     IF status = 200
                     THEN [entry EXCEPT !.q = Answered(AtNow(@)), !.refused = FALSE, !.answers = entry.asked]
                     ELSE [entry EXCEPT !.q = Broken(@), !.refused = status = 400]]
    /\ UNCHANGED <<browser, entries, position>>

ListFails ==
    /\ Fault /\ moves + 2 <= MaxPushes /\ UNCHANGED online
    /\ \E k \in DOMAIN cache :
          Flying(cache[k].q) /\ cache' = [cache EXCEPT ![k].q = Broken(@), ![k].refused = FALSE]
    /\ UNCHANGED <<entries, position>>

\* Stale active queries are fetched again on focus and on reconnection.
Refocus(cached) ==
    [k \in DOMAIN cached |->
        LET q == Resumed(cached[k].q)
        IN  [cached[k] EXCEPT !.q = IF k \in Keys(location) /\ q.flight = Idle
                                    THEN [Start(q) EXCEPT !.flight = Sent] ELSE q,
                              !.refused = @ /\ q.data # 0]]

HideList   == Hides /\ UNCHANGED <<entries, position, cache>>
LoseList   == Drops /\ moves + 2 <= MaxPushes /\ UNCHANGED <<entries, position, cache>>
ReturnList ==
    /\ Shows \/ Reconnects
    /\ cache' = IF visible' /\ online' THEN Refocus(cache) ELSE cache
    /\ UNCHANGED <<entries, position>>

--------------------------------------------------------------------------------

ListsInit ==
    /\ BrowserInit
    /\ entries \in {<<InstancesAt(NoFilters, <<>>)>>, <<IncidentsAt(NoIncidentFilters, <<>>)>>, <<NoOverview>>}
    /\ position = 1
    /\ cache = [k \in Keys(entries[1]) |->
                   [NoEntry(CHOOSE r \in Requests(entries[1]) : queryKey(r) = k)
                       EXCEPT !.q.flight = Sent]]

ListsNext ==
    \/ Commits /\ UNCHANGED <<entries, position, cache>>
    \/ PollList \/ RefreshList \/ ListAnswered \/ ListFails
    \/ HideList \/ LoseList \/ ReturnList
    \/ back \/ BrowserForward \/ Sidebar
    \/ applyFilters \/ Newest \/ Previous \/ Next_ \/ OpenRow \/ LookupInstance \/ OpenIncidentInstance
    \/ searchWorkflows \/ InspectDefinition \/ ApplyAge \/ WorkflowPages \/ StepPages \/ FollowCount

listsVars == <<browser, entries, position, cache>>

ListsSpec == ListsInit /\ [][ListsNext]_listsVars

--------------------------------------------------------------------------------
(* Properties. *)

\* However the user gets to a location by the controls of the screens, its cursors
\* were issued for its filters: the API never refuses a page as foreign.
CursorsFitFilters ==
    \A n \in DOMAIN entries : \A r \in Requests(entries[n]) : decodeCursor(r.cursor, r.filters)

\* The rows on the screen answer the filters and the page in the URL, whatever was
\* under way when the user went there: no late answer of another search is shown.
ShownRowsAnswerTheLocation ==
    \A r \in Requests(location) :
        cache[queryKey(r)].q.data # 0 => cache[queryKey(r)].answers = r
================================================================================
