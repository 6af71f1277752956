------------------------------ MODULE MonitorInstance ------------------------------
(***************************************************************************)
(* The Process Instance screen of the monitor: its three queries, the      *)
(* refresh cycle that reads the status first and the history after it,     *)
(* polling, the pages of the step history and the snapshot inspectors.     *)
(***************************************************************************)
EXTENDS MonitorBrowser

CONSTANTS InstanceId,    \* the instance on the screen
          HistoryLimit   \* step executions of a page

ASSUME HistoryLimitAssumption == pageSize(HistoryLimit)

VARIABLES detailQ,                \* ["process-instance", id]
          executionsQ,            \* ["step-executions", id, cursor], by cursor
          variablesQ,             \* ["current-variables", id]
          snapshotsQ,             \* ["variable-snapshots", id, execution], by execution
          cursor, cursorHistory,  \* stepExecutionCursor, stepExecutionCursorHistory
          detailView, historyView,
          inspected,              \* inspectedExecutionId
          expanded,               \* the execution whose inspector is expanded
          cycle                   \* what refresh awaits

queries == <<detailQ, executionsQ, variablesQ, snapshotsQ>>
views   == <<cursor, cursorHistory, detailView, historyView, inspected, expanded>>
--------------------------------------------------------------------------------
(* What the screen shows. *)

\* The answers to the screen's requests, by run, database state and cursor.
Details == [r \in DOMAIN Runs |-> [k \in DOMAIN Runs[r] |-> detail(Runs[r][k], InstanceId)]]
Cursors(r) ==
    {<<>>} \cup {encodeCursor(e.startedAt, e.id, [instanceId |-> InstanceId]) :
                    e \in UNION {Runs[r][k].executions : k \in DOMAIN Runs[r]}}
Histories ==
    [r \in DOMAIN Runs |-> [k \in DOMAIN Runs[r] |-> [c \in Cursors(r) |->
        listStepExecutions(Runs[r][k], InstanceId, c, HistoryLimit)]]]

Shown == detailQ.data # 0
status == Details[run][detailQ.data].instance.status

historyPage == executionsQ[cursor]
Items(k, c) == IF k = 0 THEN {} ELSE Histories[run][k][c].items
items == Items(historyPage.data, cursor)
nextCursor == Histories[run][historyPage.data][cursor].nextCursor

HasSnapshots(e) == e.input # <<>> \/ e.output # <<>>
Signature(e)    == <<e.id, e.status, e.input # <<>>, e.output # <<>>>>

\* The inspectors on a screen: one per row of the variables tab, one on the timeline.
Inspectors(view, history, id, rows) ==
    IF view = "variables" THEN rows
    ELSE IF history = "timeline" THEN {e \in rows : e.id = id} ELSE {}
mounted == Inspectors(detailView, historyView, inspected, items)
Ids(rows) == {e.id : e \in rows}

\* The query of an inspector is enabled while it is expanded and there is something to read.
Enabled(e) == e.id = expanded /\ HasSnapshots(e)

\* staleTime: only the snapshots of a completed attempt are kept as they are.
SnapshotsStale(q, e) == q.data = 0 \/ q.invalid \/ e.status # "COMPLETED"

\* Broken: an error of the detail request does not keep the screen polling.
shouldPollUnlessFailed ==
    \/ Shown /\ status \in {"ACTIVE", "WAITING"}
    \/ Stale(historyPage)
    \/ detailView = "variables" /\ Stale(variablesQ)

shouldPoll ==
    \/ Shown /\ status \in {"ACTIVE", "WAITING"}
    \/ Stale(detailQ)
    \/ Stale(historyPage)
    \/ detailView = "variables" /\ Stale(variablesQ)

--------------------------------------------------------------------------------
(* The refresh cycle. *)

\* refetch({cancelRefetch: false}), awaited.
Await(q) == [Fetch(q, FALSE) EXCEPT !.awaited = TRUE, !.joined = FALSE]

NoCycle == [phase |-> "none", view |-> "overview", cursor |-> <<>>]

\* The promise of Promise.all resolves once every request it awaits has settled.
Settled(c, executions, variables) ==
    IF /\ c.phase = "rest" /\ executions[c.cursor].flight = Idle
       /\ c.view = "variables" => variables.flight = Idle
    THEN NoCycle ELSE c

\* Broken: status and history are requested at the same time.
refreshAtOnce ==
    IF cycle.phase # "none" THEN UNCHANGED <<queries, cycle>>
    ELSE /\ detailQ' = Await(detailQ)
         /\ executionsQ' = [executionsQ EXCEPT ![cursor] = Fetch(@, TRUE)]
         /\ cycle' = [phase |-> "rest", view |-> "overview", cursor |-> cursor]
         /\ UNCHANGED <<variablesQ, snapshotsQ>>

\* refresh up to its first await; the closure keeps the view it was made for.
refresh ==
    IF cycle.phase # "none" THEN UNCHANGED <<queries, cycle>>
    ELSE /\ detailQ' = Await(detailQ)
         /\ cycle' = [phase |-> "detail", view |-> detailView, cursor |-> <<>>]
         /\ UNCHANGED <<executionsQ, variablesQ, snapshotsQ>>

\* The rest of refresh, after the detail request q has settled.
afterDetail(q) ==
    /\ detailQ' = q
    /\ IF cycle.phase = "detail"
       THEN /\ executionsQ' = [executionsQ EXCEPT ![cursor] = Fetch(@, TRUE)]
            /\ variablesQ' = IF cycle.view = "variables" THEN [Fetch(variablesQ, TRUE) EXCEPT !.joined = FALSE]
                             ELSE variablesQ
            /\ cycle' = [cycle EXCEPT !.phase = "rest", !.cursor = cursor]
       ELSE UNCHANGED <<executionsQ, variablesQ, cycle>>
    /\ UNCHANGED snapshotsQ

\* Broken: a changed attempt does not make its inspector reload.
invalidateNothing(q, enabled) == q

\* The effect of an inspector whose attempt's signature changed.  A request that a
\* collapsed inspector has under way goes on, and its answer counts as valid.
invalidateQueries(q, enabled) ==
    IF enabled THEN Fetch([q EXCEPT !.invalid = TRUE], TRUE)
    ELSE [q EXCEPT !.invalid = TRUE, !.joined = @ \/ q.flight # Idle]

\* The query of execution n once the inspectors of after are on the screen, those
\* in kept since before, and opened is the one that is expanded.
snapshotsOn(n, before, after, kept, opened) ==
    LET q       == IF n \in Ids(before) \ kept THEN [snapshotsQ[n] EXCEPT !.left = TRUE] ELSE snapshotsQ[n]
        enabled == n = opened /\ \E e \in after : e.id = n /\ HasSnapshots(e)
    IN  IF n \in kept /\ \E e \in after, f \in before : e.id = n /\ f.id = n /\ Signature(e) # Signature(f)
        THEN invalidateQueries(q, enabled)
        ELSE IF /\ enabled /\ ~(n \in kept /\ \E f \in before : f.id = n /\ Enabled(f))
                /\ \E e \in after : e.id = n /\ SnapshotsStale(q, e)
        THEN Fetch(q, FALSE)
        ELSE q

\* The screen goes on with other rows or in another view.  Inspectors that leave
\* it forget that they were expanded, the one of the timeline arrives expanded,
\* and the ones that stay compare signatures.
inspectorsOn(view, history, id, rows) ==
    \E before \in {mounted}, after \in {Inspectors(view, history, id, rows)} :
    \E kept \in {IF view = detailView /\ (view = "overview" => history = historyView)
                 THEN Ids(before) \cap Ids(after) ELSE {}} :
        /\ expanded' = IF view = "overview" /\ ~Ids(after) \subseteq kept THEN id
                       ELSE IF expanded \in kept THEN expanded ELSE 0
        /\ snapshotsQ' = [n \in DOMAIN snapshotsQ |-> snapshotsOn(n, before, after, kept, expanded')]

--------------------------------------------------------------------------------
(* The engine and the network. *)

CommitState ==
    /\ Commits
    /\ UNCHANGED <<queries, views, cycle>>

\* A request reaches the database.
ReadDetail ==
    /\ detailQ.flight = Sent /\ detailQ' = AtNow(detailQ)
    /\ UNCHANGED <<browser, views, executionsQ, variablesQ, snapshotsQ, cycle>>

ReadHistory ==
    /\ \E c \in DOMAIN executionsQ :
          executionsQ[c].flight = Sent /\ executionsQ' = [executionsQ EXCEPT ![c] = AtNow(@)]
    /\ UNCHANGED <<browser, views, detailQ, variablesQ, snapshotsQ, cycle>>

ReadVariables ==
    /\ variablesQ.flight = Sent /\ variablesQ' = AtNow(variablesQ)
    /\ UNCHANGED <<browser, views, detailQ, executionsQ, snapshotsQ, cycle>>

ReadSnapshots ==
    /\ \E id \in DOMAIN snapshotsQ :
          snapshotsQ[id].flight = Sent /\ snapshotsQ' = [snapshotsQ EXCEPT ![id] = AtNow(@)]
    /\ UNCHANGED <<browser, views, detailQ, executionsQ, variablesQ, cycle>>

DetailAnswered ==
    /\ detailQ.flight > 0
    /\ afterDetail(Answered(detailQ))
    /\ UNCHANGED <<browser, views>>

HistoryAnswered ==
    /\ \E c \in DOMAIN executionsQ :
          /\ executionsQ[c].flight > 0
          /\ executionsQ' = [executionsQ EXCEPT ![c] = Answered(@)]
          /\ IF c = cursor
             THEN inspectorsOn(detailView, historyView, inspected, Items(executionsQ[c].flight, c))
             ELSE UNCHANGED <<snapshotsQ, expanded>>
    /\ cycle' = Settled(cycle, executionsQ', variablesQ)
    /\ UNCHANGED <<browser, cursor, cursorHistory, detailView, historyView, inspected,
                   detailQ, variablesQ>>

VariablesAnswered ==
    /\ variablesQ.flight > 0
    /\ variablesQ' = Answered(variablesQ)
    /\ cycle' = Settled(cycle, executionsQ, variablesQ')
    /\ UNCHANGED <<browser, views, detailQ, executionsQ, snapshotsQ>>

SnapshotsAnswered ==
    /\ \E id \in DOMAIN snapshotsQ :
          /\ snapshotsQ[id].flight > 0
          /\ snapshotsQ' = [snapshotsQ EXCEPT ![id] = Answered(@)]
    /\ UNCHANGED <<browser, views, detailQ, executionsQ, variablesQ, cycle>>

\* retry: false, so that the first failure settles a request.
RequestFails ==
    /\ Fault /\ UNCHANGED <<online, views>>
    /\ \/ Flying(detailQ) /\ afterDetail(Broken(detailQ))
       \/ /\ \E c \in DOMAIN executionsQ :
                /\ Flying(executionsQ[c])
                /\ executionsQ' = [executionsQ EXCEPT ![c] = Broken(@)]
          /\ cycle' = Settled(cycle, executionsQ', variablesQ)
          /\ UNCHANGED <<detailQ, variablesQ, snapshotsQ>>
       \/ /\ Flying(variablesQ) /\ variablesQ' = Broken(variablesQ)
          /\ cycle' = Settled(cycle, executionsQ, variablesQ')
          /\ UNCHANGED <<detailQ, executionsQ, snapshotsQ>>
       \/ /\ \E id \in DOMAIN snapshotsQ :
                /\ Flying(snapshotsQ[id])
                /\ snapshotsQ' = [snapshotsQ EXCEPT ![id] = Broken(@)]
          /\ UNCHANGED <<detailQ, executionsQ, variablesQ, cycle>>

GoOffline ==
    /\ Drops
    /\ UNCHANGED <<queries, views, cycle>>

--------------------------------------------------------------------------------
(* The page: polling, focus and connection. *)

Poll ==
    /\ shouldPoll /\ visible /\ cycle.phase = "none"
    /\ refresh
    /\ UNCHANGED <<browser, views>>

\* Paused requests go on once the page is both visible and online, and stale
\* snapshots are read again; then the page's own listener runs refresh.
\* A cycle that waits for a paused request is still the one cycle.
Awake ==
    /\ \E rows \in {mounted} :
          snapshotsQ' = [id \in DOMAIN snapshotsQ |->
              IF /\ snapshotsQ[id].flight = Idle /\ id = expanded
                 /\ \E e \in rows : e.id = id /\ HasSnapshots(e) /\ SnapshotsStale(snapshotsQ[id], e)
              THEN [Start(snapshotsQ[id]) EXCEPT !.flight = Sent] ELSE Resumed(snapshotsQ[id])]
    /\ executionsQ' = [c \in DOMAIN executionsQ |-> Resumed(executionsQ[c])]
    /\ variablesQ' = Resumed(variablesQ)
    /\ detailQ' = IF cycle.phase # "none" THEN Resumed(detailQ)
                  ELSE [Await(Resumed(detailQ)) EXCEPT !.flight = IF @ = Paused THEN Sent ELSE @]
    /\ cycle' = IF cycle.phase # "none" THEN cycle
                ELSE [phase |-> "detail", view |-> detailView, cursor |-> <<>>]

GoOnline ==
    /\ Reconnects /\ UNCHANGED views
    /\ IF visible THEN Awake ELSE UNCHANGED <<queries, cycle>>

\* Shown while offline, the listener starts a cycle whose request is paused.
Show ==
    /\ Shows /\ UNCHANGED views
    /\ IF online THEN Awake ELSE refresh

--------------------------------------------------------------------------------
(* The user. *)

Hide ==
    /\ Hides
    /\ UNCHANGED <<queries, views, cycle>>

ClickRefresh ==
    /\ Shown \/ detailQ.failed
    /\ cycle.phase = "none" /\ Move(MaxMoves)
    /\ refresh
    /\ UNCHANGED views

SelectTab(view) ==
    /\ Shown /\ detailView # view /\ Move(MaxMoves)
    /\ detailView' = view
    /\ variablesQ' = IF view = "variables" THEN [Fetch(variablesQ, FALSE) EXCEPT !.joined = FALSE]
                     ELSE variablesQ
    /\ inspectorsOn(view, historyView, inspected, items)
    /\ UNCHANGED <<detailQ, executionsQ, cursor, cursorHistory, historyView, inspected, cycle>>

SelectHistory(history) ==
    /\ Shown /\ detailView = "overview" /\ historyView # history /\ Move(MaxMoves)
    /\ historyView' = history
    /\ inspectorsOn("overview", history, inspected, items)
    /\ UNCHANGED <<detailQ, executionsQ, variablesQ, cursor, cursorHistory, detailView, inspected, cycle>>

\* Inspect attempt, on the timeline.
Inspect ==
    /\ Shown /\ detailView = "overview" /\ historyView = "timeline" /\ Move(MaxMoves)
    /\ \E e \in items :
          /\ e.id # inspected /\ inspected' = e.id
          /\ inspectorsOn("overview", "timeline", e.id, items)
    /\ UNCHANGED <<detailQ, executionsQ, variablesQ, cursor, cursorHistory, detailView, historyView, cycle>>

\* Expand or Collapse, one inspector at a time.
ToggleSnapshots ==
    /\ Shown /\ Move(MaxMoves)
    /\ \E e \in mounted :
          /\ HasSnapshots(e) /\ expanded \in {0, e.id}
          /\ expanded' = IF expanded = e.id THEN 0 ELSE e.id
          /\ snapshotsQ' = IF expanded = 0 /\ SnapshotsStale(snapshotsQ[e.id], e)
                           THEN [snapshotsQ EXCEPT ![e.id] = Fetch(@, FALSE)] ELSE snapshotsQ
    /\ UNCHANGED <<detailQ, executionsQ, variablesQ, cursor, cursorHistory, detailView, historyView,
                   inspected, cycle>>

RetrySnapshots ==
    /\ Shown
    /\ \E e \in mounted :
          /\ e.id = expanded /\ snapshotsQ[e.id].failed /\ snapshotsQ[e.id].flight = Idle
          /\ snapshotsQ' = [snapshotsQ EXCEPT ![e.id] = Fetch(@, TRUE)]
    /\ UNCHANGED <<browser, detailQ, executionsQ, variablesQ, views, cycle>>

\* The screen goes to another page of the history; its query is fetched on mount.
GoToPage(c) ==
    /\ cursor' = c
    /\ LET q == IF c \in DOMAIN executionsQ THEN executionsQ[c] ELSE NoQuery
       IN  /\ executionsQ' = [k \in DOMAIN executionsQ \cup {c} |->
                                 IF k = c THEN Fetch(q, FALSE) ELSE executionsQ[k]]
           /\ inspectorsOn(detailView, historyView, inspected, Items(q.data, c))
    /\ UNCHANGED <<detailQ, variablesQ, detailView, historyView, inspected, cycle>>

Paging == Shown /\ detailView = "overview" /\ historyPage.data # 0 /\ Move(MaxMoves)

NewestPage ==
    /\ Paging /\ cursor # <<>>
    /\ GoToPage(<<>>)
    /\ cursorHistory' = <<>>

PreviousPage ==
    /\ Paging /\ cursorHistory # <<>>
    /\ GoToPage(cursorHistory[Len(cursorHistory)])
    /\ cursorHistory' = SubSeq(cursorHistory, 1, Len(cursorHistory) - 1)

NextPage ==
    /\ Paging /\ nextCursor # <<>>
    /\ GoToPage(nextCursor)
    /\ cursorHistory' = Append(cursorHistory, cursor)

--------------------------------------------------------------------------------

\* The screen is mounted: status and history are requested at the same time.
InstanceInit ==
    /\ BrowserInit
    /\ detailQ = [NoQuery EXCEPT !.flight = Sent]
    /\ executionsQ = [c \in {<<>>} |-> [NoQuery EXCEPT !.flight = Sent]]
    /\ variablesQ = NoQuery
    /\ snapshotsQ = [id \in UNION {Ids(Runs[run][k].executions) : k \in DOMAIN Runs[run]} |-> NoQuery]
    /\ cursor = <<>> /\ cursorHistory = <<>>
    /\ detailView = "overview" /\ historyView = "table" /\ inspected = 0 /\ expanded = 0
    /\ cycle = NoCycle

User ==
    \/ Hide \/ ClickRefresh \/ RetrySnapshots \/ Inspect \/ ToggleSnapshots
    \/ \E view \in {"overview", "variables"} : SelectTab(view)
    \/ \E history \in {"table", "timeline"} : SelectHistory(history)
    \/ NewestPage \/ PreviousPage \/ NextPage

InstanceNext ==
    \/ CommitState \/ RequestFails
    \/ ReadDetail \/ ReadHistory \/ ReadVariables \/ ReadSnapshots
    \/ DetailAnswered \/ HistoryAnswered \/ VariablesAnswered \/ SnapshotsAnswered
    \/ GoOffline \/ GoOnline \/ Show \/ Poll
    \/ User

instanceVars == <<browser, queries, views, cycle>>

InstanceSpec == InstanceInit /\ [][InstanceNext]_instanceVars

\* Requests are read and answered, the interval timer keeps firing, the connection
\* comes back and the user returns to the page.  That one of these happens while
\* any can is enough: cycles do not overlap, so none of them starves another.
Progress ==
    \/ ReadDetail \/ ReadHistory \/ ReadVariables \/ Poll \/ Show \/ GoOnline
    \/ DetailAnswered \/ VariablesAnswered \/ HistoryAnswered

--------------------------------------------------------------------------------
(* Properties. *)

Resting == cycle.phase = "none" /\ Shown /\ ~shouldPoll /\ historyPage.flight = Idle

\* Once polling has stopped on a status that a refresh cycle observed, the page of
\* history on the screen was read after that status: the final transition is in it.
\* The exception is a page whose request was already under way when the cycle asked
\* for it and that had no data to replace: TanStack Query joins that request.
FinalHistoryIsRefreshed ==
    (Resting /\ detailQ.awaited /\ ~historyPage.joined) => historyPage.data >= detailQ.data

\* The same without the exception, as the documentation puts it.
TerminalHistoryIsRefreshed ==
    (Resting /\ detailQ.awaited) => historyPage.data >= detailQ.data

\* The snapshots on the screen of an expanded attempt are not older than its row of
\* the history says: an output the row announces as available is there.  Excepted are
\* a read that was under way when the row changed (the first one is joined, not repeated,
\* and one whose inspector was collapsed then is not repeated when it is expanded again)
\* and a completed attempt read before its inspector left the screen (it stays fresh).
InspectorFollowsHistory ==
    \A e \in mounted :
        LET q == snapshotsQ[e.id]
        IN  (Enabled(e) /\ q.data # 0 /\ q.flight = Idle /\ ~q.failed /\ ~q.joined /\ ~q.left) =>
                LET answer == recordedVariables(Runs[run][q.data], InstanceId, e.id)
                IN  /\ e.output # <<>> => answer.recordedOutput.status # "notRecorded"
                    /\ e.input # <<>> => answer.recordedInput.status # "notRecorded"

\* The status on the screen becomes the status of the instance and stays it, however
\* the requests fail meanwhile, once the screen was opened.  A retried instance may
\* keep showing FAILED, because FAILED stops the polling.
ShownStatusCatchesUp ==
    <>[](detailQ # NoQuery => Shown /\ status \in {"FAILED", Details[run][now].instance.status})
================================================================================
