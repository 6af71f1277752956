------------------------------ MODULE MonitorChecks ------------------------------
(***************************************************************************)
(* What the monitor's answers say together, over a family of databases and *)
(* documents: a step takes one input and computes what the screens would   *)
(* get.  All pages of a list, the counts of the overview with the searches *)
(* they link to, incidents with the instances they belong to, and the      *)
(* comparison of snapshots.                                                *)
(***************************************************************************)
EXTENDS MonitorLists, SnapshotComparison

CONSTANTS Databases, Documents

VARIABLES input, output

checkVars == <<input, output>>

Nothing == [kind |-> "none"]

--------------------------------------------------------------------------------
(* Reading a list to its end, page after page. *)

Request(api, db, c, limit) ==
    IF api = "instances" THEN listInstances(db, NoFilters, c, limit)
    ELSE IF api = "incidents" THEN listIncidents(db, NoIncidentFilters, c, limit)
    ELSE listStepExecutions(db, 1, c, limit)

Walk(api, db, limit) ==
    LET whole == Request(api, db, <<>>, MaxPageSize).items
        page[n \in 1..(Cardinality(whole) + 1)] ==
            IF n = 1 THEN Request(api, db, <<>>, limit)
            ELSE IF page[n - 1].nextCursor = <<>> THEN [page[n - 1] EXCEPT !.items = {}]
            ELSE Request(api, db, page[n - 1].nextCursor, limit)
    IN  [whole |-> whole, pages |-> [n \in DOMAIN page |-> page[n].items]]

ReadPages ==
    \E api \in {"instances", "incidents", "executions"}, db \in Databases, limit \in {1, 2} :
        /\ input' = [kind |-> "pages", api |-> api, db |-> db, limit |-> limit]
        /\ output' = Walk(api, db, limit)

--------------------------------------------------------------------------------
(* The overview and its links. *)

Found(db, f) == listInstances(db, f, <<>>, MaxPageSize)

StepLinks(db, key, age) ==
    LET steps == overviewSteps(db, key[1], key[2], age, <<>>, MaxPageSize)
    IN  {[row |-> row, cutoff |-> db.clock - age,
          all |-> Found(db, instanceLink(key[1], key[2], {"ACTIVE", "WAITING"}, row.key[1], Absent)),
          aged |-> Found(db, instanceLink(key[1], key[2], {"ACTIVE", "WAITING"}, row.key[1],
                                          steps.stepStartedBefore))] : row \in steps.items}

ReadOverview ==
    \E db \in Databases, age \in Ages :
        LET rows == overviewDefinitions(db, 0, <<>>, MaxPageSize).items
        IN  /\ input' = [kind |-> "overview", db |-> db]
            /\ output' = [definitions |->
                              {[row |-> row, link |-> [st \in {"ACTIVE", "WAITING", "FAILED"} |->
                                   Found(db, instanceLink(row.key[1], row.key[2], {st}, 0, Absent))]] :
                                row \in rows},
                          steps |-> UNION {StepLinks(db, row.key, age) : row \in rows}]

--------------------------------------------------------------------------------
(* Incidents and snapshots. *)

ReadIncidents ==
    \E db \in Databases :
        /\ input' = [kind |-> "incidents", db |-> db]
        /\ output' = [items |-> listIncidents(db, NoIncidentFilters, <<>>, MaxPageSize).items,
                      overlay |-> [id \in {i.id : i \in db.instances} |-> detail(db, id).executionOverlay]]

CompareSnapshots ==
    \E before \in Documents, after \in Documents,
       interpretation \in {"variableDelta", "fullState", "unknown"} :
        /\ input' = [kind |-> "compare", before |-> before, after |-> after, interpretation |-> interpretation]
        /\ output' = compareSnapshots(before, after, interpretation)

--------------------------------------------------------------------------------

ChecksInit == input = Nothing /\ output = Nothing

\* One computation per behaviour: computations do not depend on each other.
ChecksNext ==
    /\ input = Nothing
    /\ ReadPages \/ ReadOverview \/ ReadIncidents \/ CompareSnapshots

--------------------------------------------------------------------------------
(* Properties. *)

PageKey(r) == IF input.api = "incidents" THEN EndedKey(r) ELSE StartedKey(r)

Whole(t) == toISOString(t) = t

\* Whoever reads a list to its end meets no row twice, and every row, those with equal
\* times included, as long as pages end at whole milliseconds.  A page that ends
\* between them can cost rows of that millisecond only: cursors hold ISO times.
PagesKeepTies ==
    input.kind = "pages" =>
        LET pages == output.pages
        IN  /\ \A m, n \in DOMAIN pages : m # n => pages[m] \cap pages[n] = {}
            /\ \A r \in output.whole :
                  \E n \in DOMAIN pages : pages[n] # {} /\
                      \/ r \in pages[n]
                      \/ LET last == PageKey(Last(pages[n], PageKey))
                         IN  /\ ~Whole(last[1])
                             /\ Less(PageKey(r), last)
                             /\ toISOString(PageKey(r)[1]) = toISOString(last[1])

\* Pages neither duplicate nor omit rows with equal timestamps: what the test of the
\* instance list says (test/process-instances.spec.ts, rows at a whole second).
PagesAreComplete ==
    (input.kind = "pages" /\ input.api = "instances") =>
        \A r, q \in output.whole :
            (r # q /\ PageKey(r)[1] = PageKey(q)[1]) =>
                Cardinality({n \in DOMAIN output.pages : r \in output.pages[n]}) = 1

\* Every count of the overview is the number of rows of the search it links to; of
\* aged steps, if the cutoff falls on a millisecond, and otherwise the search finds
\* no more than were counted.
CountsMatchDrillDown ==
    input.kind = "overview" =>
        /\ \A d \in output.definitions :
              /\ d.row.active = Cardinality(d.link["ACTIVE"].items)
              /\ d.row.waiting = Cardinality(d.link["WAITING"].items)
              /\ d.row.failed = Cardinality(d.link["FAILED"].items)
        /\ \A s \in output.steps :
              /\ s.row.instances = Cardinality(s.all.items)
              /\ Cardinality(s.aged.items) <= s.row.aged
              /\ Whole(s.cutoff) => s.row.aged = Cardinality(s.aged.items)

\* Age links carry the exact cutoff of the summary (docs/monitor.md, "Overview"): on
\* the same data the list has as many rows as were counted.
AgedLinkIsExact ==
    input.kind = "overview" =>
        \A s \in output.steps : s.row.aged = Cardinality(s.aged.items)

\* Where an instance stands still: at the current steps whose newest attempt failed.
StoppedAt(db, i) ==
    {s \in i.currentStepIds : LET e == latestExecution(db, i.id, s)
                              IN  e # <<>> /\ e[1].status = "FAILED"}

\* Among the steps an instance is at, those shown with a failure as their latest
\* attempt are the ones a FAILED instance stands still at, and the diagram marks one
\* of them.  A retry makes the failure historical at once, before it has an outcome;
\* a step that a timer interrupted keeps its failure and is no longer current.
IncidentsMarkTheOpenFailure ==
    input.kind = "incidents" =>
        \A i \in input.db.instances :
            LET open    == {r.step : r \in {r \in output.items : r.instance = i.id /\ ~r.historical}}
                stopped == StoppedAt(input.db, i)
            IN  /\ open \cap i.currentStepIds = IF i.status = "FAILED" THEN stopped ELSE {}
                /\ (i.status = "FAILED" /\ stopped # {}) =>
                        output.overlay[i.id].failedStepId \in stopped

\* A comparison of snapshots is refused exactly beyond the documented limits, and
\* otherwise says how the output differs, whatever the order of keys; for a service
\* task, keys it did not return are no deletions.
ComparisonIsExact ==
    input.kind = "compare" =>
        LET before == input.before
            after  == input.after
        IN  IF ~Comparable(before, after, input.interpretation) THEN output = Unavailable
            ELSE IF output.unavailable THEN FALSE
            ELSE IF record(before.value) /\ record(after.value)
            THEN Explains(output, before.value, after.value, input.interpretation)
            ELSE ~output.truncated /\
                 (output.changes = <<>> <=> Canonical(before.value) = Canonical(after.value))
================================================================================
