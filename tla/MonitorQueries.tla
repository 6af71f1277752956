------------------------------ MODULE MonitorQueries ------------------------------
(***************************************************************************)
(* The read-only API of the monitor: what each query answers over one      *)
(* committed state of the engine's database.  Rows are records; ids and    *)
(* definition versions are numbers, so that they have the order the SQL    *)
(* sorts by; times count microseconds, the resolution of timestamptz.      *)
(* <<>> stands for an absent row, cursor or document, 0 for an absent id.  *)
(***************************************************************************)
EXTENDS Integers, Sequences, FiniteSets

CONSTANTS Millisecond,           \* microseconds in a millisecond
          MaxVersion,            \* 2147483647
          MaxPageSize,           \* 100
          MaxTimers,             \* timers shown for a step: 100
          MaxJsonDocumentBytes   \* documents above it are not sent

ASSUME ResolutionAssumption == Millisecond \in Nat \ {0}
ASSUME LimitsAssumption ==
    /\ MaxVersion \in Nat \ {0} /\ MaxPageSize \in Nat \ {0}
    /\ MaxTimers \in Nat \ {0} /\ MaxJsonDocumentBytes \in Nat

Absent    == -1     \* a parameter that was not sent, a time that is null
Malformed == -2     \* a text that is not a UTC timestamp

PROCESS_INSTANCE_STATUSES == {"ACTIVE", "WAITING", "COMPLETED", "FAILED", "CANCELLED"}

BadRequest == [status |-> 400]
NotFound   == [status |-> 404]

\* Row comparison: the first column that differs decides.
Less(a, b) == \E n \in DOMAIN a : a[n] < b[n] /\ \A m \in 1..(n - 1) : a[m] = b[m]

\* ORDER BY Key DESC LIMIT n, and its last row.
Greatest(rows, Key(_), n) ==
    {r \in rows : Cardinality({q \in rows : Less(Key(r), Key(q))}) < n}
Last(rows, Key(_)) == CHOOSE r \in rows : \A q \in rows : ~Less(Key(q), Key(r))

\* SELECT ... LIMIT 1 as a sequence of at most one row.
One(rows) == IF rows = {} THEN <<>> ELSE <<CHOOSE r \in rows : TRUE>>

--------------------------------------------------------------------------------
(* Filters, cursors and pages of the instance list. *)

NoFilters ==
    [definitionId |-> 0, definitionVersion |-> Absent, currentStepId |-> 0,
     stepStartedBefore |-> Absent, statuses |-> {}, businessKey |-> 0,
     from |-> Absent, to |-> Absent]

RangeIncreases(f) == (f.from # Absent /\ f.to # Absent) => f.from < f.to

validateFilters(f) ==
    /\ f.definitionVersion # Absent =>
            f.definitionVersion \in 1..MaxVersion /\ f.definitionId # 0
    /\ f.currentStepId # 0 => f.definitionId # 0
    /\ f.stepStartedBefore # Absent => f.currentStepId # 0 /\ f.stepStartedBefore # Malformed
    /\ f.statuses \subseteq PROCESS_INSTANCE_STATUSES
    /\ Malformed \notin {f.from, f.to}
    /\ RangeIncreases(f)

\* Date.toISOString keeps milliseconds.
toISOString(t) == t - (t % Millisecond)

\* The fingerprint stands for the filters: statuses are sorted before hashing.
filterFingerprint(f) == f

encodeCursor(at, id, scope) ==
    <<[at |-> toISOString(at), id |-> id, filters |-> filterFingerprint(scope)]>>

decodeCursor(cursor, scope) == cursor = <<>> \/ cursor[1].filters = filterFingerprint(scope)

\* Broken: the ids of rows with equal times are not compared.
AfterByTime(cursor, key) == cursor = <<>> \/ key[1] < cursor[1].at

\* (started_at, id) < (cursor)
After(cursor, key) == cursor = <<>> \/ Less(key, <<cursor[1].at, cursor[1].id>>)

pageSize(size) == size \in 1..MaxPageSize

\* One row more than the page is read to learn whether there is a next page.
Page(rows, Key(_), limit, scope) ==
    LET mapped == Greatest(rows, Key, limit + 1)
        items  == Greatest(mapped, Key, limit)
        last   == Key(Last(items, Key))
    IN  [status |-> 200, items |-> items,
         nextCursor |-> IF Cardinality(mapped) > limit
                        THEN encodeCursor(last[1], last[2], scope) ELSE <<>>]

AttemptKey(e) == <<e.attempt, e.startedAt, e.id>>

\* The newest attempt of a step.
latestExecution(db, instance, step) ==
    One(Greatest({e \in db.executions : e.instance = instance /\ e.step = step}, AttemptKey, 1))

RunningSince(execution, cutoff) ==
    execution # <<>> /\ execution[1].status = "RUNNING" /\ execution[1].startedAt < cutoff

\* Broken: any execution that began before the cutoff counts, not the newest running one.
MatchesAnyAttempt(db, f, i) ==
    /\ f.definitionId # 0 => i.definitionId = f.definitionId
    /\ f.definitionVersion # Absent => i.definitionVersion = f.definitionVersion
    /\ f.currentStepId # 0 => f.currentStepId \in i.currentStepIds /\ i.status \in {"ACTIVE", "WAITING"}
    /\ f.stepStartedBefore # Absent =>
            \E e \in db.executions : /\ e.instance = i.id /\ e.step = f.currentStepId
                                     /\ e.startedAt < f.stepStartedBefore
    /\ f.statuses # {} => i.status \in f.statuses
    /\ f.businessKey # 0 => i.businessKey = f.businessKey
    /\ f.from # Absent => i.startedAt >= f.from
    /\ f.to # Absent => i.startedAt < f.to

MatchesFilters(db, f, i) ==
    /\ f.definitionId # 0 => i.definitionId = f.definitionId
    /\ f.definitionVersion # Absent => i.definitionVersion = f.definitionVersion
    /\ f.currentStepId # 0 => f.currentStepId \in i.currentStepIds /\ i.status \in {"ACTIVE", "WAITING"}
    /\ f.stepStartedBefore # Absent =>
            RunningSince(latestExecution(db, i.id, f.currentStepId), f.stepStartedBefore)
    /\ f.statuses # {} => i.status \in f.statuses
    /\ f.businessKey # 0 => i.businessKey = f.businessKey
    /\ f.from # Absent => i.startedAt >= f.from
    /\ f.to # Absent => i.startedAt < f.to

StartedKey(row) == <<row.startedAt, row.id>>

listInstances(db, f, cursor, limit) ==
    IF ~validateFilters(f) \/ ~pageSize(limit) \/ ~decodeCursor(cursor, f) THEN BadRequest
    ELSE Page({i \in db.instances : MatchesFilters(db, f, i) /\ After(cursor, StartedKey(i))},
              StartedKey, limit, f)

--------------------------------------------------------------------------------
(* One instance: its detail, its step executions, its variables. *)

\* Why a current step is current, from its newest execution and that execution's
\* live job, open task and pending timers.
readExecutionContext(db, instance, step) ==
    LET execution == latestExecution(db, instance, step)
        id        == IF execution = <<>> THEN 0 ELSE execution[1].id
        type      == IF execution = <<>> THEN "" ELSE execution[1].type
        running   == execution # <<>> /\ execution[1].status = "RUNNING"
        count     == Cardinality({e \in db.executions : /\ e.instance = instance /\ e.step = step
                                                        /\ e.status = "RUNNING"})
        jobs      == {j \in db.jobs : /\ j.execution = id /\ running /\ type = "SERVICE_TASK"
                                      /\ j.status \in {"UNLOCKED", "LOCKED"}}
        tasks     == {t \in db.tasks : /\ t.execution = id /\ running /\ type = "USER_TASK"
                                       /\ t.status = "OPEN"}
        timers    == {t \in db.timers : t.execution = id /\ running /\ ~t.fired}
        job       == One(Greatest(jobs, LAMBDA j : <<j.createdAt, j.id>>, 1))
        task      == One(Greatest(tasks, LAMBDA t : <<t.createdAt, t.id>>, 1))
        conflict  == count > 1 \/ Cardinality(jobs) > 1 \/ Cardinality(tasks) > 1
        reason    == IF conflict \/ ~running THEN "unavailable"
                     ELSE IF type = "WAIT" THEN "signal"
                     ELSE IF task # <<>> THEN "userTask"
                     ELSE IF job # <<>>
                     THEN IF job[1].status = "LOCKED" THEN "jobLocked" ELSE "jobAvailable"
                     ELSE "unavailable"
        valid     == reason # "unavailable"
    IN  [step |-> step, execution |-> execution, reason |-> reason,
         job |-> IF valid THEN job ELSE <<>>, task |-> IF valid THEN task ELSE <<>>,
         timers |-> Greatest(timers, LAMBDA t : <<-t.fireAt, -t.id>>, MaxTimers),
         timersTruncated |-> Cardinality(timers) > MaxTimers]

\* The step whose failure ended last.
failedStepId(db, instance) ==
    LET failed == Greatest({e \in db.executions : e.instance = instance /\ e.status = "FAILED"},
                           LAMBDA e : <<e.endedAt, e.startedAt, e.id>>, 1)
    IN  IF failed = {} THEN 0 ELSE One(failed)[1].step

\* One REPEATABLE READ transaction: every part is read from the same db.
detail(db, id) ==
    LET instance == One({i \in db.instances : i.id = id})
        i        == instance[1]
        tokens   == IF i.status \in {"ACTIVE", "WAITING"} THEN i.currentStepIds ELSE {}
        steps    == {e.step : e \in {e \in db.executions : e.instance = id}}
    IN  IF instance = <<>> THEN NotFound
        ELSE IF ~\E d \in db.definitions : d.id = i.definitionId /\ d.version = i.definitionVersion
        THEN NotFound
        ELSE [status |-> 200, instance |-> i,
              executionContext |-> {readExecutionContext(db, id, s) : s \in tokens},
              executionOverlay |->
                  [currentTokenStepIds |-> tokens,
                   failedStepId |-> IF i.status = "FAILED" THEN failedStepId(db, id) ELSE 0,
                   latestByStep |-> {latestExecution(db, id, s)[1] : s \in steps}]]

listStepExecutions(db, id, cursor, limit) ==
    IF ~pageSize(limit) \/ ~decodeCursor(cursor, [instanceId |-> id]) THEN BadRequest
    ELSE Page({e \in db.executions : e.instance = id /\ After(cursor, StartedKey(e))},
              StartedKey, limit, [instanceId |-> id])

\* Documents are recorded with the size their JSON has.
variableDocument(document) ==
    IF document.bytes > MaxJsonDocumentBytes THEN [status |-> "contentTooLarge", bytes |-> document.bytes]
    ELSE [status |-> "present", value |-> document.value, bytes |-> document.bytes]

Recorded(snapshot) ==
    IF snapshot = <<>> THEN [status |-> "notRecorded"] ELSE variableDocument(snapshot[1])

recordedVariables(db, id, executionId) ==
    LET row == One({e \in db.executions : e.id = executionId /\ e.instance = id})
    IN  IF row = <<>> THEN NotFound
        ELSE [status |-> 200,
              outputInterpretation |->
                  IF row[1].type = "SERVICE_TASK" THEN "variableDelta"
                  ELSE IF row[1].type \in {"USER_TASK", "WAIT", "TRANSFORMATION"} THEN "fullState"
                  ELSE "unknown",
              recordedInput  |-> Recorded(row[1].input),
              recordedOutput |-> Recorded(row[1].output)]

--------------------------------------------------------------------------------
(* Incidents: the failed step executions of instances that are not cancelled. *)

NoIncidentFilters == [definitionId |-> 0, jobType |-> "", from |-> Absent, to |-> Absent]

validateIncidentFilters(f) == Malformed \notin {f.from, f.to} /\ RangeIncreases(f)

relatedJob(db, e) ==
    One(Greatest({j \in db.jobs : j.execution = e.id}, LAMBDA j : <<j.createdAt, j.id>>, 1))

\* Broken: an attempt is historical only when a later one succeeded.
mapListItemBySuccess(db, e) ==
    LET latest == latestExecution(db, e.instance, e.step)[1]
    IN  [id |-> e.id, endedAt |-> e.endedAt, instance |-> e.instance, step |-> e.step,
         historical |-> latest.status = "COMPLETED", latestStatus |-> latest.status,
         job |-> relatedJob(db, e)]

mapListItem(db, e) ==
    LET latest == latestExecution(db, e.instance, e.step)[1]
    IN  [id |-> e.id, endedAt |-> e.endedAt, instance |-> e.instance, step |-> e.step,
         historical |-> e.id # latest.id, latestStatus |-> latest.status, job |-> relatedJob(db, e)]

\* The joins drop an execution whose definition row is missing.
IsIncident(db, e) ==
    /\ e.status = "FAILED"
    /\ \E i \in db.instances : /\ i.id = e.instance /\ i.status # "CANCELLED"
                               /\ \E d \in db.definitions : /\ d.id = i.definitionId
                                                            /\ d.version = i.definitionVersion

EndedKey(row) == <<row.endedAt, row.id>>

MatchesIncidentFilters(db, f, e) ==
    /\ IsIncident(db, e)
    /\ f.definitionId # 0 =>
           \E i \in db.instances : i.id = e.instance /\ i.definitionId = f.definitionId
    /\ f.jobType # "" => relatedJob(db, e) # <<>> /\ relatedJob(db, e)[1].type = f.jobType
    /\ f.from # Absent => e.endedAt >= f.from
    /\ f.to # Absent => e.endedAt < f.to

listIncidents(db, f, cursor, limit) ==
    IF ~validateIncidentFilters(f) \/ ~pageSize(limit) \/ ~decodeCursor(cursor, f) THEN BadRequest
    ELSE Page({mapListItem(db, e) :
                  e \in {e \in db.executions : MatchesIncidentFilters(db, f, e) /\ After(cursor, EndedKey(e))}},
              EndedKey, limit, f)

incidentDetail(db, id) ==
    LET row == One({e \in db.executions : e.id = id /\ IsIncident(db, e)})
    IN  IF row = <<>> THEN NotFound ELSE [status |-> 200, incident |-> mapListItem(db, row[1])]

--------------------------------------------------------------------------------
(* Overview: counts per definition version and per current step. *)

positiveInteger(value, maximum) == value \in 1..maximum

\* A later page begins after the cursor's key: ascending order.
Following(cursor, key) == cursor = <<>> \/ Less(cursor[1].key, key)

Descending(row) == [n \in DOMAIN row.key |-> -row.key[n]]

AscendingPage(rows, limit, scope) ==
    LET mapped == Greatest(rows, Descending, limit + 1)
        items  == Greatest(mapped, Descending, limit)
    IN  [status |-> 200, items |-> items,
         nextCursor |-> IF Cardinality(mapped) > limit
                        THEN <<[key |-> Last(items, Descending).key, filters |-> scope]>> ELSE <<>>]

\* A definition row lists the words its name or id contain.
words(db, key) == UNION {d.words : d \in {d \in db.definitions : <<d.id, d.version>> = key}}

InstancesOf(db, key) == {i \in db.instances : <<i.definitionId, i.definitionVersion>> = key}
WithStatus(instances, status) == Cardinality({i \in instances : i.status = status})

DefinitionRow(key, instances) ==
    [key |-> key, active |-> WithStatus(instances, "ACTIVE"),
     waiting |-> WithStatus(instances, "WAITING"), failed |-> WithStatus(instances, "FAILED")]

DefinitionRows(db, workflow, cursor) ==
    {DefinitionRow(key, InstancesOf(db, key)) :
        key \in {k \in {<<i.definitionId, i.definitionVersion>> : i \in db.instances} :
                    Following(cursor, k) /\ (workflow # 0 => workflow \in words(db, k))}}

\* workflow is 0 or a word.
overviewDefinitions(db, workflow, cursor, limit) ==
    IF ~positiveInteger(limit, MaxPageSize) \/ ~decodeCursor(cursor, [workflow |-> workflow]) THEN BadRequest
    ELSE AscendingPage(DefinitionRows(db, workflow, cursor), limit, [workflow |-> workflow])

\* A step is aged when its newest execution runs since before the cutoff.
StepRow(db, step, instances, cutoff) ==
    [key |-> <<step>>, instances |-> Cardinality(instances),
     aged |-> Cardinality({i \in instances : RunningSince(latestExecution(db, i.id, step), cutoff)}),
     ageUnavailable |-> Cardinality({i \in instances :
         LET e == latestExecution(db, i.id, step) IN e = <<>> \/ e[1].status # "RUNNING"})]

StepRows(db, definitionId, version, cutoff, cursor) ==
    LET here == {i \in InstancesOf(db, <<definitionId, version>>) : i.status \in {"ACTIVE", "WAITING"}}
    IN  {StepRow(db, step, {i \in here : step \in i.currentStepIds}, cutoff) :
            step \in {s \in UNION {i.currentStepIds : i \in here} : Following(cursor, <<s>>)}}

StepPage(page, cutoff) ==
    [status |-> page.status, items |-> page.items, nextCursor |-> page.nextCursor,
     stepStartedBefore |-> toISOString(cutoff)]

StepsScope(definitionId, version, age) ==
    [definitionId |-> definitionId, definitionVersion |-> version, age |-> age]

overviewSteps(db, definitionId, version, age, cursor, limit) ==
    IF \/ definitionId = 0 \/ ~positiveInteger(version, MaxVersion)
       \/ ~positiveInteger(age, MaxVersion) \/ ~positiveInteger(limit, MaxPageSize)
       \/ ~decodeCursor(cursor, StepsScope(definitionId, version, age))
    THEN BadRequest
    ELSE StepPage(AscendingPage(StepRows(db, definitionId, version, db.clock - age, cursor), limit,
                                StepsScope(definitionId, version, age)),
                  db.clock - age)
================================================================================
