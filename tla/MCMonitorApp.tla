------------------------------ MODULE MCMonitorApp ------------------------------
EXTENDS MonitorApp

Instance(id, definition, st, steps, at) ==
    [id |-> id, definitionId |-> definition, definitionVersion |-> 1, status |-> st,
     currentStepIds |-> steps, startedAt |-> at, businessKey |-> 0]

Execution(id, instance, step, attempt, st, at, end) ==
    [id |-> id, instance |-> instance, step |-> step, type |-> "SERVICE_TASK", attempt |-> attempt,
     status |-> st, startedAt |-> at, endedAt |-> end, input |-> <<[value |-> 0, bytes |-> 1]>>,
     output |-> IF st = "COMPLETED" THEN <<[value |-> 1, bytes |-> 1]>> ELSE <<>>]

State(instances, executions) ==
    [clock |-> 7, definitions |-> {[id |-> d, version |-> 1, words |-> {d}] : d \in {1, 2}},
     instances |-> instances, executions |-> executions, jobs |-> {}, tasks |-> {}, timers |-> {}]

--------------------------------------------------------------------------------
(* Histories. *)

\* Two steps, one after the other.
Completes ==
    << State({Instance(1, 1, "ACTIVE", {1}, 0)}, {Execution(1, 1, 1, 1, "RUNNING", 1, Absent)}),
       State({Instance(1, 1, "ACTIVE", {2}, 0)}, {Execution(1, 1, 1, 1, "COMPLETED", 1, 2),
                                                  Execution(2, 1, 2, 1, "RUNNING", 2, Absent)}),
       State({Instance(1, 1, "COMPLETED", {}, 0)}, {Execution(1, 1, 1, 1, "COMPLETED", 1, 2),
                                                    Execution(2, 1, 2, 1, "COMPLETED", 2, 3)}) >>

\* A step fails and is retried.
IsRetried ==
    << State({Instance(1, 1, "ACTIVE", {1}, 0)}, {Execution(1, 1, 1, 1, "RUNNING", 1, Absent)}),
       State({Instance(1, 1, "FAILED", {1}, 0)}, {Execution(1, 1, 1, 1, "FAILED", 1, 2)}),
       State({Instance(1, 1, "ACTIVE", {1}, 0)}, {Execution(1, 1, 1, 1, "FAILED", 1, 2),
                                                  Execution(2, 1, 1, 2, "RUNNING", 3, Absent)}) >>

\* Two instances, then a third one.
Grows ==
    << State({Instance(1, 1, "ACTIVE", {1, 2}, 1), Instance(2, 2, "FAILED", {1}, 2)},
             {Execution(1, 1, 1, 1, "RUNNING", 1, Absent), Execution(2, 1, 2, 1, "RUNNING", 2, Absent),
              Execution(3, 2, 1, 1, "FAILED", 2, 3)}),
       State({Instance(1, 1, "ACTIVE", {2}, 1), Instance(2, 2, "FAILED", {1}, 2),
              Instance(3, 1, "FAILED", {1}, 5)},
             {Execution(1, 1, 1, 1, "COMPLETED", 1, 4), Execution(2, 1, 2, 1, "RUNNING", 2, Absent),
              Execution(3, 2, 1, 1, "FAILED", 2, 3), Execution(4, 3, 1, 1, "FAILED", 5, 6)}) >>

Histories3 == <<Completes, IsRetried, Grows>>

--------------------------------------------------------------------------------
(* Filters and searches. *)

InstanceFilters ==
    {[NoFilters EXCEPT !.from = 4, !.to = 2], [NoFilters EXCEPT !.currentStepId = 1]}
IncidentFilters == {[NoIncidentFilters EXCEPT !.definitionId = 2]}

Search(f, c, other) == [filters |-> f, cursor |-> c, unsupported |-> other, bytes |-> 2]
SomeSearches ==
    {Search(NoFilters, <<>>, FALSE),
     [Search([NoFilters EXCEPT !.definitionId = 1], <<"cursor">>, FALSE) EXCEPT !.bytes = 3],
     Search([NoFilters EXCEPT !.stepStartedBefore = 1], <<>>, FALSE),
     Search(NoFilters, <<>>, TRUE)}

SomeNames == {"", "a", "A"}
Identity  == [n \in SomeNames |-> n]
LowerCase == [n \in SomeNames |-> IF n = "A" THEN "a" ELSE n]

--------------------------------------------------------------------------------
(* Databases: the attempts at two steps of an instance, beside a second instance. *)
(* The failure that an instance stops at is the last thing to happen to it.  An    *)
(* attempt that a timer interrupts fails too; the instance goes on and leaves the  *)
(* step.                                                                           *)

Attempts == {<<>>, <<"RUNNING">>, <<"FAILED">>, <<"COMPLETED">>, <<"FAILED", "RUNNING">>,
             <<"COMPLETED", "FAILED">>, <<"FAILED", "COMPLETED">>, <<"FAILED", "FAILED">>,
             <<"INTERRUPTED">>, <<"INTERRUPTED", "RUNNING">>, <<"FAILED", "INTERRUPTED">>}
Newest_(attempts) == IF attempts = <<>> THEN "" ELSE attempts[Len(attempts)]

\* The status of the second instance and of its only attempt (one that completes can
\* leave its instance FAILED: no branch matched), the clock, when the first attempt
\* of the first instance begins and by how much the second of two rows is later.
Settings ==
    {[other |-> <<"WAITING", "RUNNING">>, clock |-> 5, at |-> 1, gap |-> 0],
     [other |-> <<"FAILED", "FAILED">>, clock |-> 6, at |-> 2, gap |-> 0],
     [other |-> <<"CANCELLED", "FAILED">>, clock |-> 5, at |-> 2, gap |-> 1],
     [other |-> <<"FAILED", "COMPLETED">>, clock |-> 6, at |-> 1, gap |-> 1]}

Database(one, two, s) ==
    LET begin(step, n) == s.at + 2 * (n - 1) + s.gap * (step - 1)
        executions(step, attempts) ==
            {Execution(4 * (n - 1) + step, 1, step, n,
                       IF attempts[n] = "INTERRUPTED" THEN "FAILED" ELSE attempts[n], begin(step, n),
                       IF attempts[n] = "RUNNING" THEN Absent
                       ELSE IF attempts[n] = "FAILED" /\ n = Len(attempts) THEN 9
                       ELSE begin(step, n) + 1) : n \in DOMAIN attempts}
        newest == {Newest_(one), Newest_(two)}
        st == IF "FAILED" \in newest THEN "FAILED" ELSE IF "RUNNING" \in newest THEN "ACTIVE" ELSE "COMPLETED"
        current == {n \in {1, 2} : Newest_(<<one, two>>[n]) \in {"RUNNING", "FAILED"}}
    IN  [State({Instance(1, 1, st, current, s.at - 1),
                Instance(2, 1, s.other[1], IF s.other[2] = "COMPLETED" THEN {} ELSE {1}, s.at - 1 + s.gap)},
               executions(1, one) \cup executions(2, two) \cup
               {Execution(9, 2, 1, 1, s.other[2], 2, IF s.other[2] = "RUNNING" THEN Absent ELSE 3)})
           EXCEPT !.clock = s.clock]

\* At most one step is where the instance failed.
SomeDatabases ==
    {Database(one, two, s) :
        one \in Attempts \ {<<>>},
        two \in {a \in Attempts : Newest_(a) # "FAILED"},
        s \in Settings}

--------------------------------------------------------------------------------
(* Documents. *)

Zero == Scalar(0)
Values ==
    {Zero, Scalar(1), Array(<<>>), Array(<<Zero, Scalar(1)>>), Array(<<Scalar(1), Zero>>),
     Object(<<>>, <<>>), Object(<<1>>, <<Zero>>), Object(<<2>>, <<Scalar(1)>>),
     Object(<<1, 2>>, <<Zero, Zero>>), Object(<<2, 1>>, <<Zero, Zero>>),
     Object(<<1, 2>>, <<Scalar(1), Zero>>), Object(<<3>>, <<Object(<<1, 2>>, <<Zero, Zero>>)>>),
     Object(<<3>>, <<Object(<<2, 1>>, <<Zero, Zero>>)>>),
     Object(<<3>>, <<Object(<<1>>, <<Array(<<Zero>>)>>)>>)}
SomeDocuments ==
    {[status |-> "present", bytes |-> b, value |-> v] : b \in {1, 3}, v \in Values} \cup
    {[status |-> "notRecorded"], [status |-> "contentTooLarge", bytes |-> 9]}
================================================================================
