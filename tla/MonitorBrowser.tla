------------------------------ MODULE MonitorBrowser ------------------------------
(***************************************************************************)
(* A browser tab with the monitor, and what lies behind it.  The engine    *)
(* moves on meanwhile: Runs[run] are the database states it commits, now   *)
(* is the one that a request finds when it reads the database.  A query    *)
(* of the screen keeps the number of the state its last answer was read    *)
(* from, so that a stale answer can be told from a current one.            *)
(***************************************************************************)
EXTENDS MonitorQueries

CONSTANTS Runs,          \* histories of the database: sequences of its states
          MaxMoves,      \* bound on what the user does
          MaxFaults      \* bound on failed requests and lost connections

\* Step executions are inserted and completed, never deleted, and a snapshot that
\* was recorded stays; ids are unique.
ASSUME RunsAssumption ==
    \A r \in DOMAIN Runs :
        /\ Len(Runs[r]) \in Nat \ {0} /\ DOMAIN Runs[r] = 1..Len(Runs[r])
        /\ \A k \in DOMAIN Runs[r] :
              /\ IsFiniteSet(Runs[r][k].executions)
              /\ \A e \in Runs[r][k].executions : e.id \in Nat \ {0} /\ e.startedAt \in Nat
              /\ \A e, f \in Runs[r][k].executions : e.id = f.id => e = f
        /\ \A j, k \in DOMAIN Runs[r] : j <= k =>
              \A e \in Runs[r][j].executions : \E f \in Runs[r][k].executions :
                  /\ f.id = e.id /\ f.instance = e.instance
                  /\ e.input # <<>> => f.input # <<>>
                  /\ e.output # <<>> => f.output # <<>>

VARIABLES run, now,
          visible, online,   \* document.visibilityState, navigator.onLine
          moves, faults

browser == <<run, now, visible, online, moves, faults>>

(* A query of TanStack Query.  flight is Idle, Paused, Sent or the number of *)
(* the database state that the answer under way was read from.  The last     *)
(* three fields only record where the newest request came from.              *)

Idle   == -2
Paused == -1
Sent   == 0

NoQuery == [data |-> 0, failed |-> FALSE, flight |-> Idle, invalid |-> FALSE,
            awaited |-> FALSE,     \* the detail: a refresh cycle waits or waited for it
            joined |-> FALSE,      \* a page or snapshots: under way when asked for again
            left |-> FALSE]        \* snapshots: the inspector was unmounted since

Start(q) == [q EXCEPT !.flight = IF online THEN Sent ELSE Paused,
                      !.failed = q.failed /\ q.data # 0,
                      !.awaited = FALSE, !.joined = FALSE, !.left = FALSE]

\* A request under way is joined, unless it may be cancelled and there is data.
Fetch(q, cancelRefetch) ==
    IF q.flight # Idle /\ ~(cancelRefetch /\ q.data # 0) THEN [q EXCEPT !.joined = TRUE]
    ELSE Start(q)

Answered(q) == [q EXCEPT !.data = q.flight, !.failed = FALSE, !.flight = Idle, !.invalid = FALSE]
Broken(q)   == [q EXCEPT !.failed = TRUE, !.flight = Idle, !.invalid = TRUE]
AtNow(q)    == [q EXCEPT !.flight = now]
Resumed(q)  == IF q.flight = Paused THEN [q EXCEPT !.flight = Sent] ELSE q
Stale(q)    == q.failed \/ q.flight = Paused
Flying(q)   == q.flight \notin {Idle, Paused}

--------------------------------------------------------------------------------

BrowserInit ==
    /\ run \in DOMAIN Runs /\ now = 1
    /\ visible = TRUE /\ online = TRUE
    /\ moves = 0 /\ faults = 0

\* The engine commits its next state.
Commits ==
    /\ now < Len(Runs[run]) /\ now' = now + 1
    /\ UNCHANGED <<run, visible, online, moves, faults>>

Move(bound) == moves < bound /\ moves' = moves + 1 /\ UNCHANGED <<run, now, visible, online, faults>>
Fault == faults < MaxFaults /\ faults' = faults + 1 /\ UNCHANGED <<run, now, visible, moves>>

Hides   == visible /\ visible' = FALSE /\ moves < MaxMoves /\ moves' = moves + 1
           /\ UNCHANGED <<run, now, online, faults>>
Shows   == ~visible /\ visible' = TRUE /\ UNCHANGED <<run, now, online, moves, faults>>
Drops   == online /\ online' = FALSE /\ Fault
Reconnects == ~online /\ online' = TRUE /\ UNCHANGED <<run, now, visible, moves, faults>>
================================================================================
