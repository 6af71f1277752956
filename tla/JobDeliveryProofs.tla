--------------------------- MODULE JobDeliveryProofs ---------------------------
(***************************************************************************)
(* Proofs about JobDelivery, for any instances, steps, retry counts,       *)
(* workers, replicas, lease lengths and bounds.                            *)
(*                                                                         *)
(* Most transactions change the tables in two moves: they rewrite existing *)
(* rows, then append new ones.  The invariants are therefore restated over *)
(* a pair of tables es (step_execution) and js (job), so that one lemma    *)
(* covers each kind of move and the actions only cite it.                  *)
(***************************************************************************)
EXTENDS JobDelivery, FiniteSetTheorems, TLAPS

\* What the provers may use on a leaf that names no prover itself.
USE ZenonT(40), SMTT(40)

--------------------------------------------------------------------------------
(* The tables as sequences of rows. *)

\* A table is a function on the numbers of its rows,
LEMMA TableShape ==
    ASSUME NEW Row, NEW t \in Seq(Row)
    PROVE  Len(t) \in Nat /\ DOMAIN t = 1..Len(t) /\ t \in [1..Len(t) -> Row]
  BY SMTT(40)

LEMMA RowOfTable ==
    ASSUME NEW Row, NEW t \in Seq(Row), NEW k \in 1..Len(t)
    PROVE  t[k] \in Row
  BY SMTT(40)

\* and every such function is a table.
LEMMA MakeTable ==
    ASSUME NEW Row, NEW m \in Nat, NEW t \in [1..m -> Row]
    PROVE  t \in Seq(Row) /\ Len(t) = m
  BY SMTT(40)

\* An update of one row,
LEMMA UpdateRow ==
    ASSUME NEW Row, NEW t \in Seq(Row), NEW k \in 1..Len(t), NEW row \in Row
    PROVE  LET u == [t EXCEPT ![k] = row]
           IN  /\ u \in Seq(Row) /\ Len(u) = Len(t)
               /\ \A l \in 1..Len(t) : u[l] = IF l = k THEN row ELSE t[l]
  BY SMTT(40)

\* an insert of one row,
LEMMA InsertRow ==
    ASSUME NEW Row, NEW t \in Seq(Row), NEW row \in Row
    PROVE  LET u == Append(t, row)
           IN  /\ u \in Seq(Row) /\ Len(u) = Len(t) + 1 /\ u[Len(t) + 1] = row
               /\ \A l \in 1..Len(t) : u[l] = t[l]
  BY SMTT(40)

\* and an insert of several.
LEMMA InsertRows ==
    ASSUME NEW Row, NEW t \in Seq(Row), NEW rows \in Seq(Row)
    PROVE  LET u == t \o rows
           IN  /\ u \in Seq(Row) /\ Len(u) = Len(t) + Len(rows)
               /\ \A l \in 1..Len(u) : u[l] = IF l <= Len(t) THEN t[l] ELSE rows[l - Len(t)]
  BY SMTT(40)

Typed(es, js) ==
    /\ es \in Seq(StepExecution)
    /\ js \in Seq(Job)
    /\ \A j \in 1..Len(js) : js[j].exec \in 1..Len(es)

Newest(js) ==
    \A j, k \in 1..Len(js) :
        js[j].exec = js[k].exec /\ j < k => js[j].status \notin LiveJob

Served(es, js) ==
    \A x \in 1..Len(es) : es[x].status = "RUNNING" =>
        \E j \in 1..Len(js) : js[j].exec = x /\ js[j].status \in LiveJob

Closed(es, js) ==
    /\ \A j \in 1..Len(js) :
          es[js[j].exec].status = "COMPLETED" => js[j].status \notin LiveJob
    /\ \A j \in 1..Len(js) :
          js[j].status = "COMPLETED" => es[js[j].exec].status = "COMPLETED"
    /\ \A j, k \in 1..Len(js) :
          /\ js[j].exec = js[k].exec
          /\ js[j].status = "COMPLETED" /\ js[k].status = "COMPLETED"
          => j = k
    /\ \A x \in 1..Len(es) : es[x].status = "COMPLETED" =>
          \E j \in 1..Len(js) : js[j].exec = x /\ js[j].status = "COMPLETED"

Spent(js, j) ==
    {k \in 1..(j - 1) : js[k].exec = js[j].exec /\ js[k].status = "FAILED"}

Budget(es, js) ==
    \A j \in 1..Len(js) :
        js[j].retries = RetryCount[es[js[j].exec].step] - Cardinality(Spent(js, j))

Sound(es, js) ==
    Typed(es, js) /\ Newest(js) /\ Served(es, js) /\ Closed(es, js) /\ Budget(es, js)

SweeperOK ==
    /\ gate \in Replica \cup {NoOne}
    /\ expired \in [Replica -> SUBSET (1..Len(jobs))]
    /\ faults \in 0..MaxFaults

(* The inductive invariant. *)
IInv ==
    /\ instances \in [Instance -> InstanceState]
    /\ Sound(execs, jobs)
    /\ SweeperOK

--------------------------------------------------------------------------------
(* Rewriting rows in place. *)

\* js2 rewrites rows of js the way every transaction does: a retired attempt
\* keeps its status, and no row changes its step execution or its budget.
Rewrites(es, js, es2, js2) ==
    /\ Len(es2) = Len(es)
    /\ Len(js2) = Len(js)
    /\ \A x \in 1..Len(es) : es2[x].step = es[x].step
    /\ \A j \in 1..Len(js) :
          /\ js2[j].exec = js[j].exec
          /\ js2[j].retries = js[j].retries
          /\ js[j].status \notin LiveJob => js2[j].status = js[j].status

\* A rewrite never makes an older attempt live again and never touches the
\* retry accounting, because only newest attempts change their status.
LEMMA RewriteLemma ==
    ASSUME NEW es, NEW js, NEW es2, NEW js2,
           Sound(es, js), Typed(es2, js2), Rewrites(es, js, es2, js2)
    PROVE  Newest(js2) /\ Budget(es2, js2)
<1>1. Len(js) \in Nat /\ Len(es) \in Nat
  BY SMTT(40) DEF Sound, Typed
<1>2. Newest(js2)
  BY <1>1 DEF Newest, Sound, Rewrites
<1>3. ASSUME NEW j \in 1..Len(js) PROVE Spent(js2, j) = Spent(js, j)
  <2>1. ASSUME NEW k \in 1..(j - 1)
        PROVE  (js2[k].exec = js2[j].exec /\ js2[k].status = "FAILED")
               <=> (js[k].exec = js[j].exec /\ js[k].status = "FAILED")
    <3>1. k \in 1..Len(js) /\ k < j
      BY SMTT(40), <1>1, <1>3, <2>1
    <3>2. js2[k].exec = js[k].exec /\ js2[j].exec = js[j].exec
      BY <3>1 DEF Rewrites
    <3>3. js[k].exec = js[j].exec => js2[k].status = js[k].status
      BY <3>1 DEF Rewrites, Sound, Newest
    <3> QED BY <3>2, <3>3
  <2> QED BY <2>1 DEF Spent
<1>4. Budget(es2, js2)
  <2>1. ASSUME NEW j \in 1..Len(js2)
        PROVE js2[j].retries
                = RetryCount[es2[js2[j].exec].step] - Cardinality(Spent(js2, j))
    <3>1. j \in 1..Len(js)
      BY DEF Rewrites
    <3>2. js[j].exec \in 1..Len(es)
      BY <3>1 DEF Sound, Typed
    <3>3. es2[js2[j].exec].step = es[js[j].exec].step /\ js2[j].retries = js[j].retries
      BY <3>1, <3>2 DEF Rewrites
    <3> QED BY <3>1, <3>3, <1>3 DEF Sound, Budget
  <2> QED BY <2>1 DEF Budget
<1> QED BY <1>2, <1>4

--------------------------------------------------------------------------------
(* Appending rows. *)

\* What dispatchStep appends: one RUNNING row per step, and one job for each.
LEMMA DispatchRows ==
    ASSUME NEW i \in Instance, NEW ss \in Dispatches, NEW es, NEW js,
           Typed(es, js), DispatchSteps(i, ss, es, js)
    PROVE  /\ Len(ss) \in Nat /\ Len(es) \in Nat /\ Len(js) \in Nat
           /\ execs' \in Seq(StepExecution) /\ jobs' \in Seq(Job)
           /\ Len(execs') = Len(es) + Len(ss)
           /\ Len(jobs') = Len(js) + Len(ss)
           /\ \A x \in 1..Len(es) : execs'[x] = es[x]
           /\ \A j \in 1..Len(js) : jobs'[j] = js[j]
           /\ \A n \in 1..Len(ss) :
                 /\ ss[n] \in Step
                 /\ execs'[Len(es) + n] = NewExec(i, ss[n])
                 /\ jobs'[Len(js) + n] = NewJob(Len(es) + n, RetryCount[ss[n]])
<1>1. ss \in Seq(Step)
  <2>1. PICK m \in 0..MaxFanOut : ss \in [1..m -> Step]
    BY DEF Dispatches
  <2>2. m \in Nat
    BY SMTT(40), <2>1, BoundsAssumption
  <2> QED BY <2>1, <2>2, MakeTable
<1>2. /\ Len(ss) \in Nat /\ Len(es) \in Nat /\ Len(js) \in Nat
      /\ \A n \in 1..Len(ss) : ss[n] \in Step
  BY SMTT(40), <1>1 DEF Typed
<1> DEFINE ne == [n \in 1..Len(ss) |-> NewExec(i, ss[n])]
           nj == [n \in 1..Len(ss) |-> NewJob(Len(es) + n, RetryCount[ss[n]])]
<1>3. ne \in Seq(StepExecution) /\ Len(ne) = Len(ss)
  <2>1. \A n \in 1..Len(ss) : NewExec(i, ss[n]) \in StepExecution
    BY <1>2 DEF NewExec, StepExecution, ExecState
  <2>2. ne \in [1..Len(ss) -> StepExecution]
    BY <2>1
  <2> QED BY SMTT(40), <2>2, <1>2, MakeTable
<1>4. nj \in Seq(Job) /\ Len(nj) = Len(ss)
  <2>1. \A n \in 1..Len(ss) : NewJob(Len(es) + n, RetryCount[ss[n]]) \in Job
    <3>1. ASSUME NEW n \in 1..Len(ss) PROVE RetryCount[ss[n]] \in Nat /\ Len(es) + n \in Nat
      BY SMTT(40), <1>2, RetryAssumption
    <3> QED BY SMTT(40), <3>1 DEF NewJob, Job, JobState
  <2>2. nj \in [1..Len(ss) -> Job]
    BY <2>1
  <2> QED BY SMTT(40), <2>2, <1>2, MakeTable
<1>5. execs' = es \o ne /\ jobs' = js \o nj
  BY DEF DispatchSteps
<1>6. /\ execs' \in Seq(StepExecution)
      /\ Len(execs') = Len(es) + Len(ss)
      /\ \A k \in 1..(Len(es) + Len(ss)) :
            execs'[k] = IF k <= Len(es) THEN es[k] ELSE ne[k - Len(es)]
  <2>1. es \in Seq(StepExecution)
    BY DEF Typed
  <2> HIDE DEF ne
  <2>2. /\ es \o ne \in Seq(StepExecution)
        /\ Len(es \o ne) = Len(es) + Len(ne)
        /\ \A k \in 1..(Len(es) + Len(ne)) :
              (es \o ne)[k] = IF k <= Len(es) THEN es[k] ELSE ne[k - Len(es)]
    BY ZenonT(40), <2>1, <1>3, InsertRows
  <2>3. Len(ne) = Len(ss) /\ execs' = es \o ne
    BY <1>3, <1>5
  <2> QED BY <2>2, <2>3
<1>7. /\ jobs' \in Seq(Job)
      /\ Len(jobs') = Len(js) + Len(ss)
      /\ \A k \in 1..(Len(js) + Len(ss)) :
            jobs'[k] = IF k <= Len(js) THEN js[k] ELSE nj[k - Len(js)]
  <2>1. js \in Seq(Job)
    BY DEF Typed
  <2> HIDE DEF nj
  <2>2. /\ js \o nj \in Seq(Job)
        /\ Len(js \o nj) = Len(js) + Len(nj)
        /\ \A k \in 1..(Len(js) + Len(nj)) :
              (js \o nj)[k] = IF k <= Len(js) THEN js[k] ELSE nj[k - Len(js)]
    BY ZenonT(40), <2>1, <1>4, InsertRows
  <2>3. Len(nj) = Len(ss) /\ jobs' = js \o nj
    BY <1>4, <1>5
  <2> QED BY <2>2, <2>3
<1>8. ASSUME NEW x \in 1..Len(es) PROVE execs'[x] = es[x]
  <2>1. x \in 1..(Len(es) + Len(ss)) /\ x <= Len(es)
    BY SMTT(40), <1>2
  <2> QED BY <2>1, <1>6
<1>9. ASSUME NEW j \in 1..Len(js) PROVE jobs'[j] = js[j]
  <2>1. j \in 1..(Len(js) + Len(ss)) /\ j <= Len(js)
    BY SMTT(40), <1>2
  <2> QED BY <2>1, <1>7
<1>10. ASSUME NEW n \in 1..Len(ss)
       PROVE  /\ execs'[Len(es) + n] = NewExec(i, ss[n])
              /\ jobs'[Len(js) + n] = NewJob(Len(es) + n, RetryCount[ss[n]])
  <2>1. /\ Len(es) + n \in 1..(Len(es) + Len(ss)) /\ ~(Len(es) + n <= Len(es))
        /\ Len(js) + n \in 1..(Len(js) + Len(ss)) /\ ~(Len(js) + n <= Len(js))
        /\ (Len(es) + n) - Len(es) = n /\ (Len(js) + n) - Len(js) = n
    BY SMTT(40), <1>2
  <2>2. execs'[Len(es) + n] = ne[n] /\ jobs'[Len(js) + n] = nj[n]
    BY <2>1, <1>6, <1>7
  <2> QED BY <2>2
<1> QED BY <1>2, <1>6, <1>7, <1>8, <1>9, <1>10

\* Dispatching keeps sound tables sound: every new row gets a job of its own,
\* and an old job never refers to a new row.
LEMMA DispatchLemma ==
    ASSUME NEW i \in Instance, NEW ss \in Dispatches, NEW es, NEW js,
           Sound(es, js), DispatchSteps(i, ss, es, js)
    PROVE  Sound(execs', jobs') /\ Len(jobs') \in Nat /\ Len(js) <= Len(jobs')
<1> DEFINE E == execs'
           J == jobs'
<1>1. Typed(es, js)
  BY DEF Sound
<1>L. /\ Len(ss) \in Nat /\ Len(es) \in Nat /\ Len(js) \in Nat
      /\ Len(E) = Len(es) + Len(ss)
      /\ Len(J) = Len(js) + Len(ss)
  BY <1>1, DispatchRows
<1>2. /\ E \in Seq(StepExecution) /\ J \in Seq(Job)
      /\ \A x \in 1..Len(es) : E[x] = es[x]
      /\ \A j \in 1..Len(js) : J[j] = js[j]
      /\ \A n \in 1..Len(ss) :
            /\ ss[n] \in Step
            /\ E[Len(es) + n] = NewExec(i, ss[n])
            /\ J[Len(js) + n] = NewJob(Len(es) + n, RetryCount[ss[n]])
  BY SMTT(40), <1>1, DispatchRows
<1> HIDE DEF E, J
\* An old position, or the n-th new one.
<1>3. ASSUME NEW j \in 1..Len(J)
      PROVE  \/ j \in 1..Len(js) /\ J[j] = js[j] /\ J[j].exec \in 1..Len(es)
             \/ \E n \in 1..Len(ss) :
                   /\ j = Len(js) + n
                   /\ J[j].exec = Len(es) + n
                   /\ J[j].status = "UNLOCKED"
                   /\ J[j].retries = RetryCount[ss[n]]
  <2>1. CASE j \in 1..Len(js)
    BY <2>1, <1>1, <1>L, <1>2 DEF Typed
  <2>2. CASE j \notin 1..Len(js)
    <3>1. j - Len(js) \in 1..Len(ss) /\ j = Len(js) + (j - Len(js))
      BY SMTT(40), <2>2, <1>L, <1>2
    <3>2. J[j] = NewJob(Len(es) + (j - Len(js)), RetryCount[ss[j - Len(js)]])
      BY <3>1, <1>L, <1>2
    <3> QED BY SMTT(40), <3>1, <3>2 DEF NewJob
  <2> QED BY <2>1, <2>2
<1>4. ASSUME NEW x \in 1..Len(E)
      PROVE  \/ x \in 1..Len(es) /\ E[x] = es[x]
             \/ \E n \in 1..Len(ss) : x = Len(es) + n /\ E[x] = NewExec(i, ss[n])
  <2>1. CASE x \in 1..Len(es)
    BY <2>1, <1>L, <1>2
  <2>2. CASE x \notin 1..Len(es)
    <3>1. x - Len(es) \in 1..Len(ss) /\ x = Len(es) + (x - Len(es))
      BY SMTT(40), <2>2, <1>L, <1>2
    <3> QED BY <3>1, <1>L, <1>2
  <2> QED BY <2>1, <2>2
<1>5. Typed(E, J)
  <2>1. ASSUME NEW j \in 1..Len(J) PROVE J[j].exec \in 1..Len(E)
    BY SMTT(40), <1>L, <1>2, <1>3
  <2> QED BY <1>L, <1>2, <2>1 DEF Typed
<1>6. Newest(J)
  <2> SUFFICES ASSUME NEW j \in 1..Len(J), NEW k \in 1..Len(J),
                      J[j].exec = J[k].exec, j < k
               PROVE  J[j].status \notin LiveJob
    BY DEF Newest
  <2>1. ASSUME NEW n \in 1..Len(ss), k = Len(js) + n, J[k].exec = Len(es) + n PROVE FALSE
    <3>1. CASE j \in 1..Len(js) /\ J[j].exec \in 1..Len(es)
      BY SMTT(40), <3>1, <2>1, <1>L
    <3>2. CASE \E m \in 1..Len(ss) : j = Len(js) + m /\ J[j].exec = Len(es) + m
      BY SMTT(40), <3>2, <2>1, <1>L
    <3> QED BY <3>1, <3>2, <1>3
  <2>2. k \in 1..Len(js) /\ J[k] = js[k]
    BY <2>1, <1>3
  <2>3. j \in 1..Len(js)
    BY SMTT(40), <2>2, <1>L
  <2>4. J[j] = js[j]
    BY <2>3, <1>L, <1>2
  <2> QED BY <2>2, <2>3, <2>4 DEF Sound, Newest
<1>7. Served(E, J)
  <2> SUFFICES ASSUME NEW x \in 1..Len(E), E[x].status = "RUNNING"
               PROVE  \E j \in 1..Len(J) : J[j].exec = x /\ J[j].status \in LiveJob
    BY DEF Served
  <2>1. CASE x \in 1..Len(es) /\ E[x] = es[x]
    <3>1. PICK j \in 1..Len(js) : js[j].exec = x /\ js[j].status \in LiveJob
      BY <2>1 DEF Sound, Served
    <3>2. j \in 1..Len(J) /\ J[j] = js[j]
      BY SMTT(40), <1>L, <1>2
    <3> QED BY <3>1, <3>2
  <2>2. CASE \E n \in 1..Len(ss) : x = Len(es) + n /\ E[x] = NewExec(i, ss[n])
    <3>1. PICK n \in 1..Len(ss) : x = Len(es) + n
      BY <2>2
    <3>2. Len(js) + n \in 1..Len(J)
      BY SMTT(40), <1>L, <1>2
    <3>3. J[Len(js) + n] = NewJob(x, RetryCount[ss[n]])
      BY <3>1, <1>2
    <3>4. J[Len(js) + n].exec = x /\ J[Len(js) + n].status = "UNLOCKED"
      BY SMTT(40), <3>3 DEF NewJob
    <3> QED BY <3>2, <3>4 DEF LiveJob
  <2> QED BY <1>4, <2>1, <2>2
<1>8. Closed(E, J)
  <2>0. ASSUME NEW j \in 1..Len(J), J[j].exec \in 1..Len(es) PROVE j \in 1..Len(js) /\ J[j] = js[j]
    <3>1. ~ \E n \in 1..Len(ss) : J[j].exec = Len(es) + n
      BY SMTT(40), <2>0, <1>L
    <3> QED BY <3>1, <1>3
  <2>1. ASSUME NEW x \in 1..Len(E), E[x].status = "COMPLETED"
        PROVE x \in 1..Len(es) /\ E[x] = es[x]
    BY SMTT(40), <2>1, <1>L, <1>2, <1>4 DEF NewExec
  <2>2. ASSUME NEW j \in 1..Len(J), J[j].status = "COMPLETED"
        PROVE  j \in 1..Len(js) /\ J[j] = js[j] /\ js[j].exec \in 1..Len(es)
    BY <2>2, <1>L, <1>2, <1>3
  <2>3. ASSUME NEW j \in 1..Len(J), E[J[j].exec].status = "COMPLETED"
        PROVE  J[j].status \notin LiveJob
    <3>1. J[j].exec \in 1..Len(E)
      BY <1>5 DEF Typed
    <3>2. J[j].exec \in 1..Len(es) /\ E[J[j].exec] = es[J[j].exec]
      BY <2>1, <2>3, <3>1
    <3>3. j \in 1..Len(js) /\ J[j] = js[j]
      BY <2>0, <3>2
    <3> QED BY SMTT(40), <2>3, <3>2, <3>3 DEF Sound, Closed
  <2>4. ASSUME NEW j \in 1..Len(J), J[j].status = "COMPLETED"
        PROVE  E[J[j].exec].status = "COMPLETED"
    <3>1. j \in 1..Len(js) /\ J[j] = js[j] /\ js[j].exec \in 1..Len(es)
      BY <2>2, <2>4
    <3>2. es[js[j].exec].status = "COMPLETED"
      BY <2>4, <3>1 DEF Sound, Closed
    <3>3. E[js[j].exec] = es[js[j].exec]
      BY <1>2, <3>1
    <3> QED BY <3>1, <3>2, <3>3
  <2>5. ASSUME NEW j \in 1..Len(J), NEW k \in 1..Len(J), J[j].exec = J[k].exec,
               J[j].status = "COMPLETED", J[k].status = "COMPLETED"
        PROVE  j = k
    <3>1. j \in 1..Len(js) /\ J[j] = js[j] /\ k \in 1..Len(js) /\ J[k] = js[k]
      BY <2>2, <2>5
    <3> QED BY <2>5, <3>1 DEF Sound, Closed
  <2>6. ASSUME NEW x \in 1..Len(E), E[x].status = "COMPLETED"
        PROVE  \E j \in 1..Len(J) : J[j].exec = x /\ J[j].status = "COMPLETED"
    <3>1. PICK j \in 1..Len(js) : js[j].exec = x /\ js[j].status = "COMPLETED"
      BY SMTT(40), <2>1, <2>6 DEF Sound, Closed
    <3>2. j \in 1..Len(J) /\ J[j] = js[j]
      BY SMTT(40), <1>L, <1>2
    <3> QED BY <3>1, <3>2
  <2> QED BY <2>3, <2>4, <2>5, <2>6 DEF Closed
<1>9. Budget(E, J)
  <2> SUFFICES ASSUME NEW j \in 1..Len(J)
               PROVE  J[j].retries = RetryCount[E[J[j].exec].step] - Cardinality(Spent(J, j))
    BY DEF Budget
  <2>1. CASE j \in 1..Len(js) /\ J[j] = js[j] /\ J[j].exec \in 1..Len(es)
    <3>1. \A k \in 1..(j - 1) : J[k] = js[k]
      BY SMTT(40), <2>1, <1>L, <1>2
    <3>2. Spent(J, j) = Spent(js, j)
      BY <2>1, <3>1 DEF Spent
    <3>3. E[J[j].exec] = es[js[j].exec]
      BY <2>1, <1>L, <1>2
    <3> QED BY <2>1, <3>2, <3>3 DEF Sound, Budget
  <2>2. ASSUME NEW n \in 1..Len(ss), j = Len(js) + n, J[j].exec = Len(es) + n,
               J[j].retries = RetryCount[ss[n]]
        PROVE  J[j].retries = RetryCount[E[J[j].exec].step] - Cardinality(Spent(J, j))
    <3>1. ASSUME NEW k \in 1..(j - 1) PROVE J[k].exec # J[j].exec
      <4>1. k \in 1..Len(J) /\ k < j
        BY SMTT(40), <2>2, <3>1, <1>L, <1>2
      <4>2. CASE J[k].exec \in 1..Len(es)
        BY SMTT(40), <4>2, <2>2, <1>L
      <4>3. CASE \E m \in 1..Len(ss) : k = Len(js) + m /\ J[k].exec = Len(es) + m
        BY SMTT(40), <4>1, <4>3, <2>2, <1>L
      <4> QED BY <4>1, <4>2, <4>3, <1>3
    <3>2. Spent(J, j) = {}
      BY <3>1 DEF Spent
    <3>3. Cardinality(Spent(J, j)) = 0
      BY <3>2, FS_EmptySet
    <3>4. E[J[j].exec] = NewExec(i, ss[n])
      BY <2>2, <1>2
    <3>5. E[J[j].exec].step = ss[n]
      BY SMTT(40), <3>4 DEF NewExec
    <3>6. RetryCount[ss[n]] \in Nat
      BY <1>2, RetryAssumption
    <3> QED BY SMTT(40), <2>2, <3>3, <3>5, <3>6
  <2> QED BY <1>3, <2>1, <2>2
<1>10. Sound(E, J)
  BY <1>5, <1>6, <1>7, <1>8, <1>9 DEF Sound
<1> QED BY SMTT(40), <1>L, <1>2, <1>10 DEF E, J

\* A retired job row is still a job row.
LEMMA RetiredRowType ==
    ASSUME NEW b \in Job, NEW st \in JobState, NEW w \in Worker \cup {NoOne}, NEW l \in Int
    PROVE  /\ [b EXCEPT !.status = st, !.worker = w, !.lease = l] \in Job
           /\ [b EXCEPT !.status = st, !.lease = l] \in Job
<1>1. [b EXCEPT !.status = st, !.worker = w, !.lease = l] \in Job
  BY DEF Job
<1>2. [b EXCEPT !.status = st, !.lease = l] \in Job
  BY DEF Job
<1> QED BY <1>1, <1>2

\* Retiring an attempt changes nothing but that attempt's status, worker and lease.
LEMMA RetireRows ==
    ASSUME jobs \in Seq(Job), NEW j \in 1..Len(jobs),
           NEW w \in Worker \cup {NoOne}, NEW st \in JobState
    PROVE  LET R == Retire(j, w, st)
           IN  /\ R \in Seq(Job)
               /\ Len(R) = Len(jobs)
               /\ \A k \in 1..Len(jobs) : k # j => R[k] = jobs[k]
               /\ R[j].exec = jobs[j].exec /\ R[j].retries = jobs[j].retries
               /\ R[j].status = st /\ R[j].worker = w
<1> DEFINE e == [jobs[j] EXCEPT !.status = st, !.worker = w, !.lease = 0]
<1>1. jobs[j] \in Job
  BY RowOfTable
<1>2. /\ e \in Job /\ e.exec = jobs[j].exec /\ e.retries = jobs[j].retries
      /\ e.status = st /\ e.worker = w
  <2>1. e \in Job
    <3>1. 0 \in Int
      BY SMTT(40)
    <3> QED BY <1>1, <3>1, RetiredRowType
  <2>2. /\ e.exec = jobs[j].exec /\ e.retries = jobs[j].retries
        /\ e.status = st /\ e.worker = w
    BY <1>1 DEF Job
  <2> QED BY <2>1, <2>2
<1>3. DOMAIN jobs = 1..Len(jobs)
  BY TableShape
<1>4. Retire(j, w, st) = [jobs EXCEPT ![j] = e]
  BY <1>3 DEF Retire
<1> HIDE DEF e
<1>5. /\ [jobs EXCEPT ![j] = e] \in Seq(Job)
      /\ Len([jobs EXCEPT ![j] = e]) = Len(jobs)
      /\ \A k \in 1..Len(jobs) : [jobs EXCEPT ![j] = e][k] = IF k = j THEN e ELSE jobs[k]
  <2>1. e \in Job
    BY <1>2
  <2> QED BY SMTT(40), <2>1, UpdateRow
<1> QED BY <1>2, <1>4, <1>5

\* CancelJobByStepExecution retires the live attempts of x and nothing else.
LEMMA CancelRows ==
    ASSUME jobs \in Seq(Job), NEW x
    PROVE  LET R == CancelJobByStepExecution(x)
           IN  /\ R \in Seq(Job)
               /\ Len(R) = Len(jobs)
               /\ \A k \in 1..Len(jobs) :
                     /\ R[k].exec = jobs[k].exec /\ R[k].retries = jobs[k].retries
                     /\ IF jobs[k].exec = x /\ jobs[k].status \in LiveJob
                        THEN R[k].status = "CANCELLED"
                        ELSE R[k] = jobs[k]
<1> DEFINE f(k) == IF jobs[k].exec = x /\ jobs[k].status \in LiveJob
                   THEN [jobs[k] EXCEPT !.status = "CANCELLED", !.lease = 0]
                   ELSE jobs[k]
           R == [k \in 1..Len(jobs) |-> f(k)]
<1>1. DOMAIN jobs = 1..Len(jobs) /\ Len(jobs) \in Nat
  BY TableShape
<1>2. CancelJobByStepExecution(x) = R
  BY <1>1 DEF CancelJobByStepExecution
<1>3. ASSUME NEW k \in 1..Len(jobs)
      PROVE  /\ f(k) \in Job /\ f(k).exec = jobs[k].exec /\ f(k).retries = jobs[k].retries
             /\ IF jobs[k].exec = x /\ jobs[k].status \in LiveJob
                THEN f(k).status = "CANCELLED" ELSE f(k) = jobs[k]
  <2>1. jobs[k] \in Job
    BY RowOfTable
  <2>2. CASE jobs[k].exec = x /\ jobs[k].status \in LiveJob
    <3>0. jobs[k].worker \in Worker \cup {NoOne} /\ "CANCELLED" \in JobState /\ 0 \in Int
      BY SMTT(40), <2>1 DEF Job, JobState
    <3>1. f(k) \in Job
      BY <2>1, <2>2, <3>0, RetiredRowType
    <3>2. f(k).exec = jobs[k].exec /\ f(k).retries = jobs[k].retries /\ f(k).status = "CANCELLED"
      BY <2>1, <2>2 DEF Job
    <3> QED BY <2>2, <3>1, <3>2
  <2>3. CASE ~(jobs[k].exec = x /\ jobs[k].status \in LiveJob)
    BY <2>1, <2>3
  <2> QED BY <2>2, <2>3
<1> HIDE DEF f
<1>4. R \in [1..Len(jobs) -> Job]
  BY <1>3
<1>5. R \in Seq(Job) /\ Len(R) = Len(jobs)
  BY SMTT(40), <1>1, <1>4, MakeTable
<1> QED BY <1>2, <1>3, <1>5

\* Replacing a live attempt by a fresh one for the same step execution: the
\* body of enqueueReplacement, for a failed and for an expired attempt.
LEMMA ReplacementLemma ==
    ASSUME Sound(execs, jobs), NEW j \in 1..Len(jobs), jobs[j].status \in LiveJob,
           NEW w \in Worker \cup {NoOne}, NEW st \in {"FAILED", "CANCELLED"}, NEW r \in Nat,
           jobs[j].retries = r + (IF st = "FAILED" THEN 1 ELSE 0),
           EnqueueReplacement(Retire(j, w, st), j, r)
    PROVE  Sound(execs, jobs') /\ Len(jobs) \in Nat /\ Len(jobs') = Len(jobs) + 1
<1> DEFINE J == jobs'
           x == jobs[j].exec
           R == Retire(j, w, st)
           n == Len(jobs) + 1
<1>1. jobs \in Seq(Job) /\ Len(jobs) \in Nat /\ x \in 1..Len(execs) /\ Typed(execs, jobs)
  BY SMTT(40) DEF Sound, Typed
<1>2. /\ R \in Seq(Job) /\ Len(R) = Len(jobs)
      /\ \A k \in 1..Len(jobs) : k # j => R[k] = jobs[k]
      /\ R[j].exec = x /\ R[j].retries = jobs[j].retries /\ R[j].status = st
  BY SMTT(40), <1>1, RetireRows DEF JobState
<1>3. J = Append(R, NewJob(x, r))
  BY DEF EnqueueReplacement
<1>4. NewJob(x, r) \in Job
  BY SMTT(40), <1>1 DEF NewJob, Job, JobState, Typed
<1> HIDE DEF R
<1>5. J \in Seq(Job) /\ Len(J) = n
  <2>1. R \in Seq(Job)
    BY <1>2
  <2>2. Append(R, NewJob(x, r)) \in Seq(Job) /\ Len(Append(R, NewJob(x, r))) = Len(R) + 1
    BY SMTT(40), <2>1, <1>4, InsertRow
  <2> QED BY <2>2, <1>2, <1>3
<1>6. /\ \A k \in 1..Len(jobs) : k # j => J[k] = jobs[k]
      /\ J[j].exec = x /\ J[j].retries = jobs[j].retries /\ J[j].status = st
      /\ J[n].exec = x /\ J[n].retries = r /\ J[n].status = "UNLOCKED"
  <2>1. \A k \in 1..Len(jobs) : J[k] = R[k]
    BY SMTT(40), <1>1, <1>2, <1>3, <1>4
  <2>2. J[n] = NewJob(x, r)
    BY SMTT(40), <1>1, <1>2, <1>3, <1>4
  <2> HIDE DEF J, n
  <2>3. J[n].exec = x /\ J[n].retries = r /\ J[n].status = "UNLOCKED"
    BY SMTT(40), <2>2 DEF NewJob
  <2> QED BY <1>2, <2>1, <2>3
<1>7. \A k \in 1..n : k \in 1..Len(jobs) \/ k = n
  BY SMTT(40), <1>1
<1>7a. n \in 1..n /\ n \notin 1..Len(jobs) /\ 1..Len(jobs) \subseteq 1..n
  BY SMTT(40), <1>1
<1> HIDE DEF J, n
<1>8. \A k \in 1..Len(jobs) : J[k].exec = jobs[k].exec /\ J[k].retries = jobs[k].retries
  BY <1>6
<1>9. st \notin LiveJob /\ st # "COMPLETED"
  BY DEF LiveJob
\* j is the newest attempt of x, so every other attempt of x is retired.
<1>10. \A k \in 1..Len(jobs) : jobs[k].exec = x /\ k # j => jobs[k].status \notin LiveJob /\ k < j
  <2> SUFFICES ASSUME NEW k \in 1..Len(jobs), jobs[k].exec = x, k # j
               PROVE  jobs[k].status \notin LiveJob /\ k < j
    OBVIOUS
  <2>1. ~(j < k)
    BY DEF Sound, Newest
  <2>2. k < j
    BY SMTT(40), <2>1, <1>1
  <2> QED BY <2>2 DEF Sound, Newest
<1>11. Typed(execs, J)
  <2>1. ASSUME NEW k \in 1..Len(J) PROVE J[k].exec \in 1..Len(execs)
    BY <1>1, <1>5, <1>6, <1>7, <1>8 DEF Typed
  <2> QED BY <1>1, <1>5, <2>1 DEF Typed
<1>12. Newest(J)
  <2> SUFFICES ASSUME NEW a \in 1..Len(J), NEW b \in 1..Len(J), J[a].exec = J[b].exec, a < b
               PROVE  J[a].status \notin LiveJob
    BY DEF Newest
  <2>1. a \in 1..Len(jobs)
    BY SMTT(40), <1>1, <1>5, <1>7 DEF n
  <2>2. CASE b \in 1..Len(jobs)
    <3>1. jobs[a].status \notin LiveJob
      BY <2>1, <2>2, <1>8 DEF Sound, Newest
    <3> QED BY <3>1, <2>1, <1>6, <1>9
  <2>3. CASE b = n
    BY <2>1, <2>3, <1>6, <1>8, <1>9, <1>10
  <2> QED BY <2>2, <2>3, <1>5, <1>7
<1>13. Served(execs, J)
  <2> SUFFICES ASSUME NEW y \in 1..Len(execs), execs[y].status = "RUNNING"
               PROVE  \E k \in 1..Len(J) : J[k].exec = y /\ J[k].status \in LiveJob
    BY DEF Served
  <2>1. CASE y = x
    BY <2>1, <1>5, <1>6, <1>7a DEF LiveJob
  <2>2. CASE y # x
    <3>1. PICK k \in 1..Len(jobs) : jobs[k].exec = y /\ jobs[k].status \in LiveJob
      BY DEF Sound, Served
    <3>2. k # j /\ k \in 1..Len(J)
      BY <3>1, <2>2, <1>5, <1>7a
    <3> QED BY <3>1, <3>2, <1>6
  <2> QED BY <2>1, <2>2
<1>14. Closed(execs, J)
  <2>0. execs[x].status # "COMPLETED"
    BY DEF Sound, Closed
  <2>1. ASSUME NEW k \in 1..Len(J), J[k].status = "COMPLETED"
        PROVE  k \in 1..Len(jobs) /\ J[k] = jobs[k]
    BY <2>1, <1>5, <1>6, <1>7, <1>9
  <2>2. ASSUME NEW k \in 1..Len(J), execs[J[k].exec].status = "COMPLETED"
        PROVE  k \in 1..Len(jobs) /\ J[k] = jobs[k]
    BY <2>0, <2>2, <1>5, <1>6, <1>7
  <2>3. \A k \in 1..Len(J) : execs[J[k].exec].status = "COMPLETED" => J[k].status \notin LiveJob
    BY <2>2 DEF Sound, Closed
  <2>4. \A k \in 1..Len(J) : J[k].status = "COMPLETED" => execs[J[k].exec].status = "COMPLETED"
    BY SMTT(40), <2>1 DEF Sound, Closed
  <2>5. ASSUME NEW a \in 1..Len(J), NEW b \in 1..Len(J), J[a].exec = J[b].exec,
               J[a].status = "COMPLETED", J[b].status = "COMPLETED"
        PROVE  a = b
    <3>1. a \in 1..Len(jobs) /\ J[a] = jobs[a] /\ b \in 1..Len(jobs) /\ J[b] = jobs[b]
      BY <2>1, <2>5
    <3> QED BY SMTT(40), <2>5, <3>1 DEF Sound, Closed
  <2>6. ASSUME NEW y \in 1..Len(execs), execs[y].status = "COMPLETED"
        PROVE  \E k \in 1..Len(J) : J[k].exec = y /\ J[k].status = "COMPLETED"
    <3>1. PICK k \in 1..Len(jobs) : jobs[k].exec = y /\ jobs[k].status = "COMPLETED"
      BY <2>6 DEF Sound, Closed
    <3>2. k # j /\ k \in 1..Len(J)
      BY <3>1, <1>5, <1>7a DEF LiveJob
    <3> QED BY <3>1, <3>2, <1>6
  <2> QED BY <2>3, <2>4, <2>5, <2>6 DEF Closed
<1>15. Budget(execs, J)
  <2> SUFFICES ASSUME NEW k \in 1..Len(J)
               PROVE  J[k].retries = RetryCount[execs[J[k].exec].step] - Cardinality(Spent(J, k))
    BY DEF Budget
  <2>1. CASE k \in 1..Len(jobs)
    <3>1. ASSUME NEW m \in 1..(k - 1)
          PROVE  (J[m].exec = J[k].exec /\ J[m].status = "FAILED")
                 <=> (jobs[m].exec = jobs[k].exec /\ jobs[m].status = "FAILED")
      <4>1. m \in 1..Len(jobs) /\ m < k
        BY SMTT(40), <2>1, <3>1, <1>1
      <4>2. jobs[m].exec = jobs[k].exec => m # j
        BY <4>1, <2>1 DEF Sound, Newest
      <4> QED BY <4>1, <4>2, <2>1, <1>6, <1>8
    <3>2. Spent(J, k) = Spent(jobs, k)
      BY <3>1 DEF Spent
    <3> QED BY <2>1, <3>2, <1>8 DEF Sound, Budget
  <2>2. CASE k = n
    <3>1. IsFiniteSet(Spent(jobs, j)) /\ Cardinality(Spent(jobs, j)) \in Nat
      <4>0. 1 \in Int /\ j - 1 \in Int
        BY SMTT(40)
      <4>1. IsFiniteSet(1..(j - 1))
        BY <4>0, FS_Interval
      <4>2. Spent(jobs, j) \in SUBSET (1..(j - 1))
        BY DEF Spent
      <4>3. IsFiniteSet(Spent(jobs, j))
        BY <4>1, <4>2, FS_Subset
      <4> QED BY <4>3, FS_CardinalityType
    <3>2. Spent(J, n) = IF st = "FAILED" THEN Spent(jobs, j) \cup {j} ELSE Spent(jobs, j)
      <4>1. n - 1 = Len(jobs)
        BY SMTT(40), <1>1 DEF n
      <4>2. Spent(J, n) = {m \in 1..Len(jobs) : J[m].exec = x /\ J[m].status = "FAILED"}
        BY <4>1, <1>6 DEF Spent
      <4>3. ASSUME NEW m \in 1..Len(jobs), m # j
            PROVE  (J[m].exec = x /\ J[m].status = "FAILED")
                   <=> (m \in 1..(j - 1) /\ jobs[m].exec = x /\ jobs[m].status = "FAILED")
        <5>1. J[m] = jobs[m]
          BY <4>3, <1>6
        <5>2. jobs[m].exec = x => m \in 1..(j - 1)
          BY SMTT(40), <4>3, <1>1, <1>10
        <5> QED BY <5>1, <5>2
      <4>4. j \notin 1..(j - 1) /\ 1..(j - 1) \subseteq 1..Len(jobs)
        BY SMTT(40), <1>1
      <4> QED BY <4>2, <4>3, <4>4, <1>6 DEF Spent
    <3>3. j \notin Spent(jobs, j)
      BY SMTT(40) DEF Spent
    <3>4. Cardinality(Spent(J, n)) = Cardinality(Spent(jobs, j)) + (IF st = "FAILED" THEN 1 ELSE 0)
      <4>1. Cardinality(Spent(jobs, j) \cup {j}) = Cardinality(Spent(jobs, j)) + 1
        BY <3>1, <3>3, FS_AddElement
      <4> QED BY SMTT(40), <3>1, <3>2, <4>1
    <3>5. jobs[j].retries = RetryCount[execs[x].step] - Cardinality(Spent(jobs, j))
      BY DEF Sound, Budget
    <3>6. execs[x] \in StepExecution
      BY <1>1, RowOfTable DEF Typed
    <3>6a. execs[x].step \in Step
      BY <3>6 DEF StepExecution
    <3>7. RetryCount[execs[x].step] \in Nat
      BY <3>6a, RetryAssumption
    <3>8. J[k].exec = x /\ J[k].retries = r
      BY <2>2, <1>6
    <3> HIDE DEF x
    <3> QED BY SMTT(40), <2>2, <3>1, <3>4, <3>5, <3>7, <3>8
  <2> QED BY <2>1, <2>2, <1>5, <1>7
<1>16. Sound(execs, J)
  BY <1>11, <1>12, <1>13, <1>14, <1>15 DEF Sound
<1> QED BY <1>1, <1>5, <1>16 DEF J, n

--------------------------------------------------------------------------------
(* Closing a step execution. *)

\* Setting the status of one step execution leaves the rest of the table alone.
LEMMA ExecRows ==
    ASSUME execs \in Seq(StepExecution), NEW x \in 1..Len(execs), NEW st \in ExecState
    PROVE  LET E == [execs EXCEPT ![x].status = st]
           IN  /\ E \in Seq(StepExecution)
               /\ Len(E) = Len(execs)
               /\ \A y \in 1..Len(execs) : y # x => E[y] = execs[y]
               /\ E[x].status = st /\ E[x].step = execs[x].step /\ E[x].inst = execs[x].inst
<1> DEFINE e == [execs[x] EXCEPT !.status = st]
<1>1. execs[x] \in StepExecution
  BY RowOfTable
<1>2. e \in StepExecution
  BY <1>1 DEF StepExecution
<1>3. e.status = st /\ e.step = execs[x].step /\ e.inst = execs[x].inst
  BY <1>1 DEF StepExecution
<1>4. [execs EXCEPT ![x].status = st] = [execs EXCEPT ![x] = e]
  OBVIOUS
<1> HIDE DEF e
<1>5. /\ [execs EXCEPT ![x] = e] \in Seq(StepExecution)
      /\ Len([execs EXCEPT ![x] = e]) = Len(execs)
      /\ \A y \in 1..Len(execs) : [execs EXCEPT ![x] = e][y] = IF y = x THEN e ELSE execs[y]
  BY SMTT(40), <1>2, UpdateRow
<1> QED BY <1>3, <1>4, <1>5

\* An accepted callback closes its step execution with its own status, and may
\* fail other RUNNING rows along the way: Complete, its failInstance path and
\* the final Fail.
LEMMA FinishLemma ==
    ASSUME Sound(execs, jobs), NEW j \in 1..Len(jobs), jobs[j].status \in LiveJob,
           execs[jobs[j].exec].status = "RUNNING",
           NEW w \in Worker \cup {NoOne}, NEW st \in {"COMPLETED", "FAILED"},
           NEW es \in Seq(StepExecution), Len(es) = Len(execs),
           es[jobs[j].exec].status = st,
           \A y \in 1..Len(execs) :
              /\ es[y].step = execs[y].step
              /\ y # jobs[j].exec =>
                    \/ es[y].status = execs[y].status
                    \/ execs[y].status = "RUNNING" /\ es[y].status = "FAILED"
    PROVE  Sound(es, Retire(j, w, st)) /\ Len(Retire(j, w, st)) = Len(jobs)
<1> DEFINE x == jobs[j].exec
           R == Retire(j, w, st)
<1>1. Typed(execs, jobs) /\ jobs \in Seq(Job) /\ x \in 1..Len(execs)
  BY DEF Sound, Typed
<1>2. /\ R \in Seq(Job) /\ Len(R) = Len(jobs)
      /\ \A k \in 1..Len(jobs) : k # j => R[k] = jobs[k]
      /\ R[j].exec = x /\ R[j].retries = jobs[j].retries /\ R[j].status = st
  BY SMTT(40), <1>1, RetireRows DEF JobState
<1> HIDE DEF R
<1>3. \A k \in 1..Len(jobs) : R[k].exec = jobs[k].exec /\ R[k].retries = jobs[k].retries
  BY <1>2
<1>4. Typed(es, R)
  BY <1>1, <1>2, <1>3 DEF Typed
<1>5. Rewrites(execs, jobs, es, R)
  BY <1>2, <1>3 DEF Rewrites
<1>6. Newest(R) /\ Budget(es, R)
  BY <1>4, <1>5, RewriteLemma
<1>7. Len(jobs) \in Nat
  BY SMTT(40), <1>1
<1>8. \A k \in 1..Len(jobs) : jobs[k].exec = x /\ k # j => jobs[k].status \notin LiveJob
  <2> SUFFICES ASSUME NEW k \in 1..Len(jobs), jobs[k].exec = x, k # j
               PROVE  jobs[k].status \notin LiveJob
    OBVIOUS
  <2>1. ~(j < k)
    BY DEF Sound, Newest
  <2>2. k < j
    BY SMTT(40), <2>1, <1>7
  <2> QED BY <2>2 DEF Sound, Newest
\* The step was RUNNING, so no earlier attempt had completed it.
<1>9. \A k \in 1..Len(jobs) : jobs[k].exec = x => jobs[k].status # "COMPLETED"
  BY DEF Sound, Closed
<1>10. st \notin LiveJob
  BY DEF LiveJob
<1>11. Served(es, R)
  <2> SUFFICES ASSUME NEW y \in 1..Len(es), es[y].status = "RUNNING"
               PROVE  \E k \in 1..Len(R) : R[k].exec = y /\ R[k].status \in LiveJob
    BY DEF Served
  <2>1. y # x /\ y \in 1..Len(execs) /\ execs[y].status = "RUNNING"
    OBVIOUS
  <2>2. PICK k \in 1..Len(jobs) : jobs[k].exec = y /\ jobs[k].status \in LiveJob
    BY <2>1 DEF Sound, Served
  <2>3. k # j
    BY <2>1, <2>2
  <2> QED BY <2>2, <2>3, <1>2
<1>12. Closed(es, R)
  <2>1. ASSUME NEW k \in 1..Len(R), es[R[k].exec].status = "COMPLETED"
        PROVE  R[k].status \notin LiveJob
    <3>1. k \in 1..Len(jobs) /\ R[k].exec = jobs[k].exec /\ jobs[k].exec \in 1..Len(execs)
      BY <1>1, <1>2, <1>3 DEF Typed
    <3>2. CASE jobs[k].exec = x
      BY SMTT(40), <3>1, <3>2, <1>2, <1>8, <1>10
    <3>3. CASE jobs[k].exec # x
      <4>1. execs[jobs[k].exec].status = "COMPLETED" /\ k # j
        BY <2>1, <3>1, <3>3
      <4>2. jobs[k].status \notin LiveJob
        BY <3>1, <4>1 DEF Sound, Closed
      <4> QED BY <3>1, <4>1, <4>2, <1>2
    <3> QED BY <3>2, <3>3
  <2>2. ASSUME NEW k \in 1..Len(R), R[k].status = "COMPLETED"
        PROVE  es[R[k].exec].status = "COMPLETED"
    <3>1. CASE k = j
      BY <2>2, <3>1, <1>2
    <3>2. CASE k # j
      <4>1. k \in 1..Len(jobs) /\ R[k] = jobs[k]
        BY <3>2, <1>2
      <4>2. execs[jobs[k].exec].status = "COMPLETED" /\ jobs[k].exec \in 1..Len(execs)
        BY SMTT(40), <2>2, <4>1, <1>1 DEF Sound, Closed, Typed
      <4>3. jobs[k].exec # x
        BY <4>2
      <4> QED BY <4>1, <4>2, <4>3
    <3> QED BY <3>1, <3>2
  <2>3. ASSUME NEW a \in 1..Len(R), NEW b \in 1..Len(R), R[a].exec = R[b].exec,
               R[a].status = "COMPLETED", R[b].status = "COMPLETED"
        PROVE  a = b
    <3>1. a \in 1..Len(jobs) /\ b \in 1..Len(jobs) /\ jobs[a].exec = jobs[b].exec
      BY <2>3, <1>2, <1>3
    <3>2. CASE a # j /\ b # j
      <4>1. jobs[a].status = "COMPLETED" /\ jobs[b].status = "COMPLETED"
        BY <2>3, <3>1, <3>2, <1>2
      <4> QED BY <3>1, <4>1 DEF Sound, Closed
    <3>3. CASE a = j /\ b # j
      BY SMTT(40), <2>3, <3>1, <3>3, <1>2, <1>9
    <3>4. CASE a # j /\ b = j
      BY SMTT(40), <2>3, <3>1, <3>4, <1>2, <1>9
    <3> QED BY <3>2, <3>3, <3>4
  <2>4. ASSUME NEW y \in 1..Len(es), es[y].status = "COMPLETED"
        PROVE  \E k \in 1..Len(R) : R[k].exec = y /\ R[k].status = "COMPLETED"
    <3>1. CASE y = x
      BY <2>4, <3>1, <1>2
    <3>2. CASE y # x
      <4>1. y \in 1..Len(execs) /\ execs[y].status = "COMPLETED"
        BY <2>4, <3>2
      <4>2. PICK k \in 1..Len(jobs) : jobs[k].exec = y /\ jobs[k].status = "COMPLETED"
        BY <4>1 DEF Sound, Closed
      <4>3. k # j
        BY <4>2, <3>2
      <4> QED BY <4>2, <4>3, <1>2
    <3> QED BY <3>1, <3>2
  <2> QED BY <2>1, <2>2, <2>3, <2>4 DEF Closed
<1> QED BY <1>2, <1>4, <1>6, <1>11, <1>12 DEF Sound, R

\* Failing a RUNNING step execution together with its live attempts: an
\* interrupting timer, and outputs that the schema rejects.
LEMMA FailStepLemma ==
    ASSUME Sound(execs, jobs), NEW x \in 1..Len(execs), execs[x].status = "RUNNING"
    PROVE  /\ Sound([execs EXCEPT ![x].status = "FAILED"], CancelJobByStepExecution(x))
           /\ Len(CancelJobByStepExecution(x)) = Len(jobs)
<1> DEFINE E == [execs EXCEPT ![x].status = "FAILED"]
           R == CancelJobByStepExecution(x)
<1>1. Typed(execs, jobs) /\ jobs \in Seq(Job) /\ execs \in Seq(StepExecution)
  BY DEF Sound, Typed
<1>2. /\ E \in Seq(StepExecution) /\ Len(E) = Len(execs)
      /\ \A y \in 1..Len(execs) : y # x => E[y] = execs[y]
      /\ E[x].status = "FAILED" /\ E[x].step = execs[x].step
  BY <1>1, ExecRows DEF ExecState
<1>3. /\ R \in Seq(Job) /\ Len(R) = Len(jobs)
      /\ \A k \in 1..Len(jobs) :
            /\ R[k].exec = jobs[k].exec /\ R[k].retries = jobs[k].retries
            /\ IF jobs[k].exec = x /\ jobs[k].status \in LiveJob
               THEN R[k].status = "CANCELLED" ELSE R[k] = jobs[k]
  BY <1>1, CancelRows
<1> HIDE DEF E, R
<1>4. Typed(E, R)
  BY <1>1, <1>2, <1>3 DEF Typed
<1>5. Rewrites(execs, jobs, E, R)
  BY <1>2, <1>3 DEF Rewrites
<1>6. Newest(R) /\ Budget(E, R)
  BY <1>4, <1>5, RewriteLemma
<1>7. Served(E, R)
  <2> SUFFICES ASSUME NEW y \in 1..Len(E), E[y].status = "RUNNING"
               PROVE  \E k \in 1..Len(R) : R[k].exec = y /\ R[k].status \in LiveJob
    BY DEF Served
  <2>1. y # x /\ y \in 1..Len(execs) /\ execs[y].status = "RUNNING"
    BY <1>2
  <2>2. PICK k \in 1..Len(jobs) : jobs[k].exec = y /\ jobs[k].status \in LiveJob
    BY <2>1 DEF Sound, Served
  <2> QED BY <2>1, <2>2, <1>3
<1>8. Closed(E, R)
  <2>1. ASSUME NEW y \in 1..Len(execs)
        PROVE  E[y].status = "COMPLETED" <=> execs[y].status = "COMPLETED"
    BY <1>2
  <2>2. ASSUME NEW k \in 1..Len(jobs)
        PROVE  /\ R[k].status = "COMPLETED" <=> jobs[k].status = "COMPLETED"
               /\ R[k].status \in LiveJob => jobs[k].status \in LiveJob
    BY <1>3 DEF LiveJob
  <2>3. ASSUME NEW k \in 1..Len(R), E[R[k].exec].status = "COMPLETED"
        PROVE  R[k].status \notin LiveJob
    <3>1. k \in 1..Len(jobs) /\ R[k].exec = jobs[k].exec /\ jobs[k].exec \in 1..Len(execs)
      BY <1>1, <1>3 DEF Typed
    <3>2. jobs[k].status \notin LiveJob
      BY SMTT(40), <2>1, <2>3, <3>1 DEF Sound, Closed
    <3> QED BY <3>1, <3>2, <2>2
  <2>4. ASSUME NEW k \in 1..Len(R), R[k].status = "COMPLETED"
        PROVE  E[R[k].exec].status = "COMPLETED"
    <3>1. k \in 1..Len(jobs) /\ R[k].exec = jobs[k].exec /\ jobs[k].exec \in 1..Len(execs)
      BY SMTT(40), <1>1, <1>3 DEF Typed
    <3>2. execs[jobs[k].exec].status = "COMPLETED"
      BY <2>2, <2>4, <3>1 DEF Sound, Closed
    <3> QED BY <2>1, <3>1, <3>2
  <2>5. ASSUME NEW a \in 1..Len(R), NEW b \in 1..Len(R), R[a].exec = R[b].exec,
               R[a].status = "COMPLETED", R[b].status = "COMPLETED"
        PROVE  a = b
    <3>1. /\ a \in 1..Len(jobs) /\ b \in 1..Len(jobs) /\ jobs[a].exec = jobs[b].exec
          /\ jobs[a].status = "COMPLETED" /\ jobs[b].status = "COMPLETED"
      BY <2>2, <2>5, <1>3
    <3> QED BY <3>1 DEF Sound, Closed
  <2>6. ASSUME NEW y \in 1..Len(E), E[y].status = "COMPLETED"
        PROVE  \E k \in 1..Len(R) : R[k].exec = y /\ R[k].status = "COMPLETED"
    <3>1. y \in 1..Len(execs) /\ execs[y].status = "COMPLETED"
      BY <2>1, <2>6, <1>2
    <3>2. PICK k \in 1..Len(jobs) : jobs[k].exec = y /\ jobs[k].status = "COMPLETED"
      BY <3>1 DEF Sound, Closed
    <3> QED BY <3>2, <2>2, <1>3
  <2> QED BY <2>3, <2>4, <2>5, <2>6 DEF Closed
<1> QED BY <1>3, <1>4, <1>6, <1>7, <1>8 DEF Sound, E, R

\* Locking, extending and ageing leases: no attempt is retired or revived.
LEMMA LeaseLemma ==
    ASSUME Sound(execs, jobs), NEW R \in Seq(Job), Len(R) = Len(jobs),
           \A k \in 1..Len(jobs) :
              /\ R[k].exec = jobs[k].exec /\ R[k].retries = jobs[k].retries
              /\ \/ R[k].status = jobs[k].status
                 \/ R[k].status \in LiveJob /\ jobs[k].status \in LiveJob
    PROVE  Sound(execs, R)
<1>1. Typed(execs, R)
  BY DEF Typed, Sound
<1>2. Rewrites(execs, jobs, execs, R)
  BY DEF Rewrites
<1>3. Newest(R) /\ Budget(execs, R)
  BY <1>1, <1>2, RewriteLemma
<1>4. \A k \in 1..Len(jobs) :
         /\ R[k].status = "COMPLETED" <=> jobs[k].status = "COMPLETED"
         /\ R[k].status \in LiveJob <=> jobs[k].status \in LiveJob
  BY DEF LiveJob
<1>5. Served(execs, R)
  <2> SUFFICES ASSUME NEW y \in 1..Len(execs), execs[y].status = "RUNNING"
               PROVE  \E k \in 1..Len(R) : R[k].exec = y /\ R[k].status \in LiveJob
    BY DEF Served
  <2>1. PICK k \in 1..Len(jobs) : jobs[k].exec = y /\ jobs[k].status \in LiveJob
    BY DEF Sound, Served
  <2> QED BY <2>1, <1>4
<1>6. Closed(execs, R)
  <2>1. \A k \in 1..Len(R) : execs[R[k].exec].status = "COMPLETED" => R[k].status \notin LiveJob
    BY <1>4 DEF Sound, Closed
  <2>2. \A k \in 1..Len(R) : R[k].status = "COMPLETED" => execs[R[k].exec].status = "COMPLETED"
    BY SMTT(40), <1>4 DEF Sound, Closed
  <2>3. ASSUME NEW a \in 1..Len(R), NEW b \in 1..Len(R), R[a].exec = R[b].exec,
               R[a].status = "COMPLETED", R[b].status = "COMPLETED"
        PROVE  a = b
    BY <2>3, <1>4 DEF Sound, Closed
  <2>4. ASSUME NEW y \in 1..Len(execs), execs[y].status = "COMPLETED"
        PROVE  \E k \in 1..Len(R) : R[k].exec = y /\ R[k].status = "COMPLETED"
    <3>1. PICK k \in 1..Len(jobs) : jobs[k].exec = y /\ jobs[k].status = "COMPLETED"
      BY <2>4 DEF Sound, Closed
    <3> QED BY <3>1, <1>4
  <2> QED BY <2>1, <2>2, <2>3, <2>4 DEF Closed
<1> QED BY <1>1, <1>3, <1>5, <1>6 DEF Sound

--------------------------------------------------------------------------------
(* The actions. *)

\* Tables that only grow keep the sweepers' candidate lists inside them.
LEMMA SweeperFrame ==
    ASSUME SweeperOK, UNCHANGED sweeper, Len(jobs) \in Nat, Len(jobs') \in Nat,
           Len(jobs) <= Len(jobs')
    PROVE  SweeperOK'
<1>1. 1..Len(jobs) \subseteq 1..Len(jobs')
  BY SMTT(40)
<1>2. gate' = gate /\ expired' = expired /\ faults' = faults
  BY DEF sweeper
<1> QED BY <1>1, <1>2 DEF SweeperOK

\* The facts about the current tables that the actions start from.
LEMMA TableFacts ==
    ASSUME IInv
    PROVE  /\ execs \in Seq(StepExecution) /\ jobs \in Seq(Job) /\ Typed(execs, jobs)
           /\ Len(execs) \in Nat /\ Len(jobs) \in Nat
           /\ DOMAIN execs = 1..Len(execs) /\ DOMAIN jobs = 1..Len(jobs)
           /\ \A x \in 1..Len(execs) : execs[x] \in StepExecution /\ execs[x].inst \in Instance
                                       /\ execs[x].step \in Step
           /\ \A j \in 1..Len(jobs) : jobs[j] \in Job /\ jobs[j].exec \in 1..Len(execs)
<1>1. execs \in Seq(StepExecution) /\ jobs \in Seq(Job) /\ Typed(execs, jobs)
  BY DEF IInv, Sound, Typed
<1>2. /\ Len(execs) \in Nat /\ Len(jobs) \in Nat
      /\ DOMAIN execs = 1..Len(execs) /\ DOMAIN jobs = 1..Len(jobs)
  BY <1>1, TableShape
<1>3. \A x \in 1..Len(execs) : execs[x] \in StepExecution
  BY <1>1, RowOfTable
<1>4. \A x \in 1..Len(execs) : execs[x].inst \in Instance /\ execs[x].step \in Step
  BY <1>3 DEF StepExecution
<1>5. \A j \in 1..Len(jobs) : jobs[j] \in Job
  BY <1>1, RowOfTable
<1> QED BY <1>1, <1>2, <1>3, <1>4, <1>5 DEF Typed

\* The tables after a step are sound if the step leaves sound tables.
LEMMA SoundPrime == Sound(execs', jobs') => Sound(execs, jobs)'
  BY DEF Sound, Typed, Newest, Served, Closed, Budget, Spent

\* A step that leaves the tables alone leaves them sound.
LEMMA SoundFrame ==
    ASSUME Sound(execs, jobs), execs' = execs, jobs' = jobs
    PROVE  Sound(execs, jobs)'
<1>1. Sound(execs', jobs')
  OBVIOUS
<1> QED BY <1>1, SoundPrime

\* Every action that rewrites the tables and then dispatches keeps the invariant.
LEMMA DispatchInv ==
    ASSUME IInv, NEW i \in Instance, NEW ss \in Dispatches, NEW st \in InstanceState,
           NEW es, NEW js, Sound(es, js), Len(js) = Len(jobs),
           instances' = [instances EXCEPT ![i] = st],
           DispatchSteps(i, ss, es, js), UNCHANGED sweeper
    PROVE  IInv'
<1>1. Sound(execs', jobs') /\ Len(jobs') \in Nat /\ Len(jobs) <= Len(jobs')
  BY DispatchLemma
<1>2. SweeperOK'
  BY <1>1, TableFacts, SweeperFrame DEF IInv
<1>3. instances' \in [Instance -> InstanceState]
  BY DEF IInv
<1>4. Sound(execs, jobs)'
  BY <1>1, SoundPrime
<1> QED BY <1>2, <1>3, <1>4 DEF IInv

\* Every action that rewrites the tables and appends no row.
LEMMA RewriteStep ==
    ASSUME IInv, Sound(execs', jobs'), Len(jobs') = Len(jobs),
           instances' \in [Instance -> InstanceState], UNCHANGED sweeper
    PROVE  IInv'
<1>1. SweeperOK'
  BY SMTT(40), TableFacts, SweeperFrame DEF IInv
<1>2. Sound(execs, jobs)'
  BY SoundPrime
<1> QED BY <1>1, <1>2 DEF IInv

\* The initial state has no rows.
LEMMA InitInv == Init => IInv
<1> SUFFICES ASSUME Init PROVE IInv
  OBVIOUS
<1>1. Len(execs) = 0 /\ Len(jobs) = 0 /\ execs \in Seq(StepExecution) /\ jobs \in Seq(Job)
  BY SMTT(40) DEF Init
<1>2. Sound(execs, jobs)
  BY SMTT(40), <1>1 DEF Sound, Typed, Newest, Served, Closed, Budget
<1>3. SweeperOK
  BY SMTT(40), BoundsAssumption DEF SweeperOK, Init
<1> QED BY <1>2, <1>3 DEF IInv, Init, InstanceState

\* Starts, dispatches, cancellations, failures and manual retries keep the invariant.
LEMMA InstanceStepInv == IInv /\ InstanceStep => IInv'
<1> SUFFICES ASSUME IInv, InstanceStep PROVE IInv'
  OBVIOUS
<1> USE DEF Outcome, InstanceState
<1>0. Sound(execs, jobs) /\ instances \in [Instance -> InstanceState]
  BY DEF IInv
<1>1. ASSUME NEW i \in Instance, NEW ss \in Dispatches, NEW st \in Outcome,
             Start(i, ss, st) \/ Resume(i, ss, st) \/ RetryOtherStep(i, ss, st)
      PROVE  IInv'
  BY <1>0, <1>1, DispatchInv DEF Start, Resume, RetryOtherStep
<1>2. ASSUME NEW i \in Instance, Cancel(i) PROVE IInv'
  <2>1. execs' = execs /\ jobs' = jobs /\ UNCHANGED sweeper
    BY <1>2 DEF Cancel
  <2>2. instances' \in [Instance -> InstanceState]
    BY <1>0, <1>2 DEF Cancel
  <2> QED BY <2>1, <2>2, <1>0, RewriteStep
<1>3. ASSUME NEW x \in DOMAIN execs, NEW ss \in Dispatches, NEW st \in Outcome,
             Interrupt(x, ss, st)
      PROVE  IInv'
  <2>1. x \in 1..Len(execs) /\ execs[x].inst \in Instance
    BY TableFacts
  <2>2. /\ Sound([execs EXCEPT ![x].status = "FAILED"], CancelJobByStepExecution(x))
        /\ Len(CancelJobByStepExecution(x)) = Len(jobs)
    BY <1>0, <1>3, <2>1, FailStepLemma DEF Interrupt
  <2> QED BY <1>3, <2>1, <2>2, DispatchInv DEF Interrupt
<1>4. ASSUME NEW x \in DOMAIN execs, RetryFailedStep(x) PROVE IInv'
  <2>1. x \in 1..Len(execs) /\ execs[x].inst \in Instance /\ execs[x].step \in Step
    BY TableFacts
  <2>2. <<execs[x].step>> \in Dispatches
    <3>1. <<execs[x].step>> \in [1..1 -> Step]
      BY SMTT(40), <2>1
    <3>2. 1 \in 0..MaxFanOut
      BY SMTT(40), BoundsAssumption
    <3> QED BY <3>1, <3>2 DEF Dispatches
  <2> QED BY <1>0, <1>4, <2>1, <2>2, DispatchInv DEF RetryFailedStep
<1> QED BY <1>1, <1>2, <1>3, <1>4 DEF InstanceStep

\* Polling, heartbeats and the clock only touch status, worker and lease of
\* attempts that stay live.
LEMMA LeaseStepInv ==
    /\ \A w \in Worker, S \in SUBSET (DOMAIN jobs), s \in LeaseLength :
          IInv /\ PollJobs(w, S, s) => IInv'
    /\ \A j \in DOMAIN jobs, w \in Worker, s \in LeaseLength :
          IInv /\ ExtendJobLease(j, w, s) => IInv'
    /\ IInv /\ Tick => IInv'
<1>1. ASSUME IInv, jobs' \in [1..Len(jobs) -> Job],
             UNCHANGED <<instances, execs, sweeper>>,
             \A k \in 1..Len(jobs) :
                /\ jobs'[k].exec = jobs[k].exec /\ jobs'[k].retries = jobs[k].retries
                /\ \/ jobs'[k].status = jobs[k].status
                   \/ jobs'[k].status \in LiveJob /\ jobs[k].status \in LiveJob
      PROVE  IInv'
  <2>1. Len(jobs) \in Nat
    BY <1>1, TableFacts
  <2>2. jobs' \in Seq(Job) /\ Len(jobs') = Len(jobs)
    BY <1>1, <2>1, MakeTable
  <2>3. Sound(execs, jobs')
    BY <1>1, <2>2, LeaseLemma DEF IInv
  <2>4. execs' = execs /\ instances' = instances /\ UNCHANGED sweeper
    BY <1>1
  <2> QED BY <1>1, <2>2, <2>3, <2>4, RewriteStep DEF IInv
<1>2. ASSUME NEW w \in Worker, NEW S \in SUBSET (DOMAIN jobs), NEW s \in LeaseLength,
             IInv, PollJobs(w, S, s)
      PROVE  IInv'
  <2> DEFINE f(k) == IF k \in S
                     THEN [jobs[k] EXCEPT !.status = "LOCKED", !.worker = w, !.lease = s]
                     ELSE jobs[k]
  <2>1. DOMAIN jobs = 1..Len(jobs) /\ \A k \in 1..Len(jobs) : jobs[k] \in Job
    BY <1>2, TableFacts
  <2>2. s \in Int /\ w \in Worker \cup {NoOne} /\ "LOCKED" \in JobState
    BY SMTT(40), LeaseAssumption DEF JobState
  <2>3. \A k \in 1..Len(jobs) : f(k) \in Job
    BY <2>1, <2>2, RetiredRowType
  <2>4. ASSUME NEW k \in 1..Len(jobs)
        PROVE  /\ f(k).exec = jobs[k].exec /\ f(k).retries = jobs[k].retries
               /\ \/ f(k).status = jobs[k].status
                  \/ f(k).status \in LiveJob /\ jobs[k].status \in LiveJob
    <3>1. CASE k \in S
      <4>1. jobs[k].status = "UNLOCKED"
        BY <1>2, <3>1 DEF PollJobs
      <4>2. f(k).exec = jobs[k].exec /\ f(k).retries = jobs[k].retries /\ f(k).status = "LOCKED"
        BY <2>1, <3>1 DEF Job
      <4> HIDE DEF f
      <4> QED BY <4>1, <4>2 DEF LiveJob
    <3>2. CASE k \notin S
      <4>1. f(k) = jobs[k]
        BY <3>2
      <4> HIDE DEF f
      <4> QED BY <4>1
    <3> QED BY <3>1, <3>2
  <2>5. jobs' = [k \in 1..Len(jobs) |-> f(k)] /\ UNCHANGED <<instances, execs, sweeper>>
    BY <1>2, <2>1 DEF PollJobs
  <2> HIDE DEF f
  <2>6. jobs' \in [1..Len(jobs) -> Job] /\ \A k \in 1..Len(jobs) : jobs'[k] = f(k)
    BY <2>3, <2>5
  <2> QED BY <1>1, <1>2, <2>4, <2>5, <2>6
<1>3. ASSUME NEW j \in DOMAIN jobs, NEW w \in Worker, NEW s \in LeaseLength,
             IInv, ExtendJobLease(j, w, s)
      PROVE  IInv'
  <2> DEFINE l == IF s > jobs[j].lease THEN s ELSE jobs[j].lease
             f(k) == IF k = j THEN [jobs[k] EXCEPT !.lease = l] ELSE jobs[k]
  <2>1. DOMAIN jobs = 1..Len(jobs) /\ \A k \in 1..Len(jobs) : jobs[k] \in Job
    BY <1>3, TableFacts
  <2>2. jobs[j].lease \in Int
    BY <2>1 DEF Job
  <2>3. l \in Int
    BY SMTT(40), <2>2, LeaseAssumption
  <2>4. jobs' = [k \in 1..Len(jobs) |-> f(k)] /\ UNCHANGED <<instances, execs, sweeper>>
    BY <1>3, <2>1 DEF ExtendJobLease
  <2> HIDE DEF l
  <2>5. ASSUME NEW k \in 1..Len(jobs) PROVE f(k) \in Job
    BY <2>1, <2>3 DEF Job
  <2>6. ASSUME NEW k \in 1..Len(jobs)
        PROVE  f(k).exec = jobs[k].exec /\ f(k).retries = jobs[k].retries /\ f(k).status = jobs[k].status
    BY <2>1 DEF Job
  <2> HIDE DEF f
  <2>7. jobs' \in [1..Len(jobs) -> Job] /\ \A k \in 1..Len(jobs) : jobs'[k] = f(k)
    BY <2>4, <2>5
  <2> QED BY <1>1, <1>3, <2>4, <2>6, <2>7
<1>4. ASSUME IInv, Tick PROVE IInv'
  <2> DEFINE f(k) == IF jobs[k].status = "LOCKED" /\ jobs[k].lease >= 0
                     THEN [jobs[k] EXCEPT !.lease = @ - 1]
                     ELSE jobs[k]
  <2>1. DOMAIN jobs = 1..Len(jobs) /\ \A k \in 1..Len(jobs) : jobs[k] \in Job
    BY <1>4, TableFacts
  <2>2. jobs' = [k \in 1..Len(jobs) |-> f(k)] /\ UNCHANGED <<instances, execs, sweeper>>
    BY <1>4, <2>1 DEF Tick
  <2>3. ASSUME NEW k \in 1..Len(jobs) PROVE f(k) \in Job
    <3>1. PICK b \in Job : b = jobs[k]
      BY <2>1
    <3>2. PICK l \in Int : l = b.lease - 1
      BY SMTT(40) DEF Job
    <3>3. [b EXCEPT !.lease = l] \in Job
      BY DEF Job
    <3> QED BY <3>1, <3>2, <3>3
  <2>4. ASSUME NEW k \in 1..Len(jobs)
        PROVE  f(k).exec = jobs[k].exec /\ f(k).retries = jobs[k].retries /\ f(k).status = jobs[k].status
    BY <2>1 DEF Job
  <2> HIDE DEF f
  <2>5. jobs' \in [1..Len(jobs) -> Job] /\ \A k \in 1..Len(jobs) : jobs'[k] = f(k)
    BY <2>2, <2>3
  <2> QED BY <1>1, <1>4, <2>2, <2>4, <2>5
<1> QED BY <1>2, <1>3, <1>4

\* An accepted callback is for a live attempt of a RUNNING step execution.
LEMMA CallbackFacts ==
    ASSUME IInv, NEW j \in DOMAIN jobs, NEW w \in Worker, AcceptsCallback(j, w)
    PROVE  /\ j \in 1..Len(jobs) /\ jobs[j].status \in LiveJob
           /\ jobs[j].exec \in 1..Len(execs) /\ execs[jobs[j].exec].inst \in Instance
           /\ execs[jobs[j].exec].status = "RUNNING"
           /\ w \in Worker \cup {NoOne}
<1>1. j \in 1..Len(jobs) /\ jobs[j].exec \in 1..Len(execs)
  BY TableFacts
<1>2. execs[jobs[j].exec].inst \in Instance
  BY <1>1, TableFacts
<1> QED BY <1>1, <1>2 DEF AcceptsCallback, Active, LiveJob

\* Completions and failures reported by workers keep the invariant.
LEMMA CallbackInv ==
    ASSUME IInv, NEW j \in DOMAIN jobs, NEW w \in Worker
    PROVE  /\ \A ss \in Dispatches, st \in Outcome : CompleteJobAndAdvance(j, w, ss, st) => IInv'
           /\ CompleteJobRejected(j, w) => IInv'
           /\ CompleteJobNoBranch(j, w) => IInv'
           /\ FailJobRetry(j, w) => IInv'
           /\ FailJobFinal(j, w) => IInv'
<1> DEFINE x == jobs[j].exec
           i == execs[x].inst
           F(st) == [execs EXCEPT ![x].status = st]
<1>0. /\ Sound(execs, jobs) /\ instances \in [Instance -> InstanceState]
      /\ execs \in Seq(StepExecution) /\ DOMAIN execs = 1..Len(execs)
      /\ Len(execs) \in Nat /\ Len(jobs) \in Nat
  BY TableFacts DEF IInv
\* The row x with its final status.
<1>1. ASSUME NEW st \in {"COMPLETED", "FAILED"}, AcceptsCallback(j, w)
      PROVE  Sound(F(st), Retire(j, w, st)) /\ Len(Retire(j, w, st)) = Len(jobs)
  <2>1. /\ F(st) \in Seq(StepExecution) /\ Len(F(st)) = Len(execs)
        /\ \A y \in 1..Len(execs) : y # x => F(st)[y] = execs[y]
        /\ F(st)[x].status = st /\ F(st)[x].step = execs[x].step
    <3>1. x \in 1..Len(execs) /\ st \in ExecState
      BY <1>1, CallbackFacts DEF ExecState
    <3> HIDE DEF x
    <3> QED BY <1>0, <3>1, ExecRows
  <2> HIDE DEF F
  <2> QED BY <1>0, <1>1, <2>1, CallbackFacts, FinishLemma
<1>2. ASSUME NEW ss \in Dispatches, NEW st \in Outcome, CompleteJobAndAdvance(j, w, ss, st)
      PROVE  IInv'
  <2>1. AcceptsCallback(j, w)
    BY <1>2 DEF CompleteJobAndAdvance
  <2>2. /\ Sound(F("COMPLETED"), Retire(j, w, "COMPLETED"))
        /\ Len(Retire(j, w, "COMPLETED")) = Len(jobs)
    BY <1>1, <2>1
  <2>3. i \in Instance /\ st \in InstanceState
    BY <2>1, CallbackFacts DEF Outcome, InstanceState
  <2> QED BY <1>2, <2>2, <2>3, DispatchInv DEF CompleteJobAndAdvance
<1>3. ASSUME CompleteJobRejected(j, w) PROVE IInv'
  <2>1. AcceptsCallback(j, w)
    BY <1>3 DEF CompleteJobRejected
  <2>2. /\ Sound(F("FAILED"), CancelJobByStepExecution(x))
        /\ Len(CancelJobByStepExecution(x)) = Len(jobs)
    BY <1>0, <2>1, CallbackFacts, FailStepLemma
  <2>3. instances' \in [Instance -> InstanceState]
    BY <1>0, <1>3, <2>1, CallbackFacts DEF CompleteJobRejected, InstanceState
  <2> QED BY <1>3, <2>2, <2>3, RewriteStep DEF CompleteJobRejected
<1>4. ASSUME CompleteJobNoBranch(j, w) PROVE IInv'
  <2>1. AcceptsCallback(j, w)
    BY <1>4 DEF CompleteJobNoBranch
  <2> DEFINE Sibling(y) == /\ execs[y].inst = i
                           /\ execs[y].step = execs[x].step
                           /\ execs[y].status = "RUNNING"
             g(y) == IF y = x THEN [execs[y] EXCEPT !.status = "COMPLETED"]
                     ELSE IF Sibling(y) THEN [execs[y] EXCEPT !.status = "FAILED"]
                     ELSE execs[y]
  <2>2. execs' = [y \in 1..Len(execs) |-> g(y)] /\ jobs' = Retire(j, w, "COMPLETED")
    BY <1>0, <1>4 DEF CompleteJobNoBranch
  <2>3. ASSUME NEW y \in 1..Len(execs)
        PROVE  /\ g(y) \in StepExecution
               /\ g(y).step = execs[y].step
               /\ y = x => g(y).status = "COMPLETED"
               /\ y # x => \/ g(y).status = execs[y].status
                           \/ execs[y].status = "RUNNING" /\ g(y).status = "FAILED"
    <3>1. PICK e \in StepExecution : e = execs[y]
      BY TableFacts
    <3>2. /\ [e EXCEPT !.status = "COMPLETED"] \in StepExecution
          /\ [e EXCEPT !.status = "FAILED"] \in StepExecution
      BY DEF StepExecution, ExecState
    <3>3. /\ [e EXCEPT !.status = "COMPLETED"].step = e.step
          /\ [e EXCEPT !.status = "COMPLETED"].status = "COMPLETED"
          /\ [e EXCEPT !.status = "FAILED"].step = e.step
          /\ [e EXCEPT !.status = "FAILED"].status = "FAILED"
      BY DEF StepExecution
    <3> QED BY <3>1, <3>2, <3>3
  <2> HIDE DEF g
  <2>4. execs' \in [1..Len(execs) -> StepExecution]
    BY <2>2, <2>3
  <2>5. execs' \in Seq(StepExecution) /\ Len(execs') = Len(execs)
    BY <2>4, <1>0, MakeTable
  <2>6. \A y \in 1..Len(execs) : execs'[y] = g(y)
    BY <2>2
  <2>7. Sound(execs', Retire(j, w, "COMPLETED")) /\ Len(Retire(j, w, "COMPLETED")) = Len(jobs)
    <3>1. /\ j \in 1..Len(jobs) /\ jobs[j].status \in LiveJob /\ x \in 1..Len(execs)
          /\ execs[x].status = "RUNNING" /\ w \in Worker \cup {NoOne}
      BY <2>1, CallbackFacts
    <3>2. /\ execs'[x].status = "COMPLETED"
          /\ \A y \in 1..Len(execs) :
                /\ execs'[y].step = execs[y].step
                /\ y # x => \/ execs'[y].status = execs[y].status
                            \/ execs[y].status = "RUNNING" /\ execs'[y].status = "FAILED"
      BY <2>3, <2>6, <3>1
    <3> QED BY <1>0, <2>5, <3>1, <3>2, FinishLemma
  <2>8. instances' \in [Instance -> InstanceState]
    BY <1>0, <1>4, <2>1, CallbackFacts DEF CompleteJobNoBranch, InstanceState
  <2> QED BY <1>4, <2>2, <2>7, <2>8, RewriteStep DEF CompleteJobNoBranch
<1>5. ASSUME FailJobRetry(j, w) PROVE IInv'
  <2>1. AcceptsCallback(j, w) /\ jobs[j].retries > 0
    BY <1>5 DEF FailJobRetry
  <2>2. jobs[j].retries \in Nat
    BY TableFacts DEF Job
  <2>3. jobs[j].retries - 1 \in Nat /\ jobs[j].retries = (jobs[j].retries - 1) + 1
    BY SMTT(40), <2>1, <2>2
  <2>4. EnqueueReplacement(Retire(j, w, "FAILED"), j, jobs[j].retries - 1)
    BY <1>5 DEF FailJobRetry
  <2>5. Sound(execs, jobs') /\ Len(jobs') = Len(jobs) + 1
    BY <1>0, <2>1, <2>3, <2>4, CallbackFacts, ReplacementLemma
  <2>6. execs' = execs /\ instances' = instances /\ UNCHANGED sweeper
    BY <1>5 DEF FailJobRetry
  <2>7. Sound(execs, jobs)'
    BY <2>5, <2>6, SoundPrime
  <2>8. SweeperOK'
    BY SMTT(40), <1>0, <2>5, <2>6, SweeperFrame DEF IInv
  <2> QED BY <1>0, <2>6, <2>7, <2>8 DEF IInv
<1>6. ASSUME FailJobFinal(j, w) PROVE IInv'
  <2>1. AcceptsCallback(j, w)
    BY <1>6 DEF FailJobFinal
  <2>2. Sound(F("FAILED"), Retire(j, w, "FAILED")) /\ Len(Retire(j, w, "FAILED")) = Len(jobs)
    BY <1>1, <2>1
  <2>3. instances' \in [Instance -> InstanceState]
    BY <1>0, <1>6, <2>1, CallbackFacts DEF FailJobFinal, InstanceState
  <2> QED BY <1>6, <2>2, <2>3, RewriteStep DEF FailJobFinal
<1> QED BY <1>2, <1>3, <1>4, <1>5, <1>6

\* The lease sweeper keeps the invariant, also when its list is stale.
LEMMA SweeperStepInv == IInv /\ SweeperStep => IInv'
<1> SUFFICES ASSUME IInv, SweeperStep PROVE IInv'
  BY SMTT(40)
<1>0. /\ Sound(execs, jobs) /\ instances \in [Instance -> InstanceState] /\ SweeperOK
      /\ DOMAIN jobs = 1..Len(jobs) /\ Len(jobs) \in Nat
  <2>1. Sound(execs, jobs) /\ instances \in [Instance -> InstanceState] /\ SweeperOK
    BY DEF IInv
  <2> QED BY <2>1, TableFacts
\* Steps that leave the tables alone.
<1>1. ASSUME UNCHANGED <<instances, execs, jobs>>, SweeperOK' PROVE IInv'
  <2>1. execs' = execs /\ jobs' = jobs /\ instances' = instances
    BY <1>1
  <2>2. Sound(execs, jobs)'
    BY <1>0, <2>1, SoundFrame
  <2> QED BY <1>0, <1>1, <2>1, <2>2 DEF IInv
<1>2. ASSUME NEW r \in Replica, SweepList(r) PROVE IInv'
  BY <1>0, <1>1, <1>2 DEF SweepList, SweeperOK, ExpiredLeases
<1>3. ASSUME NEW r \in Replica, SweepDone(r) PROVE IInv'
  BY <1>0, <1>1, <1>3 DEF SweepDone, SweeperOK
<1>4. ASSUME NEW r \in Replica, LoseSession(r) PROVE IInv'
  BY SMTT(40), <1>0, <1>1, <1>4, BoundsAssumption DEF LoseSession, SweeperOK
<1>5. ASSUME NEW r \in Replica, Crash(r) PROVE IInv'
  BY SMTT(40), <1>0, <1>1, <1>5, BoundsAssumption DEF Crash, SweeperOK
<1>6. ASSUME NEW r \in Replica, NEW j \in DOMAIN jobs, SweepError(r, j) PROVE IInv'
  BY SMTT(40), <1>0, <1>1, <1>6, BoundsAssumption DEF SweepError, SweeperOK
<1>7. ASSUME NEW r \in Replica, NEW j \in DOMAIN jobs, SweepJob(r, j) PROVE IInv'
  <2>1. expired' \in [Replica -> SUBSET (1..Len(jobs))]
    BY <1>0, <1>7 DEF SweepJob, SweeperOK
  <2>2. CASE SweepReclaims(j)
    <3>1. jobs[j].worker \in Worker \cup {NoOne} /\ jobs[j].retries \in Nat
      BY <1>0, TableFacts DEF Job
    <3>2. jobs[j].status \in LiveJob
      BY <2>2 DEF SweepReclaims, LiveJob
    <3>3. EnqueueReplacement(Retire(j, jobs[j].worker, "CANCELLED"), j, jobs[j].retries)
      BY <1>7, <2>2 DEF SweepJob
    <3>4. jobs[j].retries = jobs[j].retries + 0
      BY SMTT(40), <3>1
    <3>5. Sound(execs, jobs') /\ Len(jobs') = Len(jobs) + 1
      BY <1>0, <3>1, <3>2, <3>3, <3>4, ReplacementLemma
    <3>6. execs' = execs /\ instances' = instances /\ gate' = gate /\ faults' = faults
      BY <1>7 DEF SweepJob
    <3>7. 1..Len(jobs) \subseteq 1..Len(jobs')
      BY SMTT(40), <3>5, <1>0
    <3>8. SweeperOK'
      BY <1>0, <2>1, <3>6, <3>7 DEF SweeperOK
    <3>9. Sound(execs, jobs)'
      BY <3>5, <3>6, SoundPrime
    <3> QED BY <1>0, <3>6, <3>8, <3>9 DEF IInv
  <2>3. CASE ~SweepReclaims(j)
    BY <1>0, <1>1, <1>7, <2>1, <2>3 DEF SweepJob, SweeperOK
  <2> QED BY <2>2, <2>3
<1> QED BY <1>2, <1>3, <1>4, <1>5, <1>6, <1>7 DEF SweeperStep

\* Every step preserves the inductive invariant.
LEMMA NextInv == IInv /\ [Next]_vars => IInv'
<1> SUFFICES ASSUME IInv, [Next]_vars PROVE IInv'
  OBVIOUS
<1>1. CASE InstanceStep
  BY <1>1, InstanceStepInv
<1>2. CASE WorkerStep
  BY <1>2, LeaseStepInv, CallbackInv DEF WorkerStep
<1>3. CASE SweeperStep
  BY <1>3, SweeperStepInv
<1>4. CASE Tick
  BY <1>4, LeaseStepInv
<1>5. CASE UNCHANGED vars
  <2>1. UNCHANGED <<instances, execs, jobs>> /\ UNCHANGED <<gate, expired, faults>>
    BY <1>5 DEF vars
  <2>2. Sound(execs, jobs)'
    BY <2>1, SoundFrame DEF IInv
  <2> QED BY <2>1, <2>2 DEF IInv, SweeperOK
<1> QED BY <1>1, <1>2, <1>3, <1>4, <1>5 DEF Next

\* The inductive invariant holds in every reachable state.
THEOREM Invariance == Spec => []IInv
  BY InitInv, NextInv, PTL DEF Spec

\* Every reachable state is well typed: no interleaving leaves a job without
\* its step execution or drives retries_remaining below zero.
THEOREM TypeCorrect == Spec => []TypeOK
<1>1. IInv => TypeOK
  BY TableFacts DEF IInv, TypeOK, SweeperOK
<1> QED BY <1>1, Invariance, PTL

\* At most one attempt of a step execution can be held or taken by a worker,
\* for any number of workers, replicas and instances.
THEOREM OneLiveAttempt == Spec => []OnlyNewestAttemptIsLive
<1>1. IInv => OnlyNewestAttemptIsLive
  BY TableFacts DEF IInv, Sound, Newest, OnlyNewestAttemptIsLive
<1> QED BY <1>1, Invariance, PTL

\* A RUNNING SERVICE_TASK execution always has an attempt to be taken.
THEOREM NeverOrphaned == Spec => []RunningStepHasLiveAttempt
<1>1. IInv => RunningStepHasLiveAttempt
  BY TableFacts DEF IInv, Sound, Served, RunningStepHasLiveAttempt
<1> QED BY <1>1, Invariance, PTL

\* Late, repeated and competing callbacks complete a step execution at most once.
THEOREM CompletedOnce == Spec => []CompletedByOneAttempt
<1>1. ASSUME IInv PROVE CompletedByOneAttempt
  <2> DEFINE Of(x, st) == {j \in DOMAIN jobs : jobs[j].exec = x /\ jobs[j].status = st}
  <2>0. /\ DOMAIN jobs = 1..Len(jobs) /\ DOMAIN execs = 1..Len(execs)
        /\ Closed(execs, jobs)
    BY <1>1, TableFacts DEF IInv, Sound
  <2>1. ASSUME NEW x \in DOMAIN execs, execs[x].status = "COMPLETED"
        PROVE  /\ Cardinality(Of(x, "COMPLETED")) = 1
               /\ Of(x, "UNLOCKED") \cup Of(x, "LOCKED") = {}
    <3>1. PICK j \in 1..Len(jobs) : jobs[j].exec = x /\ jobs[j].status = "COMPLETED"
      BY <2>0, <2>1 DEF Closed
    <3>2. Of(x, "COMPLETED") = {j}
      BY SMTT(40), <2>0, <3>1 DEF Closed
    <3>3. Cardinality(Of(x, "COMPLETED")) = 1
      BY <3>2, FS_Singleton
    <3>4. Of(x, "UNLOCKED") \cup Of(x, "LOCKED") = {}
      BY SMTT(40), <2>0, <2>1 DEF Closed, LiveJob
    <3> QED BY <3>3, <3>4
  <2>2. ASSUME NEW x \in DOMAIN execs, execs[x].status # "COMPLETED"
        PROVE  Cardinality(Of(x, "COMPLETED")) = 0
    <3>1. Of(x, "COMPLETED") = {}
      BY SMTT(40), <2>0, <2>2 DEF Closed
    <3> QED BY <3>1, FS_EmptySet
  <2> QED BY <2>1, <2>2 DEF CompletedByOneAttempt
<1>2. IInv => CompletedByOneAttempt
  BY <1>1
<1> QED BY <1>2, Invariance, PTL

\* Fail spends exactly one retry, an expired lease spends none.
THEOREM BudgetKept == Spec => []RetryBudget
<1>1. IInv => RetryBudget
  BY TableFacts DEF IInv, Sound, Budget, Spent, RetryBudget
<1> QED BY <1>1, Invariance, PTL

\* The promises of the job table together, for every number of workers and
\* replicas and every interleaving of their callbacks, polls and sweeps.
THEOREM DeliverySafe == Spec => []DeliveryIsSafe
  BY OneLiveAttempt, NeverOrphaned, CompletedOnce, BudgetKept, PTL DEF DeliveryIsSafe
================================================================================
