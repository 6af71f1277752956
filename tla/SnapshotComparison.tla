------------------------------ MODULE SnapshotComparison ------------------------------
(***************************************************************************)
(* The comparison of the recorded input and output of a step attempt.      *)
(* A JSON value is a record: kind t ("scalar", "array" or "object"), the   *)
(* scalar n, the keys k of an object in their order, and the values v.     *)
(***************************************************************************)
EXTENDS Integers, Sequences, FiniteSets

CONSTANTS MAX_BYTES, MAX_NODES, MAX_DEPTH, MAX_CHANGES

Scalar(n)    == [t |-> "scalar", n |-> n, k |-> <<>>, v |-> <<>>]
Array(v)     == [t |-> "array", n |-> 0, k |-> <<>>, v |-> v]
Object(k, v) == [t |-> "object", n |-> 0, k |-> k, v |-> v]

record(value) == value.t = "object"

hasOwn(object, key) == \E i \in DOMAIN object.k : object.k[i] = key
valueOf(object, key) == object.v[CHOOSE i \in DOMAIN object.k : object.k[i] = key]

RECURSIVE Inspected(_, _)
\* The loop of withinLimits, with its stack of values and depths.
Inspected(pending, visited) ==
    IF pending = <<>> THEN TRUE
    ELSE LET item     == pending[Len(pending)]
             rest     == SubSeq(pending, 1, Len(pending) - 1)
             children == item.value.v
         IN  IF visited + 1 > MAX_NODES \/ item.depth > MAX_DEPTH THEN FALSE
             ELSE IF Len(children) + Len(rest) + visited + 1 > MAX_NODES THEN FALSE
             ELSE Inspected(rest \o [i \in DOMAIN children |->
                                        [value |-> children[i], depth |-> item.depth + 1]],
                            visited + 1)

withinLimits(values) == Inspected([i \in DOMAIN values |-> [value |-> values[i], depth |-> 0]], 0)

RECURSIVE equal(_, _)
equal(a, b) ==
    /\ a.t = b.t /\ Len(a.v) = Len(b.v)
    /\ IF a.t = "scalar" THEN a.n = b.n
       ELSE IF a.t = "array" THEN \A i \in DOMAIN a.v : equal(a.v[i], b.v[i])
       ELSE \A i \in DOMAIN a.k : hasOwn(b, a.k[i]) /\ equal(a.v[i], valueOf(b, a.k[i]))

RECURSIVE Sorted(_)
\* Array.prototype.sort, on a set of keys.
Sorted(keys) ==
    IF keys = {} THEN <<>>
    ELSE LET least == CHOOSE k \in keys : \A other \in keys : k <= other
         IN  <<least>> \o Sorted(keys \ {least})

Unavailable == [changes |-> <<>>, truncated |-> FALSE, unavailable |-> TRUE]

\* undefined is <<>>, any other value a sequence of one.
Own(object, key) == IF hasOwn(object, key) THEN <<valueOf(object, key)>> ELSE <<>>

change(before, after, key) ==
    [key |-> key, before |-> Own(before, key), after |-> Own(after, key),
     kind |-> IF ~hasOwn(before, key) THEN "added"
              ELSE IF ~hasOwn(after, key) THEN "removed" ELSE "changed"]

\* Broken: keys that the step did not return are compared as well.
comparedKeysOfBoth(before, after, interpretation) ==
    {before.k[i] : i \in DOMAIN before.k} \cup {after.k[i] : i \in DOMAIN after.k}

comparedKeys(before, after, interpretation) ==
    {after.k[i] : i \in DOMAIN after.k} \cup
    IF interpretation = "variableDelta" THEN {} ELSE {before.k[i] : i \in DOMAIN before.k}

compareSnapshots(input, output, interpretation) ==
    IF input.status # "present" \/ output.status # "present" THEN Unavailable
    ELSE IF \/ input.bytes + output.bytes > MAX_BYTES
            \/ ~withinLimits(<<input.value, output.value>>) THEN Unavailable
    ELSE IF interpretation = "variableDelta" /\ ~(record(input.value) /\ record(output.value))
    THEN Unavailable
    ELSE LET before  == input.value
             after   == output.value
             differs(key) == ~(hasOwn(before, key) /\ hasOwn(after, key)
                               /\ equal(valueOf(before, key), valueOf(after, key)))
             keys    == SelectSeq(Sorted(comparedKeys(before, after, interpretation)), differs)
             changes == IF record(before) /\ record(after)
                        THEN [i \in DOMAIN keys |-> change(before, after, keys[i])]
                        ELSE IF equal(before, after) THEN <<>>
                        ELSE <<[key |-> 0, before |-> <<before>>, after |-> <<after>>, kind |-> "changed"]>>
         IN  [changes |-> SubSeq(changes, 1, IF Len(changes) < MAX_CHANGES THEN Len(changes) ELSE MAX_CHANGES),
              truncated |-> Len(changes) > MAX_CHANGES, unavailable |-> FALSE]

--------------------------------------------------------------------------------
(* What the comparison is meant to say, without the algorithm. *)

RECURSIVE Nodes(_)
Nodes(value) ==
    LET sum[i \in 0..Len(value.v)] == IF i = 0 THEN 1 ELSE sum[i - 1] + Nodes(value.v[i])
    IN  sum[Len(value.v)]

RECURSIVE Shallow(_, _)
Shallow(value, depth) == depth >= 0 /\ \A i \in DOMAIN value.v : Shallow(value.v[i], depth - 1)

RECURSIVE Canonical(_)
\* The value with the keys of every object in ascending order.
Canonical(value) ==
    IF value.t = "object"
    THEN LET keys == Sorted({value.k[i] : i \in DOMAIN value.k})
         IN  Object(keys, [i \in DOMAIN keys |-> Canonical(valueOf(value, keys[i]))])
    ELSE [value EXCEPT !.v = [i \in DOMAIN value.v |-> Canonical(value.v[i])]]

Entry(object, key) == IF hasOwn(object, key) THEN <<Canonical(valueOf(object, key))>> ELSE <<>>

Comparable(input, output, interpretation) ==
    /\ input.status = "present" /\ output.status = "present"
    /\ input.bytes + output.bytes <= MAX_BYTES
    /\ Nodes(input.value) + Nodes(output.value) <= MAX_NODES
    /\ Shallow(input.value, MAX_DEPTH) /\ Shallow(output.value, MAX_DEPTH)
    /\ interpretation = "variableDelta" => record(input.value) /\ record(output.value)

\* The changes turn the input into the output, or into the input overwritten with
\* what a service task returned; none is spurious, and none is missing unless the
\* comparison says that it was truncated.
Explains(result, before, after, interpretation) ==
    LET goal(key) == IF interpretation = "variableDelta" /\ ~hasOwn(after, key)
                     THEN Entry(before, key) ELSE Entry(after, key)
        touched   == {result.changes[i].key : i \in DOMAIN result.changes}
        keys      == {before.k[i] : i \in DOMAIN before.k} \cup {after.k[i] : i \in DOMAIN after.k}
        differing == {key \in keys : Entry(before, key) # goal(key)}
    IN  /\ Cardinality(touched) = Len(result.changes) /\ touched \subseteq differing
        /\ result.truncated <=> touched # differing
        /\ \A i \in DOMAIN result.changes :
              LET c == result.changes[i]
              IN  goal(c.key) = IF c.kind = "removed" THEN <<>> ELSE <<Canonical(c.after[1])>>
================================================================================
