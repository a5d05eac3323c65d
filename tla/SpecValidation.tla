--------------------------- MODULE SpecValidation ---------------------------
(***************************************************************************)
(* The loops of task_runtime/service.py over a plan's dependencies, step   *)
(* by step: _validate_specs decides whether the specifications form an     *)
(* acyclic graph with Kahn's algorithm, and transition_task collects the   *)
(* tasks below a failed one by scanning all dependency rows until a scan   *)
(* adds nothing.  Both are compared with the graph theory they stand for,  *)
(* and with the functions TaskRuntime uses in their place.                 *)
(***************************************************************************)
EXTENDS TaskGraph, Sequences, SequencesExt

CONSTANT Keys            \* what keys and depends_on may name
ASSUME KeysAssumption == IsFiniteSet(Keys)

VARIABLES
    known,       \* the keys of the plan
    edges,       \* depends_on of each key
    indegree, queue, visited,
    verdict,     \* "checking", "accepted" or "rejected"
    blocked,     \* the tasks the failure of one reaches so far
    rest,        \* the dependency rows the current scan has not read
    changed      \* this scan added a task

graph == <<known, edges>>
kahn  == <<indegree, queue, visited, verdict>>
loopsVars  == <<graph, kahn, blocked, rest, changed>>

Rows == {row \in known \X known : row[2] \in edges[row[1]]}

\* The checks before the queue: no dependency on itself, none unknown.
LoopsInit ==
    /\ known \in (SUBSET Keys) \ {{}}
    /\ edges \in [known -> SUBSET Keys]
    /\ indegree = [k \in known |-> Cardinality(edges[k])]
    /\ queue = SetToSeq({k \in known : edges[k] = {}})
    /\ visited = 0
    /\ verdict = IF \A k \in known : edges[k] \subseteq known \ {k}
                 THEN "checking" ELSE "rejected"
    /\ blocked = {}
    /\ rest = {}
    /\ changed = FALSE

Freed(children) == {c \in children : indegree[c] = 1}

\* popleft: every child that waits for nothing else joins the queue.
Visit ==
    LET key      == Head(queue)
        children == {c \in known : key \in edges[c]}
    IN  /\ verdict = "checking" /\ queue # <<>>
        /\ visited' = visited + 1
        /\ indegree' = [c \in known |-> IF c \in children THEN indegree[c] - 1
                                                          ELSE indegree[c]]
        /\ \E order \in SetToSeqs(Freed(children)) : queue' = Tail(queue) \o order
        /\ UNCHANGED <<graph, verdict, blocked, rest, changed>>

\* A mutant: a plan is accepted when anything was visited.
DecideLeniently ==
    /\ verdict = "checking" /\ queue = <<>>
    /\ verdict' = IF visited > 0 THEN "accepted" ELSE "rejected"
    /\ UNCHANGED <<graph, indegree, queue, visited, blocked, rest, changed>>

Decide ==
    /\ verdict = "checking" /\ queue = <<>>
    /\ verdict' = IF visited = Cardinality(known) THEN "accepted" ELSE "rejected"
    /\ UNCHANGED <<graph, indegree, queue, visited, blocked, rest, changed>>

\* A task of an accepted plan fails: the first scan of the rows starts.
Fail(t) ==
    /\ verdict = "accepted" /\ blocked = {}
    /\ blocked' = {t}
    /\ rest' = Rows
    /\ UNCHANGED <<graph, kahn, changed>>

Reached(row) == row[2] \in blocked /\ row[1] \notin blocked

\* One row of a scan, in whatever order the database returns them.
Scan(row) ==
    /\ row \in rest
    /\ blocked' = IF Reached(row) THEN blocked \cup {row[1]} ELSE blocked
    /\ changed' = (changed \/ Reached(row))
    /\ rest' = rest \ {row}
    /\ UNCHANGED <<graph, kahn>>

\* A scan that added a task is followed by another.
Rescan ==
    /\ blocked # {} /\ rest = {} /\ changed
    /\ rest' = Rows
    /\ changed' = FALSE
    /\ UNCHANGED <<graph, kahn, blocked>>

LoopsNext ==
    \/ Visit \/ Decide \/ Rescan
    \/ \E t \in known : Fail(t)
    \/ \E row \in rest : Scan(row)

LoopsSpec == LoopsInit /\ [][LoopsNext]_loopsVars

-----------------------------------------------------------------------------
(* Properties.                                                             *)

\* The ways from x to y: each task on one depends on the next.
Ways(n, x, y, S, d) ==
    {p \in [0 .. n -> S] : p[0] = x /\ p[n] = y /\ \A i \in 1 .. n : p[i] \in d[p[i - 1]]}
\* Those that wait for y through at most n dependencies.
Leads(y, n, S, d) == {x \in S : \E m \in 1 .. n : Ways(m, x, y, S, d) # {}}
WaitFor(t) == Leads(t, Cardinality(known), known, edges)

\* A plan is accepted exactly when its dependencies name its own tasks and no
\* task waits, through any number of others, for itself; and that is what
\* ValidSpecs says in TaskRuntime.
Acyclic == \A k \in known : edges[k] \subseteq known /\ k \notin WaitFor(k)
AcceptsExactlyAcyclic ==
    /\ verdict = "accepted" => Acyclic /\ ValidSpecs(known, edges)
    /\ verdict = "rejected" => ~Acyclic /\ ~ValidSpecs(known, edges)

\* When the scans stop, they have reached every task below the failed one and
\* no other, in whatever order the rows came.
CascadeReachesAllBelow ==
    blocked # {} /\ rest = {} /\ ~changed =>
        \E t \in blocked : /\ blocked \ {t} = WaitFor(t)
                           /\ blocked \ {t} = Below(t, known, edges)
=============================================================================
