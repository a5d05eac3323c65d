----------------------------- MODULE TaskGraph -----------------------------
(* The graph computations of src/nexapilot/task_runtime/service.py, as     *)
(* functions.  SpecValidation checks both against the loops of the code.   *)
EXTENDS Integers, FiniteSets

\* The keys Kahn's algorithm has visited after n rounds of its queue.
Visited(S, d) ==
    LET V[n \in Nat] ==
            IF n = 0 THEN {}
            ELSE V[n - 1] \cup {k \in S : d[k] \subseteq V[n - 1]}
    IN  V[Cardinality(S)]

\* _validate_specs: a nonempty set of tasks, dependencies known and acyclic.
ValidSpecs(S, d) ==
    /\ S # {}
    /\ \A k \in S : d[k] \subseteq S \ {k}
    /\ Visited(S, d) = S

\* A mutant: the scan of the dependencies is not repeated.
BelowOnce(t, T, d) == {c \in T : t \in d[c]}

\* The tasks below t in the dependencies d: the fixpoint of transition_task's
\* loop over plan_task_dependencies.
Below(t, T, d) ==
    LET Blocked[n \in Nat] ==
            IF n = 0 THEN {t}
            ELSE Blocked[n - 1] \cup {c \in T : d[c] \cap Blocked[n - 1] # {}}
    IN  Blocked[Cardinality(T)] \ {t}
=============================================================================
