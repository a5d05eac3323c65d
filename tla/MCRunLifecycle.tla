--------------------------- MODULE MCRunLifecycle ---------------------------
(* Model checking of RunLifecycle.  Processes are interchangeable.          *)
EXTENDS RunLifecycle, TLC

Symmetry == Permutations(Procs)

\* A signal is read by the run it stops until an end is decided on, and the next run
\* clears it: what a process holds in between is of no consequence.
Deaf(p) ==
    \/ proc[p].pc \in {"idle", "down", "failing"}
    \/ proc[p].pc = "finishing" /\ proc[p].handler
View == <<run, lease, proc, [p \in Procs |-> IF Deaf(p) THEN NULL ELSE signal[p]],
          canceller, used>>
=============================================================================
