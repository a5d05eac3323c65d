------------------------------ MODULE Delivery ------------------------------
(***************************************************************************)
(* What the outbox promises, without workers, batches and transactions:    *)
(* an event is delivered at least once, under a lease.  Each event is      *)
(* taken, handled and settled on its own; it is given up only when its     *)
(* tries are used up; and what was settled stays settled, unless a handler *)
(* has overrun its lease and answers after another one took the event.     *)
(***************************************************************************)
EXTENDS Integers

CONSTANTS Events, MaxTries

VARIABLES
    state,      \* of each event: none, waiting, taken, delivered or given_up
    tries,      \* how often each one was taken
    expired,    \* the events whose lease ran out
    handled,    \* the events a handler completed for
    overrun     \* a lease ran out under its handler

vars == <<state, tries, expired, handled, overrun>>

Init ==
    /\ state = [e \in Events |-> "none"]
    /\ tries = [e \in Events |-> 0]
    /\ expired = {} /\ handled = {}
    /\ overrun = FALSE

Becomes(e, s) == state'[e] = s /\ tries'[e] = tries[e]

Publish(e) == state[e] = "none" /\ Becomes(e, "waiting")

Take(e) ==
    /\ state[e] = "waiting" \/ (state[e] = "taken" /\ e \in expired)
    /\ state'[e] = "taken" /\ tries'[e] = tries[e] + 1
    /\ e \notin expired'

\* After a failure, or when the lease ran out.
Return(e) == state[e] = "taken" /\ Becomes(e, "waiting")

Deliver(e) == state[e] = "taken" /\ e \in handled /\ Becomes(e, "delivered")

GiveUp(e) == state[e] = "taken" /\ tries[e] >= MaxTries /\ Becomes(e, "given_up")

\* A handler that has lost its lease reports its failure.
ReportLate(e) ==
    /\ overrun /\ state[e] \in {"waiting", "delivered", "given_up"}
    /\ \/ Becomes(e, "waiting")
       \/ tries[e] >= MaxTries /\ Becomes(e, "given_up")

Step(e) == \/ Becomes(e, state[e])
           \/ Publish(e) \/ Take(e) \/ Return(e) \/ Deliver(e) \/ GiveUp(e) \/ ReportLate(e)

\* A handler completes for an event it has taken.
Handles(e) == state[e] = "taken" \/ overrun

Next ==
    /\ \A e \in Events : Step(e)
    /\ handled \subseteq handled' /\ \A e \in handled' \ handled : Handles(e)
    /\ \A e \in expired' \ expired : state[e] = "taken"
    /\ overrun => overrun'

Spec == Init /\ [][Next]_vars
=============================================================================
