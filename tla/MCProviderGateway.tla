-------------------------- MODULE MCProviderGateway --------------------------
(* Model checking of ProviderGateway.  Runs are interchangeable.           *)
EXTENDS ProviderGateway, TLC

Symmetry == Permutations(Runs)

\* What of the provider state can still matter: whether there is any, and only
\* while the run may begin a stream.  No property reads it.
Begins(r) == stream[r].begun < MaxStreams /\ stream[r].pc # "done"
View == <<circuit, ledger,
          [r \in Runs |-> [stream[r] EXCEPT !.replay = @ /\ Begins(r)]],
          [r \in Runs |-> state[r] # {} /\ Begins(r)]>>
=============================================================================
