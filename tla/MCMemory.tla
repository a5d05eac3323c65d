------------------------------ MODULE MCMemory ------------------------------
(* Model checking of the three parts of the memory.  They do not share      *)
(* state, so a behaviour takes the steps of one of them.                    *)
EXTENDS MemoryProjection, MemoryIndex, ContextSelection

VARIABLE part

vars == <<part, memory, index, context>>

Init == /\ part \in {"projection", "index", "context"}
        /\ ProjectionInit /\ IndexInit /\ ContextInit

Next == /\ UNCHANGED part
        /\ \/ part = "projection" /\ ProjectionNext /\ UNCHANGED <<index, context>>
           \/ part = "index" /\ IndexNext /\ UNCHANGED <<memory, context>>
           \/ part = "context" /\ ContextNext /\ UNCHANGED <<memory, index>>

Spec == Init /\ [][Next]_vars

MCPaths         == <<"memory.md", "today.md">>
MCLevels        == <<2, 1>>
MCCompactLevels == <<1>>

Symmetry == Permutations(Values) \cup Permutations(Workers)
=============================================================================
