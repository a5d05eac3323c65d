----------------------------- MODULE MCServices -----------------------------
(* Model checking of what starts runs, and of the connections to a server   *)
(* of tools.  They do not share state, so a behaviour takes the steps of    *)
(* one of them.                                                            *)
EXTENDS Triggers, McpServers

VARIABLE part

MCInit == /\ part \in {"triggers", "mcp"}
          /\ Init /\ McpInit
          /\ part = "triggers" => config = Unknown
          /\ part = "mcp" => ~session

MCNext == /\ UNCHANGED part
          /\ \/ part = "triggers" /\ Next /\ UNCHANGED mcp
             \/ part = "mcp" /\ McpNext /\ UNCHANGED vars

MCSpec == MCInit /\ [][MCNext]_<<part, vars, mcp>> /\ Fairness
=============================================================================
