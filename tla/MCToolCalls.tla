----------------------------- MODULE MCToolCalls -----------------------------
EXTENDS ToolCalls

Rule(leave, write, bash, task) ==
    [a \in Permissions |-> CASE a = Outside -> leave [] a = "write" -> write
                             [] a = "bash" -> bash [] a = "task" -> task]

MCKinds == {<<"write", TRUE>>, <<"bash", FALSE>>, <<"bare", FALSE>>, <<"task", FALSE>>, <<"missing", FALSE>>}

MCRuleSets == {Rule("ask", "allow", "ask", "ask"), Rule("deny", "allow", "ask", "allow")}
=============================================================================
