--------------------------- MODULE ToolCallsProofs ---------------------------
(* Proofs about ToolCalls, for any tools called, rules, runs, turns, limits *)
(* and events.                                                             *)
EXTENDS ToolCalls, FiniteSetTheorems, SequenceTheorems, TLAPS

Replies  == {"once", "always", "rejected"}
Settled  == {"none", "answered", "dropped"}
Asking   == {"asking", "prompted", "registered", "waiting", "replied", "granting"}
Closing  == {"outcome", "filed", "stored", "recorded", "closed", "messaged"}
InFlight == Preparing \cup Executing \cup Closing \cup {"raised"}

Places   == Settled \cup InFlight
Tools    == DOMAIN Contracts \cup {"missing"}
Outcomes == {"none", "completed", "tool_execution_failed", "permission_denied",
             "tool_not_found", "invalid_tool_arguments", "tool_budget_exhausted"}
Prompts  == {"none", "pending", "interrupted"} \cup Replies
Futures  == {"none", "open"} \cup Replies

CallType ==
    [pc : Places, tool : Tools, outside : BOOLEAN,
     run : {0} \cup Runs, round : Nat, left : Seq(Permissions), outcome : Outcomes,
     part : {"none", "pending", "running", "completed", "error"},
     partSide : {"none", "unknown", "committed"},
     op : {"none", "executing", "completed", "error", "interrupted", "needs_review"},
     side : {"none", "unknown", "committed"},
     effect : BOOLEAN, file : BOOLEAN, artifact : BOOLEAN,
     message : {"none", "empty", "full"},
     prompt : [Permissions -> Prompts],
     future : Futures]

Ends == {"completed", "failed", "cancelled", "interrupted", "stopped"}

RunType == [status : {"none", "running", "waiting_approval", "cancelling", "ended"},
            how : {"none"} \cup Ends,
            source : Sources \cup {"api"}, limit : Limits \cup {0}, cancel : Int]

LoopType == [pc : {"idle", "down", "turn", "model", "batch"}, run : {0} \cup Runs,
             round : Nat, executed : Nat, final : BOOLEAN]

TypeOK ==
    /\ rules \in [Permissions -> {"allow", "ask", "deny"}]
    /\ run \in [Runs -> RunType]
    /\ loop \in LoopType
    /\ call \in [Calls -> CallType]
    /\ approvals \subseteq Permissions
    /\ canceller \in BOOLEAN /\ outside \in Nat

\* What a tool asks for, and what is left of it.
AskedFor(tool, leaves) == {a \in Permissions : (a = Outside /\ leaves) \/ a = tool}
Rest(s) == {s[i] : i \in DOMAIN s}
Suffixes(tool) == {<<>>, <<Outside>>} \cup (IF tool \in Permissions
                                           THEN {<<tool>>, <<Outside, tool>>} ELSE {})

\* While a call asks, there is no answer to what is left, and it has a future when it
\* waits for one.
AskOK(row) ==
    row.pc \in Asking =>
        /\ row.left \in Suffixes(row.tool)
        /\ row.pc = "asking" => \A a \in Rest(row.left) : row.prompt[a] = "none"
        /\ row.pc # "asking" =>
              /\ row.left # <<>>
              /\ \A a \in Rest(row.left) \ {Head(row.left)} : row.prompt[a] = "none"
              /\ IF row.pc = "granting" THEN row.prompt[Head(row.left)] = "always"
                 ELSE row.prompt[Head(row.left)] \in {"pending", "interrupted"}
        /\ row.pc \in {"registered", "waiting"} => row.future # "none"
        /\ row.pc = "replied" => row.future \in Replies

\* What the rows say at each place.
RecordOK(row) ==
    /\ row.pc \in {"started"} \cup Executing => row.tool # "missing" /\ row.part = "running"
    /\ row.pc \in {"added", "started"} \cup Executing => row.outcome = "none"
    /\ row.pc \in Executing =>
          row.side = IF Contracts[row.tool].side THEN "unknown" ELSE "none"
    /\ row.pc = "recorded" => row.op = IF row.outcome = "completed" THEN "completed" ELSE "error"
    /\ row.pc \in {"closed", "messaged", "answered"} =>
          row.op = row.part /\ row.op \in {"completed", "error"}
    /\ row.pc = "answered" => row.message = "full"
    /\ row.artifact \/ row.pc = "filed" => row.file

\* What the rows say of an effect.
EffectOK(row) ==
    row.effect =>
        /\ row.pc \in {"acting", "raised", "answered", "dropped"} \cup Closing
        /\ row.tool # "missing" /\ Contracts[row.tool].side
        /\ row.outcome \in {"none", "completed", "tool_execution_failed"}
        /\ row.side \in {"unknown", "committed"}
        /\ row.part \notin {"none", "pending"}
        /\ row.partSide # "none" \/ row.part = "running"

RowOK(row) ==
    /\ row.pc = "none" <=> row.run = 0
    /\ row.pc \in {"none", "queued", "added", "started", "ready"} =>
          \A a \in Permissions : row.prompt[a] = "none"
    /\ row.future # "none" => row.pc \in {"registered", "waiting", "replied"}
    /\ AskOK(row) /\ RecordOK(row) /\ EffectOK(row)

\* Consent of the user or the rules, on record.
Grantor(d, c, a) ==
    /\ d < c \/ Beside(d, c)
    /\ call[d].prompt[a] = "always" /\ Contracts[call[d].tool].scope # "once"

Allowed(c, a) ==
    \/ rules[a] = "allow"
    \/ call[c].prompt[a] \in {"once", "always"}
    \/ \E d \in Calls : Grantor(d, c, a)

ConsentOK(c) ==
    LET asked == AskedFor(call[c].tool, call[c].outside)
    IN  /\ call[c].effect \/ call[c].pc = "acting" => \A a \in asked : Allowed(c, a)
        /\ call[c].pc \in Asking => \A a \in asked : Allowed(c, a) \/ a \in Rest(call[c].left)

ApprovalsOK ==
    \A a \in approvals : \E d \in Calls :
        call[d].prompt[a] = "always" /\ Contracts[call[d].tool].scope # "once"

\* Calls of the round in progress come last; one that was begun is after answered ones,
\* or beside others of the task tool.
OrderOK(c, d) ==
    /\ call[c].pc \in InFlight /\ call[d].pc # "none" /\ d > c =>
          call[d].run = loop.run /\ call[d].round = loop.round
    /\ /\ d < c /\ call[c].pc \notin {"none", "queued", "dropped"}
       /\ call[c].run = call[d].run /\ call[c].round = call[d].round
       => call[d].pc = "answered" \/ Beside(d, c)

\* A call is in flight in its round; a round that is over was answered, and so was every
\* call of a run that completed.
RoundOK(c) ==
    /\ call[c].pc \in InFlight =>
          loop.pc = "batch" /\ call[c].run = loop.run /\ call[c].round = loop.round
    /\ call[c].run # 0 /\ call[c].run = loop.run =>
          /\ call[c].round <= loop.round
          /\ loop.pc = "model" => call[c].round < loop.round
          /\ \/ call[c].pc = "answered"
             \/ call[c].pc \in InFlight /\ loop.pc = "batch" /\ call[c].round = loop.round
    /\ call[c].run # 0 =>
          /\ run[call[c].run].status # "none"
          /\ run[call[c].run].how = "completed" => call[c].pc = "answered"
          /\ run[call[c].run].cancel >= 0 => call[c].round <= run[call[c].run].cancel

LoopOK ==
    /\ loop.run # 0 <=> loop.pc \in {"turn", "model", "batch"}
    /\ loop.run # 0 =>
          /\ run[loop.run].status \in {"running", "waiting_approval", "cancelling"}
          /\ run[loop.run].cancel >= 0 => loop.round <= run[loop.run].cancel
    /\ \A r \in Runs : run[r].how = "completed" => run[r].status = "ended"

\* The calls are numbered as they are made, and there are no more rounds than turns and
\* calls.
Counted(n) ==
    /\ \A c \in Calls : call[c].pc # "none" <=> c <= n
    /\ \A c \in Calls : call[c].round <= MaxTurns + n
    /\ loop.round <= MaxTurns + n + (IF loop.pc = "model" THEN 1 ELSE 0)

IInv ==
    /\ TypeOK
    /\ \A c \in Calls : RowOK(call[c]) /\ ConsentOK(c) /\ RoundOK(c)
    /\ \A c, d \in Calls : OrderOK(c, d)
    /\ ApprovalsOK /\ LoopOK
    /\ \E n \in 0 .. MaxCalls : Counted(n)

-----------------------------------------------------------------------------
(* What is left to ask.                                                    *)

\* Two permissions in a row.
LEMMA PairOfTwo ==
    ASSUME NEW a, NEW b
    PROVE  <<a>> \o <<b>> = <<a, b>>
<1> DEFINE S == {a, b}
           s == <<a>> \o <<b>>
<1>1. <<a>> \in Seq(S) /\ <<b>> \in Seq(S) /\ <<a, b>> \in Seq(S) /\ Len(<<a, b>>) = 2
  OBVIOUS
<1>2. s \in Seq(S) /\ Len(s) = 2
  BY <1>1, ConcatProperties
<1>3. s[1] = a /\ s[2] = b
  BY <1>1, ConcatProperties
<1>4. \A i \in 1 .. 2 : s[i] = <<a, b>>[i]
  BY <1>3
<1> QED BY <1>1, <1>2, <1>4, SeqEqual

\* A tool asks for what is left at the beginning, and asking once leaves the rest.
LEMMA AsksAll ==
    ASSUME NEW tool \in DOMAIN Contracts, NEW leaves \in BOOLEAN
    PROVE  /\ Asks(tool, leaves) \in Suffixes(tool)
           /\ Rest(Asks(tool, leaves)) = AskedFor(tool, leaves)
<1>1. Outside \in Permissions /\ tool # Outside
  BY DEF Permissions, Contracts, Outside
<1>2. CASE leaves /\ tool \in Permissions
  <2>1. Asks(tool, leaves) = <<Outside>> \o <<tool>>
    BY <1>2 DEF Asks
  <2>2. <<Outside>> \o <<tool>> = <<Outside, tool>>
    BY PairOfTwo
  <2>3. Rest(<<Outside, tool>>) = {Outside, tool}
    BY DEF Rest
  <2>4. AskedFor(tool, leaves) = {Outside, tool}
    BY <1>1, <1>2 DEF AskedFor
  <2> QED BY <1>2, <2>1, <2>2, <2>3, <2>4 DEF Suffixes
<1>3. CASE leaves /\ tool \notin Permissions
  <2>1. Asks(tool, leaves) = <<Outside>> \o <<>>
    BY <1>3 DEF Asks
  <2>2. <<Outside>> \o <<>> = <<Outside>>
    BY <1>1
  <2>3. Rest(<<Outside>>) = {Outside}
    BY DEF Rest
  <2>4. AskedFor(tool, leaves) = {Outside}
    BY <1>1, <1>3 DEF AskedFor
  <2> QED BY <2>1, <2>2, <2>3, <2>4 DEF Suffixes
<1>4. CASE ~leaves /\ tool \in Permissions
  <2>1. Asks(tool, leaves) = <<tool>>
    BY <1>4 DEF Asks
  <2> QED BY <1>1, <1>4, <2>1 DEF Suffixes, Rest, AskedFor
<1>5. CASE ~leaves /\ tool \notin Permissions
  <2>1. Asks(tool, leaves) = <<>>
    BY <1>5 DEF Asks
  <2> QED BY <1>1, <1>5, <2>1 DEF Suffixes, Rest, AskedFor
<1> QED BY <1>2, <1>3, <1>4, <1>5

\* No permission is asked for twice.
LEMMA AskingOnce ==
    ASSUME NEW tool, NEW s \in Suffixes(tool), tool # Outside
    PROVE  /\ s \in Seq(Permissions)
           /\ s = <<>> => Rest(s) = {}
           /\ s # <<>> => /\ Head(s) \in Permissions /\ Head(s) \in Rest(s)
                          /\ Tail(s) \in Suffixes(tool)
                          /\ Rest(Tail(s)) = Rest(s) \ {Head(s)}
<1>1. Outside \in Permissions
  BY DEF Permissions
<1>2. CASE s = <<>>
  BY <1>2 DEF Rest
<1>3. CASE s = <<Outside>>
  <2>1. Head(s) = Outside /\ Tail(s) = <<>> /\ Rest(s) = {Outside} /\ Rest(<<>>) = {}
    BY <1>3 DEF Rest
  <2> QED BY <1>1, <1>3, <2>1 DEF Suffixes
<1>4. CASE tool \in Permissions /\ s = <<tool>>
  <2>1. Head(s) = tool /\ Tail(s) = <<>> /\ Rest(s) = {tool} /\ Rest(<<>>) = {}
    BY <1>4 DEF Rest
  <2> QED BY <1>4, <2>1 DEF Suffixes
<1>5. CASE tool \in Permissions /\ s = <<Outside, tool>>
  <2>1. /\ Head(s) = Outside /\ Tail(s) = <<tool>>
        /\ Rest(s) = {Outside, tool} /\ Rest(<<tool>>) = {tool}
    BY <1>5 DEF Rest
  <2> QED BY <1>1, <1>5, <2>1 DEF Suffixes
<1> QED BY <1>2, <1>3, <1>4, <1>5 DEF Suffixes

-----------------------------------------------------------------------------
(* What a step on one call has to keep.                                    *)

\* The calls that were made stay what they are, and answers are never taken back.
Same(new, old) ==
    /\ new.tool = old.tool /\ new.outside = old.outside
    /\ new.run = old.run /\ new.round = old.round
    /\ \A a \in Permissions :
          old.prompt[a] \in {"once", "always"} => new.prompt[a] = old.prompt[a]

\* What was allowed stays allowed.
LEMMA AllowedStays ==
    ASSUME IInv, rules' = rules, NEW c \in Calls, NEW a \in Permissions, Allowed(c, a),
           call[c].pc # "none",
           \A d \in Calls : call[d].pc # "none" => Same(call'[d], call[d])
    PROVE  Allowed(c, a)'
<1>1. ASSUME NEW d \in Calls, Grantor(d, c, a)
      PROVE  Grantor(d, c, a)'
  <2>1. call[d].pc # "none"
    BY <1>1 DEF IInv, RowOK, Grantor
  <2> QED BY <1>1, <2>1 DEF Grantor, Beside, Same
<1> QED BY <1>1 DEF Allowed, Same

\* The rows of runs keep what the calls depend on.
RunsStay ==
    \A r \in Runs :
        /\ run'[r].cancel = run[r].cancel
        /\ run[r].status # "none" => run'[r].status # "none"
        /\ run'[r].how = "completed" => run[r].how = "completed" /\ run'[r].status = "ended"
        /\ r = loop.run => run'[r].status \in {"running", "waiting_approval", "cancelling"}

\* A step of one call of the batch.
LEMMA RowStep ==
    ASSUME IInv, TypeOK', NEW c \in Calls, call[c].pc \in InFlight, NEW row \in CallType,
           call' = [call EXCEPT ![c] = row], Same(row, call[c]),
           row.pc \in (InFlight \ {"queued"}) \cup {"answered"}, RowOK(row),
           rules' = rules, loop' = loop, RunsStay,
           \/ approvals' = approvals
           \/ \E b \in Permissions : /\ approvals' = approvals \cup {b}
                                     /\ row.prompt[b] = "always"
                                     /\ Contracts[row.tool].scope # "once",
           call[c].pc = "queued" =>
               \A d \in Batch : d < c => call[d].pc = "answered" \/ Beside(d, c),
           row.effect \/ row.pc \in Asking \cup {"acting"} =>
               \A a \in AskedFor(row.tool, row.outside) :
                   \/ Allowed(c, a) \/ row.prompt[a] \in {"once", "always"}
                   \/ row.pc \in Asking /\ ~row.effect /\ a \in Rest(row.left)
    PROVE  IInv'
<1> USE DEF IInv
<1>0. call \in [Calls -> CallType] /\ call[c] \in CallType
  BY DEF TypeOK
<1>1. call'[c] = row /\ \A d \in Calls \ {c} : call'[d] = call[d]
  BY <1>0
<1>2. \A d \in Calls : Same(call'[d], call[d])
  BY <1>1 DEF Same
<1>3. \A d \in Calls : RowOK(call'[d])
  BY <1>1
<1>4. ASSUME NEW d \in Calls
      PROVE  ConsentOK(d)'
  <2>1. CASE d = c
    <3>1. call[c].pc # "none"
      BY DEF InFlight, Preparing, Executing, Closing
    <3>2. \A a \in AskedFor(row.tool, row.outside) : Allowed(c, a) => Allowed(c, a)'
      BY <1>2, <3>1, AllowedStays DEF AskedFor
    <3>3. \A a \in Permissions : row.prompt[a] \in {"once", "always"} => Allowed(c, a)'
      BY <1>1 DEF Allowed
    <3>4. AskedFor(row.tool, row.outside) \subseteq Permissions
      BY DEF AskedFor
    <3>5. row.pc = "acting" => row.pc \notin Asking
      BY DEF Asking
    <3> QED BY <1>1, <2>1, <3>2, <3>3, <3>4, <3>5 DEF ConsentOK
  <2>2. CASE d # c
    <3>1. call'[d] = call[d] /\ ConsentOK(d)
      BY <1>1, <2>2
    <3>2. call[d].effect \/ call[d].pc = "acting" \/ call[d].pc \in Asking => call[d].pc # "none"
      BY DEF RowOK, EffectOK, Asking, Closing
    <3>3. \A a \in AskedFor(call[d].tool, call[d].outside) :
             call[d].pc # "none" /\ Allowed(d, a) => Allowed(d, a)'
      BY <1>2, AllowedStays DEF AskedFor
    <3> QED BY <3>1, <3>2, <3>3 DEF ConsentOK
  <2> QED BY <2>1, <2>2
<1>5. row.pc # "none" /\ call[c].pc # "none" /\ call[c].pc # "answered"
  BY DEF InFlight, Preparing, Executing, Closing
<1>6. call[c].run # 0 /\ call[c].run = loop.run /\ call[c].round = loop.round /\ loop.pc = "batch"
  BY <1>5 DEF RoundOK, RowOK
<1>7. ASSUME NEW d \in Calls
      PROVE  RoundOK(d)'
  <2>1. call[d].run \in {0} \cup Runs
    BY <1>0 DEF CallType
  <2>2. CASE d = c
    BY <1>1, <1>5, <1>6, <2>1, <2>2 DEF RoundOK, RunsStay, Same
  <2>3. CASE d # c
    BY <1>1, <2>1, <2>3 DEF RoundOK, RunsStay
  <2> QED BY <2>2, <2>3
<1>8. ASSUME NEW d \in Calls, NEW e \in Calls
      PROVE  OrderOK(d, e)'
  <2>1. OrderOK(d, e) /\ OrderOK(c, e)
    OBVIOUS
  <2>2. (call'[d].pc \in InFlight => call[d].pc \in InFlight) /\ (call'[e].pc # "none" => call[e].pc # "none")
    BY <1>1, <1>5
  <2>3. call'[d].run = call[d].run /\ call'[d].round = call[d].round /\ call'[d].tool = call[d].tool
    BY <1>2 DEF Same
  <2>4. call'[e].run = call[e].run /\ call'[e].round = call[e].round /\ call'[e].tool = call[e].tool
    BY <1>2 DEF Same
  <2>5. call[e].pc = "answered" => call'[e].pc = "answered"
    BY <1>1, <1>5
  <2>6. Beside(e, d) => Beside(e, d)'
    BY <2>3, <2>4 DEF Beside
  <2>7. CASE d = c /\ call[c].pc = "queued"
    <3>1. e < c /\ call[e].run = call[c].run /\ call[e].round = call[c].round => e \in Batch
      BY <1>6 DEF Batch, RowOK
    <3> QED BY <2>1, <2>2, <2>3, <2>4, <2>5, <2>6, <2>7, <3>1 DEF OrderOK
  <2>8. CASE ~(d = c /\ call[c].pc = "queued")
    <3>1. call'[d].pc \notin {"none", "queued", "dropped"} =>
              call[d].pc \notin {"none", "queued", "dropped"}
      BY <1>1, <1>5, <2>8 DEF InFlight, Preparing, Executing, Closing
    <3> QED BY <2>1, <2>2, <2>3, <2>4, <2>5, <2>6, <3>1 DEF OrderOK
  <2> QED BY <2>7, <2>8
<1>9. ApprovalsOK'
  <2>1. \A d \in Calls, a \in Permissions : call[d].prompt[a] = "always" => call'[d].prompt[a] = "always"
    BY <1>2 DEF Same
  <2>2. \A d \in Calls : call'[d].tool = call[d].tool
    BY <1>2 DEF Same
  <2>3. approvals \subseteq Permissions
    BY DEF TypeOK
  <2>4. \A a \in approvals : \E d \in Calls :
            call'[d].prompt[a] = "always" /\ Contracts[call'[d].tool].scope # "once"
    BY <2>1, <2>2, <2>3 DEF ApprovalsOK
  <2> QED BY <1>1, <2>4 DEF ApprovalsOK
<1>10. LoopOK'
  <2>1. loop.run \in {0} \cup Runs
    BY DEF TypeOK, LoopType
  <2> QED BY <2>1 DEF LoopOK, RunsStay
<1>11. \E n \in 0 .. MaxCalls : Counted(n)'
  <2>1. PICK n \in 0 .. MaxCalls : Counted(n)
    OBVIOUS
  <2>2. \A d \in Calls : (call'[d].pc # "none" <=> call[d].pc # "none") /\ call'[d].round = call[d].round
    BY <1>1, <1>2, <1>5 DEF Same
  <2>3. Counted(n)'
    BY <2>1, <2>2 DEF Counted
  <2> QED BY <2>3
<1> QED BY <1>3, <1>4, <1>7, <1>8, <1>9, <1>10, <1>11

\* A step of a call that is not about asking, or that ends it.
LEMMA PlainStep ==
    ASSUME IInv, NEW c \in Calls, call[c].pc \in InFlight, NEW row \in CallType,
           call' = [call EXCEPT ![c] = row],
           row.tool = call[c].tool, row.outside = call[c].outside,
           row.run = call[c].run, row.round = call[c].round,
           row.prompt = call[c].prompt, row.effect = call[c].effect,
           row.pc \in (InFlight \ ({"queued", "acting"} \cup Asking)) \cup {"answered"},
           RowOK(row), UNCHANGED <<rules, run, loop, approvals, canceller>>, outside' \in Nat,
           call[c].pc = "queued" =>
               \A d \in Batch : d < c => call[d].pc = "answered" \/ Beside(d, c)
    PROVE  IInv'
<1>1. TypeOK'
  BY DEF IInv, TypeOK
<1>2. Same(row, call[c])
  BY DEF Same
<1>3. row.effect => \A a \in AskedFor(row.tool, row.outside) : Allowed(c, a)
  BY DEF IInv, ConsentOK
<1>4. RunsStay
  BY DEF RunsStay, IInv, LoopOK, Runs
<1>5. row.pc \in (InFlight \ {"queued"}) \cup {"answered"} /\ row.pc \notin Asking \cup {"acting"}
  BY DEF InFlight, Preparing, Executing, Closing, Asking
<1> QED BY <1>1, <1>2, <1>3, <1>4, <1>5, RowStep

-----------------------------------------------------------------------------
(* The steps of a call that do not ask.                                    *)

\* A call begins when those before it are answered, or beside it.
LEMMA AddPartStep ==
    ASSUME IInv, NEW c \in Calls, AddPart(c)
    PROVE  IInv'
<1> DEFINE row == [call[c] EXCEPT !.part = "pending",
                      !.pc = IF call[c].outcome = "none" THEN "added" ELSE "outcome"]
<1>1. call[c] \in CallType /\ call[c].pc = "queued" /\ call' = [call EXCEPT ![c] = row]
  BY DEF IInv, TypeOK, AddPart, MayPrepare, At
<1>2. row \in CallType
  <2>1. {"added", "outcome"} \subseteq Places
    BY DEF Places, InFlight, Preparing, Closing
  <2> QED BY <1>1, <2>1 DEF CallType
<1>3. RowOK(row)
  <2>1. RowOK(call[c]) /\ ~call[c].effect
    BY <1>1 DEF IInv, RowOK, EffectOK, Closing
  <2>2. /\ row.pc \in {"added", "outcome"} /\ row.run = call[c].run /\ row.future = call[c].future
        /\ row.effect = call[c].effect /\ row.file = call[c].file /\ row.artifact = call[c].artifact
        /\ row.prompt = call[c].prompt /\ row.outcome = call[c].outcome
        /\ row.pc = "added" => call[c].outcome = "none"
    BY <1>1 DEF CallType
  <2> HIDE DEF row
  <2> QED BY <1>1, <2>1, <2>2 DEF RowOK, AskOK, RecordOK, EffectOK, Asking, Executing
<1>4. \A d \in Batch : d < c => call[d].pc = "answered" \/ Beside(d, c)
  BY DEF AddPart, MayPrepare, At, IsParallelTaskBatch, Beside, Batch
<1>5. row.pc \in (InFlight \ ({"queued", "acting"} \cup Asking)) \cup {"answered"}
  BY <1>1 DEF CallType, InFlight, Preparing, Closing, Asking
<1>6. UNCHANGED <<rules, run, loop, approvals, canceller>> /\ outside' \in Nat
  BY DEF AddPart, IInv, TypeOK
<1> HIDE DEF row
<1>7. /\ row.tool = call[c].tool /\ row.outside = call[c].outside /\ row.run = call[c].run
      /\ row.round = call[c].round /\ row.prompt = call[c].prompt /\ row.effect = call[c].effect
  BY <1>1 DEF row, CallType
<1>8. call[c].pc \in InFlight
  BY <1>1 DEF InFlight, Preparing
<1> QED BY <1>1, <1>2, <1>3, <1>4, <1>5, <1>6, <1>7, <1>8, PlainStep

\* What an outcome is stored as.
LEMMA StoredAs ==
    ASSUME NEW c \in Calls
    PROVE  /\ SideEffectOf(c) \in {"none", "unknown", "committed"}
           /\ StatusOf(c) \in {"completed", "error"}
BY DEF SideEffectOf, StatusOf

\* A call of no tool, or with bad arguments, is over.
LEMMA NotFoundStep ==
    ASSUME IInv, NEW c \in Calls, NotFound(c),
           NEW code \in {"tool_not_found", "invalid_tool_arguments"}, Outcome(c, code)
    PROVE  IInv'
<1> DEFINE row == [call[c] EXCEPT !.pc = "outcome", !.outcome = code]
<1>1. /\ call[c] \in CallType /\ RowOK(call[c]) /\ call[c].pc = "added"
      /\ call' = [call EXCEPT ![c] = row]
  BY DEF IInv, TypeOK, NotFound, At, Outcome
<1>2. {"outcome"} \subseteq Places
  BY DEF Places, InFlight, Preparing, Executing, Closing, Settled
<1>3. row \in CallType
  BY <1>1, <1>2 DEF CallType, Outcomes
<1>4. /\ row.tool = call[c].tool /\ row.outside = call[c].outside /\ row.run = call[c].run
      /\ row.round = call[c].round /\ row.prompt = call[c].prompt /\ row.effect = call[c].effect
  BY <1>1 DEF CallType
<1>5. RowOK(row) /\ row.pc \in {"outcome"}
  BY <1>1 DEF CallType, RowOK, AskOK, RecordOK, EffectOK, Asking, Executing, Closing
<1>6. UNCHANGED <<rules, run, loop, approvals, canceller>> /\ outside' \in Nat
  BY DEF IInv, TypeOK, NotFound
<1> HIDE DEF row
<1>7. row.pc \in (InFlight \ ({"queued", "acting"} \cup Asking)) \cup {"answered"}
  BY <1>5 DEF InFlight, Preparing, Executing, Closing, Asking
<1>8. call[c].pc \in InFlight /\ call[c].pc # "queued"
  BY <1>1 DEF InFlight, Preparing, Executing, Closing
<1> QED BY <1>1, <1>3, <1>4, <1>5, <1>6, <1>7, <1>8, PlainStep

\* A call of a tool is marked as running.
LEMMA MarkRunningStep ==
    ASSUME IInv, NEW c \in Calls, MarkRunning(c)
    PROVE  IInv'
<1> DEFINE row == [call[c] EXCEPT !.part = "running", !.pc = "started"]
<1>1. /\ call[c] \in CallType /\ RowOK(call[c]) /\ call[c].pc = "added" /\ call[c].tool # "missing"
      /\ call' = [call EXCEPT ![c] = row]
  BY DEF IInv, TypeOK, MarkRunning, At
<1>2. {"started"} \subseteq Places
  BY DEF Places, InFlight, Preparing, Executing, Closing, Settled
<1>3. row \in CallType
  BY <1>1, <1>2 DEF CallType
<1>4. /\ row.tool = call[c].tool /\ row.outside = call[c].outside /\ row.run = call[c].run
      /\ row.round = call[c].round /\ row.prompt = call[c].prompt /\ row.effect = call[c].effect
  BY <1>1 DEF CallType
<1>5. RowOK(row) /\ row.pc \in {"started"}
  BY <1>1 DEF CallType, RowOK, AskOK, RecordOK, EffectOK, Asking, Executing, Closing
<1>6. UNCHANGED <<rules, run, loop, approvals, canceller>> /\ outside' \in Nat
  BY DEF IInv, TypeOK, MarkRunning
<1> HIDE DEF row
<1>7. row.pc \in (InFlight \ ({"queued", "acting"} \cup Asking)) \cup {"answered"}
  BY <1>5 DEF InFlight, Preparing, Executing, Closing, Asking
<1>8. call[c].pc \in InFlight /\ call[c].pc # "queued"
  BY <1>1 DEF InFlight, Preparing, Executing, Closing
<1> QED BY <1>1, <1>3, <1>4, <1>5, <1>6, <1>7, <1>8, PlainStep

\* The row whose operation is stored is the row of a call.
LEMMA StoredRow ==
    ASSUME NEW row \in CallType, NEW pc \in Places, NEW side \in {"none", "unknown"}
    PROVE  [row EXCEPT !.op = "executing", !.pc = pc, !.side = side] \in CallType
BY DEF CallType

\* The operation is stored before the tool does anything.
LEMMA StoreOperationStep ==
    ASSUME IInv, NEW c \in Calls, StoreOperation(c)
    PROVE  IInv'
<1> DEFINE row == [call[c] EXCEPT !.op = "executing", !.pc = "ready",
                      !.side = IF Contracts[call[c].tool].side THEN "unknown" ELSE "none"]
<1>1. /\ call[c] \in CallType /\ RowOK(call[c]) /\ call[c].pc = "started"
      /\ call' = [call EXCEPT ![c] = row]
  BY DEF IInv, TypeOK, StoreOperation, At
<1>2. {"ready"} \subseteq Places
  BY DEF Places, InFlight, Preparing, Executing, Closing, Settled
<1>3. row \in CallType
  BY <1>1, <1>2, StoredRow
<1>4. /\ row.tool = call[c].tool /\ row.outside = call[c].outside /\ row.run = call[c].run
      /\ row.round = call[c].round /\ row.prompt = call[c].prompt /\ row.effect = call[c].effect
  BY <1>1 DEF CallType
<1>5. RowOK(row) /\ row.pc \in {"ready"}
  BY <1>1 DEF CallType, RowOK, AskOK, RecordOK, EffectOK, Asking, Executing, Closing
<1>6. UNCHANGED <<rules, run, loop, approvals, canceller>> /\ outside' \in Nat
  BY DEF IInv, TypeOK, StoreOperation
<1> HIDE DEF row
<1>7. row.pc \in (InFlight \ ({"queued", "acting"} \cup Asking)) \cup {"answered"}
  BY <1>5 DEF InFlight, Preparing, Executing, Closing, Asking
<1>8. call[c].pc \in InFlight /\ call[c].pc # "queued"
  BY <1>1 DEF InFlight, Preparing, Executing, Closing
<1> QED BY <1>1, <1>3, <1>4, <1>5, <1>6, <1>7, <1>8, PlainStep

\* A call that asks is over without having done anything.
LEMMA FailsStep ==
    ASSUME IInv, NEW c \in Calls, call[c].pc \in Asking,
           NEW code \in {"permission_denied", "tool_execution_failed"},
           call' = [call EXCEPT ![c] = [call[c] EXCEPT !.pc = "outcome", !.outcome = code,
                                                     !.future = "none"]],
           UNCHANGED <<rules, run, loop, approvals, canceller>>, outside' \in Nat
    PROVE  IInv'
<1> DEFINE row == [call[c] EXCEPT !.pc = "outcome", !.outcome = code, !.future = "none"]
<1>1. /\ call[c] \in CallType /\ RowOK(call[c]) /\ call[c].pc \in Asking
      /\ call' = [call EXCEPT ![c] = row]
  BY DEF IInv, TypeOK, Asking, At
<1>2. {"outcome"} \subseteq Places
  BY DEF Places, InFlight, Preparing, Executing, Closing, Settled
<1>3. row \in CallType
  BY <1>1, <1>2 DEF CallType, Outcomes, Futures
<1>4. /\ row.tool = call[c].tool /\ row.outside = call[c].outside /\ row.run = call[c].run
      /\ row.round = call[c].round /\ row.prompt = call[c].prompt /\ row.effect = call[c].effect
  BY <1>1 DEF CallType
<1>5. RowOK(row) /\ row.pc \in {"outcome"}
  BY <1>1 DEF CallType, RowOK, AskOK, RecordOK, EffectOK, Asking, Executing, Closing
<1>6. UNCHANGED <<rules, run, loop, approvals, canceller>> /\ outside' \in Nat
  BY DEF IInv, TypeOK, Asking
<1> HIDE DEF row
<1>7. row.pc \in (InFlight \ ({"queued", "acting"} \cup Asking)) \cup {"answered"}
  BY <1>5 DEF InFlight, Preparing, Executing, Closing, Asking
<1>8. call[c].pc \in InFlight /\ call[c].pc # "queued"
  BY <1>1 DEF InFlight, Preparing, Executing, Closing, Asking
<1> QED BY <1>1, <1>3, <1>4, <1>5, <1>6, <1>7, <1>8, PlainStep

\* A tool returns, or raises an error.
LEMMA ActingReturnsStep ==
    ASSUME IInv, NEW c \in Calls, call[c].pc = "acting", Returns(c),
           NEW code \in {"completed", "tool_execution_failed"}, Outcome(c, code)
    PROVE  IInv'
<1> DEFINE row == [call[c] EXCEPT !.pc = "outcome", !.outcome = code]
<1>1. /\ call[c] \in CallType /\ RowOK(call[c]) /\ call[c].pc = "acting"
      /\ call' = [call EXCEPT ![c] = row]
  BY DEF IInv, TypeOK, Returns, At, Outcome
<1>2. {"outcome"} \subseteq Places
  BY DEF Places, InFlight, Preparing, Executing, Closing, Settled
<1>3. row \in CallType
  BY <1>1, <1>2 DEF CallType, Outcomes
<1>4. /\ row.tool = call[c].tool /\ row.outside = call[c].outside /\ row.run = call[c].run
      /\ row.round = call[c].round /\ row.prompt = call[c].prompt /\ row.effect = call[c].effect
  BY <1>1 DEF CallType
<1>5. RowOK(row) /\ row.pc \in {"outcome"}
  BY <1>1 DEF CallType, RowOK, AskOK, RecordOK, EffectOK, Asking, Executing, Closing
<1>6. UNCHANGED <<rules, run, loop, approvals, canceller>> /\ outside' \in Nat
  BY DEF IInv, TypeOK, Returns
<1> HIDE DEF row
<1>7. row.pc \in (InFlight \ ({"queued", "acting"} \cup Asking)) \cup {"answered"}
  BY <1>5 DEF InFlight, Preparing, Executing, Closing, Asking
<1>8. call[c].pc \in InFlight /\ call[c].pc # "queued"
  BY <1>1 DEF InFlight, Preparing, Executing, Closing
<1> QED BY <1>1, <1>3, <1>4, <1>5, <1>6, <1>7, <1>8, PlainStep

\* A hook raises after a tool failed.
LEMMA CallRaisesStep ==
    ASSUME IInv, NEW c \in Calls, CallRaises(c)
    PROVE  IInv'
<1> DEFINE row == [call[c] EXCEPT !.pc = "raised"]
<1>1. /\ call[c] \in CallType /\ RowOK(call[c]) /\ call[c].pc = "acting"
      /\ call' = [call EXCEPT ![c] = row]
  BY DEF IInv, TypeOK, CallRaises, At, Goto, Event
<1>2. {"raised"} \subseteq Places
  BY DEF Places, InFlight, Preparing, Executing, Closing, Settled
<1>3. row \in CallType
  BY <1>1, <1>2 DEF CallType
<1>4. /\ row.tool = call[c].tool /\ row.outside = call[c].outside /\ row.run = call[c].run
      /\ row.round = call[c].round /\ row.prompt = call[c].prompt /\ row.effect = call[c].effect
  BY <1>1 DEF CallType
<1>5. RowOK(row) /\ row.pc \in {"raised"}
  BY <1>1 DEF CallType, RowOK, AskOK, RecordOK, EffectOK, Asking, Executing, Closing
<1>6. UNCHANGED <<rules, run, loop, approvals, canceller>> /\ outside' \in Nat
  BY DEF IInv, TypeOK, CallRaises, Event
<1> HIDE DEF row
<1>7. row.pc \in (InFlight \ ({"queued", "acting"} \cup Asking)) \cup {"answered"}
  BY <1>5 DEF InFlight, Preparing, Executing, Closing, Asking
<1>8. call[c].pc \in InFlight /\ call[c].pc # "queued"
  BY <1>1 DEF InFlight, Preparing, Executing, Closing
<1> QED BY <1>1, <1>3, <1>4, <1>5, <1>6, <1>7, <1>8, PlainStep

\* An output goes to a file.
LEMMA OffloadStep ==
    ASSUME IInv, NEW c \in Calls, Offload(c)
    PROVE  IInv'
<1> DEFINE row == [call[c] EXCEPT !.file = TRUE, !.pc = "filed"]
<1>1. /\ call[c] \in CallType /\ RowOK(call[c]) /\ call[c].pc = "outcome"
      /\ call' = [call EXCEPT ![c] = row]
  BY DEF IInv, TypeOK, Offload, At
<1>2. {"filed"} \subseteq Places
  BY DEF Places, InFlight, Preparing, Executing, Closing, Settled
<1>3. row \in CallType
  BY <1>1, <1>2 DEF CallType
<1>4. /\ row.tool = call[c].tool /\ row.outside = call[c].outside /\ row.run = call[c].run
      /\ row.round = call[c].round /\ row.prompt = call[c].prompt /\ row.effect = call[c].effect
  BY <1>1 DEF CallType
<1>5. RowOK(row) /\ row.pc \in {"filed"}
  BY <1>1 DEF CallType, RowOK, AskOK, RecordOK, EffectOK, Asking, Executing, Closing
<1>6. UNCHANGED <<rules, run, loop, approvals, canceller>> /\ outside' \in Nat
  BY DEF IInv, TypeOK, Offload
<1> HIDE DEF row
<1>7. row.pc \in (InFlight \ ({"queued", "acting"} \cup Asking)) \cup {"answered"}
  BY <1>5 DEF InFlight, Preparing, Executing, Closing, Asking
<1>8. call[c].pc \in InFlight /\ call[c].pc # "queued"
  BY <1>1 DEF InFlight, Preparing, Executing, Closing
<1> QED BY <1>1, <1>3, <1>4, <1>5, <1>6, <1>7, <1>8, PlainStep

\* The row of the file.
LEMMA AddArtifactStep ==
    ASSUME IInv, NEW c \in Calls, AddArtifact(c)
    PROVE  IInv'
<1> DEFINE row == [call[c] EXCEPT !.artifact = TRUE, !.pc = "stored"]
<1>1. /\ call[c] \in CallType /\ RowOK(call[c]) /\ call[c].pc = "filed"
      /\ call' = [call EXCEPT ![c] = row]
  BY DEF IInv, TypeOK, AddArtifact, At
<1>2. {"stored"} \subseteq Places
  BY DEF Places, InFlight, Preparing, Executing, Closing, Settled
<1>3. row \in CallType
  BY <1>1, <1>2 DEF CallType
<1>4. /\ row.tool = call[c].tool /\ row.outside = call[c].outside /\ row.run = call[c].run
      /\ row.round = call[c].round /\ row.prompt = call[c].prompt /\ row.effect = call[c].effect
  BY <1>1 DEF CallType
<1>5. RowOK(row) /\ row.pc \in {"stored"}
  BY <1>1 DEF CallType, RowOK, AskOK, RecordOK, EffectOK, Asking, Executing, Closing
<1>6. UNCHANGED <<rules, run, loop, approvals, canceller>> /\ outside' \in Nat
  BY DEF IInv, TypeOK, AddArtifact
<1> HIDE DEF row
<1>7. row.pc \in (InFlight \ ({"queued", "acting"} \cup Asking)) \cup {"answered"}
  BY <1>5 DEF InFlight, Preparing, Executing, Closing, Asking
<1>8. call[c].pc \in InFlight /\ call[c].pc # "queued"
  BY <1>1 DEF InFlight, Preparing, Executing, Closing
<1> QED BY <1>1, <1>3, <1>4, <1>5, <1>6, <1>7, <1>8, PlainStep

\* A short output stays in its row.
LEMMA KeepInlineStep ==
    ASSUME IInv, NEW c \in Calls, KeepInline(c)
    PROVE  IInv'
<1> DEFINE row == [call[c] EXCEPT !.pc = "stored"]
<1>1. /\ call[c] \in CallType /\ RowOK(call[c]) /\ call[c].pc = "outcome"
      /\ call' = [call EXCEPT ![c] = row]
  BY DEF IInv, TypeOK, KeepInline, At, Goto
<1>2. {"stored"} \subseteq Places
  BY DEF Places, InFlight, Preparing, Executing, Closing, Settled
<1>3. row \in CallType
  BY <1>1, <1>2 DEF CallType
<1>4. /\ row.tool = call[c].tool /\ row.outside = call[c].outside /\ row.run = call[c].run
      /\ row.round = call[c].round /\ row.prompt = call[c].prompt /\ row.effect = call[c].effect
  BY <1>1 DEF CallType
<1>5. RowOK(row) /\ row.pc \in {"stored"}
  BY <1>1 DEF CallType, RowOK, AskOK, RecordOK, EffectOK, Asking, Executing, Closing
<1>6. UNCHANGED <<rules, run, loop, approvals, canceller>> /\ outside' \in Nat
  BY DEF IInv, TypeOK, KeepInline
<1> HIDE DEF row
<1>7. row.pc \in (InFlight \ ({"queued", "acting"} \cup Asking)) \cup {"answered"}
  BY <1>5 DEF InFlight, Preparing, Executing, Closing, Asking
<1>8. call[c].pc \in InFlight /\ call[c].pc # "queued"
  BY <1>1 DEF InFlight, Preparing, Executing, Closing
<1> QED BY <1>1, <1>3, <1>4, <1>5, <1>6, <1>7, <1>8, PlainStep

\* An effect is recorded as committed or unknown.
LEMMA RecordOperationStep ==
    ASSUME IInv, NEW c \in Calls, RecordOperation(c)
    PROVE  IInv'
<1> DEFINE row == [call[c] EXCEPT !.op = StatusOf(c), !.side = SideEffectOf(c), !.pc = "recorded"]
<1>1. /\ call[c] \in CallType /\ RowOK(call[c]) /\ call[c].pc = "stored"
      /\ call' = [call EXCEPT ![c] = row]
  BY DEF IInv, TypeOK, RecordOperation, At
<1>2. {"recorded"} \subseteq Places
  BY DEF Places, InFlight, Preparing, Executing, Closing, Settled
<1>3. row \in CallType
  BY <1>1, <1>2, StoredAs DEF CallType
<1>4. /\ row.tool = call[c].tool /\ row.outside = call[c].outside /\ row.run = call[c].run
      /\ row.round = call[c].round /\ row.prompt = call[c].prompt /\ row.effect = call[c].effect
  BY <1>1 DEF CallType
<1>5. RowOK(row) /\ row.pc \in {"recorded"}
  BY <1>1 DEF CallType, RowOK, AskOK, RecordOK, EffectOK, Asking, Executing, Closing, SideEffectOf, StatusOf
<1>6. UNCHANGED <<rules, run, loop, approvals, canceller>> /\ outside' \in Nat
  BY DEF IInv, TypeOK, RecordOperation
<1> HIDE DEF row
<1>7. row.pc \in (InFlight \ ({"queued", "acting"} \cup Asking)) \cup {"answered"}
  BY <1>5 DEF InFlight, Preparing, Executing, Closing, Asking
<1>8. call[c].pc \in InFlight /\ call[c].pc # "queued"
  BY <1>1 DEF InFlight, Preparing, Executing, Closing
<1> QED BY <1>1, <1>3, <1>4, <1>5, <1>6, <1>7, <1>8, PlainStep

\* The part takes the outcome and the side effect of the operation.
LEMMA FinishPartStep ==
    ASSUME IInv, NEW c \in Calls, FinishPart(c)
    PROVE  IInv'
<1> DEFINE row == [call[c] EXCEPT !.part = StatusOf(c), !.partSide = call[c].side,
                      !.pc = "closed"]
<1>1. /\ call[c] \in CallType /\ RowOK(call[c]) /\ call[c].pc = "recorded"
      /\ call' = [call EXCEPT ![c] = row]
  BY DEF IInv, TypeOK, FinishPart, At
<1>2. {"closed"} \subseteq Places
  BY DEF Places, InFlight, Preparing, Executing, Closing, Settled
<1>3. row \in CallType
  BY <1>1, <1>2, StoredAs DEF CallType
<1>4. /\ row.tool = call[c].tool /\ row.outside = call[c].outside /\ row.run = call[c].run
      /\ row.round = call[c].round /\ row.prompt = call[c].prompt /\ row.effect = call[c].effect
  BY <1>1 DEF CallType
<1>5. RowOK(row) /\ row.pc \in {"closed"}
  BY <1>1 DEF CallType, RowOK, AskOK, RecordOK, EffectOK, Asking, Executing, Closing, StatusOf
<1>6. UNCHANGED <<rules, run, loop, approvals, canceller>> /\ outside' \in Nat
  BY DEF IInv, TypeOK, FinishPart
<1> HIDE DEF row
<1>7. row.pc \in (InFlight \ ({"queued", "acting"} \cup Asking)) \cup {"answered"}
  BY <1>5 DEF InFlight, Preparing, Executing, Closing, Asking
<1>8. call[c].pc \in InFlight /\ call[c].pc # "queued"
  BY <1>1 DEF InFlight, Preparing, Executing, Closing
<1> QED BY <1>1, <1>3, <1>4, <1>5, <1>6, <1>7, <1>8, PlainStep

\* The message is added.
LEMMA EmptyMessageStep ==
    ASSUME IInv, NEW c \in Calls, AddToolMessage(c), call[c].pc = "closed"
    PROVE  IInv'
<1> DEFINE row == [call[c] EXCEPT !.message = "empty", !.pc = "messaged"]
<1>1. /\ call[c] \in CallType /\ RowOK(call[c]) /\ call[c].pc = "closed"
      /\ call' = [call EXCEPT ![c] = row]
  BY DEF IInv, TypeOK, AddToolMessage, At
<1>2. {"messaged"} \subseteq Places
  BY DEF Places, InFlight, Preparing, Executing, Closing, Settled
<1>3. row \in CallType
  BY <1>1, <1>2 DEF CallType
<1>4. /\ row.tool = call[c].tool /\ row.outside = call[c].outside /\ row.run = call[c].run
      /\ row.round = call[c].round /\ row.prompt = call[c].prompt /\ row.effect = call[c].effect
  BY <1>1 DEF CallType
<1>5. RowOK(row) /\ row.pc \in {"messaged"}
  BY <1>1 DEF CallType, RowOK, AskOK, RecordOK, EffectOK, Asking, Executing, Closing
<1>6. UNCHANGED <<rules, run, loop, approvals, canceller>> /\ outside' \in Nat
  BY DEF IInv, TypeOK, AddToolMessage
<1> HIDE DEF row
<1>7. row.pc \in (InFlight \ ({"queued", "acting"} \cup Asking)) \cup {"answered"}
  BY <1>5 DEF InFlight, Preparing, Executing, Closing, Asking
<1>8. call[c].pc \in InFlight /\ call[c].pc # "queued"
  BY <1>1 DEF InFlight, Preparing, Executing, Closing
<1> QED BY <1>1, <1>3, <1>4, <1>5, <1>6, <1>7, <1>8, PlainStep

\* The message gets its text, and the call is answered.
LEMMA FullMessageStep ==
    ASSUME IInv, NEW c \in Calls, AddToolMessage(c), call[c].pc = "messaged"
    PROVE  IInv'
<1> DEFINE row == [call[c] EXCEPT !.message = "full", !.pc = "answered"]
<1>1. /\ call[c] \in CallType /\ RowOK(call[c]) /\ call[c].pc = "messaged"
      /\ call' = [call EXCEPT ![c] = row]
  BY DEF IInv, TypeOK, AddToolMessage, At
<1>2. {"answered"} \subseteq Places
  BY DEF Places, InFlight, Preparing, Executing, Closing, Settled
<1>3. row \in CallType
  BY <1>1, <1>2 DEF CallType
<1>4. /\ row.tool = call[c].tool /\ row.outside = call[c].outside /\ row.run = call[c].run
      /\ row.round = call[c].round /\ row.prompt = call[c].prompt /\ row.effect = call[c].effect
  BY <1>1 DEF CallType
<1>5. RowOK(row) /\ row.pc \in {"answered"}
  BY <1>1 DEF CallType, RowOK, AskOK, RecordOK, EffectOK, Asking, Executing, Closing
<1>6. UNCHANGED <<rules, run, loop, approvals, canceller>> /\ outside' \in Nat
  BY DEF IInv, TypeOK, AddToolMessage
<1> HIDE DEF row
<1>7. row.pc \in (InFlight \ ({"queued", "acting"} \cup Asking)) \cup {"answered"}
  BY <1>5 DEF InFlight, Preparing, Executing, Closing, Asking
<1>8. call[c].pc \in InFlight /\ call[c].pc # "queued"
  BY <1>1 DEF InFlight, Preparing, Executing, Closing
<1> QED BY <1>1, <1>3, <1>4, <1>5, <1>6, <1>7, <1>8, PlainStep

-----------------------------------------------------------------------------
(* Asking.                                                                 *)

\* An approval of the session comes from an earlier call, or one beside.
LEMMA ApprovedIsAllowed ==
    ASSUME IInv, NEW c \in Calls, call[c].pc \in Asking, NEW a \in approvals,
           call[c].prompt[a] = "none"
    PROVE  Allowed(c, a)
<1>1. PICK d \in Calls : call[d].prompt[a] = "always" /\ Contracts[call[d].tool].scope # "once"
  BY DEF IInv, ApprovalsOK
<1>2. call[d].pc \notin {"none", "queued"} /\ d # c
  BY <1>1 DEF IInv, RowOK, TypeOK
<1>3. call[c].pc \in InFlight /\ call[c].run # 0 /\ c \in Int /\ d \in Int
  BY DEF IInv, RowOK, InFlight, Executing, Asking, Calls
<1>4. CASE d < c
  BY <1>1, <1>4 DEF Allowed, Grantor
<1>5. CASE d > c
  <2>1. call[d].run = loop.run /\ call[d].round = loop.round
    BY <1>2, <1>3, <1>5 DEF IInv, OrderOK
  <2>2. call[c].run = loop.run /\ call[c].round = loop.round
    BY <1>3 DEF IInv, RoundOK
  <2>3. call[d].pc # "dropped"
    BY <1>3, <2>1, <2>2 DEF IInv, RoundOK, InFlight, Preparing, Executing, Closing
  <2>4. Beside(c, d)
    BY <1>2, <1>5, <2>1, <2>2, <2>3 DEF IInv, OrderOK, Asking
  <2> QED BY <1>1, <2>4 DEF Allowed, Grantor, Beside
<1> QED BY <1>2, <1>3, <1>4, <1>5

\* A step of a call that asks, up to the moment it acts or is refused.
LEMMA AskStep ==
    ASSUME IInv, NEW c \in Calls, call[c].pc \in Asking \cup {"ready"}, NEW row \in CallType,
           call' = [call EXCEPT ![c] = row],
           row.tool = call[c].tool, row.outside = call[c].outside,
           row.run = call[c].run, row.round = call[c].round, row.effect = call[c].effect,
           \A a \in Permissions :
               call[c].prompt[a] \in {"once", "always"} => row.prompt[a] = call[c].prompt[a],
           row.pc \in Asking \cup {"acting", "outcome"}, RowOK(row),
           UNCHANGED <<rules, loop, canceller, outside>>, run' \in [Runs -> RunType], RunsStay,
           \/ approvals' = approvals
           \/ \E b \in Permissions : /\ approvals' = approvals \cup {b}
                                     /\ row.prompt[b] = "always"
                                     /\ Contracts[row.tool].scope # "once",
           row.pc # "outcome" => \A a \in AskedFor(row.tool, row.outside) :
                   \/ Allowed(c, a) \/ row.prompt[a] \in {"once", "always"}
                   \/ row.pc \in Asking /\ a \in Rest(row.left)
    PROVE  IInv'
<1>1. TypeOK'
  BY DEF IInv, TypeOK
<1>2. Same(row, call[c])
  BY DEF Same
<1>3. ~row.effect
  BY DEF IInv, RowOK, EffectOK, Asking, Closing, TypeOK, CallType
<1>4. /\ row.pc \in (InFlight \ {"queued"}) \cup {"answered"}
      /\ call[c].pc \in InFlight /\ call[c].pc # "queued"
  BY DEF InFlight, Preparing, Executing, Closing, Asking
<1>5. row.effect \/ row.pc \in Asking \cup {"acting"} => row.pc # "outcome"
  BY <1>3 DEF Asking
<1> QED BY <1>1, <1>2, <1>3, <1>4, <1>5, RowStep

\* A step that changes no run.
LEMMA RunsUnchanged ==
    ASSUME IInv, run' = run
    PROVE  run' \in [Runs -> RunType] /\ RunsStay
BY DEF RunsStay, IInv, TypeOK, LoopOK, Runs

\* What a call that asks has left, and what is allowed already.
LEMMA AskedIs ==
    ASSUME IInv, NEW c \in Calls, call[c].pc \in Asking
    PROVE  /\ call[c] \in CallType /\ call[c].tool \in DOMAIN Contracts /\ call[c].tool # Outside
           /\ RowOK(call[c]) /\ call[c].left \in Suffixes(call[c].tool)
           /\ \A a \in AskedFor(call[c].tool, call[c].outside) :
                  Allowed(c, a) \/ a \in Rest(call[c].left)
<1>1. call[c] \in CallType /\ RowOK(call[c]) /\ call[c].tool # "missing"
  BY DEF IInv, TypeOK, RowOK, RecordOK, Asking, Executing
<1>2. call[c].tool \in DOMAIN Contracts
  BY <1>1 DEF CallType, Tools
<1> QED BY <1>1, <1>2 DEF IInv, ConsentOK, RowOK, AskOK, Contracts, Outside

\* A call starts with everything to ask.
LEMMA StartCallStep ==
    ASSUME IInv, NEW c \in Calls, StartCall(c)
    PROVE  IInv'
<1> DEFINE row == [call[c] EXCEPT !.pc = "asking", !.left = Asks(call[c].tool, call[c].outside)]
<1>1. /\ call[c] \in CallType /\ RowOK(call[c]) /\ call[c].pc = "ready"
      /\ call' = [call EXCEPT ![c] = row]
      /\ UNCHANGED <<rules, run, loop, approvals, canceller, outside>>
  BY DEF IInv, TypeOK, StartCall, At
<1>2. call[c].tool \in DOMAIN Contracts /\ call[c].outside \in BOOLEAN /\ call[c].tool # Outside
  BY <1>1 DEF RowOK, RecordOK, CallType, Tools, Executing, Contracts, Outside
<1>3. /\ row.left = Asks(call[c].tool, call[c].outside) /\ row.pc = "asking"
      /\ row.tool = call[c].tool /\ row.outside = call[c].outside /\ row.run = call[c].run
      /\ row.round = call[c].round /\ row.effect = call[c].effect /\ row.prompt = call[c].prompt
  BY <1>1 DEF CallType
<1>4. /\ row.left \in Suffixes(row.tool) /\ row.left \in Seq(Permissions)
      /\ Rest(row.left) = AskedFor(row.tool, row.outside)
  BY <1>2, <1>3, AsksAll, AskingOnce
<1>5. row \in CallType
  <2>1. "asking" \in Places
    BY DEF Places, InFlight, Executing
  <2> QED BY <1>1, <1>3, <1>4, <2>1 DEF CallType
<1>6. RowOK(row)
  <2>1. AskOK(row)
    BY <1>1, <1>3, <1>4 DEF AskOK, RowOK, AskedFor
  <2> QED BY <1>1, <2>1 DEF RowOK, RecordOK, EffectOK, CallType, Executing, Closing
<1> HIDE DEF row
<1>7. row.pc \in Asking
  BY <1>3 DEF Asking
<1> QED BY <1>1, <1>3, <1>4, <1>5, <1>6, <1>7, AskStep, RunsUnchanged

\* The rules or the approvals decide.
LEMMA AskIsDecidedStep ==
    ASSUME IInv, NEW c \in Calls, AskIsDecided(c)
    PROVE  IInv'
<1>1. /\ call[c].pc \in Asking /\ call[c].pc = "asking" /\ call[c].left # <<>>
      /\ UNCHANGED <<rules, run, loop, approvals, canceller, outside>>
  BY DEF AskIsDecided, At, Asking
<1>2. /\ call[c] \in CallType /\ call[c].tool # Outside /\ RowOK(call[c])
      /\ call[c].left \in Suffixes(call[c].tool)
      /\ \A a \in AskedFor(call[c].tool, call[c].outside) :
            Allowed(c, a) \/ a \in Rest(call[c].left)
  BY <1>1, AskedIs
<1>3. CASE Decision(Asked(c)) = "deny" /\ Outcome(c, "permission_denied")
  <2>1. call[c].future = "none"
    BY <1>1, <1>2 DEF RowOK
  <2>2. call' = [call EXCEPT ![c] = [call[c] EXCEPT !.pc = "outcome",
                    !.outcome = "permission_denied", !.future = "none"]]
    <3>1. [call[c] EXCEPT !.pc = "outcome", !.outcome = "permission_denied"]
            = [call[c] EXCEPT !.pc = "outcome", !.outcome = "permission_denied", !.future = "none"]
      BY <1>2, <2>1 DEF CallType
    <3>2. call' = [call EXCEPT ![c] = [call[c] EXCEPT !.pc = "outcome",
                                                      !.outcome = "permission_denied"]]
      BY <1>3 DEF Outcome, IInv, TypeOK
    <3> QED BY <3>1, <3>2
  <2>3. outside' \in Nat
    BY <1>1 DEF IInv, TypeOK
  <2> QED BY <1>1, <2>2, <2>3, FailsStep
<1>4. CASE Decision(Asked(c)) = "allow" /\ call' = [call EXCEPT ![c].left = Tail(@)]
  <2> DEFINE row == [call[c] EXCEPT !.left = Tail(call[c].left)]
  <2>1. call' = [call EXCEPT ![c] = row]
    BY <1>4 DEF IInv, TypeOK
  <2>2. /\ row.left = Tail(call[c].left) /\ row.pc = "asking"
        /\ row.tool = call[c].tool /\ row.outside = call[c].outside /\ row.run = call[c].run
        /\ row.round = call[c].round /\ row.effect = call[c].effect /\ row.prompt = call[c].prompt
    BY <1>1, <1>2 DEF CallType
  <2>3. /\ row.left \in Suffixes(row.tool) /\ row.left \in Seq(Permissions)
        /\ Rest(row.left) = Rest(call[c].left) \ {Asked(c)}
        /\ Asked(c) \in Rest(call[c].left) /\ Asked(c) \in Permissions
    <3>1. /\ call[c].left \in Suffixes(row.tool) /\ row.tool # Outside /\ call[c].left # <<>>
          /\ row.left = Tail(call[c].left)
      BY <1>1, <1>2, <2>2
    <3>2. /\ Head(call[c].left) \in Permissions /\ Head(call[c].left) \in Rest(call[c].left)
          /\ row.left \in Suffixes(row.tool)
          /\ Rest(row.left) = Rest(call[c].left) \ {Head(call[c].left)}
      BY <3>1, AskingOnce
    <3>3. row.left \in Seq(Permissions)
      BY <3>1, <3>2, AskingOnce
    <3> QED BY <3>2, <3>3 DEF Asked
  <2>4. Allowed(c, Asked(c))
    <3>1. CASE Asked(c) \in approvals
      BY <1>1, <1>2, <2>3, <3>1, ApprovedIsAllowed DEF RowOK, AskOK
    <3>2. CASE Asked(c) \notin approvals
      BY <1>4, <3>2 DEF Decision, Allowed
    <3> QED BY <3>1, <3>2
  <2>5. row \in CallType
    BY <1>2, <2>3 DEF CallType
  <2>6. RowOK(row)
    <3>1. AskOK(row)
      BY <1>1, <1>2, <2>2, <2>3 DEF AskOK, RowOK
    <3> QED BY <1>2, <3>1 DEF RowOK, RecordOK, EffectOK, CallType
  <2> HIDE DEF row
  <2> QED BY <1>1, <1>2, <2>1, <2>2, <2>3, <2>4, <2>5, <2>6, AskStep, RunsUnchanged
<1> QED BY <1>3, <1>4 DEF AskIsDecided

\* The prompt is stored.
LEMMA AskPromptsStep ==
    ASSUME IInv, NEW c \in Calls, AskPrompts(c)
    PROVE  IInv'
<1> DEFINE row == [call[c] EXCEPT !.prompt = [call[c].prompt EXCEPT ![Asked(c)] = "pending"],
                                  !.pc = "prompted"]
<1>1. /\ call[c].pc \in Asking /\ call[c].pc = "asking" /\ call[c].left # <<>>
      /\ UNCHANGED <<rules, run, loop, approvals, canceller, outside>>
  BY DEF AskPrompts, At, Asking
<1>2. /\ call[c] \in CallType /\ call[c].tool # Outside /\ RowOK(call[c])
      /\ call[c].left \in Suffixes(call[c].tool)
      /\ \A a \in AskedFor(call[c].tool, call[c].outside) :
            Allowed(c, a) \/ a \in Rest(call[c].left)
  BY <1>1, AskedIs
<1>3. /\ Asked(c) = Head(call[c].left) /\ Asked(c) \in Rest(call[c].left)
      /\ Asked(c) \in Permissions
  BY <1>1, <1>2, AskingOnce DEF Asked
<1>4. /\ row.left = call[c].left /\ row.pc = "prompted"
      /\ row.tool = call[c].tool /\ row.outside = call[c].outside /\ row.run = call[c].run
      /\ row.round = call[c].round /\ row.effect = call[c].effect
      /\ row.prompt = [call[c].prompt EXCEPT ![Asked(c)] = "pending"]
  BY <1>2 DEF CallType
<1>5. call' = [call EXCEPT ![c] = row]
  BY DEF AskPrompts, IInv, TypeOK
<1>6. /\ row.prompt[Asked(c)] = "pending" /\ call[c].prompt[Asked(c)] = "none"
      /\ \A a \in Permissions \ {Asked(c)} : row.prompt[a] = call[c].prompt[a]
  BY <1>1, <1>2, <1>3, <1>4 DEF RowOK, AskOK, CallType
<1>7. row \in CallType
  <2>1. "prompted" \in Places /\ "pending" \in Prompts
    BY DEF Places, InFlight, Executing, Prompts
  <2> QED BY <1>2, <1>3, <1>4, <2>1 DEF CallType
<1>8. RowOK(row)
  <2>1. Rest(call[c].left) \subseteq Permissions
    BY <1>2 DEF Rest, CallType
  <2>2. AskOK(row)
    BY <1>1, <1>2, <1>3, <1>4, <1>6, <2>1 DEF AskOK, RowOK
  <2> QED BY <1>1, <1>2, <2>2 DEF RowOK, RecordOK, EffectOK, CallType, Executing, Closing
<1> HIDE DEF row
<1>9. row.pc \in Asking
  BY <1>4 DEF Asking
<1>10. \A a \in AskedFor(row.tool, row.outside) : Allowed(c, a) \/ a \in Rest(row.left)
  BY <1>2, <1>4
<1>11. \A a \in Permissions :
           call[c].prompt[a] \in {"once", "always"} => row.prompt[a] = call[c].prompt[a]
  BY <1>6
<1> QED BY <1>1, <1>4, <1>5, <1>7, <1>8, <1>9, <1>10, <1>11, AskStep, RunsUnchanged

\* What a call that waits for an answer asks.
LEMMA Prompted ==
    ASSUME IInv, NEW c \in Calls, call[c].pc \in Asking \ {"asking"}
    PROVE  /\ call[c] \in CallType /\ RowOK(call[c]) /\ call[c].tool # Outside
           /\ call[c].left \in Suffixes(call[c].tool) /\ call[c].left # <<>>
           /\ Asked(c) = Head(call[c].left) /\ Asked(c) \in Permissions
           /\ Tail(call[c].left) \in Suffixes(call[c].tool)
           /\ Tail(call[c].left) \in Seq(Permissions)
           /\ Rest(Tail(call[c].left)) = Rest(call[c].left) \ {Asked(c)}
           /\ Rest(call[c].left) \subseteq Permissions
           /\ \A a \in AskedFor(call[c].tool, call[c].outside) :
                  Allowed(c, a) \/ a \in Rest(call[c].left)
<1>1. /\ call[c] \in CallType /\ call[c].tool # Outside /\ RowOK(call[c])
      /\ call[c].left \in Suffixes(call[c].tool)
      /\ \A a \in AskedFor(call[c].tool, call[c].outside) :
            Allowed(c, a) \/ a \in Rest(call[c].left)
  BY AskedIs
<1>2. call[c].left # <<>>
  BY <1>1 DEF RowOK, AskOK
<1>3. Rest(call[c].left) \subseteq Permissions
  BY <1>1 DEF Rest, CallType
<1>4. Tail(call[c].left) \in Suffixes(call[c].tool)
  BY <1>1, <1>2, AskingOnce
<1> QED BY <1>1, <1>2, <1>3, <1>4, AskingOnce DEF Asked

\* A row of a call that asks, with something else asked or answered.
LEMMA AskRow ==
    ASSUME NEW old \in CallType, RowOK(old), old.pc \in Asking, NEW row,
           row.pc \in Asking \cup {"acting", "outcome"}, AskOK(row),
           row.future # "none" => row.pc \in {"registered", "waiting", "replied"},
           row.tool = old.tool, row.run = old.run, row.effect = old.effect, row.part = old.part,
           row.side = old.side, row.file = old.file, row.artifact = old.artifact,
           row.pc = "outcome" \/ row.outcome = old.outcome
    PROVE  RowOK(row)
<1>1. /\ old.pc \in Executing /\ old.pc # "none" /\ ~old.effect
  BY DEF Asking, Executing, Closing, RowOK, EffectOK
<1>2. /\ row.pc \notin {"none", "queued", "added", "started", "ready", "recorded", "closed",
                        "messaged", "answered", "filed"}
      /\ row.pc \in {"started"} \cup Executing => row.pc \in Executing /\ row.pc # "outcome"
  BY DEF Asking, Executing
<1>3. RecordOK(row)
  BY <1>1, <1>2 DEF RecordOK, RowOK
<1> QED BY <1>1, <1>2, <1>3 DEF RowOK, EffectOK

\* The future of a prompt, or the refusal that stands for nobody to ask.
LEMMA RegisterStep ==
    ASSUME IInv, NEW c \in Calls, Register(c)
    PROVE  IInv'
<1>1. /\ call[c].pc = "prompted" /\ call[c].pc \in Asking \ {"asking"}
      /\ UNCHANGED <<rules, run, loop, approvals, canceller, outside>>
  BY DEF Register, At, Asking
<1>2. {"registered", "outcome"} \subseteq Places /\ "open" \in Futures /\ "rejected" \in Prompts
      /\ "permission_denied" \in Outcomes
  BY DEF Places, InFlight, Executing, Closing, Futures, Prompts, Replies, Outcomes
<1>3. CASE run[loop.run].source = "channel"
  <2> DEFINE row == [call[c] EXCEPT !.prompt = [call[c].prompt EXCEPT ![Asked(c)] = "rejected"],
                                    !.pc = "outcome", !.outcome = "permission_denied"]
  <2>1. call' = [call EXCEPT ![c] = row]
    BY <1>3 DEF Register, IInv, TypeOK
  <2>2. /\ row.pc = "outcome" /\ row.tool = call[c].tool /\ row.outside = call[c].outside
        /\ row.run = call[c].run /\ row.round = call[c].round /\ row.effect = call[c].effect
        /\ row.prompt = [call[c].prompt EXCEPT ![Asked(c)] = "rejected"]
        /\ row.future = call[c].future /\ row.part = call[c].part /\ row.side = call[c].side
        /\ row.file = call[c].file /\ row.artifact = call[c].artifact /\ row.outcome = "permission_denied"
    BY <1>1, Prompted DEF CallType
  <2>3. row \in CallType
    <3>1. call[c] \in CallType /\ Asked(c) \in Permissions
      BY <1>1, Prompted
    <3> QED BY <1>2, <3>1 DEF CallType
  <2> HIDE DEF row
  <2>4. RowOK(row)
    <3>1. AskOK(row)
      BY <2>2 DEF AskOK, Asking
    <3>2. call[c].future = "none"
      BY <1>1, Prompted DEF RowOK
    <3> QED BY <1>1, <2>2, <3>1, <3>2, Prompted, AskRow
  <2>5. \A a \in Permissions :
            call[c].prompt[a] \in {"once", "always"} => row.prompt[a] = call[c].prompt[a]
    BY <1>1, <2>2, Prompted DEF RowOK, AskOK, CallType
  <2> QED BY <1>1, <2>1, <2>2, <2>3, <2>4, <2>5, AskStep, RunsUnchanged
<1>4. CASE run[loop.run].source # "channel"
  <2> DEFINE row == [call[c] EXCEPT !.future = "open", !.pc = "registered"]
  <2>1. call' = [call EXCEPT ![c] = row]
    BY <1>4 DEF Register, IInv, TypeOK
  <2>2. /\ row.pc = "registered" /\ row.tool = call[c].tool /\ row.outside = call[c].outside
        /\ row.run = call[c].run /\ row.round = call[c].round /\ row.effect = call[c].effect
        /\ row.prompt = call[c].prompt /\ row.left = call[c].left /\ row.future = "open"
        /\ row.part = call[c].part /\ row.side = call[c].side
        /\ row.file = call[c].file /\ row.artifact = call[c].artifact /\ row.outcome = call[c].outcome
    BY <1>1, Prompted DEF CallType
  <2>3. row \in CallType
    <3>1. call[c] \in CallType /\ Asked(c) \in Permissions
      BY <1>1, Prompted
    <3> QED BY <1>2, <3>1 DEF CallType
  <2> HIDE DEF row
  <2>4. RowOK(row)
    <3>1. AskOK(row)
      BY <1>1, <2>2, Prompted DEF RowOK, AskOK
    <3> QED BY <1>1, <2>2, <3>1, Prompted, AskRow DEF Asking
  <2>5. row.pc \in Asking
    BY <2>2 DEF Asking
  <2> QED BY <1>1, <2>1, <2>2, <2>3, <2>4, <2>5, Prompted, AskStep, RunsUnchanged
<1> QED BY <1>3, <1>4

\* The run waits for the answer, and goes on with it.
LEMMA WaitSteps ==
    ASSUME IInv, NEW c \in Calls, SetWaiting(c) \/ Resume(c)
    PROVE  IInv'
<1> DEFINE row == [call[c] EXCEPT !.pc = call'[c].pc]
<1>1. /\ call[c].pc \in {"registered", "waiting"} /\ loop.pc = "batch"
      /\ UNCHANGED <<rules, loop, approvals, canceller, outside>>
      /\ call[c].pc \in Asking \ {"asking"}
  BY DEF SetWaiting, Resume, At, Asking
<1>2. /\ call' = [call EXCEPT ![c] = row]
      /\ \/ call[c].pc = "registered" /\ call'[c].pc = "waiting"
         \/ call[c].pc = "waiting" /\ call'[c].pc = "replied" /\ call[c].future # "open"
  BY DEF SetWaiting, Resume, At, Goto, IInv, TypeOK, CallType
<1>3. loop.run \in Runs /\ run \in [Runs -> RunType]
  BY <1>1 DEF IInv, LoopOK, TypeOK, LoopType
<1>4. /\ \A r \in Runs \ {loop.run} : run'[r] = run[r]
      /\ run'[loop.run] = [run[loop.run] EXCEPT !.status = run'[loop.run].status]
      /\ run'[loop.run].status \in {run[loop.run].status, "running", "waiting_approval"}
      /\ run' \in [Runs -> RunType]
  BY <1>3 DEF SetWaiting, Resume, RunType
<1>5. RunsStay
  BY <1>1, <1>3, <1>4 DEF IInv, LoopOK, RunsStay, RunType
<1>6. /\ row.pc = call'[c].pc /\ row.tool = call[c].tool /\ row.outside = call[c].outside
      /\ row.run = call[c].run /\ row.round = call[c].round /\ row.effect = call[c].effect
      /\ row.prompt = call[c].prompt /\ row.left = call[c].left /\ row.future = call[c].future
      /\ row.part = call[c].part /\ row.side = call[c].side
      /\ row.file = call[c].file /\ row.artifact = call[c].artifact /\ row.outcome = call[c].outcome
  BY <1>1, Prompted DEF CallType
<1>7. row \in CallType
  <2>1. {"waiting", "replied"} \subseteq Places
    BY DEF Places, InFlight, Executing
  <2> QED BY <1>1, <1>2, <2>1, Prompted DEF CallType
<1>8. row.pc \in {"waiting", "replied"} /\ row.pc \in Asking
  BY <1>2, <1>6 DEF Asking
<1>9. RowOK(row)
  <2>1. /\ row.pc = "waiting" => row.future # "none"
        /\ row.pc = "replied" => row.future \in Replies
    BY <1>1, <1>2, <1>6, Prompted DEF RowOK, AskOK, CallType, Futures
  <2> HIDE DEF row
  <2>2. AskOK(row)
    BY <1>1, <1>6, <1>8, <2>1, Prompted DEF RowOK, AskOK
  <2> QED BY <1>1, <1>6, <1>8, <2>2, Prompted, AskRow
<1> HIDE DEF row
<1> QED BY <1>1, <1>2, <1>4, <1>5, <1>6, <1>7, <1>8, <1>9, Prompted, AskStep

\* The reply of the user.
LEMMA ReplyStep ==
    ASSUME IInv, NEW c \in Calls, NEW reply \in Replies, Reply(c, reply)
    PROVE  IInv'
<1> DEFINE row == [call[c] EXCEPT !.future = reply]
<1>1. /\ call[c].future = "open" /\ UNCHANGED <<rules, run, loop, approvals, canceller, outside>>
      /\ call' = [call EXCEPT ![c] = row]
  BY DEF Reply, IInv, TypeOK
<1>2. call[c].pc \in {"registered", "waiting"}
  BY <1>1 DEF IInv, RowOK, AskOK, Asking, Replies
<1>3. call[c].pc \in Asking \ {"asking"}
  BY <1>2 DEF Asking
<1>4. /\ row.pc = call[c].pc /\ row.tool = call[c].tool /\ row.outside = call[c].outside
      /\ row.run = call[c].run /\ row.round = call[c].round /\ row.effect = call[c].effect
      /\ row.prompt = call[c].prompt /\ row.left = call[c].left /\ row.future = reply
      /\ row.part = call[c].part /\ row.side = call[c].side
      /\ row.file = call[c].file /\ row.artifact = call[c].artifact /\ row.outcome = call[c].outcome
  BY <1>3, Prompted DEF CallType
<1>5. row \in CallType
  <2>1. reply \in Futures
    BY DEF Futures
  <2>2. call[c] \in CallType
    BY <1>3, Prompted
  <2> QED BY <2>1, <2>2 DEF CallType
<1> HIDE DEF row
<1>6. RowOK(row)
  <2>1. AskOK(row)
    BY <1>2, <1>3, <1>4, Prompted DEF RowOK, AskOK, Replies
  <2> QED BY <1>2, <1>3, <1>4, <2>1, Prompted, AskRow
<1> QED BY <1>1, <1>3, <1>4, <1>5, <1>6, Prompted, AskStep, RunsUnchanged

\* What the reply decides.
LEMMA ResolveStep ==
    ASSUME IInv, NEW c \in Calls, Resolve(c)
    PROVE  IInv'
<1> DEFINE reply == call[c].future
           place == IF reply = "rejected" THEN "outcome"
                    ELSE IF reply = "once" THEN "asking" ELSE "granting"
           code  == IF reply = "rejected" THEN "permission_denied" ELSE call[c].outcome
           rest  == IF reply = "once" THEN Tail(call[c].left) ELSE call[c].left
           row   == [call[c] EXCEPT !.prompt = [call[c].prompt EXCEPT ![Asked(c)] = reply],
                                    !.future = "none", !.pc = place, !.outcome = code, !.left = rest]
<1>1. /\ call[c].pc = "replied" /\ call[c].pc \in Asking \ {"asking"}
      /\ UNCHANGED <<rules, run, loop, approvals, canceller, outside>>
  BY DEF Resolve, At, Asking
<1>2. reply \in Replies
  BY <1>1, Prompted DEF RowOK, AskOK
<1>3. call' = [call EXCEPT ![c] = row]
  BY <1>2 DEF Resolve, IInv, TypeOK, Replies
<1>4. /\ row.pc = place /\ row.tool = call[c].tool /\ row.outside = call[c].outside
      /\ row.run = call[c].run /\ row.round = call[c].round /\ row.effect = call[c].effect
      /\ row.prompt = [call[c].prompt EXCEPT ![Asked(c)] = reply] /\ row.left = rest
      /\ row.future = "none" /\ row.part = call[c].part /\ row.side = call[c].side
      /\ row.file = call[c].file /\ row.artifact = call[c].artifact /\ row.outcome = code
  BY <1>1, Prompted DEF CallType
<1>5. /\ row.prompt[Asked(c)] = reply
      /\ \A a \in Permissions \ {Asked(c)} : row.prompt[a] = call[c].prompt[a]
  BY <1>1, <1>4, Prompted DEF CallType
<1>6. row \in CallType
  <2>1. place \in Places /\ reply \in Prompts /\ "none" \in Futures /\ code \in Outcomes
        /\ rest \in Seq(Permissions)
    BY <1>1, <1>2, Prompted
      DEF Places, InFlight, Executing, Closing, Prompts, Futures, Outcomes, CallType
  <2>2. call[c] \in CallType /\ Asked(c) \in Permissions
    BY <1>1, Prompted
  <2> HIDE DEF place, reply, code, rest
  <2> QED BY <2>1, <2>2 DEF CallType
<1> HIDE DEF row
<1>7. row.pc \in {"outcome", "asking", "granting"}
  BY <1>4
<1>8. AskOK(row)
  <2>1. CASE reply = "rejected"
    BY <1>4, <2>1 DEF AskOK, Asking
  <2>2. CASE reply = "once"
    <3>1. \A a \in Rest(row.left) : row.prompt[a] = "none"
      BY <1>1, <1>4, <1>5, <2>2, Prompted DEF RowOK, AskOK
    <3> QED BY <1>1, <1>4, <2>2, <3>1, Prompted DEF AskOK
  <2>3. CASE reply = "always"
    <3>1. /\ \A a \in Rest(row.left) \ {Asked(c)} : row.prompt[a] = "none"
          /\ row.prompt[Asked(c)] = "always"
      BY <1>1, <1>4, <1>5, <2>3, Prompted DEF RowOK, AskOK
    <3>2. row.left = call[c].left /\ row.pc = "granting" /\ row.tool = call[c].tool
      BY <1>4, <2>3
    <3>3. /\ row.left \in Suffixes(row.tool) /\ row.left # <<>> /\ Asked(c) = Head(row.left)
      BY <1>1, <3>2, Prompted
    <3> QED BY <3>1, <3>2, <3>3 DEF AskOK
  <2> QED BY <1>2, <2>1, <2>2, <2>3 DEF Replies
<1>9. RowOK(row)
  <2>1. row.pc \in Asking \cup {"acting", "outcome"}
    BY <1>7 DEF Asking
  <2> QED BY <1>1, <1>4, <1>8, <2>1, Prompted, AskRow
<1>10. \A a \in Permissions :
          call[c].prompt[a] \in {"once", "always"} => row.prompt[a] = call[c].prompt[a]
  BY <1>1, <1>5, Prompted DEF RowOK, AskOK
<1>11. row.pc # "outcome" =>
          /\ row.pc \in Asking /\ reply \in {"once", "always"}
          /\ \A a \in Rest(call[c].left) : a \in Rest(row.left) \/ row.prompt[a] \in {"once", "always"}
  BY <1>1, <1>2, <1>4, <1>5, Prompted DEF Asking, Replies
<1>12. row.pc \in Asking \cup {"outcome"}
  BY <1>7 DEF Asking
<1> HIDE DEF place, reply, rest, code
<1> QED BY <1>1, <1>3, <1>4, <1>6, <1>9, <1>10, <1>11, <1>12, Prompted, AskStep, RunsUnchanged

\* The "always" is remembered, unless the tool is to be approved once.
LEMMA AddApprovalsStep ==
    ASSUME IInv, NEW c \in Calls, AddApprovals(c)
    PROVE  IInv'
<1> DEFINE row == [call[c] EXCEPT !.pc = "asking", !.left = Tail(call[c].left)]
<1>1. /\ call[c].pc = "granting" /\ call[c].pc \in Asking \ {"asking"}
      /\ UNCHANGED <<rules, run, loop, canceller, outside>> /\ approvals' = approvals \cup Grants(c)
      /\ call' = [call EXCEPT ![c] = row]
  BY DEF AddApprovals, At, Asking, IInv, TypeOK
<1>2. /\ row.pc = "asking" /\ row.tool = call[c].tool /\ row.outside = call[c].outside
      /\ row.run = call[c].run /\ row.round = call[c].round /\ row.effect = call[c].effect
      /\ row.prompt = call[c].prompt /\ row.left = Tail(call[c].left) /\ row.future = call[c].future
      /\ row.part = call[c].part /\ row.side = call[c].side
      /\ row.file = call[c].file /\ row.artifact = call[c].artifact /\ row.outcome = call[c].outcome
  BY <1>1, Prompted DEF CallType
<1>3. call[c].prompt[Asked(c)] = "always"
  BY <1>1, Prompted DEF RowOK, AskOK
<1>4. \/ approvals' = approvals
      \/ \E b \in Permissions : /\ approvals' = approvals \cup {b} /\ row.prompt[b] = "always"
                               /\ Contracts[row.tool].scope # "once"
  <2>1. Asked(c) \in Permissions
    BY <1>1, Prompted
  <2> QED BY <1>1, <1>2, <1>3, <2>1 DEF Grants
<1>5. row \in CallType
  <2>1. "asking" \in Places
    BY DEF Places, InFlight, Executing
  <2>2. call[c] \in CallType /\ Tail(call[c].left) \in Seq(Permissions)
    BY <1>1, Prompted
  <2> QED BY <2>1, <2>2 DEF CallType
<1> HIDE DEF row
<1>6. row.pc \in Asking
  BY <1>2 DEF Asking
<1>7. RowOK(row)
  <2>1. AskOK(row)
    <3>1. AskOK(call[c]) /\ Rest(row.left) = Rest(call[c].left) \ {Head(call[c].left)}
          /\ row.left \in Suffixes(row.tool)
      BY <1>1, <1>2, Prompted DEF RowOK
    <3> QED BY <1>1, <1>2, <3>1 DEF AskOK
  <2>2. call[c].future = "none"
    BY <1>1, Prompted DEF RowOK
  <2> QED BY <1>1, <1>2, <1>6, <2>1, <2>2, Prompted, AskRow
<1>8. \A a \in AskedFor(row.tool, row.outside) :
          Allowed(c, a) \/ row.prompt[a] \in {"once", "always"} \/ a \in Rest(row.left)
  BY <1>1, <1>2, <1>3, Prompted
<1> QED BY <1>1, <1>2, <1>4, <1>5, <1>6, <1>7, <1>8, AskStep, RunsUnchanged

\* With nothing left to ask, the tool goes to work.
LEMMA ActStep ==
    ASSUME IInv, NEW c \in Calls, Act(c)
    PROVE  IInv'
<1>1. UNCHANGED <<rules, run, loop, approvals, canceller, outside>>
  BY DEF Act
<1>2. CASE call[c].pc = "asking"
  <2> DEFINE row == [call[c] EXCEPT !.pc = "acting"]
  <2>1. /\ call[c].left = <<>> /\ call' = [call EXCEPT ![c] = row] /\ call[c].pc \in Asking
    BY <1>2 DEF Act, At, Goto, Asking, IInv, TypeOK
  <2>2. /\ call[c] \in CallType /\ RowOK(call[c])
        /\ \A a \in AskedFor(call[c].tool, call[c].outside) : Allowed(c, a)
    BY <2>1, AskedIs, AskingOnce
  <2>3. /\ row.pc = "acting" /\ row.tool = call[c].tool /\ row.outside = call[c].outside
        /\ row.run = call[c].run /\ row.round = call[c].round /\ row.effect = call[c].effect
        /\ row.prompt = call[c].prompt /\ row.future = call[c].future
        /\ row.part = call[c].part /\ row.side = call[c].side
        /\ row.file = call[c].file /\ row.artifact = call[c].artifact /\ row.outcome = call[c].outcome
    BY <2>2 DEF CallType
  <2>4. row \in CallType
    <3>1. "acting" \in Places
      BY DEF Places, InFlight, Executing
    <3> QED BY <2>2, <3>1 DEF CallType
  <2> HIDE DEF row
  <2>5. RowOK(row)
    <3>1. AskOK(row)
      BY <2>3 DEF AskOK, Asking
    <3>2. call[c].future = "none"
      BY <1>2, <2>2 DEF RowOK
    <3> QED BY <2>1, <2>2, <2>3, <3>1, <3>2, AskRow
  <2> QED BY <1>1, <2>1, <2>2, <2>3, <2>4, <2>5, AskStep, RunsUnchanged
<1>3. CASE call[c].pc # "asking"
  <2> DEFINE row == [call[c] EXCEPT !.effect = TRUE]
  <2>1. /\ call[c].pc = "acting" /\ Contracts[call[c].tool].side
        /\ call' = [call EXCEPT ![c] = row]
    BY <1>3 DEF Act, At, IInv, TypeOK
  <2>2. /\ call[c] \in CallType /\ RowOK(call[c])
        /\ \A a \in AskedFor(call[c].tool, call[c].outside) : Allowed(c, a)
    BY <2>1 DEF IInv, TypeOK, ConsentOK
  <2>3. /\ row.pc = "acting" /\ row.tool = call[c].tool /\ row.outside = call[c].outside
        /\ row.run = call[c].run /\ row.round = call[c].round /\ row.prompt = call[c].prompt
        /\ row.future = call[c].future /\ row.part = call[c].part /\ row.side = call[c].side
        /\ row.file = call[c].file /\ row.artifact = call[c].artifact /\ row.outcome = call[c].outcome
    BY <2>1, <2>2 DEF CallType
  <2>4. row \in CallType
    BY <2>2 DEF CallType
  <2> HIDE DEF row
  <2>5. RowOK(row)
    <3>1. AskOK(row)
      BY <2>3 DEF AskOK, Asking
    <3>2. RecordOK(call[c]) /\ call[c].pc \in Executing
      BY <2>1, <2>2 DEF RowOK, Executing
    <3>3. RecordOK(row)
      BY <2>1, <2>3, <3>2 DEF RecordOK
    <3>4. EffectOK(row)
      BY <2>1, <2>3, <3>2 DEF RecordOK, EffectOK
    <3> QED BY <2>1, <2>2, <2>3, <3>1, <3>3, <3>4 DEF RowOK
  <2>6. TypeOK'
    BY <1>1, <2>1, <2>4 DEF IInv, TypeOK
  <2>7. Same(row, call[c])
    BY <2>3 DEF Same
  <2>8. /\ row.pc \in (InFlight \ {"queued"}) \cup {"answered"}
        /\ call[c].pc \in InFlight /\ call[c].pc # "queued"
    BY <2>1, <2>3 DEF InFlight, Executing
  <2> QED BY <1>1, <2>1, <2>2, <2>3, <2>4, <2>5, <2>6, <2>7, <2>8, RowStep, RunsUnchanged
<1> QED BY <1>2, <1>3

\* A tool that asks fails.
LEMMA AskingReturnsStep ==
    ASSUME IInv, NEW c \in Calls, Returns(c), call[c].pc = "asking"
    PROVE  IInv'
<1>1. /\ call[c].pc \in Asking /\ UNCHANGED <<rules, run, loop, approvals, canceller, outside>>
      /\ Outcome(c, "tool_execution_failed")
  BY DEF Returns, At, Asking
<1>2. call[c] \in CallType /\ call[c].future = "none"
  BY DEF IInv, TypeOK, RowOK
<1>3. [call[c] EXCEPT !.pc = "outcome", !.outcome = "tool_execution_failed"]
        = [call[c] EXCEPT !.pc = "outcome", !.outcome = "tool_execution_failed", !.future = "none"]
  BY <1>2 DEF CallType
<1>4. call' = [call EXCEPT ![c] = [call[c] EXCEPT !.pc = "outcome",
                                                  !.outcome = "tool_execution_failed"]]
  BY <1>1 DEF Outcome, IInv, TypeOK
<1>5. outside' \in Nat
  BY <1>1 DEF IInv, TypeOK
<1> QED BY <1>1, <1>3, <1>4, <1>5, FailsStep

\* A transaction of an ask fails.
LEMMA AskFailsStep ==
    ASSUME IInv, NEW c \in Calls, AskFails(c)
    PROVE  IInv'
<1>1. /\ call[c].pc \in Asking /\ UNCHANGED <<rules, run, loop, approvals, canceller>>
      /\ outside' \in Nat
  BY DEF AskFails, At, Asking, Event, IInv, TypeOK
<1>2. call' = [call EXCEPT ![c] = [call[c] EXCEPT !.pc = "outcome",
                  !.outcome = "tool_execution_failed", !.future = "none"]]
  BY DEF AskFails, IInv, TypeOK
<1> QED BY <1>1, <1>2, FailsStep

\* A step of a call that leaves its run going.
LEMMA OneCallStep ==
    ASSUME IInv, NEW c \in Calls, CallStep(c), ~BatchRaises(c), ~StoreFails(c)
    PROVE  IInv'
<1>1. CASE NotFound(c)
  <2>1. PICK code \in {"tool_not_found", "invalid_tool_arguments"} : Outcome(c, code)
    BY <1>1 DEF NotFound
  <2> QED BY <1>1, <2>1, NotFoundStep
<1>2. CASE Returns(c)
  <2>1. CASE call[c].pc = "asking"
    BY <1>2, <2>1, AskingReturnsStep
  <2>2. CASE call[c].pc # "asking"
    <3>1. call[c].pc = "acting"
      BY <1>2, <2>2 DEF Returns, At
    <3>2. PICK code \in {"completed", "tool_execution_failed"} : Outcome(c, code)
      BY <1>2, <2>2 DEF Returns, At
    <3> QED BY <1>2, <3>1, <3>2, ActingReturnsStep
  <2> QED BY <2>1, <2>2
<1>3. CASE AddToolMessage(c)
  <2>1. call[c].pc \in {"closed", "messaged"}
    BY <1>3 DEF AddToolMessage, At
  <2> QED BY <1>3, <2>1, EmptyMessageStep, FullMessageStep
<1>4. CASE SetWaiting(c) \/ Resume(c)
  BY <1>4, WaitSteps
<1>5. CASE \/ AddPart(c) \/ MarkRunning(c) \/ StoreOperation(c) \/ StartCall(c) \/ AskIsDecided(c)
           \/ AskPrompts(c) \/ Register(c) \/ Resolve(c) \/ AddApprovals(c) \/ Act(c)
  BY <1>5, AddPartStep, MarkRunningStep, StoreOperationStep, StartCallStep, AskIsDecidedStep,
     AskPromptsStep, RegisterStep, ResolveStep, AddApprovalsStep, ActStep
<1>6. CASE \/ AskFails(c) \/ CallRaises(c) \/ Offload(c) \/ AddArtifact(c) \/ KeepInline(c)
           \/ RecordOperation(c) \/ FinishPart(c)
  BY <1>6, AskFailsStep, CallRaisesStep, OffloadStep, AddArtifactStep, KeepInlineStep,
     RecordOperationStep, FinishPartStep
<1> QED BY <1>1, <1>2, <1>3, <1>4, <1>5, <1>6 DEF CallStep

-----------------------------------------------------------------------------
(* Steps that change several calls, or none.                               *)

\* Nothing is in flight outside a batch.
LEMMA NothingInFlight ==
    ASSUME IInv, loop.pc # "batch", NEW c \in Calls
    PROVE  call[c].pc \in Settled
BY DEF IInv, RoundOK, TypeOK, CallType, Places

\* What every step keeps of the consent on record.
LEMMA ConsentStays ==
    ASSUME IInv, rules' = rules, NEW c \in Calls, call[c].pc # "none", call'[c].left = call[c].left,
           call'[c].effect \/ call'[c].pc = "acting" => call[c].effect \/ call[c].pc = "acting",
           call'[c].pc \in Asking => call[c].pc \in Asking,
           \A d \in Calls : call[d].pc # "none" => Same(call'[d], call[d])
    PROVE  ConsentOK(c)'
<1>1. \A a \in Permissions : Allowed(c, a) => Allowed(c, a)'
  BY AllowedStays
<1>2. /\ call'[c].tool = call[c].tool /\ call'[c].outside = call[c].outside
      /\ AskedFor(call[c].tool, call[c].outside) \subseteq Permissions
  BY DEF Same, AskedFor
<1>3. ConsentOK(c)
  BY DEF IInv
<1> QED BY <1>1, <1>2, <1>3 DEF ConsentOK

\* Who gave an approval is on record.
LEMMA ApprovalsStay ==
    ASSUME IInv, approvals' = approvals, \A d \in Calls : call[d].pc # "none" => Same(call'[d], call[d])
    PROVE  ApprovalsOK'
<1>1. ASSUME NEW a \in approvals
      PROVE  \E d \in Calls : call'[d].prompt[a] = "always" /\ Contracts[call'[d].tool].scope # "once"
  <2>1. a \in Permissions
    BY <1>1 DEF IInv, TypeOK
  <2>2. PICK d \in Calls : call[d].prompt[a] = "always" /\ Contracts[call[d].tool].scope # "once"
    BY <1>1 DEF IInv, ApprovalsOK
  <2>3. call[d].pc # "none"
    BY <2>1, <2>2 DEF IInv, RowOK
  <2> QED BY <2>1, <2>2, <2>3 DEF Same
<1> QED BY <1>1 DEF ApprovalsOK

\* No call changes.
LEMMA CallsUnchanged ==
    ASSUME IInv, UNCHANGED <<rules, call, approvals>>
    PROVE  /\ \A c \in Calls : RowOK(call[c])' /\ ConsentOK(c)'
           /\ ApprovalsOK'
<1>1. \A d \in Calls : Same(call'[d], call[d])
  BY DEF Same
<1>2. \A c \in Calls : RowOK(call[c])'
  BY DEF IInv
<1>3. ApprovalsOK'
  BY <1>1, ApprovalsStay
<1>4. ASSUME NEW c \in Calls
      PROVE  ConsentOK(c)'
  <2>1. CASE call[c].pc # "none"
    BY <1>1, <2>1, ConsentStays
  <2>2. CASE call[c].pc = "none"
    BY <2>2 DEF IInv, RowOK, EffectOK, ConsentOK, Asking, Closing
  <2> QED BY <2>1, <2>2
<1> QED BY <1>2, <1>3, <1>4

\* The rows of calls change, but not where they are.
LEMMA RowsStep ==
    ASSUME IInv, TypeOK', UNCHANGED <<rules, loop, approvals>>, RunsStay,
           \A d \in Calls : /\ Same(call'[d], call[d]) /\ RowOK(call'[d])
                            /\ call'[d].pc = call[d].pc /\ call'[d].effect = call[d].effect
                            /\ call'[d].left = call[d].left
    PROVE  IInv'
<1> USE DEF IInv
<1>1. ASSUME NEW c \in Calls
      PROVE  RowOK(call[c])' /\ ConsentOK(c)' /\ RoundOK(c)'
  <2>1. ConsentOK(c)'
    <3>1. CASE call[c].pc # "none"
      BY <3>1, ConsentStays
    <3>2. CASE call[c].pc = "none"
      BY <3>2 DEF RowOK, EffectOK, ConsentOK, Asking, Closing
    <3> QED BY <3>1, <3>2
  <2>2. call[c].run \in {0} \cup Runs
    BY DEF TypeOK, CallType
  <2>3. RoundOK(c)'
    BY <2>2 DEF RoundOK, RunsStay, Same
  <2> QED BY <2>1, <2>3
<1>2. ASSUME NEW c \in Calls, NEW d \in Calls
      PROVE  OrderOK(c, d)'
  BY DEF OrderOK, Same, Beside
<1>3. ApprovalsOK'
  BY ApprovalsStay
<1>4. LoopOK'
  <2>1. loop.run \in {0} \cup Runs
    BY DEF TypeOK, LoopType
  <2> QED BY <2>1 DEF LoopOK, RunsStay
<1>5. PICK n \in 0 .. MaxCalls : Counted(n)
  OBVIOUS
<1>6. Counted(n)'
  BY <1>5 DEF Counted, Same
<1> QED BY <1>1, <1>2, <1>3, <1>4, <1>6

\* The prompts of the session are rejected.
LEMMA CancelSessionStep ==
    ASSUME IInv, CancelSession
    PROVE  IInv'
<1>1. UNCHANGED <<rules, run, loop, approvals, outside>> /\ canceller' = FALSE
  BY DEF CancelSession
<1>2. ASSUME NEW d \in Calls
      PROVE  /\ call'[d] \in CallType /\ Same(call'[d], call[d]) /\ RowOK(call'[d])
             /\ call'[d].pc = call[d].pc /\ call'[d].effect = call[d].effect
             /\ call'[d].left = call[d].left
  <2> DEFINE row == [call[d] EXCEPT !.future = "rejected"]
  <2>1. call[d] \in CallType /\ RowOK(call[d])
    BY DEF IInv, TypeOK
  <2>2. CASE call[d].future = "open"
    <3>1. call'[d] = row /\ row \in CallType
      BY <2>1, <2>2 DEF CancelSession, CallType, Futures, Replies
    <3>2. /\ row.pc = call[d].pc /\ row.tool = call[d].tool /\ row.outside = call[d].outside
          /\ row.run = call[d].run /\ row.round = call[d].round /\ row.effect = call[d].effect
          /\ row.prompt = call[d].prompt /\ row.left = call[d].left /\ row.future = "rejected"
          /\ row.part = call[d].part /\ row.side = call[d].side /\ row.outcome = call[d].outcome
          /\ row.file = call[d].file /\ row.artifact = call[d].artifact
      BY <2>1 DEF CallType
    <3>3. call[d].pc \in {"registered", "waiting"}
      BY <2>1, <2>2 DEF RowOK, AskOK, Asking, Replies
    <3> HIDE DEF row
    <3>4. AskOK(row)
      BY <2>1, <3>2, <3>3 DEF RowOK, AskOK
    <3>5. RowOK(row)
      BY <2>1, <3>2, <3>3, <3>4, AskRow DEF Asking
    <3>6. Same(row, call[d])
      BY <3>2 DEF Same
    <3> QED BY <3>1, <3>2, <3>5, <3>6
  <2>3. CASE call[d].future # "open"
    <3>1. call'[d] = call[d]
      BY <2>3 DEF CancelSession
    <3> QED BY <2>1, <3>1 DEF Same
  <2> QED BY <2>2, <2>3
<1>3. call' \in [Calls -> CallType]
  BY <1>2 DEF CancelSession
<1>4. TypeOK'
  BY <1>1, <1>3 DEF IInv, TypeOK
<1> QED BY <1>1, <1>2, <1>4, RowsStep, RunsUnchanged

\* Writing one field of a call's row leaves a row: the three fields that
\* reconcile_run writes (store/sqlite.py, ToolCalls!Reconciled).
LEMMA PartSideUpdate ==
    ASSUME NEW row \in CallType, NEW x \in {"none", "unknown", "committed"}
    PROVE  [row EXCEPT !.partSide = x] \in CallType
  BY DEF CallType

LEMMA PartUpdate ==
    ASSUME NEW row \in CallType, NEW x \in {"none", "pending", "running", "completed", "error"}
    PROVE  [row EXCEPT !.part = x] \in CallType
  BY DEF CallType

LEMMA OpUpdate ==
    ASSUME NEW row \in CallType,
           NEW x \in {"none", "executing", "completed", "error", "interrupted", "needs_review"}
    PROVE  [row EXCEPT !.op = x] \in CallType
  BY DEF CallType

\* The reconciler closes what a run left, and the prompts.
LEMMA ReconcileRunStep ==
    ASSUME IInv, NEW r \in Runs, ReconcileRun(r)
    PROVE  IInv'
<1>1. UNCHANGED <<rules, loop, approvals, canceller, outside>> /\ r # loop.run /\ Active(r)
  BY DEF ReconcileRun
<1>2. ASSUME NEW d \in Calls
      PROVE  /\ call'[d] \in CallType /\ Same(call'[d], call[d]) /\ RowOK(call'[d])
             /\ call'[d].pc = call[d].pc /\ call'[d].effect = call[d].effect
             /\ call'[d].left = call[d].left
  <2> DEFINE old == IF call[d].run = r THEN Reconciled(d) ELSE call[d]
             asked == [a \in Permissions |->
                         IF call[d].prompt[a] = "pending" THEN "interrupted" ELSE call[d].prompt[a]]
             row == [old EXCEPT !.prompt = asked]
  <2>1. call[d] \in CallType /\ RowOK(call[d])
    BY DEF IInv, TypeOK
  <2>2. /\ old \in CallType /\ old.pc = call[d].pc /\ old.tool = call[d].tool
        /\ old.outside = call[d].outside /\ old.run = call[d].run /\ old.round = call[d].round
        /\ old.effect = call[d].effect /\ old.prompt = call[d].prompt /\ old.left = call[d].left
        /\ old.future = call[d].future /\ old.side = call[d].side /\ old.outcome = call[d].outcome
        /\ old.file = call[d].file /\ old.artifact = call[d].artifact
        /\ old.message = call[d].message
    <3> DEFINE side == CASE call[d].part = "pending" -> "none"
                         [] call[d].part = "running" -> "unknown"
                         [] OTHER -> call[d].partSide
               part == IF call[d].part \in {"pending", "running"} THEN "error" ELSE call[d].part
               op   == IF call[d].op # "executing" THEN call[d].op
                       ELSE IF Contracts[call[d].tool].recovery = "safe_to_retry"
                       THEN "interrupted" ELSE "needs_review"
    <3>1. Reconciled(d) = [call[d] EXCEPT !.partSide = side, !.part = part, !.op = op]
      BY <2>1 DEF Reconciled, CallType
    <3>2. /\ side \in {"none", "unknown", "committed"}
          /\ part \in {"none", "pending", "running", "completed", "error"}
          /\ op \in {"none", "executing", "completed", "error", "interrupted", "needs_review"}
      BY <2>1 DEF CallType
    <3> DEFINE new == [call[d] EXCEPT !.partSide = side, !.part = part, !.op = op]
    <3> HIDE DEF side, part, op
    <3>0. new \in CallType
      <4> DEFINE first == [call[d] EXCEPT !.partSide = side]
                 second == [first EXCEPT !.part = part]
      <4>1. first \in CallType
        BY <2>1, <3>2, PartSideUpdate
      <4>2. second \in CallType
        BY <3>2, <4>1, PartUpdate
      <4>3. [second EXCEPT !.op = op] \in CallType
        BY <3>2, <4>2, OpUpdate
      <4>4. new = [second EXCEPT !.op = op]
        OBVIOUS
      <4> HIDE DEF second, new
      <4> QED BY <4>3, <4>4
    <3>3. /\ new.pc = call[d].pc /\ new.tool = call[d].tool
          /\ new.outside = call[d].outside /\ new.run = call[d].run /\ new.round = call[d].round
          /\ new.effect = call[d].effect /\ new.prompt = call[d].prompt /\ new.left = call[d].left
          /\ new.future = call[d].future /\ new.side = call[d].side /\ new.outcome = call[d].outcome
          /\ new.file = call[d].file /\ new.artifact = call[d].artifact
          /\ new.message = call[d].message
      BY <2>1 DEF CallType
    <3>4. old = IF call[d].run = r THEN new ELSE call[d]
      BY <3>1
    <3> HIDE DEF new, old
    <3> QED BY <2>1, <3>0, <3>3, <3>4
  <2>3. RowOK(old)
    <3>1. CASE call[d].run = r
      <4>1. call[d].pc \in {"answered", "dropped"}
        BY <1>1, <2>1, <3>1 DEF IInv, RoundOK, RowOK, CallType, Places, Settled, Runs
      <4>2. call[d].pc = "answered" => old.op = call[d].op /\ old.part = call[d].part
        BY <2>1, <3>1 DEF Reconciled, RowOK, RecordOK, CallType
      <4>3. call[d].effect => /\ old.part \notin {"none", "pending"}
                              /\ old.partSide # "none" \/ old.part = "running"
        BY <2>1, <3>1 DEF Reconciled, RowOK, EffectOK, CallType
      <4> HIDE DEF old
      <4> QED BY <2>1, <2>2, <4>1, <4>2, <4>3
            DEF RowOK, AskOK, RecordOK, EffectOK, Asking, Executing, Preparing
    <3>2. CASE call[d].run # r
      BY <2>1, <3>2
    <3> QED BY <3>1, <3>2
  <2>4. call'[d] = row
    BY <2>2 DEF ReconcileRun
  <2> HIDE DEF old
  <2>5. /\ row.pc = old.pc /\ row.tool = old.tool /\ row.outside = old.outside
        /\ row.run = old.run /\ row.round = old.round /\ row.effect = old.effect
        /\ row.left = old.left /\ row.future = old.future /\ row.side = old.side
        /\ row.outcome = old.outcome /\ row.file = old.file /\ row.artifact = old.artifact
        /\ row.message = old.message /\ row.part = old.part /\ row.partSide = old.partSide
        /\ row.op = old.op /\ row.prompt = asked
    BY <2>2 DEF CallType
  <2>6. asked \in [Permissions -> Prompts]
    BY <2>1 DEF CallType, Prompts
  <2>7. row \in CallType
    BY <2>2, <2>6 DEF CallType
  <2>8. \A a \in Permissions : \/ asked[a] = old.prompt[a]
                               \/ old.prompt[a] = "pending" /\ asked[a] = "interrupted"
    BY <2>2
  <2> HIDE DEF asked
  <2> HIDE DEF row
  <2>9. RowOK(row)
    <3>1. AskOK(row)
      <4>1. CASE old.pc \in Asking
        <5>1. AskOK(old) /\ old.tool # "missing" /\ old.tool \in DOMAIN Contracts
          BY <2>2, <2>3, <4>1 DEF RowOK, RecordOK, Asking, Executing, CallType, Tools
        <5>2. old.left \in Suffixes(old.tool) /\ old.tool # Outside
          BY <4>1, <5>1 DEF AskOK, Contracts, Outside
        <5>3. /\ Rest(old.left) \subseteq Permissions
              /\ old.left # <<>> => Head(old.left) \in Permissions
          BY <2>2, <5>2, AskingOnce DEF Rest, CallType
        <5> QED BY <2>5, <2>8, <4>1, <5>1, <5>3 DEF AskOK
      <4>2. CASE old.pc \notin Asking
        BY <2>5, <4>2 DEF AskOK
      <4> QED BY <4>1, <4>2
    <3>2. RecordOK(row) /\ EffectOK(row)
      BY <2>3, <2>5 DEF RowOK, RecordOK, EffectOK
    <3> QED BY <2>3, <2>5, <2>8, <3>1, <3>2 DEF RowOK
  <2>10. Same(row, call[d])
    BY <2>2, <2>5, <2>8 DEF Same
  <2> QED BY <2>2, <2>4, <2>5, <2>7, <2>9, <2>10
<1>3. call' \in [Calls -> CallType]
  BY <1>2 DEF ReconcileRun
<1>4. /\ run' = [run EXCEPT ![r] = [run[r] EXCEPT !.status = "ended", !.how = "interrupted"]]
      /\ run \in [Runs -> RunType]
  BY DEF ReconcileRun, IInv, TypeOK
<1>5. run' \in [Runs -> RunType]
  BY <1>4 DEF RunType, Ends
<1>6. TypeOK'
  BY <1>1, <1>3, <1>5 DEF IInv, TypeOK
<1>7. RunsStay
  BY <1>1, <1>4 DEF RunsStay, RunType, IInv, LoopOK, Runs
<1> QED BY <1>1, <1>2, <1>6, <1>7, RowsStep

\* The loop goes on to another place of its run, or is up again.
LEMMA LoopStep ==
    ASSUME IInv, UNCHANGED <<rules, run, call, approvals, canceller, outside>>, loop' \in LoopType,
           loop'.run = loop.run, loop'.run # 0 <=> loop'.pc \in {"turn", "model", "batch"},
           \A c \in Calls : call[c].pc \in Settled,
           loop.run # 0 =>
               /\ loop'.round >= loop.round
               /\ loop'.pc = "model" => loop'.round > loop.round
               /\ run[loop.run].cancel >= 0 => loop'.round <= run[loop.run].cancel,
           \A n \in 0 .. MaxCalls : Counted(n) =>
               loop'.round <= MaxTurns + n + (IF loop'.pc = "model" THEN 1 ELSE 0)
    PROVE  IInv'
<1> USE DEF IInv
<1>1. TypeOK'
  BY DEF TypeOK
<1>2. \A c \in Calls : call[c].pc \notin InFlight
  BY DEF Settled, InFlight, Preparing, Executing, Closing
<1>3. ASSUME NEW c \in Calls
      PROVE  RoundOK(c)'
  <2>1. call[c] \in CallType /\ loop \in LoopType /\ RoundOK(c)
    BY DEF TypeOK
  <2>2. call[c].round \in Nat /\ loop.round \in Nat /\ loop'.round \in Nat
    BY <2>1 DEF CallType, LoopType
  <2> QED BY <1>2, <2>1, <2>2 DEF RoundOK
<1>4. \A c, d \in Calls : OrderOK(c, d)'
  BY <1>2 DEF OrderOK, Beside
<1>5. LoopOK'
  BY DEF LoopOK
<1>6. PICK n \in 0 .. MaxCalls : Counted(n)
  OBVIOUS
<1>7. Counted(n)'
  BY <1>6 DEF Counted
<1> QED BY <1>1, <1>3, <1>4, <1>5, <1>7, CallsUnchanged

\* The loop stops.  What was in flight is dropped.
LEMMA StopStep ==
    ASSUME IInv, rules' = rules, approvals' = approvals, canceller' \in BOOLEAN, outside' \in Nat,
           loop' \in LoopType, loop'.run = 0, loop'.round = 0, loop'.pc \in {"idle", "down"},
           call' \in [Calls -> CallType],
           \A d \in Calls : call[d].pc \notin InFlight => call'[d] = call[d],
           \A d \in Calls : call[d].pc \in InFlight =>
               /\ Same(call'[d], call[d]) /\ call'[d].pc = "dropped" /\ call'[d].future = "none"
               /\ call'[d].left = call[d].left /\ call'[d].effect = call[d].effect
               /\ call'[d].outcome = call[d].outcome /\ call'[d].side = call[d].side
               /\ call'[d].part = call[d].part /\ call'[d].partSide = call[d].partSide
               /\ call'[d].artifact = call[d].artifact /\ (call'[d].artifact => call'[d].file),
           run' \in [Runs -> RunType], \A r \in Runs \ {loop.run} : run'[r] = run[r],
           loop.run # 0 => /\ run'[loop.run].cancel = run[loop.run].cancel
                           /\ run'[loop.run].status # "none"
                           /\ run'[loop.run].how = "completed" =>
                                  loop.pc = "model" /\ run'[loop.run].status = "ended"
    PROVE  IInv'
<1> USE DEF IInv
<1>1. TypeOK'
  BY DEF TypeOK
<1>2. \A d \in Calls : /\ Same(call'[d], call[d]) /\ call'[d].left = call[d].left
                       /\ call'[d].effect = call[d].effect
                       /\ call'[d].pc \in Settled
                       /\ call'[d].pc # call[d].pc => call'[d].pc = "dropped"
                       /\ call'[d].pc = "none" <=> call[d].pc = "none"
  <2>1. "none" \notin InFlight
    BY DEF InFlight, Preparing, Executing, Closing
  <2>2. \A d \in Calls : call[d].pc \in Settled \cup InFlight
    BY DEF TypeOK, CallType, Places
  <2> QED BY <2>1, <2>2 DEF Same, Settled
<1>3. \A d \in Calls : call'[d].pc \notin InFlight
  BY <1>2 DEF Settled, InFlight, Preparing, Executing, Closing
<1>4. ASSUME NEW d \in Calls
      PROVE  RowOK(call[d])'
  <2>1. CASE call[d].pc \in InFlight
    <3>1. /\ call'[d].pc = "dropped" /\ call'[d].future = "none"
          /\ call'[d].run = call[d].run /\ call[d].pc # "none"
          /\ call'[d].tool = call[d].tool /\ call'[d].effect = call[d].effect
          /\ call'[d].outcome = call[d].outcome /\ call'[d].side = call[d].side
          /\ call'[d].part = call[d].part /\ call'[d].partSide = call[d].partSide
          /\ call'[d].artifact => call'[d].file
      BY <1>2, <2>1 DEF Same
    <3>2. (call[d].pc = "none" <=> call[d].run = 0) /\ EffectOK(call[d])
      BY DEF RowOK
    <3>3. AskOK(call'[d]) /\ RecordOK(call'[d])
      BY <3>1 DEF AskOK, RecordOK, Asking, Executing
    <3>4. EffectOK(call'[d])
      BY <3>1, <3>2 DEF EffectOK
    <3>5. RowOK(call'[d])
      BY <3>1, <3>2, <3>3, <3>4 DEF RowOK
    <3> QED BY <3>5 DEF RowOK, AskOK, RecordOK, EffectOK
  <2>2. CASE call[d].pc \notin InFlight
    BY <2>2
  <2> QED BY <2>1, <2>2
<1>5. ASSUME NEW d \in Calls
      PROVE  ConsentOK(d)'
  <2>1. CASE call[d].pc # "none"
    BY <1>2, <1>3, <2>1, ConsentStays DEF InFlight, Executing, Asking
  <2>2. CASE call[d].pc = "none"
    BY <1>2, <2>2 DEF RowOK, EffectOK, ConsentOK, Asking, Closing
  <2> QED BY <2>1, <2>2
<1>6. ASSUME NEW d \in Calls
      PROVE  RoundOK(d)'
  <2>1. /\ call[d].run \in {0} \cup Runs /\ call'[d].run = call[d].run
        /\ call'[d].round = call[d].round
    BY <1>2 DEF TypeOK, CallType, Same
  <2>2. CASE call[d].run # 0
    <3>1. call[d].run \in Runs /\ RoundOK(d)
      BY <2>1, <2>2
    <3>2. CASE call[d].run = loop.run
      <4>1. loop.pc = "model" => call[d].pc = "answered" /\ call'[d] = call[d]
        BY <2>2, <3>1, <3>2, NothingInFlight
          DEF RoundOK, Settled, InFlight, Preparing, Executing, Closing
      <4> QED BY <1>3, <2>1, <3>1, <3>2, <4>1 DEF RoundOK
    <3>3. CASE call[d].run # loop.run
      <4>1. run'[call[d].run] = run[call[d].run] /\ call'[d] = call[d]
        BY <3>1, <3>3 DEF RoundOK
      <4> QED BY <1>3, <3>1, <4>1 DEF RoundOK
    <3> QED BY <3>2, <3>3
  <2>3. CASE call[d].run = 0
    BY <1>3, <2>1, <2>3 DEF RoundOK
  <2> QED BY <2>2, <2>3
<1>7. ASSUME NEW c \in Calls, NEW d \in Calls
      PROVE  OrderOK(c, d)'
  <2>1. /\ call'[c].run = call[c].run /\ call'[c].round = call[c].round
        /\ call'[d].run = call[d].run /\ call'[d].round = call[d].round
        /\ Beside(d, c) => Beside(d, c)'
    BY <1>2 DEF Same, Beside
  <2>2. call[d].pc = "answered" => call'[d].pc = "answered"
    BY DEF InFlight, Preparing, Executing, Closing
  <2> QED BY <1>2, <1>3, <2>1, <2>2 DEF OrderOK
<1>8. ApprovalsOK'
  BY <1>2, ApprovalsStay
<1>9. LoopOK'
  <2>1. \A r \in Runs : run'[r].how = "completed" => run'[r].status = "ended"
    BY DEF LoopOK, Runs
  <2> QED BY <2>1 DEF LoopOK
<1>10. PICK n \in 0 .. MaxCalls : Counted(n)
  OBVIOUS
<1>11. Counted(n)'
  <2>1. MaxTurns \in Nat /\ n \in Nat
    BY ToolCallsAssumption
  <2>2. loop'.round <= MaxTurns + n + (IF loop'.pc = "model" THEN 1 ELSE 0)
    BY <2>1
  <2>3. \A d \in Calls : call'[d].round = call[d].round
    BY <1>2 DEF Same
  <2> QED BY <1>2, <1>10, <2>2, <2>3 DEF Counted
<1> QED BY <1>1, <1>4, <1>5, <1>6, <1>7, <1>8, <1>9, <1>11

\* A call of the batch that is not answered is in flight, and only those are.
LEMMA InFlightIsBatch ==
    ASSUME IInv, NEW c \in Calls
    PROVE  c \in Batch /\ call[c].pc # "answered" <=> call[c].pc \in InFlight
<1>1. RoundOK(c) /\ RowOK(call[c])
  BY DEF IInv
<1>2. "none" \notin InFlight /\ "answered" \notin InFlight
  BY DEF InFlight, Preparing, Executing, Closing
<1> QED BY <1>1, <1>2 DEF RoundOK, RowOK, Batch

\* The row of a call that is dropped.
Lost(old, file) == [old EXCEPT !.pc = "dropped", !.future = "none", !.file = file]

\* Nothing but its place, its future and its file changes.
LEMMA Dropping ==
    ASSUME NEW old \in CallType, NEW file \in BOOLEAN
    PROVE  /\ Lost(old, file) \in CallType /\ Same(Lost(old, file), old)
           /\ Lost(old, file).pc = "dropped" /\ Lost(old, file).future = "none"
           /\ Lost(old, file).left = old.left /\ Lost(old, file).effect = old.effect
           /\ Lost(old, file).outcome = old.outcome /\ Lost(old, file).side = old.side
           /\ Lost(old, file).part = old.part /\ Lost(old, file).partSide = old.partSide
           /\ Lost(old, file).artifact = old.artifact /\ Lost(old, file).file = file
<1>1. "dropped" \in Places /\ "none" \in Futures
  BY DEF Places, Settled, Futures
<1> QED BY <1>1 DEF CallType, Same, Lost

\* What is dropped when the loop stops.
Dropped(d) ==
    IF d \in Batch /\ call[d].pc # "answered"
    THEN [call[d] EXCEPT !.pc = "dropped", !.future = "none"] ELSE call[d]

\* Dropping is all that happens to calls.
LEMMA DroppedRows ==
    ASSUME IInv, call' = [d \in Calls |-> Dropped(d)]
    PROVE  /\ call' \in [Calls -> CallType]
           /\ \A d \in Calls : call[d].pc \notin InFlight => call'[d] = call[d]
           /\ \A d \in Calls : call[d].pc \in InFlight =>
               /\ Same(call'[d], call[d]) /\ call'[d].pc = "dropped" /\ call'[d].future = "none"
               /\ call'[d].left = call[d].left /\ call'[d].effect = call[d].effect
               /\ call'[d].outcome = call[d].outcome /\ call'[d].side = call[d].side
               /\ call'[d].part = call[d].part /\ call'[d].partSide = call[d].partSide
               /\ call'[d].artifact = call[d].artifact /\ (call'[d].artifact => call'[d].file)
<1>1. ASSUME NEW d \in Calls, call[d].pc \notin InFlight
      PROVE  call'[d] = call[d]
  BY <1>1, InFlightIsBatch DEF Dropped
<1>2. ASSUME NEW d \in Calls, call[d].pc \in InFlight
      PROVE  /\ call'[d] \in CallType
             /\ Same(call'[d], call[d]) /\ call'[d].pc = "dropped" /\ call'[d].future = "none"
             /\ call'[d].left = call[d].left /\ call'[d].effect = call[d].effect
             /\ call'[d].outcome = call[d].outcome /\ call'[d].side = call[d].side
             /\ call'[d].part = call[d].part /\ call'[d].partSide = call[d].partSide
             /\ call'[d].artifact = call[d].artifact /\ (call'[d].artifact => call'[d].file)
  <2>1. call'[d] = [call[d] EXCEPT !.pc = "dropped", !.future = "none"]
    BY <1>2, InFlightIsBatch DEF Dropped
  <2>2. call[d] \in CallType /\ RowOK(call[d])
    BY DEF IInv, TypeOK
  <2>3. call[d].file \in BOOLEAN /\ (call[d].artifact => call[d].file)
    BY <2>2 DEF RowOK, RecordOK, CallType
  <2>4. call'[d] = Lost(call[d], call[d].file)
    BY <2>1, <2>2 DEF CallType, Lost
  <2> QED BY <2>2, <2>3, <2>4, Dropping
<1>3. \A d \in Calls : call'[d] \in CallType
  BY <1>1, <1>2 DEF IInv, TypeOK
<1> QED BY <1>1, <1>2, <1>3

\* The bound of what comes from outside is a number.
LEMMA EventCounts ==
    ASSUME IInv, Event
    PROVE  outside' \in Nat
BY DEF IInv, TypeOK, Event

\* The row of a run that is over.
LEMMA EndedRow ==
    ASSUME NEW r \in Runs, run \in [Runs -> RunType],
           NEW how \in Ends,
           run' = [run EXCEPT ![r] = [run[r] EXCEPT !.status = "ended", !.how = how]]
    PROVE  /\ run' \in [Runs -> RunType] /\ \A s \in Runs \ {r} : run'[s] = run[s]
           /\ run'[r].cancel = run[r].cancel /\ run'[r].status = "ended" /\ run'[r].how = how
<1> DEFINE row == [run[r] EXCEPT !.status = "ended", !.how = how]
<1>1. row \in RunType /\ row.cancel = run[r].cancel /\ row.status = "ended" /\ row.how = how
  BY DEF RunType, Ends
<1>2. run' = [run EXCEPT ![r] = row]
  OBVIOUS
<1> HIDE DEF row
<1> QED BY <1>1, <1>2

\* The run of the loop is over.
LEMMA RunEndsStep ==
    ASSUME IInv, loop.run # 0, NEW how \in Ends, RunEnds(how),
           how = "completed" => loop.pc = "model",
           UNCHANGED <<rules, approvals, canceller>>, outside' \in Nat
    PROVE  IInv'
<1>1. /\ loop' = Idle /\ call' = [d \in Calls |-> Dropped(d)] /\ loop.run \in Runs
      /\ run \in [Runs -> RunType]
      /\ run' = [run EXCEPT ![loop.run] = [run[loop.run] EXCEPT !.status = "ended", !.how = how]]
  BY DEF RunEnds, Dropped, IInv, TypeOK, LoopType
<1>2. /\ loop' \in LoopType /\ loop'.run = 0 /\ loop'.round = 0 /\ loop'.pc \in {"idle", "down"}
  BY <1>1 DEF Idle, LoopType
<1>3. /\ run' \in [Runs -> RunType] /\ \A r \in Runs \ {loop.run} : run'[r] = run[r]
      /\ run'[loop.run].cancel = run[loop.run].cancel /\ run'[loop.run].status = "ended"
      /\ run'[loop.run].how = how
  BY <1>1, EndedRow
<1>4. canceller' \in BOOLEAN
  BY DEF IInv, TypeOK
<1> HIDE DEF RunEnds
<1> QED BY <1>1, <1>2, <1>3, <1>4, DroppedRows, StopStep

\* A transaction fails, and with it the run.
LEMMA StoreFailsStep ==
    ASSUME IInv, NEW c \in Calls, StoreFails(c)
    PROVE  IInv'
<1>1. /\ c \in Batch /\ loop.pc = "batch" /\ call[c].pc # "answered" /\ loop.run # 0
      /\ UNCHANGED <<rules, approvals, canceller>> /\ outside' \in Nat
  <2>1. c \in Batch /\ loop.pc = "batch" /\ call[c].pc # "answered"
    BY DEF StoreFails, At
  <2>2. outside' \in Nat
    BY EventCounts DEF StoreFails
  <2> QED BY <2>1, <2>2 DEF StoreFails, IInv, LoopOK
<1>2. call[c].pc \in InFlight
  BY <1>1, InFlightIsBatch
<1>3. /\ loop' = Idle /\ loop.run \in Runs /\ run \in [Runs -> RunType]
      /\ run' = [run EXCEPT ![loop.run] = [run[loop.run] EXCEPT !.status = "ended", !.how = "failed"]]
  BY <1>1 DEF StoreFails, IInv, TypeOK, LoopType
<1>4. /\ loop' \in LoopType /\ loop'.run = 0 /\ loop'.round = 0 /\ loop'.pc \in {"idle", "down"}
  BY <1>3 DEF Idle, LoopType
<1>5. /\ run' \in [Runs -> RunType] /\ \A r \in Runs \ {loop.run} : run'[r] = run[r]
      /\ run'[loop.run].cancel = run[loop.run].cancel /\ run'[loop.run].status = "ended"
      /\ run'[loop.run].how = "failed"
  BY <1>3, EndedRow DEF Ends
<1>6. ASSUME NEW d \in Calls, call[d].pc \notin InFlight
      PROVE  call'[d] = call[d]
  BY <1>2, <1>6, InFlightIsBatch DEF StoreFails
<1>7. ASSUME NEW d \in Calls, call[d].pc \in InFlight
      PROVE  /\ call'[d] \in CallType
             /\ Same(call'[d], call[d]) /\ call'[d].pc = "dropped" /\ call'[d].future = "none"
             /\ call'[d].left = call[d].left /\ call'[d].effect = call[d].effect
             /\ call'[d].outcome = call[d].outcome /\ call'[d].side = call[d].side
             /\ call'[d].part = call[d].part /\ call'[d].partSide = call[d].partSide
             /\ call'[d].artifact = call[d].artifact /\ (call'[d].artifact => call'[d].file)
  <2> DEFINE file == IF d = c THEN call[c].file /\ call[c].artifact ELSE call[d].file
  <2>1. call[d] \in CallType /\ RowOK(call[d])
    BY DEF IInv, TypeOK
  <2>2. file \in BOOLEAN /\ (call[d].artifact => file)
    BY <2>1 DEF RowOK, RecordOK, CallType
  <2>3. call'[d] = Lost(call[d], file)
    <3>1. CASE d = c
      BY <3>1 DEF StoreFails, Lost
    <3>2. CASE d # c
      <4>1. call'[d] = [call[d] EXCEPT !.pc = "dropped", !.future = "none"]
        BY <1>7, <3>2, InFlightIsBatch DEF StoreFails
      <4> QED BY <2>1, <3>2, <4>1 DEF CallType, Lost
    <3> QED BY <3>1, <3>2
  <2> HIDE DEF file
  <2> QED BY <2>1, <2>2, <2>3, Dropping
<1>8. call' \in [Calls -> CallType]
  <2>1. \A d \in Calls : call'[d] \in CallType
    BY <1>6, <1>7 DEF IInv, TypeOK
  <2> QED BY <2>1 DEF StoreFails
<1>9. canceller' \in BOOLEAN
  BY <1>1 DEF IInv, TypeOK
<1> QED BY <1>1, <1>4, <1>5, <1>6, <1>7, <1>8, <1>9, StopStep

\* The process dies.
LEMMA CrashStep ==
    ASSUME IInv, Crash
    PROVE  IInv'
<1>1. /\ loop' = [Idle EXCEPT !.pc = "down"] /\ call' = [d \in Calls |-> Dropped(d)]
      /\ canceller' = FALSE /\ UNCHANGED <<rules, run, approvals>> /\ outside' \in Nat
      /\ loop.run \in {0} \cup Runs /\ run \in [Runs -> RunType]
  <2>1. call' = [d \in Calls |-> Dropped(d)]
    BY DEF Crash, Dropped
  <2>2. outside' \in Nat
    BY EventCounts DEF Crash
  <2> QED BY <2>1, <2>2 DEF Crash, IInv, TypeOK, LoopType
<1>2. /\ loop' \in LoopType /\ loop'.run = 0 /\ loop'.round = 0 /\ loop'.pc \in {"idle", "down"}
  BY <1>1 DEF Idle, LoopType
<1>3. loop.run # 0 => run'[loop.run].status # "none" /\ run'[loop.run].how # "completed"
  BY <1>1 DEF IInv, LoopOK
<1> QED BY <1>1, <1>2, <1>3, DroppedRows, StopStep

-----------------------------------------------------------------------------
(* The steps of a run.                                                     *)

\* The row of a run that is started.
LEMMA StartedRow ==
    ASSUME NEW r \in Runs, run \in [Runs -> RunType], NEW source \in Sources, NEW limit \in Limits,
           run' = [run EXCEPT ![r] = [run[r] EXCEPT !.status = "running", !.source = source,
                                                    !.limit = limit]]
    PROVE  /\ run' \in [Runs -> RunType] /\ \A s \in Runs \ {r} : run'[s] = run[s]
           /\ run'[r].status = "running" /\ run'[r].how = run[r].how
           /\ run'[r].cancel = run[r].cancel
<1> DEFINE row == [run[r] EXCEPT !.status = "running", !.source = source, !.limit = limit]
<1>1. /\ row \in RunType /\ row.status = "running" /\ row.how = run[r].how
      /\ row.cancel = run[r].cancel
  BY DEF RunType
<1>2. run' = [run EXCEPT ![r] = row]
  OBVIOUS
<1> HIDE DEF row
<1> QED BY <1>1, <1>2

\* A run is started.
LEMMA StartRunStep ==
    ASSUME IInv, NEW r \in Runs, NEW source \in Sources, NEW limit \in Limits,
           StartRun(r, source, limit)
    PROVE  IInv'
<1> USE DEF IInv
<1>1. /\ loop.pc = "idle" /\ loop.run = 0 /\ run[r].status = "none" /\ r # 0
      /\ loop' = [Idle EXCEPT !.pc = "turn", !.run = r]
      /\ run' = [run EXCEPT ![r] = [run[r] EXCEPT !.status = "running", !.source = source,
                                                  !.limit = limit]]
      /\ UNCHANGED <<rules, call, approvals, canceller, outside>>
      /\ run \in [Runs -> RunType] /\ r \in Int
  <2>1. loop.pc = "idle" /\ loop.run = 0
    BY DEF StartRun, LoopOK
  <2>2. r \in Int /\ r # 0
    BY DEF Runs
  <2>3. run[r].status = "none"
    BY <2>2 DEF StartRun
  <2>4. run \in [Runs -> RunType]
    BY DEF TypeOK
  <2>5. run' = [run EXCEPT ![r] = [run[r] EXCEPT !.status = "running", !.source = source,
                                                 !.limit = limit]]
    BY <2>4 DEF StartRun
  <2> QED BY <2>1, <2>2, <2>3, <2>4, <2>5 DEF StartRun
<1>2. /\ loop' \in LoopType /\ loop'.run = r /\ loop'.pc = "turn" /\ loop'.round = 0
  BY <1>1 DEF Idle, LoopType
<1>3. /\ run' \in [Runs -> RunType] /\ \A s \in Runs \ {r} : run'[s] = run[s]
      /\ run'[r].status = "running" /\ run'[r].how = run[r].how /\ run'[r].cancel = run[r].cancel
  BY <1>1, StartedRow
<1>4. TypeOK'
  BY <1>1, <1>2, <1>3 DEF TypeOK
<1>5. run[r].how # "completed"
  BY <1>1 DEF LoopOK
<1>6. \A c \in Calls : call[c].pc \in Settled /\ call[c].pc \notin InFlight
  BY <1>1, NothingInFlight DEF Settled, InFlight, Preparing, Executing, Closing
<1>7. ASSUME NEW c \in Calls
      PROVE  RoundOK(c)'
  <2>1. call[c].run \in {0} \cup Runs /\ RoundOK(c)
    BY DEF TypeOK, CallType
  <2>2. call[c].run # 0 => call[c].run # r
    BY <1>1, <2>1 DEF RoundOK
  <2> QED BY <1>1, <1>2, <1>3, <1>6, <2>1, <2>2 DEF RoundOK
<1>8. \A c, d \in Calls : OrderOK(c, d)'
  BY <1>1, <1>6 DEF OrderOK, Beside
<1>9. LoopOK'
  BY <1>1, <1>2, <1>3, <1>5 DEF LoopOK, RunType
<1>10. PICK n \in 0 .. MaxCalls : Counted(n)
  OBVIOUS
<1>11. Counted(n)'
  <2>1. MaxTurns \in Nat
    BY ToolCallsAssumption
  <2> QED BY <1>1, <1>2, <1>10, <2>1 DEF Counted
<1> QED BY <1>1, <1>4, <1>7, <1>8, <1>9, <1>11, CallsUnchanged

\* A turn begins, or the run is over.
LEMMA TurnStep ==
    ASSUME IInv, Turn
    PROVE  IInv'
<1>1. /\ loop.pc = "turn" /\ loop.run # 0 /\ UNCHANGED <<rules, approvals, canceller, outside>>
      /\ outside' \in Nat /\ loop \in LoopType
  BY DEF Turn, IInv, LoopOK, TypeOK
<1>2. CASE RunEnds("failed") \/ RunEnds("cancelled")
  BY <1>1, <1>2, RunEndsStep DEF Ends
<1>3. CASE /\ run[loop.run].cancel < 0 /\ UNCHANGED <<run, call>>
           /\ loop' = [loop EXCEPT !.pc = "model", !.round = @ + 1]
  <2>1. /\ loop' \in LoopType /\ loop'.run = loop.run /\ loop'.pc = "model"
        /\ loop'.round = loop.round + 1 /\ loop.round \in Nat /\ loop.run \in Runs
    <3>1. loop.round \in Nat /\ loop.run \in Runs
      BY <1>1 DEF LoopType
    <3>2. loop' = [loop EXCEPT !.pc = "model", !.round = loop.round + 1]
      BY <1>3
    <3>3. loop.round + 1 \in Nat
      BY <3>1
    <3> QED BY <1>1, <3>1, <3>2, <3>3 DEF LoopType
  <2>2. run[loop.run].cancel \in Int
    BY <2>1 DEF IInv, TypeOK, RunType
  <2>3. ASSUME NEW n \in 0 .. MaxCalls, Counted(n)
        PROVE  loop'.round <= MaxTurns + n + (IF loop'.pc = "model" THEN 1 ELSE 0)
    <3>1. MaxTurns \in Nat
      BY ToolCallsAssumption
    <3> QED BY <1>1, <2>1, <2>3, <3>1 DEF Counted
  <2>4. \A c \in Calls : call[c].pc \in Settled
    BY <1>1, NothingInFlight
  <2>5. /\ loop'.round >= loop.round /\ loop'.round > loop.round
        /\ ~(run[loop.run].cancel >= 0)
    BY <1>3, <2>1, <2>2
  <2>6. loop'.run # 0 <=> loop'.pc \in {"turn", "model", "batch"}
    BY <1>1, <2>1
  <2> QED BY <1>1, <1>3, <2>1, <2>3, <2>4, <2>5, <2>6, LoopStep
<1> QED BY <1>2, <1>3 DEF Turn

\* The answer of the model has no tool call.
LEMMA ModelEndsStep ==
    ASSUME IInv, ModelEnds
    PROVE  IInv'
<1>1. /\ loop.pc = "model" /\ loop.run # 0 /\ UNCHANGED <<rules, approvals, canceller, outside>>
      /\ outside' \in Nat /\ loop \in LoopType
  BY DEF ModelEnds, IInv, LoopOK, TypeOK
<1>2. CASE \E how \in {"completed", "failed", "cancelled"} : RunEnds(how)
  BY <1>1, <1>2, RunEndsStep DEF Ends
<1>3. CASE /\ loop.round <= MaxTurns /\ UNCHANGED <<run, call>>
           /\ loop' = [loop EXCEPT !.pc = "turn"]
  <2>1. /\ loop' \in LoopType /\ loop'.run = loop.run /\ loop'.pc = "turn"
        /\ loop'.round = loop.round /\ loop.round \in Nat
    BY <1>1, <1>3 DEF LoopType
  <2>2. MaxTurns \in Nat
    BY ToolCallsAssumption
  <2>3. \A n \in 0 .. MaxCalls : loop'.round <= MaxTurns + n + (IF loop'.pc = "model" THEN 1 ELSE 0)
    BY <1>3, <2>1, <2>2
  <2>4. \A c \in Calls : call[c].pc \in Settled
    BY <1>1, NothingInFlight
  <2>5. /\ loop'.round >= loop.round
        /\ run[loop.run].cancel >= 0 => loop'.round <= run[loop.run].cancel
    BY <1>1, <2>1 DEF IInv, LoopOK
  <2>6. loop'.run # 0 <=> loop'.pc \in {"turn", "model", "batch"}
    BY <1>1, <2>1
  <2> QED BY <1>1, <1>3, <2>1, <2>3, <2>4, <2>5, <2>6, LoopStep
<1> QED BY <1>2, <1>3 DEF ModelEnds

\* The batch is answered.
LEMMA BatchEndsStep ==
    ASSUME IInv, BatchEnds
    PROVE  IInv'
<1>1. /\ loop.pc = "batch" /\ loop.run # 0 /\ loop \in LoopType
      /\ UNCHANGED <<rules, run, call, approvals, canceller, outside>>
  BY DEF BatchEnds, IInv, LoopOK, TypeOK
<1> DEFINE done == {c \in Batch : call[c].outcome # "tool_budget_exhausted"}
<1>2. Cardinality(done) \in Nat
  <2>1. IsFiniteSet(Calls)
    BY FS_Interval, ToolCallsAssumption DEF Calls
  <2>2. done \subseteq Calls
    BY DEF Batch
  <2> QED BY <2>1, <2>2, FS_Subset, FS_CardinalityType
<1>3. loop' = [loop EXCEPT !.pc = "turn", !.executed = loop.executed + Cardinality(done)]
  BY DEF BatchEnds
<1> HIDE DEF done
<1>4. /\ loop' \in LoopType /\ loop'.run = loop.run /\ loop'.pc = "turn"
      /\ loop'.round = loop.round /\ loop.round \in Nat
  <2>1. loop.executed + Cardinality(done) \in Nat
    BY <1>1, <1>2 DEF LoopType
  <2> QED BY <1>1, <1>3, <2>1 DEF LoopType
<1>5. ASSUME NEW n \in 0 .. MaxCalls, Counted(n)
      PROVE  loop'.round <= MaxTurns + n + (IF loop'.pc = "model" THEN 1 ELSE 0)
  BY <1>1, <1>4, <1>5 DEF Counted
<1>6. ASSUME NEW c \in Calls
      PROVE  call[c].pc \in Settled
  <2>1. call[c].pc \notin InFlight
    BY InFlightIsBatch DEF BatchEnds
  <2> QED BY <2>1 DEF IInv, TypeOK, CallType, Places
<1>7. /\ loop'.round >= loop.round
      /\ run[loop.run].cancel >= 0 => loop'.round <= run[loop.run].cancel
  BY <1>1, <1>4 DEF IInv, LoopOK
<1>8. loop'.run # 0 <=> loop'.pc \in {"turn", "model", "batch"}
  BY <1>1, <1>4
<1> QED BY <1>1, <1>4, <1>5, <1>6, <1>7, <1>8, LoopStep

\* The process is up again.
LEMMA RestartStep ==
    ASSUME IInv, Restart
    PROVE  IInv'
<1>1. /\ loop.pc = "down" /\ loop.run = 0 /\ loop' = Idle
      /\ UNCHANGED <<rules, run, call, approvals, canceller, outside>>
  BY DEF Restart, IInv, LoopOK
<1>2. /\ loop' \in LoopType /\ loop'.run = 0 /\ loop'.pc = "idle" /\ loop'.round = 0
  BY <1>1 DEF Idle, LoopType
<1>3. MaxTurns \in Nat
  BY ToolCallsAssumption
<1>4. \A n \in 0 .. MaxCalls : loop'.round <= MaxTurns + n + (IF loop'.pc = "model" THEN 1 ELSE 0)
  BY <1>2, <1>3
<1>5. \A c \in Calls : call[c].pc \in Settled
  BY <1>1, NothingInFlight
<1> QED BY <1>1, <1>2, <1>4, <1>5, LoopStep

\* A request to cancel.
LEMMA RequestCancelStep ==
    ASSUME IInv, NEW r \in Runs, RequestCancel(r)
    PROVE  IInv'
<1> USE DEF IInv
<1> DEFINE round == IF r = loop.run THEN loop.round ELSE MaxTurns + MaxCalls
<1>1. /\ Active(r) /\ UNCHANGED <<rules, loop, call, approvals>> /\ canceller' = TRUE
      /\ run' = [run EXCEPT ![r] = [run[r] EXCEPT !.status = "cancelling", !.cancel = round]]
      /\ run \in [Runs -> RunType] /\ loop \in LoopType
  BY DEF RequestCancel, TypeOK
<1>2. outside' \in Nat
  BY EventCounts DEF RequestCancel
<1>3. round \in Int
  BY <1>1, ToolCallsAssumption DEF LoopType
<1> HIDE DEF round
<1>4. /\ run' \in [Runs -> RunType] /\ \A s \in Runs \ {r} : run'[s] = run[s]
      /\ run'[r].status = "cancelling" /\ run'[r].how = run[r].how /\ run'[r].cancel = round
  BY <1>1, <1>3 DEF RunType
<1>5. TypeOK'
  BY <1>1, <1>2, <1>4 DEF TypeOK
<1>6. run[r].how # "completed"
  BY <1>1 DEF LoopOK, Active
<1>7. PICK n \in 0 .. MaxCalls : Counted(n)
  OBVIOUS
<1>8. Counted(n)'
  BY <1>1, <1>7 DEF Counted
<1>9. ASSUME NEW c \in Calls
      PROVE  RoundOK(c)'
  <2>1. call[c].run \in {0} \cup Runs /\ RoundOK(c) /\ call[c].round \in Nat
    BY DEF TypeOK, CallType
  <2>2. call[c].run = r /\ r # 0 => call[c].round <= round
    <3>1. CASE r = loop.run
      BY <2>1, <3>1 DEF RoundOK, round
    <3>2. CASE r # loop.run
      <4>1. MaxTurns \in Nat /\ MaxCalls \in Nat
        BY ToolCallsAssumption
      <4> QED BY <1>7, <2>1, <3>2, <4>1 DEF Counted, round
    <3> QED BY <3>1, <3>2
  <2> QED BY <1>1, <1>4, <1>6, <2>1, <2>2 DEF RoundOK
<1>10. \A c, d \in Calls : OrderOK(c, d)'
  BY <1>1 DEF OrderOK, Beside
<1>11. LoopOK'
  <2>1. r = loop.run => loop.round <= round
    BY <1>1 DEF round, LoopType
  <2>2. loop.run \in {0} \cup Runs
    BY <1>1 DEF LoopType
  <2> QED BY <1>1, <1>4, <1>6, <2>1, <2>2 DEF LoopOK
<1> QED BY <1>1, <1>5, <1>8, <1>9, <1>10, <1>11, CallsUnchanged

\* A call that is not made yet has its type.
LEMMA NoCallType == NoCall \in CallType
<1>1. "none" \in Places /\ "missing" \in Tools /\ "none" \in Outcomes /\ "none" \in Futures
  BY DEF Places, Settled, Tools, Outcomes, Futures
<1>2. [a \in Permissions |-> "none"] \in [Permissions -> Prompts]
  BY DEF Prompts
<1>3. <<>> \in Seq(Permissions)
  OBVIOUS
<1> QED BY <1>1, <1>2, <1>3 DEF NoCall, CallType

\* The answers of the model fit in the bound.
LEMMA AnswersFit ==
    ASSUME IInv, NEW n \in 0 .. MaxCalls, Counted(n), NEW new \in Answers
    PROVE  /\ Cardinality({c \in Calls : call[c].pc # "none"}) = n
           /\ Len(new) \in 1 .. MaxCalls - n
           /\ \A i \in 1 .. Len(new) : new[i][1] \in Tools /\ new[i][2] \in BOOLEAN
<1>1. MaxCalls \in Nat /\ n \in Nat /\ n <= MaxCalls
  BY ToolCallsAssumption
<1>2. {c \in Calls : call[c].pc # "none"} = 1 .. n
  BY <1>1 DEF Counted, Calls
<1>3. {c \in Calls : call[c].pc = "none"} = n + 1 .. MaxCalls
  BY <1>1 DEF Counted, Calls
<1>4. Cardinality(1 .. n) = n
  BY <1>1, FS_Interval
<1>5. Cardinality(n + 1 .. MaxCalls) = MaxCalls - n
  <2>1. n + 1 \in Int /\ MaxCalls \in Int
    BY <1>1
  <2>2. Cardinality(n + 1 .. MaxCalls) = IF n + 1 > MaxCalls THEN 0 ELSE MaxCalls - (n + 1) + 1
    BY <2>1, FS_Interval
  <2> QED BY <1>1, <2>2
<1>6. PICK m \in 1 .. (IF MaxCalls - n < 3 THEN MaxCalls - n ELSE 3) : new \in [1 .. m -> Kinds]
  BY <1>3, <1>5 DEF Answers
<1>7. m \in 1 .. MaxCalls - n /\ m \in Nat
  BY <1>1, <1>6
<1>8. new \in Seq(Kinds) /\ Len(new) = m
  BY <1>6, <1>7
<1>9. ASSUME NEW i \in 1 .. m
      PROVE  new[i][1] \in Tools /\ new[i][2] \in BOOLEAN
  <2>1. new[i] \in Tools \X BOOLEAN
    BY <1>6, ToolCallsAssumption DEF Tools
  <2> QED BY <2>1
<1> QED BY <1>2, <1>4, <1>7, <1>8, <1>9

\* The calls of an answer are queued.
LEMMA QueuedStep ==
    ASSUME IInv, loop.pc = "model", NEW new \in Answers, NEW outcome \in Outcomes,
           call' = Queued(new, outcome), loop' \in LoopType, loop'.pc = "batch",
           loop'.run = loop.run, loop'.round = loop.round,
           UNCHANGED <<rules, run, approvals, canceller, outside>>
    PROVE  IInv'
<1> USE DEF IInv
<1>1. PICK n \in 0 .. MaxCalls : Counted(n)
  OBVIOUS
<1> DEFINE m == Len(new)
           row(c) == [NoCall EXCEPT !.pc = "queued", !.tool = new[c - n][1],
                         !.outside = new[c - n][2], !.run = loop.run,
                         !.round = loop.round, !.outcome = outcome]
<1>2. /\ MaxCalls \in Nat /\ MaxTurns \in Nat /\ n \in Nat
      /\ m \in Nat /\ m >= 1 /\ n + m <= MaxCalls
      /\ \A i \in 1 .. m : new[i][1] \in Tools /\ new[i][2] \in BOOLEAN
  <2>1. MaxCalls \in Nat /\ MaxTurns \in Nat
    BY ToolCallsAssumption
  <2>2. /\ Len(new) \in 1 .. MaxCalls - n
        /\ \A i \in 1 .. Len(new) : new[i][1] \in Tools /\ new[i][2] \in BOOLEAN
    BY <1>1, AnswersFit
  <2> HIDE DEF IInv
  <2> QED BY <2>1, <2>2
<1>3. \A c \in Calls : call'[c] = IF c \in n + 1 .. n + m THEN row(c) ELSE call[c]
  BY <1>1, AnswersFit DEF Queued
<1> HIDE DEF m
<1>4. /\ loop \in LoopType /\ loop.run \in Runs /\ loop.run # 0 /\ loop.round \in Nat
      /\ run[loop.run].status \in {"running", "waiting_approval", "cancelling"}
      /\ run[loop.run].how # "completed"
      /\ run[loop.run].cancel >= 0 => loop.round <= run[loop.run].cancel
  BY DEF TypeOK, LoopType, LoopOK
<1>5. ASSUME NEW c \in Calls, c \in n + 1 .. n + m
      PROVE  /\ call'[c] \in CallType /\ call'[c].pc = "queued" /\ call'[c].run = loop.run
             /\ call'[c].round = loop.round /\ ~call'[c].effect /\ RowOK(call'[c])
  <2> DEFINE tool == new[c - n][1]
             leaves == new[c - n][2]
             made == [NoCall EXCEPT !.pc = "queued", !.tool = tool, !.outside = leaves,
                         !.run = loop.run, !.round = loop.round, !.outcome = outcome]
  <2>1. call'[c] = made
    BY <1>3, <1>5
  <2>2. tool \in Tools /\ leaves \in BOOLEAN
    <3>1. c - n \in 1 .. m
      BY <1>2, <1>5 DEF Calls
    <3> QED BY <1>2, <3>1
  <2>3. {"queued"} \subseteq Places /\ "none" \in Prompts /\ "none" \in Futures
    BY DEF Places, InFlight, Preparing, Prompts, Futures
  <2> HIDE DEF tool, leaves
  <2>4. /\ made.pc = "queued" /\ made.run = loop.run /\ made.round = loop.round
        /\ made.effect = FALSE /\ made.future = "none" /\ made.file = FALSE
        /\ made.artifact = FALSE /\ \A a \in Permissions : made.prompt[a] = "none"
    BY DEF NoCall
  <2>5. made \in CallType
    BY <1>4, <2>2, <2>3, NoCallType DEF CallType
  <2> HIDE DEF made
  <2>6. RowOK(made)
    BY <1>4, <2>4 DEF RowOK, AskOK, RecordOK, EffectOK, Asking, Executing
  <2> QED BY <2>1, <2>4, <2>5, <2>6
<1>6. \A c \in Calls : c <= n <=> call[c].pc # "none"
  BY <1>1 DEF Counted
<1>7. ASSUME NEW c \in Calls, c \notin n + 1 .. n + m
      PROVE  call'[c] = call[c] /\ call'[c].pc \in Settled
  BY <1>3, <1>7, NothingInFlight
<1> HIDE DEF row
<1>8. \A c \in Calls : call[c].pc # "none" => call'[c] = call[c] /\ c \notin n + 1 .. n + m
  BY <1>2, <1>6, <1>7 DEF Calls
<1>9. \A c \in Calls : call'[c] \in CallType
  BY <1>5, <1>7 DEF TypeOK
<1>10. TypeOK'
  BY <1>9 DEF TypeOK, Queued
<1>11. \A d \in Calls : call[d].pc # "none" => Same(call'[d], call[d])
  BY <1>8 DEF Same
<1>12. ASSUME NEW c \in Calls
       PROVE  RowOK(call[c])' /\ ConsentOK(c)'
  <2>1. CASE c \in n + 1 .. n + m
    BY <1>5, <2>1 DEF ConsentOK, Asking
  <2>2. CASE c \notin n + 1 .. n + m
    <3>1. CASE call[c].pc # "none"
      BY <1>7, <1>11, <2>2, <3>1, ConsentStays
    <3>2. CASE call[c].pc = "none"
      BY <1>7, <2>2, <3>2 DEF RowOK, EffectOK, ConsentOK, Asking, Closing
    <3> QED BY <1>7, <2>2, <3>1, <3>2
  <2> QED BY <2>1, <2>2
<1>13. \A c \in Calls : c \notin n + 1 .. n + m => call'[c].pc \notin InFlight
  BY <1>7 DEF Settled, InFlight, Preparing, Executing, Closing
<1>14. ASSUME NEW c \in Calls
       PROVE  RoundOK(c)'
  <2>1. CASE c \in n + 1 .. n + m
    BY <1>4, <1>5, <2>1 DEF RoundOK, InFlight, Preparing
  <2>2. CASE c \notin n + 1 .. n + m
    <3>1. call'[c] = call[c] /\ RoundOK(c) /\ call[c].pc \notin InFlight
      BY <1>7, <1>13, <2>2
    <3> QED BY <3>1 DEF RoundOK
  <2> QED BY <2>1, <2>2
<1>15. ASSUME NEW c \in Calls, NEW d \in Calls
       PROVE  OrderOK(c, d)'
  <2>0. c \in Int /\ d \in Int
    BY DEF Calls
  <2>1. ASSUME call'[c].pc \in InFlight, call'[d].pc # "none", d > c
        PROVE  call'[d].run = loop.run /\ call'[d].round = loop.round
    <3>1. c \in n + 1 .. n + m
      BY <1>13, <2>1
    <3>2. d \in n + 1 .. n + m
      BY <1>2, <1>6, <1>7, <2>0, <2>1, <3>1
    <3> QED BY <1>5, <3>2
  <2>2. ASSUME d < c, call'[c].pc \notin {"none", "queued", "dropped"}
        PROVE  call'[c] = call[c] /\ call'[d] = call[d]
    <3>1. c \notin n + 1 .. n + m
      BY <1>5, <2>2
    <3>2. call'[c] = call[c] /\ c <= n
      BY <1>6, <1>7, <2>2, <3>1
    <3>3. d \notin n + 1 .. n + m
      BY <1>2, <2>0, <2>2, <3>2
    <3> QED BY <1>7, <3>2, <3>3
  <2> QED BY <2>1, <2>2 DEF OrderOK, Beside
<1>16. ApprovalsOK'
  BY <1>11, ApprovalsStay
<1>17. LoopOK'
  BY <1>4 DEF LoopOK
<1>18. Counted(n + m)'
  <2>1. \A c \in Calls : call'[c].pc # "none" <=> c <= n + m
    <3>1. \A c \in Calls : c \in n + 1 .. n + m => call'[c].pc # "none"
      BY <1>5
    <3> QED BY <1>2, <1>6, <1>7, <3>1 DEF Calls
  <2>2. loop.round <= MaxTurns + n + 1
    BY <1>1 DEF Counted
  <2>3. ASSUME NEW c \in Calls
        PROVE  call'[c].round <= MaxTurns + (n + m)
    <3>1. CASE c \in n + 1 .. n + m
      BY <1>2, <1>4, <1>5, <2>2, <3>1
    <3>2. CASE c \notin n + 1 .. n + m
      <4>1. call'[c].round = call[c].round /\ call[c].round <= MaxTurns + n /\ call[c].round \in Nat
        BY <1>1, <1>7, <3>2 DEF Counted, TypeOK, CallType
      <4> QED BY <1>2, <4>1
    <3> QED BY <3>1, <3>2
  <2>4. loop'.round <= MaxTurns + (n + m) + (IF loop'.pc = "model" THEN 1 ELSE 0)
    BY <1>2, <1>4, <2>2
  <2> QED BY <2>1, <2>3, <2>4 DEF Counted
<1>19. n + m \in 0 .. MaxCalls
  BY <1>2
<1> QED BY <1>10, <1>12, <1>14, <1>15, <1>16, <1>17, <1>18, <1>19

\* The model calls tools, within the limit or over it.
LEMMA ModelCallsStep ==
    ASSUME IInv, NEW new \in Answers, ModelCalls(new)
    PROVE  IInv'
<1>1. /\ loop.pc = "model" /\ loop.run # 0 /\ loop \in LoopType
      /\ UNCHANGED <<rules, approvals, canceller, outside>> /\ outside' \in Nat
  BY DEF ModelCalls, IInv, LoopOK, TypeOK
<1>2. CASE RunEnds("failed")
  BY <1>1, <1>2, RunEndsStep DEF Ends
<1>3. CASE /\ \E outcome \in Outcomes : call' = Queued(new, outcome)
           /\ loop' \in {[loop EXCEPT !.pc = "batch"], [loop EXCEPT !.pc = "batch", !.final = TRUE]}
           /\ UNCHANGED run
  <2>1. PICK outcome \in Outcomes : call' = Queued(new, outcome)
    BY <1>3
  <2>2. /\ loop' \in LoopType /\ loop'.pc = "batch"
        /\ loop'.run = loop.run /\ loop'.round = loop.round
    BY <1>1, <1>3 DEF LoopType
  <2> QED BY <1>1, <1>3, <2>1, <2>2, QueuedStep
<1>4. "none" \in Outcomes /\ "tool_budget_exhausted" \in Outcomes
  BY DEF Outcomes
<1> QED BY <1>2, <1>3, <1>4 DEF ModelCalls

\* What a call raised ends the run.
LEMMA BatchRaisesStep ==
    ASSUME IInv, NEW c \in Calls, BatchRaises(c)
    PROVE  IInv'
<1>1. /\ loop.run # 0 /\ UNCHANGED <<rules, approvals, canceller, outside>> /\ RunEnds("failed")
      /\ outside' \in Nat
  BY DEF BatchRaises, At, IInv, LoopOK, TypeOK
<1> QED BY <1>1, RunEndsStep DEF Ends

\* The task of the run is cancelled.
LEMMA TaskCancelledStep ==
    ASSUME IInv, TaskCancelled
    PROVE  IInv'
<1>1. loop.run # 0 /\ UNCHANGED <<rules, approvals, canceller>>
  BY DEF TaskCancelled, IInv, LoopOK
<1>2. PICK how \in Ends : RunEnds(how) /\ how # "completed"
  BY DEF TaskCancelled, Ends
<1>3. outside' \in Nat
  BY EventCounts DEF TaskCancelled
<1> QED BY <1>1, <1>2, <1>3, RunEndsStep

-----------------------------------------------------------------------------
(* The theorems.                                                           *)

\* The inductive invariant holds at the start, and every step keeps it.
LEMMA InitIInv == Init => IInv
<1> SUFFICES ASSUME Init
             PROVE  IInv
  OBVIOUS
<1> USE DEF Init
<1>1. /\ loop.pc = "idle" /\ loop.run = 0 /\ loop.round = 0 /\ loop \in LoopType
  BY DEF Idle, LoopType
<1>2. /\ NoRun \in RunType /\ NoRun.how = "none"
  BY DEF NoRun, RunType
<1>3. /\ NoCall.pc = "none" /\ NoCall.run = 0 /\ NoCall.effect = FALSE /\ NoCall.future = "none"
      /\ NoCall.round = 0 /\ NoCall.file = FALSE /\ NoCall.artifact = FALSE
      /\ \A a \in Permissions : NoCall.prompt[a] = "none"
  BY DEF NoCall
<1>4. TypeOK
  BY <1>1, <1>2, NoCallType, ToolCallsAssumption DEF TypeOK
<1> HIDE DEF NoCall, NoRun
<1>5. ASSUME NEW c \in Calls
      PROVE  RowOK(call[c]) /\ ConsentOK(c) /\ RoundOK(c)
  BY <1>3 DEF RowOK, AskOK, RecordOK, EffectOK, ConsentOK, RoundOK, InFlight, Preparing,
              Executing, Closing, Asking
<1>6. \A c, d \in Calls : OrderOK(c, d)
  BY <1>3 DEF OrderOK
<1>7. ApprovalsOK /\ LoopOK
  BY <1>1, <1>2 DEF ApprovalsOK, LoopOK
<1>8. MaxTurns \in Nat /\ MaxCalls \in Nat
  BY ToolCallsAssumption
<1>9. Counted(0) /\ 0 \in 0 .. MaxCalls
  BY <1>1, <1>3, <1>8 DEF Counted, Calls
<1> QED BY <1>4, <1>5, <1>6, <1>7, <1>9 DEF IInv

\* One case for each disjunct of Next.
LEMMA NextIInv == IInv /\ [Next]_vars => IInv'
<1> SUFFICES ASSUME IInv, [Next]_vars
             PROVE  IInv'
  OBVIOUS
<1>1. CASE UNCHANGED vars
  <2>1. TypeOK' /\ ApprovalsOK' /\ LoopOK' /\ \E n \in 0 .. MaxCalls : Counted(n)'
    BY <1>1 DEF vars, IInv, TypeOK, ApprovalsOK, LoopOK, Counted
  <2>2. \A c, d \in Calls : OrderOK(c, d)'
    BY <1>1 DEF vars, IInv, OrderOK, Beside, Batch
  <2>3. \A c \in Calls : RowOK(call[c])' /\ RoundOK(c)'
    BY <1>1 DEF vars, IInv, RoundOK
  <2>4. \A c \in Calls : ConsentOK(c)'
    BY <1>1 DEF vars, IInv, ConsentOK, Allowed, Grantor, Beside, Batch
  <2> QED BY <2>1, <2>2, <2>3, <2>4 DEF IInv
<1>2. CASE \E r \in Runs, source \in Sources, limit \in Limits : StartRun(r, source, limit)
  BY <1>2, StartRunStep
<1>3. CASE Turn \/ ModelEnds \/ BatchEnds
  BY <1>3, TurnStep, ModelEndsStep, BatchEndsStep
<1>4. CASE \E new \in Answers : ModelCalls(new)
  BY <1>4, ModelCallsStep
<1>5. CASE \E c \in Calls : CallStep(c)
  <2>1. PICK c \in Calls : CallStep(c)
    BY <1>5
  <2> QED BY <2>1, OneCallStep, BatchRaisesStep, StoreFailsStep
<1>6. CASE \E c \in Calls, reply \in {"once", "always", "rejected"} : Reply(c, reply)
  BY <1>6, ReplyStep DEF Replies
<1>7. CASE \E r \in Runs : RequestCancel(r) \/ ReconcileRun(r)
  BY <1>7, RequestCancelStep, ReconcileRunStep
<1>8. CASE CancelSession \/ TaskCancelled \/ Crash \/ Restart
  BY <1>8, CancelSessionStep, TaskCancelledStep, CrashStep, RestartStep
<1> QED BY <1>1, <1>2, <1>3, <1>4, <1>5, <1>6, <1>7, <1>8 DEF Next

\* The inductive invariant holds in every state, for any tools called, rules, limits, turns
\* and events.
THEOREM InvariantHolds == Spec => []IInv
<1>1. Init => IInv
  BY InitIInv
<1>2. IInv /\ [Next]_vars => IInv'
  BY NextIInv
<1> QED BY <1>1, <1>2, PTL DEF Spec

\* The rows and what the loop does with them always have their types.
THEOREM TypeCorrect == Spec => []TypeOK
<1>1. IInv => TypeOK
  BY DEF IInv
<1> QED BY <1>1, InvariantHolds, PTL

\* Whatever interrupts a call, no row and no part of it denies what its tool did.
THEOREM EffectsAreRecorded == Spec => []EffectsAreOnRecord
<1>1. IInv => EffectsAreOnRecord
  BY DEF IInv, RowOK, EffectOK, EffectsAreOnRecord
<1> QED BY <1>1, InvariantHolds, PTL

\* No tool acts without the consent of the rules, of the user for this call, or of an
\* "always" of the user for an earlier call or one beside it.
THEOREM ConsentComesFirst == Spec => []ConsentBeforeEffect
<1>1. ASSUME IInv, NEW c \in Calls, call[c].effect,
             NEW i \in DOMAIN Asks(call[c].tool, call[c].outside)
      PROVE  Allowed(c, Asks(call[c].tool, call[c].outside)[i])
  <2>1. call[c].tool \in DOMAIN Contracts /\ call[c].outside \in BOOLEAN
    BY <1>1 DEF IInv, TypeOK, RowOK, EffectOK, CallType, Tools
  <2>2. Asks(call[c].tool, call[c].outside)[i] \in AskedFor(call[c].tool, call[c].outside)
    BY <1>1, <2>1, AsksAll DEF Rest
  <2> QED BY <1>1, <2>2 DEF IInv, ConsentOK
<1>2. IInv => ConsentBeforeEffect
  BY <1>1 DEF ConsentBeforeEffect, Allowed, Grantor
<1> QED BY <1>2, InvariantHolds, PTL

\* The model is asked again only with every call of its run answered, and a run that is
\* completed with one unanswered was stopped by its parent.
THEOREM NoRoundWithoutAnswers == Spec => []NextRoundIsAnswered
<1>1. ASSUME IInv, NEW c \in Calls, call[c].pc = "answered"
      PROVE  Kept(c)
  BY <1>1 DEF IInv, RowOK, RecordOK, Kept
<1>2. ASSUME IInv, NEW c \in Calls, loop.pc = "model", call[c].run = loop.run
      PROVE  call[c].pc = "answered"
  BY <1>2 DEF IInv, RoundOK, LoopOK
<1>3. ASSUME IInv, NEW c \in Calls, call[c].run # 0, run[call[c].run].how = "completed"
      PROVE  call[c].pc = "answered"
  BY <1>3 DEF IInv, RoundOK
<1>4. IInv => NextRoundIsAnswered
  BY <1>1, <1>2, <1>3 DEF NextRoundIsAnswered, StatusOfRun
<1> QED BY <1>4, InvariantHolds, PTL

\* A run that is cancelled never makes a call of a later round.
THEOREM CancelIsSeenBeforeTheNextRound == Spec => []CancelStopsNextRound
<1>1. IInv => CancelStopsNextRound
  BY DEF IInv, RowOK, RoundOK, CancelStopsNextRound
<1> QED BY <1>1, InvariantHolds, PTL
=============================================================================
