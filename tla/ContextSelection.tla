-------------------------- MODULE ContextSelection --------------------------
(***************************************************************************)
(* What the model is shown of a session: ContextManager of                 *)
(* memory/context.py, which fits the history into a budget of tokens, and  *)
(* the part of loop/session_loop.py that turns the selection into a        *)
(* request and builds it again when the provider refuses it.               *)
(*                                                                         *)
(* A run is one unit of the history: the user's request, one assistant     *)
(* message with the rounds of all its turns, and a message for each tool   *)
(* result.  A round is a call, after the opaque state the provider gave    *)
(* with it, if any.  Tokens are counted in small numbers; every message    *)
(* and every call costs one more than what is in it.                       *)
(***************************************************************************)
EXTENDS Integers, Sequences, FiniteSets, FiniteSetsExt, SequencesExt, Functions

CONSTANTS
    Sizes,           \* of requests, calls, states and results
    Levels,          \* the lengths a part is cut to, from the longest
    CompactLevels,   \* those that are tried on what compaction leaves
    Limit,           \* max_input_tokens less what is reserved for the answer
    RetryLimit,      \* the same for overflow_retry_input_tokens
    FixedCosts,      \* of the system text with the memory in it
    MaxAsks, MaxRounds      \* bounds, over all runs

ASSUME ContextAssumption ==
    /\ Sizes \cup FixedCosts \subseteq Nat
    /\ {Levels, CompactLevels} \subseteq Seq(Nat)
    /\ Range(CompactLevels) \subseteq Range(Levels) /\ CompactLevels # <<>>
    /\ {Limit, RetryLimit} \subseteq Nat \ {0}
    /\ {MaxAsks, MaxRounds} \subseteq Nat

VARIABLES
    units,     \* the runs of the session, the oldest first
    phase,     \* what the newest run is doing
    fixed,     \* the cost of the system text of this turn
    replay,    \* the run still sends the states it was given
    request    \* the request the provider has: a unit for each run that is shown

context == <<units, phase, fixed, replay, request>>

None == [i \in {} |-> 0]
NewUnit(size) == [request |-> size, states |-> None, calls |-> None, results |-> None]
NoUnit    == <<>>     \* nothing that fits
NoRequest == [units |-> None, budget |-> 0, retry |-> FALSE]

ContextInit ==
    /\ units = <<>>
    /\ phase = "idle"
    /\ fixed = 0
    /\ replay = TRUE
    /\ request = NoRequest

-----------------------------------------------------------------------------
(* Selection.                                                              *)

\* The function with this value for i.
With(f, i, value) == [j \in DOMAIN f \cup {i} |-> IF j = i THEN value ELSE f[j]]

Tokens(f, each) == SumFunction([i \in DOMAIN f |-> each + f[i]])

\* _message_tokens over the messages of a unit.
Cost(u) == 2 + u.request + Tokens(u.calls, 1) + Tokens(u.states, 0) + Tokens(u.results, 1)

Cut(f, level) == [i \in DOMAIN f |-> Min({f[i], level})]

\* _truncate_parts: every text, input, output and state is cut.
Truncated(u, level) ==
    [u EXCEPT !.request = Min({@, level}), !.calls = Cut(@, level),
              !.states = Cut(@, level), !.results = Cut(@, level)]

Newest(k, S) == {i \in S : Cardinality({j \in S : j >= i}) <= k}

\* A mutant: a result is left out without the call it answers.
CompactedCalls(u, k) ==
    [u EXCEPT !.states = None, !.results = Restrict(@, Newest(k, DOMAIN u.results))]

\* The newest k results with their calls, and no state.
Compacted(u, k) ==
    LET kept == Newest(k, DOMAIN u.results)
    IN  [u EXCEPT !.states = None, !.calls = Restrict(@, kept), !.results = Restrict(@, kept)]

\* The lengths are tried from the longest.
Fitting(u, levels, left) == {l \in DOMAIN levels : Cost(Truncated(u, levels[l])) <= left}
FirstFit(u, levels, left) == Truncated(u, levels[Min(Fitting(u, levels, left))])

\* _compact_tool_cycles: as many results as can be kept, but never all of them.
Keeps(u, left) == {k \in 0 .. Cardinality(DOMAIN u.results) - 1 :
                      Fitting(Compacted(u, k), CompactLevels, left) # {}}
CompactToolCycles(u, left) ==
    IF Keeps(u, left) = {} THEN NoUnit
    ELSE FirstFit(Compacted(u, Max(Keeps(u, left))), CompactLevels, left)

TruncateUnit(u, left) ==
    IF Fitting(u, Levels, left) = {} THEN CompactToolCycles(u, left)
    ELSE FirstFit(u, Levels, left)

Spent(selected) == SumFunction([run \in DOMAIN selected |-> Cost(selected[run])])

\* One step of _select_recent_units: the unit of a run goes before those
\* selected so far, as complete as what is left of the budget allows, or is
\* left out.
Selected(run, selected, budget) ==
    LET left == budget - Spent(selected)
        unit == IF Cost(units[run]) <= left THEN units[run] ELSE TruncateUnit(units[run], left)
    IN  IF unit = NoUnit THEN selected ELSE With(selected, run, unit)

\* From the newest run to the oldest.
SelectRecent(budget) ==
    FoldRightDomain(LAMBDA run, selected : Selected(run, selected, budget), units, None)

\* history_budget is never less than one token.
HistoryBudget(limit) == Max({1, limit - fixed})

-----------------------------------------------------------------------------
(* Requests.                                                               *)

Current == Len(units)

\* _to_openai_messages sends the states of the run under way only, and none
\* after the provider has refused one.
Projected(selected) ==
    [run \in DOMAIN selected |->
        IF run = Current /\ replay THEN selected[run]
        ELSE [selected[run] EXCEPT !.states = None]]

RoundsSoFar == SumFunction([run \in DOMAIN units |-> Cardinality(DOMAIN units[run].calls)])

\* A run starts with the user's request.
Ask(size) ==
    /\ phase = "idle" /\ Len(units) < MaxAsks
    /\ units' = Append(units, NewUnit(size))
    /\ replay' = TRUE
    /\ phase' = "turn"
    /\ UNCHANGED <<fixed, request>>

\* ContextManager.build for a turn, with the limit of the agent.
Build(cost) ==
    /\ phase = "turn"
    /\ fixed' = cost
    /\ request' = [units |-> Projected(SelectRecent(HistoryBudget(Limit)')),
                   budget |-> HistoryBudget(Limit)', retry |-> FALSE]
    /\ phase' = "sent"
    /\ UNCHANGED <<units, replay>>

\* The provider finds the request too long, once in a turn.
Overflow ==
    /\ phase = "sent" /\ ~request.retry
    /\ request' = [units |-> Projected(SelectRecent(HistoryBudget(RetryLimit))),
                   budget |-> HistoryBudget(RetryLimit), retry |-> TRUE]
    /\ UNCHANGED <<units, phase, fixed, replay>>

\* invalid_encrypted_content: the states are quarantined, and the whole
\* history is sent, past the Context Manager.
StateRefused ==
    /\ phase = "sent" /\ ~request.retry
    /\ \E run \in DOMAIN request.units : request.units[run].states # None
    /\ replay' = FALSE
    /\ request' = [units |-> [run \in DOMAIN units |-> [units[run] EXCEPT !.states = None]],
                   budget |-> Spent(units), retry |-> TRUE]
    /\ UNCHANGED <<units, phase, fixed>>

\* The model calls a tool, and the provider may give a state with the call.
Call(size, states) ==
    LET round == Cardinality(DOMAIN units[Current].calls) + 1
    IN  /\ phase = "sent" /\ RoundsSoFar < MaxRounds
        /\ units' = [units EXCEPT ![Current].calls = With(@, round, size),
                                  ![Current].states = IF round \in states THEN With(@, round, size)
                                                      ELSE @]
        /\ phase' = "tool"
        /\ fixed' = 0 /\ request' = NoRequest
        /\ UNCHANGED replay

\* The tool's result, as a message of its own.
Result(size) ==
    /\ phase = "tool"
    /\ units' = [units EXCEPT ![Current].results =
                    With(@, Cardinality(DOMAIN units[Current].calls), size)]
    /\ phase' = "turn"
    /\ UNCHANGED <<fixed, replay, request>>

\* The model's last answer, a second refusal, or a cancellation, which may
\* leave a call without a result.
End ==
    /\ phase # "idle"
    /\ phase' = "idle"
    /\ fixed' = 0 /\ request' = NoRequest
    /\ UNCHANGED <<units, replay>>

ContextNext ==
    \/ \E size \in Sizes : Ask(size) \/ Result(size)
    \/ \E size \in Sizes, states \in {{}, 1 .. MaxRounds} : Call(size, states)
    \/ \E cost \in FixedCosts : Build(cost)
    \/ Overflow \/ StateRefused \/ End

-----------------------------------------------------------------------------
(* Properties.                                                             *)

Shortest == Last(CompactLevels)
NewestCanFit == /\ units[Current].results # None
                /\ 2 + Min({units[Current].request, Shortest}) <= request.budget

\* What is sent fits the budget it was built for; in it, every result follows
\* its call; a run that lost rounds lost its states too, and the calls that
\* have no result; and the run under way is not left out in favour of older
\* ones when its request and some of its rounds could have been sent.
SelectionIsSound ==
    phase = "sent" =>
        /\ Spent(request.units) <= request.budget
        /\ \A run \in DOMAIN request.units :
              LET shown == request.units[run]
              IN  /\ DOMAIN shown.results \subseteq DOMAIN shown.calls
                  /\ DOMAIN shown.calls # DOMAIN units[run].calls =>
                        shown.states = None /\ DOMAIN shown.calls = DOMAIN shown.results
        /\ NewestCanFit => Current \in DOMAIN request.units
=============================================================================
