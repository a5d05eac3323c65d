------------------------- MODULE RunLifecycleProofs -------------------------
(* Proofs about RunLifecycle, for any processes, runs, turns and faults.   *)
EXTENDS RunLifecycle, TLAPS

\* A process that has no run, one whose run has no message yet, and one that works on
\* the session since it has the lease.
Unbound  == {"idle", "down", "creating"}
Unopened == {"starting", "opening", "failing"}
Working  == {"opening"} \cup Loop

ProcOK(p) ==
    /\ proc[p].run = 0 <=> proc[p].pc \in Unbound
    /\ proc[p].beat => proc[p].run # 0
    /\ proc[p].run # 0 => run[proc[p].run].status # "none"
    /\ proc[p].run # 0 /\ run[proc[p].run].status \in Terminal => run[proc[p].run].event
    /\ proc[p].pc \in Unopened => ~run[proc[p].run].message
    /\ proc[p].pc \in {"guard_signal", "before_model"} /\ Limited(p) => proc[p].turns < MaxTurns
    /\ proc[p].pc \in {"before_tools", "tools", "asking", "waiting", "answered", "executing"}
           => proc[p].calls > 0

RowOK(row) ==
    /\ row.status \notin Owned => row.owner = NULL
    /\ row.status = "none" => ~row.message
    /\ row.status \in Terminal /\ row.message => row.event
    /\ row.event => row.status \in Terminal

\* No two processes execute one run.
Apart == \A p, q \in Procs : proc[p].run = proc[q].run /\ proc[p].run # 0 => p = q

\* Until a process is held up or a transaction fails, whoever works on the session
\* heartbeats, and the run it owns has the lease.
Holds(p) ==
    LET r == proc[p].run
    IN  /\ proc[p].beat /\ lease = r
        /\ run[r].owner = p /\ run[r].status \in Owned /\ run[r].live

WorkersHold ==
    used.stalls = 0 /\ used.faults = 0 => \A p \in Procs : proc[p].pc \in Working => Holds(p)

\* The inductive invariant.
IInv ==
    /\ TypeOK
    /\ \A p \in Procs : ProcOK(p)
    /\ \A r \in Runs : RowOK(run[r])
    /\ Apart
    /\ LeaseNamesOwnedRun
    /\ WorkersHold

-----------------------------------------------------------------------------
(* What the operators that move a process do to its record.                *)

Places   == {"idle", "down", "creating", "starting", "opening", "stopping", "finishing",
             "failing"} \cup Loop
ProcType == [pc : Places, run : {0} \cup Runs, turns : 0 .. MaxTurns, calls : 0 .. MaxCalls,
             beat : BOOLEAN, reason : Reasons \cup {NULL}, handler : BOOLEAN]
RunType  == [status : RunStatus, owner : Procs \cup {NULL, "gone"}, live : BOOLEAN,
             cancel : BOOLEAN, message : BOOLEAN, event : BOOLEAN]

\* Only p moves, to this place, and its run, heartbeat and counts stay.
Moved(p, place) ==
    /\ proc' \in [Procs -> ProcType]
    /\ \A q \in Procs \ {p} : proc'[q] = proc[q]
    /\ proc'[p].pc = place
    /\ proc'[p].run = proc[p].run /\ proc'[p].beat = proc[p].beat
    /\ proc'[p].turns = proc[p].turns /\ proc'[p].calls = proc[p].calls

\* The places are where a process may be.
LEMMA GotoMoves ==
    ASSUME TypeOK, NEW p \in Procs, NEW place \in Places, Goto(p, place)
    PROVE  Moved(p, place)
BY DEF TypeOK, Goto, Moved, ProcType, Places

\* Finishing for a reason moves the process to the end of its run.
LEMMA FinishAsMoves ==
    ASSUME TypeOK, NEW p \in Procs, NEW reason \in Reasons, NEW handler \in BOOLEAN,
           FinishAs(p, reason, handler)
    PROVE  Moved(p, "finishing")
<1> DEFINE at  == [proc EXCEPT ![p].pc = "finishing"]
           why == [at EXCEPT ![p].reason = reason]
           who == [why EXCEPT ![p].handler = handler]
<1>1. /\ at \in [Procs -> ProcType] /\ at[p].pc = "finishing"
      /\ \A q \in Procs \ {p} : at[q] = proc[q]
      /\ at[p].run = proc[p].run /\ at[p].beat = proc[p].beat
      /\ at[p].turns = proc[p].turns /\ at[p].calls = proc[p].calls
  <2> DEFINE row == [proc[p] EXCEPT !.pc = "finishing"]
  <2>1. proc \in [Procs -> ProcType]
    BY DEF TypeOK, ProcType, Places
  <2>2. "finishing" \in Places /\ proc[p] \in ProcType
    BY <2>1 DEF Places
  <2>3. /\ row \in ProcType /\ row.pc = "finishing"
        /\ row.run = proc[p].run /\ row.beat = proc[p].beat
        /\ row.turns = proc[p].turns /\ row.calls = proc[p].calls
    BY <2>2 DEF ProcType
  <2>4. at = [proc EXCEPT ![p] = row]
    BY <2>1
  <2> HIDE DEF row, at
  <2> QED BY <2>1, <2>3, <2>4
<1>2. proc' = who
  BY DEF FinishAs
<1> HIDE DEF at
<1>3. /\ why \in [Procs -> ProcType] /\ why[p].pc = "finishing"
      /\ \A q \in Procs \ {p} : why[q] = proc[q]
      /\ why[p].run = proc[p].run /\ why[p].beat = proc[p].beat
      /\ why[p].turns = proc[p].turns /\ why[p].calls = proc[p].calls
  BY <1>1 DEF ProcType
<1> HIDE DEF why
<1>4. /\ who \in [Procs -> ProcType] /\ who[p].pc = "finishing"
      /\ \A q \in Procs \ {p} : who[q] = proc[q]
      /\ who[p].run = proc[p].run /\ who[p].beat = proc[p].beat
      /\ who[p].turns = proc[p].turns /\ who[p].calls = proc[p].calls
  BY <1>3 DEF ProcType
<1> QED BY <1>2, <1>4 DEF Moved

\* A process that leaves its run is idle.
LEMMA LeaveMoves ==
    ASSUME RunLifecycleAssumption, TypeOK, NEW p \in Procs, Leave(p)
    PROVE  /\ proc' \in [Procs -> ProcType]
           /\ \A q \in Procs \ {p} : proc'[q] = proc[q]
           /\ proc'[p].pc = "idle" /\ proc'[p].run = 0 /\ ~proc'[p].beat
<1>1. Idle \in ProcType /\ Idle.pc = "idle" /\ Idle.run = 0 /\ ~Idle.beat
  BY DEF Idle, ProcType, Places, RunLifecycleAssumption
<1> QED BY <1>1 DEF Leave, TypeOK, ProcType, Places

-----------------------------------------------------------------------------
(* The steps preserve the invariant.                                       *)

Quiet == used.stalls = 0 /\ used.faults = 0

\* What a step may do to the row of a run that another process executes.
Follows(new, old) ==
    /\ old.status # "none" => new.status # "none"
    /\ new.message => old.message
    /\ new.status \in Terminal => new.event \/ (old.status \in Terminal /\ ~old.event)

\* What a step of one process must keep to, for the runs and the other processes.
LEMMA Preserved ==
    ASSUME IInv, TypeOK', NEW p \in Procs,
           \A q \in Procs \ {p} : proc'[q] = proc[q],
           ProcOK(p)', \A r \in Runs : RowOK(run'[r]),
           \A q \in Procs \ {p} : proc'[p].run # 0 => proc'[p].run # proc[q].run,
           \A q \in Procs \ {p} :
               proc[q].run # 0 => Follows(run'[proc[q].run], run[proc[q].run]),
           LeaseNamesOwnedRun',
           Quiet' => Quiet,
           Quiet' => \A q \in Procs \ {p} : proc[q].pc \in Working /\ Holds(q) => Holds(q)',
           Quiet' => (proc'[p].pc \in Working => Holds(p)')
    PROVE  IInv'
<1> USE DEF IInv
<1>1. ASSUME NEW q \in Procs
      PROVE  ProcOK(q)'
  <2>1. CASE q = p
    BY <2>1
  <2>2. CASE q # p
    <3>1. proc'[q] = proc[q] /\ ProcOK(q) /\ proc[q].run \in {0} \cup Runs
      BY <2>2 DEF TypeOK
    <3>2. proc[q].pc \in Unopened => proc[q].run # 0
      BY <3>1 DEF ProcOK, Unopened, Unbound
    <3> QED BY <2>2, <3>1, <3>2 DEF ProcOK, Limited, Follows
  <2> QED BY <2>1, <2>2
<1>2. Apart'
  <2> SUFFICES ASSUME NEW q \in Procs, NEW s \in Procs, q # s,
                      proc'[q].run = proc'[s].run, proc'[q].run # 0
               PROVE  FALSE
    BY DEF Apart
  <2>1. CASE q = p
    BY <2>1
  <2>2. CASE s = p
    BY <2>2
  <2>3. CASE q # p /\ s # p
    BY <2>3 DEF Apart
  <2> QED BY <2>1, <2>2, <2>3
<1>3. WorkersHold'
  <2> SUFFICES ASSUME Quiet', NEW q \in Procs, proc'[q].pc \in Working
               PROVE  Holds(q)'
    BY DEF WorkersHold, Quiet
  <2>1. CASE q = p
    BY <2>1
  <2>2. CASE q # p
    BY <2>2 DEF WorkersHold, Quiet
  <2> QED BY <2>1, <2>2
<1> QED BY <1>1, <1>2, <1>3

\* A step that leaves the tables alone.
LEMMA QuietStep ==
    ASSUME IInv, TypeOK', NEW p \in Procs, run' = run, lease' = lease,
           \A q \in Procs \ {p} : proc'[q] = proc[q],
           proc'[p].run \in {0, proc[p].run}, ProcOK(p)', Quiet' => Quiet,
           proc'[p].pc \in Working =>
               /\ proc[p].pc \in Working /\ proc'[p].run = proc[p].run
               /\ Quiet' => proc'[p].beat = proc[p].beat
    PROVE  IInv'
<1> USE DEF IInv
<1>1. \A r \in Runs : RowOK(run'[r])
  BY DEF RowOK
<1>2. \A q \in Procs \ {p} : proc'[p].run # 0 => proc'[p].run # proc[q].run
  BY DEF Apart
<1>3. LeaseNamesOwnedRun'
  BY DEF LeaseNamesOwnedRun
<1>4. \A q \in Procs \ {p} : Holds(q) => Holds(q)'
  BY DEF Holds
<1>5. Quiet' => (proc'[p].pc \in Working => Holds(p)')
  BY DEF WorkersHold, Quiet, Holds
<1>6. \A q \in Procs \ {p} : Follows(run'[proc[q].run], run[proc[q].run])
  BY DEF Follows
<1> QED BY <1>1, <1>2, <1>3, <1>4, <1>5, <1>6, Preserved

\* A step of a process on the row of its own run, which may give up the lease.
LEMMA OwnRowStep ==
    ASSUME IInv, TypeOK', NEW p \in Procs, NEW row \in RunType,
           proc[p].run # 0, run' = [run EXCEPT ![proc[p].run] = row],
           \A q \in Procs \ {p} : proc'[q] = proc[q],
           proc'[p].run \in {0, proc[p].run}, ProcOK(p)',
           RowOK(row), row.status # "none",
           lease' = lease \/ (lease = proc[p].run /\ lease' = 0),
           lease' = proc[p].run => row.status \in Owned /\ row.owner # NULL,
           Quiet' => Quiet,
           Quiet' => (proc'[p].pc \in Working => Holds(p)')
    PROVE  IInv'
<1> DEFINE r == proc[p].run
<1>1. r \in Runs /\ run'[r] = row /\ \A s \in Runs \ {r} : run'[s] = run[s]
  BY DEF IInv, TypeOK
<1>2. \A q \in Procs \ {p} : proc[q].run # r
  BY DEF IInv, Apart
<1>3. \A q \in Procs \ {p} : proc[q].run # 0 => proc[q].run \in Runs \ {r}
  BY <1>2 DEF IInv, TypeOK
<1>4. \A s \in Runs : RowOK(run'[s])
  BY <1>1 DEF IInv, RowOK
<1>5. LeaseNamesOwnedRun'
  BY <1>1 DEF IInv, LeaseNamesOwnedRun, TypeOK
<1>6. ASSUME NEW q \in Procs \ {p}, proc[q].pc \in Working, Holds(q)
      PROVE  Holds(q)'
  <2>1. proc[q].run # 0
    BY <1>6 DEF IInv, ProcOK, Working, Unbound, Loop
  <2>2. /\ proc[q].run \in Runs \ {r} /\ run'[proc[q].run] = run[proc[q].run]
        /\ proc'[q] = proc[q]
    BY <1>1, <1>3, <2>1
  <2>3. lease' = proc[q].run
    BY <1>6, <2>2 DEF Holds
  <2> QED BY <1>6, <2>2, <2>3 DEF Holds
<1>7. ASSUME NEW q \in Procs \ {p}, proc[q].run # 0
      PROVE  Follows(run'[proc[q].run], run[proc[q].run])
  BY <1>1, <1>3, <1>7 DEF Follows, IInv, ProcOK
<1> QED BY <1>2, <1>4, <1>5, <1>6, <1>7, Preserved

\* A step on rows that no process takes part in: each row keeps its owner if it is owned,
\* and no row with a live lease loses it or its status.
LEMMA TableStep ==
    ASSUME IInv, TypeOK', proc' = proc, \A r \in Runs : RowOK(run'[r]),
           \A r \in Runs : Follows(run'[r], run[r]),
           LeaseNamesOwnedRun', Quiet' => Quiet,
           Quiet' => \A p \in Procs : proc[p].pc \in Working /\ Holds(p) => Holds(p)'
    PROVE  IInv'
<1> USE DEF IInv
<1>1. ASSUME NEW p \in Procs
      PROVE  ProcOK(p)'
  <2>1. ProcOK(p) /\ proc[p].run \in {0} \cup Runs
    BY DEF TypeOK
  <2>2. proc[p].pc \in Unopened => proc[p].run # 0
    BY <2>1 DEF ProcOK, Unopened, Unbound
  <2> QED BY <2>1, <2>2 DEF ProcOK, Limited, Follows
<1>2. Apart'
  BY DEF Apart
<1>3. WorkersHold'
  BY DEF WorkersHold, Quiet
<1> QED BY <1>1, <1>2, <1>3

UsedType == [cancels : 0 .. MaxCancels, interrupts : 0 .. MaxInterrupts,
             crashes : 0 .. MaxCrashes, stalls : 0 .. MaxStalls, faults : 0 .. MaxFaults]

\* The types, variable by variable.
LEMMA Types ==
    /\ TypeOK <=> /\ run \in [Runs -> RunType] /\ lease \in {0} \cup Runs
                 /\ proc \in [Procs -> ProcType] /\ signal \in [Procs -> Signals \cup {NULL}]
                 /\ canceller \in [Procs -> {"none", "signal", "prompts"}]
                 /\ used \in UsedType
    /\ TypeOK' <=> /\ run' \in [Runs -> RunType] /\ lease' \in {0} \cup Runs
                  /\ proc' \in [Procs -> ProcType] /\ signal' \in [Procs -> Signals \cup {NULL}]
                  /\ canceller' \in [Procs -> {"none", "signal", "prompts"}]
                  /\ used' \in UsedType
BY DEF TypeOK, RunType, ProcType, Places, UsedType

Counted == {"before_tools", "tools", "asking", "waiting", "answered", "executing"}

\* A step that only takes a process from one place to another, inside the same part of
\* its life.
LEMMA MoveStep ==
    ASSUME IInv, NEW p \in Procs, NEW place \in Places, Moved(p, place),
           run' = run, lease' = lease, used' = used,
           signal' \in [Procs -> Signals \cup {NULL}],
           canceller' \in [Procs -> {"none", "signal", "prompts"}],
           place \in Unbound <=> proc[p].pc \in Unbound,
           place \in Unopened => proc[p].pc \in Unopened,
           place \in Working => proc[p].pc \in Working,
           place \in {"guard_signal", "before_model"} /\ Limited(p) => proc[p].turns < MaxTurns,
           place \in Counted => proc[p].calls > 0
    PROVE  IInv'
<1>1. TypeOK'
  BY Types DEF IInv, Moved
<1>2. ProcOK(p)'
  BY DEF IInv, ProcOK, Moved, Counted, Limited
<1>3. Quiet' => Quiet
  BY DEF Quiet
<1> QED BY <1>1, <1>2, <1>3, QuietStep DEF Moved

\* Accepting a request binds the process to no run yet.
LEMMA AcceptStep ==
    ASSUME IInv, RunLifecycleAssumption, NEW p \in Procs, Accept(p)
    PROVE  IInv'
<1>1. Moved(p, "creating")
  BY GotoMoves DEF Accept, IInv, Places
<1>2. signal' \in [Procs -> Signals \cup {NULL}] /\ canceller' \in [Procs -> {"none", "signal", "prompts"}]
  BY Types DEF Accept, IInv
<1> QED BY <1>1, <1>2, MoveStep DEF Accept, At, Unbound, Unopened, Working, Loop, Counted, Places

\* The guard, the stop and the start and answer of a call only move the process.
LEMMA LoopSteps ==
    ASSUME IInv, RunLifecycleAssumption, NEW p \in Procs,
           Guard(p) \/ GuardSignal(p) \/ Stop(p) \/ StartCall(p) \/ Reply(p)
    PROVE  IInv'
<1>1. TypeOK /\ ProcOK(p)
  BY DEF IInv
<1>2. /\ run' = run /\ lease' = lease /\ used' = used
      /\ signal' \in [Procs -> Signals \cup {NULL}]
      /\ canceller' \in [Procs -> {"none", "signal", "prompts"}]
  BY <1>1, Types DEF Guard, GuardSignal, Stop, StartCall, Reply
<1>3. proc[p].turns \in Nat /\ MaxTurns \in Nat
  BY <1>1, Types DEF ProcType, RunLifecycleAssumption
<1>4. CASE Guard(p)
  <2>1. CASE Limited(p) /\ proc[p].turns >= MaxTurns
    <3>1. Moved(p, "finishing")
      BY <1>1, <1>4, <2>1, FinishAsMoves DEF Guard, Reasons
    <3> QED BY <1>2, <1>4, <3>1, MoveStep
            DEF Guard, At, Unbound, Unopened, Working, Loop, Counted, Places
  <2>2. CASE ~(Limited(p) /\ proc[p].turns >= MaxTurns)
    <3>1. PICK place \in {"stopping", "guard_signal"} : Moved(p, place)
      BY <1>1, <1>4, <2>2, GotoMoves DEF Guard, Places, Loop
    <3> QED BY <1>2, <1>3, <1>4, <2>2, <3>1, MoveStep
            DEF Guard, At, Unbound, Unopened, Working, Loop, Counted, Places
  <2> QED BY <2>1, <2>2
<1>5. CASE GuardSignal(p)
  <2>1. PICK place \in {"stopping", "before_model"} : Moved(p, place)
    BY <1>1, <1>5, GotoMoves DEF GuardSignal, Places, Loop
  <2>2. Limited(p) => proc[p].turns < MaxTurns
    BY <1>1, <1>5 DEF GuardSignal, At, ProcOK
  <2> QED BY <1>2, <1>5, <2>1, <2>2, MoveStep
          DEF GuardSignal, At, Unbound, Unopened, Working, Loop, Counted, Places
<1>6. CASE Stop(p)
  <2>1. (IF signal[p] # NULL THEN signal[p] ELSE "interrupted") \in Reasons
    BY <1>1, Types DEF Reasons
  <2>2. proc[p].handler \in BOOLEAN
    BY <1>1, Types DEF ProcType
  <2>3. Moved(p, "finishing")
    BY <1>1, <1>6, <2>1, <2>2, FinishAsMoves DEF Stop
  <2> QED BY <1>2, <1>6, <2>3, MoveStep
          DEF Stop, At, Unbound, Unopened, Working, Loop, Counted, Places
<1>7. CASE StartCall(p)
  <2>1. PICK place \in {"executing", "asking"} : Moved(p, place)
    BY <1>1, <1>7, GotoMoves DEF StartCall, Places, Loop
  <2>2. proc[p].calls > 0
    BY <1>1, <1>7 DEF StartCall, At, ProcOK
  <2> QED BY <1>2, <1>7, <2>1, <2>2, MoveStep
          DEF StartCall, At, Unbound, Unopened, Working, Loop, Counted, Places
<1>8. CASE Reply(p)
  <2>1. Moved(p, "answered")
    BY <1>1, <1>8, GotoMoves DEF Reply, Places, Loop
  <2>2. proc[p].calls > 0
    BY <1>1, <1>8 DEF Reply, At, ProcOK
  <2> QED BY <1>2, <1>8, <2>1, <2>2, MoveStep
          DEF Reply, At, Unbound, Unopened, Working, Loop, Counted, Places
<1> QED BY <1>4, <1>5, <1>6, <1>7, <1>8

\* A checkpoint counts a turn before the model, or ends the run when it was lost.
LEMMA CheckpointStep ==
    ASSUME IInv, RunLifecycleAssumption, NEW p \in Procs, Checkpoint(p)
    PROVE  IInv'
<1>1. /\ TypeOK /\ ProcOK(p)
      /\ run' = run /\ lease' = lease /\ used' = used /\ signal' = signal /\ canceller' = canceller
  BY DEF IInv, Checkpoint
<1>2. /\ signal' \in [Procs -> Signals \cup {NULL}]
      /\ canceller' \in [Procs -> {"none", "signal", "prompts"}]
  BY <1>1, Types
<1>3. CASE Raise(p)
  <2>1. Moved(p, "finishing")
    BY <1>1, <1>3, FinishAsMoves DEF Raise, Reasons
  <2> QED BY <1>1, <1>2, <2>1, MoveStep
          DEF Checkpoint, At, Unbound, Unopened, Working, Loop, Counted, Places
<1>4. CASE /\ At(p, "before_model")
           /\ proc' = [proc EXCEPT ![p].pc = "model",
                                   ![p].turns = IF Limited(p) THEN @ + 1 ELSE @]
  <2> DEFINE at    == [proc EXCEPT ![p].pc = "model"]
             count == IF Limited(p) THEN proc[p].turns + 1 ELSE proc[p].turns
  <2>1. count \in 0 .. MaxTurns
    BY <1>1, <1>4, Types DEF At, ProcOK, ProcType, RunLifecycleAssumption
  <2>2. /\ at \in [Procs -> ProcType] /\ at[p].pc = "model"
        /\ \A q \in Procs \ {p} : at[q] = proc[q]
        /\ at[p].run = proc[p].run /\ at[p].beat = proc[p].beat
        /\ at[p].turns = proc[p].turns /\ at[p].calls = proc[p].calls
    BY <1>1, Types DEF ProcType, Places, Loop
  <2>3. proc' = [at EXCEPT ![p].turns = count]
    BY <1>4, <2>2
  <2> HIDE DEF at, count
  <2>4. /\ proc' \in [Procs -> ProcType] /\ proc'[p].pc = "model"
        /\ \A q \in Procs \ {p} : proc'[q] = proc[q]
        /\ proc'[p].run = proc[p].run /\ proc'[p].beat = proc[p].beat
    BY <2>1, <2>2, <2>3 DEF ProcType
  <2>5. TypeOK'
    BY <1>1, <1>2, <2>4, Types
  <2>6. ProcOK(p)'
    BY <1>1, <1>4, <2>4 DEF ProcOK, At, Unbound, Unopened
  <2> QED BY <1>1, <1>4, <2>4, <2>5, <2>6, QuietStep DEF At, Quiet, Working, Loop
<1>5. CASE At(p, "before_tools") /\ Goto(p, "tools")
  <2>1. Moved(p, "tools") /\ proc[p].calls > 0
    BY <1>1, <1>5, GotoMoves DEF At, ProcOK, Places, Loop
  <2> QED BY <1>1, <1>2, <1>5, <2>1, MoveStep
          DEF At, Unbound, Unopened, Working, Loop, Counted, Places
<1>6. CASE At(p, "after_tools") /\ Goto(p, "guard")
  <2>1. Moved(p, "guard")
    BY <1>1, <1>6, GotoMoves DEF Places, Loop
  <2> QED BY <1>1, <1>2, <1>6, <2>1, MoveStep
          DEF At, Unbound, Unopened, Working, Loop, Counted, Places
<1> QED BY <1>3, <1>4, <1>5, <1>6 DEF Checkpoint, At

\* An answer of the model moves the process and sets the number of calls.
LEMMA StreamStep ==
    ASSUME IInv, RunLifecycleAssumption, NEW p \in Procs, Stream(p)
    PROVE  IInv'
<1>1. /\ TypeOK /\ ProcOK(p) /\ proc[p].pc = "model"
      /\ run' = run /\ lease' = lease /\ used' = used /\ signal' = signal /\ canceller' = canceller
  BY DEF IInv, Stream, At
<1>2. /\ signal' \in [Procs -> Signals \cup {NULL}]
      /\ canceller' \in [Procs -> {"none", "signal", "prompts"}]
  BY <1>1, Types
<1>3. CASE Goto(p, "stopping")
  <2>1. Moved(p, "stopping")
    BY <1>1, <1>3, GotoMoves DEF Places
  <2> QED BY <1>1, <1>2, <2>1, MoveStep DEF Unbound, Unopened, Working, Loop, Counted, Places
<1>4. CASE \E reason \in {"stop", "error", "provider_stream_interrupted"} :
               FinishAs(p, reason, FALSE)
  <2>1. Moved(p, "finishing")
    BY <1>1, <1>4, FinishAsMoves DEF Reasons
  <2> QED BY <1>1, <1>2, <2>1, MoveStep DEF Unbound, Unopened, Working, Loop, Counted, Places
<1>5. CASE \E n \in 1 .. MaxCalls :
               proc' = [proc EXCEPT ![p].pc = "before_tools", ![p].calls = n]
  <2>1. PICK n \in 1 .. MaxCalls :
            proc' = [proc EXCEPT ![p].pc = "before_tools", ![p].calls = n]
    BY <1>5
  <2> DEFINE at == [proc EXCEPT ![p].pc = "before_tools"]
  <2>2. /\ at \in [Procs -> ProcType] /\ at[p].pc = "before_tools"
        /\ \A q \in Procs \ {p} : at[q] = proc[q]
        /\ at[p].run = proc[p].run /\ at[p].beat = proc[p].beat
    BY <1>1, Types DEF ProcType, Places, Loop
  <2>3. proc' = [at EXCEPT ![p].calls = n]
    BY <2>1
  <2> HIDE DEF at
  <2>4. MaxCalls \in Nat /\ n \in 0 .. MaxCalls /\ n > 0
    BY DEF RunLifecycleAssumption
  <2>5. /\ proc' \in [Procs -> ProcType] /\ proc'[p].pc = "before_tools"
        /\ \A q \in Procs \ {p} : proc'[q] = proc[q]
        /\ proc'[p].run = proc[p].run /\ proc'[p].beat = proc[p].beat
        /\ proc'[p].calls = n
    BY <2>2, <2>3, <2>4 DEF ProcType
  <2>6. TypeOK'
    BY <1>1, <1>2, <2>5, Types
  <2>7. ProcOK(p)'
    BY <1>1, <2>4, <2>5 DEF ProcOK, Unbound, Unopened
  <2> QED BY <1>1, <2>5, <2>6, <2>7, QuietStep DEF Quiet, Working, Loop
<1>6. CASE Goto(p, "guard")
  <2>1. Moved(p, "guard")
    BY <1>1, <1>6, GotoMoves DEF Places, Loop
  <2> QED BY <1>1, <1>2, <2>1, MoveStep DEF Unbound, Unopened, Working, Loop, Counted, Places
<1> QED BY <1>3, <1>4, <1>5, <1>6 DEF Stream

\* The end of a call counts it.
LEMMA EndCallStep ==
    ASSUME IInv, RunLifecycleAssumption, NEW p \in Procs, EndCall(p)
    PROVE  IInv'
<1> DEFINE fewer == [proc EXCEPT ![p].calls = @ - 1]
           place == IF proc[p].calls = 1 THEN "after_tools" ELSE "tools"
<1>1. /\ TypeOK /\ ProcOK(p) /\ proc[p].pc = "executing"
      /\ run' = run /\ lease' = lease /\ used' = used /\ signal' = signal /\ canceller' = canceller
  BY DEF IInv, EndCall, At
<1>2. proc[p].calls \in 0 .. MaxCalls /\ proc[p].calls > 0 /\ MaxCalls \in Nat
  BY <1>1, Types DEF ProcOK, ProcType, RunLifecycleAssumption
<1>3. proc[p].calls - 1 \in 0 .. MaxCalls
  BY <1>2
<1>4. /\ fewer \in [Procs -> ProcType] /\ fewer[p].pc = "executing"
      /\ \A q \in Procs \ {p} : fewer[q] = proc[q]
      /\ fewer[p].run = proc[p].run /\ fewer[p].beat = proc[p].beat
      /\ fewer[p].calls = proc[p].calls - 1
  BY <1>1, <1>3, Types DEF ProcType
<1>5. proc' = [fewer EXCEPT ![p].pc = place]
  BY DEF EndCall
<1>6. place \in {"after_tools", "tools"} /\ (place = "tools" => proc[p].calls - 1 > 0)
  BY <1>2
<1> HIDE DEF fewer, place
<1>7. /\ proc' \in [Procs -> ProcType] /\ proc'[p].pc = place
      /\ \A q \in Procs \ {p} : proc'[q] = proc[q]
      /\ proc'[p].run = proc[p].run /\ proc'[p].beat = proc[p].beat
      /\ proc'[p].calls = proc[p].calls - 1
  <2>1. fewer[p] \in ProcType /\ place \in Places
    BY <1>4, <1>6 DEF Places, Loop
  <2>2. proc'[p] = [fewer[p] EXCEPT !.pc = place]
    BY <1>4, <1>5
  <2>3. /\ proc'[p] \in ProcType /\ proc'[p].pc = place
        /\ proc'[p].run = fewer[p].run /\ proc'[p].beat = fewer[p].beat
        /\ proc'[p].calls = fewer[p].calls
    BY <2>1, <2>2 DEF ProcType
  <2> QED BY <1>4, <1>5, <2>3
<1>8. TypeOK'
  BY <1>1, <1>7, Types
<1>9. ProcOK(p)'
  BY <1>1, <1>6, <1>7 DEF ProcOK, Unbound, Unopened
<1> QED BY <1>1, <1>6, <1>7, <1>8, <1>9, QuietStep DEF Quiet, Working, Loop

\* A fault is counted, so that nothing is promised of the lease after it.
LEMMA FaultCounted ==
    ASSUME TypeOK, RunLifecycleAssumption, used.faults < MaxFaults,
           used' = [used EXCEPT !.faults = @ + 1]
    PROVE  used' \in UsedType /\ ~Quiet'
<1>1. used \in UsedType /\ used.faults \in Nat /\ MaxFaults \in Nat
  BY Types DEF UsedType, RunLifecycleAssumption
<1>2. used.faults + 1 \in 0 .. MaxFaults /\ used.faults + 1 # 0
  BY <1>1
<1> QED BY <1>1, <1>2 DEF UsedType, Quiet

\* After a failed ending the process tries again as an error, or gives up.
LEMMA FinishFaultStep ==
    ASSUME IInv, RunLifecycleAssumption, NEW p \in Procs, FinishFault(p)
    PROVE  IInv'
<1>1. /\ TypeOK /\ ProcOK(p) /\ proc[p].pc \in {"finishing", "failing"}
      /\ run' = run /\ lease' = lease /\ signal' = signal /\ canceller' = canceller
      /\ used' \in UsedType /\ ~Quiet'
  BY FaultCounted DEF IInv, FinishFault
<1>2. CASE Leave(p)
  <2>1. /\ proc' \in [Procs -> ProcType]
        /\ \A q \in Procs \ {p} : proc'[q] = proc[q]
        /\ proc'[p].pc = "idle" /\ proc'[p].run = 0 /\ ~proc'[p].beat
    BY <1>1, <1>2, LeaveMoves
  <2>2. TypeOK'
    BY <1>1, <2>1, Types
  <2>3. ProcOK(p)'
    BY <2>1 DEF ProcOK, Unbound, Unopened
  <2> QED BY <1>1, <2>1, <2>2, <2>3, QuietStep DEF Working, Loop
<1>3. CASE Raise(p)
  <2>1. Moved(p, "finishing")
    BY <1>1, <1>3, FinishAsMoves DEF Raise, Reasons
  <2>2. TypeOK'
    BY <1>1, <2>1, Types DEF Moved
  <2>3. ProcOK(p)'
    BY <1>1, <2>1 DEF ProcOK, Unbound, Unopened, Moved
  <2> QED BY <1>1, <2>1, <2>2, <2>3, QuietStep DEF Working, Loop, Moved
<1> QED BY <1>2, <1>3 DEF FinishFault

\* A message that cannot be written sends the process to the handler.
LEMMA OpenFaultStep ==
    ASSUME IInv, RunLifecycleAssumption, NEW p \in Procs, OpenFault(p)
    PROVE  IInv'
<1>1. /\ TypeOK /\ ProcOK(p) /\ proc[p].pc = "opening"
      /\ run' = run /\ lease' = lease /\ signal' = signal /\ canceller' = canceller
      /\ used' \in UsedType /\ ~Quiet'
  BY FaultCounted DEF IInv, OpenFault, At
<1>2. Moved(p, "finishing")
  BY <1>1, FinishAsMoves DEF OpenFault, Raise, Reasons
<1>3. TypeOK'
  BY <1>1, <1>2, Types DEF Moved
<1>4. ProcOK(p)'
  BY <1>1, <1>2 DEF ProcOK, Unbound, Unopened, Moved
<1> QED BY <1>1, <1>2, <1>3, <1>4, QuietStep DEF Working, Loop, Moved

\* The heartbeat of a process stops.
LEMMA BeatStops ==
    ASSUME TypeOK, NEW p \in Procs, proc' = [proc EXCEPT ![p].beat = FALSE]
    PROVE  /\ proc' \in [Procs -> ProcType]
           /\ \A q \in Procs \ {p} : proc'[q] = proc[q]
           /\ proc'[p].pc = proc[p].pc /\ proc'[p].run = proc[p].run /\ ~proc'[p].beat
           /\ proc'[p].turns = proc[p].turns /\ proc'[p].calls = proc[p].calls
BY Types DEF ProcType

\* A heartbeat that raises stops, and the fault is counted.
LEMMA HeartbeatFaultStep ==
    ASSUME IInv, RunLifecycleAssumption, NEW p \in Procs, HeartbeatFault(p)
    PROVE  IInv'
<1>1. /\ TypeOK /\ ProcOK(p)
      /\ run' = run /\ lease' = lease /\ signal' = signal /\ canceller' = canceller
      /\ used' \in UsedType /\ ~Quiet'
  BY FaultCounted DEF IInv, HeartbeatFault
<1>2. /\ proc' \in [Procs -> ProcType]
      /\ \A q \in Procs \ {p} : proc'[q] = proc[q]
      /\ proc'[p].pc = proc[p].pc /\ proc'[p].run = proc[p].run /\ ~proc'[p].beat
      /\ proc'[p].turns = proc[p].turns /\ proc'[p].calls = proc[p].calls
  BY <1>1, BeatStops DEF HeartbeatFault
<1>3. TypeOK'
  BY <1>1, <1>2, Types
<1>4. ProcOK(p)'
  BY <1>1, <1>2 DEF ProcOK, Limited
<1> QED BY <1>1, <1>2, <1>3, <1>4, QuietStep

\* A heartbeat renews an owned run, or learns that the run is lost.
LEMMA HeartbeatStep ==
    ASSUME IInv, RunLifecycleAssumption, NEW p \in Procs, Heartbeat(p)
    PROVE  IInv'
<1>1. /\ TypeOK /\ ProcOK(p) /\ proc[p].run \in Runs /\ proc[p].run # 0
      /\ lease' = lease /\ canceller' = canceller /\ used' = used
  BY Types DEF IInv, Heartbeat, ProcOK, ProcType
<1>2. CASE Ours(p) /\ run[proc[p].run].status \in Owned
  <2> DEFINE row == [run[proc[p].run] EXCEPT !.live = TRUE]
  <2>1. /\ run' = [run EXCEPT ![proc[p].run] = row] /\ proc' = proc /\ signal' = signal
    BY <1>2 DEF Heartbeat
  <2>2. run[proc[p].run] \in RunType /\ RowOK(run[proc[p].run]) /\ run[proc[p].run].owner = p
    BY <1>1, <1>2, Types DEF IInv, Ours
  <2>3. /\ row \in RunType /\ row.status = run[proc[p].run].status /\ row.owner = p /\ row.live
        /\ row.message = run[proc[p].run].message /\ row.event = run[proc[p].run].event
    BY <2>2 DEF RunType
  <2> HIDE DEF row
  <2>4. run' \in [Runs -> RunType] /\ run'[proc[p].run] = row
    BY <1>1, <2>1, <2>3, Types
  <2>5. TypeOK'
    BY <1>1, <2>1, <2>4, Types
  <2>6. RowOK(row)
    BY <2>2, <2>3 DEF RowOK
  <2>7. row.status # "none" /\ row.owner # NULL
    BY <1>2, <2>3 DEF Owned, RunLifecycleAssumption
  <2>8. ProcOK(p)'
    BY <1>1, <2>1, <2>3, <2>4, <2>7 DEF ProcOK, Limited
  <2>9. Quiet' => (proc'[p].pc \in Working => Holds(p)')
    <3>1. Quiet' => (proc[p].pc \in Working => Holds(p))
      BY <1>1 DEF IInv, WorkersHold, Quiet
    <3> QED BY <1>1, <2>1, <2>3, <2>4, <3>1 DEF Holds
  <2>10. Quiet' => Quiet
    BY <1>1 DEF Quiet
  <2> QED BY <1>1, <1>2, <2>1, <2>3, <2>5, <2>6, <2>7, <2>8, <2>9, <2>10, OwnRowStep
<1>3. CASE ~(Ours(p) /\ run[proc[p].run].status \in Owned)
  <2>1. /\ run' = run /\ signal' = [signal EXCEPT ![p] = "run_lease_lost"]
        /\ proc' = [proc EXCEPT ![p].beat = FALSE]
    BY <1>3 DEF Heartbeat
  <2>2. /\ proc' \in [Procs -> ProcType]
        /\ \A q \in Procs \ {p} : proc'[q] = proc[q]
        /\ proc'[p].pc = proc[p].pc /\ proc'[p].run = proc[p].run /\ ~proc'[p].beat
        /\ proc'[p].turns = proc[p].turns /\ proc'[p].calls = proc[p].calls
    BY <1>1, <2>1, BeatStops
  <2>3. signal' \in [Procs -> Signals \cup {NULL}]
    BY <1>1, <2>1, Types DEF Signals
  <2>4. TypeOK'
    BY <1>1, <2>1, <2>2, <2>3, Types
  <2>5. ProcOK(p)'
    BY <1>1, <2>1, <2>2 DEF ProcOK, Limited
  <2>6. Quiet' => Quiet
    BY <1>1 DEF Quiet
  <2>7. Quiet' => proc[p].pc \notin Working
    BY <1>3, <2>6 DEF IInv, WorkersHold, Quiet, Holds, Ours
  <2> QED BY <1>1, <2>1, <2>2, <2>4, <2>5, <2>6, <2>7, QuietStep
<1> QED BY <1>2, <1>3

\* A restarted process is idle.
LEMMA RestartStep ==
    ASSUME IInv, RunLifecycleAssumption, NEW p \in Procs, Restart(p)
    PROVE  IInv'
<1>1. /\ TypeOK /\ run' = run /\ lease' = lease /\ signal' = signal /\ canceller' = canceller
      /\ used' = used /\ Leave(p)
  BY DEF IInv, Restart
<1>2. /\ proc' \in [Procs -> ProcType]
      /\ \A q \in Procs \ {p} : proc'[q] = proc[q]
      /\ proc'[p].pc = "idle" /\ proc'[p].run = 0 /\ ~proc'[p].beat
  BY <1>1, LeaveMoves
<1>3. TypeOK'
  BY <1>1, <1>2, Types
<1>4. ProcOK(p)'
  BY <1>2 DEF ProcOK, Unbound, Unopened
<1>5. Quiet' => Quiet
  BY <1>1 DEF Quiet
<1> QED BY <1>1, <1>2, <1>3, <1>4, <1>5, QuietStep DEF Working, Loop

\* The two later steps of a cancellation write no table.
LEMMA CancellerSteps ==
    ASSUME IInv, RunLifecycleAssumption, NEW p \in Procs, SendSignal(p) \/ RejectPrompts(p)
    PROVE  IInv'
<1>1. /\ TypeOK /\ ProcOK(p) /\ run' = run /\ lease' = lease /\ used' = used
      /\ signal' \in [Procs -> Signals \cup {NULL}]
      /\ canceller' \in [Procs -> {"none", "signal", "prompts"}]
  BY Types DEF IInv, SendSignal, RejectPrompts, Signals
<1>2. CASE proc' = proc
  <2>1. TypeOK'
    BY <1>1, <1>2, Types
  <2>2. ProcOK(p)' /\ (Quiet' => Quiet)
    BY <1>1, <1>2 DEF ProcOK, Limited, Quiet
  <2> QED BY <1>1, <1>2, <2>1, <2>2, QuietStep
<1>3. CASE At(p, "waiting") /\ Goto(p, "answered")
  <2>1. Moved(p, "answered") /\ proc[p].calls > 0
    BY <1>1, <1>3, GotoMoves DEF At, ProcOK, Places, Loop
  <2> QED BY <1>1, <1>3, <2>1, MoveStep
          DEF At, Unbound, Unopened, Working, Loop, Counted, Places
<1> QED BY <1>2, <1>3 DEF SendSignal, RejectPrompts

\* The message is attached to a run that had none.
LEMMA OpenMessageStep ==
    ASSUME IInv, RunLifecycleAssumption, NEW p \in Procs, OpenMessage(p)
    PROVE  IInv'
<1> DEFINE old == run[proc[p].run]
           row == [old EXCEPT !.message = TRUE]
<1>1. /\ TypeOK /\ ProcOK(p) /\ proc[p].pc = "opening" /\ proc[p].run \in Runs /\ proc[p].run # 0
      /\ lease' = lease /\ signal' = signal /\ canceller' = canceller /\ used' = used
  BY Types DEF IInv, OpenMessage, At, ProcOK, Unbound, ProcType
<1>2. old \in RunType /\ RowOK(old) /\ old.status # "none" /\ (old.status \in Terminal => old.event)
  BY <1>1, Types DEF IInv, ProcOK
<1>3. run' = [run EXCEPT ![proc[p].run] = row]
  BY DEF OpenMessage
<1> HIDE DEF old
<1>4. /\ row \in RunType /\ row.status = old.status /\ row.owner = old.owner /\ row.live = old.live
      /\ row.message /\ row.event = old.event
  BY <1>2 DEF RunType
<1> HIDE DEF row
<1>5. run' \in [Runs -> RunType] /\ run'[proc[p].run] = row
  BY <1>1, <1>3, <1>4, Types
<1>6. Moved(p, "guard")
  BY <1>1, GotoMoves DEF OpenMessage, Places, Loop
<1>7. TypeOK'
  BY <1>1, <1>5, <1>6, Types DEF Moved
<1>8. RowOK(row)
  BY <1>2, <1>4 DEF RowOK
<1>9. ProcOK(p)'
  BY <1>1, <1>2, <1>4, <1>5, <1>6 DEF ProcOK, Moved, Unbound, Unopened
<1>10. Quiet' => (proc'[p].pc \in Working => Holds(p)')
  <2>1. Quiet' => Holds(p)
    BY <1>1 DEF IInv, WorkersHold, Quiet, Working
  <2> QED BY <1>1, <1>4, <1>5, <1>6, <2>1 DEF Holds, Moved, old
<1>11. lease' = proc[p].run => row.status \in Owned /\ row.owner # NULL
  BY <1>1, <1>4 DEF IInv, LeaseNamesOwnedRun, old
<1>12. Quiet' => Quiet
  BY <1>1 DEF Quiet
<1> QED BY <1>1, <1>2, <1>3, <1>4, <1>6, <1>7, <1>8, <1>9, <1>10, <1>11, <1>12, OwnRowStep DEF Moved

\* A process inside its loop moves on while the status of its run is set or reset for a
\* prompt.
LEMMA ApprovalStep ==
    ASSUME IInv, RunLifecycleAssumption, NEW p \in Procs, proc[p].pc \in Loop,
           NEW from \in {"running", "waiting_approval"}, NEW to \in {"running", "waiting_approval"},
           SetApproval(p, from, to),
           NEW place \in {"waiting", "executing", "stopping"}, Moved(p, place),
           place # "stopping" => proc[p].calls > 0,
           lease' = lease, used' = used, canceller' = canceller,
           signal' \in [Procs -> Signals \cup {NULL}]
    PROVE  IInv'
<1> DEFINE old == run[proc[p].run]
           row == [old EXCEPT !.status = IF @ = from THEN to ELSE @]
<1>1. /\ TypeOK /\ ProcOK(p) /\ proc[p].run \in Runs /\ proc[p].run # 0
      /\ proc[p].pc \in Working
  BY Types DEF IInv, ProcOK, Unbound, ProcType, Loop, Working
<1>2. old \in RunType /\ RowOK(old) /\ old.status # "none" /\ (old.status \in Terminal => old.event)
  BY <1>1, Types DEF IInv, ProcOK
<1>3. run' = [run EXCEPT ![proc[p].run] = row]
  BY DEF SetApproval
<1> HIDE DEF old
<1>4. /\ row \in RunType /\ row.owner = old.owner /\ row.live = old.live
      /\ row.message = old.message /\ row.event = old.event
      /\ \/ row.status = old.status
         \/ old.status \in Owned /\ row.status \in Owned
  BY <1>2 DEF RunType, RunStatus, Owned
<1> HIDE DEF row
<1>5. run' \in [Runs -> RunType] /\ run'[proc[p].run] = row
  BY <1>1, <1>3, <1>4, Types
<1>6. TypeOK'
  BY <1>1, <1>5, Types DEF Moved
<1>7. RowOK(row) /\ row.status # "none" /\ (row.status \in Terminal => row.event)
  BY <1>2, <1>4 DEF RowOK, Owned, Terminal
<1>8. ProcOK(p)'
  BY <1>1, <1>5, <1>7 DEF ProcOK, Moved, Unbound, Unopened, Loop
<1>9. Quiet' => (proc'[p].pc \in Working => Holds(p)')
  <2>1. Quiet' => Holds(p)
    BY <1>1 DEF IInv, WorkersHold, Quiet
  <2> QED BY <1>1, <1>4, <1>5, <2>1 DEF Holds, Moved, old
<1>10. lease' = proc[p].run => row.status \in Owned /\ row.owner # NULL
  BY <1>1, <1>4 DEF IInv, LeaseNamesOwnedRun, old
<1>11. Quiet' => Quiet
  BY DEF Quiet
<1> QED BY <1>1, <1>3, <1>4, <1>6, <1>7, <1>8, <1>9, <1>10, <1>11, OwnRowStep DEF Moved

\* A prompt sets the status of the run and resets it.
LEMMA PromptSteps ==
    ASSUME IInv, RunLifecycleAssumption, NEW p \in Procs, Ask(p) \/ Resume(p)
    PROVE  IInv'
<1>1. TypeOK /\ ProcOK(p)
  BY DEF IInv
<1>2. CASE Ask(p)
  <2>1. /\ proc[p].pc = "asking" /\ Goto(p, "waiting") /\ SetApproval(p, "running", "waiting_approval")
        /\ lease' = lease /\ used' = used /\ canceller' = canceller /\ signal' = signal
    BY <1>2 DEF Ask, At
  <2>2. Moved(p, "waiting") /\ proc[p].calls > 0
    BY <1>1, <2>1, GotoMoves DEF ProcOK, Places, Loop
  <2> QED BY <1>1, <2>1, <2>2, ApprovalStep, Types DEF Loop
<1>3. CASE Resume(p)
  <2>1. /\ proc[p].pc = "answered" /\ Goto(p, "executing") /\ SetApproval(p, "waiting_approval", "running")
        /\ lease' = lease /\ used' = used /\ canceller' = canceller /\ signal' = signal
    BY <1>3 DEF Resume, At
  <2>2. Moved(p, "executing") /\ proc[p].calls > 0
    BY <1>1, <2>1, GotoMoves DEF ProcOK, Places, Loop
  <2> QED BY <1>1, <2>1, <2>2, ApprovalStep, Types DEF Loop
<1> QED BY <1>2, <1>3

\* Cancelling the task sends the process to its end, and out of a prompt.
LEMMA CancelTaskStep ==
    ASSUME IInv, RunLifecycleAssumption, NEW p \in Procs, CancelTask(p)
    PROVE  IInv'
<1>1. /\ TypeOK /\ ProcOK(p) /\ lease' = lease /\ canceller' = canceller /\ used' = used
  BY DEF IInv, CancelTask
<1>2. signal' \in [Procs -> Signals \cup {NULL}] /\ canceller' \in [Procs -> {"none", "signal", "prompts"}]
  <2>1. PICK reason \in {signal[p], "timed_out", "parent_cancelled"} :
            signal' = [signal EXCEPT ![p] = reason]
    BY DEF CancelTask
  <2>2. reason \in Signals \cup {NULL}
    BY <1>1, Types DEF Signals
  <2> QED BY <1>1, <2>1, <2>2, Types
<1>3. CASE /\ proc[p].pc \in Loop
           /\ proc' = [proc EXCEPT ![p].pc = "stopping", ![p].handler = ~At(p, "model")]
  <2> DEFINE at == [proc EXCEPT ![p].pc = "stopping"]
  <2>1. /\ at \in [Procs -> ProcType] /\ at[p].pc = "stopping"
        /\ \A q \in Procs \ {p} : at[q] = proc[q]
        /\ at[p].run = proc[p].run /\ at[p].beat = proc[p].beat
        /\ at[p].turns = proc[p].turns /\ at[p].calls = proc[p].calls
    BY <1>1, Types DEF ProcType, Places
  <2>2. (~At(p, "model")) \in BOOLEAN
    OBVIOUS
  <2>3. PICK handler \in BOOLEAN : proc' = [at EXCEPT ![p].handler = handler]
    BY <1>3, <2>2
  <2> HIDE DEF at
  <2>4. Moved(p, "stopping")
    BY <2>1, <2>3 DEF Moved, ProcType
  <2>5. CASE SetApproval(p, "waiting_approval", "running")
    BY <1>1, <1>2, <1>3, <2>4, <2>5, ApprovalStep
  <2>6. CASE run' = run
    BY <1>1, <1>2, <1>3, <2>4, <2>6, MoveStep
       DEF Unbound, Unopened, Working, Loop, Counted, Places
  <2> QED BY <2>5, <2>6 DEF CancelTask
<1>4. CASE /\ proc[p].pc \in {"starting", "opening"}
           /\ proc' = [proc EXCEPT ![p].pc = "failing",
                          ![p].reason = IF signal'[p] # NULL THEN signal'[p] ELSE "interrupted"]
  <2> DEFINE at  == [proc EXCEPT ![p].pc = "failing"]
             why == IF signal'[p] # NULL THEN signal'[p] ELSE "interrupted"
  <2>1. /\ at \in [Procs -> ProcType] /\ at[p].pc = "failing"
        /\ \A q \in Procs \ {p} : at[q] = proc[q]
        /\ at[p].run = proc[p].run /\ at[p].beat = proc[p].beat
        /\ at[p].turns = proc[p].turns /\ at[p].calls = proc[p].calls
    BY <1>1, Types DEF ProcType, Places
  <2>2. why \in Reasons
    BY <1>2 DEF Reasons
  <2>3. proc' = [at EXCEPT ![p].reason = why]
    BY <1>4
  <2> HIDE DEF at, why
  <2>4. Moved(p, "failing")
    BY <2>1, <2>2, <2>3 DEF Moved, ProcType
  <2>5. run' = run
    BY <1>4 DEF CancelTask
  <2> QED BY <1>1, <1>2, <1>4, <2>4, <2>5, MoveStep
          DEF Unbound, Unopened, Working, Loop, Counted, Places
<1>5. CASE At(p, "creating") /\ Leave(p)
  <2>1. /\ proc' \in [Procs -> ProcType]
        /\ \A q \in Procs \ {p} : proc'[q] = proc[q]
        /\ proc'[p].pc = "idle" /\ proc'[p].run = 0 /\ ~proc'[p].beat
    BY <1>1, <1>5, LeaveMoves
  <2>2. run' = run
    BY <1>5 DEF CancelTask, At
  <2>3. TypeOK'
    BY <1>1, <1>2, <2>1, <2>2, Types
  <2>4. ProcOK(p)'
    BY <2>1 DEF ProcOK, Unbound, Unopened
  <2>5. Quiet' => Quiet
    BY <1>1 DEF Quiet
  <2> QED BY <1>1, <2>1, <2>2, <2>3, <2>4, <2>5, QuietStep DEF Working, Loop
<1> QED BY <1>3, <1>4, <1>5 DEF CancelTask

\* The signal that is set before a task is cancelled is one the loop knows.
LEMMA SignalledBefore ==
    ASSUME TypeOK, NEW p \in Procs, NEW reason \in {signal[p], "timed_out", "parent_cancelled"},
           signal' = [signal EXCEPT ![p] = reason]
    PROVE  signal' \in [Procs -> Signals \cup {NULL}]
<1>1. reason \in Signals \cup {NULL}
  BY Types DEF Signals
<1> QED BY <1>1, Types

\* The outer handler takes the process over.
LEMMA HandlerMoves ==
    ASSUME TypeOK, NEW p \in Procs,
           proc' = [proc EXCEPT ![p].pc = "stopping", ![p].handler = TRUE]
    PROVE  Moved(p, "stopping")
<1> DEFINE at == [proc EXCEPT ![p].pc = "stopping"]
<1>1. /\ at \in [Procs -> ProcType] /\ at[p].pc = "stopping"
      /\ \A q \in Procs \ {p} : at[q] = proc[q]
      /\ at[p].run = proc[p].run /\ at[p].beat = proc[p].beat
      /\ at[p].turns = proc[p].turns /\ at[p].calls = proc[p].calls
  BY Types DEF ProcType, Places
<1>2. PICK handler \in BOOLEAN : proc' = [at EXCEPT ![p].handler = handler]
  OBVIOUS
<1> HIDE DEF at
<1>3. at[p] \in ProcType /\ proc'[p] = [at[p] EXCEPT !.handler = handler]
  BY <1>1, <1>2
<1>4. /\ proc'[p] \in ProcType /\ proc'[p].pc = "stopping"
      /\ proc'[p].run = at[p].run /\ proc'[p].beat = at[p].beat
      /\ proc'[p].turns = at[p].turns /\ proc'[p].calls = at[p].calls
  BY <1>1, <1>2, <1>3 DEF ProcType
<1>5. proc' \in [Procs -> ProcType] /\ \A q \in Procs \ {p} : proc'[q] = proc[q]
  BY <1>1, <1>2, <1>4
<1> QED BY <1>1, <1>4, <1>5 DEF Moved

\* The row of a run gets its message.
LEMMA MessageWritten ==
    ASSUME NEW row \in RunType
    PROVE  LET new == [row EXCEPT !.message = TRUE]
           IN  /\ new \in RunType /\ new.message
               /\ new.status = row.status /\ new.owner = row.owner /\ new.event = row.event
BY DEF RunType

\* Cancelled while its message is written, the process goes to its end, with the
\* message or without.
LEMMA CancelOpeningStep ==
    ASSUME IInv, RunLifecycleAssumption, NEW p \in Procs, CancelOpening(p)
    PROVE  IInv'
<1>1. /\ TypeOK /\ ProcOK(p) /\ proc[p].pc = "opening"
      /\ lease' = lease /\ canceller' = canceller /\ used' = used
  BY DEF IInv, CancelOpening, At
<1>2. /\ signal' \in [Procs -> Signals \cup {NULL}]
      /\ canceller' \in [Procs -> {"none", "signal", "prompts"}]
  BY <1>1, SignalledBefore, Types DEF CancelOpening
<1>3. Moved(p, "stopping")
  BY <1>1, HandlerMoves DEF CancelOpening
<1>4. CASE run' = run
  BY <1>1, <1>2, <1>3, <1>4, MoveStep
     DEF Unbound, Unopened, Working, Loop, Counted, Places
<1>5. CASE run' = [run EXCEPT ![proc[p].run].message = TRUE]
  <2> DEFINE old == run[proc[p].run]
             row == [old EXCEPT !.message = TRUE]
  <2>1. proc[p].run \in Runs /\ proc[p].run # 0
    BY <1>1, Types DEF ProcOK, Unbound, ProcType
  <2>2. old \in RunType /\ RowOK(old)
    BY <2>1, <1>1, Types DEF IInv
  <2>3. run' = [run EXCEPT ![proc[p].run] = row]
    BY <1>5, <2>1, <1>1, Types
  <2>4. /\ row \in RunType /\ row.message
        /\ row.status = old.status /\ row.owner = old.owner /\ row.event = old.event
    BY <2>2, MessageWritten
  <2>5. /\ old.status # "none" /\ (old.status \in Terminal => old.event)
        /\ lease = proc[p].run => old.status \in Owned /\ old.owner # NULL
    BY <1>1, <2>1 DEF ProcOK, IInv, LeaseNamesOwnedRun
  <2> HIDE DEF old, row
  <2>6. TypeOK'
    BY <1>1, <1>2, <1>3, <2>1, <2>3, <2>4, Types DEF Moved
  <2>7. RowOK(row)
    BY <2>2, <2>4, <2>5 DEF RowOK
  <2>8. run'[proc[p].run] = row
    BY <1>1, <2>1, <2>3, Types
  <2>9. ProcOK(p)'
    BY <1>1, <1>3, <2>1, <2>4, <2>5, <2>8 DEF ProcOK, Moved, Unbound, Unopened
  <2>10. (Quiet' => Quiet) /\ proc'[p].pc \notin Working
    BY <1>1, <1>3 DEF Quiet, Moved, Working, Loop
  <2> QED BY <1>1, <1>3, <2>1, <2>3, <2>4, <2>5, <2>6, <2>7, <2>9, <2>10, OwnRowStep DEF Moved
<1> QED BY <1>4, <1>5 DEF CancelOpening

\* A process that leaves its run alone and goes idle.
LEMMA LeaveStep ==
    ASSUME IInv, RunLifecycleAssumption, NEW p \in Procs, Leave(p),
           run' = run, lease' = lease, canceller' = canceller, used' = used,
           signal' \in [Procs -> Signals \cup {NULL}]
    PROVE  IInv'
<1>1. /\ proc' \in [Procs -> ProcType]
      /\ \A q \in Procs \ {p} : proc'[q] = proc[q]
      /\ proc'[p].pc = "idle" /\ proc'[p].run = 0 /\ ~proc'[p].beat
  BY LeaveMoves DEF IInv
<1>2. TypeOK'
  BY <1>1, Types DEF IInv
<1>3. ProcOK(p)'
  BY <1>1 DEF ProcOK, Unbound, Unopened
<1> QED BY <1>1, <1>2, <1>3, QuietStep DEF Quiet, Working, Loop

\* Cancelled while it ends its run, the process tries once more or leaves it as it is.
LEMMA CancelEndingStep ==
    ASSUME IInv, RunLifecycleAssumption, NEW p \in Procs, CancelEnding(p)
    PROVE  IInv'
<1>1. /\ TypeOK /\ proc[p].pc \in {"stopping", "finishing", "failing"}
      /\ run' = run /\ lease' = lease /\ canceller' = canceller /\ used' = used
  BY DEF IInv, CancelEnding
<1>2. /\ signal' \in [Procs -> Signals \cup {NULL}]
      /\ canceller' \in [Procs -> {"none", "signal", "prompts"}]
  BY <1>1, SignalledBefore, Types DEF CancelEnding
<1>3. CASE Leave(p)
  BY <1>1, <1>2, <1>3, LeaveStep
<1>4. CASE proc' = [proc EXCEPT ![p].pc = "stopping", ![p].handler = TRUE]
  <2>1. Moved(p, "stopping")
    BY <1>1, <1>4, HandlerMoves
  <2> QED BY <1>1, <1>2, <2>1, MoveStep
          DEF Unbound, Unopened, Working, Loop, Counted, Places
<1> QED BY <1>3, <1>4 DEF CancelEnding

\* What the end of a run writes to its row.
LEMMA EndedRow ==
    ASSUME NEW row \in RunType, NEW status \in Terminal, NEW event \in BOOLEAN
    PROVE  LET ended == Ended(row, status, event)
           IN  /\ ended \in RunType
               /\ ended.status = status /\ ended.owner = NULL /\ ~ended.live
               /\ ended.message = row.message /\ ended.event = event
<1> DEFINE a == [row EXCEPT !.status = status]
           b == [a EXCEPT !.owner = NULL]
           c == [b EXCEPT !.live = FALSE]
           d == [c EXCEPT !.event = event]
<1>1. a \in RunType /\ a.status = status /\ a.message = row.message
  BY DEF RunType, RunStatus
<1> HIDE DEF a
<1>2. b \in RunType /\ b.status = a.status /\ b.message = a.message /\ b.owner = NULL
  BY <1>1 DEF RunType
<1> HIDE DEF b
<1>3. /\ c \in RunType /\ c.status = b.status /\ c.message = b.message /\ c.owner = b.owner
      /\ ~c.live
  BY <1>2 DEF RunType
<1> HIDE DEF c
<1>4. /\ d \in RunType /\ d.status = c.status /\ d.message = c.message /\ d.owner = c.owner
      /\ d.live = c.live /\ d.event = event
  BY <1>3 DEF RunType
<1>5. Ended(row, status, event) = d
  BY DEF Ended, a, b, c
<1> HIDE DEF d
<1> QED BY <1>1, <1>2, <1>3, <1>4, <1>5

\* A process ends its run and leaves; without an event, only if there is no message.
LEMMA EndStep ==
    ASSUME IInv, RunLifecycleAssumption, NEW p \in Procs, proc[p].run # 0,
           NEW status \in Terminal, NEW event \in BOOLEAN,
           End(proc[p].run, status, event), event \/ ~run[proc[p].run].message, Leave(p),
           signal' = signal, canceller' = canceller, used' = used
    PROVE  IInv'
<1>1. /\ TypeOK /\ proc[p].run \in Runs
      /\ proc' \in [Procs -> ProcType]
      /\ \A q \in Procs \ {p} : proc'[q] = proc[q]
      /\ proc'[p].pc = "idle" /\ proc'[p].run = 0 /\ ~proc'[p].beat
  BY LeaveMoves, Types DEF IInv, ProcType
<1>2. ProcOK(p)' /\ (Quiet' => Quiet)
  BY <1>1 DEF ProcOK, Unbound, Unopened, Quiet
<1>3. CASE Active(proc[p].run)
  <2> DEFINE old == run[proc[p].run]
             row == Ended(old, status, event)
  <2>1. /\ run' = [run EXCEPT ![proc[p].run] = row]
        /\ lease' = IF lease = proc[p].run THEN 0 ELSE lease
    BY <1>3 DEF End
  <2>2. old \in RunType
    BY <1>1, Types
  <2> HIDE DEF old
  <2>3. /\ row \in RunType /\ row.status = status /\ row.owner = NULL
        /\ row.message = old.message /\ row.event = event
    BY <2>2, EndedRow
  <2> HIDE DEF row
  <2>4. RowOK(row) /\ row.status # "none"
    BY <2>3 DEF RowOK, Terminal, Owned, old
  <2>5. TypeOK'
    BY <1>1, <2>1, <2>3, Types
  <2> QED BY <1>1, <1>2, <2>1, <2>3, <2>4, <2>5, OwnRowStep DEF Working, Loop
<1>4. CASE ~Active(proc[p].run)
  <2>1. run' = run /\ lease' = lease
    BY <1>4 DEF End
  <2>2. TypeOK'
    BY <1>1, <2>1, Types
  <2> QED BY <1>1, <1>2, <2>1, <2>2, QuietStep DEF Working, Loop
<1> QED BY <1>3, <1>4

\* Both endings leave a run that is published or has no message; a run whose message
\* was never written is not ended.
LEMMA FinishSteps ==
    ASSUME IInv, RunLifecycleAssumption, NEW p \in Procs, Finish(p) \/ FinishEarly(p)
    PROVE  IInv'
<1>1. ProcOK(p)
  BY DEF IInv
<1>2. CASE Finish(p)
  <2>1. Outcome(proc[p].reason) \in Terminal
    BY DEF Outcome, Terminal
  <2>2. proc[p].run # 0
    BY <1>1, <1>2 DEF Finish, At, ProcOK, Unbound
  <2>3. CASE run[proc[p].run].message
    BY <1>2, <2>1, <2>2, <2>3, EndStep DEF Finish
  <2>4. CASE ~run[proc[p].run].message
    BY <1>2, <2>4, LeaveStep, Types DEF Finish, IInv
  <2> QED BY <2>3, <2>4
<1>3. CASE FinishEarly(p)
  <2>1. OutcomeEarly(proc[p].reason) \in Terminal
    BY DEF OutcomeEarly, Terminal
  <2>2. proc[p].run # 0 /\ ~run[proc[p].run].message
    BY <1>1, <1>3 DEF FinishEarly, At, ProcOK, Unbound, Unopened
  <2> QED BY <1>3, <2>1, <2>2, EndStep DEF FinishEarly
<1> QED BY <1>2, <1>3

\* A new run is taken from the rows nobody executes.
LEMMA CreateRunStep ==
    ASSUME IInv, RunLifecycleAssumption, NEW p \in Procs, NEW r \in Runs, CreateRun(p, r)
    PROVE  IInv'
<1> DEFINE old   == run[r]
           wait  == [old EXCEPT !.status = "queued"]
           row   == [wait EXCEPT !.live = TRUE]
           at    == [proc EXCEPT ![p].pc = "starting"]
<1>1. /\ TypeOK /\ ProcOK(p) /\ proc[p].pc = "creating"
      /\ lease' = lease /\ signal' = signal /\ canceller' = canceller /\ used' = used
  BY DEF IInv, CreateRun, At
<1>2. run[r].status = "none" /\ r \in Nat /\ r # 0
  BY DEF CreateRun, Runs
<1>3. old \in RunType /\ RowOK(old)
  BY <1>1, Types DEF IInv
<1>4. /\ run' = [run EXCEPT ![r].status = "queued", ![r].live = TRUE]
      /\ proc' = [at EXCEPT ![p].run = r]
  BY DEF CreateRun
<1>5. /\ wait \in RunType /\ wait.status = "queued" /\ wait.owner = old.owner
      /\ wait.message = old.message /\ wait.event = old.event
  BY <1>3 DEF RunType, RunStatus
<1>6. run' = [run EXCEPT ![r] = row]
  BY <1>1, <1>4, Types
<1>7. /\ at \in [Procs -> ProcType] /\ at[p].pc = "starting"
      /\ \A q \in Procs \ {p} : at[q] = proc[q]
  BY <1>1, Types DEF ProcType, Places
<1> HIDE DEF old, wait, at
<1>8. /\ row \in RunType /\ row.status = "queued" /\ row.owner = old.owner
      /\ row.message = old.message /\ row.event = old.event
  BY <1>5 DEF RunType
<1> HIDE DEF row
<1>9. /\ run' \in [Runs -> RunType] /\ run'[r] = row
      /\ \A s \in Runs \ {r} : run'[s] = run[s]
  BY <1>1, <1>6, <1>8, Types
<1>10. /\ proc' \in [Procs -> ProcType] /\ proc'[p].pc = "starting" /\ proc'[p].run = r
       /\ \A q \in Procs \ {p} : proc'[q] = proc[q]
  <2> DEFINE new == [at[p] EXCEPT !.run = r]
  <2>1. new \in ProcType /\ new.pc = "starting" /\ new.run = r
    BY <1>7 DEF ProcType
  <2>2. proc' = [at EXCEPT ![p] = new]
    BY <1>4, <1>7
  <2> HIDE DEF new
  <2> QED BY <1>7, <2>1, <2>2
<1>11. TypeOK'
  BY <1>1, <1>9, <1>10, Types
<1>12. ~row.message /\ ~row.event /\ RowOK(row)
  BY <1>2, <1>3, <1>8 DEF RowOK, old, Terminal, Owned
<1>13. ProcOK(p)'
  BY <1>2, <1>8, <1>9, <1>10, <1>12 DEF ProcOK, Unbound, Terminal
<1>14. ASSUME NEW q \in Procs, proc[q].run # 0
       PROVE  proc[q].run \in Runs \ {r}
  BY <1>1, <1>2, <1>14, Types DEF IInv, ProcOK, ProcType
<1>15. \A s \in Runs : RowOK(run'[s])
  BY <1>9, <1>12 DEF IInv
<1>16. ASSUME NEW q \in Procs \ {p}, proc[q].run # 0
       PROVE  Follows(run'[proc[q].run], run[proc[q].run])
  BY <1>9, <1>14, <1>16 DEF Follows, IInv, ProcOK
<1>17. LeaseNamesOwnedRun'
  BY <1>1, <1>2, <1>9, Types DEF IInv, LeaseNamesOwnedRun, Owned
<1>18. ASSUME NEW q \in Procs \ {p}, proc[q].pc \in Working, Holds(q)
       PROVE  Holds(q)'
  <2>1. proc[q].run # 0
    BY <1>18 DEF IInv, ProcOK, Working, Unbound, Loop
  <2> QED BY <1>1, <1>9, <1>10, <1>14, <1>18, <2>1 DEF Holds
<1>19. Quiet' => Quiet
  BY <1>1 DEF Quiet
<1>20. proc'[p].pc \notin Working
  BY <1>10 DEF Working, Loop
<1> QED BY <1>10, <1>11, <1>13, <1>14, <1>15, <1>16, <1>17, <1>18, <1>19, <1>20, Preserved

\* A started run takes the lease only if nobody holds it with a live row.
LEMMA StartRunStep ==
    ASSUME IInv, RunLifecycleAssumption, NEW p \in Procs, StartRun(p)
    PROVE  IInv'
<1> DEFINE r == proc[p].run
<1>1. /\ TypeOK /\ ProcOK(p) /\ proc[p].pc = "starting" /\ r \in Runs /\ r # 0
      /\ signal' = signal /\ canceller' = canceller /\ used' = used
  BY Types DEF IInv, StartRun, At, ProcOK, Unbound, ProcType
<1>2. CASE /\ run[r].status = "queued" /\ Free(p)
           /\ run' = [run EXCEPT ![r].status = "running", ![r].owner = p, ![r].live = TRUE]
           /\ lease' = r
           /\ proc' = [proc EXCEPT ![p].pc = "opening", ![p].beat = TRUE]
  <2> DEFINE old  == run[r]
             runs == [old EXCEPT !.status = "running"]
             ours == [runs EXCEPT !.owner = p]
             row  == [ours EXCEPT !.live = TRUE]
             at   == [proc EXCEPT ![p].pc = "opening"]
  <2>1. old \in RunType /\ RowOK(old) /\ ~old.message
    BY <1>1, Types DEF IInv, ProcOK, Unopened
  <2>2. run' = [run EXCEPT ![r] = row]
    BY <1>1, <1>2, Types
  <2>3. proc' = [at EXCEPT ![p].beat = TRUE]
    BY <1>2
  <2>4. /\ runs \in RunType /\ runs.status = "running"
        /\ runs.message = old.message /\ runs.event = old.event
    BY <2>1 DEF RunType, RunStatus, Owned
  <2>5. /\ at \in [Procs -> ProcType] /\ at[p].pc = "opening"
        /\ \A q \in Procs \ {p} : at[q] = proc[q]
        /\ at[p].run = proc[p].run
    BY <1>1, Types DEF ProcType, Places
  <2> HIDE DEF old, runs, at
  <2>6. /\ ours \in RunType /\ ours.status = "running" /\ ours.owner = p
        /\ ours.message = old.message /\ ours.event = old.event
    BY <2>4 DEF RunType
  <2> HIDE DEF ours
  <2>7. /\ row \in RunType /\ row.status = "running" /\ row.owner = p /\ row.live
        /\ row.message = old.message /\ row.event = old.event
    BY <2>6 DEF RunType
  <2> HIDE DEF row
  <2>8. /\ proc' \in [Procs -> ProcType] /\ proc'[p].pc = "opening" /\ proc'[p].beat
        /\ \A q \in Procs \ {p} : proc'[q] = proc[q]
        /\ proc'[p].run = proc[p].run
    <3> DEFINE new == [at[p] EXCEPT !.beat = TRUE]
    <3>1. new \in ProcType /\ new.pc = "opening" /\ new.beat /\ new.run = proc[p].run
      BY <2>5 DEF ProcType
    <3>2. proc' = [at EXCEPT ![p] = new]
      BY <2>3, <2>5
    <3> HIDE DEF new
    <3> QED BY <2>5, <3>1, <3>2
  <2>9. /\ run' \in [Runs -> RunType] /\ run'[r] = row
        /\ \A s \in Runs \ {r} : run'[s] = run[s]
    BY <1>1, <2>2, <2>7, Types
  <2>10. TypeOK'
    BY <1>1, <1>2, <2>8, <2>9, Types
  <2>11. RowOK(row)
    BY <1>2, <2>1, <2>7 DEF RowOK, Owned, Terminal, old
  <2>12. ProcOK(p)'
    BY <1>1, <2>1, <2>7, <2>8, <2>9 DEF ProcOK, Unbound, Unopened, Terminal
  <2>13. \A s \in Runs : RowOK(run'[s])
    BY <2>9, <2>11 DEF IInv
  <2>14. ASSUME NEW q \in Procs \ {p}, proc[q].run # 0
         PROVE  proc[q].run \in Runs \ {r}
    BY <1>1, <2>14, Types DEF IInv, Apart, ProcType
  <2>15. ASSUME NEW q \in Procs \ {p}, proc[q].run # 0
         PROVE  Follows(run'[proc[q].run], run[proc[q].run])
    BY <2>9, <2>14, <2>15 DEF Follows, IInv, ProcOK
  <2>16. LeaseNamesOwnedRun'
    <3>1. lease' = r /\ run'[r].status \in Owned /\ run'[r].owner = p
      BY <1>2, <2>7, <2>9 DEF Owned
    <3> QED BY <3>1 DEF LeaseNamesOwnedRun, RunLifecycleAssumption
  <2>17. ASSUME NEW q \in Procs \ {p}, proc[q].pc \in Working
         PROVE  ~Holds(q)
    BY <1>2, <2>17 DEF Holds, Free, IInv, ProcOK, Unbound, Working, Loop
  <2>18. Holds(p)'
    <3>1. /\ lease' = r /\ run'[r].status \in Owned /\ run'[r].owner = p /\ run'[r].live
          /\ proc'[p].beat /\ proc'[p].run = r
      BY <1>2, <2>7, <2>8, <2>9 DEF Owned
    <3> QED BY <3>1 DEF Holds
  <2>19. Quiet' => Quiet
    BY <1>1 DEF Quiet
  <2> QED BY <1>1, <2>8, <2>10, <2>12, <2>13, <2>14, <2>15, <2>16, <2>17, <2>18, <2>19, Preserved
<1>3. CASE /\ proc' = [proc EXCEPT ![p].pc = "failing", ![p].reason = "error"]
           /\ UNCHANGED <<run, lease>>
  <2> DEFINE at == [proc EXCEPT ![p].pc = "failing"]
  <2>1. /\ at \in [Procs -> ProcType] /\ at[p].pc = "failing"
        /\ \A q \in Procs \ {p} : at[q] = proc[q]
        /\ at[p].run = proc[p].run /\ at[p].beat = proc[p].beat
        /\ at[p].turns = proc[p].turns /\ at[p].calls = proc[p].calls
    BY <1>1, Types DEF ProcType, Places
  <2>2. proc' = [at EXCEPT ![p].reason = "error"]
    BY <1>3
  <2> HIDE DEF at
  <2>3. Moved(p, "failing")
    BY <2>1, <2>2 DEF Moved, ProcType, Reasons
  <2>4. /\ signal' \in [Procs -> Signals \cup {NULL}]
        /\ canceller' \in [Procs -> {"none", "signal", "prompts"}]
    BY <1>1, Types
  <2> QED BY <1>1, <1>3, <2>3, <2>4, MoveStep DEF Unbound, Unopened, Working, Loop, Counted, Places
<1> QED BY <1>2, <1>3 DEF StartRun

\* A crash orphans the rows of the process and touches no other owner's.
LEMMA CrashStep ==
    ASSUME IInv, RunLifecycleAssumption, NEW p \in Procs, Crash(p)
    PROVE  IInv'
<1> DEFINE orphan(r) == [run[r] EXCEPT !.owner = "gone"]
<1>1. TypeOK /\ lease' = lease
  BY DEF IInv, Crash
<1>2. ASSUME NEW r \in Runs
      PROVE  /\ run'[r] \in RunType
             /\ run'[r].status = run[r].status /\ run'[r].live = run[r].live
             /\ run'[r].message = run[r].message /\ run'[r].event = run[r].event
             /\ \/ run[r].owner = p /\ run'[r].owner = "gone"
                \/ run[r].owner # p /\ run'[r].owner = run[r].owner
  <2>1. run'[r] = IF run[r].owner = p THEN orphan(r) ELSE run[r]
    BY DEF Crash
  <2>2. run[r] \in RunType
    BY <1>1, Types
  <2>3. /\ orphan(r) \in RunType /\ orphan(r).owner = "gone"
        /\ orphan(r).status = run[r].status /\ orphan(r).live = run[r].live
        /\ orphan(r).message = run[r].message /\ orphan(r).event = run[r].event
    BY <2>2 DEF RunType
  <2> HIDE DEF orphan
  <2> QED BY <2>1, <2>2, <2>3
<1>3. run' \in [Runs -> RunType]
  <2>1. run' = [r \in Runs |-> run'[r]]
    BY DEF Crash
  <2> QED BY <1>2, <2>1
<1>4. /\ proc' \in [Procs -> ProcType]
      /\ \A q \in Procs \ {p} : proc'[q] = proc[q]
      /\ proc'[p].pc = "down" /\ proc'[p].run = 0 /\ ~proc'[p].beat
  <2> DEFINE down == [Idle EXCEPT !.pc = "down"]
  <2>1. down \in ProcType /\ down.pc = "down" /\ down.run = 0 /\ ~down.beat
    <3>1. Idle \in ProcType /\ Idle.run = 0 /\ ~Idle.beat
      BY DEF Idle, ProcType, Places, RunLifecycleAssumption
    <3> QED BY <3>1 DEF ProcType, Places
  <2>2. proc' = [proc EXCEPT ![p] = down]
    BY DEF Crash
  <2> HIDE DEF down
  <2> QED BY <1>1, <2>1, <2>2, Types
<1>5. /\ signal' \in [Procs -> Signals \cup {NULL}]
      /\ canceller' \in [Procs -> {"none", "signal", "prompts"}]
  BY <1>1, Types DEF Crash
<1>6. used' \in UsedType /\ (Quiet' => Quiet)
  <2>1. used \in UsedType /\ used.crashes + 1 \in 0 .. MaxCrashes
    BY <1>1, Types DEF Crash, UsedType, RunLifecycleAssumption
  <2>2. used' = [used EXCEPT !.crashes = @ + 1]
    BY DEF Crash
  <2> QED BY <2>1, <2>2 DEF UsedType, Quiet
<1>7. TypeOK'
  BY <1>1, <1>3, <1>4, <1>5, <1>6, Types
<1>8. ProcOK(p)'
  BY <1>4 DEF ProcOK, Unbound, Unopened
<1>9. \A r \in Runs : RowOK(run'[r])
  BY <1>2 DEF IInv, RowOK, RunLifecycleAssumption
<1>10. ASSUME NEW q \in Procs \ {p}, proc[q].run # 0
       PROVE  Follows(run'[proc[q].run], run[proc[q].run])
  <2>1. proc[q].run \in Runs
    BY <1>1, <1>10, Types DEF ProcType
  <2> QED BY <1>2, <1>10, <2>1 DEF Follows, IInv, ProcOK
<1>11. LeaseNamesOwnedRun'
  BY <1>1, <1>2, Types DEF IInv, LeaseNamesOwnedRun, RunLifecycleAssumption
<1>12. ASSUME NEW q \in Procs \ {p}, proc[q].pc \in Working, Holds(q)
       PROVE  Holds(q)'
  <2>1. proc[q].run \in Runs
    BY <1>1, <1>12, Types DEF IInv, ProcOK, Working, Unbound, Loop, ProcType
  <2> QED BY <1>1, <1>2, <1>4, <1>12, <2>1 DEF Holds
<1>13. proc'[p].pc \notin Working
  BY <1>4 DEF Working, Loop
<1> QED BY <1>4, <1>6, <1>7, <1>8, <1>9, <1>10, <1>11, <1>12, <1>13, Preserved

\* The reconciler ends only runs whose lease has run out, and publishes them.
LEMMA ReconcileStep ==
    ASSUME IInv, RunLifecycleAssumption, NEW p \in Procs, Reconcile(p)
    PROVE  IInv'
<1>1. /\ TypeOK /\ proc' = proc /\ signal' = signal /\ canceller' = canceller /\ used' = used
      /\ lease' = IF lease # 0 /\ ~run[lease].live THEN 0 ELSE lease
  BY DEF IInv, Reconcile
<1>2. ASSUME NEW r \in Runs
      PROVE  /\ run'[r] \in RunType
             /\ run'[r].message = run[r].message
             /\ \/ run'[r] = run[r]
                \/ /\ ~run[r].live /\ run[r].status # "none"
                   /\ run'[r].status = "interrupted" /\ run'[r].owner = NULL /\ run'[r].event
  <2> DEFINE row == Ended(run[r], "interrupted", TRUE)
  <2>1. run'[r] = IF r \in Abandoned(p) THEN row ELSE run[r]
    BY DEF Reconcile
  <2>2. run[r] \in RunType
    BY <1>1, Types
  <2>3. /\ row \in RunType /\ row.status = "interrupted" /\ row.owner = NULL
        /\ row.message = run[r].message /\ row.event
    BY <2>2, EndedRow DEF Terminal
  <2>4. r \in Abandoned(p) => ~run[r].live /\ run[r].status # "none"
    BY DEF Abandoned, Active, Owned
  <2> HIDE DEF row
  <2> QED BY <2>1, <2>2, <2>3, <2>4
<1>3. run' \in [Runs -> RunType]
  <2>1. run' = [r \in Runs |-> run'[r]]
    BY DEF Reconcile
  <2> QED BY <1>2, <2>1
<1>4. TypeOK'
  BY <1>1, <1>3, Types
<1>5. \A r \in Runs : RowOK(run'[r]) /\ Follows(run'[r], run[r])
  BY <1>2 DEF IInv, RowOK, Follows, Terminal, Owned
<1>6. LeaseNamesOwnedRun'
  BY <1>1, <1>2, Types DEF IInv, LeaseNamesOwnedRun
<1>7. ASSUME NEW q \in Procs, proc[q].pc \in Working, Holds(q)
      PROVE  Holds(q)'
  <2>1. proc[q].run \in Runs
    BY <1>1, <1>7, Types DEF IInv, ProcOK, Working, Unbound, Loop, ProcType
  <2> QED BY <1>1, <1>2, <1>7, <2>1 DEF Holds
<1>8. Quiet' => Quiet
  BY <1>1 DEF Quiet
<1> QED BY <1>1, <1>4, <1>5, <1>6, <1>7, <1>8, TableStep

\* A lease that runs out under a heartbeat is counted as a stall.
LEMMA ExpireStep ==
    ASSUME IInv, RunLifecycleAssumption, NEW r \in Runs, Expire(r)
    PROVE  IInv'
<1> DEFINE row == [run[r] EXCEPT !.live = FALSE]
<1>1. /\ TypeOK /\ lease' = lease /\ proc' = proc /\ signal' = signal /\ canceller' = canceller
      /\ run' = [run EXCEPT ![r] = row]
  BY DEF IInv, Expire
<1>2. run[r] \in RunType /\ RowOK(run[r])
  BY <1>1, Types DEF IInv
<1>3. /\ row \in RunType /\ row.status = run[r].status /\ row.owner = run[r].owner
      /\ row.message = run[r].message /\ row.event = run[r].event
  BY <1>2 DEF RunType
<1> HIDE DEF row
<1>4. /\ run' \in [Runs -> RunType] /\ run'[r] = row
      /\ \A s \in Runs \ {r} : run'[s] = run[s]
  BY <1>1, <1>3, Types
<1>5. used' \in UsedType /\ (Quiet' => Quiet /\ ~Beats(r))
  <2>1. used \in UsedType /\ used.stalls \in Nat /\ MaxStalls \in Nat
    BY <1>1, Types DEF UsedType, RunLifecycleAssumption
  <2>2. CASE Beats(r)
    <3>1. used' = [used EXCEPT !.stalls = @ + 1] /\ used.stalls < MaxStalls
      BY <2>2 DEF Expire
    <3>2. used.stalls + 1 \in 0 .. MaxStalls /\ used.stalls + 1 # 0
      BY <2>1, <3>1
    <3> QED BY <2>1, <3>1, <3>2 DEF UsedType, Quiet
  <2>3. CASE ~Beats(r)
    BY <2>1, <2>3 DEF Expire, Quiet
  <2> QED BY <2>2, <2>3
<1>6. TypeOK'
  BY <1>1, <1>4, <1>5, Types
<1>7. \A s \in Runs : RowOK(run'[s]) /\ Follows(run'[s], run[s])
  BY <1>2, <1>3, <1>4 DEF IInv, RowOK, Follows
<1>8. LeaseNamesOwnedRun'
  BY <1>1, <1>3, <1>4, Types DEF IInv, LeaseNamesOwnedRun
<1>9. ASSUME Quiet', NEW q \in Procs, proc[q].pc \in Working, Holds(q)
      PROVE  Holds(q)'
  <2>1. proc[q].run \in Runs
    BY <1>1, <1>9, Types DEF IInv, ProcOK, Working, Unbound, Loop, ProcType
  <2>2. proc[q].run # r
    BY <1>5, <1>9 DEF Holds, Beats
  <2> QED BY <1>1, <1>4, <1>9, <2>1, <2>2 DEF Holds
<1> QED BY <1>1, <1>5, <1>6, <1>7, <1>8, <1>9, TableStep

\* A cancellation is recorded: a live lease and its owner stay.
LEMMA CancellingStep ==
    ASSUME IInv, RunLifecycleAssumption, NEW r \in Runs, Active(r), Cancelling(r),
           proc' = proc, lease' = lease, signal' = signal, used' \in UsedType, Quiet' => Quiet,
           canceller' \in [Procs -> {"none", "signal", "prompts"}]
    PROVE  IInv'
<1> DEFINE said == [run[r] EXCEPT !.status = "cancelling"]
           told == [said EXCEPT !.cancel = TRUE]
           live == IF run[r].status = "queued" THEN TRUE ELSE run[r].live
           row  == [told EXCEPT !.live = live]
<1>1. TypeOK /\ run[r] \in RunType /\ RowOK(run[r])
  BY Types DEF IInv
<1>2. live \in BOOLEAN /\ (run[r].status # "queued" => live = run[r].live)
  BY <1>1 DEF RunType
<1> HIDE DEF live
<1>2a. run' = [run EXCEPT ![r] = row]
  <2>1. run' = [run EXCEPT ![r].status = "cancelling", ![r].cancel = TRUE, ![r].live = live]
    BY DEF Cancelling, live
  <2> QED BY <1>1, <2>1, Types
<1>3. /\ said \in RunType /\ said.status = "cancelling" /\ said.owner = run[r].owner
      /\ said.live = run[r].live /\ said.message = run[r].message /\ said.event = run[r].event
  BY <1>1 DEF RunType, RunStatus, Owned
<1> HIDE DEF said
<1>4. /\ told \in RunType /\ told.status = "cancelling" /\ told.owner = run[r].owner
      /\ told.live = run[r].live /\ told.message = run[r].message /\ told.event = run[r].event
  BY <1>3 DEF RunType
<1> HIDE DEF told
<1>5. /\ row \in RunType /\ row.status = "cancelling" /\ row.owner = run[r].owner
      /\ run[r].status # "queued" => row.live = run[r].live
      /\ row.message = run[r].message /\ row.event = run[r].event
  BY <1>2, <1>4 DEF RunType
<1> HIDE DEF row
<1>6. /\ run' \in [Runs -> RunType] /\ run'[r] = row
      /\ \A s \in Runs \ {r} : run'[s] = run[s]
  BY <1>2a, <1>1, <1>5, Types
<1>7. TypeOK'
  BY <1>1, <1>6, Types
<1>8. \A s \in Runs : RowOK(run'[s]) /\ Follows(run'[s], run[s])
  BY <1>1, <1>5, <1>6 DEF IInv, RowOK, Follows, Active, Owned, Terminal
<1>9. LeaseNamesOwnedRun'
  BY <1>1, <1>5, <1>6, Types DEF IInv, LeaseNamesOwnedRun, Owned
<1>10. ASSUME NEW q \in Procs, proc[q].pc \in Working, Holds(q)
       PROVE  Holds(q)'
  <2>1. proc[q].run \in Runs
    BY <1>1, <1>10, Types DEF IInv, ProcOK, Working, Unbound, Loop, ProcType
  <2> QED BY <1>5, <1>6, <1>10, <2>1 DEF Holds, Owned
<1> QED BY <1>7, <1>8, <1>9, <1>10, TableStep

\* Both requests to cancel write at most the row of an active run.
LEMMA RequestSteps ==
    ASSUME IInv, RunLifecycleAssumption, NEW p \in Procs,
           (\E r \in Runs : CancelRun(p, r)) \/ InterruptSession(p)
    PROVE  IInv'
<1>1. TypeOK /\ used \in UsedType
  BY Types DEF IInv
<1>2. /\ proc' = proc /\ lease' = lease /\ signal' = signal
      /\ canceller' \in [Procs -> {"none", "signal", "prompts"}]
  BY <1>1, Types DEF CancelRun, InterruptSession, RequestCancel
<1>3. used' \in UsedType /\ (Quiet' => Quiet)
  <2>1. CASE \E r \in Runs : CancelRun(p, r)
    <3>1. used' = [used EXCEPT !.cancels = @ + 1] /\ used.cancels < MaxCancels
      BY <2>1 DEF CancelRun
    <3>2. used.cancels + 1 \in 0 .. MaxCancels
      BY <1>1, <3>1 DEF UsedType, RunLifecycleAssumption
    <3> QED BY <1>1, <3>1, <3>2 DEF UsedType, Quiet
  <2>2. CASE InterruptSession(p)
    <3>1. used' = [used EXCEPT !.interrupts = @ + 1] /\ used.interrupts < MaxInterrupts
      BY <2>2 DEF InterruptSession
    <3>2. used.interrupts + 1 \in 0 .. MaxInterrupts
      BY <1>1, <3>1 DEF UsedType, RunLifecycleAssumption
    <3> QED BY <1>1, <3>1, <3>2 DEF UsedType, Quiet
  <2> QED BY <2>1, <2>2
<1>4. CASE run' = run
  <2>1. TypeOK'
    BY <1>1, <1>2, <1>3, <1>4, Types
  <2>2. ProcOK(p)'
    BY <1>2, <1>4 DEF IInv, ProcOK, Limited
  <2> QED BY <1>2, <1>3, <1>4, <2>1, <2>2, QuietStep
<1>5. CASE \E r \in Runs : Active(r) /\ Cancelling(r)
  BY <1>2, <1>3, <1>5, CancellingStep
<1> QED BY <1>4, <1>5 DEF CancelRun, InterruptSession

-----------------------------------------------------------------------------
(* The theorems.                                                           *)

\* No run, no lease and idle processes satisfy the invariant.
LEMMA InitIInv ==
    ASSUME RunLifecycleAssumption, Init
    PROVE  IInv
<1>1. /\ NoRun \in RunType /\ NoRun.status = "none" /\ NoRun.owner = NULL
      /\ ~NoRun.message /\ ~NoRun.event
  BY DEF NoRun, RunType, RunStatus
<1>2. Idle \in ProcType /\ Idle.pc = "idle" /\ Idle.run = 0 /\ ~Idle.beat
  BY DEF Idle, ProcType, Places, RunLifecycleAssumption
<1>3. used \in UsedType
  BY DEF Init, UsedType, RunLifecycleAssumption
<1>4. TypeOK
  BY <1>1, <1>2, <1>3, Types DEF Init
<1>5. \A p \in Procs : ProcOK(p) /\ proc[p].run = 0 /\ proc[p].pc \notin Working
  BY <1>2 DEF Init, ProcOK, Unbound, Unopened, Working, Loop
<1>6. \A r \in Runs : RowOK(run[r])
  BY <1>1 DEF Init, RowOK, Terminal
<1>7. LeaseNamesOwnedRun
  BY DEF Init, LeaseNamesOwnedRun
<1> QED BY <1>4, <1>5, <1>6, <1>7 DEF IInv, Apart, WorkersHold

\* Every step preserves the invariant.
LEMMA NextIInv ==
    ASSUME RunLifecycleAssumption, IInv, [Next]_vars
    PROVE  IInv'
<1>1. CASE UNCHANGED vars
  BY <1>1 DEF vars, IInv, TypeOK, ProcOK, Limited, RowOK, Apart, LeaseNamesOwnedRun, WorkersHold,
             Holds
<1>2. ASSUME NEW p \in Procs, Work(p)
      PROVE  IInv'
  BY <1>2, CreateRunStep, StartRunStep, OpenMessageStep, LoopSteps, CheckpointStep, StreamStep,
     PromptSteps, EndCallStep, FinishSteps DEF Work
<1>3. ASSUME NEW p \in Procs,
             \/ Accept(p) \/ Reply(p) \/ CancelTask(p) \/ CancelOpening(p) \/ CancelEnding(p)
             \/ OpenFault(p) \/ FinishFault(p)
             \/ Heartbeat(p) \/ HeartbeatFault(p) \/ Crash(p) \/ Restart(p) \/ Reconcile(p)
             \/ \E r \in Runs : CancelRun(p, r)
             \/ InterruptSession(p) \/ SendSignal(p) \/ RejectPrompts(p)
      PROVE  IInv'
  BY <1>3, AcceptStep, LoopSteps, CancelTaskStep, CancelOpeningStep, CancelEndingStep,
     OpenFaultStep, FinishFaultStep, HeartbeatStep,
     HeartbeatFaultStep, CrashStep, RestartStep, ReconcileStep, RequestSteps, CancellerSteps
<1>4. CASE Next
  BY <1>2, <1>3, <1>4, ExpireStep DEF Next
<1> QED BY <1>1, <1>4

\* The invariant holds in every state, for any number of processes and runs, and however
\* often they are cancelled, crash, stall and fail.
THEOREM InvariantHolds == Spec => []IInv
<1>1. Init => IInv
  BY InitIInv, RunLifecycleAssumption
<1>2. IInv /\ [Next]_vars => IInv'
  BY NextIInv, RunLifecycleAssumption
<1> QED BY <1>1, <1>2, PTL DEF Spec

\* Rows, processes, signals and bounds always have their types.
THEOREM TypeCorrect == Spec => []TypeOK
<1>1. IInv => TypeOK
  BY DEF IInv
<1> QED BY <1>1, InvariantHolds, PTL

\* As long as no lease expires under a process that heartbeats and no transaction fails,
\* one process at a time works on the session.
THEOREM OneWorkerUntilStall == Spec => []ExclusiveUntilStall
<1>1. IInv => ExclusiveUntilStall
  <2> SUFFICES ASSUME IInv, used.stalls = 0, used.faults = 0,
                      NEW p \in Procs, NEW q \in Procs, proc[p].pc \in Loop, proc[q].pc \in Loop
               PROVE  p = q
    BY DEF ExclusiveUntilStall
  <2>1. Holds(p) /\ Holds(q)
    BY DEF IInv, WorkersHold, Working
  <2>2. proc[p].run = proc[q].run /\ proc[p].run # 0
    BY <2>1 DEF Holds, IInv, ProcOK
  <2> QED BY <2>2 DEF IInv, Apart
<1> QED BY <1>1, InvariantHolds, PTL

\* A run with an assistant message ends together with its outbox event, and has none
\* before: no end of a run is lost for those who consume the outbox.
THEOREM EndsArePublished == Spec => []EndedRunIsPublished
<1>1. IInv => EndedRunIsPublished
  BY DEF IInv, RowOK, EndedRunIsPublished
<1> QED BY <1>1, InvariantHolds, PTL

\* The lease of the session is always held by a run that was started and has not ended.
THEOREM LeaseIsNeverLeftBehind == Spec => []LeaseNamesOwnedRun
<1>1. IInv => LeaseNamesOwnedRun
  BY DEF IInv
<1> QED BY <1>1, InvariantHolds, PTL

\* Only a running, waiting or cancelled run changes its status for a prompt.
LEMMA ApprovalKeepsEnded ==
    ASSUME IInv, NEW p \in Procs, NEW r \in Runs, run[r].status \in Terminal,
           NEW to, SetApproval(p, "running", to) \/ SetApproval(p, "waiting_approval", to)
    PROVE  run'[r] = run[r]
<1>1. run \in [Runs -> RunType] /\ run[r] \in RunType
  BY Types DEF IInv
<1> QED BY <1>1 DEF SetApproval, Terminal, RunType

\* No step writes the row of a run that has ended, but for its message.
LEMMA EndedStays ==
    ASSUME RunLifecycleAssumption, IInv, [Next]_vars, NEW r \in Runs, run[r].status \in Terminal
    PROVE  run'[r] = [run[r] EXCEPT !.message = run'[r].message]
<1>1. run \in [Runs -> RunType] /\ run[r] \in RunType /\ run[r].owner = NULL /\ ~Active(r)
      /\ run[r].status \notin Owned
  BY Types DEF IInv, RowOK, Terminal, Owned, Active
<1>2. SUFFICES ASSUME run'[r] # run[r]
               PROVE  run'[r] = [run[r] EXCEPT !.message = run'[r].message]
  BY <1>1 DEF RunType
<1>3. ASSUME NEW p \in Procs, OpenMessage(p) \/ CancelOpening(p)
      PROVE  run'[r] = [run[r] EXCEPT !.message = run'[r].message]
  <2>1. run' = [run EXCEPT ![proc[p].run].message = TRUE]
    BY <1>2, <1>3 DEF OpenMessage, CancelOpening
  <2> QED BY <1>1, <1>2, <2>1 DEF RunType
<1>4. ASSUME NEW p \in Procs, NEW s \in Runs, CreateRun(p, s)
      PROVE  FALSE
  <2>1. run[s].status = "none"
    BY <1>4 DEF CreateRun, Runs
  <2>2. s # r
    BY <2>1 DEF Terminal
  <2> QED BY <1>1, <1>2, <1>4, <2>2 DEF CreateRun
<1>5. ASSUME NEW p \in Procs, StartRun(p)
      PROVE  FALSE
  <2>1. CASE run' = run
    BY <1>2, <2>1
  <2>2. CASE /\ run[proc[p].run].status = "queued"
             /\ run' = [run EXCEPT ![proc[p].run].status = "running",
                                   ![proc[p].run].owner = p, ![proc[p].run].live = TRUE]
    <3>1. proc[p].run # r
      BY <2>2 DEF Terminal
    <3> QED BY <1>1, <1>2, <2>2, <3>1
  <2> QED BY <1>5, <2>1, <2>2 DEF StartRun
<1>6. ASSUME NEW p \in Procs, Ask(p) \/ Resume(p) \/ CancelTask(p)
      PROVE  FALSE
  BY <1>2, <1>6, ApprovalKeepsEnded DEF Ask, Resume, CancelTask
<1>7. ASSUME NEW p \in Procs, Finish(p) \/ FinishEarly(p)
      PROVE  FALSE
  <2>1. PICK status, event : End(proc[p].run, status, event)
    BY <1>2, <1>7 DEF Finish, FinishEarly
  <2>2. CASE Active(proc[p].run)
    <3>1. proc[p].run # r
      BY <1>1, <2>2
    <3> QED BY <1>1, <1>2, <2>1, <2>2, <3>1 DEF End
  <2>3. CASE ~Active(proc[p].run)
    BY <1>2, <2>1, <2>3 DEF End
  <2> QED BY <2>2, <2>3
<1>8. ASSUME NEW p \in Procs, Heartbeat(p)
      PROVE  FALSE
  <2>1. CASE Ours(p) /\ run[proc[p].run].status \in Owned
    <3>1. proc[p].run # r
      BY <1>1, <2>1
    <3> QED BY <1>1, <1>2, <1>8, <2>1, <3>1 DEF Heartbeat
  <2>2. CASE ~(Ours(p) /\ run[proc[p].run].status \in Owned)
    BY <1>2, <1>8, <2>2 DEF Heartbeat
  <2> QED BY <2>1, <2>2
<1>9. ASSUME NEW p \in Procs, Crash(p) \/ Reconcile(p)
      PROVE  FALSE
  BY <1>1, <1>2, <1>9 DEF Crash, Reconcile, Abandoned, RunLifecycleAssumption
<1>10. ASSUME NEW s \in Runs, Active(s), Cancelling(s) \/ Expire(s)
       PROVE  FALSE
  <2>1. s # r
    BY <1>1, <1>10
  <2> QED BY <1>1, <1>2, <1>10, <2>1 DEF Cancelling, Expire
<1>11. ASSUME NEW p \in Procs, InterruptSession(p) \/ \E s \in Runs : CancelRun(p, s)
       PROVE  FALSE
  BY <1>2, <1>10, <1>11 DEF InterruptSession, CancelRun
<1>12. ASSUME NEW p \in Procs,
              \/ Accept(p) \/ Guard(p) \/ GuardSignal(p) \/ Stop(p) \/ Checkpoint(p) \/ Stream(p)
              \/ StartCall(p) \/ EndCall(p) \/ Reply(p) \/ FinishFault(p) \/ HeartbeatFault(p)
              \/ OpenFault(p) \/ CancelEnding(p) \/ Restart(p) \/ SendSignal(p) \/ RejectPrompts(p)
       PROVE  FALSE
  BY <1>2, <1>12 DEF Accept, Guard, GuardSignal, Stop, Checkpoint, Stream, StartCall, EndCall,
                     Reply, FinishFault, HeartbeatFault, OpenFault, CancelEnding, Restart,
                     SendSignal, RejectPrompts
<1>13. Next
  BY <1>2 DEF vars
<1>14. CASE \E s \in Runs : Expire(s)
  BY <1>10, <1>14 DEF Expire
<1>15. ASSUME NEW p \in Procs, Work(p)
       PROVE  run'[r] = [run[r] EXCEPT !.message = run'[r].message]
  BY <1>3, <1>4, <1>5, <1>6, <1>7, <1>12, <1>15 DEF Work
<1> QED BY <1>3, <1>6, <1>8, <1>9, <1>11, <1>12, <1>13, <1>14, <1>15 DEF Next

\* A run that has ended keeps its status, owner and outbox row for ever, whatever a worker
\* that lost it, a late cancellation or the reconciler do next.
THEOREM TheEndIsFinal == Spec => EndedIsFinal
<1>1. IInv /\ [Next]_vars =>
          [\A r \in Runs : run[r].status \in Terminal =>
               run'[r] = [run[r] EXCEPT !.message = run'[r].message]]_vars
  BY EndedStays, RunLifecycleAssumption
<1> QED BY <1>1, InvariantHolds, PTL DEF Spec, EndedIsFinal
=============================================================================
