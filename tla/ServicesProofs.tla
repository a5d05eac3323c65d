--------------------------- MODULE ServicesProofs ---------------------------
(* Proofs about what starts runs, Triggers with CronJobs and Channels, and *)
(* about McpServers, for any number of jobs, requests and events.          *)
EXTENDS Triggers, McpServers, FiniteSetTheorems, TLAPS

-----------------------------------------------------------------------------
(* Triggers.                                                               *)

Times   == 0 .. MaxTime + 1
JobType == [there : BOOLEAN, kind : {"at", "every"}, at : Times \cup {NULL}, enabled : BOOLEAN,
            next : Times \cup {NULL}, once : BOOLEAN]
DueType == [job : Jobs, copy : JobType]
ExecType == [job : Jobs \cup {NULL}, copy : JobType,
             stage : {"idle", "turn", "recording", "settling"}, ended : 0 .. MaxTime]

\* A row of a recurring job, or a copy of one, that was settled against itself.
Wakes(row) == row.kind = "every" => (row.enabled <=> row.next # NULL)

CronTypeOK ==
    /\ now \in 0 .. MaxTime
    /\ job \in [Jobs -> JobType]
    /\ tick \in Seq(DueType)
    /\ exec \in [Executors -> ExecType]
    /\ asked \in [Jobs -> {"on", "off", "crossed"}]

\* A row agrees with the last request that switched it.
Obeys(row, last) ==
    row.there =>
        /\ Wakes(row)
        /\ last = "off" => ~row.enabled
        /\ last = "on" /\ row.kind = "every" => row.enabled

\* And so does a copy of the row, when the request met none that did not.
Agrees(d, row, last) ==
    row.there =>
        /\ d.copy.kind = row.kind
        /\ last = "off" => ~d.copy.enabled
        /\ last = "on" /\ row.kind = "every" => d.copy.enabled

\* The loop has copies of enabled jobs only.
LoopWants ==
    /\ \A i \in DOMAIN tick : tick[i].copy.enabled
    /\ exec["loop"].job # NULL => exec["loop"].copy.enabled

CronInv ==
    /\ CronTypeOK
    /\ \A j \in Jobs : Obeys(job[j], asked[j])
    /\ \A d \in Copies : d.job # NULL => Agrees(d, job[d.job], asked[d.job])
    /\ LoopWants

TurnType == [stage : {"idle", "posting", "writing", "waiting", "starting", "running", "lingering"},
             own : Nat, answers : Nat, again : BOOLEAN]

\* The message a starter has posted is in the log, with its text once the starter
\* goes on; the run that answers took one that is not older.
Fits(t, msgs) ==
    /\ t.own <= Len(msgs) /\ t.answers <= Len(msgs)
    /\ t.stage = "writing" => t.own > 0
    /\ t.own > 0 /\ t.stage \notin {"posting", "writing"} => msgs[t.own].text
    /\ t.stage \in {"running", "lingering"} => t.own <= t.answers

TurnInv ==
    /\ log \in Seq([text : BOOLEAN, run : BOOLEAN])
    /\ turn \in [Starters -> TurnType]
    /\ \A e \in Starters : Fits(turn[e], log)

\* The inductive invariant.
TriggersInv == CronInv /\ TurnInv

LEMMA NullIsNoTime == NULL \notin Times /\ MaxTime \in Nat
BY CronAssumption DEF Times

\* compute_next_run for a row, at a time the clock can show.
LEMMA NextRunType ==
    ASSUME NEW row \in JobType, NEW t \in 0 .. MaxTime
    PROVE  /\ NextRun(row, t) \in Times \cup {NULL}
           /\ row.kind = "every" => NextRun(row, t) # NULL
           /\ Wake(row, t) \in Times \cup {NULL}
           /\ row.kind = "every" => (row.enabled <=> Wake(row, t) # NULL)
<1>1. t + 1 \in Times
  BY NullIsNoTime DEF Times
<1> QED BY <1>1, NullIsNoTime DEF NextRun, Wake, JobType

\* What becomes of the types when the clock, the rows and the copies are other ones.
LEMMA CronTypes ==
    ASSUME CronInv, job' \in [Jobs -> JobType], tick' \in Seq(DueType),
           exec' \in [Executors -> ExecType], now' \in 0 .. MaxTime,
           asked' \in [Jobs -> {"on", "off", "crossed"}]
    PROVE  CronTypeOK'
BY DEF CronTypeOK

\* A copy is of a job, or of none.
LEMMA CopyType ==
    ASSUME CronInv, NEW d \in Copies
    PROVE  d.job \in Jobs \cup {NULL} /\ d.copy \in JobType
<1>1. CASE d \in ToSet(tick)
  <2>1. PICK i \in DOMAIN tick : d = tick[i]
    BY <1>1 DEF ToSet
  <2>2. d \in DueType
    BY <2>1 DEF CronInv, CronTypeOK
  <2> QED BY <2>2 DEF DueType
<1>2. CASE \E e \in Executors : d = [job |-> exec[e].job, copy |-> exec[e].copy]
  <2>1. PICK e \in Executors : d = [job |-> exec[e].job, copy |-> exec[e].copy]
    BY <1>2
  <2>2. exec[e] \in ExecType
    BY DEF CronInv, CronTypeOK
  <2> QED BY <2>1, <2>2 DEF ExecType
<1> QED BY <1>1, <1>2 DEF Copies

\* One row is written, with what was asked last for its job.
LEMMA RowWritten ==
    ASSUME CronInv, NEW j \in Jobs, NEW row \in JobType, NEW last \in {"on", "off", "crossed"},
           Obeys(row, last), job' = [job EXCEPT ![j] = row], asked' = [asked EXCEPT ![j] = last],
           tick' \in Seq(DueType), exec' \in [Executors -> ExecType], now' \in 0 .. MaxTime,
           \A d \in Copies' : d \in Copies \/ d.job = NULL,
           \A d \in Copies : d.job = j => Agrees(d, row, last),
           LoopWants'
    PROVE  CronInv'
<1>1. job \in [Jobs -> JobType] /\ asked \in [Jobs -> {"on", "off", "crossed"}]
  BY DEF CronInv, CronTypeOK
<1>2. CronTypeOK'
  BY <1>1, CronTypes
<1>3. \A i \in Jobs : Obeys(job'[i], asked'[i])
  BY <1>1 DEF CronInv
<1>4. ASSUME NEW d \in Copies', d.job # NULL PROVE Agrees(d, job'[d.job], asked'[d.job])
  <2>1. d \in Copies
    BY <1>4
  <2>2. d.job \in Jobs
    BY <1>4, <2>1, CopyType
  <2>3. CASE d.job = j
    BY <1>1, <2>1, <2>3
  <2>4. CASE d.job # j
    BY <1>1, <1>4, <2>1, <2>2, <2>4 DEF CronInv
  <2> QED BY <2>3, <2>4
<1> QED BY <1>2, <1>3, <1>4 DEF CronInv

\* No row is written; a copy is an old one, or one of a row that is there.
LEMMA RowsKept ==
    ASSUME CronInv, job' = job, asked' = asked, tick' \in Seq(DueType),
           exec' \in [Executors -> ExecType], now' \in 0 .. MaxTime,
           \A d \in Copies' : \/ d \in Copies \/ d.job = NULL
                              \/ d.job \in Jobs /\ d.copy = job[d.job],
           LoopWants'
    PROVE  CronInv'
<1>1. CronTypeOK'
  BY CronTypes DEF CronInv, CronTypeOK
<1>2. ASSUME NEW d \in Copies', d.job # NULL PROVE Agrees(d, job[d.job], asked[d.job])
  <2>1. CASE d \in Copies
    BY <1>2, <2>1 DEF CronInv
  <2>2. CASE d.job \in Jobs /\ d.copy = job[d.job]
    <3>1. Obeys(job[d.job], asked[d.job])
      BY <2>2 DEF CronInv
    <3> QED BY <2>2, <3>1 DEF Obeys, Agrees
  <2> QED BY <1>2, <2>1, <2>2
<1> QED BY <1>1, <1>2 DEF CronInv

\* The copies after one executor has turned to something else.
LEMMA ExecCopies ==
    ASSUME CronInv, NEW e \in Executors, NEW x \in ExecType, exec' = [exec EXCEPT ![e] = x],
           NEW d \in Copies'
    PROVE  d \in ToSet(tick') \/ d \in Copies \/ d = [job |-> x.job, copy |-> x.copy]
<1>1. exec \in [Executors -> ExecType]
  BY DEF CronInv, CronTypeOK
<1>2. CASE \E q \in Executors : d = [job |-> exec'[q].job, copy |-> exec'[q].copy]
  <2>1. PICK q \in Executors : d = [job |-> exec'[q].job, copy |-> exec'[q].copy]
    BY <1>2
  <2>2. exec'[q] = IF q = e THEN x ELSE exec[q]
    BY <1>1
  <2> QED BY <2>1, <2>2 DEF Copies
<1> QED BY <1>2 DEF Copies

\* Nobody begins or ends an execution.
LEMMA SameCopies ==
    ASSUME UNCHANGED <<tick, exec>>
    PROVE  Copies' = Copies /\ LoopWants' = LoopWants
BY DEF Copies, LoopWants

LEMMA ReadDueStep ==
    ASSUME CronInv, ReadDue
    PROVE  CronInv'
<1> DEFINE due == {j \in Jobs : IsDue(j)}
<1>1. PICK order \in SetToSeqs(due) :
         tick' = [i \in DOMAIN order |-> [job |-> order[i], copy |-> job[order[i]]]]
  BY DEF ReadDue
<1>2. Cardinality(due) \in Nat
  BY CronAssumption, FS_Subset, FS_CardinalityType
<1>3. order \in [1 .. Cardinality(due) -> due]
  BY DEF SetToSeqs
<1>4. \A i \in 1 .. Cardinality(due) :
          /\ [job |-> order[i], copy |-> job[order[i]]] \in DueType
          /\ job[order[i]].enabled
  BY <1>3 DEF CronInv, CronTypeOK, DueType, IsDue
<1>5. tick' \in Seq(DueType)
  BY <1>1, <1>2, <1>3, <1>4
<1>6. exec' = exec /\ UNCHANGED <<now, job, asked>>
  BY DEF ReadDue
<1>7. LoopWants'
  BY <1>1, <1>3, <1>4, <1>6 DEF LoopWants, CronInv
<1>8. ASSUME NEW d \in Copies'
      PROVE  d \in Copies \/ (d.job \in Jobs /\ d.copy = job[d.job])
  <2>1. CASE d \in ToSet(tick')
    <3>1. PICK i \in DOMAIN order : d = [job |-> order[i], copy |-> job[order[i]]]
      BY <1>1, <2>1 DEF ToSet
    <3> QED BY <1>3, <3>1
  <2>2. CASE d \notin ToSet(tick')
    BY <1>6, <1>8, <2>2 DEF Copies
  <2> QED BY <2>1, <2>2
<1> QED BY <1>5, <1>6, <1>7, <1>8, RowsKept DEF CronInv, CronTypeOK

\* Begin, for one of the jobs and a copy of its row.
LEMMA BeginType ==
    ASSUME CronInv, NEW e \in Executors, NEW j \in Jobs, NEW copy \in JobType, Begin(e, j, copy)
    PROVE  /\ exec' \in [Executors -> ExecType]
           /\ exec'[e].job = j /\ exec'[e].copy = copy
           /\ \A q \in Executors \ {e} : exec'[q] = exec[q]
           /\ \A d \in Copies' : d \in ToSet(tick') \/ d \in Copies \/ d = [job |-> j, copy |-> copy]
<1> DEFINE x == [job |-> j, copy |-> copy, stage |-> "turn", ended |-> 0]
<1>1. x \in ExecType /\ x.job = j /\ x.copy = copy
  BY CronAssumption DEF ExecType
<1>2. exec' = [exec EXCEPT ![e] = x] /\ exec \in [Executors -> ExecType]
  BY DEF Begin, CronInv, CronTypeOK
<1> HIDE DEF x
<1> QED BY <1>1, <1>2, ExecCopies

LEMMA ExecuteDueStep ==
    ASSUME CronInv, ExecuteDue
    PROVE  CronInv'
<1>1. tick # <<>> /\ tick \in Seq(DueType) /\ tick' = Tail(tick)
  BY DEF ExecuteDue, CronInv, CronTypeOK
<1>2. /\ tick' \in Seq(DueType) /\ Head(tick) \in DueType /\ Head(tick) = tick[1]
      /\ 1 \in DOMAIN tick
      /\ \A i \in DOMAIN tick' : i + 1 \in DOMAIN tick /\ tick'[i] = tick[i + 1]
  BY <1>1
<1>3. ToSet(tick') \subseteq Copies /\ Head(tick) \in Copies /\ Head(tick).copy.enabled
  BY <1>2 DEF ToSet, Copies, CronInv, LoopWants
<1>4. \A i \in DOMAIN tick' : tick'[i].copy.enabled
  BY <1>2 DEF CronInv, LoopWants
<1>5. UNCHANGED <<now, job, asked>>
  BY DEF ExecuteDue
<1>6. CASE Begin("loop", Head(tick).job, Head(tick).copy)
  <2>0. Head(tick) = [job |-> Head(tick).job, copy |-> Head(tick).copy]
        /\ Head(tick).job \in Jobs /\ Head(tick).copy \in JobType
    BY <1>2 DEF DueType
  <2>1. /\ exec' \in [Executors -> ExecType] /\ exec'["loop"].copy = Head(tick).copy
        /\ \A d \in Copies' : d \in ToSet(tick') \/ d \in Copies \/ d = Head(tick)
    BY <1>6, <2>0, BeginType DEF Executors
  <2>2. LoopWants'
    BY <1>3, <1>4, <2>1 DEF LoopWants
  <2> QED BY <1>2, <1>3, <1>5, <2>1, <2>2, RowsKept DEF CronInv, CronTypeOK
<1>7. CASE exec' = exec
  <2>1. \A d \in Copies' : d \in Copies
    BY <1>3, <1>7 DEF Copies
  <2>2. LoopWants'
    BY <1>4, <1>7 DEF LoopWants, CronInv
  <2> QED BY <1>2, <1>5, <1>7, <2>1, <2>2, RowsKept DEF CronInv, CronTypeOK
<1> QED BY <1>6, <1>7 DEF ExecuteDue

LEMMA CreateStep ==
    ASSUME CronInv, NEW j \in Jobs, NEW kind \in {"at", "every"}, NEW once \in BOOLEAN,
           Create(j, kind, IF kind = "at" THEN now + 1 ELSE NULL, once)
    PROVE  CronInv'
<1> DEFINE at  == IF kind = "at" THEN now + 1 ELSE NULL
           row == [there |-> TRUE, kind |-> kind, at |-> at, enabled |-> TRUE, next |-> NULL,
                   once |-> once]
           new == [row EXCEPT !.next = Wake(row, now)]
<1>1. /\ job' = [job EXCEPT ![j] = new] /\ asked' = [asked EXCEPT ![j] = "on"]
      /\ \A d \in Copies : d.job # j
      /\ UNCHANGED <<now, tick, exec>>
  BY DEF Create
<1>2. now \in 0 .. MaxTime
  BY DEF CronInv, CronTypeOK
<1>3. row \in JobType
  BY <1>2, NullIsNoTime DEF JobType, Times
<1>4. row.enabled /\ row.kind = kind
  OBVIOUS
<1> HIDE DEF row
<1>5. new \in JobType /\ Wakes(new) /\ new.enabled
  BY <1>2, <1>3, <1>4, NextRunType DEF JobType, Wakes
<1> HIDE DEF new
<1>6. Obeys(new, "on")
  BY <1>5 DEF Obeys
<1> QED BY <1>1, <1>5, <1>6, SameCopies, RowWritten DEF CronInv, CronTypeOK

LEMMA SetEnabledStep ==
    ASSUME CronInv, NEW j \in Jobs, NEW enabled \in BOOLEAN, SetEnabled(j, enabled)
    PROVE  CronInv'
<1> DEFINE new  == [job[j] EXCEPT !.enabled = enabled,
                                  !.next = IF enabled THEN NextRun(job[j], now) ELSE NULL]
           last == IF \E d \in Copies : d.job = j /\ d.copy.enabled # enabled THEN "crossed"
                   ELSE IF enabled THEN "on" ELSE "off"
<1>1. /\ job' = [job EXCEPT ![j] = new] /\ asked' = [asked EXCEPT ![j] = last]
      /\ UNCHANGED <<now, tick, exec>> /\ job[j].there
  BY DEF SetEnabled
<1>2. now \in 0 .. MaxTime /\ job[j] \in JobType
  BY DEF CronInv, CronTypeOK
<1>3. new \in JobType /\ Wakes(new) /\ new.enabled = enabled /\ new.kind = job[j].kind
  BY <1>2, NextRunType DEF JobType, Wakes
<1>4. /\ last \in {"on", "off", "crossed"}
      /\ last = "on" => enabled /\ \A d \in Copies : d.job = j => d.copy.enabled = enabled
      /\ last = "off" => ~enabled /\ \A d \in Copies : d.job = j => d.copy.enabled = enabled
  OBVIOUS
<1> HIDE DEF new, last
<1>5. Obeys(new, last)
  BY <1>3, <1>4 DEF Obeys
<1>6. \A d \in Copies : d.job = j => Agrees(d, new, last)
  <2>1. SUFFICES ASSUME NEW d \in Copies, d.job = j PROVE Agrees(d, new, last)
    OBVIOUS
  <2>2. j # NULL
    BY CronAssumption
  <2>3. Agrees(d, job[j], asked[j])
    BY <2>1, <2>2 DEF CronInv
  <2> QED BY <1>1, <1>3, <1>4, <2>1, <2>3 DEF Agrees
<1> QED BY <1>1, <1>3, <1>4, <1>5, <1>6, SameCopies, RowWritten DEF CronInv, CronTypeOK

LEMMA NoJobType == NoJob \in JobType /\ ~NoJob.there
BY DEF NoJob, JobType

LEMMA DeleteStep ==
    ASSUME CronInv, NEW j \in Jobs, Delete(j)
    PROVE  CronInv'
<1>1. /\ job' = [job EXCEPT ![j] = NoJob] /\ asked' = [asked EXCEPT ![j] = "off"]
      /\ UNCHANGED <<now, tick, exec>>
  BY DEF Delete
<1>2. Obeys(NoJob, "off") /\ \A d \in Copies : Agrees(d, NoJob, "off")
  BY NoJobType DEF Obeys, Agrees
<1> QED BY <1>1, <1>2, NoJobType, SameCopies, RowWritten DEF CronInv, CronTypeOK

\* What an execution makes of a row, when both agree with what was asked last.
LEMMA SettledRow ==
    ASSUME NEW row \in JobType, NEW copy \in JobType, NEW t \in 0 .. MaxTime,
           NEW last \in {"on", "off", "crossed"}, row.there, Obeys(row, last),
           Agrees([job |-> NULL, copy |-> copy], row, last)
    PROVE  /\ Settled(row, copy, t) \in JobType /\ Obeys(Settled(row, copy, t), last)
           /\ Settled(row, copy, t).there => Settled(row, copy, t).kind = row.kind
<1>1. /\ copy.kind = row.kind /\ (last = "off" => ~copy.enabled)
      /\ last = "on" /\ row.kind = "every" => copy.enabled
  BY DEF Agrees
<1>2. CASE copy.kind = "at"
  BY <1>1, <1>2, NoJobType DEF Settled, Obeys, Wakes, JobType
<1>3. CASE copy.kind # "at"
  <2> DEFINE new == [row EXCEPT !.enabled = copy.enabled, !.next = Wake(copy, t)]
  <2>1. Settled(row, copy, t) = new /\ copy.kind = "every"
    BY <1>3 DEF Settled, JobType
  <2>2. /\ Wake(copy, t) \in Times \cup {NULL}
        /\ copy.enabled <=> Wake(copy, t) # NULL
    BY <2>1, NextRunType
  <2>3. /\ new \in JobType /\ new.enabled = copy.enabled /\ new.next = Wake(copy, t)
        /\ new.kind = row.kind
    BY <2>2 DEF JobType
  <2> HIDE DEF new
  <2> QED BY <1>1, <2>1, <2>2, <2>3 DEF Obeys, Wakes
<1> QED BY <1>2, <1>3

\* An execution that ends has the row go on as its copy says, which is what was asked
\* last unless the request met the execution.
LEMMA SettleStep ==
    ASSUME CronInv, NEW e \in Executors, Settle(e)
    PROVE  CronInv'
<1> DEFINE j   == exec[e].job
           new == IF job[j].there THEN Settled(job[j], exec[e].copy, exec[e].ended) ELSE job[j]
<1>1. /\ exec[e] \in ExecType
      /\ job' = [job EXCEPT ![j] = new]
      /\ exec' = [exec EXCEPT ![e] = Rest] /\ UNCHANGED <<now, tick, asked>>
  BY DEF Settle, CronInv, CronTypeOK
<1>2. Rest \in ExecType /\ Rest.job = NULL
  BY NoJobType, CronAssumption DEF Rest, ExecType
<1>3. exec' \in [Executors -> ExecType] /\ tick' \in Seq(DueType) /\ now' \in 0 .. MaxTime
  BY <1>1, <1>2 DEF CronInv, CronTypeOK
<1>4. \A d \in Copies' : d \in Copies \/ d.job = NULL
  <2>1. SUFFICES ASSUME NEW d \in Copies', d \notin Copies PROVE d.job = NULL
    OBVIOUS
  <2>2. ToSet(tick') \subseteq Copies
    BY <1>1 DEF Copies
  <2>3. d \in ToSet(tick') \/ d \in Copies \/ d = [job |-> Rest.job, copy |-> Rest.copy]
    BY <1>1, <1>2, ExecCopies
  <2> QED BY <1>2, <2>1, <2>2, <2>3
<1>5. LoopWants'
  BY <1>1, <1>2 DEF LoopWants, CronInv, CronTypeOK
<1>6. CASE j \in Jobs
  <2> DEFINE mine == [job |-> j, copy |-> exec[e].copy]
  <2>1. /\ exec[e].copy \in JobType /\ exec[e].ended \in 0 .. MaxTime
        /\ job[j] \in JobType /\ asked[j] \in {"on", "off", "crossed"}
        /\ Obeys(job[j], asked[j]) /\ j # NULL
    BY <1>1, <1>6, CronAssumption DEF ExecType, CronInv, CronTypeOK
  <2>2. mine \in Copies /\ mine.job = j
    BY DEF Copies
  <2>3. Agrees(mine, job[j], asked[j])
    BY <2>1, <2>2 DEF CronInv
  <2>4. Agrees([job |-> NULL, copy |-> exec[e].copy], job[j], asked[j])
    BY <2>3 DEF Agrees
  <2>5. /\ new \in JobType /\ Obeys(new, asked[j])
        /\ new.there => job[j].there /\ new.kind = job[j].kind
    BY <2>1, <2>4, SettledRow
  <2>6. \A d \in Copies : d.job = j => Agrees(d, job[j], asked[j])
    BY <2>1 DEF CronInv
  <2>7. asked' = [asked EXCEPT ![j] = asked[j]]
    BY <1>1, <1>6 DEF CronInv, CronTypeOK
  <2> HIDE DEF new, mine
  <2>8. \A d \in Copies : d.job = j => Agrees(d, new, asked[j])
    BY <2>5, <2>6 DEF Agrees
  <2>9. PICK k \in Jobs, row \in JobType, last \in {"on", "off", "crossed"} :
           k = j /\ row = new /\ last = asked[j]
    BY <1>6, <2>1, <2>5
  <2>10. /\ job' = [job EXCEPT ![k] = row] /\ asked' = [asked EXCEPT ![k] = last]
         /\ Obeys(row, last) /\ \A d \in Copies : d.job = k => Agrees(d, row, last)
    BY <1>1, <2>5, <2>7, <2>8, <2>9
  <2> QED BY <1>3, <1>4, <1>5, <2>10, RowWritten
<1>7. CASE j \notin Jobs
  <2>1. job' = job
    BY <1>1, <1>7 DEF CronInv, CronTypeOK
  <2> QED BY <1>1, <1>3, <1>4, <1>5, <2>1, RowsKept
<1> QED BY <1>6, <1>7

\* An executor goes on with the copy it has.
LEMMA ExecutorGoesOn ==
    ASSUME CronInv, NEW e \in Executors, NEW x \in ExecType, exec' = [exec EXCEPT ![e] = x],
           x.job = exec[e].job, x.copy = exec[e].copy, UNCHANGED <<now, job, tick, asked>>
    PROVE  CronInv'
<1>1. exec \in [Executors -> ExecType]
  BY DEF CronInv, CronTypeOK
<1>2. \A d \in Copies' : d \in Copies
  <2>1. [job |-> x.job, copy |-> x.copy] \in Copies /\ ToSet(tick') \subseteq Copies
    BY DEF Copies
  <2> QED BY <2>1, ExecCopies
<1>3. LoopWants'
  BY <1>1 DEF LoopWants, CronInv, Executors
<1> QED BY <1>1, <1>2, <1>3, RowsKept DEF CronInv, CronTypeOK

LEMMA RecordRunStep ==
    ASSUME CronInv, NEW e \in Executors, RecordRun(e)
    PROVE  CronInv'
<1> DEFINE x == [exec[e] EXCEPT !.stage = "settling", !.ended = now]
<1>1. exec[e] \in ExecType /\ now \in 0 .. MaxTime
  BY DEF CronInv, CronTypeOK
<1>2. x \in ExecType /\ x.job = exec[e].job /\ x.copy = exec[e].copy
  BY <1>1 DEF ExecType
<1>3. exec' = [exec EXCEPT ![e] = x] /\ UNCHANGED <<now, job, tick, asked>>
  BY DEF RecordRun
<1> HIDE DEF x
<1> QED BY <1>2, <1>3, ExecutorGoesOn

LEMMA TurnEndsStep ==
    ASSUME CronInv, NEW e \in Executors, TurnEnds(e), UNCHANGED <<now, job, tick, asked>>
    PROVE  CronInv'
<1> DEFINE x == [exec[e] EXCEPT !.stage = "recording"]
<1>1. exec[e] \in ExecType
  BY DEF CronInv, CronTypeOK
<1>2. x \in ExecType /\ x.job = exec[e].job /\ x.copy = exec[e].copy
  BY <1>1 DEF ExecType
<1>3. exec' = [exec EXCEPT ![e] = x]
  BY DEF TurnEnds
<1> HIDE DEF x
<1> QED BY <1>2, <1>3, ExecutorGoesOn

LEMMA RunNowStep ==
    ASSUME CronInv, NEW j \in Jobs, NEW force \in BOOLEAN, RunNow(j, force)
    PROVE  CronInv'
<1>1. /\ Begin("request", j, job[j]) /\ job[j] \in JobType /\ Executors = {"loop", "request"}
      /\ UNCHANGED <<now, job, tick, asked>>
  BY DEF RunNow, CronInv, CronTypeOK, Executors
<1>2. /\ exec' \in [Executors -> ExecType] /\ exec'["loop"] = exec["loop"]
      /\ \A d \in Copies' : d \in ToSet(tick') \/ d \in Copies \/ d = [job |-> j, copy |-> job[j]]
  BY <1>1, BeginType
<1>3. ToSet(tick') \subseteq Copies
  BY <1>1 DEF Copies
<1>4. LoopWants'
  BY <1>1, <1>2 DEF LoopWants, CronInv
<1> QED BY <1>1, <1>2, <1>3, <1>4, RowsKept DEF CronInv, CronTypeOK

\* start() gives the enabled jobs without a time one.
LEMMA CronRestartStep ==
    ASSUME CronInv, CronRestart
    PROVE  CronInv'
<1>1. /\ job' = [j \in Jobs |-> IF job[j].next = NULL THEN [job[j] EXCEPT !.next = Wake(job[j], now)]
                                                     ELSE job[j]]
      /\ exec' = [e \in Executors |-> Rest] /\ tick' = <<>> /\ UNCHANGED <<now, asked>>
  BY DEF CronRestart
<1>2. Rest \in ExecType /\ Rest.job = NULL
  BY NoJobType, CronAssumption DEF Rest, ExecType
<1>3. now \in 0 .. MaxTime /\ \A j \in Jobs : job[j] \in JobType
  BY DEF CronInv, CronTypeOK
<1>4. ASSUME NEW j \in Jobs
      PROVE  job'[j] \in JobType /\ Obeys(job'[j], asked'[j])
  <2> DEFINE new == [job[j] EXCEPT !.next = Wake(job[j], now)]
  <2>1. /\ new \in JobType /\ Wakes(new)
        /\ new.enabled = job[j].enabled /\ new.kind = job[j].kind /\ new.there = job[j].there
    BY <1>3, NextRunType DEF JobType, Wakes
  <2>2. job'[j] = new \/ job'[j] = job[j]
    BY <1>1
  <2>3. Obeys(job[j], asked[j]) /\ asked'[j] = asked[j]
    BY <1>1 DEF CronInv
  <2> HIDE DEF new
  <2> QED BY <1>3, <2>1, <2>2, <2>3 DEF Obeys
<1>5. job' \in [Jobs -> JobType]
  BY <1>1, <1>4
<1>6. CronTypeOK'
  BY <1>1, <1>2, <1>3, <1>5 DEF CronInv, CronTypeOK
<1>7. ToSet(tick') = {} /\ \A d \in Copies' : d.job = NULL
  BY <1>1, <1>2 DEF Copies, ToSet
<1>8. LoopWants'
  BY <1>1, <1>2 DEF LoopWants, Executors
<1> QED BY <1>4, <1>6, <1>7, <1>8 DEF CronInv

-----------------------------------------------------------------------------
(* Turns.                                                                  *)

\* One starter goes on, and no message it or another may point at is lost.
LEMMA TurnMoves ==
    ASSUME TurnInv, NEW e \in Starters, NEW t \in TurnType, turn' = [turn EXCEPT ![e] = t],
           log' \in Seq([text : BOOLEAN, run : BOOLEAN]), Len(log') >= Len(log),
           \A i \in 1 .. Len(log) : log[i].text => log'[i].text,
           Fits(t, log')
    PROVE  TurnInv'
<1>1. turn' \in [Starters -> TurnType]
  BY DEF TurnInv
<1>2. Len(log) \in Nat /\ Len(log') \in Nat
  BY DEF TurnInv
<1>3. ASSUME NEW q \in Starters \ {e} PROVE Fits(turn'[q], log')
  <2>1. turn'[q] = turn[q] /\ turn[q] \in TurnType /\ Fits(turn[q], log)
    BY DEF TurnInv
  <2>2. turn[q].own \in Nat /\ turn[q].answers \in Nat
    BY <2>1 DEF TurnType
  <2>3. turn[q].own > 0 => turn[q].own \in 1 .. Len(log)
    BY <1>2, <2>1, <2>2 DEF Fits
  <2> QED BY <1>2, <2>1, <2>2, <2>3 DEF Fits
<1>4. turn'[e] = t
  BY DEF TurnInv
<1> QED BY <1>1, <1>3, <1>4 DEF TurnInv

\* The same when the log stays as it is.
LEMMA StageMoves ==
    ASSUME TurnInv, NEW e \in Starters, NEW t \in TurnType, turn' = [turn EXCEPT ![e] = t],
           log' = log, Fits(t, log)
    PROVE  TurnInv'
<1>1. log' \in Seq([text : BOOLEAN, run : BOOLEAN]) /\ Len(log') >= Len(log) /\ Fits(t, log')
  BY DEF TurnInv
<1>2. \A i \in 1 .. Len(log) : log[i].text => log'[i].text
  OBVIOUS
<1> QED BY <1>1, <1>2, TurnMoves

\* Moves: only the stage is another.
LEMMA Moved ==
    ASSUME TurnInv, NEW e \in Starters,
           NEW stage \in {"idle", "posting", "writing", "waiting", "starting", "running", "lingering"},
           Moves(e, stage)
    PROVE  \E t \in TurnType :
               /\ turn' = [turn EXCEPT ![e] = t]
               /\ t.stage = stage /\ t.own = turn[e].own /\ t.answers = turn[e].answers
<1> DEFINE t == [turn[e] EXCEPT !.stage = stage]
<1>1. turn[e] \in TurnType /\ turn' = [turn EXCEPT ![e] = t]
  BY DEF TurnInv, Moves, SetTurn
<1>2. t \in TurnType /\ t.stage = stage /\ t.own = turn[e].own /\ t.answers = turn[e].answers
  BY <1>1 DEF TurnType
<1> HIDE DEF t
<1> QED BY <1>1, <1>2

\* A turn that is forgotten, or begun again, asks nothing of the log.
LEMMA NoTurnFits ==
    ASSUME NEW msgs \in Seq([text : BOOLEAN, run : BOOLEAN]),
           NEW t \in {NoTurn, [NoTurn EXCEPT !.stage = "posting", !.again = TRUE]}
    PROVE  t \in TurnType /\ Fits(t, msgs)
<1>1. t \in TurnType /\ t.own = 0 /\ t.answers = 0 /\ t.stage \in {"idle", "posting"}
  <2>1. CASE t = NoTurn
    BY <2>1 DEF NoTurn, TurnType
  <2>2. CASE t = [NoTurn EXCEPT !.stage = "posting", !.again = TRUE]
    BY <2>2 DEF NoTurn, TurnType
  <2> QED BY <2>1, <2>2
<1>2. Len(msgs) \in Nat
  OBVIOUS
<1> QED BY <1>1, <1>2 DEF Fits

LEMMA TurnCleared ==
    ASSUME TurnInv, NEW e \in Starters, log' = log,
           NEW t \in {NoTurn, [NoTurn EXCEPT !.stage = "posting", !.again = TRUE]},
           turn' = [turn EXCEPT ![e] = t]
    PROVE  TurnInv'
<1>1. t \in TurnType /\ Fits(t, log)
  BY NoTurnFits DEF TurnInv
<1> QED BY <1>1, StageMoves

\* A turn begins or waits: nothing is asked of what it has posted before.
LEMMA BeginsStep ==
    ASSUME TurnInv, NEW e \in Starters, NEW stage \in {"posting", "waiting"},
           stage = "posting" \/ turn[e].stage = "idle", Moves(e, stage), log' = log
    PROVE  TurnInv'
<1>1. PICK t \in TurnType :
         /\ turn' = [turn EXCEPT ![e] = t]
         /\ t.stage = stage /\ t.own = turn[e].own /\ t.answers = turn[e].answers
  BY Moved
<1>2. Fits(turn[e], log)
  BY DEF TurnInv
<1>3. Fits(t, log)
  BY <1>1, <1>2 DEF Fits
<1> QED BY <1>1, <1>3, StageMoves

LEMMA PostMessageStep ==
    ASSUME TurnInv, NEW e \in Starters, PostMessage(e)
    PROVE  TurnInv'
<1> DEFINE last == Len(log) + 1
           t    == [turn[e] EXCEPT !.stage = "writing", !.own = last]
           row  == [text |-> FALSE, run |-> FALSE]
<1>1. /\ log \in Seq([text : BOOLEAN, run : BOOLEAN]) /\ Len(log) \in Nat
      /\ turn[e] \in TurnType /\ Fits(turn[e], log)
  BY DEF TurnInv
<1>2. turn' = [turn EXCEPT ![e] = t] /\ log' = Append(log, row)
  BY DEF PostMessage, SetTurn
<1>3. /\ log' \in Seq([text : BOOLEAN, run : BOOLEAN]) /\ Len(log') = last
      /\ \A i \in 1 .. Len(log) : log'[i] = log[i]
  BY <1>1, <1>2
<1>4. last \in Nat /\ last > 0 /\ last > Len(log)
  BY <1>1
<1> HIDE DEF last
<1>5. /\ t \in TurnType /\ t.own = last /\ t.stage = "writing"
      /\ t.answers = turn[e].answers
  BY <1>1, <1>4 DEF TurnType
<1> HIDE DEF t, row
<1>6. turn[e].answers \in Nat /\ turn[e].answers <= Len(log)
  BY <1>1 DEF Fits, TurnType
<1>7. Fits(t, log')
  BY <1>1, <1>3, <1>4, <1>5, <1>6 DEF Fits
<1>8. Len(log') >= Len(log) /\ \A i \in 1 .. Len(log) : log[i].text => log'[i].text
  BY <1>1, <1>3, <1>4
<1> QED BY <1>2, <1>3, <1>5, <1>7, <1>8, TurnMoves

\* One field of one row of the log is set.
LEMMA RowChanges ==
    ASSUME NEW msgs \in Seq([text : BOOLEAN, run : BOOLEAN]), NEW n \in 1 .. Len(msgs),
           NEW row \in [text : BOOLEAN, run : BOOLEAN]
    PROVE  /\ [msgs EXCEPT ![n] = row] \in Seq([text : BOOLEAN, run : BOOLEAN])
           /\ Len([msgs EXCEPT ![n] = row]) = Len(msgs)
           /\ \A i \in 1 .. Len(msgs) :
                 [msgs EXCEPT ![n] = row][i] = IF i = n THEN row ELSE msgs[i]
OBVIOUS

LEMMA RowType ==
    ASSUME NEW S, NEW msgs \in Seq(S), NEW n \in 1 .. Len(msgs)
    PROVE  msgs[n] \in S
OBVIOUS

LEMMA PostTextStep ==
    ASSUME TurnInv, NEW e \in Starters, PostText(e)
    PROVE  TurnInv'
<1> DEFINE n   == turn[e].own
           t   == IF e = "user" THEN NoTurn ELSE [turn[e] EXCEPT !.stage = "waiting"]
           row == [log[n] EXCEPT !.text = TRUE]
<1>1. /\ log \in Seq([text : BOOLEAN, run : BOOLEAN]) /\ Len(log) \in Nat
      /\ turn[e] \in TurnType /\ Fits(turn[e], log) /\ turn[e].stage = "writing"
  BY DEF TurnInv, PostText
<1>2. turn' = [turn EXCEPT ![e] = t] /\ log' = [log EXCEPT ![n] = row]
  BY DEF PostText, SetTurn
<1>3. n \in 1 .. Len(log) /\ turn[e].answers <= Len(log)
  BY <1>1 DEF Fits, TurnType
<1>4. row \in [text : BOOLEAN, run : BOOLEAN] /\ row.text
  <2>1. log[n] \in [text : BOOLEAN, run : BOOLEAN]
    BY <1>1, <1>3, RowType
  <2> QED BY <2>1
<1> HIDE DEF row
<1>5. /\ log' \in Seq([text : BOOLEAN, run : BOOLEAN]) /\ Len(log') = Len(log)
      /\ \A i \in 1 .. Len(log) : log[i].text => log'[i].text
      /\ log'[n].text
  BY <1>1, <1>2, <1>3, <1>4, RowChanges
<1>6. t \in TurnType /\ Fits(t, log')
  <2>1. CASE e = "user"
    BY <1>5, <2>1, NoTurnFits
  <2>2. CASE e # "user"
    <3>1. /\ t \in TurnType /\ t.stage = "waiting" /\ t.own = n
          /\ t.answers = turn[e].answers
      BY <1>1, <2>2 DEF TurnType
    <3> HIDE DEF t
    <3> QED BY <1>1, <1>3, <1>5, <3>1 DEF Fits
  <2> QED BY <2>1, <2>2
<1> HIDE DEF t, n
<1>7. Len(log') >= Len(log)
  BY <1>1, <1>5
<1> QED BY <1>2, <1>5, <1>6, <1>7, TurnMoves

LEMMA AcquireStep ==
    ASSUME TurnInv, NEW e \in Starters, Acquire(e)
    PROVE  TurnInv'
<1>1. PICK t \in TurnType :
         /\ turn' = [turn EXCEPT ![e] = t]
         /\ t.stage = "starting" /\ t.own = turn[e].own /\ t.answers = turn[e].answers
  BY Moved DEF Acquire
<1>2. Fits(turn[e], log) /\ turn[e].stage = "waiting" /\ log' = log
  BY DEF TurnInv, Acquire
<1>3. Fits(t, log)
  BY <1>1, <1>2 DEF Fits
<1> QED BY <1>1, <1>2, <1>3, StageMoves

\* The run takes the newest message, and so none that is older than the starter's.
LEMMA StartRunStep ==
    ASSUME TurnInv, NEW e \in Starters, StartRun(e)
    PROVE  TurnInv'
<1> DEFINE last == Len(log)
           t    == [turn[e] EXCEPT !.stage = "running", !.answers = last]
           row  == [log[last] EXCEPT !.run = TRUE]
<1>1. /\ log \in Seq([text : BOOLEAN, run : BOOLEAN]) /\ last \in Nat
      /\ turn[e] \in TurnType /\ Fits(turn[e], log) /\ turn[e].stage = "starting"
  BY DEF TurnInv, StartRun
<1>2. turn' = [turn EXCEPT ![e] = t] /\ log' = [log EXCEPT ![last] = row]
  BY DEF StartRun, SetTurn, Trigger
<1>3. last \in 1 .. Len(log)
  BY <1>1 DEF StartRun, Takes
<1>4. row \in [text : BOOLEAN, run : BOOLEAN] /\ row.text = log[last].text
  <2>1. log[last] \in [text : BOOLEAN, run : BOOLEAN]
    BY <1>1, <1>3, RowType
  <2> QED BY <2>1
<1> HIDE DEF row
<1>5. /\ log' \in Seq([text : BOOLEAN, run : BOOLEAN]) /\ Len(log') = Len(log)
      /\ \A i \in 1 .. Len(log) : log'[i].text = log[i].text
  BY <1>1, <1>2, <1>3, <1>4, RowChanges
<1>6. /\ turn[e].own \in Nat /\ turn[e].own <= last
      /\ turn[e].own > 0 => log[turn[e].own].text
  BY <1>1 DEF Fits, TurnType
<1>7. /\ last = Len(log)
      /\ turn[e].own > 0 => log'[turn[e].own].text
  BY <1>1, <1>5, <1>6
<1> HIDE DEF last
<1>8. /\ t \in TurnType /\ t.stage = "running" /\ t.own = turn[e].own
      /\ t.answers = last
  BY <1>1 DEF TurnType
<1> HIDE DEF t
<1>9. Fits(t, log')
  BY <1>1, <1>5, <1>6, <1>7, <1>8 DEF Fits
<1>10. Len(log') >= Len(log) /\ \A i \in 1 .. Len(log) : log[i].text => log'[i].text
  BY <1>1, <1>5, <1>7
<1> QED BY <1>2, <1>5, <1>8, <1>9, <1>10, TurnMoves

\* A run lingers, or goes on.
LEMMA LingerSteps ==
    ASSUME TurnInv, NEW e \in Starters, Lingers(e) \/ UserAnswers(e)
    PROVE  TurnInv'
<1>1. PICK stage \in {"running", "lingering"} : Moves(e, stage)
  BY DEF Lingers, UserAnswers
<1>2. PICK t \in TurnType :
         /\ turn' = [turn EXCEPT ![e] = t]
         /\ t.stage = stage /\ t.own = turn[e].own /\ t.answers = turn[e].answers
  BY <1>1, Moved
<1>3. Fits(turn[e], log) /\ turn[e].stage \in {"running", "lingering"} /\ log' = log
  BY DEF TurnInv, Lingers, UserAnswers
<1>4. Fits(t, log)
  BY <1>2, <1>3 DEF Fits
<1> QED BY <1>2, <1>3, <1>4, StageMoves

LEMMA CronKept ==
    ASSUME CronInv, UNCHANGED cron
    PROVE  CronInv'
BY SameCopies, RowsKept DEF cron, CronInv, CronTypeOK

\* What the end of a turn makes of the rows of jobs and of the turn.
LEMMA EndTurnStep ==
    ASSUME TriggersInv, NEW e \in Starters, EndTurn(e)
    PROVE  TriggersInv'
<1>1. PICK ok \in BOOLEAN : Reports(e, ok) /\ log' = log
  BY DEF EndTurn
<1>2. CronInv /\ TurnInv
  BY DEF TriggersInv
<1>3. CASE e \in Executors
  <2>1. TurnEnds(e) /\ turn' = [turn EXCEPT ![e] = NoTurn] /\ UNCHANGED <<now, job, tick, asked>>
    BY <1>1, <1>3 DEF Reports, SetTurn, Executors
  <2> QED BY <1>1, <1>2, <1>3, <2>1, TurnEndsStep, TurnCleared DEF TriggersInv
<1>4. CASE e \notin Executors
  <2>1. /\ UNCHANGED cron
        /\ \/ turn' = [turn EXCEPT ![e] = NoTurn]
           \/ turn' = [turn EXCEPT ![e] = [NoTurn EXCEPT !.stage = "posting", !.again = TRUE]]
    BY <1>1, <1>4 DEF Reports, SetTurn, Executors, Starters
  <2>2. CronInv'
    BY <1>2, <2>1, CronKept
  <2> QED BY <1>1, <1>2, <2>1, <2>2, TurnCleared DEF TriggersInv
<1> QED BY <1>3, <1>4

\* A restart forgets every turn, and repairs the rows of jobs.
LEMMA RestartStep ==
    ASSUME TriggersInv, Restart
    PROVE  TriggersInv'
<1>1. CronInv'
  BY CronRestartStep DEF TriggersInv, Restart
<1>2. turn' = [e \in Starters |-> NoTurn] /\ log' = log
  BY DEF Restart
<1>3. log \in Seq([text : BOOLEAN, run : BOOLEAN]) /\ Len(log) \in Nat
  BY DEF TriggersInv, TurnInv
<1>4. \A e \in Starters : turn'[e] = NoTurn
  BY <1>2
<1>5. turn' \in [Starters -> TurnType]
  BY <1>2, <1>3, NoTurnFits
<1>6. \A e \in Starters : Fits(turn'[e], log')
  BY <1>2, <1>3, <1>4, NoTurnFits
<1> QED BY <1>1, <1>2, <1>3, <1>5, <1>6 DEF TriggersInv, TurnInv

LEMMA TurnsKept ==
    ASSUME TurnInv, UNCHANGED <<log, turn>>
    PROVE  TurnInv'
BY DEF TurnInv

LEMMA TriggersInitInv == Init => TriggersInv
<1> SUFFICES ASSUME Init PROVE TriggersInv
  OBVIOUS
<1>1. /\ now = 0 /\ job = [j \in Jobs |-> NoJob] /\ tick = <<>>
      /\ exec = [e \in Executors |-> Rest] /\ asked = [j \in Jobs |-> "off"]
  BY DEF Init, CronInit
<1>2. Rest \in ExecType /\ Rest.job = NULL
  BY NoJobType, CronAssumption DEF Rest, ExecType
<1>3. CronInv
  <2>1. CronTypeOK
    BY <1>1, <1>2, NoJobType, NullIsNoTime DEF CronTypeOK
  <2>2. ToSet(tick) = {} /\ \A d \in Copies : d.job = NULL
    BY <1>1, <1>2 DEF Copies, ToSet
  <2>3. LoopWants
    BY <1>1, <1>2 DEF LoopWants, Executors
  <2> QED BY <1>1, <2>1, <2>2, <2>3, NoJobType DEF CronInv, Obeys
<1>4. log = <<>> /\ turn = [e \in Starters |-> NoTurn]
  BY DEF Init
<1>5. NoTurn \in TurnType /\ Fits(NoTurn, log)
  <2>1. log \in Seq([text : BOOLEAN, run : BOOLEAN])
    BY <1>4
  <2> QED BY <2>1, NoTurnFits
<1>6. TurnInv
  BY <1>4, <1>5 DEF TurnInv
<1> QED BY <1>3, <1>6 DEF TriggersInv

LEMMA WorkStep ==
    ASSUME TriggersInv, NEW e \in Starters, Work(e)
    PROVE  TriggersInv'
<1>1. CronInv /\ TurnInv
  BY DEF TriggersInv
<1>2. CASE PostMessage(e) \/ PostText(e) \/ Acquire(e) \/ StartRun(e)
  <2>1. CronInv'
    BY <1>1, <1>2, CronKept DEF PostMessage, PostText, Acquire, StartRun
  <2> QED BY <1>1, <1>2, <2>1, PostMessageStep, PostTextStep, AcquireStep, StartRunStep
          DEF TriggersInv
<1>3. CASE EndTurn(e)
  BY <1>3, EndTurnStep
<1>4. CASE JobTurn(e)
  BY <1>1, <1>4, BeginsStep, CronKept DEF JobTurn, TriggersInv
<1>5. CASE e = "bridge" /\ ChatTurn
  BY <1>1, <1>5, BeginsStep, CronKept DEF ChatTurn, TriggersInv
<1>6. CASE e \in Executors /\ (RecordRun(e) \/ Settle(e)) /\ UNCHANGED <<channels, turns>>
  BY <1>1, <1>6, RecordRunStep, SettleStep, TurnsKept DEF TriggersInv, turns
<1>7. CASE LoopStep /\ UNCHANGED <<channels, turns>>
  BY <1>1, <1>7, ReadDueStep, ExecuteDueStep, TurnsKept DEF TriggersInv, turns, LoopStep
<1>8. CASE Take /\ UNCHANGED <<cron, turns>>
  BY <1>1, <1>8, CronKept, TurnsKept DEF TriggersInv, turns
<1> QED BY <1>2, <1>3, <1>4, <1>5, <1>6, <1>7, <1>8 DEF Work, TurnStep

LEMMA TriggersNextInv == TriggersInv /\ [Next]_vars => TriggersInv'
<1> SUFFICES ASSUME TriggersInv, [Next]_vars PROVE TriggersInv'
  OBVIOUS
<1>1. CronInv /\ TurnInv
  BY DEF TriggersInv
<1>2. CASE UNCHANGED turns /\ UNCHANGED cron
  BY <1>1, <1>2, CronKept, TurnsKept DEF TriggersInv, turns
<1>3. CASE UNCHANGED turns /\ (Pass \/ CronRequest)
  <2>1. TurnInv'
    BY <1>1, <1>3, TurnsKept DEF turns
  <2>2. CASE Pass
    <3>1. now' \in 0 .. MaxTime
      BY <1>1, <2>2, NullIsNoTime DEF Pass, CronInv, CronTypeOK
    <3> QED BY <1>1, <2>1, <2>2, <3>1, SameCopies, RowsKept
            DEF Pass, CronInv, CronTypeOK, TriggersInv
  <2>3. CASE CronRequest
    BY <1>1, <2>1, <2>3, CreateStep, SetEnabledStep, DeleteStep, RunNowStep
       DEF CronRequest, TriggersInv
  <2> QED BY <1>3, <2>2, <2>3
<1>4. ASSUME NEW e \in Starters, Work(e) \/ Lingers(e) \/ UserAnswers(e) PROVE TriggersInv'
  <2>1. CASE Work(e)
    BY <2>1, WorkStep
  <2>2. CASE Lingers(e) \/ UserAnswers(e)
    BY <1>1, <2>2, LingerSteps, CronKept DEF Lingers, UserAnswers, TriggersInv
  <2> QED BY <1>4, <2>1, <2>2
<1>5. CASE UserAsks("posting") \/ UserAsks("waiting")
  BY <1>1, <1>5, BeginsStep, CronKept DEF UserAsks, TriggersInv, Starters
<1>6. CASE Restart
  BY <1>6, RestartStep
<1>7. CASE UNCHANGED vars
  BY <1>1, <1>7, CronKept, TurnsKept DEF vars, turns, TriggersInv
<1> QED BY <1>2, <1>3, <1>4, <1>5, <1>6, <1>7 DEF Next

\* The inductive invariant of what starts runs.
THEOREM TriggersInvariantHolds == Spec => []TriggersInv
BY TriggersInitInv, TriggersNextInv, PTL DEF Spec

\* ReplySawItsMessage: the run whose reply goes back to a chat or into a job's
\* execution took the message that was posted for it or a later one, with its text
\* in view (_run_agent_once, add_user_message, create_run).
THEOREM RepliesSawTheirMessages == Spec => []ReplySawItsMessage
<1>1. TriggersInv => ReplySawItsMessage
  BY DEF TriggersInv, TurnInv, Fits, ReplySawItsMessage
<1> QED BY <1>1, TriggersInvariantHolds, PTL

\* SwitchesAreObeyed: a job goes by the last request that switched it, unless that
\* met a copy of its row from before (_execute_job, run_job, set_job_enabled, start).
THEOREM JobsObeySwitches == Spec => []SwitchesAreObeyed
<1>1. TriggersInv => SwitchesAreObeyed
  <2> SUFFICES ASSUME TriggersInv, NEW j \in Jobs, job[j].there
               PROVE  /\ asked[j] = "off" => ~job[j].enabled /\ exec["loop"].job # j
                      /\ job[j].kind = "every" =>
                            /\ asked[j] = "on" => job[j].enabled
                            /\ job[j].enabled <=> job[j].next # NULL
    BY DEF SwitchesAreObeyed
  <2>1. CronInv /\ Obeys(job[j], asked[j])
    BY DEF TriggersInv, CronInv
  <2>2. ASSUME asked[j] = "off", exec["loop"].job = j PROVE FALSE
    <3> DEFINE d == [job |-> exec["loop"].job, copy |-> exec["loop"].copy]
    <3>1. d \in Copies /\ d.job = j /\ d.copy = exec["loop"].copy /\ j # NULL
      BY <2>2, CronAssumption DEF Copies, Executors
    <3>2. Agrees(d, job[j], asked[j])
      BY <2>1, <3>1 DEF CronInv
    <3>3. exec["loop"].copy.enabled
      BY <2>1, <2>2, <3>1 DEF CronInv, LoopWants
    <3> QED BY <2>2, <3>1, <3>2, <3>3 DEF Agrees
  <2> QED BY <2>1, <2>2 DEF Obeys, Wakes
<1> QED BY <1>1, TriggersInvariantHolds, PTL

-----------------------------------------------------------------------------
(* McpServers.                                                             *)

Kinds  == {"none", "initialize", "connect", "disconnect", "add"}
OpType == [pc : {"idle", "opening", "initializing", "listing", "closing", "undoing"},
           kind : Kinds, conn : Nat, fallback : BOOLEAN, again : BOOLEAN]

McpTypeOK ==
    /\ config \in Configs \cup {Unknown}
    /\ registered \in Nat
    /\ open \in SUBSET (Nat \ {0}) /\ IsFiniteSet(open)
    /\ op \in [Callers -> OpType]
    /\ crossed \in BOOLEAN

\* A request has a connection between opening and closing it.
StepOK(q) ==
    /\ op[q].pc \in {"idle", "opening"} => op[q].conn = 0
    /\ op[q].pc \in {"initializing", "listing", "closing"} => op[q].conn # 0

\* The connection of a request is open, and neither the tables nor another
\* request has it: whoever closes a connection closes nobody else's.
Mine(q) ==
    op[q].conn # 0 =>
        /\ op[q].conn \in open /\ op[q].conn # registered
        /\ \A r \in Callers \ {q} : op[r].conn # op[q].conn

\* As long as nothing crossed, a request works alone, and on a server that is not
\* connected, unless it adds the server.
Alone(q) ==
    ~crossed /\ op[q].pc # "idle" =>
        /\ registered = 0 \/ op[q].kind = "add"
        /\ \A r \in Callers \ {q} : op[r].pc = "idle"

\* The inductive invariant.
McpInv ==
    /\ McpTypeOK
    /\ \A q \in Callers : StepOK(q) /\ Mine(q) /\ Alone(q)
    /\ ConnectionsAreKept

McpSpec == McpInit /\ [][McpNext]_mcp

-----------------------------------------------------------------------------
\* Only q goes on.
Only(q) == \A r \in Callers \ {q} : op'[r] = op[r]

\* What a request that opens a connection starts from.
LEMMA OpeningType ==
    ASSUME NEW conf \in Configs \cup {Unknown}, NEW kind \in Kinds
    PROVE  /\ Opening(kind, conf) \in OpType
           /\ Opening(kind, conf).pc = "opening" /\ Opening(kind, conf).conn = 0
<1>1. CASE conf \in Configs
  <2>1. conf.fallback \in BOOLEAN
    BY <1>1 DEF Configs
  <2> QED BY <2>1 DEF Opening, Resting, OpType
<1>2. CASE conf = Unknown
  <2>1. conf.fallback = FALSE
    BY <1>2 DEF Unknown
  <2> QED BY <2>1 DEF Opening, Resting, OpType
<1> QED BY <1>1, <1>2

\* The first connection is a request's own business.
LEMMA McpInitInv ==
    ASSUME McpAssumption, McpInit
    PROVE  McpInv
<1>1. IsFiniteSet(open) /\ open = {} /\ registered = 0 /\ crossed = FALSE
  BY FS_EmptySet DEF McpInit
<1>2. config \in Configs \cup {Unknown}
  BY DEF McpInit
<1>4. Opening("initialize", config) \in OpType /\ Resting \in OpType
  BY <1>2, OpeningType DEF OpType, Resting, Kinds
<1>8. op \in [Callers -> OpType]
  BY <1>4 DEF McpInit
<1>5. \A q \in Callers : op[q].conn = 0 /\ op[q].pc \in {"idle", "opening"}
  BY DEF McpInit, Opening, Resting
<1>6. \A q \in Callers : q # "startup" => op[q].pc = "idle"
  BY DEF McpInit, Resting
<1>7. ConnectionsAreKept
  BY <1>1 DEF ConnectionsAreKept, McpInit
<1> QED BY <1>1, <1>2, <1>8, <1>5, <1>6, <1>7 DEF McpInv, McpTypeOK, StepOK, Mine, Alone

\* connect and disconnect, up to the first wait.
LEMMA TakeDownStep ==
    ASSUME McpInv, NEW q \in Callers, NEW state \in OpType, registered # 0, op[q].pc = "idle",
           TakeDown(q, state), crossed' = (crossed \/ Others(q)), UNCHANGED <<config, open, left>>
    PROVE  McpInv'
<1>1. /\ op' = [op EXCEPT ![q] = [state EXCEPT !.pc = "closing", !.conn = registered]]
      /\ registered' = 0 /\ status' = status
  BY DEF TakeDown, Goes
<1>2. McpTypeOK'
  BY <1>1 DEF McpInv, McpTypeOK, OpType
<1>3. op'[q].pc = "closing" /\ op'[q].conn = registered /\ Only(q)
  BY <1>1 DEF McpInv, McpTypeOK, OpType, Only
<1>4. \A r \in Callers : StepOK(r)' /\ Mine(r)'
  BY <1>1, <1>3 DEF McpInv, StepOK, Mine, ConnectionsAreKept, Only
<1>5. \A r \in Callers : Alone(r)'
  <2>1. SUFFICES ASSUME NEW r \in Callers, ~crossed', op'[r].pc # "idle"
                 PROVE  \A e \in Callers \ {r} : op'[e].pc = "idle"
    BY <1>1 DEF Alone
  <2>2. ~Others(q)
    BY <2>1
  <2>3. \A e \in Callers \ {q} : op'[e].pc = "idle"
    BY <1>3, <2>2 DEF Others, Only
  <2> QED BY <2>1, <2>3
<1>6. ConnectionsAreKept'
  <2>1. Held \subseteq Held' \cup {0} /\ 0 \notin open
    BY <1>1, <1>3 DEF McpInv, McpTypeOK, StepOK, Held, Only
  <2> QED BY <1>1, <1>3, <2>1 DEF McpInv, ConnectionsAreKept, Lost
<1> QED BY <1>2, <1>4, <1>5, <1>6 DEF McpInv

\* A request begins with a server that is not connected, or adds one, connected or not.
LEMMA McpBeginStep ==
    ASSUME McpInv, NEW q \in Callers, NEW state \in OpType, op[q].pc = "idle",
           state.pc \in {"idle", "opening"}, state.conn = 0,
           Goes(q, state), UNCHANGED <<registered, open, left>>,
           config' \in Configs \cup {Unknown}, status' # "connected",
           crossed' = (crossed \/ Others(q)),
           registered = 0 \/ state.pc = "idle" \/ state.kind = "add"
    PROVE  McpInv'
<1>1. McpTypeOK'
  BY DEF McpInv, McpTypeOK, Goes, Others
<1>2. op'[q] = state /\ op[q].conn = 0 /\ Only(q)
  BY DEF McpInv, McpTypeOK, Goes, StepOK, Only
<1>3. \A r \in Callers : StepOK(r)' /\ Mine(r)'
  BY <1>2 DEF McpInv, StepOK, Mine, Only
<1>4. \A r \in Callers : Alone(r)'
  <2>1. SUFFICES ASSUME NEW r \in Callers, ~crossed', op'[r].pc # "idle"
                 PROVE  /\ registered = 0 \/ op'[r].kind = "add"
                        /\ \A e \in Callers \ {r} : op'[e].pc = "idle"
    BY DEF Alone
  <2>2. ~crossed /\ ~Others(q)
    BY <2>1
  <2>3. \A e \in Callers \ {q} : op'[e].pc = "idle"
    BY <1>2, <2>2 DEF Others, Only
  <2>4. r = q
    BY <2>1, <2>3
  <2> QED BY <1>2, <2>1, <2>3, <2>4
<1>5. ConnectionsAreKept'
  <2>1. crossed => crossed'
    OBVIOUS
  <2>2. Held' = Held
    BY <1>2 DEF Held, Only
  <2> QED BY <2>1, <2>2 DEF McpInv, ConnectionsAreKept, Lost
<1> QED BY <1>1, <1>3, <1>4, <1>5 DEF McpInv

\* A request begins.
LEMMA RequestSteps ==
    ASSUME McpInv, McpAssumption, NEW q \in Clients,
           \/ ConnectServer(q) \/ DisconnectServer(q)
           \/ \E new \in Configs : AddServer(q, new)
    PROVE  McpInv'
<1>0. q \in Callers
  BY DEF Callers
<1>1. \A conf \in Configs \cup {Unknown}, kind \in Kinds :
          /\ Opening(kind, conf) \in OpType
          /\ Opening(kind, conf).pc = "opening" /\ Opening(kind, conf).conn = 0
  BY OpeningType
<1>2. Resting \in OpType /\ Resting.pc = "idle" /\ Resting.conn = 0
  BY DEF Resting, OpType, Kinds
<1>3. CASE ConnectServer(q)
  <2>1. Opening("connect", config) \in OpType
    BY <1>1 DEF McpInv, McpTypeOK, Kinds
  <2>2. Opening("connect", config).pc = "opening" /\ Opening("connect", config).conn = 0
    BY <1>1 DEF McpInv, McpTypeOK, Kinds
  <2>3. CASE registered # 0
    BY <1>0, <1>3, <2>1, <2>3, TakeDownStep DEF ConnectServer, Begins
  <2>4. CASE registered = 0
    BY <1>0, <1>3, <2>1, <2>2, <2>4, McpBeginStep DEF ConnectServer, Begins, McpInv, McpTypeOK
  <2> QED BY <2>3, <2>4
<1>4. CASE DisconnectServer(q)
  <2>1. [Resting EXCEPT !.kind = "disconnect"] \in OpType
    BY DEF Resting, OpType, Kinds
  <2> QED BY <1>0, <1>4, <2>1, TakeDownStep DEF DisconnectServer, Begins
<1>5. CASE \E new \in Configs : AddServer(q, new)
  <2>1. PICK new \in Configs : AddServer(q, new)
    BY <1>5
  <2> DEFINE state == IF new.enabled THEN Opening("add", new) ELSE Resting
  <2>2. /\ state \in OpType /\ state.pc \in {"idle", "opening"} /\ state.conn = 0
        /\ state.pc = "idle" \/ state.kind = "add"
    BY <1>1, <1>2 DEF Kinds, Opening, Resting
  <2>3. Goes(q, state) /\ op[q].pc = "idle" /\ config' = new
    BY <2>1 DEF AddServer, Begins
  <2>4. /\ crossed' = (crossed \/ Others(q))
        /\ UNCHANGED <<registered, open, left>> /\ status' # "connected"
    BY <2>1 DEF AddServer
  <2> HIDE DEF state
  <2> QED BY <1>0, <2>2, <2>3, <2>4, McpBeginStep
<1> QED BY <1>3, <1>4, <1>5

-----------------------------------------------------------------------------
\* A step of a request that closes its own connection, or none, and has none after.
LEMMA CloseStep ==
    ASSUME McpInv, NEW q \in Callers, NEW state \in OpType, op[q].pc # "idle",
           state.pc \in {"idle", "opening"}, state.conn = 0, Goes(q, state),
           state.pc = "idle" \/ state.kind = op[q].kind,
           open' = open \ {op[q].conn}, UNCHANGED <<config, registered, crossed, left>>,
           status' # "connected" \/ (status' = status /\ op[q].pc # "closing")
    PROVE  McpInv'
<1>1. McpTypeOK'
  BY FS_Subset DEF McpInv, McpTypeOK, Goes
<1>2. op'[q] = state /\ Only(q)
  BY DEF McpInv, McpTypeOK, Goes, Only
<1>3. \A r \in Callers : StepOK(r)' /\ Mine(r)'
  BY <1>2 DEF McpInv, StepOK, Mine, Only
<1>4. \A r \in Callers : Alone(r)'
  BY <1>2 DEF McpInv, Alone, Only
<1>5. ConnectionsAreKept'
  <2>1. registered' # 0 => registered' \in open'
    BY DEF McpInv, ConnectionsAreKept, Mine
  <2>2. Held \subseteq Held' \cup {op[q].conn}
    BY <1>2 DEF Held, Only
  <2>3. \A r \in Callers : op[r].pc = "closing" /\ r # q => op'[r].pc = "closing"
    BY <1>2 DEF Only
  <2> QED BY <2>1, <2>2, <2>3 DEF McpInv, ConnectionsAreKept, Lost
<1> QED BY <1>1, <1>3, <1>4, <1>5 DEF McpInv

\* A step of a request that keeps its connection.
LEMMA KeepStep ==
    ASSUME McpInv, NEW q \in Callers, NEW pc \in {"listing", "undoing"},
           op[q].pc \in {"initializing", "listing"}, Goes(q, [op[q] EXCEPT !.pc = pc]),
           UNCHANGED <<config, registered, open, status, crossed, left>>
    PROVE  McpInv'
<1>1. McpTypeOK'
  BY DEF McpInv, McpTypeOK, OpType, Goes
<1>2. op'[q].pc = pc /\ op'[q].conn = op[q].conn /\ op'[q].kind = op[q].kind /\ Only(q)
  BY DEF McpInv, McpTypeOK, OpType, Goes, Only
<1>3. \A r \in Callers : StepOK(r)' /\ Mine(r)'
  BY <1>2 DEF McpInv, StepOK, Mine, Only
<1>4. \A r \in Callers : Alone(r)'
  BY <1>2 DEF McpInv, Alone, Only
<1>5. ConnectionsAreKept'
  <2>1. Held' = Held
    BY <1>2 DEF Held, Only
  <2>2. \A r \in Callers : op[r].pc = "closing" => op'[r].pc = "closing"
    BY <1>2 DEF Only
  <2> QED BY <2>1, <2>2 DEF McpInv, ConnectionsAreKept, Lost
<1> QED BY <1>1, <1>3, <1>4, <1>5 DEF McpInv

\* One more connection that nobody has.
LEMMA LeftAfter ==
    ASSUME NEW c, NEW by, left' = Leaves(c, by)
    PROVE  Lost' = Lost \cup {c} /\ \A l \in left' : l \in left \/ l.by = by
<1> DEFINE new == [conn |-> c, by |-> by]
<1>1. left' = left \cup {new} /\ new.conn = c /\ new.by = by
  BY DEF Leaves
<1> HIDE DEF new
<1>2. Lost' = {l.conn : l \in left'}
  BY DEF Lost
<1> QED BY <1>1, <1>2 DEF Lost

\* The second transport fails: its connection stays open, and nobody has it.
LEMMA OrphanStep ==
    ASSUME McpInv, NEW q \in Callers, op[q].pc = "initializing",
           Goes(q, [op[q] EXCEPT !.pc = "undoing", !.conn = 0]),
           left' = Leaves(op[q].conn, "transport"),
           UNCHANGED <<config, registered, open, status, crossed>>
    PROVE  McpInv'
<1>1. McpTypeOK'
  BY DEF McpInv, McpTypeOK, OpType, Goes
<1>2. op'[q].pc = "undoing" /\ op'[q].conn = 0 /\ op'[q].kind = op[q].kind /\ Only(q)
  BY DEF McpInv, McpTypeOK, OpType, Goes, Only
<1>3. \A r \in Callers : StepOK(r)' /\ Mine(r)' /\ Alone(r)'
  BY <1>2 DEF McpInv, StepOK, Mine, Alone, Only
<1>4. ConnectionsAreKept'
  <2>1. \A r \in Callers : op[r].pc = "closing" => op'[r].pc = "closing"
    BY <1>2 DEF Only
  <2>2. Held \subseteq Held' \cup {op[q].conn}
    BY <1>2 DEF Held, Only
  <2>3. /\ Lost' = Lost \cup {op[q].conn}
        /\ \A l \in left' : l \in left \/ l.by = "transport"
    BY LeftAfter
  <2> QED BY <2>1, <2>2, <2>3 DEF McpInv, ConnectionsAreKept
<1> QED BY <1>1, <1>3, <1>4 DEF McpInv

\* A transport is opened: the connection is new, so nobody has it.
LEMMA OpenStep ==
    ASSUME McpInv, NEW q \in Callers, OpenTransport(q)
    PROVE  McpInv'
<1>1. PICK c \in 1 .. Cardinality(open) + 1 :
          /\ c \notin open /\ open' = open \cup {c}
          /\ Goes(q, [op[q] EXCEPT !.pc = "initializing", !.conn = c])
  BY DEF OpenTransport
<1>2. c \in Nat /\ c # 0
  BY FS_CardinalityType DEF McpInv, McpTypeOK
<1>3. McpTypeOK'
  BY <1>1, <1>2, FS_AddElement DEF McpInv, McpTypeOK, OpType, Goes, OpenTransport
<1>4. op'[q].pc = "initializing" /\ op'[q].conn = c /\ op'[q].kind = op[q].kind /\ Only(q)
  BY <1>1 DEF McpInv, McpTypeOK, OpType, Goes, Only
<1>5. op[q].pc = "opening" /\ op[q].conn = 0
  BY DEF McpInv, StepOK, OpenTransport
<1>6. UNCHANGED <<registered, status, crossed, left>>
  BY DEF OpenTransport
<1>7. \A r \in Callers : StepOK(r)' /\ Mine(r)'
  BY <1>1, <1>2, <1>4, <1>5, <1>6 DEF McpInv, StepOK, Mine, ConnectionsAreKept, Only
<1>8. \A r \in Callers : Alone(r)'
  BY <1>4, <1>5, <1>6 DEF McpInv, Alone, Only
<1>9. ConnectionsAreKept'
  <2>1. Held \subseteq Held' \cup {0} /\ c \in Held'
    BY <1>4, <1>5, <1>6 DEF Held, Only
  <2>2. 0 \notin open
    BY <1>2 DEF McpInv, McpTypeOK
  <2>3. \A r \in Callers : op[r].pc = "closing" => op'[r].pc = "closing"
    BY <1>4, <1>5 DEF Only
  <2> QED BY <1>1, <1>6, <2>1, <2>2, <2>3 DEF McpInv, ConnectionsAreKept, Lost
<1> QED BY <1>3, <1>7, <1>8, <1>9 DEF McpInv

\* The tables take the connection of a request.
LEMMA RegisterStep ==
    ASSUME McpInv, NEW q \in Callers, Register(q)
    PROVE  McpInv'
<1>1. /\ op' = [op EXCEPT ![q] = Resting] /\ registered' = op[q].conn /\ status' = "connected"
      /\ UNCHANGED <<config, open, crossed>> /\ op[q].pc = "listing"
      /\ left' = IF registered = 0 THEN left ELSE Leaves(registered, op[q].kind)
  BY DEF Register, Goes
<1>2. McpTypeOK'
  BY <1>1 DEF McpInv, McpTypeOK, OpType, Resting, Kinds
<1>3. op'[q].pc = "idle" /\ op'[q].conn = 0 /\ Only(q)
  BY <1>1 DEF McpInv, McpTypeOK, Resting, Only
<1>4. op[q].conn # 0 /\ op[q].conn \in open
  BY <1>1 DEF McpInv, StepOK, Mine
<1>5. \A r \in Callers : StepOK(r)' /\ Mine(r)'
  BY <1>1, <1>3, <1>4 DEF McpInv, StepOK, Mine, Only
<1>6. \A r \in Callers : Alone(r)'
  BY <1>1, <1>3 DEF McpInv, Alone, Only
<1>7. ConnectionsAreKept'
  <2>1. Held \subseteq Held' \cup {0, registered} /\ 0 \notin open
    BY <1>1, <1>3 DEF Held, Only, McpInv, McpTypeOK
  <2>2. ~crossed => registered = 0 \/ op[q].kind = "add"
    BY <1>1 DEF McpInv, Alone
  <2>3. /\ Lost \subseteq Lost' /\ (registered # 0 => registered \in Lost')
        /\ \A l \in left' : l \in left \/ (registered # 0 /\ l.by = op[q].kind)
    <3>1. CASE registered = 0
      BY <1>1, <3>1 DEF Lost
    <3>2. CASE registered # 0
      BY <1>1, <3>2, LeftAfter
    <3> QED BY <3>1, <3>2
  <2> QED BY <1>1, <1>4, <2>1, <2>2, <2>3 DEF McpInv, ConnectionsAreKept
<1> QED BY <1>2, <1>5, <1>6, <1>7 DEF McpInv
-----------------------------------------------------------------------------
\* Every step keeps the invariant.
LEMMA McpNextInv ==
    ASSUME McpAssumption, McpInv, [McpNext]_mcp
    PROVE  McpInv'
<1>1. CASE UNCHANGED mcp
  BY <1>1 DEF mcp, McpInv, McpTypeOK, StepOK, Mine, Alone, ConnectionsAreKept, Held, Lost
<1>2. CASE \E q \in Clients : ConnectServer(q) \/ DisconnectServer(q)
  BY <1>2, RequestSteps
<1>3. CASE \E q \in Clients, new \in Configs : AddServer(q, new)
  BY <1>3, RequestSteps
<1>4. ASSUME NEW q \in Callers, McpStep(q)
      PROVE  McpInv'
  <2>0. op[q] \in OpType
    BY DEF McpInv, McpTypeOK
  <2>1. CASE Closed(q)
    <3>1. [op[q] EXCEPT !.pc = "opening", !.conn = 0] \in OpType /\ Resting \in OpType
      BY <2>0 DEF OpType, Resting, Kinds
    <3>2. CASE op[q].kind = "disconnect"
      BY <2>1, <3>1, <3>2, CloseStep DEF Closed, Resting
    <3>3. CASE op[q].kind # "disconnect"
      <4> DEFINE state == [op[q] EXCEPT !.pc = "opening", !.conn = 0]
      <4>1. state.pc = "opening" /\ state.conn = 0 /\ state.kind = op[q].kind
        BY <2>0 DEF OpType
      <4>2. Goes(q, state) /\ status' = "connecting"
        BY <2>1, <3>3 DEF Closed
      <4> HIDE DEF state
      <4> QED BY <2>1, <3>1, <4>1, <4>2, CloseStep DEF Closed, state
    <3> QED BY <3>2, <3>3
  <2>2. CASE OpenTransport(q)
    BY <2>2, OpenStep
  <2>3. CASE Initialized(q)
    BY <2>3, KeepStep DEF Initialized
  <2>4. CASE FallBack(q)
    <3> DEFINE state == [op[q] EXCEPT !.pc = "opening", !.conn = 0, !.again = TRUE]
    <3>1. /\ state \in OpType /\ state.pc = "opening" /\ state.conn = 0
          /\ state.kind = op[q].kind
      BY <2>0 DEF OpType
    <3>2. /\ Goes(q, state) /\ op[q].pc = "initializing" /\ open' = open \ {op[q].conn}
          /\ UNCHANGED <<config, registered, status, crossed, left>>
      BY <2>4 DEF FallBack
    <3> HIDE DEF state
    <3> QED BY <3>1, <3>2, CloseStep
  <2>5. CASE ConnectFails(q)
    <3> DEFINE orphan == op[q].pc = "initializing" /\ op[q].again
    <3>1. CASE orphan
      BY <2>5, <3>1, OrphanStep DEF ConnectFails
    <3>2. CASE ~orphan
      <4>1. left' = left
        BY <2>5, <3>2 DEF ConnectFails, McpInv, McpTypeOK
      <4>2. Goes(q, [op[q] EXCEPT !.pc = "undoing"])
        BY <2>0, <2>5, <3>2 DEF ConnectFails, Goes, OpType
      <4> QED BY <2>5, <4>1, <4>2, KeepStep DEF ConnectFails
    <3> QED BY <3>1, <3>2
  <2>6. CASE Undone(q)
    <3>1. Resting \in OpType /\ Resting.pc = "idle" /\ Resting.conn = 0
      BY DEF OpType, Resting, Kinds
    <3> QED BY <2>6, <3>1, CloseStep DEF Undone, AfterUndo
  <2>7. CASE Register(q)
    BY <2>7, RegisterStep
  <2> QED BY <1>4, <2>1, <2>2, <2>3, <2>4, <2>5, <2>6, <2>7 DEF McpStep
<1> QED BY <1>1, <1>2, <1>3, <1>4 DEF McpNext

\* The inductive invariant holds in every state, for any number of requests.
THEOREM McpInvariantHolds == McpSpec => []McpInv
<1>1. McpInit => McpInv
  BY McpInitInv, McpAssumption
<1>2. McpInv /\ [McpNext]_mcp => McpInv'
  BY McpNextInv, McpAssumption
<1> QED BY <1>1, <1>2, PTL DEF McpSpec

\* Whichever requests overlap, a listed tool goes to an open connection, a server that is
\* reported as connected has one or is being taken down, and every open connection can be
\* closed by somebody, but for the three that _connect_remote, add_server and, after an
\* overlap, connect leave.
THEOREM ToolsHaveTheirConnection == McpSpec => []ConnectionsAreKept
<1>1. McpInv => ConnectionsAreKept
  BY DEF McpInv
<1> QED BY <1>1, McpInvariantHolds, PTL
=============================================================================
