---------------------------- MODULE OutboxProofs ----------------------------
(* Proofs about Outbox, for any number of events, publishers and attempts. *)
EXTENDS Outbox, FiniteSetTheorems, TLAPS

Status  == {"none", "pending", "processing", "processed", "dead_letter"}
RowType == [kind: Kinds, status: Status, attempts: Nat, owner: {NULL, "memory", "task"},
            stale: BOOLEAN, due: BOOLEAN]

TypeOK ==
    /\ event \in [Events -> RowType]
    /\ pc \in [Runners -> {"idle", "handling", "marking", "failing", "writing"}]
    /\ batch \in [Runners -> Seq(Events)]
    /\ dead \in [Runners -> BOOLEAN]
    /\ handled \subseteq Events
    /\ lapses \in Nat /\ drops \in Nat

\* Only a claim has a lease, and an event is first tried after it was enqueued.
RowsOK ==
    \A e \in Events :
        /\ event[e].stale => event[e].status = "processing"
        /\ event[e].status = "none" => event[e].attempts = 0

\* A runner at work has an event; it marks what its handler completed for; and
\* it gives up only what has used its attempts, whoever claims it meanwhile.
RunnersOK ==
    \A r \in Runners :
        /\ pc[r] # "idle" => batch[r] # <<>>
        /\ pc[r] = "marking" => Current(r) \in handled
        /\ dead[r] => pc[r] = "writing" /\ Exhausted(event[Current(r)])

\* The events of a batch were enqueued; until a lease runs out under a runner
\* they are all claimed, and no lease of theirs has run out.
BatchesOK ==
    \A r \in Runners : \A i \in 1 .. Len(batch[r]) :
        /\ event[batch[r][i]].status # "none"
        /\ lapses = 0 => /\ event[batch[r][i]].status = "processing"
                         /\ ~event[batch[r][i]].stale

\* The inductive invariant.
IInv == TypeOK /\ RowsOK /\ RunnersOK /\ BatchesOK /\ ExclusiveUntilLapse

-----------------------------------------------------------------------------
(* Lemmas about the writes to a row.                                       *)

\* A released claim waits again, without a lease and with its attempts counted.
LEMMA ReleasedRow ==
    ASSUME NEW row \in RowType
    PROVE  /\ Released(row) \in RowType
           /\ Released(row).status = "pending" /\ ~Released(row).stale
           /\ Released(row).attempts = row.attempts
<1> DEFINE waits == [row EXCEPT !.status = "pending"]
           free  == [waits EXCEPT !.owner = NULL]
           fresh == [free EXCEPT !.stale = FALSE]
<1>1. waits \in RowType /\ waits.status = "pending" /\ waits.attempts = row.attempts
  BY DEF RowType, Status
<1>2. free \in RowType /\ free.status = waits.status /\ free.attempts = waits.attempts
  <2> HIDE DEF waits
  <2> QED BY <1>1 DEF RowType
<1>3. /\ fresh \in RowType /\ ~fresh.stale
      /\ fresh.status = free.status /\ fresh.attempts = free.attempts
  <2> HIDE DEF free
  <2> QED BY <1>2 DEF RowType
<1>4. Released(row) = fresh
  BY DEF Released
<1> HIDE DEF waits, free, fresh
<1> QED BY <1>1, <1>2, <1>3, <1>4

\* The end of a claim, by a report of either kind.
LEMMA SettledRow ==
    ASSUME NEW row \in RowType, NEW s \in Status, NEW due \in BOOLEAN
    PROVE  LET settled == [Released(row) EXCEPT !.status = s, !.due = due]
           IN  /\ settled \in RowType
               /\ settled.status = s /\ ~settled.stale
               /\ settled.attempts = row.attempts
<1> DEFINE free == Released(row)
           said == [free EXCEPT !.status = s]
           told == [said EXCEPT !.due = due]
<1>1. free \in RowType /\ ~free.stale /\ free.attempts = row.attempts
  BY ReleasedRow
<1> HIDE DEF free
<1>2. said \in RowType /\ said.status = s /\ ~said.stale /\ said.attempts = row.attempts
  BY <1>1 DEF RowType
<1> HIDE DEF said
<1>3. /\ told \in RowType /\ told.status = said.status /\ told.stale = said.stale
      /\ told.attempts = said.attempts
  BY <1>2 DEF RowType
<1> HIDE DEF told
<1> QED BY <1>2, <1>3 DEF free, said, told

\* Before a claim, an expired row is pending again and every other row as it was.
LEMMA ReclaimedRow ==
    ASSUME NEW row \in RowType, row.stale => row.status = "processing"
    PROVE  /\ Reclaimed(row) \in RowType
           /\ ~Reclaimed(row).stale
           /\ Reclaimed(row).attempts = row.attempts
           /\ \/ Reclaimed(row) = row
              \/ /\ row.status = "processing" /\ row.stale
                 /\ Reclaimed(row).status = "pending"
<1> DEFINE free == Released(row)
           soon == [free EXCEPT !.due = TRUE]
<1>1. free \in RowType /\ free.status = "pending" /\ ~free.stale /\ free.attempts = row.attempts
  BY ReleasedRow
<1> HIDE DEF free
<1>2. /\ soon \in RowType /\ soon.status = free.status /\ soon.stale = free.stale
      /\ soon.attempts = free.attempts
  BY <1>1 DEF RowType
<1>3. Reclaimed(row) = IF row.status = "processing" /\ row.stale THEN soon ELSE row
  BY DEF Reclaimed, free
<1> HIDE DEF soon
<1>4. CASE row.status = "processing" /\ row.stale
  BY <1>1, <1>2, <1>3, <1>4
<1>5. CASE ~(row.status = "processing" /\ row.stale)
  <2>1. Reclaimed(row) = row
    BY <1>3, <1>5
  <2>2. ~row.stale
    BY <1>5
  <2> QED BY <2>1, <2>2
<1> QED BY <1>4, <1>5

\* A claim takes the row, counts the attempt and leaves the lease as it found it.
LEMMA ClaimedRow ==
    ASSUME NEW row \in RowType, NEW w \in {"memory", "task"}
    PROVE  /\ Claimed(row, w) \in RowType
           /\ Claimed(row, w).status = "processing"
           /\ Claimed(row, w).stale = row.stale
           /\ Claimed(row, w).attempts = row.attempts + 1
<1> DEFINE works == [row EXCEPT !.status = "processing"]
           owned == [works EXCEPT !.owner = w]
           tried == [owned EXCEPT !.attempts = @ + 1]
           taken == [tried EXCEPT !.due = FALSE]
<1>1. /\ works \in RowType /\ works.status = "processing" /\ works.stale = row.stale
      /\ works.attempts = row.attempts
  BY DEF RowType, Status
<1> HIDE DEF works
<1>2. /\ owned \in RowType /\ owned.status = works.status /\ owned.stale = works.stale
      /\ owned.attempts = works.attempts
  BY <1>1 DEF RowType
<1> HIDE DEF owned
<1>3. /\ tried \in RowType /\ tried.status = owned.status /\ tried.stale = owned.stale
      /\ tried.attempts = owned.attempts + 1
  BY <1>2 DEF RowType
<1> HIDE DEF tried
<1>4. /\ taken \in RowType /\ taken.status = tried.status /\ taken.stale = tried.stale
      /\ taken.attempts = tried.attempts
  BY <1>3 DEF RowType
<1>5. Claimed(row, w) = taken
  BY DEF Claimed, works, owned, tried
<1> HIDE DEF taken
<1> QED BY <1>1, <1>2, <1>3, <1>4, <1>5

-----------------------------------------------------------------------------
(* Lemmas about the batches.                                               *)

\* The next batch of every runner is what is left of the one it has.
Shrinks ==
    \A q \in Runners : \E k \in Nat : \A i \in 1 .. Len(batch'[q]) :
        i + k \in 1 .. Len(batch[q]) /\ batch'[q][i] = batch[q][i + k]

\* Batches that only lose events stay exclusive.
LEMMA ShrinkingIsExclusive ==
    ASSUME TypeOK, ExclusiveUntilLapse, Shrinks, batch' \in [Runners -> Seq(Events)],
           lapses' = 0 => lapses = 0
    PROVE  ExclusiveUntilLapse'
<1> SUFFICES ASSUME lapses = 0,
                    NEW q \in Runners, NEW s \in Runners,
                    NEW i \in 1 .. Len(batch'[q]), NEW j \in 1 .. Len(batch'[s]),
                    batch'[q][i] = batch'[s][j]
             PROVE  q = s /\ i = j
  BY DEF ExclusiveUntilLapse
<1>1. PICK k \in Nat : \A n \in 1 .. Len(batch'[q]) :
          n + k \in 1 .. Len(batch[q]) /\ batch'[q][n] = batch[q][n + k]
  BY DEF Shrinks
<1>2. PICK m \in Nat : \A n \in 1 .. Len(batch'[s]) :
          n + m \in 1 .. Len(batch[s]) /\ batch'[s][n] = batch[s][n + m]
  BY DEF Shrinks
<1>3. batch[q][i + k] = batch[s][j + m]
  BY <1>1, <1>2
<1>4. q = s /\ i + k = j + m
  BY <1>1, <1>2, <1>3 DEF ExclusiveUntilLapse
<1>5. /\ i + k \in 1 .. Len(batch[q]) /\ i + m \in 1 .. Len(batch[q])
      /\ batch[q][i + k] = batch[q][i + m]
  BY <1>1, <1>2, <1>4
<1>6. i + k = i + m
  <2>1. \A n, l \in 1 .. Len(batch[q]) : batch[q][n] = batch[q][l] => n = l
    BY DEF ExclusiveUntilLapse
  <2> QED BY <1>5, <2>1
<1> QED BY <1>4, <1>6

\* Going on to the next event takes the first one off the runner's batch.
LEMMA AdvanceShrinks ==
    ASSUME TypeOK, NEW r \in Runners, batch[r] # <<>>, Advance(r)
    PROVE  /\ batch' \in [Runners -> Seq(Events)] /\ Shrinks
           /\ Current(r) \in Events
           /\ \A i \in 1 .. Len(batch'[r]) : batch'[r][i] = batch[r][i + 1]
           /\ \A q \in Runners \ {r} : batch'[q] = batch[q] /\ pc'[q] = pc[q]
           /\ pc'[r] \in {"idle", "handling"}
           /\ pc'[r] # "idle" => batch'[r] # <<>>
<1>1. batch[r] \in Seq(Events) /\ Len(batch[r]) \in Nat \ {0} /\ Current(r) = batch[r][1]
  BY DEF TypeOK, Current
<1>2. batch' = [batch EXCEPT ![r] = Tail(batch[r])]
  BY DEF Advance
<1>3. /\ Tail(batch[r]) \in Seq(Events) /\ Len(Tail(batch[r])) = Len(batch[r]) - 1
      /\ \A i \in 1 .. Len(batch[r]) - 1 : Tail(batch[r])[i] = batch[r][i + 1]
  BY <1>1
<1>4. /\ batch'[r] = Tail(batch[r]) /\ Len(batch'[r]) = Len(batch[r]) - 1
      /\ \A i \in 1 .. Len(batch'[r]) :
             i + 1 \in 1 .. Len(batch[r]) /\ batch'[r][i] = batch[r][i + 1]
      /\ \A q \in Runners \ {r} : batch'[q] = batch[q]
  <2>1. batch'[r] = Tail(batch[r]) /\ \A q \in Runners \ {r} : batch'[q] = batch[q]
    BY <1>2 DEF TypeOK
  <2> QED BY <1>1, <1>3, <2>1
<1>5. batch' \in [Runners -> Seq(Events)]
  BY <1>2, <1>3 DEF TypeOK
<1>6. Shrinks
  <2> SUFFICES ASSUME NEW q \in Runners
               PROVE  \E k \in Nat : \A i \in 1 .. Len(batch'[q]) :
                          i + k \in 1 .. Len(batch[q]) /\ batch'[q][i] = batch[q][i + k]
    BY DEF Shrinks
  <2>1. CASE q = r
    <3>1. \A i \in 1 .. Len(batch'[q]) :
              i + 1 \in 1 .. Len(batch[q]) /\ batch'[q][i] = batch[q][i + 1]
      BY <1>4, <2>1
    <3> QED BY <3>1
  <2>2. CASE q # r
    <3>1. \A i \in 1 .. Len(batch'[q]) :
              i + 0 \in 1 .. Len(batch[q]) /\ batch'[q][i] = batch[q][i + 0]
      BY <1>4, <2>2
    <3> QED BY <3>1
  <2> QED BY <2>1, <2>2
<1>7. /\ pc'[r] = (IF Len(batch[r]) = 1 THEN "idle" ELSE "handling")
      /\ \A q \in Runners \ {r} : pc'[q] = pc[q]
  BY DEF Advance, TypeOK
<1>8. pc'[r] # "idle" => batch'[r] # <<>>
  <2>1. pc'[r] # "idle" => Len(batch'[r]) # 0
    BY <1>1, <1>4, <1>7
  <2> QED BY <2>1
<1> QED BY <1>1, <1>3, <1>4, <1>5, <1>6, <1>7, <1>8

\* Abandoning a batch empties it and leaves the runner idle.
LEMMA AbandonShrinks ==
    ASSUME TypeOK, NEW r \in Runners, Abandon(r)
    PROVE  /\ batch' \in [Runners -> Seq(Events)] /\ Shrinks
           /\ pc'[r] = "idle" /\ batch'[r] = <<>>
           /\ \A q \in Runners \ {r} : batch'[q] = batch[q] /\ pc'[q] = pc[q]
<1>1. /\ pc'[r] = "idle" /\ batch'[r] = <<>>
      /\ \A q \in Runners \ {r} : batch'[q] = batch[q] /\ pc'[q] = pc[q]
  BY DEF Abandon, TypeOK
<1>2. <<>> \in Seq(Events) /\ Len(<<>>) = 0
  OBVIOUS
<1>3. batch' \in [Runners -> Seq(Events)]
  BY <1>2 DEF Abandon, TypeOK
<1>4. Shrinks
  <2> SUFFICES ASSUME NEW q \in Runners
               PROVE  \A i \in 1 .. Len(batch'[q]) :
                          i + 0 \in 1 .. Len(batch[q]) /\ batch'[q][i] = batch[q][i + 0]
    BY DEF Shrinks
  <2> QED BY <1>1, <1>2
<1> QED BY <1>1, <1>3, <1>4

\* What a claim does to the rows and to the batch of its runner.
LEMMA ClaimStep ==
    ASSUME OutboxAssumption, TypeOK, RowsOK, NEW r \in Runners, Claim(r)
    PROVE  /\ event' \in [Events -> RowType]
           /\ \A e \in Events :
                  /\ ~event'[e].stale
                  /\ \/ event'[e] = event[e]
                     \/ /\ event[e].status = "processing" /\ event[e].stale
                        /\ event'[e].status = "pending"
                        /\ event'[e].attempts = event[e].attempts
                     \/ /\ event[e].status = "pending" \/ event[e].stale
                        /\ event'[e].status = "processing"
                        /\ event'[e].attempts = event[e].attempts + 1
           /\ batch' \in [Runners -> Seq(Events)]
           /\ \A q \in Runners \ {r} : batch'[q] = batch[q] /\ pc'[q] = pc[q]
           /\ pc'[r] \in {"idle", "handling"}
           /\ pc'[r] # "idle" => batch'[r] # <<>>
           /\ \A i, j \in 1 .. Len(batch'[r]) : batch'[r][i] = batch'[r][j] => i = j
           /\ \A i \in 1 .. Len(batch'[r]) :
                  LET e == batch'[r][i]
                  IN  /\ event[e].status = "pending" \/ event[e].stale
                      /\ event'[e].status = "processing"
<1> DEFINE w      == Worker(r)
           row(e) == Reclaimed(event[e])
           ready  == {e \in Events : Claimable(row(e), w)}
           oldest == {e \in ready : Cardinality({f \in ready : f < e}) < BatchSize}
<1>1. w \in {"memory", "task"}
  BY DEF Worker
<1>2. ASSUME NEW e \in Events
      PROVE  /\ row(e) \in RowType /\ ~row(e).stale
             /\ row(e).attempts = event[e].attempts
             /\ \/ row(e) = event[e]
                \/ /\ event[e].status = "processing" /\ event[e].stale
                   /\ row(e).status = "pending"
  <2>1. event[e] \in RowType /\ (event[e].stale => event[e].status = "processing")
    BY DEF TypeOK, RowsOK
  <2> QED BY <2>1, ReclaimedRow
<1>3. ASSUME NEW e \in oldest
      PROVE  /\ e \in Events /\ row(e).status = "pending"
             /\ Claimed(row(e), w) \in RowType
             /\ Claimed(row(e), w).status = "processing"
             /\ ~Claimed(row(e), w).stale
             /\ Claimed(row(e), w).attempts = event[e].attempts + 1
             /\ event[e].status = "pending" \/ event[e].stale
  <2>1. e \in Events /\ row(e).status = "pending"
    BY DEF Claimable
  <2> HIDE DEF row, oldest, w
  <2> QED BY <1>1, <1>2, <2>1, ClaimedRow
<1>4. /\ event' = [e \in Events |-> IF e \in oldest THEN Claimed(row(e), w) ELSE row(e)]
      /\ \E order \in [1 .. Cardinality(oldest) -> oldest] :
             /\ \A i, j \in DOMAIN order : i < j => order[i] < order[j]
             /\ batch' = [batch EXCEPT ![r] = order]
      /\ pc' = [pc EXCEPT ![r] = IF oldest = {} THEN "idle" ELSE "handling"]
  BY DEF Claim
<1>5. /\ oldest \subseteq Events
      /\ Cardinality(oldest) \in Nat /\ (oldest # {} => Cardinality(oldest) # 0)
  <2>1. IsFiniteSet(Events)
    BY FS_Interval DEF Events, OutboxAssumption
  <2>2. oldest \subseteq Events
    OBVIOUS
  <2> HIDE DEF oldest
  <2>3. IsFiniteSet(oldest)
    BY <2>1, <2>2, FS_Subset
  <2> QED BY <2>2, <2>3, FS_CardinalityType, FS_EmptySet
<1> HIDE DEF row, oldest, w
<1>6. \A e \in Events : event'[e] = IF e \in oldest THEN Claimed(row(e), w) ELSE row(e)
  BY <1>4
<1>7. event' \in [Events -> RowType]
  BY <1>2, <1>3, <1>4
<1>8. ASSUME NEW e \in Events
      PROVE  /\ ~event'[e].stale
             /\ \/ event'[e] = event[e]
                \/ /\ event[e].status = "processing" /\ event[e].stale
                   /\ event'[e].status = "pending"
                   /\ event'[e].attempts = event[e].attempts
                \/ /\ event[e].status = "pending" \/ event[e].stale
                   /\ event'[e].status = "processing"
                   /\ event'[e].attempts = event[e].attempts + 1
  <2>1. CASE e \in oldest
    BY <1>3, <1>6, <2>1
  <2>2. CASE e \notin oldest
    BY <1>2, <1>6, <2>2
  <2> QED BY <2>1, <2>2
<1>9. PICK order \in [1 .. Cardinality(oldest) -> oldest] :
          /\ \A i, j \in DOMAIN order : i < j => order[i] < order[j]
          /\ batch' = [batch EXCEPT ![r] = order]
  BY <1>4
<1>10. order \in Seq(Events) /\ Len(order) = Cardinality(oldest)
  <2>1. order \in [1 .. Cardinality(oldest) -> Events]
    BY <1>5, <1>9
  <2> QED BY <1>5, <2>1
<1>11. batch' \in [Runners -> Seq(Events)] /\ batch'[r] = order
  BY <1>9, <1>10 DEF TypeOK
<1>12. \A q \in Runners \ {r} : batch'[q] = batch[q] /\ pc'[q] = pc[q]
  BY <1>4, <1>9 DEF TypeOK
<1>13. pc'[r] = IF oldest = {} THEN "idle" ELSE "handling"
  BY <1>4 DEF TypeOK
<1>14. pc'[r] # "idle" => batch'[r] # <<>>
  <2>1. pc'[r] # "idle" => Len(batch'[r]) # 0
    BY <1>5, <1>10, <1>11, <1>13
  <2> QED BY <2>1
<1>15. \A i, j \in 1 .. Len(batch'[r]) : batch'[r][i] = batch'[r][j] => i = j
  <2> SUFFICES ASSUME NEW i \in 1 .. Len(order), NEW j \in 1 .. Len(order), i < j
               PROVE  order[i] # order[j]
    BY <1>5, <1>10, <1>11
  <2>1. order[i] < order[j] /\ order[i] \in Int /\ order[j] \in Int
    BY <1>5, <1>9, <1>10 DEF Events
  <2> QED BY <2>1
<1>16. ASSUME NEW i \in 1 .. Len(batch'[r])
       PROVE  LET e == batch'[r][i]
              IN  /\ event[e].status = "pending" \/ event[e].stale
                  /\ event'[e].status = "processing"
  <2>1. order[i] \in oldest
    BY <1>5, <1>9, <1>10, <1>11
  <2>2. order[i] \in Events /\ event'[order[i]] = Claimed(row(order[i]), w)
    BY <1>3, <1>6, <2>1
  <2> QED BY <1>3, <1>11, <2>1, <2>2
<1>17. pc'[r] \in {"idle", "handling"}
  BY <1>13
<1> QED BY <1>7, <1>8, <1>11, <1>12, <1>14, <1>15, <1>16, <1>17

-----------------------------------------------------------------------------
(* The steps preserve the invariant.                                       *)

\* A report of either kind: the runner goes on to its next event, and the row
\* of the current one is no claim any more.
LEMMA ReportPreserves ==
    ASSUME IInv, NEW r \in Runners, pc[r] # "idle",
           NEW row \in RowType, row.status # "none", ~row.stale,
           row.attempts = event[Current(r)].attempts,
           event' = [event EXCEPT ![Current(r)] = row],
           Advance(r), dead' = [dead EXCEPT ![r] = FALSE],
           handled' = handled, lapses' = lapses, drops' = drops
    PROVE  IInv'
<1> USE DEF IInv
<1>1. batch[r] # <<>> /\ batch[r] \in Seq(Events)
  BY DEF RunnersOK, TypeOK
<1>2. /\ batch' \in [Runners -> Seq(Events)] /\ Shrinks /\ Current(r) \in Events
      /\ \A i \in 1 .. Len(batch'[r]) : batch'[r][i] = batch[r][i + 1]
      /\ \A q \in Runners \ {r} : batch'[q] = batch[q] /\ pc'[q] = pc[q]
      /\ pc'[r] \in {"idle", "handling"}
      /\ pc'[r] # "idle" => batch'[r] # <<>>
  BY <1>1, AdvanceShrinks
<1>3. /\ event'[Current(r)] = row
      /\ \A e \in Events \ {Current(r)} : event'[e] = event[e]
      /\ event' \in [Events -> RowType]
      /\ \A e \in Events : event'[e].attempts = event[e].attempts
  BY <1>2 DEF TypeOK
<1>4. ~dead'[r] /\ \A q \in Runners \ {r} : dead'[q] = dead[q]
  BY DEF TypeOK
<1>5. TypeOK'
  <2>1. pc' \in [Runners -> {"idle", "handling", "marking", "failing", "writing"}]
    BY DEF TypeOK, Advance
  <2>2. dead' \in [Runners -> BOOLEAN]
    BY DEF TypeOK
  <2> QED BY <1>2, <1>3, <2>1, <2>2 DEF TypeOK
<1>6. RowsOK'
  BY <1>3 DEF RowsOK
<1>7. RunnersOK'
  <2> SUFFICES ASSUME NEW q \in Runners
               PROVE  /\ pc'[q] # "idle" => batch'[q] # <<>>
                      /\ pc'[q] = "marking" => Current(q)' \in handled'
                      /\ dead'[q] => pc'[q] = "writing" /\ Exhausted(event[Current(q)])'
    BY DEF RunnersOK
  <2>1. CASE q = r
    BY <1>2, <1>4, <2>1
  <2>2. CASE q # r
    <3>1. batch'[q] = batch[q] /\ pc'[q] = pc[q] /\ dead'[q] = dead[q]
      BY <1>2, <1>4, <2>2
    <3>2. pc[q] # "idle" => Current(q) \in Events
      BY DEF RunnersOK, TypeOK, Current
    <3> QED BY <1>3, <3>1, <3>2 DEF RunnersOK, Current, Exhausted
  <2> QED BY <2>1, <2>2
<1>8. BatchesOK'
  <2> SUFFICES ASSUME NEW q \in Runners, NEW i \in 1 .. Len(batch'[q])
               PROVE  /\ event'[batch'[q][i]].status # "none"
                      /\ lapses = 0 => /\ event'[batch'[q][i]].status = "processing"
                                       /\ ~event'[batch'[q][i]].stale
    BY DEF BatchesOK
  <2>1. PICK k \in Nat : i + k \in 1 .. Len(batch[q]) /\ batch'[q][i] = batch[q][i + k]
    BY <1>2 DEF Shrinks
  <2>2. /\ batch'[q][i] \in Events
        /\ event[batch'[q][i]].status # "none"
        /\ lapses = 0 => /\ event[batch'[q][i]].status = "processing"
                         /\ ~event[batch'[q][i]].stale
    BY <1>2, <2>1 DEF BatchesOK
  <2>3. event'[batch'[q][i]].status # "none"
    BY <1>3, <2>2
  <2>4. ASSUME lapses = 0 PROVE batch'[q][i] # Current(r)
    <3>1. 1 \in 1 .. Len(batch[r]) /\ Current(r) = batch[r][1]
      BY <1>1 DEF Current
    <3>2. CASE q = r
      <4>1. i + 1 \in 1 .. Len(batch[r]) /\ batch'[q][i] = batch[r][i + 1]
        BY <1>1, <1>2, <3>2 DEF Advance, TypeOK
      <4>2. \A n, l \in 1 .. Len(batch[r]) : batch[r][n] = batch[r][l] => n = l
        BY <2>4 DEF ExclusiveUntilLapse
      <4> QED BY <3>1, <4>1, <4>2
    <3>3. CASE q # r
      BY <2>1, <2>4, <3>1, <3>3 DEF ExclusiveUntilLapse
    <3> QED BY <3>2, <3>3
  <2> QED BY <1>3, <2>2, <2>3, <2>4
<1>9. ExclusiveUntilLapse'
  BY <1>2, ShrinkingIsExclusive
<1> QED BY <1>5, <1>6, <1>7, <1>8, <1>9

\* What only moves one runner, or drops its batch, leaves the rows alone.
LEMMA MovePreserves ==
    ASSUME IInv, NEW r \in Runners, batch' \in [Runners -> Seq(Events)], Shrinks,
           \A q \in Runners \ {r} : batch'[q] = batch[q] /\ pc'[q] = pc[q] /\ dead'[q] = dead[q],
           pc' \in [Runners -> {"idle", "handling", "marking", "failing", "writing"}],
           dead' \in [Runners -> BOOLEAN],
           handled \subseteq handled', handled' \subseteq Events,
           event' = event, lapses' = lapses, drops' \in Nat,
           pc'[r] # "idle" => batch'[r] # <<>>,
           pc'[r] = "marking" => Current(r)' \in handled',
           dead'[r] => pc'[r] = "writing" /\ Exhausted(event[Current(r)])'
    PROVE  IInv'
<1> USE DEF IInv
<1>1. TypeOK'
  BY DEF TypeOK
<1>2. RowsOK'
  BY DEF RowsOK
<1>3. RunnersOK'
  <2> SUFFICES ASSUME NEW q \in Runners
               PROVE  /\ pc'[q] # "idle" => batch'[q] # <<>>
                      /\ pc'[q] = "marking" => Current(q)' \in handled'
                      /\ dead'[q] => pc'[q] = "writing" /\ Exhausted(event[Current(q)])'
    BY DEF RunnersOK
  <2>1. CASE q = r
    BY <2>1
  <2>2. CASE q # r
    BY <2>2 DEF RunnersOK, Current
  <2> QED BY <2>1, <2>2
<1>4. BatchesOK'
  <2> SUFFICES ASSUME NEW q \in Runners, NEW i \in 1 .. Len(batch'[q])
               PROVE  /\ event[batch'[q][i]].status # "none"
                      /\ lapses = 0 => /\ event[batch'[q][i]].status = "processing"
                                       /\ ~event[batch'[q][i]].stale
    BY DEF BatchesOK
  <2>1. PICK k \in Nat : i + k \in 1 .. Len(batch[q]) /\ batch'[q][i] = batch[q][i + k]
    BY DEF Shrinks
  <2> QED BY <2>1 DEF BatchesOK
<1>5. ExclusiveUntilLapse'
  BY ShrinkingIsExclusive
<1> QED BY <1>1, <1>2, <1>3, <1>4, <1>5

\* What only writes a row, beside the runners: an event that some batch holds
\* keeps its status, and its lease runs out only if that is counted.
LEMMA RowPreserves ==
    ASSUME IInv, NEW e \in Events, NEW row \in RowType,
           event' = [event EXCEPT ![e] = row],
           row.attempts = event[e].attempts, row.status # "none",
           row.stale => row.status = "processing",
           event[e].status # "none" => row.status = event[e].status,
           lapses' \in Nat, lapses' = 0 => lapses = 0,
           row.stale /\ Held(e) => event[e].stale \/ lapses' # 0,
           pc' = pc, batch' = batch, dead' = dead, handled' = handled, drops' = drops
    PROVE  IInv'
<1> USE DEF IInv
<1>1. /\ event'[e] = row
      /\ \A f \in Events \ {e} : event'[f] = event[f]
      /\ event' \in [Events -> RowType]
  BY DEF TypeOK
<1>2. TypeOK'
  BY <1>1 DEF TypeOK
<1>3. RowsOK'
  BY <1>1 DEF RowsOK
<1>4. RunnersOK'
  <2> SUFFICES ASSUME NEW r \in Runners
               PROVE  /\ pc[r] # "idle" => batch[r] # <<>>
                      /\ pc[r] = "marking" => Current(r) \in handled
                      /\ dead[r] => pc[r] = "writing" /\ event'[Current(r)].attempts >= MaxAttempts
    BY DEF RunnersOK, Current, Exhausted
  <2>1. pc[r] # "idle" => Current(r) \in Events
    BY DEF RunnersOK, TypeOK, Current
  <2> QED BY <1>1, <2>1 DEF RunnersOK, Exhausted
<1>5. BatchesOK'
  <2> SUFFICES ASSUME NEW r \in Runners, NEW i \in 1 .. Len(batch[r])
               PROVE  LET f == batch[r][i]
                      IN  /\ event'[f].status # "none"
                          /\ lapses' = 0 => event'[f].status = "processing" /\ ~event'[f].stale
    BY DEF BatchesOK
  <2>1. /\ batch[r][i] \in Events
        /\ event[batch[r][i]].status # "none"
        /\ lapses = 0 => /\ event[batch[r][i]].status = "processing"
                         /\ ~event[batch[r][i]].stale
    BY DEF BatchesOK, TypeOK
  <2>2. CASE batch[r][i] = e
    <3>1. Held(e)
      BY <2>2 DEF Held
    <3> QED BY <1>1, <2>1, <2>2, <3>1
  <2>3. CASE batch[r][i] # e
    BY <1>1, <2>1, <2>3
  <2> QED BY <2>2, <2>3
<1>6. ExclusiveUntilLapse'
  BY DEF ExclusiveUntilLapse
<1> QED BY <1>2, <1>3, <1>4, <1>5, <1>6

\* A claim takes only rows that no batch of another runner holds with a live lease.
LEMMA ClaimPreserves ==
    ASSUME OutboxAssumption, IInv, NEW r \in Runners, Claim(r)
    PROVE  IInv'
<1> USE DEF IInv
<1>1. /\ event' \in [Events -> RowType]
      /\ \A e \in Events :
             /\ ~event'[e].stale
             /\ \/ event'[e] = event[e]
                \/ /\ event[e].status = "processing" /\ event[e].stale
                   /\ event'[e].status = "pending"
                   /\ event'[e].attempts = event[e].attempts
                \/ /\ event[e].status = "pending" \/ event[e].stale
                   /\ event'[e].status = "processing"
                   /\ event'[e].attempts = event[e].attempts + 1
      /\ batch' \in [Runners -> Seq(Events)]
      /\ \A q \in Runners \ {r} : batch'[q] = batch[q] /\ pc'[q] = pc[q]
      /\ pc'[r] \in {"idle", "handling"}
      /\ pc'[r] # "idle" => batch'[r] # <<>>
      /\ \A i, j \in 1 .. Len(batch'[r]) : batch'[r][i] = batch'[r][j] => i = j
      /\ \A i \in 1 .. Len(batch'[r]) :
             LET e == batch'[r][i]
             IN  /\ event[e].status = "pending" \/ event[e].stale
                 /\ event'[e].status = "processing"
  BY ClaimStep
<1>2. pc[r] = "idle" /\ dead' = dead /\ handled' = handled /\ lapses' = lapses /\ drops' = drops
  BY DEF Claim
<1>3. \A e \in Events : event'[e].attempts \in Nat /\ event'[e].attempts >= event[e].attempts
  <2> SUFFICES ASSUME NEW e \in Events
               PROVE  event'[e].attempts \in Nat /\ event'[e].attempts >= event[e].attempts
    OBVIOUS
  <2>1. event[e].attempts \in Nat
    BY DEF TypeOK, RowType
  <2> QED BY <1>1, <2>1
<1>4. ASSUME NEW q \in Runners \ {r}, NEW i \in 1 .. Len(batch'[q])
      PROVE  LET e == batch'[q][i]
             IN  /\ i \in 1 .. Len(batch[q]) /\ e = batch[q][i] /\ e \in Events
                 /\ event'[e].status # "none"
                 /\ lapses = 0 => /\ event[e].status = "processing" /\ ~event[e].stale
                                  /\ event'[e] = event[e]
  <2>1. /\ i \in 1 .. Len(batch[q]) /\ batch'[q][i] = batch[q][i] /\ batch[q][i] \in Events
        /\ event[batch[q][i]].status # "none"
        /\ lapses = 0 => event[batch[q][i]].status = "processing" /\ ~event[batch[q][i]].stale
    BY <1>1 DEF BatchesOK, TypeOK
  <2> QED BY <1>1, <2>1
<1>5. TypeOK'
  <2>1. pc' \in [Runners -> {"idle", "handling", "marking", "failing", "writing"}]
    BY DEF TypeOK, Claim
  <2> QED BY <1>1, <1>2, <2>1 DEF TypeOK
<1>6. RowsOK'
  BY <1>1 DEF RowsOK
<1>7. RunnersOK'
  <2> SUFFICES ASSUME NEW q \in Runners
               PROVE  /\ pc'[q] # "idle" => batch'[q] # <<>>
                      /\ pc'[q] = "marking" => Current(q)' \in handled
                      /\ dead[q] => pc'[q] = "writing" /\ Exhausted(event[Current(q)])'
    BY <1>2 DEF RunnersOK
  <2>1. CASE q = r
    BY <1>1, <1>2, <2>1 DEF RunnersOK
  <2>2. CASE q # r
    <3>1. batch'[q] = batch[q] /\ pc'[q] = pc[q] /\ Current(q)' = Current(q)
      BY <1>1, <2>2 DEF Current
    <3>2. pc[q] # "idle" => Current(q) \in Events
      BY DEF RunnersOK, TypeOK, Current
    <3>3. dead[q] => event'[Current(q)].attempts >= MaxAttempts
      <4>1. dead[q] => Current(q) \in Events /\ event[Current(q)].attempts >= MaxAttempts
        BY <3>2 DEF RunnersOK, Exhausted
      <4>2. \A e \in Events : event[e].attempts \in Nat
        BY DEF TypeOK, RowType
      <4> QED BY <1>3, <4>1, <4>2 DEF OutboxAssumption
    <3> QED BY <3>1, <3>3 DEF RunnersOK, Exhausted
  <2> QED BY <2>1, <2>2
<1>8. BatchesOK'
  <2> SUFFICES ASSUME NEW q \in Runners, NEW i \in 1 .. Len(batch'[q])
               PROVE  LET e == batch'[q][i]
                      IN  /\ event'[e].status # "none"
                          /\ lapses = 0 => event'[e].status = "processing" /\ ~event'[e].stale
    BY <1>2 DEF BatchesOK
  <2>1. CASE q = r
    <3>1. batch'[q][i] \in Events
      BY <1>1
    <3> QED BY <1>1, <2>1, <3>1
  <2>2. CASE q # r
    BY <1>4, <2>2
  <2> QED BY <2>1, <2>2
<1>9. ExclusiveUntilLapse'
  <2> SUFFICES ASSUME lapses = 0, NEW q \in Runners, NEW s \in Runners,
                      NEW i \in 1 .. Len(batch'[q]), NEW j \in 1 .. Len(batch'[s]),
                      batch'[q][i] = batch'[s][j]
               PROVE  q = s /\ i = j
    BY <1>2 DEF ExclusiveUntilLapse
  <2>1. CASE q = r /\ s = r
    BY <1>1, <2>1
  <2>2. CASE q # r /\ s # r
    BY <1>4, <2>2 DEF ExclusiveUntilLapse
  <2>3. CASE q = r /\ s # r
    <3>1. event[batch'[q][i]].status = "pending" \/ event[batch'[q][i]].stale
      BY <1>1, <2>3
    <3>2. event[batch'[s][j]].status = "processing" /\ ~event[batch'[s][j]].stale
      BY <1>4, <2>3
    <3> QED BY <3>1, <3>2
  <2>4. CASE q # r /\ s = r
    <3>1. event[batch'[s][j]].status = "pending" \/ event[batch'[s][j]].stale
      BY <1>1, <2>4
    <3>2. event[batch'[q][i]].status = "processing" /\ ~event[batch'[q][i]].stale
      BY <1>4, <2>4
    <3> QED BY <3>1, <3>2
  <2> QED BY <2>1, <2>2, <2>3, <2>4
<1> QED BY <1>5, <1>6, <1>7, <1>8, <1>9

-----------------------------------------------------------------------------
(* The invariant.                                                          *)

\* The empty outbox satisfies the invariant.
LEMMA InitEstablishes ==
    ASSUME OutboxAssumption, Init
    PROVE  IInv
<1>1. NoEvent \in RowType /\ NoEvent.status = "none" /\ ~NoEvent.stale /\ NoEvent.attempts = 0
  BY DEF NoEvent, RowType, Status, Kinds
<1>2. <<>> \in Seq(Events) /\ Len(<<>>) = 0
  OBVIOUS
<1>3. TypeOK
  BY <1>1, <1>2 DEF Init, TypeOK
<1>4. RowsOK /\ RunnersOK /\ BatchesOK /\ ExclusiveUntilLapse
  BY <1>1, <1>2 DEF Init, RowsOK, RunnersOK, BatchesOK, ExclusiveUntilLapse
<1> QED BY <1>3, <1>4 DEF IInv

\* Every step of the workers, the publishers and of time preserves the invariant.
LEMMA NextPreserves ==
    ASSUME OutboxAssumption, IInv, [Next]_vars
    PROVE  IInv'
<1>1. ASSUME NEW e \in Events, NEW kind \in Kinds, Enqueue(e, kind)
      PROVE  IInv'
  <2> DEFINE row == [NoEvent EXCEPT !.kind = kind, !.status = "pending", !.due = TRUE]
  <2>1. /\ row \in RowType /\ row.status = "pending" /\ row.attempts = 0 /\ ~row.stale
    BY DEF NoEvent, RowType, Status
  <2>2. /\ event' = [event EXCEPT ![e] = row]
        /\ event[e].status = "none" /\ event[e].attempts = 0
        /\ UNCHANGED <<pc, batch, dead, handled, lapses, drops>>
    BY <1>1 DEF Enqueue, IInv, RowsOK
  <2> HIDE DEF row
  <2> QED BY <2>1, <2>2, RowPreserves DEF IInv, TypeOK
<1>2. ASSUME NEW e \in Events, Lapse(e)
      PROVE  IInv'
  <2> DEFINE row == [event[e] EXCEPT !.stale = TRUE]
  <2>1. /\ row \in RowType /\ row.status = event[e].status /\ row.attempts = event[e].attempts
        /\ event[e].status = "processing"
    BY <1>2 DEF Lapse, IInv, TypeOK, RowType
  <2>2. event' = [event EXCEPT ![e] = row]
    BY <1>2 DEF Lapse
  <2>3. /\ lapses \in Nat /\ lapses' = IF Held(e) THEN lapses + 1 ELSE lapses
        /\ UNCHANGED <<pc, batch, dead, handled, drops>>
    BY <1>2 DEF Lapse, IInv, TypeOK
  <2> HIDE DEF row
  <2>4. /\ lapses' \in Nat /\ (lapses' = 0 => lapses = 0)
        /\ Held(e) => lapses' # 0
    BY <2>3
  <2> QED BY <2>1, <2>2, <2>3, <2>4, RowPreserves
<1>3. ASSUME NEW e \in Events, RetryDue(e)
      PROVE  IInv'
  <2> DEFINE row == [event[e] EXCEPT !.due = TRUE]
  <2>1. /\ row \in RowType /\ row.status = event[e].status /\ row.attempts = event[e].attempts
        /\ row.stale = event[e].stale /\ event[e].status = "pending"
    BY <1>3 DEF RetryDue, IInv, TypeOK, RowType
  <2>2. /\ event' = [event EXCEPT ![e] = row]
        /\ UNCHANGED <<pc, batch, dead, handled, lapses, drops>>
    BY <1>3 DEF RetryDue
  <2>3. ~event[e].stale
    BY <2>1 DEF IInv, RowsOK
  <2> HIDE DEF row
  <2> QED BY <2>1, <2>2, <2>3, RowPreserves DEF IInv, TypeOK
<1>4. ASSUME NEW r \in Runners, Claim(r)
      PROVE  IInv'
  BY <1>4, ClaimPreserves
<1>5. ASSUME NEW r \in Runners, pc[r] # "idle"
      PROVE  batch[r] # <<>> /\ Current(r) \in Events
  BY <1>5 DEF IInv, RunnersOK, TypeOK, Current
<1>6. ASSUME NEW r \in Runners, batch' = batch
      PROVE  batch' \in [Runners -> Seq(Events)] /\ Shrinks
  <2>1. \A q \in Runners : \A i \in 1 .. Len(batch'[q]) :
            i + 0 \in 1 .. Len(batch[q]) /\ batch'[q][i] = batch[q][i + 0]
    BY <1>6
  <2> QED BY <1>6, <2>1 DEF Shrinks, IInv, TypeOK
<1>7. ASSUME NEW r \in Runners, Handle(r)
      PROVE  IInv'
  <2>1. /\ pc[r] = "handling" /\ batch' = batch /\ dead' = dead /\ event' = event
        /\ lapses' = lapses /\ drops' = drops /\ Current(r)' = Current(r)
    BY <1>7 DEF Handle, Current
  <2>2. batch[r] # <<>> /\ Current(r) \in Events /\ ~dead[r]
    BY <1>5, <2>1 DEF IInv, RunnersOK
  <2>3. /\ pc' \in [Runners -> {"idle", "handling", "marking", "failing", "writing"}]
        /\ \A q \in Runners \ {r} : pc'[q] = pc[q]
    BY <1>7 DEF Handle, IInv, TypeOK
  <2>4. /\ handled \subseteq handled' /\ handled' \subseteq Events
        /\ pc'[r] = "marking" => Current(r) \in handled'
    BY <1>7, <2>2 DEF Handle, IInv, TypeOK
  <2> QED BY <1>6, <2>1, <2>2, <2>3, <2>4, MovePreserves DEF IInv, TypeOK
<1>8. ASSUME NEW r \in Runners, MarkProcessed(r)
      PROVE  IInv'
  <2>1. /\ pc[r] = "marking" /\ batch[r] # <<>> /\ Current(r) \in Events /\ ~dead[r]
        /\ dead' = dead /\ handled' = handled /\ lapses' = lapses /\ drops' = drops
    BY <1>5, <1>8 DEF MarkProcessed, IInv, RunnersOK
  <2>2. CASE Owns(r, event[Current(r)])
    <3> DEFINE row == [Released(event[Current(r)]) EXCEPT !.status = "processed"]
               free == Released(event[Current(r)])
    <3>1. free \in RowType /\ ~free.stale /\ free.attempts = event[Current(r)].attempts
      BY <2>1, ReleasedRow DEF IInv, TypeOK
    <3>2. row = [free EXCEPT !.status = "processed"]
      OBVIOUS
    <3>3. event' = [event EXCEPT ![Current(r)] = row] /\ Advance(r)
      BY <1>8, <2>2 DEF MarkProcessed
    <3> HIDE DEF free
    <3>4. row \in RowType /\ row.status # "none" /\ ~row.stale
          /\ row.attempts = event[Current(r)].attempts
      BY <3>1, <3>2 DEF RowType, Status
    <3>5. dead' = [dead EXCEPT ![r] = FALSE]
      BY <2>1 DEF IInv, TypeOK
    <3> HIDE DEF row
    <3> QED BY <2>1, <3>3, <3>4, <3>5, ReportPreserves
  <2>3. CASE ~Owns(r, event[Current(r)])
    <3>1. pc' = [pc EXCEPT ![r] = "failing"] /\ event' = event /\ batch' = batch
      BY <1>8, <2>3 DEF MarkProcessed
    <3> QED BY <1>6, <2>1, <3>1, MovePreserves DEF IInv, TypeOK
  <2> QED BY <2>2, <2>3
<1>9. ASSUME NEW r \in Runners, ReadFailed(r)
      PROVE  IInv'
  <2>1. /\ pc[r] = "failing" /\ batch[r] # <<>> /\ ~dead[r]
        /\ event' = event /\ handled' = handled /\ lapses' = lapses /\ drops' = drops
    BY <1>5, <1>9 DEF ReadFailed, IInv, RunnersOK
  <2>2. CASE Owns(r, event[Current(r)])
    <3>1. /\ dead' = [dead EXCEPT ![r] = Exhausted(event[Current(r)])]
          /\ pc' = [pc EXCEPT ![r] = "writing"] /\ batch' = batch
      BY <1>9, <2>2 DEF ReadFailed
    <3>2. Exhausted(event[Current(r)]) \in BOOLEAN
      BY DEF Exhausted
    <3>3. /\ dead' \in [Runners -> BOOLEAN] /\ dead'[r] = Exhausted(event[Current(r)])
          /\ \A q \in Runners \ {r} : dead'[q] = dead[q] /\ pc'[q] = pc[q]
          /\ pc'[r] = "writing"
          /\ pc' \in [Runners -> {"idle", "handling", "marking", "failing", "writing"}]
      BY <3>1, <3>2 DEF IInv, TypeOK
    <3>4. Exhausted(event[Current(r)])' <=> Exhausted(event[Current(r)])
      BY <2>1, <3>1 DEF Exhausted, Current
    <3> QED BY <1>6, <2>1, <3>1, <3>3, <3>4, MovePreserves DEF IInv, TypeOK
  <2>3. CASE ~Owns(r, event[Current(r)])
    <3>1. Abandon(r) /\ dead' = dead
      BY <1>9, <2>3 DEF ReadFailed
    <3>2. /\ batch' \in [Runners -> Seq(Events)] /\ Shrinks /\ pc'[r] = "idle"
          /\ \A q \in Runners \ {r} : batch'[q] = batch[q] /\ pc'[q] = pc[q]
      BY <3>1, AbandonShrinks DEF IInv
    <3>3. pc' \in [Runners -> {"idle", "handling", "marking", "failing", "writing"}]
      BY <3>1 DEF Abandon, IInv, TypeOK
    <3> QED BY <2>1, <3>1, <3>2, <3>3, MovePreserves DEF IInv, TypeOK
  <2> QED BY <2>2, <2>3
<1>10. ASSUME NEW r \in Runners, WriteFailed(r)
       PROVE  IInv'
  <2> DEFINE s   == IF dead[r] THEN "dead_letter" ELSE "pending"
             row == [Released(event[Current(r)]) EXCEPT !.status = s, !.due = FALSE]
  <2>1. /\ pc[r] = "writing" /\ Current(r) \in Events /\ event[Current(r)] \in RowType
        /\ event' = [event EXCEPT ![Current(r)] = row] /\ Advance(r)
        /\ dead' = [dead EXCEPT ![r] = FALSE]
        /\ handled' = handled /\ lapses' = lapses /\ drops' = drops
    BY <1>5, <1>10 DEF WriteFailed, IInv, TypeOK
  <2>2. s \in Status /\ s # "none"
    BY DEF Status
  <2> HIDE DEF s
  <2>3. row \in RowType /\ row.status # "none" /\ ~row.stale
        /\ row.attempts = event[Current(r)].attempts
    BY <2>1, <2>2, SettledRow
  <2> HIDE DEF row
  <2> QED BY <2>1, <2>3, ReportPreserves
<1>11. ASSUME NEW r \in Runners, Drop(r)
       PROVE  IInv'
  <2>1. /\ Abandon(r) /\ dead' = [dead EXCEPT ![r] = FALSE] /\ drops' = drops + 1
        /\ event' = event /\ handled' = handled /\ lapses' = lapses
    BY <1>11 DEF Drop
  <2>2. /\ batch' \in [Runners -> Seq(Events)] /\ Shrinks /\ pc'[r] = "idle"
        /\ \A q \in Runners \ {r} : batch'[q] = batch[q] /\ pc'[q] = pc[q]
    BY <2>1, AbandonShrinks DEF IInv
  <2>3. pc' \in [Runners -> {"idle", "handling", "marking", "failing", "writing"}]
    BY <2>1 DEF Abandon, IInv, TypeOK
  <2>4. /\ dead' \in [Runners -> BOOLEAN] /\ ~dead'[r] /\ drops' \in Nat
        /\ \A q \in Runners \ {r} : dead'[q] = dead[q]
    BY <2>1 DEF IInv, TypeOK
  <2> QED BY <2>1, <2>2, <2>3, <2>4, MovePreserves DEF IInv, TypeOK
<1>12. CASE UNCHANGED vars
  BY <1>12 DEF vars, IInv, TypeOK, RowsOK, RunnersOK, BatchesOK, ExclusiveUntilLapse,
               Current, Exhausted
<1>13. CASE Next
  BY <1>1, <1>2, <1>3, <1>4, <1>7, <1>8, <1>9, <1>10, <1>11, <1>13 DEF Next, Process
<1> QED BY <1>12, <1>13

\* The rows, the runners and their batches keep to the invariant, for any number of
\* events, publishers, attempts and lapses.
THEOREM Invariance == Spec => []IInv
<1>1. Init => IInv
  BY InitEstablishes, OutboxAssumption
<1>2. IInv /\ [Next]_vars => IInv'
  BY NextPreserves, OutboxAssumption
<1> QED BY <1>1, <1>2, PTL DEF Spec

\* Until a lease runs out under a runner, no two runners ever have the same event in
\* their batches, though the loop of the task worker and the publishers share its id.
THEOREM ClaimsAreExclusive == Spec => []ExclusiveUntilLapse
<1>1. IInv => ExclusiveUntilLapse
  BY DEF IInv
<1> QED BY <1>1, Invariance, PTL

-----------------------------------------------------------------------------
(* Outbox implements Delivery.                                             *)

\* A row that changes in one of these ways is a step of Delivery for its event.
RowStep(e) ==
    LET old == event[e]
        new == event'[e]
    IN  \/ new.status = old.status /\ new.attempts = old.attempts
        \/ old.status = "none" /\ new.status = "pending" /\ new.attempts = old.attempts
        \/ /\ old.status = "pending" \/ (old.status = "processing" /\ old.stale)
           /\ new.status = "processing" /\ ~new.stale /\ new.attempts = old.attempts + 1
        \/ /\ old.status = "processing" \/ (lapses > 0 /\ old.status # "none")
           /\ new.attempts = old.attempts
           /\ \/ new.status = "pending"
              \/ new.status = "dead_letter" /\ old.attempts >= MaxAttempts
        \/ /\ old.status = "processing" /\ e \in handled
           /\ new.status = "processed" /\ new.attempts = old.attempts

\* RowStep is a step of Delivery for the event, under the mapping of the states.
LEMMA RowStepRefines ==
    ASSUME TypeOK, TypeOK', NEW e \in Events, RowStep(e)
    PROVE  Promise!Step(e)
<1>1. event[e].status \in Status /\ event'[e].status \in Status
  BY DEF TypeOK, RowType
<1> QED BY <1>1 DEF RowStep, Status, Phase, Promise!Step, Promise!Becomes, Promise!Publish,
                    Promise!Take, Promise!Return, Promise!Deliver, Promise!GiveUp,
                    Promise!ReportLate

\* The empty outbox is the initial state of Delivery.
LEMMA InitRefines ==
    ASSUME Init
    PROVE  Promise!Init
BY DEF Init, NoEvent, Phase, Promise!Init

\* The events, the leases and the handlers, each on its own.
LEMMA PartsRefine ==
    ASSUME TypeOK, TypeOK', \A e \in Events : RowStep(e),
           \A e \in Events : event'[e].stale /\ ~event[e].stale => event[e].status = "processing",
           handled \subseteq handled',
           \A e \in handled' \ handled :
               e \in Events /\ (event[e].status = "processing" \/ lapses > 0),
           lapses' >= lapses
    PROVE  Promise!Next
<1>1. \A e \in Events : Promise!Step(e)
  BY RowStepRefines
<1>2. \A e \in handled' \ handled : Promise!Handles(e)
  BY DEF Promise!Handles, Phase
<1>3. \A e \in {f \in Events : event'[f].stale} \ {f \in Events : event[f].stale} :
          Phase(event[e]) = "taken"
  BY DEF Phase
<1>4. (lapses > 0) => (lapses' > 0)
  BY DEF TypeOK
<1> QED BY <1>1, <1>2, <1>3, <1>4 DEF Promise!Next

\* A step that writes one row, and lets no lease run out.
LEMMA OneRow ==
    ASSUME TypeOK, TypeOK', NEW c \in Events, NEW row,
           event' = [event EXCEPT ![c] = row], RowStep(c),
           row.stale => event[c].stale,
           handled' = handled, lapses' = lapses
    PROVE  Promise!Next
<1>1. event'[c] = row /\ \A e \in Events \ {c} : event'[e] = event[e]
  BY DEF TypeOK
<1>2. \A e \in Events : RowStep(e)
  BY <1>1 DEF RowStep
<1>3. \A e \in Events : event'[e].stale => event[e].stale
  BY <1>1
<1> QED BY <1>2, <1>3, PartsRefine DEF TypeOK

\* A step that writes no row is a stutter of every event.
LEMMA NoRow ==
    ASSUME TypeOK, TypeOK', event' = event, handled \subseteq handled',
           \A e \in handled' \ handled :
               e \in Events /\ (event[e].status = "processing" \/ lapses > 0),
           lapses' = lapses
    PROVE  Promise!Next
<1>1. \A e \in Events : RowStep(e)
  BY DEF RowStep
<1> QED BY <1>1, PartsRefine DEF TypeOK

\* Every step of the outbox is a step of Delivery, or changes nothing it can see.
LEMMA NextRefines ==
    ASSUME OutboxAssumption, IInv, IInv', [Next]_vars
    PROVE  [Promise!Next]_(Promise!vars)
<1> USE DEF IInv
<1>1. ASSUME NEW e \in Events, NEW kind \in Kinds, Enqueue(e, kind)
      PROVE  Promise!Next
  <2> DEFINE row == [NoEvent EXCEPT !.kind = kind, !.status = "pending", !.due = TRUE]
  <2>1. row.status = "pending" /\ row.attempts = 0 /\ ~row.stale
    BY DEF NoEvent
  <2>2. /\ event' = [event EXCEPT ![e] = row]
        /\ event[e].status = "none" /\ event[e].attempts = 0
        /\ handled' = handled /\ lapses' = lapses
    BY <1>1 DEF Enqueue, RowsOK
  <2> HIDE DEF row
  <2>3. event'[e] = row
    BY <2>2 DEF TypeOK
  <2>4. RowStep(e)
    BY <2>1, <2>2, <2>3 DEF RowStep
  <2> QED BY <2>1, <2>2, <2>4, OneRow
<1>2. ASSUME NEW e \in Events, Lapse(e)
      PROVE  Promise!Next
  <2> DEFINE row == [event[e] EXCEPT !.stale = TRUE]
  <2>1. /\ row.status = event[e].status /\ row.attempts = event[e].attempts
        /\ event[e].status = "processing"
    BY <1>2 DEF Lapse, TypeOK, RowType
  <2>2. event' = [event EXCEPT ![e] = row] /\ handled' = handled /\ lapses' >= lapses
    BY <1>2 DEF Lapse, TypeOK
  <2> HIDE DEF row
  <2>3. event'[e] = row /\ \A f \in Events \ {e} : event'[f] = event[f]
    BY <2>2 DEF TypeOK
  <2>4. \A f \in Events : RowStep(f)
    BY <2>1, <2>3 DEF RowStep
  <2>5. \A f \in Events : event'[f].stale /\ ~event[f].stale => event[f].status = "processing"
    BY <2>1, <2>3
  <2> QED BY <2>2, <2>4, <2>5, PartsRefine
<1>3. ASSUME NEW e \in Events, RetryDue(e)
      PROVE  Promise!Next
  <2> DEFINE row == [event[e] EXCEPT !.due = TRUE]
  <2>1. /\ row.status = event[e].status /\ row.attempts = event[e].attempts
        /\ row.stale = event[e].stale
    BY <1>3 DEF TypeOK, RowType
  <2>2. /\ event' = [event EXCEPT ![e] = row]
        /\ handled' = handled /\ lapses' = lapses
    BY <1>3 DEF RetryDue
  <2> HIDE DEF row
  <2>3. event'[e] = row
    BY <2>2 DEF TypeOK
  <2>4. RowStep(e)
    BY <2>1, <2>3 DEF RowStep
  <2> QED BY <2>1, <2>2, <2>4, OneRow
<1>4. ASSUME NEW r \in Runners, Claim(r)
      PROVE  Promise!Next
  <2>1. handled' = handled /\ lapses' = lapses
    BY <1>4 DEF Claim
  <2>2. \A e \in Events :
            /\ ~event'[e].stale
            /\ \/ event'[e] = event[e]
               \/ /\ event[e].status = "processing" /\ event[e].stale
                  /\ event'[e].status = "pending"
                  /\ event'[e].attempts = event[e].attempts
               \/ /\ event[e].status = "pending" \/ event[e].stale
                  /\ event'[e].status = "processing"
                  /\ event'[e].attempts = event[e].attempts + 1
    BY <1>4, ClaimStep
  <2>3. \A e \in Events : RowStep(e)
    BY <2>2 DEF RowStep, RowsOK
  <2> QED BY <2>1, <2>2, <2>3, PartsRefine DEF TypeOK
<1>5. ASSUME NEW r \in Runners, pc[r] # "idle"
      PROVE  /\ Current(r) \in Events
             /\ event[Current(r)].status # "none"
             /\ event[Current(r)].status = "processing" \/ lapses > 0
  <2>1. batch[r] \in Seq(Events) /\ batch[r] # <<>>
    BY <1>5 DEF RunnersOK, TypeOK
  <2>2. 1 \in 1 .. Len(batch[r]) /\ Current(r) = batch[r][1] /\ Current(r) \in Events
    BY <2>1 DEF Current
  <2> QED BY <2>2 DEF BatchesOK, TypeOK
<1>6. ASSUME NEW r \in Runners, Handle(r)
      PROVE  Promise!Next
  <2>1. /\ pc[r] = "handling" /\ event' = event /\ lapses' = lapses
        /\ handled' = handled \/ handled' = handled \cup {Current(r)}
    BY <1>6 DEF Handle
  <2> QED BY <1>5, <2>1, NoRow
<1>7. ASSUME NEW r \in Runners, MarkProcessed(r)
      PROVE  Promise!Next
  <2>1. /\ pc[r] = "marking" /\ Current(r) \in Events /\ Current(r) \in handled
        /\ handled' = handled /\ lapses' = lapses
    BY <1>5, <1>7 DEF MarkProcessed, RunnersOK
  <2>2. CASE Owns(r, event[Current(r)])
    <3> DEFINE free == Released(event[Current(r)])
               row  == [free EXCEPT !.status = "processed"]
    <3>1. free \in RowType /\ ~free.stale /\ free.attempts = event[Current(r)].attempts
      BY <2>1, ReleasedRow DEF TypeOK
    <3>2. event' = [event EXCEPT ![Current(r)] = row]
      BY <1>7, <2>2 DEF MarkProcessed
    <3> HIDE DEF free
    <3>3. row.status = "processed" /\ ~row.stale /\ row.attempts = event[Current(r)].attempts
      BY <3>1 DEF RowType
    <3> HIDE DEF row
    <3>4. event'[Current(r)] = row
      BY <2>1, <3>2 DEF TypeOK
    <3>5. RowStep(Current(r))
      BY <2>1, <2>2, <3>3, <3>4 DEF RowStep, Owns
    <3> QED BY <2>1, <3>2, <3>3, <3>5, OneRow
  <2>3. CASE ~Owns(r, event[Current(r)])
    <3>1. event' = event
      BY <1>7, <2>3 DEF MarkProcessed
    <3> QED BY <2>1, <3>1, NoRow
  <2> QED BY <2>2, <2>3
<1>8. ASSUME NEW r \in Runners, ReadFailed(r)
      PROVE  Promise!Next
  BY <1>8, NoRow DEF ReadFailed
<1>9. ASSUME NEW r \in Runners, WriteFailed(r)
      PROVE  Promise!Next
  <2> DEFINE s   == IF dead[r] THEN "dead_letter" ELSE "pending"
             row == [Released(event[Current(r)]) EXCEPT !.status = s, !.due = FALSE]
  <2>1. /\ pc[r] = "writing" /\ Current(r) \in Events /\ event[Current(r)] \in RowType
        /\ event' = [event EXCEPT ![Current(r)] = row]
        /\ handled' = handled /\ lapses' = lapses
    BY <1>5, <1>9 DEF WriteFailed, TypeOK
  <2>2. s \in Status /\ (s = "pending" \/ (s = "dead_letter" /\ dead[r]))
    BY DEF Status
  <2> HIDE DEF s
  <2>3. row.status = s /\ ~row.stale /\ row.attempts = event[Current(r)].attempts
    BY <2>1, <2>2, SettledRow
  <2> HIDE DEF row
  <2>4. event'[Current(r)] = row
    BY <2>1 DEF TypeOK
  <2>5. dead[r] => event[Current(r)].attempts >= MaxAttempts
    BY DEF RunnersOK, Exhausted
  <2>6. RowStep(Current(r))
    BY <1>5, <2>1, <2>2, <2>3, <2>4, <2>5 DEF RowStep
  <2> QED BY <2>1, <2>3, <2>6, OneRow
<1>10. ASSUME NEW r \in Runners, Drop(r)
       PROVE  Promise!Next
  BY <1>10, NoRow DEF Drop
<1>11. CASE UNCHANGED vars
  BY <1>11 DEF vars, Phase, Promise!vars
<1>12. CASE Next
  BY <1>1, <1>2, <1>3, <1>4, <1>6, <1>7, <1>8, <1>9, <1>10, <1>12 DEF Next, Process
<1> QED BY <1>11, <1>12

\* The outbox implements Delivery, for any number of events and publishers and under any
\* interleaving of claims, reports, lapsed leases and dropped batches: at least one handler
\* completed for what is processed, what is given up has used its attempts, and a
\* settled event is reopened only by a handler that has overrun its lease.
THEOREM OutboxIsADelivery == Spec => ImplementsDelivery
<1>1. Init => Promise!Init
  BY InitRefines
<1>2. IInv /\ IInv' /\ [Next]_vars => [Promise!Next]_(Promise!vars)
  BY NextRefines, OutboxAssumption
<1> QED BY <1>1, <1>2, Invariance, PTL DEF Spec, ImplementsDelivery, Promise!Spec
=============================================================================
