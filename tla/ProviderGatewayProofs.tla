----------------------- MODULE ProviderGatewayProofs -----------------------
(* Proofs about ProviderGateway, for any runs, targets and budgets.        *)
EXTENDS ProviderGateway, FiniteSetTheorems, SequenceTheorems, WellFoundedInduction, TLAPS

\* The target that is tried first of some plans.
TargetOf(P) == CHOOSE t \in P : \A u \in P : t <= u

\* A call is under way.
InCall == {"created", "attempting", "acquiring"} \cup Streaming

\* Nothing was said yet, or the stream is over.
Silent == {"idle", "done", "planned", "created", "attempting", "acquiring", "starting", "started"}

\* An attempt has its row and is not finished.
InAttempt == {"started", "streaming", "failing"}

PlaceOK(s) ==
    /\ s.plans = {} <=> s.pc \in {"idle", "done"}
    /\ s.pc \in Silent => ~s.output
    /\ s.pc = "created" => s.attempt = 0
    /\ s.pc = "attempting" => s.attempt < MaxAttempts

\* What was said in this stream was said by the newest attempt of the run.
SpeakersOK(s, tries) ==
    /\ s.speakers \subseteq {Len(tries)}
    /\ s.output <=> s.speakers # {}

\* The newest call is that of the stream, and its row tells what was said.
LastOK(s, cs) ==
    s.pc \in InCall \cup {"failed"} =>
        /\ Len(cs) > 0
        /\ cs[Len(cs)].target = TargetOf(s.plans)
        /\ cs[Len(cs)].output = s.output
        /\ s.pc \in {"created", "attempting", "acquiring", "starting"} =>
               cs[Len(cs)].status \in {"planned", "retrying"}
        /\ s.pc \in InAttempt \cup {"recording", "recorded", "completing"} =>
               cs[Len(cs)].status = "running"
        /\ s.pc = "failed" /\ ~s.output /\ s.error \in FallbackOn =>
               cs[Len(cs)].status = "failed"

\* A fallback starts from the newest call, which failed, and goes forward.
PlannedOK(s, cs) ==
    s.pc = "planned" /\ s.from # 0 =>
        /\ s.from = Len(cs)
        /\ cs[s.from].status = "failed"
        /\ \A t \in s.plans : cs[s.from].target < t

\* One run's part of LedgerTellsCauses.
LedgerOK(cs) ==
    \A i \in 1 .. Len(cs) :
        /\ cs[i].status = "failed" => ~cs[i].output
        /\ cs[i].status = "interrupted" => cs[i].output
        /\ cs[i].from # 0 => /\ cs[i].from < i
                             /\ cs[cs[i].from].status = "failed"
                             /\ cs[cs[i].from].target < cs[i].target

\* One run's part of RunningIsReal.
RunningOK(s, cs, tries) ==
    /\ \A i \in 1 .. Len(cs) : cs[i].status = "running" =>
           i = Len(cs) /\ s.pc \in Streaming \ {"starting", "succeeded"}
    /\ \A i \in 1 .. Len(tries) : tries[i].status = "running" =>
           /\ i = Len(tries)
           /\ s.pc \in InAttempt \/ (s.pc = "done" /\ cs[tries[i].call].status = "cancelled")
    /\ s.pc \in InAttempt => Len(tries) > 0 /\ tries[Len(tries)].call = Len(cs)

\* An attempt that was granted and has no row yet.
Ahead(s) == IF s.pc \in {"acquiring", "starting"} THEN 1 ELSE 0

AttemptsOf(tries, i) == {a \in 1 .. Len(tries) : tries[a].call = i}

BudgetOK(s, cs, tries) ==
    /\ Len(tries) + s.budget + Ahead(s) <= RouteAttempts * s.begun
    /\ Len(tries) + Ahead(s) <= RunAttempts
    /\ \A a \in 1 .. Len(tries) : tries[a].call <= Len(cs)
    /\ \A i \in 1 .. Len(cs) : Cardinality(AttemptsOf(tries, i)) <= MaxAttempts
    /\ s.pc \in InCall => Cardinality(AttemptsOf(tries, Len(cs))) + Ahead(s) <= s.attempt

RunOK(s, cs, tries) ==
    /\ PlaceOK(s) /\ SpeakersOK(s, tries) /\ LastOK(s, cs) /\ PlannedOK(s, cs)
    /\ LedgerOK(cs) /\ RunningOK(s, cs, tries) /\ BudgetOK(s, cs, tries)

\* An attempt that its circuit has let in and not been told of, nor opened under.
Probes(s) == s.pc \in Streaming \ {"recorded"} /\ ~s.late

CircuitOK(t) ==
    /\ circuit[t].status = "open" =>
           \A r \in Runs : Probes(stream[r]) => TargetOf(stream[r].plans) # t
    /\ circuit[t].status = "half_open" =>
           \A q, r \in Runs :
               /\ Probes(stream[q]) /\ TargetOf(stream[q].plans) = t
               /\ Probes(stream[r]) /\ TargetOf(stream[r].plans) = t
               => q = r

\* The inductive invariant.
IInv ==
    /\ TypeOK
    /\ \A r \in Runs : RunOK(stream[r], calls[r], attempts[r])
    /\ \A t \in Targets : CircuitOK(t)
-----------------------------------------------------------------------------
(* Targets, rows and the attempts of a call.                               *)

\* The budgets are positive numbers.
LEMMA Numbers ==
    ASSUME GatewayAssumption
    PROVE  /\ NTargets \in Nat /\ MaxAttempts \in Nat \ {0} /\ RouteAttempts \in Nat \ {0}
           /\ RunAttempts \in Nat \ {0} /\ RunCalls \in Nat \ {0} /\ Threshold \in Nat \ {0}
           /\ Targets \subseteq Nat \ {0}
  BY DEF GatewayAssumption, Targets

\* Plans have a first target, so the choice of Target is one of them.
LEMMA FirstTarget ==
    ASSUME GatewayAssumption, NEW P \in SUBSET Targets, P # {}
    PROVE  TargetOf(P) \in P /\ \A u \in P : TargetOf(P) <= u
<1>1. P \subseteq Nat
  BY Numbers
<1>2. PICK x \in P : \A y \in P : <<y, x>> \notin OpToRel(<, Nat)
  BY <1>1, WFMin, NatLessThanWellFounded, Zenon
<1>3. \A y \in P : <<y, x>> \in Nat \X Nat /\ ~(<<y, x>>[1] < <<y, x>>[2])
  BY <1>1, <1>2, Zenon DEF OpToRel
<1>4. ASSUME NEW y \in P PROVE x <= y
  <2>1. <<y, x>>[1] = y /\ <<y, x>>[2] = x
    OBVIOUS
  <2>2. ~(y < x)
    BY <1>3, <2>1
  <2> QED BY <1>1, <2>2
<1>5. \E y \in P : \A u \in P : y <= u
  BY <1>4
<1> QED BY <1>5 DEF TargetOf

\* The newest row of a ledger is written, with the target and the source it has.
LEMMA LastRow ==
    ASSUME NEW cs \in Seq(CallType), Len(cs) > 0, LedgerOK(cs), NEW row \in CallType,
           row.target = cs[Len(cs)].target, row.from = cs[Len(cs)].from,
           row.status = "failed" => ~row.output, row.status = "interrupted" => row.output,
           NEW ds, ds = [cs EXCEPT ![Len(cs)] = row]
    PROVE  /\ ds \in Seq(CallType) /\ Len(ds) = Len(cs) /\ ds[Len(cs)] = row
           /\ \A i \in 1 .. Len(cs) : i # Len(cs) => ds[i] = cs[i]
           /\ LedgerOK(ds)
<1>1. Len(cs) \in 1 .. Len(cs) /\ Len(cs) \in Nat
  BY LenProperties
<1>2. /\ ds \in Seq(CallType) /\ Len(ds) = Len(cs)
      /\ \A j \in 1 .. Len(cs) : ds[j] = IF j = Len(cs) THEN row ELSE cs[j]
  BY <1>1, ExceptSeq
<1>3. ASSUME NEW i \in 1 .. Len(cs)
      PROVE  /\ ds[i].status = "failed" => ~ds[i].output
             /\ ds[i].status = "interrupted" => ds[i].output
             /\ ds[i].from # 0 => /\ ds[i].from < i
                                  /\ ds[ds[i].from].status = "failed"
                                  /\ ds[ds[i].from].target < ds[i].target
  <2>1. ds[i].from = cs[i].from /\ ds[i].target = cs[i].target
    BY <1>2
  <2>2. /\ ds[i].status = "failed" => ~ds[i].output
        /\ ds[i].status = "interrupted" => ds[i].output
    BY <1>2 DEF LedgerOK
  <2>3. ASSUME ds[i].from # 0
        PROVE  /\ ds[i].from < i
               /\ ds[ds[i].from].status = "failed"
               /\ ds[ds[i].from].target < ds[i].target
    <3>1. cs[i].from < i /\ cs[cs[i].from].status = "failed" /\ cs[cs[i].from].target < cs[i].target
      BY <2>1, <2>3 DEF LedgerOK
    <3>2. cs[i].from \in Nat
      <4>1. cs[i] \in CallType
        BY ElementOfSeq
      <4> QED BY <4>1 DEF CallType
    <3>3. cs[i].from \in 1 .. Len(cs) /\ cs[i].from # Len(cs)
      BY <1>1, <2>1, <2>3, <3>1, <3>2
    <3>4. ds[cs[i].from] = cs[cs[i].from]
      BY <1>2, <3>3
    <3> QED BY <2>1, <3>1, <3>4
  <2> QED BY <2>2, <2>3
<1>4. LedgerOK(ds)
  BY <1>2, <1>3 DEF LedgerOK
<1> QED BY <1>1, <1>2, <1>4

\* A call is added.  Its source, if it has one, is an earlier call that failed.
LEMMA NewRow ==
    ASSUME NEW cs \in Seq(CallType), LedgerOK(cs), NEW row \in CallType, ~row.output,
           row.status \in {"planned", "failed"},
           row.from # 0 => /\ row.from <= Len(cs)
                           /\ cs[row.from].status = "failed"
                           /\ cs[row.from].target < row.target,
           NEW ds, ds = Append(cs, row)
    PROVE  /\ ds \in Seq(CallType) /\ Len(ds) = Len(cs) + 1 /\ ds[Len(cs) + 1] = row
           /\ \A i \in 1 .. Len(cs) : ds[i] = cs[i]
           /\ LedgerOK(ds)
<1>1. /\ Len(cs) \in Nat /\ ds \in Seq(CallType) /\ Len(ds) = Len(cs) + 1
      /\ ds[Len(cs) + 1] = row /\ \A i \in 1 .. Len(cs) : ds[i] = cs[i]
  BY LenProperties, AppendProperties
<1>2. ASSUME NEW i \in 1 .. Len(ds)
      PROVE  /\ ds[i].status = "failed" => ~ds[i].output
             /\ ds[i].status = "interrupted" => ds[i].output
             /\ ds[i].from # 0 => /\ ds[i].from < i
                                  /\ ds[ds[i].from].status = "failed"
                                  /\ ds[ds[i].from].target < ds[i].target
  <2>1. CASE i \in 1 .. Len(cs)
    <3>1. ds[i] = cs[i] /\ cs[i].from \in Nat
      <4>1. ds[i] = cs[i] /\ cs[i] \in CallType
        BY <1>1, <2>1, ElementOfSeq
      <4> QED BY <4>1 DEF CallType
    <3>2. cs[i].from # 0 => cs[i].from \in 1 .. Len(cs)
      BY <1>1, <2>1, <3>1 DEF LedgerOK
    <3>3. cs[i].from # 0 => ds[cs[i].from] = cs[cs[i].from]
      BY <1>1, <3>2
    <3> QED BY <2>1, <3>1, <3>3 DEF LedgerOK
  <2>2. CASE i = Len(cs) + 1
    <3>1. ds[i] = row /\ row.from \in Nat
      BY <1>1, <2>2 DEF CallType
    <3>2. row.from # 0 => row.from \in 1 .. Len(cs) /\ ds[row.from] = cs[row.from]
      BY <1>1, <3>1
    <3> QED BY <1>1, <2>2, <3>1, <3>2
  <2>3. i \in 1 .. Len(cs) \/ i = Len(cs) + 1
    BY <1>1
  <2> QED BY <2>1, <2>2, <2>3
<1>3. LedgerOK(ds)
  BY <1>2 DEF LedgerOK
<1> QED BY <1>1, <1>3

\* The attempts of a call are finitely many.
LEMMA AttemptsFinite ==
    ASSUME NEW tries \in Seq(AttemptType), NEW i
    PROVE  IsFiniteSet(AttemptsOf(tries, i)) /\ Cardinality(AttemptsOf(tries, i)) \in Nat
<1>1. IsFiniteSet(1 .. Len(tries))
  BY LenProperties, FS_Interval
<1>2. AttemptsOf(tries, i) \in SUBSET (1 .. Len(tries))
  BY DEF AttemptsOf
<1>3. IsFiniteSet(AttemptsOf(tries, i))
  BY <1>1, <1>2, FS_Subset
<1> QED BY <1>3, FS_CardinalityType

\* The newest attempt is finished: it stays where it was counted.
LEMMA AttemptFinished ==
    ASSUME NEW tries \in Seq(AttemptType), Len(tries) > 0, NEW row \in AttemptType,
           row.call = tries[Len(tries)].call, NEW more, more = [tries EXCEPT ![Len(tries)] = row]
    PROVE  /\ more \in Seq(AttemptType) /\ Len(more) = Len(tries) /\ more[Len(tries)] = row
           /\ \A a \in 1 .. Len(tries) : more[a].call = tries[a].call
           /\ \A a \in 1 .. Len(tries) : a # Len(tries) => more[a] = tries[a]
           /\ \A i : AttemptsOf(more, i) = AttemptsOf(tries, i)
<1>1. Len(tries) \in 1 .. Len(tries) /\ Len(tries) \in Nat
  BY LenProperties
<1>2. /\ more \in Seq(AttemptType) /\ Len(more) = Len(tries)
      /\ \A j \in 1 .. Len(tries) : more[j] = IF j = Len(tries) THEN row ELSE tries[j]
  BY <1>1, ExceptSeq
<1>3. \A a \in 1 .. Len(tries) : more[a].call = tries[a].call
  BY <1>2
<1>4. \A i : AttemptsOf(more, i) = AttemptsOf(tries, i)
  BY <1>2, <1>3 DEF AttemptsOf
<1> QED BY <1>1, <1>2, <1>3, <1>4

\* An attempt begins: it is one more of the newest call.
LEMMA AttemptBegun ==
    ASSUME NEW tries \in Seq(AttemptType), NEW c \in Nat, NEW more,
           more = Append(tries, [call |-> c, status |-> "running"])
    PROVE  /\ more \in Seq(AttemptType) /\ Len(more) = Len(tries) + 1
           /\ more[Len(tries) + 1] = [call |-> c, status |-> "running"]
           /\ \A a \in 1 .. Len(tries) : more[a] = tries[a]
           /\ \A i : i # c => AttemptsOf(more, i) = AttemptsOf(tries, i)
           /\ Cardinality(AttemptsOf(more, c)) = Cardinality(AttemptsOf(tries, c)) + 1
<1> DEFINE row == [call |-> c, status |-> "running"]
<1>1. row \in AttemptType /\ row.call = c
  BY DEF AttemptType
<1> HIDE DEF row
<1>2. /\ Len(tries) \in Nat /\ more \in Seq(AttemptType) /\ Len(more) = Len(tries) + 1
      /\ more[Len(tries) + 1] = row /\ \A a \in 1 .. Len(tries) : more[a] = tries[a]
  <2>1. more = Append(tries, row)
    BY DEF row
  <2> QED BY <1>1, <2>1, LenProperties, AppendProperties
<1>4. \A i : i # c => AttemptsOf(more, i) = AttemptsOf(tries, i)
  BY <1>1, <1>2 DEF AttemptsOf
<1>5. AttemptsOf(more, c) = AttemptsOf(tries, c) \cup {Len(tries) + 1}
  BY <1>1, <1>2 DEF AttemptsOf
<1>6. Len(tries) + 1 \notin AttemptsOf(tries, c)
  BY <1>2 DEF AttemptsOf
<1>7. Cardinality(AttemptsOf(more, c)) = Cardinality(AttemptsOf(tries, c)) + 1
  BY <1>5, <1>6, AttemptsFinite, FS_AddElement
<1> QED BY <1>2, <1>4, <1>7 DEF row

-----------------------------------------------------------------------------
(* A step of one run.                                                      *)

\* What the steps of one run have in common: the rows of the other runs stay.
LEMMA RunRows ==
    ASSUME IInv, NEW r \in Runs, NEW s \in StreamType, NEW cs \in Seq(CallType),
           NEW tries \in Seq(AttemptType), RunOK(s, cs, tries),
           stream' = [stream EXCEPT ![r] = s], calls' = [calls EXCEPT ![r] = cs],
           attempts' = [attempts EXCEPT ![r] = tries], state' \in [Runs -> SUBSET Targets],
           circuit' \in [Targets -> CircuitType]
    PROVE  /\ TypeOK'
           /\ \A q \in Runs : RunOK(stream'[q], calls'[q], attempts'[q])
           /\ \A q \in Runs : stream'[q] = IF q = r THEN s ELSE stream[q]
<1>1. TypeOK /\ TypeOK'
  BY DEF IInv, TypeOK
<1>2. \A q \in Runs : /\ stream'[q] = IF q = r THEN s ELSE stream[q]
                      /\ calls'[q] = IF q = r THEN cs ELSE calls[q]
                      /\ attempts'[q] = IF q = r THEN tries ELSE attempts[q]
  BY <1>1 DEF TypeOK
<1>3. \A q \in Runs : RunOK(stream'[q], calls'[q], attempts'[q])
  BY <1>2 DEF IInv
<1> QED BY <1>1, <1>2, <1>3

\* A step of one run that touches no circuit, and lets no attempt in.
LEMMA OneRun ==
    ASSUME IInv, NEW r \in Runs, NEW s \in StreamType, NEW cs \in Seq(CallType),
           NEW tries \in Seq(AttemptType), RunOK(s, cs, tries),
           stream' = [stream EXCEPT ![r] = s], calls' = [calls EXCEPT ![r] = cs],
           attempts' = [attempts EXCEPT ![r] = tries], state' \in [Runs -> SUBSET Targets],
           UNCHANGED circuit,
           Probes(s) => Probes(stream[r]) /\ s.plans = stream[r].plans
    PROVE  IInv'
<1>1. circuit' \in [Targets -> CircuitType]
  BY DEF IInv, TypeOK
<1>2. /\ TypeOK' /\ \A q \in Runs : RunOK(stream'[q], calls'[q], attempts'[q])
      /\ \A q \in Runs : stream'[q] = IF q = r THEN s ELSE stream[q]
  BY <1>1, RunRows
<1>4. \A q \in Runs : Probes(stream'[q]) =>
          Probes(stream[q]) /\ TargetOf(stream'[q].plans) = TargetOf(stream[q].plans)
  BY <1>2
<1>5. \A t \in Targets : CircuitOK(t)'
  BY <1>4 DEF IInv, CircuitOK
<1> QED BY <1>2, <1>5 DEF IInv

\* What finish_llm_call makes of a status: one that is open is ended.
Ends(old, status) == IF Open(old) THEN status ELSE old

Finished(cs, status) == [cs[Len(cs)] EXCEPT !.status = Ends(cs[Len(cs)].status, status)]

\* FinishCall writes the newest row of the run's calls.
LEMMA FinishCallRow ==
    ASSUME NEW r \in Runs, NEW status, FinishCall(r, status)
    PROVE  calls' = [calls EXCEPT ![r] =
                        [calls[r] EXCEPT ![Len(calls[r])] = Finished(calls[r], status)]]
<1> DEFINE e == Ends(calls[r][Len(calls[r])].status, status)
<1>1. e = IF Open(calls[r][Len(calls[r])].status) THEN status
          ELSE calls[r][Len(calls[r])].status
  BY Zenon DEF Ends
<1>2. calls' = [calls EXCEPT ![r][Len(calls[r])].status = e]
  BY <1>1, Zenon DEF FinishCall
<1> HIDE DEF e
<1>3. calls' = [calls EXCEPT ![r] = [calls[r] EXCEPT ![Len(calls[r])] =
                   [calls[r][Len(calls[r])] EXCEPT !.status = e]]]
  BY <1>2
<1> QED BY <1>3, Zenon DEF e, Finished

\* Only the status of the row changes, and only when it is open.
LEMMA FinishedType ==
    ASSUME NEW cs \in Seq(CallType), Len(cs) > 0,
           NEW status \in {"completed", "failed", "interrupted", "cancelled"},
           NEW row, row = Finished(cs, status)
    PROVE  /\ row \in CallType /\ row.target = cs[Len(cs)].target
           /\ row.from = cs[Len(cs)].from /\ row.output = cs[Len(cs)].output
           /\ row.status = IF cs[Len(cs)].status \in {"planned", "running", "retrying"}
                           THEN status ELSE cs[Len(cs)].status
<1> DEFINE old == cs[Len(cs)]
           e == Ends(old.status, status)
<1>1. old \in CallType
  BY LenProperties, ElementOfSeq
<1>2. e = IF old.status \in {"planned", "running", "retrying"} THEN status ELSE old.status
  BY DEF Ends, Open
<1>3. row = [old EXCEPT !.status = e]
  BY Zenon DEF Finished
<1>4. e \in {"planned", "running", "retrying", "completed", "failed", "interrupted", "cancelled"}
  BY <1>1, <1>2 DEF CallType
<1> HIDE DEF old, e
<1>5. /\ row \in CallType /\ row.target = old.target /\ row.from = old.from
      /\ row.output = old.output /\ row.status = e
  BY <1>1, <1>3, <1>4 DEF CallType
<1> QED BY <1>2, <1>5 DEF old

\* What a run has.
LEMMA RunFacts ==
    ASSUME IInv, NEW r \in Runs
    PROVE  /\ stream[r] \in StreamType /\ calls[r] \in Seq(CallType)
           /\ attempts[r] \in Seq(AttemptType) /\ RunOK(stream[r], calls[r], attempts[r])
           /\ Len(calls[r]) \in Nat /\ Len(attempts[r]) \in Nat
           /\ stream = [stream EXCEPT ![r] = stream[r]]
           /\ calls = [calls EXCEPT ![r] = calls[r]]
           /\ attempts = [attempts EXCEPT ![r] = attempts[r]]
           /\ state \in [Runs -> SUBSET Targets] /\ circuit \in [Targets -> CircuitType]
  BY LenProperties DEF IInv, TypeOK

\* Inside a call, finish_llm_call changes the status of the newest row only.
LEMMA FinishCallStep ==
    ASSUME IInv, NEW r \in Runs, stream[r].pc \in InCall,
           NEW status \in {"completed", "failed", "interrupted", "cancelled"},
           status = "failed" => ~stream[r].output, status = "interrupted" => stream[r].output,
           FinishCall(r, status)
    PROVE  \E ds \in Seq(CallType) :
               /\ calls' = [calls EXCEPT ![r] = ds] /\ Len(ds) = Len(calls[r]) /\ LedgerOK(ds)
               /\ ds[Len(ds)].target = TargetOf(stream[r].plans)
               /\ ds[Len(ds)].output = stream[r].output
               /\ calls[r][Len(ds)].status \in {"planned", "running", "retrying"} =>
                      ds[Len(ds)].status = status
               /\ \A i \in 1 .. Len(ds) : ds[i].status # "running"
<1> DEFINE cs == calls[r]
           row == Finished(cs, status)
           ds == [cs EXCEPT ![Len(cs)] = row]
<1>1. /\ cs \in Seq(CallType) /\ Len(cs) \in Nat /\ RunOK(stream[r], cs, attempts[r])
      /\ calls' = [calls EXCEPT ![r] = ds]
  BY RunFacts, FinishCallRow
<1>2. /\ Len(cs) > 0 /\ LedgerOK(cs) /\ cs[Len(cs)].output = stream[r].output
      /\ cs[Len(cs)].target = TargetOf(stream[r].plans)
  BY <1>1 DEF RunOK, LastOK
<1> HIDE DEF cs
<1>3. /\ row \in CallType /\ row.target = cs[Len(cs)].target /\ row.from = cs[Len(cs)].from
      /\ row.output = cs[Len(cs)].output
      /\ row.status = IF cs[Len(cs)].status \in {"planned", "running", "retrying"}
                      THEN status ELSE cs[Len(cs)].status
  BY <1>1, <1>2, FinishedType
<1>4. cs[Len(cs)].status = "failed" => ~cs[Len(cs)].output
  BY <1>1, <1>2 DEF LedgerOK
<1>5. cs[Len(cs)].status = "interrupted" => cs[Len(cs)].output
  BY <1>1, <1>2 DEF LedgerOK
<1> HIDE DEF row
<1>6. /\ ds \in Seq(CallType) /\ Len(ds) = Len(cs) /\ ds[Len(cs)] = row
      /\ \A i \in 1 .. Len(cs) : i # Len(cs) => ds[i] = cs[i]
      /\ LedgerOK(ds)
  BY <1>1, <1>2, <1>3, <1>4, <1>5, LastRow
<1> HIDE DEF ds
<1>7. \A i \in 1 .. Len(cs) : ds[i].status # "running"
  <2>1. \A i \in 1 .. Len(cs) : i # Len(cs) => cs[i].status # "running"
    BY <1>1 DEF RunOK, RunningOK
  <2> QED BY <1>3, <1>6, <2>1
<1> QED BY <1>1, <1>2, <1>3, <1>6, <1>7 DEF cs

\* finish_llm_attempt changes the status of the newest attempt only.
LEMMA FinishAttemptStep ==
    ASSUME IInv, NEW r \in Runs, stream[r].pc \in {"streaming", "failing"},
           NEW status \in {"completed", "failed", "interrupted", "cancelled"},
           FinishAttempt(r, status)
    PROVE  \E more \in Seq(AttemptType) :
               /\ attempts' = [attempts EXCEPT ![r] = more] /\ Len(more) = Len(attempts[r])
               /\ \A a \in 1 .. Len(more) : /\ more[a].call = attempts[r][a].call
                                            /\ more[a].status # "running"
               /\ \A i : AttemptsOf(more, i) = AttemptsOf(attempts[r], i)
<1> DEFINE tries == attempts[r]
           old == tries[Len(tries)].status
           e == IF old = "running" THEN status ELSE old
           row == [tries[Len(tries)] EXCEPT !.status = e]
           more == [tries EXCEPT ![Len(tries)] = row]
<1>1. tries \in Seq(AttemptType) /\ Len(tries) \in Nat /\ Len(tries) > 0
  BY RunFacts DEF RunOK, RunningOK, InAttempt
<1>2. \A i \in 1 .. Len(tries) : tries[i].status = "running" => i = Len(tries)
  BY RunFacts DEF RunOK, RunningOK
<1>3. tries[Len(tries)] \in AttemptType
  BY <1>1, ElementOfSeq
<1>4. attempts' = [attempts EXCEPT ![r][Len(attempts[r])].status = e]
  BY Zenon DEF FinishAttempt
<1>5. e \in {"completed", "failed", "interrupted", "cancelled"}
  <2>1. old \in {"running", "completed", "failed", "interrupted", "cancelled"}
    BY <1>3 DEF AttemptType
  <2> QED BY <2>1
<1> HIDE DEF e
<1>6. attempts' = [attempts EXCEPT ![r] = more]
  BY <1>4
<1> HIDE DEF tries
<1>7. row \in AttemptType /\ row.call = tries[Len(tries)].call /\ row.status = e
  BY <1>3, <1>5 DEF AttemptType
<1> HIDE DEF row
<1>8. /\ more \in Seq(AttemptType) /\ Len(more) = Len(tries) /\ more[Len(tries)] = row
      /\ \A a \in 1 .. Len(tries) : more[a].call = tries[a].call
      /\ \A a \in 1 .. Len(tries) : a # Len(tries) => more[a] = tries[a]
      /\ \A i : AttemptsOf(more, i) = AttemptsOf(tries, i)
  BY <1>1, <1>7, AttemptFinished
<1> HIDE DEF more
<1>9. \A a \in 1 .. Len(more) : more[a].status # "running"
  BY <1>1, <1>2, <1>5, <1>7, <1>8
<1> QED BY <1>6, <1>8, <1>9 DEF tries

\* What a stream counts.
LEMMA StreamNumbers ==
    ASSUME NEW s \in StreamType
    PROVE  /\ s.budget \in 0 .. RouteAttempts /\ s.budget \in Nat /\ s.begun \in Nat
           /\ s.attempt \in 0 .. MaxAttempts /\ s.attempt \in Nat /\ Ahead(s) \in Nat
           /\ RouteAttempts \in Nat /\ RunAttempts \in Nat /\ MaxAttempts \in Nat
           /\ RouteAttempts * s.begun \in Nat
<1>1. RouteAttempts \in Nat /\ RunAttempts \in Nat /\ MaxAttempts \in Nat
  BY Numbers, GatewayAssumption
<1>2. s.budget \in 0 .. RouteAttempts /\ s.begun \in Nat /\ s.attempt \in 0 .. MaxAttempts
  BY DEF StreamType
<1>3. Ahead(s) \in Nat
  BY DEF Ahead
<1>4. RouteAttempts * s.begun \in Nat
  BY <1>1, <1>2
<1> QED BY <1>1, <1>2, <1>3, <1>4

\* What a step takes from a sum, the bound of the sum keeps.
LEMMA SumShrinks ==
    ASSUME NEW n \in Nat, NEW a \in Int, NEW b \in Int, NEW x \in Int, NEW y \in Int,
           NEW top \in Int, NEW limit \in Int,
           n + a + x <= top, n + x <= limit, b <= a, y <= x
    PROVE  n + b + y <= top /\ n + y <= limit
OBVIOUS

\* A stream that is entitled to no more attempts than before stays within the same bounds.
LEMMA SpendsNoMore ==
    ASSUME NEW s \in StreamType, NEW u \in StreamType, NEW n \in Nat,
           n + s.budget + Ahead(s) <= RouteAttempts * s.begun, n + Ahead(s) <= RunAttempts,
           u.budget <= s.budget, Ahead(u) <= Ahead(s), u.begun = s.begun
    PROVE  /\ n + u.budget + Ahead(u) <= RouteAttempts * u.begun
           /\ n + Ahead(u) <= RunAttempts
<1> DEFINE top == RouteAttempts * s.begun
           a == s.budget
           b == u.budget
           x == Ahead(s)
           y == Ahead(u)
<1>1. a \in Int /\ b \in Int /\ x \in Int /\ y \in Int /\ top \in Int /\ RunAttempts \in Int
  BY StreamNumbers
<1>2. RouteAttempts * u.begun = top
  OBVIOUS
<1>3. n + a + x <= top /\ n + x <= RunAttempts /\ b <= a /\ y <= x
  OBVIOUS
<1> HIDE DEF top, a, b, x, y
<1>4. n + b + y <= top /\ n + y <= RunAttempts
  BY <1>1, <1>3, SumShrinks
<1> QED BY <1>2, <1>4 DEF b, y

\* As long as a step grants no attempt, the budgets are kept.
LEMMA BudgetKept ==
    ASSUME NEW s \in StreamType, NEW cs \in Seq(CallType), NEW tries \in Seq(AttemptType),
           BudgetOK(s, cs, tries), NEW u \in StreamType, NEW ds \in Seq(CallType),
           NEW more \in Seq(AttemptType), Len(ds) = Len(cs), Len(more) = Len(tries),
           \A a \in 1 .. Len(more) : more[a].call = tries[a].call,
           \A i : AttemptsOf(more, i) = AttemptsOf(tries, i),
           u.budget <= s.budget, Ahead(u) <= Ahead(s), u.begun = s.begun,
           u.pc \in InCall => s.pc \in InCall /\ u.attempt = s.attempt
    PROVE  BudgetOK(u, ds, more)
<1>1. /\ s.budget \in Int /\ u.budget \in Int /\ Ahead(s) \in Int /\ Ahead(u) \in Int
      /\ s.attempt \in Int /\ RouteAttempts * u.begun = RouteAttempts * s.begun
  BY StreamNumbers
<1>2. Len(tries) \in Nat /\ Len(cs) \in Nat
  BY LenProperties
<1>3. \A i : Cardinality(AttemptsOf(more, i)) = Cardinality(AttemptsOf(tries, i))
  OBVIOUS
<1>4. \A i : Cardinality(AttemptsOf(tries, i)) \in Nat
  BY AttemptsFinite
<1>5. /\ Len(more) + u.budget + Ahead(u) <= RouteAttempts * u.begun
      /\ Len(more) + Ahead(u) <= RunAttempts
  <2>1. /\ Len(tries) + s.budget + Ahead(s) <= RouteAttempts * s.begun
        /\ Len(tries) + Ahead(s) <= RunAttempts
    BY DEF BudgetOK
  <2>2. /\ Len(tries) + u.budget + Ahead(u) <= RouteAttempts * u.begun
        /\ Len(tries) + Ahead(u) <= RunAttempts
    BY <1>2, <2>1, SpendsNoMore
  <2> QED BY <2>2
<1>6. u.pc \in InCall => Cardinality(AttemptsOf(more, Len(ds))) + Ahead(u) <= u.attempt
  <2>1. SUFFICES ASSUME u.pc \in InCall
                 PROVE  Cardinality(AttemptsOf(tries, Len(cs))) + Ahead(u) <= s.attempt
    BY <1>3
  <2>2. Cardinality(AttemptsOf(tries, Len(cs))) + Ahead(s) <= s.attempt
    BY <2>1 DEF BudgetOK
  <2>3. Cardinality(AttemptsOf(tries, Len(cs))) \in Nat
    BY <1>4
  <2> QED BY <1>1, <2>2, <2>3
<1>7. /\ \A a \in 1 .. Len(more) : more[a].call <= Len(ds)
      /\ \A i \in 1 .. Len(ds) : Cardinality(AttemptsOf(more, i)) <= MaxAttempts
  BY <1>3 DEF BudgetOK
<1> QED BY <1>5, <1>6, <1>7 DEF BudgetOK

\* The stream is over.
Left(s, pc, error) ==
    [NoStream EXCEPT !.pc = pc, !.error = error, !.begun = s.begun, !.replay = s.replay]

\* A stream that is over leaves nothing running but the attempt of a cancelled
\* call, and nothing said.
LEMMA LeftOK ==
    ASSUME NEW s \in StreamType, NEW cs \in Seq(CallType), NEW tries \in Seq(AttemptType),
           BudgetOK(s, cs, tries), NEW pc \in {"idle", "done"}, NEW error \in Errors \cup {NULL},
           NEW ds \in Seq(CallType), NEW more \in Seq(AttemptType),
           Len(ds) = Len(cs), Len(more) = Len(tries),
           \A a \in 1 .. Len(more) : more[a].call = tries[a].call,
           \A i : AttemptsOf(more, i) = AttemptsOf(tries, i),
           LedgerOK(ds), \A i \in 1 .. Len(ds) : ds[i].status # "running",
           \A i \in 1 .. Len(more) : more[i].status = "running" =>
               pc = "done" /\ i = Len(more) /\ ds[more[i].call].status = "cancelled",
           NEW u, u = Left(s, pc, error)
    PROVE  u \in StreamType /\ RunOK(u, ds, more) /\ ~Probes(u)
<1>1. /\ u \in StreamType /\ u.pc = pc /\ u.plans = {} /\ u.budget = 0 /\ ~u.output
      /\ u.speakers = {} /\ u.begun = s.begun
  <2>1. u = [pc |-> pc, plans |-> {}, from |-> 0, attempt |-> 0, budget |-> 0, output |-> FALSE,
             error |-> error, begun |-> s.begun, replay |-> s.replay, rebuilt |-> FALSE,
             speakers |-> {}, late |-> FALSE]
    BY DEF Left, NoStream
  <2>2. 0 \in 0 .. RouteAttempts /\ 0 \in 0 .. MaxAttempts
    BY Numbers, GatewayAssumption
  <2> QED BY <2>1, <2>2 DEF StreamType
<1>2. s.budget >= 0 /\ Ahead(u) <= Ahead(s)
  BY <1>1 DEF StreamType, Ahead
<1>3. BudgetOK(u, ds, more)
  BY <1>1, <1>2, BudgetKept DEF InCall, Streaming
<1>4. /\ PlaceOK(u) /\ SpeakersOK(u, more) /\ LastOK(u, ds) /\ PlannedOK(u, ds)
      /\ RunningOK(u, ds, more)
  BY <1>1 DEF PlaceOK, SpeakersOK, LastOK, PlannedOK, RunningOK, InCall, Streaming, InAttempt
<1> QED BY <1>1, <1>3, <1>4 DEF RunOK, Probes, Streaming

\* Outside a call nothing is running.
LEMMA NothingRuns ==
    ASSUME IInv, NEW r \in Runs
    PROVE  /\ stream[r].pc \in {"idle", "done", "planned", "created", "attempting", "acquiring",
                                "starting", "succeeded", "failed"} =>
                  \A i \in 1 .. Len(calls[r]) : calls[r][i].status # "running"
           /\ stream[r].pc \notin InAttempt \cup {"done"} =>
                  \A i \in 1 .. Len(attempts[r]) : attempts[r][i].status # "running"
  BY RunFacts DEF RunOK, RunningOK, Streaming

-----------------------------------------------------------------------------
(* The steps, one by one.                                                  *)

\* A call is added: it has no attempt yet.
LEMMA NewCallBudget ==
    ASSUME NEW s \in StreamType, NEW cs \in Seq(CallType), NEW tries \in Seq(AttemptType),
           BudgetOK(s, cs, tries), NEW ds \in Seq(CallType), Len(ds) = Len(cs) + 1
    PROVE  /\ \A a \in 1 .. Len(tries) : tries[a].call <= Len(ds)
           /\ \A i \in 1 .. Len(ds) : Cardinality(AttemptsOf(tries, i)) <= MaxAttempts
           /\ Cardinality(AttemptsOf(tries, Len(ds))) = 0
<1>1. Len(cs) \in Nat /\ Len(tries) \in Nat
  BY LenProperties
<1>2. ASSUME NEW a \in 1 .. Len(tries)
      PROVE  tries[a].call <= Len(cs) /\ tries[a].call \in Nat
  <2>1. tries[a] \in AttemptType
    BY ElementOfSeq
  <2> QED BY <2>1 DEF AttemptType, BudgetOK
<1>3. \A a \in 1 .. Len(tries) : tries[a].call <= Len(ds)
  BY <1>1, <1>2
<1>4. AttemptsOf(tries, Len(ds)) = {}
  BY <1>1, <1>2 DEF AttemptsOf
<1>5. Cardinality(AttemptsOf(tries, Len(ds))) = 0
  BY <1>4, FS_EmptySet
<1>6. ASSUME NEW i \in 1 .. Len(ds) PROVE Cardinality(AttemptsOf(tries, i)) <= MaxAttempts
  <2>1. i \in 1 .. Len(cs) \/ i = Len(ds)
    BY <1>1
  <2>2. MaxAttempts \in Nat
    BY Numbers, GatewayAssumption
  <2> QED BY <1>5, <2>1, <2>2 DEF BudgetOK
<1> QED BY <1>3, <1>5, <1>6

\* A budget for one more route leaves room for that route's attempts.
LEMMA NextRoute ==
    \A n, b, k, g \in Nat : n + b <= k * g => n + k <= k * (g + 1)
<1>1. SUFFICES ASSUME NEW n \in Nat, NEW b \in Nat, NEW k \in Nat, NEW g \in Nat, n + b <= k * g
               PROVE  n + k <= k * (g + 1)
  OBVIOUS
<1> DEFINE p == k * g
<1>2. p \in Int /\ k * (g + 1) = p + k
  OBVIOUS
<1>3. n + b <= p
  BY <1>1
<1> HIDE DEF p
<1>4. n + k <= p + k
  BY <1>2, <1>3
<1> QED BY <1>2, <1>4

\* A stream begins, or the route has no target that fits.
LEMMA BeginStreamStep ==
    ASSUME IInv, NEW r \in Runs, BeginStream(r)
    PROVE  IInv'
<1> DEFINE s == stream[r]
           cs == calls[r]
           tries == attempts[r]
<1>1. /\ s \in StreamType /\ cs \in Seq(CallType) /\ tries \in Seq(AttemptType)
      /\ RunOK(s, cs, tries) /\ Len(cs) \in Nat /\ Len(tries) \in Nat
      /\ attempts' = [attempts EXCEPT ![r] = tries] /\ calls = [calls EXCEPT ![r] = cs]
      /\ state' \in [Runs -> SUBSET Targets] /\ UNCHANGED circuit /\ s.pc = "idle"
  BY RunFacts DEF BeginStream, At
<1>2. /\ \A i \in 1 .. Len(cs) : cs[i].status # "running"
      /\ \A i \in 1 .. Len(tries) : tries[i].status # "running"
  BY <1>1, NothingRuns DEF InAttempt
<1>3. BudgetOK(s, cs, tries) /\ LedgerOK(cs)
  BY <1>1 DEF RunOK
<1>4. PICK C \in Candidates(r) :
          IF C = {}
          THEN /\ calls' = [calls EXCEPT ![r] = Append(@, [target |-> 0, status |-> "failed",
                                                           output |-> FALSE, from |-> 0])]
               /\ Leave(r, "done", NULL)
          ELSE /\ stream' = [stream EXCEPT ![r] =
                    [NoStream EXCEPT !.pc = "planned", !.plans = C, !.budget = RouteAttempts,
                                     !.rebuilt = stream[r].error = "refused",
                                     !.begun = stream[r].begun + 1, !.replay = stream[r].replay]]
               /\ UNCHANGED calls
  BY DEF BeginStream
<1>5. CASE C = {}
  <2> DEFINE row == [target |-> 0, status |-> "failed", output |-> FALSE, from |-> 0]
             ds == Append(cs, row)
             u == Left(s, "done", NULL)
  <2>1. row \in CallType /\ row.status = "failed" /\ ~row.output /\ row.from = 0
    BY Numbers, GatewayAssumption DEF CallType
  <2>2. calls' = [calls EXCEPT ![r] = ds] /\ stream' = [stream EXCEPT ![r] = u]
    BY <1>4, <1>5 DEF Leave, Left
  <2> HIDE DEF row
  <2>3. /\ ds \in Seq(CallType) /\ Len(ds) = Len(cs) + 1 /\ ds[Len(cs) + 1] = row
        /\ \A i \in 1 .. Len(cs) : ds[i] = cs[i]
        /\ LedgerOK(ds)
    BY <1>1, <1>3, <2>1, NewRow
  <2> HIDE DEF ds
  <2>4. \A i \in 1 .. Len(ds) : ds[i].status # "running"
    BY <1>1, <1>2, <2>1, <2>3
  <2>5. /\ \A a \in 1 .. Len(tries) : tries[a].call <= Len(ds)
        /\ \A i \in 1 .. Len(ds) : Cardinality(AttemptsOf(tries, i)) <= MaxAttempts
    BY <1>1, <1>3, <2>3, NewCallBudget
  <2>6. s.pc \notin InCall
    BY <1>1 DEF InCall, Streaming
  <2>7. BudgetOK(s, ds, tries)
    BY <1>3, <2>5, <2>6 DEF BudgetOK
  <2>8. u \in StreamType /\ RunOK(u, ds, tries) /\ ~Probes(u)
    BY <1>1, <1>2, <2>3, <2>4, <2>7, LeftOK
  <2> HIDE DEF u, s, cs, tries
  <2> QED BY <1>1, <2>2, <2>3, <2>8, OneRun
<1>6. CASE C # {}
  <2> DEFINE again == s.error = "refused"
             u == [pc |-> "planned", plans |-> C, from |-> 0, attempt |-> 0,
                   budget |-> RouteAttempts, output |-> FALSE, error |-> NULL,
                   begun |-> s.begun + 1, replay |-> s.replay, rebuilt |-> again,
                   speakers |-> {}, late |-> FALSE]
  <2>0. stream' = [stream EXCEPT ![r] =
                     [NoStream EXCEPT !.pc = "planned", !.plans = C, !.budget = RouteAttempts,
                                      !.rebuilt = again, !.begun = stream[r].begun + 1,
                                      !.replay = stream[r].replay]]
    BY <1>4, <1>6, Zenon
  <2> HIDE DEF again
  <2>1. calls' = [calls EXCEPT ![r] = cs] /\ stream' = [stream EXCEPT ![r] = u]
    <3>1. ASSUME NEW v,
                 v = [NoStream EXCEPT !.pc = "planned", !.plans = C, !.budget = RouteAttempts,
                                      !.rebuilt = again, !.begun = stream[r].begun + 1,
                                      !.replay = stream[r].replay]
          PROVE  v = u
      BY <3>1 DEF NoStream
    <3>2. UNCHANGED calls
      BY <1>4, <1>6, Zenon
    <3> HIDE DEF u
    <3> QED BY <1>1, <2>0, <3>1, <3>2
  <2>2. u \in StreamType
    <3>1. again \in BOOLEAN
      BY DEF again
    <3>2. RouteAttempts \in 0 .. RouteAttempts /\ 0 \in 0 .. MaxAttempts
      BY Numbers, GatewayAssumption
    <3>3. C \in SUBSET Targets /\ s.begun + 1 \in Nat
      BY <1>1 DEF Candidates, StreamType
    <3> QED BY <1>1, <3>1, <3>2, <3>3 DEF StreamType
  <2>3. PlaceOK(u) /\ SpeakersOK(u, tries) /\ LastOK(u, cs) /\ PlannedOK(u, cs)
    BY <1>6 DEF PlaceOK, SpeakersOK, LastOK, PlannedOK, InCall, Streaming
  <2>4. RunningOK(u, cs, tries) /\ LedgerOK(cs)
    BY <1>2, <1>3 DEF RunningOK, InAttempt
  <2>5. BudgetOK(u, cs, tries)
    <3>1. /\ Len(tries) + s.budget <= RouteAttempts * s.begun
          /\ Len(tries) <= RunAttempts /\ s.budget \in Nat /\ s.begun \in Nat
          /\ RouteAttempts \in Nat
      <4>1. /\ s.budget \in Nat /\ s.begun \in Nat /\ Ahead(s) \in Nat
            /\ RouteAttempts \in Nat /\ RunAttempts \in Nat /\ RouteAttempts * s.begun \in Nat
        BY <1>1, StreamNumbers
      <4>2. BudgetOK(s, cs, tries) /\ Len(tries) \in Nat
        BY <1>1, <1>3
      <4>3. /\ Len(tries) + s.budget + Ahead(s) <= RouteAttempts * s.begun
            /\ Len(tries) + Ahead(s) <= RunAttempts
        BY <4>2 DEF BudgetOK
      <4> HIDE DEF s, tries
      <4> QED BY <4>1, <4>2, <4>3
    <3>2. Len(tries) + RouteAttempts <= RouteAttempts * (s.begun + 1)
      <4>1. Len(tries) \in Nat
        BY <1>1
      <4> HIDE DEF s, tries
      <4> QED BY <3>1, <4>1, NextRoute, Zenon
    <3>3. Ahead(u) = 0 /\ u.budget = RouteAttempts /\ u.begun = s.begun + 1 /\ u.pc \notin InCall
      BY DEF Ahead, InCall, Streaming
    <3> HIDE DEF u
    <3> QED BY <1>1, <1>3, <3>1, <3>2, <3>3 DEF BudgetOK
  <2>6. ~Probes(u)
    BY DEF Probes, Streaming
  <2>7. RunOK(u, cs, tries)
    BY <2>3, <2>4, <2>5 DEF RunOK
  <2> HIDE DEF u, s, cs, tries
  <2> QED BY <1>1, <2>1, <2>2, <2>6, <2>7, OneRun
<1> QED BY <1>5, <1>6

\* No provider state is sent any more: the stream is idle meanwhile.
LEMMA QuarantineStep ==
    ASSUME IInv, NEW r \in Runs, Quarantine(r)
    PROVE  IInv'
<1> DEFINE s == stream[r]
           u == [s EXCEPT !.replay = FALSE]
<1>1. /\ s \in StreamType /\ calls[r] \in Seq(CallType) /\ attempts[r] \in Seq(AttemptType)
      /\ RunOK(s, calls[r], attempts[r]) /\ s.pc = "idle"
      /\ attempts' = [attempts EXCEPT ![r] = attempts[r]] /\ calls' = [calls EXCEPT ![r] = calls[r]]
      /\ state' \in [Runs -> SUBSET Targets] /\ UNCHANGED circuit
  BY RunFacts DEF Quarantine, At, ledger
<1>2. /\ u \in StreamType /\ u.pc = "idle" /\ u.plans = s.plans /\ u.budget = s.budget
      /\ u.output = s.output /\ u.speakers = s.speakers /\ u.begun = s.begun
  BY <1>1 DEF StreamType
<1>3. stream' = [stream EXCEPT ![r] = u]
  BY DEF Quarantine
<1> HIDE DEF u, s
<1>4. BudgetOK(u, calls[r], attempts[r])
  <2>1. Ahead(u) = 0 /\ Ahead(s) = 0 /\ u.pc \notin InCall /\ BudgetOK(s, calls[r], attempts[r])
    BY <1>1, <1>2 DEF Ahead, InCall, Streaming, RunOK
  <2>2. u.budget <= s.budget /\ Ahead(u) <= Ahead(s)
    BY <1>1, <1>2, <2>1 DEF StreamType
  <2> QED BY <1>1, <1>2, <2>1, <2>2, BudgetKept
<1>5. RunOK(u, calls[r], attempts[r])
  BY <1>1, <1>2, <1>4
    DEF RunOK, PlaceOK, SpeakersOK, LastOK, PlannedOK, RunningOK, InCall, Streaming, Silent
<1>6. ~Probes(u)
  BY <1>2 DEF Probes, Streaming
<1> QED BY <1>1, <1>2, <1>3, <1>5, <1>6, OneRun

\* Outside a call, the run may be rid of its stream without writing a row.
LEMMA EndWithStep ==
    ASSUME IInv, NEW r \in Runs, stream[r].pc \in {"planned", "failed"},
           NEW error \in Errors \cup {NULL}, EndWith(r, error),
           UNCHANGED <<circuit, calls, attempts, state>>
    PROVE  IInv'
<1> DEFINE s == stream[r]
<1>1. /\ s \in StreamType /\ calls[r] \in Seq(CallType) /\ attempts[r] \in Seq(AttemptType)
      /\ RunOK(s, calls[r], attempts[r])
      /\ attempts' = [attempts EXCEPT ![r] = attempts[r]] /\ calls' = [calls EXCEPT ![r] = calls[r]]
      /\ state' \in [Runs -> SUBSET Targets]
  BY RunFacts
<1>2. /\ \A i \in 1 .. Len(calls[r]) : calls[r][i].status # "running"
      /\ \A i \in 1 .. Len(attempts[r]) : attempts[r][i].status # "running"
  BY NothingRuns DEF InAttempt
<1>3. PICK pc \in {"idle", "done"}, e \in Errors \cup {NULL} :
          stream' = [stream EXCEPT ![r] = Left(s, pc, e)]
  BY DEF EndWith, Leave, Left
<1> DEFINE u == Left(s, pc, e)
<1>4. BudgetOK(s, calls[r], attempts[r]) /\ LedgerOK(calls[r])
  BY <1>1 DEF RunOK
<1>5. u \in StreamType /\ RunOK(u, calls[r], attempts[r]) /\ ~Probes(u)
  BY <1>1, <1>2, <1>4, LeftOK
<1> HIDE DEF u
<1>6. stream' = [stream EXCEPT ![r] = u]
  BY <1>3 DEF u
<1> QED BY <1>1, <1>5, <1>6, OneRun

\* The next plan gets its call, or the budgets are used up.
LEMMA CreateCallStep ==
    ASSUME IInv, NEW r \in Runs, CreateCall(r)
    PROVE  IInv'
<1> DEFINE s == stream[r]
           cs == calls[r]
           tries == attempts[r]
<1>1. /\ s \in StreamType /\ cs \in Seq(CallType) /\ tries \in Seq(AttemptType)
      /\ RunOK(s, cs, tries) /\ Len(cs) \in Nat /\ s.pc = "planned"
      /\ attempts' = [attempts EXCEPT ![r] = tries]
      /\ state' \in [Runs -> SUBSET Targets] /\ UNCHANGED circuit
  BY RunFacts DEF CreateCall, At
<1>2. /\ \A i \in 1 .. Len(cs) : cs[i].status # "running"
      /\ \A i \in 1 .. Len(tries) : tries[i].status # "running"
  BY <1>1, NothingRuns DEF InAttempt
<1>3. CASE EndWith(r, "budget") /\ UNCHANGED calls
  <2>1. UNCHANGED <<circuit, calls, attempts, state>> /\ "budget" \in Errors \cup {NULL}
    BY <1>3 DEF CreateCall, Errors
  <2> QED BY <1>1, <1>3, <2>1, EndWithStep
<1>4. CASE /\ calls' = [calls EXCEPT ![r] = Append(@, [target |-> Target(r), status |-> "planned",
                                                       output |-> FALSE, from |-> stream[r].from])]
           /\ stream' = [stream EXCEPT ![r].pc = "created", ![r].attempt = 0]
  <2> DEFINE row == [target |-> Target(r), status |-> "planned", output |-> FALSE, from |-> s.from]
             ds == Append(cs, row)
             u == [s EXCEPT !.pc = "created", !.attempt = 0]
  <2>1. calls' = [calls EXCEPT ![r] = ds] /\ stream' = [stream EXCEPT ![r] = u]
    BY <1>4
  <2>2. Target(r) = TargetOf(s.plans) /\ s.plans \in SUBSET Targets /\ s.plans # {}
    BY <1>1 DEF Target, TargetOf, RunOK, PlaceOK, StreamType
  <2>3. TargetOf(s.plans) \in s.plans /\ TargetOf(s.plans) \in 0 .. NTargets
    BY <2>2, FirstTarget, GatewayAssumption, Numbers DEF Targets
  <2>4. /\ row \in CallType /\ row.status = "planned" /\ ~row.output /\ row.from = s.from
        /\ row.target = TargetOf(s.plans)
    BY <1>1, <2>2, <2>3 DEF CallType, StreamType
  <2>5. row.from # 0 => /\ row.from <= Len(cs) /\ cs[row.from].status = "failed"
                        /\ cs[row.from].target < row.target
    BY <1>1, <2>3, <2>4 DEF RunOK, PlannedOK
  <2>6. BudgetOK(s, cs, tries) /\ LedgerOK(cs)
    BY <1>1 DEF RunOK
  <2>7. /\ u \in StreamType /\ u.pc = "created" /\ u.attempt = 0 /\ u.plans = s.plans
        /\ u.budget = s.budget /\ u.output = s.output /\ u.speakers = s.speakers
        /\ u.begun = s.begun
    <3>1. 0 \in 0 .. MaxAttempts
      BY Numbers, GatewayAssumption
    <3> QED BY <1>1, <3>1 DEF StreamType
  <2> HIDE DEF row, u
  <2>8. /\ ds \in Seq(CallType) /\ Len(ds) = Len(cs) + 1 /\ ds[Len(cs) + 1] = row
        /\ \A i \in 1 .. Len(cs) : ds[i] = cs[i]
        /\ LedgerOK(ds)
    BY <1>1, <2>4, <2>5, <2>6, NewRow
  <2> HIDE DEF ds
  <2>9. \A i \in 1 .. Len(ds) : ds[i].status # "running"
    BY <1>1, <1>2, <2>4, <2>8
  <2>10. BudgetOK(u, ds, tries)
    <3>1. /\ \A a \in 1 .. Len(tries) : tries[a].call <= Len(ds)
          /\ \A i \in 1 .. Len(ds) : Cardinality(AttemptsOf(tries, i)) <= MaxAttempts
          /\ Cardinality(AttemptsOf(tries, Len(ds))) = 0
      BY <1>1, <2>6, <2>8, NewCallBudget
    <3>2. Ahead(u) = 0 /\ Ahead(s) = 0
      BY <1>1, <2>7 DEF Ahead
    <3> QED BY <2>6, <2>7, <3>1, <3>2 DEF BudgetOK
  <2>11. PlaceOK(u) /\ SpeakersOK(u, tries) /\ PlannedOK(u, ds)
    BY <1>1, <2>7 DEF RunOK, PlaceOK, SpeakersOK, PlannedOK, Silent
  <2>12. LastOK(u, ds)
    <3>1. Len(ds) > 0 /\ ds[Len(ds)] = row
      BY <1>1, <2>8
    <3>2. row.output = FALSE
      BY <2>4 DEF CallType
    <3>3. u.output = FALSE
      BY <1>1, <2>7 DEF RunOK, PlaceOK, Silent, StreamType
    <3> QED BY <2>4, <2>7, <3>1, <3>2, <3>3 DEF LastOK, InAttempt
  <2>13. RunningOK(u, ds, tries)
    BY <1>2, <2>7, <2>9 DEF RunningOK, InAttempt
  <2>14. RunOK(u, ds, tries) /\ ~Probes(u)
    BY <2>7, <2>8, <2>10, <2>11, <2>12, <2>13 DEF RunOK, Probes, Streaming
  <2> HIDE DEF s, cs, tries
  <2> QED BY <1>1, <2>1, <2>7, <2>8, <2>14, OneRun
<1> QED BY <1>3, <1>4 DEF CreateCall

\* The error is raised, or the plans that are left get their turn.
LEMMA FallbackStep ==
    ASSUME IInv, NEW r \in Runs, Fallback(r)
    PROVE  IInv'
<1> DEFINE s == stream[r]
           cs == calls[r]
           tries == attempts[r]
<1>1. /\ s \in StreamType /\ cs \in Seq(CallType) /\ tries \in Seq(AttemptType)
      /\ RunOK(s, cs, tries) /\ Len(cs) \in Nat /\ s.pc = "failed"
      /\ attempts' = [attempts EXCEPT ![r] = tries] /\ calls' = [calls EXCEPT ![r] = cs]
      /\ state' \in [Runs -> SUBSET Targets]
      /\ UNCHANGED <<circuit, calls, attempts, state>>
  BY RunFacts DEF Fallback, At, ledger
<1>2. /\ \A i \in 1 .. Len(cs) : cs[i].status # "running"
      /\ \A i \in 1 .. Len(tries) : tries[i].status # "running"
  BY <1>1, NothingRuns DEF InAttempt
<1>3. CASE EndWith(r, "budget") \/ EndWith(r, stream[r].error)
  <2>1. "budget" \in Errors \cup {NULL} /\ stream[r].error \in Errors \cup {NULL}
    BY <1>1 DEF Errors, StreamType
  <2> QED BY <1>1, <1>3, <2>1, EndWithStep
<1>4. CASE /\ FallbackAllowed(r)
           /\ stream' = [stream EXCEPT ![r].pc = "planned", ![r].plans = @ \ {Target(r)},
                                       ![r].from = Len(calls[r]), ![r].output = FALSE,
                                       ![r].error = NULL]
  <2> DEFINE left == s.plans \ {Target(r)}
             u == [s EXCEPT !.pc = "planned", !.plans = left, !.from = Len(cs), !.output = FALSE,
                            !.error = NULL]
  <2>1. stream' = [stream EXCEPT ![r] = u]
    BY <1>4
  <2>2. ~s.output /\ s.error \in FallbackOn /\ Cardinality(s.plans) > 1
    BY <1>4 DEF FallbackAllowed
  <2>3. Target(r) = TargetOf(s.plans) /\ s.plans \in SUBSET Targets /\ s.plans # {}
    BY <1>1 DEF Target, TargetOf, RunOK, PlaceOK, StreamType
  <2>4. TargetOf(s.plans) \in s.plans /\ \A t \in s.plans : TargetOf(s.plans) <= t
    BY <2>3, FirstTarget, GatewayAssumption
  <2>5. left \in SUBSET Targets /\ \A t \in left : TargetOf(s.plans) < t
    BY <2>3, <2>4, Numbers, GatewayAssumption
  <2>6. left # {}
    <3>1. left = {} => s.plans = {TargetOf(s.plans)}
      BY <2>3, <2>4
    <3>2. Cardinality({TargetOf(s.plans)}) = 1
      BY FS_Singleton
    <3> QED BY <2>2, <3>1, <3>2
  <2> HIDE DEF left
  <2>7. /\ u \in StreamType /\ u.pc = "planned" /\ u.plans = left /\ u.from = Len(cs)
        /\ ~u.output /\ u.budget = s.budget /\ u.speakers = s.speakers /\ u.begun = s.begun
    BY <1>1, <2>5 DEF StreamType
  <2> HIDE DEF u
  <2>8. PlaceOK(u) /\ SpeakersOK(u, tries) /\ LastOK(u, cs)
    BY <1>1, <2>2, <2>6, <2>7 DEF RunOK, PlaceOK, SpeakersOK, LastOK, InCall, Streaming
  <2>9. PlannedOK(u, cs)
    <3>1. cs[Len(cs)].target = TargetOf(s.plans) /\ cs[Len(cs)].status = "failed"
      BY <1>1, <2>2 DEF RunOK, LastOK
    <3> QED BY <2>5, <2>7, <3>1 DEF PlannedOK
  <2>10. BudgetOK(u, cs, tries)
    <3>1. u.budget <= s.budget /\ Ahead(u) <= Ahead(s) /\ u.pc \notin InCall
      BY <1>1, <2>7 DEF StreamType, Ahead, InCall, Streaming
    <3> QED BY <1>1, <2>7, <3>1, BudgetKept DEF RunOK
  <2>11. RunOK(u, cs, tries) /\ ~Probes(u)
    BY <1>1, <1>2, <2>7, <2>8, <2>9, <2>10 DEF RunOK, RunningOK, Probes, Streaming, InAttempt
  <2> HIDE DEF s, cs, tries
  <2> QED BY <1>1, <2>1, <2>7, <2>11, OneRun
<1> QED BY <1>3, <1>4 DEF Fallback

\* The call is entered, with no attempt made.
LEMMA EnterCallStep ==
    ASSUME IInv, NEW r \in Runs, EnterCall(r)
    PROVE  IInv'
<1> DEFINE s == stream[r]
           cs == calls[r]
           tries == attempts[r]
           u == [s EXCEPT !.pc = "attempting"]
<1>1. /\ s \in StreamType /\ cs \in Seq(CallType) /\ tries \in Seq(AttemptType)
      /\ RunOK(s, cs, tries) /\ s.pc = "created"
      /\ attempts' = [attempts EXCEPT ![r] = tries] /\ calls' = [calls EXCEPT ![r] = cs]
      /\ state' \in [Runs -> SUBSET Targets] /\ UNCHANGED circuit
  BY RunFacts DEF EnterCall, At, ledger
<1>2. stream' = [stream EXCEPT ![r] = u]
  BY DEF EnterCall, Goto
<1>3. /\ u \in StreamType /\ u.pc = "attempting" /\ u.plans = s.plans /\ u.attempt = s.attempt
      /\ u.output = s.output /\ u.budget = s.budget /\ u.speakers = s.speakers
      /\ u.begun = s.begun
  BY <1>1 DEF StreamType
<1> HIDE DEF u, s, cs, tries
<1>4. BudgetOK(u, cs, tries)
  <2>1. u.budget <= s.budget /\ Ahead(u) <= Ahead(s) /\ s.pc \in InCall
    BY <1>1, <1>3 DEF StreamType, Ahead, InCall
  <2> QED BY <1>1, <1>3, <2>1, BudgetKept DEF RunOK
<1>5. PlaceOK(u) /\ SpeakersOK(u, tries) /\ LastOK(u, cs) /\ PlannedOK(u, cs)
      /\ RunningOK(u, cs, tries)
  <2>1. 0 < MaxAttempts
    BY Numbers, GatewayAssumption
  <2> QED BY <1>1, <1>3, <2>1
        DEF RunOK, PlaceOK, SpeakersOK, LastOK, PlannedOK, RunningOK, InCall, Silent, Streaming,
            InAttempt
<1>6. RunOK(u, cs, tries) /\ ~Probes(u)
  BY <1>1, <1>3, <1>4, <1>5 DEF RunOK, Probes, Streaming
<1> QED BY <1>1, <1>2, <1>3, <1>6, OneRun

\* The stream goes on with what it has: its place, its error and the late answer
\* may change.
Same(u, s) ==
    /\ u.plans = s.plans /\ u.attempt = s.attempt /\ u.budget = s.budget /\ u.begun = s.begun
    /\ u.output = s.output /\ u.speakers = s.speakers

LEMMA StreamingPlaces ==
    {"starting", "started", "streaming", "failing", "completing", "succeeded", "recording",
     "recorded"} \subseteq Streaming
BY DEF Streaming

\* Only the place changes.
LEMMA Moved ==
    ASSUME NEW s \in StreamType,
           NEW pc \in Streaming \cup {"idle", "planned", "created", "attempting", "acquiring",
                                     "failed", "done"},
           NEW u, u = [s EXCEPT !.pc = pc]
    PROVE  u \in StreamType /\ u.pc = pc /\ u.late = s.late /\ u.error = s.error /\ Same(u, s)
<1>1. u \in StreamType
  BY DEF StreamType
<1>2. u.pc = pc /\ u.late = s.late /\ u.error = s.error
  BY DEF StreamType
<1>3. u.plans = s.plans /\ u.attempt = s.attempt /\ u.budget = s.budget /\ u.begun = s.begun
  BY DEF StreamType
<1>4. u.output = s.output /\ u.speakers = s.speakers
  BY DEF StreamType
<1> QED BY <1>1, <1>2, <1>3, <1>4 DEF Same

\* The place of the stream is one of a call, or between two calls.
LEMMA MovedIn ==
    ASSUME NEW s \in StreamType,
           NEW pc \in {"attempting", "failed", "completing", "succeeded"},
           NEW u, u = [s EXCEPT !.pc = pc]
    PROVE  u \in StreamType /\ u.pc = pc /\ u.late = s.late /\ Same(u, s)
<1>1. pc \in Streaming \cup {"idle", "planned", "created", "attempting", "acquiring", "failed", "done"}
  BY DEF Streaming
<1> QED BY <1>1, Moved

\* The error leaves the call, whose row is finished by then.
LEMMA RaiseStep ==
    ASSUME IInv, NEW r \in Runs, stream[r].pc \in {"attempting", "acquiring", "recorded"},
           NEW u \in StreamType, u.pc = "failed", Same(u, stream[r]),
           stream' = [stream EXCEPT ![r] = u],
           FinishCall(r, Broken(r)), UNCHANGED <<circuit, attempts, state>>
    PROVE  IInv'
<1> DEFINE s == stream[r]
           cs == calls[r]
           tries == attempts[r]
<1>1. /\ s \in StreamType /\ cs \in Seq(CallType) /\ tries \in Seq(AttemptType)
      /\ RunOK(s, cs, tries) /\ attempts' = [attempts EXCEPT ![r] = tries]
      /\ state' \in [Runs -> SUBSET Targets]
  BY RunFacts
<1>2. /\ Broken(r) \in {"completed", "failed", "interrupted", "cancelled"}
      /\ Broken(r) = "failed" => ~s.output
      /\ Broken(r) = "interrupted" => s.output
      /\ ~s.output => Broken(r) = "failed"
  BY DEF Broken
<1>3. s.pc \in InCall
  BY DEF InCall, Streaming
<1>4. PICK ds \in Seq(CallType) :
          /\ calls' = [calls EXCEPT ![r] = ds] /\ Len(ds) = Len(cs) /\ LedgerOK(ds)
          /\ ds[Len(ds)].target = TargetOf(s.plans)
          /\ ds[Len(ds)].output = s.output
          /\ cs[Len(ds)].status \in {"planned", "running", "retrying"} =>
                 ds[Len(ds)].status = Broken(r)
          /\ \A i \in 1 .. Len(ds) : ds[i].status # "running"
  BY <1>2, <1>3, FinishCallStep
<1>5. \A i \in 1 .. Len(tries) : tries[i].status # "running"
  BY <1>1, NothingRuns DEF InAttempt
<1> HIDE DEF s, cs, tries
<1>6. stream[r] = s /\ Same(u, s) /\ s.pc \in {"attempting", "acquiring", "recorded"}
  BY DEF s
<1>7. BudgetOK(u, ds, tries)
  <2>1. u.budget <= s.budget /\ Ahead(u) <= Ahead(s) /\ u.pc \notin InCall
    BY <1>1, <1>6 DEF StreamType, Ahead, InCall, Streaming, Same
  <2> QED BY <1>1, <1>4, <1>6, <2>1, BudgetKept DEF RunOK, Same
<1>8. LastOK(u, ds)
  <2>1. Len(ds) > 0 /\ cs[Len(ds)].status \in {"planned", "running", "retrying"}
    BY <1>1, <1>3, <1>4, <1>6 DEF RunOK, LastOK
  <2> QED BY <1>2, <1>4, <1>6, <2>1 DEF LastOK, Same, InCall, Streaming, InAttempt
<1>9. /\ PlaceOK(u) /\ SpeakersOK(u, tries) /\ PlannedOK(u, ds) /\ RunningOK(u, ds, tries)
      /\ ~Probes(u)
  BY <1>1, <1>4, <1>5, <1>6
    DEF RunOK, PlaceOK, SpeakersOK, PlannedOK, RunningOK, Silent, Streaming, Same, Probes, InAttempt
<1>10. RunOK(u, ds, tries)
  BY <1>4, <1>7, <1>8, <1>9 DEF RunOK
<1> QED BY <1>1, <1>4, <1>9, <1>10, OneRun

\* An attempt is granted, and counted before its row exists.
LEMMA BeginAttemptStep ==
    ASSUME IInv, NEW r \in Runs, BeginAttempt(r)
    PROVE  IInv'
<1> DEFINE s == stream[r]
           cs == calls[r]
           tries == attempts[r]
<1>1. /\ s \in StreamType /\ cs \in Seq(CallType) /\ tries \in Seq(AttemptType)
      /\ RunOK(s, cs, tries) /\ s.pc = "attempting" /\ Len(tries) \in Nat /\ Len(cs) \in Nat
      /\ attempts' = [attempts EXCEPT ![r] = tries] /\ calls = [calls EXCEPT ![r] = cs]
      /\ state' \in [Runs -> SUBSET Targets] /\ UNCHANGED <<circuit, attempts, state>>
  BY RunFacts DEF BeginAttempt, At
<1>2. ~s.output
  BY <1>1 DEF RunOK, PlaceOK, Silent
<1>3. CASE Raise(r, "budget")
  <2> DEFINE u == [s EXCEPT !.pc = "failed", !.error = "budget"]
  <2>1. stream' = [stream EXCEPT ![r] = u]
    BY <1>3 DEF Raise
  <2>2. u \in StreamType /\ u.pc = "failed" /\ u.error = "budget" /\ Same(u, s)
    BY <1>1 DEF StreamType, Same, Errors
  <2> HIDE DEF u
  <2>3. CASE FinishCall(r, "failed")
    <3>1. Broken(r) = "failed"
      BY <1>2 DEF Broken
    <3> QED BY <1>1, <2>1, <2>2, <2>3, <3>1, RaiseStep
  <2>4. CASE UNCHANGED calls
    <3>1. BudgetOK(u, cs, tries)
      <4>1. u.budget <= s.budget /\ Ahead(u) <= Ahead(s) /\ u.pc \notin InCall
        BY <1>1, <2>2 DEF StreamType, Ahead, InCall, Streaming, Same
      <4> QED BY <1>1, <2>2, <4>1, BudgetKept DEF RunOK, Same
    <3>2. /\ PlaceOK(u) /\ SpeakersOK(u, tries) /\ PlannedOK(u, cs) /\ RunningOK(u, cs, tries)
          /\ ~Probes(u)
      BY <1>1, <2>2
        DEF RunOK, PlaceOK, SpeakersOK, PlannedOK, RunningOK, Silent, Streaming, Same, Probes,
            InAttempt
    <3>3. LastOK(u, cs)
      <4>1. u.error \notin FallbackOn
        BY <2>2, GatewayAssumption
      <4> QED BY <1>1, <2>2, <4>1 DEF RunOK, LastOK, InCall, Streaming, Same, InAttempt
    <3>4. RunOK(u, cs, tries) /\ calls' = [calls EXCEPT ![r] = cs]
      BY <1>1, <2>4, <3>1, <3>2, <3>3 DEF RunOK
    <3> HIDE DEF s, cs, tries
    <3> QED BY <1>1, <2>1, <2>2, <3>2, <3>4, OneRun
  <2> QED BY <1>3, <2>3, <2>4 DEF BeginAttempt, Raise
<1>4. CASE /\ ~Spent(r) /\ ~OverBudget(r) /\ UNCHANGED calls
           /\ stream' = [stream EXCEPT ![r].pc = "acquiring", ![r].budget = @ - 1,
                                       ![r].attempt = @ + 1, ![r].output = FALSE]
  <2> DEFINE budget == s.budget - 1
             attempt == s.attempt + 1
             u == [s EXCEPT !.pc = "acquiring", !.budget = budget, !.attempt = attempt,
                            !.output = FALSE]
  <2>1. stream' = [stream EXCEPT ![r] = u]
    BY <1>4
  <2>2. /\ s.budget > 0 /\ Len(tries) < RunAttempts
        /\ s.attempt < MaxAttempts /\ MaxAttempts \in Nat /\ RunAttempts \in Nat
        /\ RouteAttempts \in Nat
        /\ s.budget \in 0 .. RouteAttempts /\ s.attempt \in 0 .. MaxAttempts
    <3>1. /\ s.budget \in 0 .. RouteAttempts /\ s.budget \in Nat /\ s.attempt \in 0 .. MaxAttempts
          /\ MaxAttempts \in Nat /\ RunAttempts \in Nat /\ RouteAttempts \in Nat
      BY <1>1, StreamNumbers
    <3>2. ~ (s.budget <= 0) /\ ~ (Len(tries) >= RunAttempts)
      BY <1>4 DEF Spent, OverBudget
    <3>3. s.attempt < MaxAttempts
      BY <1>1 DEF RunOK, PlaceOK
    <3> QED BY <1>1, <3>1, <3>2, <3>3
  <2>3. /\ budget \in 0 .. RouteAttempts /\ attempt \in 0 .. MaxAttempts
        /\ budget + 1 = s.budget /\ attempt = s.attempt + 1
    BY <2>2
  <2> HIDE DEF budget, attempt
  <2>4. /\ u \in StreamType /\ u.pc = "acquiring" /\ u.plans = s.plans /\ u.attempt = attempt
        /\ u.output = FALSE /\ u.budget = budget /\ u.speakers = s.speakers
        /\ u.begun = s.begun
    BY <1>1, <2>3 DEF StreamType
  <2> HIDE DEF u
  <2>5. BudgetOK(u, cs, tries)
    <3>1. Ahead(u) = 1 /\ Ahead(s) = 0 /\ s.pc \in InCall
      BY <1>1, <2>4 DEF Ahead, InCall
    <3>2. BudgetOK(s, cs, tries)
      BY <1>1 DEF RunOK
    <3>3. Cardinality(AttemptsOf(tries, Len(cs))) \in Nat
      BY <1>1, AttemptsFinite
    <3>4. Cardinality(AttemptsOf(tries, Len(cs))) <= s.attempt
      BY <3>1, <3>2, <3>3, <2>2 DEF BudgetOK
    <3>5. /\ Len(tries) + u.budget + Ahead(u) <= RouteAttempts * u.begun
          /\ Len(tries) + Ahead(u) <= RunAttempts
      <4>1. Len(tries) + s.budget <= RouteAttempts * s.begun
        BY <1>1, <2>2, <3>1, <3>2 DEF BudgetOK
      <4>2. RouteAttempts * s.begun \in Int /\ budget \in Int
        BY <1>1, <2>2, <2>3 DEF StreamType
      <4>3. Len(tries) + budget + 1 = Len(tries) + s.budget
        <5>1. Len(tries) \in Int /\ s.budget \in Int
          BY <1>1, <2>2
        <5>2. \A m, n, k \in Int : n + 1 = k => m + n + 1 = m + k
          OBVIOUS
        <5> QED BY <2>3, <4>2, <5>1, <5>2
      <4> QED BY <1>1, <2>2, <2>4, <3>1, <4>1, <4>2, <4>3
    <3>6. Cardinality(AttemptsOf(tries, Len(cs))) + Ahead(u) <= u.attempt
      BY <2>2, <2>3, <2>4, <3>1, <3>3, <3>4
    <3> QED BY <3>2, <3>5, <3>6 DEF BudgetOK
  <2>6. /\ PlaceOK(u) /\ SpeakersOK(u, tries) /\ LastOK(u, cs) /\ PlannedOK(u, cs)
        /\ RunningOK(u, cs, tries)
    <3>1. s.output = FALSE
      BY <1>1, <1>2 DEF StreamType
    <3> QED BY <1>1, <2>4, <3>1
          DEF RunOK, PlaceOK, SpeakersOK, LastOK, PlannedOK, RunningOK, InCall, Silent, Streaming,
              InAttempt
  <2>7. RunOK(u, cs, tries) /\ ~Probes(u) /\ calls' = [calls EXCEPT ![r] = cs]
    BY <1>1, <1>4, <2>4, <2>5, <2>6 DEF RunOK, Probes, Streaming
  <2> HIDE DEF s, cs, tries
  <2> QED BY <1>1, <2>1, <2>4, <2>7, OneRun
<1> QED BY <1>3, <1>4 DEF BeginAttempt

\* An attempt is let in.  Its circuit was closed, and stays so, or it was open, so
\* that nobody probed the target.
LEMMA AcquireStep ==
    ASSUME IInv, NEW r \in Runs, Acquire(r)
    PROVE  IInv'
<1> DEFINE s == stream[r]
           cs == calls[r]
           tries == attempts[r]
           t == Target(r)
<1>1. /\ s \in StreamType /\ cs \in Seq(CallType) /\ tries \in Seq(AttemptType)
      /\ RunOK(s, cs, tries) /\ s.pc = "acquiring"
      /\ attempts' = [attempts EXCEPT ![r] = tries] /\ calls = [calls EXCEPT ![r] = cs]
      /\ state' \in [Runs -> SUBSET Targets] /\ UNCHANGED <<attempts, state>>
      /\ circuit \in [Targets -> CircuitType]
  BY RunFacts DEF Acquire, At
<1>2. t = TargetOf(s.plans) /\ s.plans \in SUBSET Targets /\ s.plans # {}
  BY <1>1 DEF Target, TargetOf, RunOK, PlaceOK, StreamType
<1>3. t \in Targets
  BY <1>2, FirstTarget, GatewayAssumption
<1>4. s.output = FALSE
  BY <1>1 DEF RunOK, PlaceOK, Silent, StreamType
<1>5. CASE Raise(r, "circuit_open") /\ FinishCall(r, "failed") /\ UNCHANGED circuit
  <2> DEFINE u == [s EXCEPT !.pc = "failed", !.error = "circuit_open"]
  <2>1. stream' = [stream EXCEPT ![r] = u]
    BY <1>5 DEF Raise
  <2>2. u \in StreamType /\ u.pc = "failed" /\ Same(u, s)
    BY <1>1 DEF StreamType, Same, Errors
  <2> HIDE DEF u
  <2>3. Broken(r) = "failed"
    BY <1>4 DEF Broken
  <2> QED BY <1>1, <1>5, <2>1, <2>2, <2>3, RaiseStep
<1>6. CASE /\ Admits(circuit[t])
           /\ stream' = [stream EXCEPT ![r].pc = "starting", ![r].late = FALSE]
           /\ circuit' = IF circuit[t].status = "open"
                         THEN [circuit EXCEPT ![t].status = "half_open", ![t].due = FALSE]
                         ELSE circuit
           /\ UNCHANGED calls
  <2> DEFINE u == [s EXCEPT !.pc = "starting", !.late = FALSE]
             row == [circuit[t] EXCEPT !.status = "half_open", !.due = FALSE]
  <2>1. stream' = [stream EXCEPT ![r] = u] /\ calls' = [calls EXCEPT ![r] = cs]
    BY <1>1, <1>6
  <2>2. u \in StreamType /\ u.pc = "starting" /\ Same(u, s)
    <3> DEFINE v == [s EXCEPT !.pc = "starting"]
    <3>1. v \in StreamType /\ v.pc = "starting" /\ Same(v, s)
      BY <1>1, Moved, StreamingPlaces
    <3>2. u = [v EXCEPT !.late = FALSE]
      OBVIOUS
    <3> HIDE DEF v, u
    <3>3. u \in StreamType /\ u.pc = v.pc
      BY <3>1, <3>2 DEF StreamType
    <3>4. /\ u.plans = v.plans /\ u.attempt = v.attempt /\ u.budget = v.budget
          /\ u.begun = v.begun /\ u.output = v.output /\ u.speakers = v.speakers
      BY <3>1, <3>2 DEF StreamType
    <3> QED BY <3>1, <3>3, <3>4 DEF Same
  <2> HIDE DEF u
  <2>3. RunOK(u, cs, tries)
    <3>1. BudgetOK(u, cs, tries)
      <4>1. u.budget <= s.budget /\ Ahead(u) <= Ahead(s) /\ s.pc \in InCall
        BY <1>1, <2>2 DEF StreamType, Ahead, InCall, Same
      <4> QED BY <1>1, <2>2, <4>1, BudgetKept DEF RunOK, Same
    <3>2. /\ PlaceOK(u) /\ SpeakersOK(u, tries) /\ LastOK(u, cs) /\ PlannedOK(u, cs)
          /\ RunningOK(u, cs, tries)
      BY <1>1, <2>2
        DEF RunOK, PlaceOK, SpeakersOK, LastOK, PlannedOK, RunningOK, InCall, Silent, Streaming,
            Same, InAttempt
    <3> QED BY <1>1, <3>1, <3>2 DEF RunOK
  <2>4. row \in CircuitType /\ row.status = "half_open"
    <3>1. circuit[t] \in CircuitType
      BY <1>1, <1>3
    <3> QED BY <3>1 DEF CircuitType
  <2>5. circuit' = IF circuit[t].status = "open" THEN [circuit EXCEPT ![t] = row] ELSE circuit
    BY <1>6
  <2> HIDE DEF row
  <2>6. circuit' \in [Targets -> CircuitType]
    BY <1>1, <1>3, <2>4, <2>5
  <2>7. /\ TypeOK' /\ \A q \in Runs : RunOK(stream'[q], calls'[q], attempts'[q])
        /\ \A q \in Runs : stream'[q] = IF q = r THEN u ELSE stream[q]
    <3> HIDE DEF s, cs, tries
    <3> QED BY <1>1, <2>1, <2>2, <2>3, <2>6, RunRows
  <2>8. TargetOf(u.plans) = t
    BY <1>2, <2>2 DEF Same
  <2>9. ASSUME NEW c \in Targets PROVE CircuitOK(c)'
    <3> HIDE DEF u, t, s
    <3>1. CircuitOK(c)
      BY DEF IInv
    <3>2. CASE c # t
      <4>1. circuit'[c] = circuit[c]
        BY <1>1, <2>5, <3>2
      <4> QED BY <2>7, <2>8, <3>1, <3>2, <4>1 DEF CircuitOK
    <3>3. CASE c = t /\ circuit[t].status = "open"
      <4>1. circuit'[c].status = "half_open"
        BY <1>1, <1>3, <2>4, <2>5, <3>3
      <4>2. \A q \in Runs \ {r} : Probes(stream'[q]) => TargetOf(stream'[q].plans) # c
        BY <2>7, <3>1, <3>3 DEF CircuitOK
      <4> QED BY <4>1, <4>2 DEF CircuitOK
    <3>4. CASE c = t /\ circuit[t].status = "closed"
      <4>1. circuit'[c].status = "closed"
        BY <2>5, <3>4
      <4> QED BY <4>1 DEF CircuitOK
    <3> QED BY <1>6, <3>2, <3>3, <3>4 DEF Admits, t
  <2> QED BY <2>7, <2>9 DEF IInv
<1> QED BY <1>5, <1>6 DEF Acquire

\* The attempt that was counted gets its row.
LEMMA StartAttemptStep ==
    ASSUME IInv, NEW r \in Runs, StartAttempt(r)
    PROVE  IInv'
<1> DEFINE s == stream[r]
           cs == calls[r]
           tries == attempts[r]
           e == IF cs[Len(cs)].status \in {"planned", "retrying"} THEN "running"
                ELSE cs[Len(cs)].status
           row == [cs[Len(cs)] EXCEPT !.status = e]
           ds == [cs EXCEPT ![Len(cs)] = row]
           more == Append(tries, [call |-> Len(cs), status |-> "running"])
           u == [s EXCEPT !.pc = "started"]
<1>1. /\ s \in StreamType /\ cs \in Seq(CallType) /\ tries \in Seq(AttemptType)
      /\ RunOK(s, cs, tries) /\ s.pc = "starting" /\ Len(tries) \in Nat /\ Len(cs) \in Nat
      /\ state' \in [Runs -> SUBSET Targets] /\ UNCHANGED <<circuit, state>>
  BY RunFacts DEF StartAttempt, At
<1>2. /\ attempts' = [attempts EXCEPT ![r] = more]
      /\ stream' = [stream EXCEPT ![r] = u]
      /\ calls' = [calls EXCEPT ![r][Len(calls[r])].status = e]
  BY Zenon DEF StartAttempt, Goto
<1>3. /\ Len(cs) > 0 /\ LedgerOK(cs) /\ cs[Len(cs)].status \in {"planned", "retrying"}
      /\ cs[Len(cs)].target = TargetOf(s.plans) /\ cs[Len(cs)].output = s.output
      /\ ~s.output /\ s.speakers = {} /\ BudgetOK(s, cs, tries) /\ s.plans # {}
  BY <1>1 DEF RunOK, LastOK, PlaceOK, SpeakersOK, Silent, InCall, Streaming
<1>4. e = "running"
  BY <1>3
<1> HIDE DEF e
<1>5. calls' = [calls EXCEPT ![r] = ds]
  BY <1>2
<1>6. cs[Len(cs)] \in CallType
  BY <1>1, <1>3, ElementOfSeq
<1>7. /\ row \in CallType /\ row.target = cs[Len(cs)].target /\ row.from = cs[Len(cs)].from
      /\ row.output = cs[Len(cs)].output /\ row.status = "running"
  BY <1>4, <1>6 DEF CallType
<1> HIDE DEF row
<1>8. /\ ds \in Seq(CallType) /\ Len(ds) = Len(cs) /\ ds[Len(cs)] = row
      /\ \A i \in 1 .. Len(cs) : i # Len(cs) => ds[i] = cs[i]
      /\ LedgerOK(ds)
  BY <1>1, <1>3, <1>7, LastRow
<1> HIDE DEF ds
<1>9. /\ more \in Seq(AttemptType) /\ Len(more) = Len(tries) + 1
      /\ more[Len(tries) + 1] = [call |-> Len(cs), status |-> "running"]
      /\ \A a \in 1 .. Len(tries) : more[a] = tries[a]
      /\ \A i : i # Len(cs) => AttemptsOf(more, i) = AttemptsOf(tries, i)
      /\ Cardinality(AttemptsOf(more, Len(cs))) = Cardinality(AttemptsOf(tries, Len(cs))) + 1
  BY <1>1, AttemptBegun
<1> HIDE DEF more
<1>10. u \in StreamType /\ u.pc = "started" /\ u.late = s.late /\ Same(u, s)
  BY <1>1, Moved, StreamingPlaces
<1> HIDE DEF u
<1>11. /\ \A i \in 1 .. Len(cs) : cs[i].status # "running"
       /\ \A i \in 1 .. Len(tries) : tries[i].status # "running"
  BY <1>1, NothingRuns DEF InAttempt
<1>12. BudgetOK(u, ds, more)
  <2>1. Ahead(s) = 1 /\ Ahead(u) = 0 /\ s.pc \in InCall
    BY <1>1, <1>10 DEF Ahead, InCall, Streaming
  <2>2. /\ Len(more) + u.budget + Ahead(u) <= RouteAttempts * u.begun
        /\ Len(more) + Ahead(u) <= RunAttempts
    <3>1. s.budget \in Int /\ RouteAttempts * s.begun \in Int /\ RunAttempts \in Int
      BY <1>1, StreamNumbers
    <3>2. /\ Len(tries) + s.budget + 1 <= RouteAttempts * s.begun
          /\ Len(tries) + 1 <= RunAttempts
      BY <1>3, <2>1 DEF BudgetOK
    <3> QED BY <1>1, <1>9, <1>10, <2>1, <3>1, <3>2 DEF Same
  <2>3. \A a \in 1 .. Len(more) : more[a].call <= Len(ds)
    <3>1. \A a \in 1 .. Len(tries) : tries[a].call <= Len(cs)
      BY <1>3 DEF BudgetOK
    <3>2. more[Len(tries) + 1].call = Len(cs)
      BY <1>9
    <3>3. ASSUME NEW a \in 1 .. Len(more) PROVE more[a].call <= Len(cs)
      <4>1. CASE a \in 1 .. Len(tries)
        BY <1>9, <3>1, <4>1
      <4>2. CASE a = Len(tries) + 1
        BY <1>1, <3>2, <4>2
      <4>3. a \in 1 .. Len(tries) \/ a = Len(tries) + 1
        BY <1>1, <1>9
      <4> QED BY <4>1, <4>2, <4>3
    <3> QED BY <1>8, <3>3
  <2>4. /\ Cardinality(AttemptsOf(more, Len(cs))) <= s.attempt
        /\ s.attempt \in Nat /\ MaxAttempts \in Nat /\ s.attempt <= MaxAttempts
        /\ Cardinality(AttemptsOf(tries, Len(cs))) \in Nat
    <3>1. Cardinality(AttemptsOf(tries, Len(cs))) \in Nat
      BY <1>1, AttemptsFinite
    <3>2. s.attempt \in Nat /\ MaxAttempts \in Nat /\ s.attempt <= MaxAttempts
      BY <1>1, Numbers, GatewayAssumption DEF StreamType
    <3>3. Cardinality(AttemptsOf(tries, Len(cs))) + 1 <= s.attempt
      BY <1>3, <2>1 DEF BudgetOK
    <3> QED BY <1>9, <3>1, <3>2, <3>3
  <2>5. \A i \in 1 .. Len(ds) : Cardinality(AttemptsOf(more, i)) <= MaxAttempts
    <3>1. \A i \in 1 .. Len(cs) : Cardinality(AttemptsOf(tries, i)) <= MaxAttempts
      BY <1>3 DEF BudgetOK
    <3>2. Cardinality(AttemptsOf(more, Len(cs))) <= MaxAttempts
      BY <1>9, <2>4
    <3> QED BY <1>8, <1>9, <3>1, <3>2
  <2>6. Cardinality(AttemptsOf(more, Len(ds))) + Ahead(u) <= u.attempt
    BY <1>8, <1>9, <1>10, <2>1, <2>4 DEF Same
  <2> QED BY <2>2, <2>3, <2>5, <2>6 DEF BudgetOK
<1>13. PlaceOK(u) /\ SpeakersOK(u, more) /\ PlannedOK(u, ds)
  BY <1>1, <1>3, <1>10 DEF PlaceOK, SpeakersOK, PlannedOK, Silent, Same
<1>14. LastOK(u, ds)
  BY <1>3, <1>7, <1>8, <1>10 DEF LastOK, Same, InAttempt
<1>15. RunningOK(u, ds, more)
  <2>1. \A i \in 1 .. Len(ds) : i = Len(ds) \/ ds[i].status # "running"
    BY <1>8, <1>11
  <2>2. ASSUME NEW i \in 1 .. Len(more), i # Len(more) PROVE more[i].status # "running"
    <3>1. i \in 1 .. Len(tries)
      BY <1>1, <1>9, <2>2
    <3> QED BY <1>9, <1>11, <3>1
  <2>3. Len(more) > 0 /\ more[Len(more)].call = Len(ds)
    BY <1>1, <1>8, <1>9
  <2> QED BY <1>10, <2>1, <2>2, <2>3 DEF RunningOK, Streaming, InAttempt
<1>16. RunOK(u, ds, more)
  BY <1>8, <1>12, <1>13, <1>14, <1>15 DEF RunOK
<1>17. Probes(u) => Probes(s) /\ u.plans = s.plans
  BY <1>1, <1>10 DEF Probes, Streaming, Same
<1> HIDE DEF cs, tries
<1> QED BY <1>1, <1>2, <1>5, <1>8, <1>9, <1>10, <1>16, <1>17, OneRun

\* The attempt goes on with what it has.
LEMMA AttemptGoesOn ==
    ASSUME IInv, NEW r \in Runs, stream[r].pc \in {"started", "streaming"},
           NEW u \in StreamType, u.pc \in {"streaming", "failing"}, Same(u, stream[r]),
           u.late = stream[r].late, stream' = [stream EXCEPT ![r] = u],
           UNCHANGED <<circuit, calls, attempts, state>>
    PROVE  IInv'
<1> DEFINE s == stream[r]
           cs == calls[r]
           tries == attempts[r]
<1>1. /\ s \in StreamType /\ cs \in Seq(CallType) /\ tries \in Seq(AttemptType)
      /\ RunOK(s, cs, tries) /\ calls' = [calls EXCEPT ![r] = cs]
      /\ attempts' = [attempts EXCEPT ![r] = tries] /\ state' \in [Runs -> SUBSET Targets]
  BY RunFacts
<1> HIDE DEF s, cs, tries
<1>2. /\ s.pc \in {"started", "streaming"} /\ Same(u, s) /\ u.late = s.late /\ stream[r] = s
  BY DEF s
<1>3. BudgetOK(u, cs, tries)
  <2>1. u.budget <= s.budget /\ Ahead(u) <= Ahead(s) /\ s.pc \in InCall
    BY <1>1, <1>2 DEF StreamType, Ahead, InCall, Streaming, Same
  <2> QED BY <1>1, <1>2, <2>1, BudgetKept DEF RunOK, Same
<1>4. PlaceOK(u) /\ SpeakersOK(u, tries) /\ PlannedOK(u, cs)
  BY <1>1, <1>2 DEF RunOK, PlaceOK, SpeakersOK, PlannedOK, Silent, Same
<1>5. LastOK(u, cs)
  BY <1>1, <1>2 DEF RunOK, LastOK, InCall, Streaming, InAttempt, Same
<1>6. RunningOK(u, cs, tries)
  BY <1>1, <1>2 DEF RunOK, RunningOK, Streaming, InAttempt
<1>7. RunOK(u, cs, tries)
  BY <1>1, <1>3, <1>4, <1>5, <1>6 DEF RunOK
<1>8. Probes(u) => Probes(s) /\ u.plans = s.plans
  BY <1>2 DEF Probes, Streaming, Same
<1> QED BY <1>1, <1>2, <1>7, <1>8, OneRun

\* The attempt comes into its try.
LEMMA EnterAttemptStep ==
    ASSUME IInv, NEW r \in Runs, EnterAttempt(r)
    PROVE  IInv'
<1> DEFINE u == [stream[r] EXCEPT !.pc = "streaming"]
<1>1. /\ stream[r] \in StreamType /\ stream[r].pc = "started"
      /\ stream' = [stream EXCEPT ![r] = u] /\ UNCHANGED <<circuit, calls, attempts, state>>
  BY RunFacts DEF EnterAttempt, At, Goto, ledger
<1>2. u \in StreamType /\ u.pc = "streaming" /\ u.late = stream[r].late /\ Same(u, stream[r])
  BY <1>1, Moved, StreamingPlaces
<1> HIDE DEF u
<1> QED BY <1>1, <1>2, AttemptGoesOn

\* The attempt breaks, or its generator is closed: there is an error to handle.
LEMMA BreakStep ==
    ASSUME IInv, NEW r \in Runs, NEW error \in Errors, Break(r, error)
    PROVE  IInv'
<1> DEFINE v == [stream[r] EXCEPT !.pc = "failing"]
           u == [v EXCEPT !.error = error]
<1>1. /\ stream[r] \in StreamType /\ stream[r].pc = "streaming"
      /\ UNCHANGED <<circuit, calls, attempts, state>>
  BY RunFacts DEF Break, At, ledger
<1>2. stream' = [stream EXCEPT ![r] = u]
  BY DEF Break
<1>3. v \in StreamType /\ v.pc = "failing" /\ v.late = stream[r].late /\ Same(v, stream[r])
  BY <1>1, Moved, StreamingPlaces
<1> HIDE DEF v
<1>4. u \in StreamType /\ u.pc = "failing" /\ u.late = v.late
  BY <1>3 DEF StreamType
<1>5. /\ u.plans = v.plans /\ u.attempt = v.attempt /\ u.budget = v.budget
      /\ u.begun = v.begun /\ u.output = v.output /\ u.speakers = v.speakers
  BY <1>3 DEF StreamType
<1> HIDE DEF u
<1>6. Same(u, stream[r]) /\ u.late = stream[r].late
  BY <1>3, <1>4, <1>5 DEF Same
<1> QED BY <1>1, <1>2, <1>4, <1>6, AttemptGoesOn

\* The attempt under way gives output, to its row and to the session.
LEMMA OutputStep ==
    ASSUME IInv, NEW r \in Runs, Output(r)
    PROVE  IInv'
<1> DEFINE s == stream[r]
           cs == calls[r]
           tries == attempts[r]
           row == [cs[Len(cs)] EXCEPT !.output = TRUE]
           ds == [cs EXCEPT ![Len(cs)] = row]
           said == s.speakers \cup {Len(tries)}
           u == [s EXCEPT !.output = TRUE, !.speakers = said]
<1>1. /\ s \in StreamType /\ cs \in Seq(CallType) /\ tries \in Seq(AttemptType)
      /\ RunOK(s, cs, tries) /\ s.pc = "streaming" /\ Len(tries) \in Nat /\ Len(cs) \in Nat
      /\ attempts' = [attempts EXCEPT ![r] = tries] /\ UNCHANGED circuit
      /\ state \in [Runs -> SUBSET Targets]
  BY RunFacts DEF Output, At
<1>2. /\ calls' = [calls EXCEPT ![r] = ds] /\ stream' = [stream EXCEPT ![r] = u]
  BY DEF Output
<1>3. /\ Len(cs) > 0 /\ LedgerOK(cs) /\ cs[Len(cs)].status = "running"
      /\ cs[Len(cs)].target = TargetOf(s.plans)
      /\ s.speakers \subseteq {Len(tries)} /\ s.plans # {}
  BY <1>1 DEF RunOK, LastOK, SpeakersOK, PlaceOK, InCall, Streaming, InAttempt
<1>4. state' \in [Runs -> SUBSET Targets]
  <2>1. Target(r) = TargetOf(s.plans) /\ s.plans \in SUBSET Targets
    BY <1>1 DEF Target, TargetOf, StreamType
  <2>2. Target(r) \in Targets
    BY <1>3, <2>1, FirstTarget, GatewayAssumption
  <2> QED BY <1>1, <2>2 DEF Output
<1>5. cs[Len(cs)] \in CallType
  BY <1>1, <1>3, ElementOfSeq
<1>6. /\ row \in CallType /\ row.target = cs[Len(cs)].target /\ row.from = cs[Len(cs)].from
      /\ row.output = TRUE /\ row.status = "running"
  BY <1>3, <1>5 DEF CallType
<1> HIDE DEF row
<1>7. /\ ds \in Seq(CallType) /\ Len(ds) = Len(cs) /\ ds[Len(cs)] = row
      /\ \A i \in 1 .. Len(cs) : i # Len(cs) => ds[i] = cs[i]
      /\ LedgerOK(ds)
  BY <1>1, <1>3, <1>6, LastRow
<1> HIDE DEF ds
<1>8. said = {Len(tries)} /\ said \in SUBSET Nat
  BY <1>1, <1>3
<1> HIDE DEF said
<1>9. /\ u \in StreamType /\ u.pc = "streaming" /\ u.plans = s.plans /\ u.attempt = s.attempt
      /\ u.budget = s.budget /\ u.begun = s.begun /\ u.output = TRUE /\ u.speakers = said
      /\ u.late = s.late
  BY <1>1, <1>8 DEF StreamType
<1> HIDE DEF u
<1>10. BudgetOK(u, ds, tries)
  <2>1. u.budget <= s.budget /\ Ahead(u) <= Ahead(s) /\ s.pc \in InCall
    BY <1>1, <1>9 DEF StreamType, Ahead, InCall, Streaming
  <2> QED BY <1>1, <1>7, <1>9, <2>1, BudgetKept DEF RunOK
<1>11. PlaceOK(u) /\ SpeakersOK(u, tries) /\ PlannedOK(u, ds)
  BY <1>3, <1>8, <1>9 DEF PlaceOK, SpeakersOK, PlannedOK, Silent
<1>12. LastOK(u, ds)
  BY <1>3, <1>6, <1>7, <1>9 DEF LastOK, InAttempt
<1>13. RunningOK(u, ds, tries)
  BY <1>1, <1>7, <1>9 DEF RunOK, RunningOK, Streaming, InAttempt
<1>14. RunOK(u, ds, tries)
  BY <1>7, <1>10, <1>11, <1>12, <1>13 DEF RunOK
<1>15. Probes(u) => Probes(s) /\ u.plans = s.plans
  BY <1>1, <1>9 DEF Probes
<1> HIDE DEF cs, tries
<1> QED BY <1>1, <1>2, <1>4, <1>7, <1>9, <1>14, <1>15, OneRun

\* The adapter is done with an attempt, well or badly: the attempt is finished,
\* its call is not.
LEMMA AttemptEnds ==
    ASSUME IInv, NEW r \in Runs, stream[r].pc \in {"streaming", "failing"},
           NEW status \in {"completed", "failed", "interrupted", "cancelled"},
           FinishAttempt(r, status), NEW u \in StreamType, u.pc \in {"completing", "recording"},
           Same(u, stream[r]), u.late = stream[r].late, stream' = [stream EXCEPT ![r] = u],
           UNCHANGED <<circuit, calls, state>>
    PROVE  IInv'
<1> DEFINE s == stream[r]
           cs == calls[r]
           tries == attempts[r]
<1>1. /\ s \in StreamType /\ cs \in Seq(CallType) /\ tries \in Seq(AttemptType)
      /\ RunOK(s, cs, tries) /\ calls' = [calls EXCEPT ![r] = cs]
      /\ state' \in [Runs -> SUBSET Targets]
  BY RunFacts
<1>2. PICK more \in Seq(AttemptType) :
          /\ attempts' = [attempts EXCEPT ![r] = more] /\ Len(more) = Len(tries)
          /\ \A a \in 1 .. Len(more) : /\ more[a].call = tries[a].call
                                       /\ more[a].status # "running"
          /\ \A i : AttemptsOf(more, i) = AttemptsOf(tries, i)
  BY FinishAttemptStep
<1> HIDE DEF s, cs, tries
<1>3. s.pc \in {"streaming", "failing"} /\ Same(u, s) /\ u.late = s.late /\ stream[r] = s
  BY DEF s
<1>4. BudgetOK(u, cs, more)
  <2>1. u.budget <= s.budget /\ Ahead(u) <= Ahead(s) /\ s.pc \in InCall
    BY <1>1, <1>3 DEF StreamType, Ahead, InCall, Streaming, Same
  <2> QED BY <1>1, <1>2, <1>3, <2>1, BudgetKept DEF RunOK, Same
<1>5. PlaceOK(u) /\ SpeakersOK(u, more) /\ LastOK(u, cs) /\ PlannedOK(u, cs)
  BY <1>1, <1>2, <1>3
    DEF RunOK, PlaceOK, SpeakersOK, LastOK, PlannedOK, InCall, Silent, Streaming, InAttempt,
        Same
<1>6. RunningOK(u, cs, more)
  BY <1>1, <1>2, <1>3 DEF RunOK, RunningOK, Streaming, InAttempt
<1>7. RunOK(u, cs, more)
  BY <1>1, <1>4, <1>5, <1>6 DEF RunOK
<1>8. Probes(u) => Probes(s) /\ u.plans = s.plans
  BY <1>3 DEF Probes, Streaming, Same
<1> QED BY <1>1, <1>2, <1>3, <1>7, <1>8, OneRun

\* The attempt is done.
LEMMA CompleteStep ==
    ASSUME IInv, NEW r \in Runs, Complete(r)
    PROVE  IInv'
<1> DEFINE u == [stream[r] EXCEPT !.pc = "completing"]
<1>1. /\ stream[r] \in StreamType /\ stream[r].pc = "streaming" /\ FinishAttempt(r, "completed")
      /\ stream' = [stream EXCEPT ![r] = u] /\ UNCHANGED <<circuit, calls, state>>
  BY RunFacts DEF Complete, At, Goto
<1>2. u \in StreamType /\ u.pc = "completing" /\ u.late = stream[r].late /\ Same(u, stream[r])
  BY <1>1, Moved, StreamingPlaces
<1> HIDE DEF u
<1> QED BY <1>1, <1>2, AttemptEnds

\* The attempt failed: its row tells whether it gave output.
LEMMA FailAttemptStep ==
    ASSUME IInv, NEW r \in Runs, FailAttempt(r)
    PROVE  IInv'
<1> DEFINE u == [stream[r] EXCEPT !.pc = "recording"]
<1>1. /\ stream[r] \in StreamType /\ stream[r].pc = "failing" /\ FinishAttempt(r, Broken(r))
      /\ stream' = [stream EXCEPT ![r] = u] /\ UNCHANGED <<circuit, calls, state>>
  BY RunFacts DEF FailAttempt, At, Goto
<1>2. Broken(r) \in {"failed", "interrupted"}
  BY DEF Broken
<1>3. u \in StreamType /\ u.pc = "recording" /\ u.late = stream[r].late /\ Same(u, stream[r])
  BY <1>1, Moved, StreamingPlaces
<1> HIDE DEF u
<1> QED BY <1>1, <1>2, <1>3, AttemptEnds

\* The call is done as well.
LEMMA CompleteCallStep ==
    ASSUME IInv, NEW r \in Runs, CompleteCall(r)
    PROVE  IInv'
<1> DEFINE s == stream[r]
           cs == calls[r]
           tries == attempts[r]
           u == [s EXCEPT !.pc = "succeeded"]
<1>1. /\ s \in StreamType /\ cs \in Seq(CallType) /\ tries \in Seq(AttemptType)
      /\ RunOK(s, cs, tries) /\ s.pc = "completing" /\ FinishCall(r, "completed")
      /\ attempts' = [attempts EXCEPT ![r] = tries] /\ stream' = [stream EXCEPT ![r] = u]
      /\ state' \in [Runs -> SUBSET Targets] /\ UNCHANGED circuit
  BY RunFacts DEF CompleteCall, At, Goto
<1>2. u \in StreamType /\ u.pc = "succeeded" /\ u.late = s.late /\ Same(u, s)
  BY <1>1, MovedIn
<1>3. s.pc \in InCall /\ stream[r].pc \in InCall /\ FinishCall(r, "completed")
  BY <1>1 DEF InCall, Streaming
<1>4. PICK ds \in Seq(CallType) :
          /\ calls' = [calls EXCEPT ![r] = ds] /\ Len(ds) = Len(cs) /\ LedgerOK(ds)
          /\ ds[Len(ds)].target = TargetOf(s.plans)
          /\ ds[Len(ds)].output = s.output
          /\ \A i \in 1 .. Len(ds) : ds[i].status # "running"
  BY <1>3, FinishCallStep
<1>5. \A i \in 1 .. Len(tries) : tries[i].status # "running"
  BY <1>1, NothingRuns DEF InAttempt
<1> HIDE DEF u, s, cs, tries
<1>6. BudgetOK(u, ds, tries)
  <2>1. u.budget <= s.budget /\ Ahead(u) <= Ahead(s)
    BY <1>1, <1>2 DEF StreamType, Ahead, Same
  <2> QED BY <1>1, <1>2, <1>3, <1>4, <2>1, BudgetKept DEF RunOK, Same
<1>7. LastOK(u, ds)
  <2>1. Len(ds) > 0
    BY <1>1, <1>3, <1>4 DEF RunOK, LastOK
  <2> QED BY <1>2, <1>4, <2>1 DEF LastOK, Same, InAttempt
<1>8. PlaceOK(u) /\ SpeakersOK(u, tries) /\ PlannedOK(u, ds) /\ RunningOK(u, ds, tries)
  BY <1>1, <1>2, <1>4, <1>5
    DEF RunOK, PlaceOK, SpeakersOK, PlannedOK, RunningOK, Silent, Same, InAttempt
<1>9. RunOK(u, ds, tries)
  BY <1>4, <1>6, <1>7, <1>8 DEF RunOK
<1>10. Probes(u) => Probes(stream[r]) /\ u.plans = stream[r].plans
  BY <1>1, <1>2 DEF Probes, Streaming, Same, s
<1> QED BY <1>1, <1>2, <1>4, <1>9, <1>10, OneRun

\* The call is tried again, or fails as its attempt did.
LEMMA HandleFailureStep ==
    ASSUME IInv, NEW r \in Runs, HandleFailure(r)
    PROVE  IInv'
<1> DEFINE s == stream[r]
           cs == calls[r]
           tries == attempts[r]
<1>1. /\ s \in StreamType /\ cs \in Seq(CallType) /\ tries \in Seq(AttemptType)
      /\ RunOK(s, cs, tries) /\ s.pc = "recorded" /\ Len(cs) \in Nat
      /\ attempts' = [attempts EXCEPT ![r] = tries]
      /\ state' \in [Runs -> SUBSET Targets] /\ UNCHANGED <<circuit, attempts, state>>
  BY RunFacts DEF HandleFailure, At
<1>2. CASE ~CanRetry(r)
  <2> DEFINE u == [s EXCEPT !.pc = "failed"]
  <2>1. u \in StreamType /\ u.pc = "failed" /\ Same(u, s)
    BY <1>1, MovedIn
  <2>2. stream' = [stream EXCEPT ![r] = u] /\ FinishCall(r, Broken(r))
    BY <1>2 DEF HandleFailure, Goto
  <2> HIDE DEF u
  <2> QED BY <1>1, <2>1, <2>2, RaiseStep
<1>3. CASE CanRetry(r)
  <2> DEFINE e == IF cs[Len(cs)].status = "running" THEN "retrying" ELSE cs[Len(cs)].status
             row == [cs[Len(cs)] EXCEPT !.status = e]
             ds == [cs EXCEPT ![Len(cs)] = row]
             v == [s EXCEPT !.pc = "attempting"]
             u == [v EXCEPT !.error = NULL]
  <2>1. stream' = [stream EXCEPT ![r] = u] /\ ~s.output /\ s.attempt < MaxAttempts
    BY <1>3 DEF HandleFailure, CanRetry
  <2>2. calls' = [calls EXCEPT ![r][Len(calls[r])].status = e]
    BY <1>3, Zenon DEF HandleFailure
  <2>3. u \in StreamType /\ u.pc = "attempting" /\ Same(u, s)
    <3>1. v \in StreamType /\ v.pc = "attempting" /\ Same(v, s)
      BY <1>1, MovedIn
    <3> HIDE DEF v
    <3>2. u \in StreamType /\ u.pc = "attempting"
      BY <3>1 DEF StreamType
    <3>3. /\ u.plans = v.plans /\ u.attempt = v.attempt /\ u.budget = v.budget
          /\ u.begun = v.begun /\ u.output = v.output /\ u.speakers = v.speakers
      BY <3>1 DEF StreamType
    <3> QED BY <3>1, <3>2, <3>3 DEF Same
  <2> HIDE DEF u
  <2>4. /\ Len(cs) > 0 /\ LedgerOK(cs) /\ cs[Len(cs)].status = "running"
        /\ cs[Len(cs)].target = TargetOf(s.plans) /\ cs[Len(cs)].output = s.output
    BY <1>1 DEF RunOK, LastOK, InCall, Streaming
  <2>5. e = "retrying"
    BY <2>4
  <2> HIDE DEF e
  <2>6. calls' = [calls EXCEPT ![r] = ds]
    BY <2>2
  <2>7. cs[Len(cs)] \in CallType
    BY <1>1, <2>4, ElementOfSeq
  <2>8. /\ row \in CallType /\ row.target = cs[Len(cs)].target /\ row.from = cs[Len(cs)].from
        /\ row.output = cs[Len(cs)].output /\ row.status = "retrying"
    BY <2>5, <2>7 DEF CallType
  <2> HIDE DEF row
  <2>9. /\ ds \in Seq(CallType) /\ Len(ds) = Len(cs) /\ ds[Len(cs)] = row
        /\ \A i \in 1 .. Len(cs) : i # Len(cs) => ds[i] = cs[i]
        /\ LedgerOK(ds)
    BY <1>1, <2>4, <2>8, LastRow
  <2> HIDE DEF ds
  <2>10. BudgetOK(u, ds, tries)
    <3>1. u.budget <= s.budget /\ Ahead(u) <= Ahead(s) /\ s.pc \in InCall
      BY <1>1, <2>3 DEF StreamType, Ahead, InCall, Streaming, Same
    <3> QED BY <1>1, <2>3, <2>9, <3>1, BudgetKept DEF RunOK, Same
  <2>11. PlaceOK(u) /\ SpeakersOK(u, tries) /\ PlannedOK(u, ds)
    BY <1>1, <2>1, <2>3 DEF RunOK, PlaceOK, SpeakersOK, PlannedOK, Same
  <2>12. LastOK(u, ds)
    BY <2>3, <2>4, <2>8, <2>9 DEF LastOK, Same, InAttempt
  <2>13. RunningOK(u, ds, tries)
    <3>1. \A i \in 1 .. Len(tries) : tries[i].status # "running"
      BY <1>1, NothingRuns DEF InAttempt
    <3>2. \A i \in 1 .. Len(ds) : ds[i].status # "running"
      BY <1>1, <2>8, <2>9 DEF RunOK, RunningOK
    <3> QED BY <2>3, <3>1, <3>2 DEF RunningOK, InAttempt
  <2>14. RunOK(u, ds, tries) /\ ~Probes(u)
    BY <2>3, <2>9, <2>10, <2>11, <2>12, <2>13 DEF RunOK, Probes, Streaming
  <2> HIDE DEF s, cs, tries
  <2> QED BY <1>1, <2>1, <2>3, <2>6, <2>9, <2>14, OneRun
<1> QED BY <1>2, <1>3

\* Circuits are kept when no attempt is let in and none of them opens.
LEMMA CircuitsStep ==
    ASSUME IInv, \A t \in Targets : circuit'[t].status \in {circuit[t].status, "closed"},
           \A q \in Runs : Probes(stream'[q]) =>
               Probes(stream[q]) /\ TargetOf(stream'[q].plans) = TargetOf(stream[q].plans)
    PROVE  \A t \in Targets : CircuitOK(t)'
<1> SUFFICES ASSUME NEW t \in Targets PROVE CircuitOK(t)'
  OBVIOUS
<1>1. CircuitOK(t)
  BY DEF IInv
<1>2. circuit'[t].status = circuit[t].status \/ circuit'[t].status = "closed"
  OBVIOUS
<1> QED BY <1>1, <1>2 DEF CircuitOK

\* The circuit is told of a success, and closed.
LEMMA RecordSuccessStep ==
    ASSUME IInv, NEW r \in Runs, RecordSuccess(r)
    PROVE  IInv'
<1> DEFINE s == stream[r]
           cs == calls[r]
           tries == attempts[r]
           u == Left(s, "idle", NULL)
<1>1. /\ s \in StreamType /\ cs \in Seq(CallType) /\ tries \in Seq(AttemptType)
      /\ RunOK(s, cs, tries) /\ s.pc = "succeeded"
      /\ attempts' = [attempts EXCEPT ![r] = tries] /\ calls' = [calls EXCEPT ![r] = cs]
      /\ stream' = [stream EXCEPT ![r] = u] /\ circuit' = [circuit EXCEPT ![Target(r)] = Closed]
      /\ state' \in [Runs -> SUBSET Targets] /\ circuit \in [Targets -> CircuitType]
  BY RunFacts DEF RecordSuccess, At, ledger, Leave, Left
<1>2. /\ \A i \in 1 .. Len(cs) : cs[i].status # "running"
      /\ \A i \in 1 .. Len(tries) : tries[i].status # "running"
  BY <1>1, NothingRuns DEF InAttempt
<1>3. BudgetOK(s, cs, tries) /\ LedgerOK(cs)
  BY <1>1 DEF RunOK
<1>4. u \in StreamType /\ RunOK(u, cs, tries) /\ ~Probes(u)
  BY <1>1, <1>2, <1>3, LeftOK
<1>5. Closed \in CircuitType /\ Closed.status = "closed"
  BY DEF Closed, CircuitType
<1> HIDE DEF u, s, cs, tries
<1>6. /\ circuit' \in [Targets -> CircuitType]
      /\ \A t \in Targets : circuit'[t].status \in {circuit[t].status, "closed"}
  BY <1>1, <1>5
<1>7. /\ TypeOK' /\ \A q \in Runs : RunOK(stream'[q], calls'[q], attempts'[q])
      /\ \A q \in Runs : stream'[q] = IF q = r THEN u ELSE stream[q]
  BY <1>1, <1>4, <1>6, RunRows
<1>8. \A q \in Runs : Probes(stream'[q]) =>
          Probes(stream[q]) /\ TargetOf(stream'[q].plans) = TargetOf(stream[q].plans)
  BY <1>4, <1>7
<1>9. \A t \in Targets : CircuitOK(t)'
  BY <1>6, <1>8, CircuitsStep
<1> QED BY <1>7, <1>9 DEF IInv

\* A failed attempt is recorded.  When its circuit opens, whoever is under way with
\* the target is late, so that nobody probes it.
LEMMA RecordFailureStep ==
    ASSUME IInv, NEW r \in Runs, RecordFailure(r)
    PROVE  IInv'
<1> DEFINE s == stream[r]
           cs == calls[r]
           tries == attempts[r]
           t == Target(r)
           row == Failed(circuit[t])
           u == [s EXCEPT !.pc = "recorded"]
<1>1. /\ s \in StreamType /\ cs \in Seq(CallType) /\ tries \in Seq(AttemptType)
      /\ RunOK(s, cs, tries) /\ s.pc = "recording"
      /\ attempts' = [attempts EXCEPT ![r] = tries] /\ calls' = [calls EXCEPT ![r] = cs]
      /\ state' \in [Runs -> SUBSET Targets] /\ circuit \in [Targets -> CircuitType]
      /\ UNCHANGED <<calls, attempts, state>>
  BY RunFacts DEF RecordFailure, At, ledger
<1>2. u \in StreamType /\ u.pc = "recorded" /\ u.late = s.late /\ Same(u, s)
  BY <1>1, Moved, StreamingPlaces
<1> HIDE DEF u
<1>3. RunOK(u, cs, tries) /\ ~Probes(u)
  <2> HIDE DEF s, cs, tries
  <2>1. BudgetOK(u, cs, tries)
    <3>1. u.budget <= s.budget /\ Ahead(u) <= Ahead(s) /\ s.pc \in InCall
      BY <1>1, <1>2 DEF StreamType, Ahead, InCall, Streaming, Same
    <3> QED BY <1>1, <1>2, <3>1, BudgetKept DEF RunOK, Same
  <2>2. /\ PlaceOK(u) /\ SpeakersOK(u, tries) /\ LastOK(u, cs) /\ PlannedOK(u, cs)
        /\ RunningOK(u, cs, tries)
    BY <1>1, <1>2
      DEF RunOK, PlaceOK, SpeakersOK, LastOK, PlannedOK, RunningOK, InCall, Silent, Streaming,
          Same, InAttempt
  <2> QED BY <1>1, <1>2, <2>1, <2>2 DEF RunOK, Probes
<1>4. CASE Goto(r, "recorded") /\ UNCHANGED circuit
  <2>1. stream' = [stream EXCEPT ![r] = u]
    BY <1>4 DEF Goto, u
  <2> HIDE DEF s, cs, tries
  <2> QED BY <1>1, <1>2, <1>3, <1>4, <2>1, OneRun
<1>5. CASE /\ circuit' = [circuit EXCEPT ![t] = row]
           /\ stream' = [q \in Runs |->
                 IF q = r THEN [stream[r] EXCEPT !.pc = "recorded"]
                 ELSE IF row.status = "open" /\ stream[q].plans # {} /\ Target(q) = t
                      THEN [stream[q] EXCEPT !.late = TRUE]
                      ELSE stream[q]]
  <2>1. t = TargetOf(s.plans) /\ t \in Targets
    <3>1. t = TargetOf(s.plans) /\ s.plans \in SUBSET Targets /\ s.plans # {}
      BY <1>1 DEF Target, TargetOf, RunOK, PlaceOK, StreamType
    <3> QED BY <3>1, FirstTarget, GatewayAssumption
  <2>2. row \in CircuitType
    <3>1. circuit[t] \in CircuitType
      BY <1>1, <2>1
    <3> DEFINE count == IF circuit[t].fresh THEN circuit[t].failures + 1 ELSE 1
    <3>2. count \in Nat
      BY <3>1 DEF CircuitType
    <3> DEFINE status == IF circuit[t].status = "half_open" \/ count >= Threshold
                         THEN "open" ELSE "closed"
    <3>3. status \in {"closed", "open"}
      OBVIOUS
    <3>4. row = [status |-> status, failures |-> count, fresh |-> TRUE, due |-> FALSE]
      BY DEF Failed
    <3> HIDE DEF count, status, row
    <3> QED BY <3>2, <3>3, <3>4 DEF CircuitType
  <2>3. row.status \in {"open", "closed"}
    BY DEF Failed
  <2> HIDE DEF row
  <2>4. stream'[r] = u
    BY <1>5 DEF u
  <2>5. ASSUME NEW q \in Runs \ {r}
        PROVE  /\ stream'[q] \in StreamType /\ stream'[q].pc = stream[q].pc
               /\ Same(stream'[q], stream[q]) /\ stream'[q].error = stream[q].error
               /\ stream'[q].from = stream[q].from
               /\ Probes(stream'[q]) => Probes(stream[q])
               /\ row.status = "open" /\ Probes(stream'[q]) => TargetOf(stream[q].plans) # t
    <3> DEFINE v == [stream[q] EXCEPT !.late = TRUE]
    <3>1. stream[q] \in StreamType /\ RunOK(stream[q], calls[q], attempts[q])
      BY RunFacts
    <3>2. v \in StreamType /\ v.pc = stream[q].pc /\ v.error = stream[q].error /\ v.late = TRUE
          /\ v.from = stream[q].from
      BY <3>1 DEF StreamType
    <3>3. /\ v.plans = stream[q].plans /\ v.attempt = stream[q].attempt
          /\ v.budget = stream[q].budget /\ v.begun = stream[q].begun
      BY <3>1 DEF StreamType
    <3>4. v.output = stream[q].output /\ v.speakers = stream[q].speakers
      BY <3>1 DEF StreamType
    <3>5. stream'[q] = IF row.status = "open" /\ stream[q].plans # {} /\ Target(q) = t
                       THEN v ELSE stream[q]
      BY <1>5
    <3> HIDE DEF v
    <3>6. ~Probes(v)
      BY <3>2 DEF Probes
    <3>7. Probes(stream[q]) => stream[q].plans # {}
      BY <3>1 DEF Probes, RunOK, PlaceOK, Streaming
    <3>8. Target(q) = TargetOf(stream[q].plans)
      BY DEF Target, TargetOf
    <3>9. CASE stream'[q] = v
      BY <3>2, <3>3, <3>4, <3>6, <3>9 DEF Same
    <3>10. CASE stream'[q] = stream[q] /\ ~(row.status = "open" /\ stream[q].plans # {}
                                            /\ Target(q) = t)
      BY <3>1, <3>7, <3>8, <3>10 DEF Same
    <3> QED BY <3>5, <3>9, <3>10
  <2>6. TypeOK'
    <3>1. stream' \in [Runs -> StreamType]
      <4>1. \A q \in Runs : stream'[q] \in StreamType
        BY <1>2, <2>4, <2>5
      <4>2. stream' = [q \in Runs |-> stream'[q]]
        BY <1>5
      <4> QED BY <4>1, <4>2
    <3>2. circuit' \in [Targets -> CircuitType]
      BY <1>1, <1>5, <2>1, <2>2
    <3>3. /\ calls' \in [Runs -> Seq(CallType)] /\ attempts' \in [Runs -> Seq(AttemptType)]
      BY <1>1 DEF IInv, TypeOK
    <3> QED BY <1>1, <3>1, <3>2, <3>3 DEF TypeOK
  <2>7. ASSUME NEW q \in Runs PROVE RunOK(stream'[q], calls'[q], attempts'[q])
    <3>1. CASE q = r
      BY <1>1, <1>3, <2>4, <3>1
    <3>2. CASE q # r
      <4> DEFINE w == stream[q]
                 x == stream'[q]
                 ds == calls[q]
                 more == attempts[q]
      <4>1. /\ x \in StreamType /\ x.pc = w.pc /\ Same(x, w) /\ x.error = w.error
            /\ x.from = w.from
        BY <2>5, <3>2
      <4>2. /\ w \in StreamType /\ ds \in Seq(CallType) /\ more \in Seq(AttemptType)
            /\ RunOK(w, ds, more)
        BY RunFacts
      <4>3. calls'[q] = ds /\ attempts'[q] = more
        BY <1>1
      <4> HIDE DEF w, x, ds, more
      <4>4. BudgetOK(x, ds, more)
        <5>1. x.budget <= w.budget /\ Ahead(x) <= Ahead(w)
          BY <4>1, <4>2 DEF StreamType, Ahead, Same
        <5> QED BY <4>1, <4>2, <5>1, BudgetKept DEF RunOK, Same
      <4>5. /\ PlaceOK(x) /\ SpeakersOK(x, more) /\ LastOK(x, ds) /\ PlannedOK(x, ds)
            /\ RunningOK(x, ds, more)
        BY <4>1, <4>2 DEF RunOK, PlaceOK, SpeakersOK, LastOK, PlannedOK, RunningOK, Same
      <4>6. RunOK(x, ds, more)
        BY <4>2, <4>4, <4>5 DEF RunOK
      <4> QED BY <4>3, <4>6 DEF x
    <3> QED BY <3>1, <3>2
  <2>8. ASSUME NEW c \in Targets PROVE CircuitOK(c)'
    <3>1. CircuitOK(c)
      BY DEF IInv
    <3>2. \A q \in Runs : Probes(stream'[q]) =>
              /\ q # r /\ Probes(stream[q])
              /\ TargetOf(stream'[q].plans) = TargetOf(stream[q].plans)
      BY <1>3, <2>4, <2>5 DEF Same
    <3>3. CASE c # t
      <4>1. circuit'[c] = circuit[c]
        BY <1>1, <1>5, <3>3
      <4> QED BY <3>1, <3>2, <4>1 DEF CircuitOK
    <3>4. CASE c = t
      <4>1. circuit'[c] = row
        BY <1>1, <1>5, <2>1, <3>4
      <4>2. row.status = "open" =>
                \A q \in Runs : Probes(stream'[q]) => TargetOf(stream'[q].plans) # t
        BY <2>5, <3>2
      <4> HIDE DEF t
      <4> QED BY <2>3, <3>4, <4>1, <4>2 DEF CircuitOK
    <3> QED BY <3>3, <3>4
  <2> QED BY <2>6, <2>7, <2>8 DEF IInv
<1> QED BY <1>4, <1>5 DEF RecordFailure

\* Time passes for a circuit.
LEMMA TimeStep ==
    ASSUME IInv, NEW t \in Targets, WindowEnds(t) \/ RetryDue(t)
    PROVE  IInv'
<1>1. circuit \in [Targets -> CircuitType] /\ UNCHANGED <<calls, attempts, stream, state>>
  BY DEF IInv, TypeOK, WindowEnds, RetryDue, ledger
<1>2. PICK row \in CircuitType :
          row.status = circuit[t].status /\ circuit' = [circuit EXCEPT ![t] = row]
  <2>1. circuit[t] \in CircuitType
    BY <1>1
  <2>2. CASE WindowEnds(t)
    <3> DEFINE row == [circuit[t] EXCEPT !.fresh = FALSE]
    <3>1. row \in CircuitType /\ row.status = circuit[t].status
      BY <2>1 DEF CircuitType
    <3>2. circuit' = [circuit EXCEPT ![t] = row]
      BY <2>2 DEF WindowEnds
    <3> QED BY <3>1, <3>2
  <2>3. CASE RetryDue(t)
    <3> DEFINE row == [circuit[t] EXCEPT !.due = TRUE]
    <3>1. row \in CircuitType /\ row.status = circuit[t].status
      BY <2>1 DEF CircuitType
    <3>2. circuit' = [circuit EXCEPT ![t] = row]
      BY <2>3 DEF RetryDue
    <3> QED BY <3>1, <3>2
  <2> QED BY <2>2, <2>3
<1>3. /\ circuit' \in [Targets -> CircuitType]
      /\ \A c \in Targets : circuit'[c].status \in {circuit[c].status, "closed"}
  BY <1>1, <1>2
<1>4. \A c \in Targets : CircuitOK(c)'
  BY <1>1, <1>3, CircuitsStep
<1>5. TypeOK' /\ \A q \in Runs : RunOK(stream'[q], calls'[q], attempts'[q])
  BY <1>1, <1>3 DEF IInv, TypeOK
<1> QED BY <1>4, <1>5 DEF IInv

\* A stream that is cancelled inside a call: the row of the call is finished, and
\* that of the attempt if the stream is in its try.
LEMMA EndedInCall ==
    ASSUME IInv, NEW r \in Runs, stream[r].pc \in InCall, FinishCall(r, "cancelled"),
           IF stream[r].pc = "streaming" THEN FinishAttempt(r, "cancelled")
                                         ELSE UNCHANGED attempts,
           Leave(r, "done", NULL), UNCHANGED <<circuit, state>>
    PROVE  IInv'
<1> DEFINE s == stream[r]
           cs == calls[r]
           tries == attempts[r]
           u == Left(s, "done", NULL)
<1>1. /\ s \in StreamType /\ cs \in Seq(CallType) /\ tries \in Seq(AttemptType)
      /\ RunOK(s, cs, tries) /\ attempts = [attempts EXCEPT ![r] = tries]
      /\ stream' = [stream EXCEPT ![r] = u] /\ state' \in [Runs -> SUBSET Targets]
  BY RunFacts DEF Leave, Left
<1>2. PICK ds \in Seq(CallType) :
          /\ calls' = [calls EXCEPT ![r] = ds] /\ Len(ds) = Len(cs) /\ LedgerOK(ds)
          /\ cs[Len(ds)].status \in {"planned", "running", "retrying"} =>
                 ds[Len(ds)].status = "cancelled"
          /\ \A i \in 1 .. Len(ds) : ds[i].status # "running"
  BY FinishCallStep
<1>3. PICK more \in Seq(AttemptType) :
          /\ attempts' = [attempts EXCEPT ![r] = more] /\ Len(more) = Len(tries)
          /\ \A a \in 1 .. Len(more) : more[a].call = tries[a].call
          /\ \A a \in 1 .. Len(more) : more[a].status = "running" =>
                 a = Len(more) /\ ds[more[a].call].status = "cancelled"
          /\ \A i : AttemptsOf(more, i) = AttemptsOf(tries, i)
  <2>1. CASE s.pc = "streaming"
    BY <2>1, FinishAttemptStep
  <2>2. CASE s.pc # "streaming"
    <3>1. attempts' = [attempts EXCEPT ![r] = tries]
      BY <1>1, <2>2
    <3>2. RunningOK(s, cs, tries) /\ LastOK(s, cs) /\ s.pc \in InCall
      BY <1>1 DEF RunOK
    <3> HIDE DEF tries, cs, s
    <3>3. ASSUME NEW a \in 1 .. Len(tries), tries[a].status = "running"
          PROVE  a = Len(tries) /\ ds[tries[a].call].status = "cancelled"
      <4>1. a = Len(tries) /\ s.pc \in InAttempt
        BY <3>2, <3>3 DEF RunningOK, InCall, Streaming
      <4>2. tries[a].call = Len(cs) /\ cs[Len(cs)].status = "running"
        BY <3>2, <4>1 DEF RunningOK, LastOK
      <4> QED BY <1>2, <4>1, <4>2
    <3> QED BY <1>1, <3>1, <3>3
  <2> QED BY <2>1, <2>2
<1>4. BudgetOK(s, cs, tries)
  BY <1>1 DEF RunOK
<1>6. u \in StreamType /\ RunOK(u, ds, more) /\ ~Probes(u)
  BY <1>1, <1>2, <1>3, <1>4, LeftOK
<1> HIDE DEF u, s, cs, tries
<1> QED BY <1>1, <1>2, <1>3, <1>6, OneRun

\* The run is cancelled, at any place.
LEMMA CancelStep ==
    ASSUME IInv, NEW r \in Runs, Cancel(r)
    PROVE  IInv'
<1>1. CASE stream[r].pc \in {"planned", "created", "failed"}
  <2> DEFINE u == Left(stream[r], "done", NULL)
  <2>1. /\ stream[r] \in StreamType /\ calls[r] \in Seq(CallType)
        /\ attempts[r] \in Seq(AttemptType) /\ RunOK(stream[r], calls[r], attempts[r])
        /\ attempts' = [attempts EXCEPT ![r] = attempts[r]]
        /\ calls' = [calls EXCEPT ![r] = calls[r]]
        /\ stream' = [stream EXCEPT ![r] = u]
        /\ state' \in [Runs -> SUBSET Targets] /\ UNCHANGED circuit
    BY <1>1, RunFacts DEF Cancel, ledger, Leave, Left
  <2>2. /\ \A i \in 1 .. Len(calls[r]) : calls[r][i].status # "running"
        /\ \A i \in 1 .. Len(attempts[r]) : attempts[r][i].status # "running"
    BY <1>1, NothingRuns DEF InAttempt
  <2>3. BudgetOK(stream[r], calls[r], attempts[r]) /\ LedgerOK(calls[r])
    BY <2>1 DEF RunOK
  <2>4. u \in StreamType /\ RunOK(u, calls[r], attempts[r]) /\ ~Probes(u)
    BY <2>1, <2>2, <2>3, LeftOK
  <2> HIDE DEF u
  <2> QED BY <2>1, <2>4, OneRun
<1>2. CASE stream[r].pc \notin {"planned", "created", "failed"}
  <2>1. /\ stream[r].pc \in InCall /\ Leave(r, "done", NULL) /\ UNCHANGED <<circuit, state>>
        /\ CancelRows(r)
    BY <1>2 DEF Cancel, InCall
  <2>2. /\ FinishCall(r, "cancelled")
        /\ IF stream[r].pc = "streaming" THEN FinishAttempt(r, "cancelled") ELSE UNCHANGED attempts
    BY <2>1 DEF CancelRows, At
  <2> QED BY <2>1, <2>2, EndedInCall
<1> QED BY <1>1, <1>2

-----------------------------------------------------------------------------
(* The invariant.                                                          *)

\* Nothing was asked yet.
LEMMA InitIInv ==
    ASSUME Init
    PROVE  IInv
<1>1. NoStream \in StreamType
  <2>1. 0 \in 0 .. RouteAttempts /\ 0 \in 0 .. MaxAttempts
    BY Numbers, GatewayAssumption
  <2> QED BY <2>1 DEF NoStream, StreamType
<1>2. Closed \in CircuitType /\ Closed.status = "closed"
  BY DEF Closed, CircuitType
<1>3. TypeOK
  BY <1>1, <1>2 DEF Init, TypeOK
<1>4. ASSUME NEW r \in Runs PROVE RunOK(stream[r], calls[r], attempts[r])
  <2>1. stream[r] = NoStream /\ calls[r] = <<>> /\ attempts[r] = <<>>
    BY DEF Init
  <2>2. /\ NoStream.pc = "idle" /\ NoStream.plans = {} /\ NoStream.output = FALSE
        /\ NoStream.speakers = {} /\ NoStream.budget = 0 /\ NoStream.begun = 0
    BY DEF NoStream
  <2>3. Len(calls[r]) = 0 /\ Len(attempts[r]) = 0
    BY <2>1
  <2> HIDE DEF NoStream
  <2>4. RouteAttempts * 0 = 0 /\ 0 <= RunAttempts
    BY Numbers, GatewayAssumption
  <2>5. BudgetOK(stream[r], calls[r], attempts[r])
    BY <2>1, <2>2, <2>3, <2>4 DEF BudgetOK, Ahead, InCall, Streaming
  <2> QED BY <2>1, <2>2, <2>3, <2>5
        DEF RunOK, PlaceOK, SpeakersOK, LastOK, PlannedOK, LedgerOK, RunningOK, InCall, Silent,
            Streaming, InAttempt
<1>5. \A t \in Targets : CircuitOK(t)
  BY <1>2 DEF Init, CircuitOK
<1> QED BY <1>3, <1>4, <1>5 DEF IInv

\* Every step keeps the invariant.
LEMMA NextIInv ==
    ASSUME IInv, [Next]_vars
    PROVE  IInv'
<1>1. CASE UNCHANGED vars
  <2>1. UNCHANGED <<circuit, calls, attempts, stream, state>>
    BY <1>1 DEF vars
  <2>2. TypeOK' /\ \A q \in Runs : RunOK(stream'[q], calls'[q], attempts'[q])
    BY <2>1 DEF IInv, TypeOK
  <2>3. \A t \in Targets : CircuitOK(t)'
    BY <2>1 DEF IInv, CircuitOK
  <2> QED BY <2>2, <2>3 DEF IInv
<1>2. ASSUME NEW r \in Runs, BeginStream(r) \/ Quarantine(r)
      PROVE  IInv'
  BY <1>2, BeginStreamStep, QuarantineStep
<1>3. ASSUME NEW r \in Runs, Work(r)
      PROVE  IInv'
  BY <1>3, CreateCallStep, FallbackStep, EnterCallStep, BeginAttemptStep, AcquireStep,
     StartAttemptStep, EnterAttemptStep, CompleteStep, CompleteCallStep, BreakStep,
     FailAttemptStep, HandleFailureStep, RecordSuccessStep, RecordFailureStep DEF Work, Errors
<1>4. ASSUME NEW r \in Runs, Output(r) \/ Cancel(r) \/ Close(r)
      PROVE  IInv'
  BY <1>4, OutputStep, CancelStep, BreakStep DEF Close, Errors
<1>5. ASSUME NEW t \in Targets, WindowEnds(t) \/ RetryDue(t)
      PROVE  IInv'
  BY <1>5, TimeStep
<1> QED BY <1>1, <1>2, <1>3, <1>4, <1>5 DEF Next

\* The gateway keeps its invariant, whatever runs do together.
THEOREM InvariantHolds == Spec => []IInv
<1>1. Init => IInv
  BY InitIInv
<1>2. IInv /\ [Next]_vars => IInv'
  BY NextIInv
<1> QED BY <1>1, <1>2, PTL DEF Spec

\* Type correctness.
THEOREM TypeCorrect == Spec => []TypeOK
<1>1. IInv => TypeOK
  BY DEF IInv
<1> QED BY <1>1, InvariantHolds, PTL

\* A set whose members are all the same has one at most.
LEMMA AtMostOne ==
    ASSUME NEW S, \A x, y \in S : x = y
    PROVE  Cardinality(S) <= 1
<1>1. CASE S = {}
  BY <1>1, FS_EmptySet
<1>2. CASE S # {}
  <2>1. PICK x : S = {x}
    BY <1>2
  <2> QED BY <2>1, FS_Singleton
<1> QED BY <1>1, <1>2

\* The semantic-output barrier of ProviderGateway.stream, for any route and any
\* number of attempts: the output of one stream is that of one attempt.
THEOREM OneAttemptSpeaks == Spec => []OneSpeaker
<1>1. ASSUME IInv PROVE OneSpeaker
  <2>1. SUFFICES ASSUME NEW r \in Runs PROVE Cardinality(stream[r].speakers) <= 1
    BY DEF OneSpeaker
  <2>2. stream[r].speakers \subseteq {Len(attempts[r])}
    BY <1>1, RunFacts DEF RunOK, SpeakersOK
  <2>3. \A x, y \in stream[r].speakers : x = y
    BY <2>2
  <2> QED BY <2>3, AtMostOne
<1>2. IInv => OneSpeaker
  BY <1>1
<1> QED BY <1>2, InvariantHolds, PTL

\* The rows of llm_calls tell failed from interrupted, and fall back from failed
\* calls of earlier targets only.
THEOREM CausesAreTold == Spec => []LedgerTellsCauses
<1>1. ASSUME IInv PROVE LedgerTellsCauses
  <2>1. SUFFICES ASSUME NEW r \in Runs, NEW i \in DOMAIN calls[r]
                 PROVE  /\ calls[r][i].status = "failed" => ~calls[r][i].output
                        /\ calls[r][i].status = "interrupted" => calls[r][i].output
                        /\ calls[r][i].from # 0 =>
                               /\ calls[r][i].from < i
                               /\ calls[r][calls[r][i].from].status = "failed"
                               /\ calls[r][calls[r][i].from].target < calls[r][i].target
    BY DEF LedgerTellsCauses
  <2>2. calls[r] \in Seq(CallType) /\ LedgerOK(calls[r])
    BY <1>1, RunFacts DEF RunOK
  <2>3. i \in 1 .. Len(calls[r])
    BY <2>2, LenProperties
  <2> QED BY <2>2, <2>3 DEF LedgerOK
<1>2. IInv => LedgerTellsCauses
  BY <1>1
<1> QED BY <1>2, InvariantHolds, PTL

\* No failure or close leaves a row of the ledger running, and a cancellation
\* leaves at most the attempt of a call that it marks as cancelled.
THEOREM NothingIsLeftRunning == Spec => []RunningIsReal
<1>1. ASSUME IInv PROVE RunningIsReal
  <2>1. SUFFICES ASSUME NEW r \in Runs
                 PROVE  /\ \A i \in DOMAIN calls[r] : calls[r][i].status = "running" =>
                               i = Len(calls[r])
                               /\ stream[r].pc \in Streaming \ {"starting", "succeeded"}
                        /\ \A i \in DOMAIN attempts[r] : attempts[r][i].status = "running" =>
                               \/ /\ i = Len(attempts[r])
                                  /\ stream[r].pc \in {"started", "streaming", "failing"}
                               \/ calls[r][attempts[r][i].call].status = "cancelled"
    BY DEF RunningIsReal
  <2>2. /\ calls[r] \in Seq(CallType) /\ attempts[r] \in Seq(AttemptType)
        /\ RunningOK(stream[r], calls[r], attempts[r])
    BY <1>1, RunFacts DEF RunOK
  <2>3. DOMAIN calls[r] = 1 .. Len(calls[r]) /\ DOMAIN attempts[r] = 1 .. Len(attempts[r])
    BY <2>2, LenProperties
  <2> QED BY <2>2, <2>3 DEF RunningOK, InAttempt
<1>2. IInv => RunningIsReal
  BY <1>1
<1> QED BY <1>2, InvariantHolds, PTL

\* Retries, fallbacks and the attempts of later streams keep to every budget.
THEOREM BudgetsAreKept == Spec => []WithinBudgets
<1>1. ASSUME IInv PROVE WithinBudgets
  <2>1. SUFFICES ASSUME NEW r \in Runs
                 PROVE  /\ Len(attempts[r]) <= RunAttempts
                        /\ Len(attempts[r]) <= RouteAttempts * stream[r].begun
                        /\ \A i \in DOMAIN calls[r] :
                               Cardinality({a \in DOMAIN attempts[r] : attempts[r][a].call = i})
                                   <= MaxAttempts
    BY DEF WithinBudgets
  <2>2. /\ calls[r] \in Seq(CallType) /\ attempts[r] \in Seq(AttemptType)
        /\ BudgetOK(stream[r], calls[r], attempts[r]) /\ stream[r] \in StreamType
        /\ Len(attempts[r]) \in Nat
    BY <1>1, RunFacts DEF RunOK
  <2>3. DOMAIN calls[r] = 1 .. Len(calls[r]) /\ DOMAIN attempts[r] = 1 .. Len(attempts[r])
    BY <2>2, LenProperties
  <2>4. \A i \in DOMAIN calls[r] :
            Cardinality({a \in DOMAIN attempts[r] : attempts[r][a].call = i}) <= MaxAttempts
    BY <2>2, <2>3 DEF BudgetOK, AttemptsOf
  <2>5. /\ Ahead(stream[r]) \in Nat /\ stream[r].budget \in Nat
        /\ RunAttempts \in Int /\ RouteAttempts * stream[r].begun \in Int
    BY <2>2, StreamNumbers
  <2>6. Len(attempts[r]) <= RunAttempts /\ Len(attempts[r]) <= RouteAttempts * stream[r].begun
    <3>1. /\ Len(attempts[r]) + stream[r].budget + Ahead(stream[r])
                 <= RouteAttempts * stream[r].begun
          /\ Len(attempts[r]) + Ahead(stream[r]) <= RunAttempts
      BY <2>2 DEF BudgetOK
    <3> QED BY <2>2, <2>5, <3>1
  <2> QED BY <2>4, <2>6
<1>2. IInv => WithinBudgets
  BY <1>1
<1> QED BY <1>2, InvariantHolds, PTL

\* provider_circuits: a half-open circuit lets one attempt through, whatever late
\* answers of older attempts decide meanwhile.
THEOREM ProbesAreSingle == Spec => []SingleProbe
<1>1. ASSUME IInv PROVE SingleProbe
  <2>1. SUFFICES ASSUME NEW t \in Targets, circuit[t].status = "half_open"
                 PROVE  Cardinality({r \in Runs : /\ stream[r].pc \in Streaming \ {"recorded"}
                                                  /\ Target(r) = t /\ ~stream[r].late}) <= 1
    BY DEF SingleProbe
  <2> DEFINE S == {r \in Runs : /\ stream[r].pc \in Streaming \ {"recorded"}
                                /\ Target(r) = t /\ ~stream[r].late}
  <2>2. \A q \in S : q \in Runs /\ Probes(stream[q]) /\ TargetOf(stream[q].plans) = t
    BY DEF Probes, Target, TargetOf
  <2>3. CircuitOK(t)
    BY <1>1 DEF IInv
  <2>4. \A q, r \in S : q = r
    BY <2>1, <2>2, <2>3 DEF CircuitOK
  <2> HIDE DEF S
  <2>5. Cardinality(S) <= 1
    BY <2>4, AtMostOne
  <2> QED BY <2>5 DEF S
<1>2. IInv => SingleProbe
  BY <1>1
<1> QED BY <1>2, InvariantHolds, PTL
=============================================================================
