-------------------------- MODULE DelegationProofs --------------------------
(* Proofs about Delegation, and the worktrees of AgentWorkspaces under it, *)
(* for any number of delegations, releases, inspections, edits and crashes. *)
EXTENDS Delegation, TLAPS

-----------------------------------------------------------------------------
(* The workspaces.                                                         *)

RowType     == [status : W!RowStatus, dirty : BOOLEAN]
DiskType    == [dir : BOOLEAN, dirty : BOOLEAN, branch : BOOLEAN, ahead : BOOLEAN]
ReleaseType == [pc : {"none", "asked", "inspected", "marked", "counted", "removed"},
                force : BOOLEAN, ahead : BOOLEAN]

WorkTypeOK ==
    /\ row \in [Delegations -> RowType]
    /\ disk \in [Delegations -> DiskType]
    /\ release \in [Delegations -> ReleaseType]
    /\ look \in [Delegations -> BOOLEAN]
    /\ lock \in [Delegations -> {"free", "retain", "release"}]
    /\ lost \in [Delegations -> SUBSET {"changes", "commits"}]

\* A release has the lock once it has inspected, and the row is no longer retained
\* once it has marked it; who retains has seen the directory, and has the lock.
WorkOK(c) ==
    /\ release[c].pc \notin {"none", "asked"} => lock[c] = "release"
    /\ release[c].pc \in {"marked", "counted", "removed"} => row[c].status # "retained"
    /\ release[c].pc # "none" => row[c].status # "none"
    /\ lock[c] = "retain" => disk[c].dir
    /\ row[c].status = "retained" => disk[c].dir

WorkInv == WorkTypeOK /\ \A c \in Delegations : WorkOK(c)

-----------------------------------------------------------------------------
(* The calls.                                                              *)

\* Before its own session, if it makes one; with a child that has a session.
Fresh   == {"idle", "asking", "starting", "adding", "added", "creating"}
Working == {"checked", "inspected", "reading", "linking", "preparing", "waiting",
            "stopping", "orphan", "recording", "retaining", "retained"}

CallType == [pc : Fresh \cup Working \cup Ended, child : Delegations \cup {NULL},
             run : {"none", "spawned", "active", "stop", "error", "raised", "signalled",
                    "cancelled"},
             seen : Nat, attempt : Nat, status : {"none", "completed", "failed"},
             sync : {"none", "ok", "error"}]

CallTypeOK ==
    /\ call \in [Delegations -> CallType]
    /\ sessions \subseteq Delegations /\ busy \subseteq sessions /\ raced \subseteq Delegations

\* What a call holds at each of its places.
CallOK(d) ==
    /\ call[d].pc \in Fresh => d \notin sessions
    /\ call[d].pc \in {"idle", "asking", "starting"} \cup Ended => call[d].child = NULL
    /\ call[d].pc \in {"adding", "added", "creating"} => call[d].child = d
    /\ call[d].pc \in Working => call[d].child \in sessions
    /\ call[d].run = "spawned" => call[d].pc \in {"waiting", "orphan"}
    /\ call[d].run = "active" => call[d].pc \in {"waiting", "stopping", "orphan"} /\ call[d].child \in busy
    /\ call[d].pc = "recording" => call[d].status = StatusOf(call[d].run)
    /\ call[d].sync # "none" => call[d].pc \in {"retaining", "retained"} \cup Ended

CallInv == CallTypeOK /\ OneRunPerChild /\ \A d \in Delegations : CallOK(d)

\* A delegation that prepares its child has the child's directory, unless it is about
\* to make it or to look for it.
Equipped(d) == Preparing(d) /\ call[d].pc \notin {"adding", "checked"}

\* A release that has counted knows whether there are commits on the branch.
Counts(c) == release[c].pc \in {"counted", "removed"} /\ disk[c].ahead => release[c].ahead

\* No release goes on beside a delegation that prepares the child or runs it.
SafeOK(c) ==
    c \notin raced =>
        /\ release[c].pc # "none" =>
              c \notin busy /\ \A d \in Delegations : call[d].child = c => ~Preparing(d)
        /\ Counts(c)
        /\ \A d \in Delegations : call[d].child = c =>
              /\ Equipped(d) => disk[c].dir
              /\ call[d].pc = "checked" => row[c].status # "released"
        /\ c \in busy => disk[c].dir
        /\ "commits" \notin lost[c]

\* The row of the task that is delegated: without a plan it was never started, and it
\* runs in an attempt.
RowOK(r) ==
    /\ r \in T!TaskType
    /\ r.plan = 0 => r.status = "none"
    /\ r.status = "none" => r.attempt = 0
    /\ r.status = "running" => r.attempt > 0

\* No call has a later attempt than the task.
PlanInv ==
    /\ DOMAIN task = Tasks /\ RowOK(task[PlanTask])
    /\ \A d \in Delegations : call[d].attempt <= task[PlanTask].attempt
    /\ AttemptIsFollowed

\* The inductive invariant.
DelegationInv == WorkInv /\ CallInv /\ PlanInv /\ \A c \in Delegations : SafeOK(c)

-----------------------------------------------------------------------------
(* The steps of a workspace.                                               *)

\* The workspaces of other children stay as they are.
Others(c) ==
    \A e \in Delegations \ {c} :
        /\ row'[e] = row[e] /\ disk'[e] = disk[e] /\ release'[e] = release[e]
        /\ lock'[e] = lock[e] /\ lost'[e] = lost[e]

\* A step of one workspace, and of a release of it.
OneWorkspace(c) == Others(c) /\ WorkTypeOK' /\ WorkOK(c)'

LEMMA WorkStep ==
    ASSUME WorkInv, NEW c \in Delegations, OneWorkspace(c)
    PROVE  WorkInv'
<1>1. ASSUME NEW e \in Delegations PROVE WorkOK(e)'
  <2>1. CASE e = c
    BY <2>1 DEF OneWorkspace
  <2>2. CASE e # c
    BY <2>2 DEF OneWorkspace, Others, WorkInv, WorkOK
  <2> QED BY <2>1, <2>2
<1> QED BY <1>1 DEF OneWorkspace, WorkInv

LEMMA NoReleaseType == W!NoRelease \in ReleaseType /\ W!NoRelease.pc = "none"
BY DEF W!NoRelease, ReleaseType

\* Mark: a row gets another status.
LEMMA MarkRow ==
    ASSUME WorkInv, NEW c \in Delegations, NEW status \in W!RowStatus, W!Mark(c, status)
    PROVE  /\ row' \in [Delegations -> RowType] /\ row'[c].status = status
           /\ row'[c].dirty = row[c].dirty /\ \A e \in Delegations \ {c} : row'[e] = row[e]
BY DEF W!Mark, WorkInv, WorkTypeOK, RowType

\* inspect: the row of a child without its directory is missing.
LEMMA InspectRow ==
    ASSUME WorkInv, NEW c \in Delegations, W!InspectWrites(c)
    PROVE  /\ row' \in [Delegations -> RowType] /\ \A e \in Delegations \ {c} : row'[e] = row[e]
           /\ row'[c].status = IF disk[c].dir THEN row[c].status ELSE "missing"
<1> DEFINE new == IF disk[c].dir THEN [row[c] EXCEPT !.dirty = disk[c].dirty]
                                 ELSE [row[c] EXCEPT !.status = "missing"]
<1>1. row[c] \in RowType /\ disk[c] \in DiskType
  BY DEF WorkInv, WorkTypeOK
<1>2. new \in RowType /\ new.status = IF disk[c].dir THEN row[c].status ELSE "missing"
  BY <1>1 DEF RowType, DiskType, W!RowStatus
<1>3. row' = [row EXCEPT ![c] = new]
  BY DEF W!InspectWrites
<1> HIDE DEF new
<1> QED BY <1>2, <1>3 DEF WorkInv, WorkTypeOK

\* A step that only marks a row, with a status that says nothing about its directory.
LEMMA MarkStep ==
    ASSUME WorkInv, NEW c \in Delegations, NEW status \in W!RowStatus \ {"none", "retained"},
           W!Mark(c, status), UNCHANGED <<disk, release, lock, lost>>, look' \in [Delegations -> BOOLEAN]
    PROVE  OneWorkspace(c)
<1>1. /\ row' \in [Delegations -> RowType] /\ row'[c].status = status
      /\ \A e \in Delegations \ {c} : row'[e] = row[e]
  BY MarkRow
<1> QED BY <1>1 DEF OneWorkspace, Others, WorkInv, WorkTypeOK, WorkOK

LEMMA ProvisionRowStep ==
    ASSUME WorkInv, NEW c \in Delegations, W!ProvisionRow(c)
    PROVE  OneWorkspace(c)
BY MarkStep DEF W!ProvisionRow, W!RowStatus, WorkInv, WorkTypeOK

LEMMA ProvisionEndsStep ==
    ASSUME WorkInv, NEW c \in Delegations, NEW ok \in BOOLEAN, W!ProvisionEnds(c, ok)
    PROVE  OneWorkspace(c)
<1> DEFINE status == IF ok THEN "ready" ELSE "failed"
<1>1. status \in W!RowStatus \ {"none", "retained"} /\ W!Mark(c, status)
  BY DEF W!ProvisionEnds, W!RowStatus
<1> HIDE DEF status
<1> QED BY <1>1, MarkStep DEF W!ProvisionEnds, WorkInv, WorkTypeOK

LEMMA ResumeEndsStep ==
    ASSUME WorkInv, NEW c \in Delegations, W!ResumeEnds(c)
    PROVE  OneWorkspace(c)
BY MarkStep DEF W!ResumeEnds, W!RowStatus, WorkInv, WorkTypeOK

LEMMA LookStep ==
    ASSUME WorkInv, NEW c \in Delegations, W!LookFindsNothing(c) \/ W!LookWrites(c)
    PROVE  OneWorkspace(c)
<1>1. CASE W!LookFindsNothing(c)
  BY <1>1 DEF W!LookFindsNothing, OneWorkspace, Others, WorkInv, WorkTypeOK, WorkOK
<1>2. CASE W!LookWrites(c)
  <2>1. look' \in [Delegations -> BOOLEAN]
    BY <1>2 DEF W!LookWrites, WorkInv, WorkTypeOK
  <2> QED BY <1>2, <2>1, MarkStep DEF W!LookWrites, W!RowStatus
<1> QED BY <1>1, <1>2

\* git makes a worktree, or the child writes in it.
LEMMA DiskStep ==
    ASSUME WorkInv, NEW c \in Delegations, NEW new \in DiskType, new.dir,
           disk' = [disk EXCEPT ![c] = new], UNCHANGED <<row, release, look, lock, lost>>
    PROVE  OneWorkspace(c) /\ disk'[c] = new
BY DEF OneWorkspace, Others, WorkInv, WorkTypeOK, WorkOK

LEMMA AddWorktreeStep ==
    ASSUME WorkInv, NEW c \in Delegations, W!AddWorktree(c)
    PROVE  OneWorkspace(c) /\ disk'[c].dir /\ disk'[c].ahead = disk[c].ahead
<1> DEFINE new == [disk[c] EXCEPT !.dir = TRUE, !.branch = TRUE]
<1>1. disk[c] \in DiskType
  BY DEF WorkInv, WorkTypeOK
<1>2. new \in DiskType /\ new.dir /\ new.ahead = disk[c].ahead
  BY <1>1 DEF DiskType
<1>3. disk' = [disk EXCEPT ![c] = new]
  BY DEF W!AddWorktree
<1> HIDE DEF new
<1> QED BY <1>2, <1>3, DiskStep DEF W!AddWorktree

LEMMA EditsStep ==
    ASSUME WorkInv, NEW c \in Delegations, W!Edits(c)
    PROVE  OneWorkspace(c) /\ disk'[c].dir
<1>1. disk[c] \in DiskType /\ disk[c].dir
  BY DEF WorkInv, WorkTypeOK, W!Edits
<1>2. PICK new \in {[disk[c] EXCEPT !.dirty = TRUE],
                    [disk[c] EXCEPT !.dirty = FALSE, !.ahead = TRUE]} :
          disk' = [disk EXCEPT ![c] = new]
  BY DEF W!Edits
<1>3. new \in DiskType /\ new.dir
  BY <1>1, <1>2 DEF DiskType
<1> QED BY <1>2, <1>3, DiskStep DEF W!Edits

LEMMA ResumeInspectsStep ==
    ASSUME WorkInv, NEW c \in Delegations, W!ResumeInspects(c)
    PROVE  OneWorkspace(c)
<1>1. CASE UNCHANGED row
  BY <1>1 DEF W!ResumeInspects, OneWorkspace, Others, WorkInv, WorkTypeOK, WorkOK
<1>2. CASE W!InspectWrites(c)
  BY <1>2, InspectRow DEF W!ResumeInspects, OneWorkspace, Others, WorkInv, WorkTypeOK, WorkOK
<1> QED BY <1>1, <1>2 DEF W!ResumeInspects

\* retain: what it finds is retained under the lock.
LEMMA RetainStep ==
    ASSUME WorkInv, NEW c \in Delegations, W!Retain(c) \/ W!RetainEnds(c)
    PROVE  OneWorkspace(c)
<1>1. CASE W!Retain(c) /\ UNCHANGED row
  <2>1. lock' \in [Delegations -> {"free", "retain", "release"}]
    BY <1>1 DEF W!Retain, WorkInv, WorkTypeOK
  <2> QED BY <1>1, <2>1 DEF W!Retain, OneWorkspace, Others, WorkInv, WorkTypeOK, WorkOK
<1>2. CASE W!Retain(c) /\ W!InspectWrites(c)
  <2> DEFINE holder == IF disk[c].dir THEN "retain" ELSE "free"
  <2>1. lock[c] = "free" /\ (lock' = lock \/ lock' = [lock EXCEPT ![c] = holder])
    BY <1>2 DEF W!Retain
  <2>2. /\ lock' \in [Delegations -> {"free", "retain", "release"}]
        /\ \A e \in Delegations \ {c} : lock'[e] = lock[e]
        /\ lock'[c] = "retain" => disk[c].dir
    BY <2>1 DEF WorkInv, WorkTypeOK
  <2>3. UNCHANGED <<disk, release, look, lost>>
    BY <1>2 DEF W!Retain
  <2> HIDE DEF holder
  <2> QED BY <1>2, <2>1, <2>2, <2>3, InspectRow DEF OneWorkspace, Others, WorkInv, WorkTypeOK, WorkOK
<1>3. CASE W!RetainEnds(c)
  <2>1. /\ row' \in [Delegations -> RowType] /\ row'[c].status = "retained"
        /\ \A e \in Delegations \ {c} : row'[e] = row[e]
    BY <1>3, MarkRow DEF W!RetainEnds, W!RowStatus
  <2> QED BY <1>3, <2>1 DEF W!RetainEnds, OneWorkspace, Others, WorkInv, WorkTypeOK, WorkOK
<1> QED BY <1>1, <1>2, <1>3 DEF W!Retain

\* A step of a release: what it has counted stays true, and it throws no commit away.
Releases(c) ==
    /\ OneWorkspace(c)
    /\ Counts(c) => Counts(c)' /\ ("commits" \in lost'[c] => "commits" \in lost[c])

LEMMA ReleaseAskedStep ==
    ASSUME WorkInv, NEW c \in Delegations, NEW force \in BOOLEAN, W!ReleaseAsked(c, force)
    PROVE  /\ OneWorkspace(c) /\ Counts(c)' /\ release[c].pc = "none" /\ row' = row /\ disk' = disk
           /\ lost' = lost
<1> DEFINE new == [pc |-> "asked", force |-> force, ahead |-> FALSE]
<1>1. new \in ReleaseType /\ new.pc = "asked"
  BY DEF ReleaseType
<1>2. release' = [release EXCEPT ![c] = new]
  BY DEF W!ReleaseAsked
<1> HIDE DEF new
<1>3. /\ release' \in [Delegations -> ReleaseType] /\ release'[c].pc = "asked"
      /\ \A e \in Delegations \ {c} : release'[e] = release[e]
  BY <1>1, <1>2 DEF WorkInv, WorkTypeOK
<1>4. Counts(c)'
  BY <1>3 DEF Counts
<1> QED BY <1>3, <1>4
    DEF W!ReleaseAsked, W!ReleaseAt, OneWorkspace, Others, WorkInv, WorkTypeOK, WorkOK

\* ReleaseStops: the release is forgotten, and the lock is free.
LEMMA StopsRow ==
    ASSUME WorkInv, NEW c \in Delegations, W!ReleaseStops(c)
    PROVE  /\ release' \in [Delegations -> ReleaseType] /\ release'[c].pc = "none"
           /\ lock' \in [Delegations -> {"free", "retain", "release"}] /\ lock'[c] = "free"
           /\ \A e \in Delegations \ {c} : release'[e] = release[e] /\ lock'[e] = lock[e]
BY NoReleaseType DEF W!ReleaseStops, WorkInv, WorkTypeOK

\* ReleaseGoes: the release comes to its next place.
LEMMA GoesRow ==
    ASSUME WorkInv, NEW c \in Delegations,
           NEW pc \in {"asked", "inspected", "marked", "counted", "removed"}, W!ReleaseGoes(c, pc)
    PROVE  /\ release' \in [Delegations -> ReleaseType] /\ release'[c].pc = pc
           /\ release'[c].ahead = release[c].ahead
           /\ \A e \in Delegations \ {c} : release'[e] = release[e]
BY DEF W!ReleaseGoes, WorkInv, WorkTypeOK, ReleaseType

LEMMA ReleaseInspectsStep ==
    ASSUME WorkInv, NEW c \in Delegations, W!ReleaseInspects(c)
    PROVE  Releases(c)
<1>1. /\ lock[c] = "free" /\ release[c].pc = "asked" /\ UNCHANGED <<disk, look, lost>>
      /\ row[c].status # "none"
  BY DEF W!ReleaseInspects, W!ReleaseAt, WorkInv, WorkOK
<1>2. CASE UNCHANGED row /\ W!ReleaseStops(c)
  BY <1>1, <1>2, StopsRow DEF Releases, Counts, OneWorkspace, Others, WorkInv, WorkTypeOK, WorkOK
<1>3. CASE W!InspectWrites(c) /\ W!ReleaseStops(c)
  BY <1>1, <1>3, StopsRow, InspectRow
     DEF Releases, Counts, OneWorkspace, Others, WorkInv, WorkTypeOK, WorkOK
<1>4. CASE W!InspectWrites(c) /\ W!ReleaseGoes(c, "inspected") /\ lock' = [lock EXCEPT ![c] = "release"]
  <2>1. /\ lock' \in [Delegations -> {"free", "retain", "release"}] /\ lock'[c] = "release"
        /\ \A e \in Delegations \ {c} : lock'[e] = lock[e]
    BY <1>4 DEF WorkInv, WorkTypeOK
  <2>2. /\ release' \in [Delegations -> ReleaseType] /\ release'[c].pc = "inspected"
        /\ \A e \in Delegations \ {c} : release'[e] = release[e]
    BY <1>4, GoesRow
  <2> QED BY <1>1, <1>4, <2>1, <2>2, InspectRow
          DEF Releases, Counts, OneWorkspace, Others, WorkInv, WorkTypeOK, WorkOK
<1> QED BY <1>2, <1>3, <1>4 DEF W!ReleaseInspects

LEMMA ReleaseMarksStep ==
    ASSUME WorkInv, NEW c \in Delegations, W!ReleaseMarks(c)
    PROVE  Releases(c)
<1>1. release[c].pc = "inspected" /\ UNCHANGED <<disk, look, lost>>
  BY DEF W!ReleaseMarks, W!ReleaseAt
<1>2. CASE W!ReleaseStops(c) /\ UNCHANGED row
  BY <1>1, <1>2, StopsRow DEF Releases, Counts, OneWorkspace, Others, WorkInv, WorkTypeOK, WorkOK
<1>3. CASE W!Mark(c, "releasing") /\ W!ReleaseGoes(c, "marked") /\ UNCHANGED lock
  <2>1. /\ row' \in [Delegations -> RowType] /\ row'[c].status = "releasing"
        /\ \A e \in Delegations \ {c} : row'[e] = row[e]
    BY <1>3, MarkRow DEF W!RowStatus
  <2>2. /\ release' \in [Delegations -> ReleaseType] /\ release'[c].pc = "marked"
        /\ \A e \in Delegations \ {c} : release'[e] = release[e]
    BY <1>3, GoesRow
  <2> QED BY <1>1, <1>3, <2>1, <2>2
          DEF Releases, Counts, OneWorkspace, Others, WorkInv, WorkTypeOK, WorkOK
<1> QED BY <1>2, <1>3 DEF W!ReleaseMarks

LEMMA ReleaseCountsStep ==
    ASSUME WorkInv, NEW c \in Delegations, W!ReleaseCounts(c)
    PROVE  Releases(c)
<1>1. release[c].pc = "marked" /\ UNCHANGED <<row, disk, look, lost>>
  BY DEF W!ReleaseCounts, W!ReleaseAt
<1>2. CASE W!ReleaseStops(c)
  BY <1>1, <1>2, StopsRow DEF Releases, Counts, OneWorkspace, Others, WorkInv, WorkTypeOK, WorkOK
<1>3. CASE /\ release' = [release EXCEPT ![c].pc = "counted", ![c].ahead = disk[c].ahead]
           /\ UNCHANGED lock
  <2> DEFINE new == [release[c] EXCEPT !.pc = "counted", !.ahead = disk[c].ahead]
  <2>1. release[c] \in ReleaseType /\ disk[c].ahead \in BOOLEAN
    BY DEF WorkInv, WorkTypeOK, DiskType
  <2>2. new \in ReleaseType /\ new.pc = "counted" /\ new.ahead = disk[c].ahead
    BY <2>1 DEF ReleaseType
  <2>3. release \in [Delegations -> ReleaseType] /\ release' = [release EXCEPT ![c] = new]
    BY <1>3 DEF WorkInv, WorkTypeOK
  <2> HIDE DEF new
  <2>4. /\ release' \in [Delegations -> ReleaseType] /\ release'[c] = new
        /\ \A e \in Delegations \ {c} : release'[e] = release[e]
    BY <2>2, <2>3
  <2>5. Others(c) /\ WorkTypeOK'
    BY <1>1, <1>3, <2>4 DEF Others, WorkInv, WorkTypeOK
  <2>6. WorkOK(c)'
    BY <1>1, <1>3, <2>2, <2>4 DEF WorkInv, WorkOK
  <2>7. Counts(c)'
    BY <1>1, <2>2, <2>4 DEF Counts
  <2> QED BY <1>1, <2>5, <2>6, <2>7 DEF Releases, OneWorkspace
<1> QED BY <1>2, <1>3 DEF W!ReleaseCounts

LEMMA ReleaseFailsStep ==
    ASSUME WorkInv, NEW c \in Delegations, W!ReleaseFails(c)
    PROVE  Releases(c)
<1>1. /\ row' \in [Delegations -> RowType] /\ row'[c].status = "failed"
      /\ \A e \in Delegations \ {c} : row'[e] = row[e]
  BY MarkRow DEF W!ReleaseFails, W!RowStatus
<1> QED BY <1>1, StopsRow
    DEF W!ReleaseFails, Releases, Counts, OneWorkspace, Others, WorkInv, WorkTypeOK, WorkOK

LEMMA ReleaseRemovesStep ==
    ASSUME WorkInv, NEW c \in Delegations, W!ReleaseRemoves(c)
    PROVE  Releases(c)
<1> DEFINE new  == [disk[c] EXCEPT !.dir = FALSE, !.dirty = FALSE]
           gone == lost[c] \cup IF disk[c].dirty THEN {"changes"} ELSE {}
<1>1. /\ release[c].pc = "counted" /\ UNCHANGED <<row, look, lock>> /\ W!ReleaseGoes(c, "removed")
      /\ disk' = [disk EXCEPT ![c] = new] /\ lost' = [lost EXCEPT ![c] = gone]
  BY DEF W!ReleaseRemoves, W!ReleaseAt
<1>2. /\ new \in DiskType /\ new.ahead = disk[c].ahead
      /\ gone \in SUBSET {"changes", "commits"} /\ ("commits" \in gone => "commits" \in lost[c])
  <2>1. disk[c] \in DiskType /\ lost[c] \in SUBSET {"changes", "commits"}
    BY DEF WorkInv, WorkTypeOK
  <2> QED BY <2>1 DEF DiskType
<1> HIDE DEF new, gone
<1>3. /\ release' \in [Delegations -> ReleaseType] /\ release'[c].pc = "removed"
      /\ release'[c].ahead = release[c].ahead
      /\ \A e \in Delegations \ {c} : release'[e] = release[e]
  BY <1>1, GoesRow
<1>4. /\ disk' \in [Delegations -> DiskType] /\ disk'[c].ahead = disk[c].ahead
      /\ lost' \in [Delegations -> SUBSET {"changes", "commits"}] /\ lost'[c] = gone
      /\ \A e \in Delegations \ {c} : disk'[e] = disk[e] /\ lost'[e] = lost[e]
  BY <1>1, <1>2 DEF WorkInv, WorkTypeOK
<1>5. row[c].status # "retained" /\ lock[c] = "release" /\ row[c].status # "none"
  BY <1>1 DEF WorkInv, WorkOK
<1> QED BY <1>1, <1>2, <1>3, <1>4, <1>5
    DEF Releases, Counts, OneWorkspace, Others, WorkInv, WorkTypeOK, WorkOK

LEMMA ReleaseEndsStep ==
    ASSUME WorkInv, NEW c \in Delegations, W!ReleaseEnds(c)
    PROVE  Releases(c)
<1>1. /\ release[c].pc = "removed" /\ W!Mark(c, "released") /\ W!ReleaseStops(c) /\ UNCHANGED look
  BY DEF W!ReleaseEnds, W!ReleaseAt
<1>2. /\ row' \in [Delegations -> RowType] /\ row'[c].status = "released"
      /\ \A e \in Delegations \ {c} : row'[e] = row[e]
  BY <1>1, MarkRow DEF W!RowStatus
<1>3. CASE release[c].ahead /\ UNCHANGED <<disk, lost>>
  BY <1>1, <1>2, <1>3, StopsRow
     DEF Releases, Counts, OneWorkspace, Others, WorkInv, WorkTypeOK, WorkOK
<1>4. CASE /\ ~release[c].ahead
           /\ disk' = [disk EXCEPT ![c].branch = FALSE, ![c].ahead = FALSE]
           /\ lost' = [lost EXCEPT ![c] = @ \cup IF disk[c].ahead THEN {"commits"} ELSE {}]
  <2> DEFINE new  == [disk[c] EXCEPT !.branch = FALSE, !.ahead = FALSE]
             gone == lost[c] \cup IF disk[c].ahead THEN {"commits"} ELSE {}
  <2>1. disk' = [disk EXCEPT ![c] = new] /\ lost' = [lost EXCEPT ![c] = gone]
    BY <1>4
  <2>2. /\ new \in DiskType /\ gone \in SUBSET {"changes", "commits"}
        /\ Counts(c) => gone = lost[c]
    <3>1. disk[c] \in DiskType /\ lost[c] \in SUBSET {"changes", "commits"}
      BY DEF WorkInv, WorkTypeOK
    <3>2. Counts(c) => ~disk[c].ahead
      BY <1>1, <1>4 DEF Counts
    <3> QED BY <3>1, <3>2 DEF DiskType
  <2> HIDE DEF new, gone
  <2>3. /\ disk' \in [Delegations -> DiskType] /\ lost'[c] = gone
        /\ lost' \in [Delegations -> SUBSET {"changes", "commits"}]
        /\ \A e \in Delegations \ {c} : disk'[e] = disk[e] /\ lost'[e] = lost[e]
    BY <2>1, <2>2 DEF WorkInv, WorkTypeOK
  <2> QED BY <1>1, <1>2, <2>2, <2>3, StopsRow
          DEF Releases, Counts, OneWorkspace, Others, WorkInv, WorkTypeOK, WorkOK
<1> QED BY <1>3, <1>4 DEF W!ReleaseEnds

LEMMA ReleaseStepStep ==
    ASSUME WorkInv, NEW c \in Delegations, W!ReleaseStep(c)
    PROVE  Releases(c) /\ release[c].pc # "none"
<1>1. Releases(c)
  BY ReleaseInspectsStep, ReleaseMarksStep, ReleaseCountsStep, ReleaseRemovesStep,
     ReleaseFailsStep, ReleaseEndsStep DEF W!ReleaseStep
<1>2. release[c].pc # "none"
  BY DEF W!ReleaseStep, W!ReleaseInspects, W!ReleaseMarks, W!ReleaseCounts, W!ReleaseRemoves,
         W!ReleaseFails, W!ReleaseEnds, W!ReleaseAt
<1> QED BY <1>1, <1>2

\* A process that starts again: nobody releases, looks or has a lock, and every row
\* that was retained has its directory or is missing.
LEMMA RestartStep ==
    ASSUME WorkInv, W!RestartWorkspaces
    PROVE  /\ WorkInv' /\ \A c \in Delegations : release'[c].pc = "none"
           /\ \A c \in Delegations : row'[c].status = "released" => row[c].status = "released"
<1>1. ASSUME NEW c \in Delegations
      PROVE  /\ W!Reconciled(c) \in W!RowStatus
             /\ W!Reconciled(c) = "none" <=> row[c].status = "none"
             /\ W!Reconciled(c) = "released" => row[c].status = "released"
             /\ W!Reconciled(c) = "retained" => disk[c].dir
  <2>1. row[c].status \in W!RowStatus
    BY DEF WorkInv, WorkTypeOK, RowType
  <2>2. CASE row[c].status = "provisioning"
    BY <2>2, Zenon DEF W!Reconciled, W!RowStatus
  <2>3. CASE W!Resumable(c) /\ ~disk[c].dir
    BY <2>3 DEF W!Reconciled, W!RowStatus, W!Resumable
  <2>4. CASE row[c].status # "provisioning" /\ ~(W!Resumable(c) /\ ~disk[c].dir)
    BY <2>1, <2>4 DEF W!Reconciled, W!RowStatus, W!Resumable
  <2> QED BY <2>2, <2>3, <2>4
<1>2. /\ row' = [c \in Delegations |-> [row[c] EXCEPT !.status = W!Reconciled(c)]]
      /\ release' = [c \in Delegations |-> W!NoRelease]
      /\ look' = [c \in Delegations |-> FALSE] /\ lock' = [c \in Delegations |-> "free"]
      /\ UNCHANGED <<disk, lost>>
  BY DEF W!RestartWorkspaces
<1>3. ASSUME NEW c \in Delegations
      PROVE  row'[c] \in RowType /\ row'[c].status = W!Reconciled(c)
  BY <1>1, <1>2 DEF WorkInv, WorkTypeOK, RowType
<1>4. WorkTypeOK'
  BY <1>2, <1>3, NoReleaseType DEF WorkInv, WorkTypeOK
<1>5. ASSUME NEW c \in Delegations PROVE WorkOK(c)'
  BY <1>1, <1>2, <1>3, NoReleaseType DEF WorkOK
<1> QED BY <1>1, <1>2, <1>3, <1>4, <1>5, NoReleaseType DEF WorkInv

-----------------------------------------------------------------------------
(* The steps of a call.                                                    *)

\* One call moves, and the sessions and runs with it.
LEMMA CallKept ==
    ASSUME CallInv, NEW d \in Delegations,
           call' \in [Delegations -> CallType], \A e \in Delegations \ {d} : call'[e] = call[e],
           CallOK(d)', raced' \subseteq Delegations,
           \/ sessions' = sessions
           \/ call[d].pc = "creating" /\ sessions' = sessions \cup {d},
           \/ busy' = busy
           \/ busy' = busy \cup {call[d].child} /\ call[d].child \in sessions
           \/ /\ call[d].run = "active" /\ call'[d].run # "active"
              /\ busy' = busy \ {call[d].child},
           call'[d].run = "active" =>
               \/ call[d].run = "active" /\ call'[d].child = call[d].child
               \/ call'[d].child \notin busy
    PROVE  CallInv'
<1>1. /\ call \in [Delegations -> CallType] /\ sessions \subseteq Delegations /\ busy \subseteq sessions
      /\ \A e \in Delegations : CallOK(e)
  BY DEF CallInv, CallTypeOK
<1>2. CallTypeOK'
  BY <1>1 DEF CallTypeOK
<1>3. ASSUME NEW e \in Delegations, e # d PROVE CallOK(e)'
  <2>1. call'[e] = call[e] /\ CallOK(e)
    BY <1>1, <1>3
  <2>2. e \in sessions' => e \in sessions
    BY <1>3
  <2>3. sessions \subseteq sessions'
    OBVIOUS
  <2>4. call[e].run = "active" => call[e].child \in busy'
    BY <1>3, <2>1 DEF CallOK, CallInv, OneRunPerChild
  <2> QED BY <2>1, <2>2, <2>3, <2>4 DEF CallOK
<1>4. OneRunPerChild'
  <2> SUFFICES ASSUME NEW e \in Delegations, NEW f \in Delegations, call'[e].run = "active",
                      call'[f].run = "active", call'[e].child = call'[f].child, e # f
               PROVE  FALSE
    BY DEF OneRunPerChild
  <2>1. ASSUME NEW g \in Delegations, g # d, call'[g].run = "active"
        PROVE  call[g].run = "active" /\ call[g].child = call'[g].child /\ call[g].child \in busy
    BY <1>1, <2>1 DEF CallOK
  <2>2. CASE e # d /\ f # d
    BY <2>1, <2>2 DEF CallInv, OneRunPerChild
  <2>3. CASE e = d
    BY <2>1, <2>3 DEF CallInv, OneRunPerChild
  <2>4. CASE f = d
    BY <2>1, <2>4 DEF CallInv, OneRunPerChild
  <2> QED BY <2>2, <2>3, <2>4
<1> QED BY <1>2, <1>3, <1>4 DEF CallInv

\* The call is at another place.
LEMMA GoesCall ==
    ASSUME CallInv, NEW d \in Delegations, NEW pc \in Fresh \cup Working \cup Ended, Goes(d, pc)
    PROVE  /\ call' \in [Delegations -> CallType] /\ \A e \in Delegations \ {d} : call'[e] = call[e]
           /\ call'[d].pc = pc /\ call'[d].child = call[d].child /\ call'[d].run = call[d].run
           /\ call'[d].attempt = call[d].attempt /\ call'[d].status = call[d].status
           /\ call'[d].sync = call[d].sync
<1> DEFINE new == [call[d] EXCEPT !.pc = pc]
<1>1. call[d] \in CallType /\ call' = [call EXCEPT ![d] = new]
  BY DEF CallInv, CallTypeOK, Goes
<1>2. /\ new \in CallType /\ new.pc = pc /\ new.child = call[d].child /\ new.run = call[d].run
      /\ new.attempt = call[d].attempt /\ new.status = call[d].status /\ new.sync = call[d].sync
  BY <1>1 DEF CallType
<1> HIDE DEF new
<1> QED BY <1>1, <1>2 DEF CallInv, CallTypeOK

LEMMA EndedRow ==
    ASSUME CallInv, NEW d \in Delegations, NEW pc \in Ended
    PROVE  /\ EndedCall(d, pc) \in CallType /\ EndedCall(d, pc).pc = pc
           /\ EndedCall(d, pc).child = NULL /\ EndedCall(d, pc).run = "none"
           /\ EndedCall(d, pc).attempt = call[d].attempt /\ EndedCall(d, pc).sync = call[d].sync
<1>1. call[d] \in CallType
  BY DEF CallInv, CallTypeOK
<1> QED BY <1>1 DEF EndedCall, CallType

LEMMA EndsCall ==
    ASSUME CallInv, NEW d \in Delegations, NEW pc \in Ended, Ends(d, pc)
    PROVE  /\ call' \in [Delegations -> CallType] /\ \A e \in Delegations \ {d} : call'[e] = call[e]
           /\ call'[d].pc = pc /\ call'[d].child = NULL /\ call'[d].run = "none"
           /\ call'[d].attempt = call[d].attempt /\ call'[d].sync = call[d].sync
BY EndedRow DEF Ends, CallInv, CallTypeOK

\* The child's run is at another place.
LEMMA RunEndsCall ==
    ASSUME CallInv, NEW d \in Delegations,
           NEW run \in {"active", "stop", "error", "raised", "signalled", "cancelled"},
           RunEnds(d, run)
    PROVE  /\ call' \in [Delegations -> CallType] /\ \A e \in Delegations \ {d} : call'[e] = call[e]
           /\ call'[d].run = run /\ call'[d].pc = call[d].pc /\ call'[d].child = call[d].child
           /\ call'[d].attempt = call[d].attempt /\ call'[d].status = call[d].status
           /\ call'[d].sync = call[d].sync
<1> DEFINE new == [call[d] EXCEPT !.run = run]
<1>1. call[d] \in CallType /\ call' = [call EXCEPT ![d] = new]
  BY DEF CallInv, CallTypeOK, RunEnds
<1>2. /\ new \in CallType /\ new.run = run /\ new.pc = call[d].pc /\ new.child = call[d].child
      /\ new.attempt = call[d].attempt /\ new.status = call[d].status /\ new.sync = call[d].sync
  BY <1>1 DEF CallType
<1> HIDE DEF new
<1> QED BY <1>1, <1>2 DEF CallInv, CallTypeOK

\* A call that prepares a child has prepared it before.
Milder(d) ==
    /\ Preparing(d)' => Preparing(d) /\ call'[d].child = call[d].child
    /\ Equipped(d)' => Equipped(d)
    /\ call'[d].pc = "checked" => call[d].pc = "checked"

\* A call that answers for its attempt goes on to do so.
StandsOn(d) ==
    /\ call'[d].attempt \in {0, call[d].attempt}
    /\ Answers(d) => Answers(d)' /\ call'[d].attempt = call[d].attempt

Mild == CallInv' /\ \A d \in Delegations : Milder(d) /\ StandsOn(d)

LEMMA MildCall ==
    ASSUME CallInv, NEW d \in Delegations,
           call' \in [Delegations -> CallType], \A e \in Delegations \ {d} : call'[e] = call[e],
           CallOK(d)', UNCHANGED raced,
           \/ sessions' = sessions
           \/ call[d].pc = "creating" /\ sessions' = sessions \cup {d},
           \/ busy' = busy
           \/ busy' = busy \cup {call[d].child} /\ call[d].child \in sessions
           \/ /\ call[d].run = "active" /\ call'[d].run # "active"
              /\ busy' = busy \ {call[d].child},
           call'[d].run = "active" =>
               \/ call[d].run = "active" /\ call'[d].child = call[d].child
               \/ call'[d].child \notin busy,
           Milder(d), StandsOn(d)
    PROVE  Mild
<1>1. raced' \subseteq Delegations
  BY DEF CallInv, CallTypeOK
<1>2. CallInv'
  BY <1>1, CallKept
<1>3. ASSUME NEW e \in Delegations, e # d PROVE Milder(e) /\ StandsOn(e)
  BY <1>3 DEF Milder, StandsOn, Answers, Preparing, Equipped
<1> QED BY <1>2, <1>3 DEF Mild

LEMMA CallNow ==
    ASSUME CallInv, NEW d \in Delegations
    PROVE  call[d] \in CallType /\ CallOK(d)
BY DEF CallInv, CallTypeOK

\* The steps of a call that leave its child as it is.
LEMMA GoesMild ==
    ASSUME CallInv, NEW d \in Delegations,
           \/ Request(d) \/ (\E yes \in BOOLEAN : Answered(d, yes) /\ yes)
           \/ Provisioned(d) \/ CreateSession(d) \/ ResumeEnds(d)
    PROVE  Mild
<1>1. CallOK(d) /\ sessions \subseteq Delegations
  BY CallNow DEF CallInv, CallTypeOK
<1>2. CASE Request(d)
  <2>1. call[d].pc = "idle" /\ Goes(d, "asking") /\ UNCHANGED <<sessions, busy, raced>>
    BY <1>2 DEF Request, Only
  <2>2. /\ call' \in [Delegations -> CallType] /\ \A e \in Delegations \ {d} : call'[e] = call[e]
        /\ call'[d].pc = "asking" /\ call'[d].child = call[d].child /\ call'[d].run = call[d].run
        /\ call'[d].attempt = call[d].attempt /\ call'[d].status = call[d].status
        /\ call'[d].sync = call[d].sync
    BY <2>1, GoesCall DEF Fresh, Working
  <2>3. CallOK(d)'
    BY <1>1, <2>1, <2>2 DEF CallOK, Fresh, Working, Ended
  <2>4. Milder(d) /\ StandsOn(d)
    BY <2>1, <2>2 DEF Milder, StandsOn, Answers, Preparing, Equipped
  <2> QED BY <2>1, <2>2, <2>3, <2>4, MildCall
<1>3. CASE \E yes \in BOOLEAN : Answered(d, yes) /\ yes
  <2>1. call[d].pc = "asking" /\ Goes(d, "starting") /\ UNCHANGED <<sessions, busy, raced>>
    BY <1>3 DEF Answered, Only
  <2>2. /\ call' \in [Delegations -> CallType] /\ \A e \in Delegations \ {d} : call'[e] = call[e]
        /\ call'[d].pc = "starting" /\ call'[d].child = call[d].child /\ call'[d].run = call[d].run
        /\ call'[d].attempt = call[d].attempt /\ call'[d].status = call[d].status
        /\ call'[d].sync = call[d].sync
    BY <2>1, GoesCall DEF Fresh, Working
  <2>3. CallOK(d)'
    BY <1>1, <2>1, <2>2 DEF CallOK, Fresh, Working, Ended
  <2>4. Milder(d) /\ StandsOn(d)
    BY <2>1, <2>2 DEF Milder, StandsOn, Answers, Preparing, Equipped
  <2> QED BY <2>1, <2>2, <2>3, <2>4, MildCall
<1>4. CASE Provisioned(d)
  <2>1. call[d].pc = "added" /\ Goes(d, "creating") /\ UNCHANGED <<sessions, busy, raced>>
    BY <1>4 DEF Provisioned
  <2>2. /\ call' \in [Delegations -> CallType] /\ \A e \in Delegations \ {d} : call'[e] = call[e]
        /\ call'[d].pc = "creating" /\ call'[d].child = call[d].child /\ call'[d].run = call[d].run
        /\ call'[d].attempt = call[d].attempt /\ call'[d].status = call[d].status
        /\ call'[d].sync = call[d].sync
    BY <2>1, GoesCall DEF Fresh, Working
  <2>3. CallOK(d)'
    BY <1>1, <2>1, <2>2 DEF CallOK, Fresh, Working, Ended
  <2>4. Milder(d) /\ StandsOn(d)
    BY <2>1, <2>2 DEF Milder, StandsOn, Answers, Preparing, Equipped
  <2> QED BY <2>1, <2>2, <2>3, <2>4, MildCall
<1>5. CASE CreateSession(d)
  <2>1. /\ call[d].pc = "creating" /\ Goes(d, "reading") /\ UNCHANGED <<busy, raced>>
        /\ sessions' = sessions \cup {d}
    BY <1>5 DEF CreateSession
  <2>2. /\ call' \in [Delegations -> CallType] /\ \A e \in Delegations \ {d} : call'[e] = call[e]
        /\ call'[d].pc = "reading" /\ call'[d].child = call[d].child /\ call'[d].run = call[d].run
        /\ call'[d].attempt = call[d].attempt /\ call'[d].status = call[d].status
        /\ call'[d].sync = call[d].sync
    BY <2>1, GoesCall DEF Fresh, Working
  <2>3. CallOK(d)'
    BY <1>1, <2>1, <2>2 DEF CallOK, Fresh, Working, Ended
  <2>4. Milder(d) /\ StandsOn(d)
    BY <2>1, <2>2 DEF Milder, StandsOn, Answers, Preparing, Equipped
  <2> QED BY <2>1, <2>2, <2>3, <2>4, MildCall
<1>6. CASE ResumeEnds(d)
  <2>1. call[d].pc = "inspected" /\ Goes(d, "reading") /\ UNCHANGED <<sessions, busy, raced>>
    BY <1>6 DEF ResumeEnds
  <2> QED BY <1>1, <2>1, GoesCall, MildCall
          DEF CallOK, Milder, StandsOn, Answers, Preparing, Equipped, Fresh, Working, Ended
<1> QED BY <1>2, <1>3, <1>4, <1>5, <1>6

\* The steps that end a call.
LEMMA EndsMild ==
    ASSUME CallInv, NEW d \in Delegations, NEW pc \in Ended, Ends(d, pc),
           UNCHANGED <<sessions, busy, raced>>, call[d].run # "active",
           pc = "done" => call[d].pc \in {"retaining", "retained"}
    PROVE  Mild
<1>1. CallOK(d)
  BY CallNow
<1>2. CallOK(d)'
  BY <1>1, EndsCall DEF CallOK, Fresh, Working, Ended
<1>3. Milder(d) /\ StandsOn(d)
  BY <1>1, EndsCall DEF Milder, StandsOn, Answers, Preparing, Equipped, Ended
<1> QED BY <1>2, <1>3, EndsCall, MildCall

\* The row of the task has a revision and an attempt.
LEMMA TaskNow ==
    ASSUME PlanInv
    PROVE  task[PlanTask].revision \in Nat /\ task[PlanTask].attempt \in Nat
BY DEF PlanInv, RowOK, T!TaskType

\* The steps around the start of the task.
LEMMA StartsMild ==
    ASSUME CallInv, PlanInv, NEW d \in Delegations, ReadTask(d) \/ Prepare(d)
    PROVE  Mild
<1>1. call[d] \in CallType /\ CallOK(d) /\ Revision \in Nat
  BY CallNow, TaskNow DEF Revision
<1>2. CASE ReadTask(d)
  <2> DEFINE new == [call[d] EXCEPT !.pc = "linking", !.seen = Revision]
  <2>1. /\ call' = [call EXCEPT ![d] = new] /\ call[d].pc = "reading"
        /\ UNCHANGED <<sessions, busy, raced>>
    BY <1>2 DEF ReadTask, Only
  <2>2. /\ new \in CallType /\ new.pc = "linking" /\ new.child = call[d].child
        /\ new.run = call[d].run /\ new.attempt = call[d].attempt /\ new.sync = call[d].sync
    BY <1>1 DEF CallType, Working
  <2> HIDE DEF new
  <2>3. /\ call' \in [Delegations -> CallType] /\ call'[d] = new
        /\ \A e \in Delegations \ {d} : call'[e] = call[e]
    BY <2>1, <2>2 DEF CallInv, CallTypeOK
  <2> QED BY <1>1, <2>1, <2>2, <2>3, MildCall
          DEF CallOK, Milder, StandsOn, Answers, Preparing, Equipped, Fresh, Working, Ended
<1>3. CASE Prepare(d)
  <2> DEFINE new == [call[d] EXCEPT !.pc = "waiting", !.run = "spawned"]
  <2>1. /\ call' = [call EXCEPT ![d] = new] /\ call[d].pc = "preparing"
        /\ UNCHANGED <<sessions, busy, raced>>
    BY <1>3 DEF Prepare, Only
  <2>2. /\ new \in CallType /\ new.pc = "waiting" /\ new.child = call[d].child
        /\ new.run = "spawned" /\ new.attempt = call[d].attempt /\ new.sync = call[d].sync
    BY <1>1 DEF CallType, Working
  <2> HIDE DEF new
  <2>3. /\ call' \in [Delegations -> CallType] /\ call'[d] = new
        /\ \A e \in Delegations \ {d} : call'[e] = call[e]
    BY <2>1, <2>2 DEF CallInv, CallTypeOK
  <2> QED BY <1>1, <2>1, <2>2, <2>3, MildCall
          DEF CallOK, Milder, StandsOn, Answers, Preparing, Equipped, Fresh, Working, Ended
<1> QED BY <1>2, <1>3

\* The task starts; the attempt of the call is the task's.
LEMMA LinkCall ==
    ASSUME CallInv, NEW d \in Delegations, Link(d), task'[PlanTask].attempt \in Nat
    PROVE  /\ CallInv' /\ \A e \in Delegations : Milder(e)
           /\ \A e \in Delegations \ {d} : call'[e] = call[e]
           /\ call'[d].attempt = task'[PlanTask].attempt /\ call'[d].pc = "preparing"
<1> DEFINE attempt == task'[PlanTask].attempt
           new     == [call[d] EXCEPT !.pc = "preparing", !.seen = 0, !.attempt = attempt]
<1>1. call[d] \in CallType /\ CallOK(d)
  BY CallNow
<1>2. /\ call' = [call EXCEPT ![d] = new] /\ call[d].pc = "linking"
      /\ UNCHANGED <<sessions, busy, raced>>
  BY DEF Link, PlanOnly
<1>3. attempt \in Nat
  OBVIOUS
<1> HIDE DEF attempt
<1>4. /\ new \in CallType /\ new.pc = "preparing" /\ new.child = call[d].child
      /\ new.run = call[d].run /\ new.attempt = attempt /\ new.sync = call[d].sync
  BY <1>1, <1>3 DEF CallType, Working
<1> HIDE DEF new
<1>5. /\ call' \in [Delegations -> CallType] /\ call'[d] = new
      /\ \A e \in Delegations \ {d} : call'[e] = call[e]
  BY <1>2, <1>4 DEF CallInv, CallTypeOK
<1>6. CallOK(d)' /\ call'[d].run # "active"
  BY <1>1, <1>2, <1>4, <1>5 DEF CallOK, Fresh, Working, Ended
<1>7. CallInv'
  <2>1. raced' \subseteq Delegations
    BY <1>2 DEF CallInv, CallTypeOK
  <2> QED BY <1>2, <1>5, <1>6, <2>1, CallKept
<1>8. \A e \in Delegations : Milder(e)
  BY <1>2, <1>4, <1>5 DEF Milder, Preparing, Equipped
<1> QED BY <1>4, <1>5, <1>7, <1>8 DEF attempt

\* The steps of the child's run.
LEMMA RunsMild ==
    ASSUME CallInv, NEW d \in Delegations, ChildStarts(d) \/ Cancel(d) \/ ChildStops(d)
    PROVE  Mild
<1>1. call[d] \in CallType /\ CallOK(d)
  BY CallNow
<1>2. CASE ChildStarts(d) /\ call[d].child \in busy
  <2>1. /\ call[d].run = "spawned" /\ UNCHANGED <<sessions, busy, raced>>
        /\ RunEnds(d, "raised")
    BY <1>2 DEF ChildStarts
  <2> QED BY <1>1, <1>2, <2>1, RunEndsCall, MildCall
          DEF CallOK, Milder, StandsOn, Answers, Preparing, Equipped, Fresh, Working, Ended
<1>3. CASE ChildStarts(d) /\ call[d].child \notin busy
  <2>1. /\ call[d].run = "spawned" /\ UNCHANGED <<sessions, raced>>
        /\ busy' = busy \cup {call[d].child} /\ call[d].child \in sessions
        /\ RunEnds(d, "active")
    BY <1>1, <1>3 DEF ChildStarts, CallOK, Working
  <2> QED BY <1>1, <1>3, <2>1, RunEndsCall, MildCall
          DEF CallOK, Milder, StandsOn, Answers, Preparing, Equipped, Fresh, Working, Ended
<1>4. CASE ChildStops(d)
  <2>1. PICK finish \in {"stop", "error", "raised", "signalled", "cancelled"} : ChildEnds(d, finish)
    BY <1>4 DEF ChildStops, Finishes
  <2>2. /\ call[d].run = "active" /\ UNCHANGED <<sessions, raced>> /\ RunEnds(d, finish)
        /\ busy' = busy \ {call[d].child}
    BY <2>1 DEF ChildEnds
  <2> QED BY <1>1, <2>1, <2>2, RunEndsCall, MildCall
          DEF CallOK, Milder, StandsOn, Answers, Preparing, Equipped, Fresh, Working, Ended
<1>5. CASE Cancel(d)
  <2> DEFINE end == IF call[d].run = "spawned" THEN "cancelled" ELSE call[d].run
             new == [call[d] EXCEPT !.pc = "stopping", !.run = end]
  <2>1. /\ call' = [call EXCEPT ![d] = new] /\ call[d].pc = "waiting"
        /\ UNCHANGED <<sessions, busy, raced>> /\ call[d].run \in {"spawned", "active"}
    BY <1>5 DEF Cancel, Only
  <2>2. end \in {"cancelled", "active"} /\ (end = "active" => call[d].run = "active")
    BY <2>1
  <2> HIDE DEF end
  <2>3. /\ new \in CallType /\ new.pc = "stopping" /\ new.child = call[d].child
        /\ new.run = end /\ new.attempt = call[d].attempt /\ new.sync = call[d].sync
    BY <1>1, <2>2 DEF CallType, Working
  <2> HIDE DEF new
  <2>4. /\ call' \in [Delegations -> CallType] /\ call'[d] = new
        /\ \A e \in Delegations \ {d} : call'[e] = call[e]
    BY <2>1, <2>3 DEF CallInv, CallTypeOK
  <2> QED BY <1>1, <2>1, <2>2, <2>3, <2>4, MildCall
          DEF CallOK, Milder, StandsOn, Answers, Preparing, Equipped, Fresh, Working, Ended
<1> QED BY <1>2, <1>3, <1>4, <1>5 DEF ChildStarts

LEMMA CollectMild ==
    ASSUME CallInv, PlanInv, NEW d \in Delegations, Collect(d)
    PROVE  Mild
<1> DEFINE status == StatusOf(call[d].run)
           new    == [call[d] EXCEPT !.pc = "recording", !.seen = Revision, !.status = status]
<1>1. call[d] \in CallType /\ CallOK(d) /\ Revision \in Nat
  BY CallNow, TaskNow DEF Revision
<1>2. /\ call' = [call EXCEPT ![d] = new] /\ call[d].pc \in {"waiting", "stopping"}
      /\ call[d].run \notin {"spawned", "active"} /\ UNCHANGED <<sessions, busy, raced>>
  BY DEF Collect, Only
<1>3. status \in {"completed", "failed"}
  BY DEF StatusOf
<1> HIDE DEF status
<1>4. /\ new \in CallType /\ new.pc = "recording" /\ new.child = call[d].child
      /\ new.run = call[d].run /\ new.attempt = call[d].attempt /\ new.sync = call[d].sync
      /\ new.status = status
  BY <1>1, <1>3 DEF CallType, Working
<1> HIDE DEF new
<1>5. /\ call' \in [Delegations -> CallType] /\ call'[d] = new
      /\ \A e \in Delegations \ {d} : call'[e] = call[e]
  BY <1>2, <1>4 DEF CallInv, CallTypeOK
<1>6. CallOK(d)'
  BY <1>1, <1>2, <1>4, <1>5 DEF CallOK, Fresh, Working, Ended, status
<1>7. Milder(d) /\ StandsOn(d)
  BY <1>1, <1>2, <1>4, <1>5 DEF Milder, StandsOn, Answers, Preparing, Equipped
<1> QED BY <1>2, <1>4, <1>5, <1>6, <1>7, MildCall

\* The end of the call is recorded, or that it could not be.
LEMMA SyncedCall ==
    ASSUME CallInv, NEW d \in Delegations, NEW sync \in {"ok", "error"}, Synced(d, sync),
           call[d].pc = "recording", UNCHANGED <<sessions, busy, raced>>
    PROVE  /\ CallInv' /\ \A e \in Delegations : Milder(e)
           /\ \A e \in Delegations \ {d} : StandsOn(e)
           /\ sync = "error" => StandsOn(d)
           /\ \A e \in Delegations : call'[e].attempt = call[e].attempt
<1> DEFINE new == [call[d] EXCEPT !.pc = "retaining", !.run = "none", !.seen = 0, !.sync = sync]
<1>1. call[d] \in CallType /\ CallOK(d)
  BY CallNow
<1>2. call' = [call EXCEPT ![d] = new]
  BY DEF Synced
<1>3. /\ new \in CallType /\ new.pc = "retaining" /\ new.child = call[d].child
      /\ new.run = "none" /\ new.attempt = call[d].attempt /\ new.sync = sync
  BY <1>1 DEF CallType, Working
<1> HIDE DEF new
<1>4. /\ call' \in [Delegations -> CallType] /\ call'[d] = new
      /\ \A e \in Delegations \ {d} : call'[e] = call[e]
  BY <1>2, <1>3 DEF CallInv, CallTypeOK
<1>5. raced' \subseteq Delegations
  BY DEF CallInv, CallTypeOK
<1>6. CallOK(d)'
  BY <1>1, <1>3, <1>4 DEF CallOK, Fresh, Working, Ended
<1>7. CallInv'
  BY <1>3, <1>4, <1>5, <1>6, CallKept
<1>8. \A e \in Delegations \ {d} : Milder(e) /\ StandsOn(e)
  BY <1>4 DEF Milder, StandsOn, Answers, Preparing, Equipped
<1>9. Milder(d) /\ (sync = "error" => StandsOn(d))
  BY <1>3, <1>4 DEF Milder, StandsOn, Answers, Preparing, Equipped
<1> QED BY <1>3, <1>4, <1>7, <1>8, <1>9

\* The steps that ask for a child, and those that leave its workspace.
LEMMA RetainMild ==
    ASSUME CallInv, NEW d \in Delegations, Retain(d) \/ RetainEnds(d)
    PROVE  Mild
<1>1. CallOK(d)
  BY CallNow
<1>2. CASE Ends(d, "done")
  <2>1. call[d].pc \in {"retaining", "retained"} /\ UNCHANGED <<sessions, busy, raced>>
    BY DEF Retain, RetainEnds
  <2> QED BY <1>1, <1>2, <2>1, EndsMild DEF CallOK, Ended
<1>3. CASE Retain(d) /\ Goes(d, "retained")
  <2>1. call[d].pc = "retaining" /\ UNCHANGED <<sessions, busy, raced>>
    BY <1>3 DEF Retain
  <2> QED BY <1>1, <1>3, <2>1, GoesCall, MildCall
          DEF CallOK, Milder, StandsOn, Answers, Preparing, Equipped, Fresh, Working, Ended
<1> QED BY <1>2, <1>3 DEF Retain, RetainEnds

LEMMA BatchMild ==
    ASSUME CallInv, RequestBatch
    PROVE  Mild
<1> DEFINE new == [Idle EXCEPT !.pc = "asking"]
<1>1. new \in CallType /\ new.pc = "asking" /\ new.child = NULL /\ new.run = "none" /\ new.sync = "none"
      /\ new.attempt = 0
  BY DEF Idle, CallType, Fresh
<1>2. /\ call' = [d \in Delegations |-> new] /\ UNCHANGED <<sessions, busy, raced>>
      /\ \A d \in Delegations : call[d].pc = "idle"
  BY DEF RequestBatch
<1> HIDE DEF new
<1>3. CallTypeOK'
  BY <1>1, <1>2 DEF CallInv, CallTypeOK
<1>4. ASSUME NEW d \in Delegations PROVE CallOK(d)' /\ Milder(d) /\ StandsOn(d)
  <2>1. CallOK(d) /\ call[d].pc = "idle" /\ call'[d] = new
    BY <1>2, CallNow
  <2> QED BY <1>1, <1>2, <2>1
          DEF CallOK, Milder, StandsOn, Answers, Preparing, Equipped, Fresh, Working, Ended
<1>5. OneRunPerChild'
  BY <1>1, <1>2 DEF OneRunPerChild
<1> QED BY <1>3, <1>4, <1>5 DEF Mild, CallInv

LEMMA CrashMild ==
    ASSUME CallInv, Crash
    PROVE  Mild /\ \A d \in Delegations : ~Preparing(d)' /\ call'[d].pc # "checked"
<1>1. /\ \A d \in Delegations : call'[d] = IF call[d].pc \in {"idle"} \cup Ended THEN call[d]
                                          ELSE EndedCall(d, "gone")
      /\ DOMAIN call' = Delegations /\ call' = [d \in Delegations |-> call'[d]]
      /\ busy' = {} /\ UNCHANGED <<sessions, raced>>
  BY DEF Crash
<1>2. ASSUME NEW d \in Delegations
      PROVE  /\ call'[d] \in CallType /\ call'[d].run # "active" /\ CallOK(d)' /\ Milder(d)
             /\ StandsOn(d) /\ ~Preparing(d)' /\ call'[d].pc # "checked"
  <2>1. call[d] \in CallType /\ CallOK(d)
    BY CallNow
  <2>2. CASE call[d].pc \in {"idle"} \cup Ended
    <3>1. call'[d] = call[d]
      BY <1>1, <2>2
    <3> QED BY <1>1, <2>1, <2>2, <3>1
            DEF CallOK, Milder, StandsOn, Answers, Preparing, Equipped, Fresh, Working, Ended
  <2>3. CASE call[d].pc \notin {"idle"} \cup Ended
    <3>1. /\ call'[d] \in CallType /\ call'[d].pc = "gone" /\ call'[d].child = NULL
          /\ call'[d].run = "none" /\ call'[d].attempt = call[d].attempt
          /\ call'[d].sync = call[d].sync
      BY <1>1, <2>3, EndedRow DEF Ended
    <3> QED BY <1>1, <2>1, <3>1
            DEF CallOK, Milder, StandsOn, Answers, Preparing, Equipped, Fresh, Working, Ended
  <2> QED BY <2>2, <2>3
<1>3. CallTypeOK' /\ OneRunPerChild'
  BY <1>1, <1>2 DEF CallInv, CallTypeOK, OneRunPerChild
<1> QED BY <1>2, <1>3 DEF Mild, CallInv

LEMMA CallsRest ==
    ASSUME CallInv, UNCHANGED <<call, sessions, busy>>, raced' \subseteq Delegations
    PROVE  CallInv' /\ \A d \in Delegations : Milder(d) /\ StandsOn(d)
BY DEF CallInv, CallTypeOK, CallOK, OneRunPerChild, Milder, StandsOn, Answers, Preparing, Equipped

\* The steps after which a call has a child, or is at another place with it.
Turns(d, pc, c) ==
    /\ CallInv' /\ \A e \in Delegations : StandsOn(e)
    /\ \A e \in Delegations \ {d} : call'[e] = call[e] /\ Milder(e)
    /\ call'[d].pc = pc /\ call'[d].child = c

\* A call is written as a whole.
LEMMA CallWritten ==
    ASSUME CallInv, NEW d \in Delegations, NEW new \in CallType, call' = [call EXCEPT ![d] = new]
    PROVE  /\ call' \in [Delegations -> CallType] /\ call'[d] = new
           /\ \A e \in Delegations \ {d} : call'[e] = call[e]
BY DEF CallInv, CallTypeOK

LEMMA ChildChosen ==
    ASSUME CallInv, NEW d \in Delegations, NEW c \in Delegations, NEW pc \in {"adding", "checked"},
           call[d].pc = "starting", pc = "adding" => c = d, pc = "checked" => c \in sessions,
           call' = [call EXCEPT ![d].pc = pc, ![d].child = c],
           UNCHANGED <<sessions, busy>>, raced' \subseteq Delegations
    PROVE  Turns(d, pc, c)
<1> DEFINE new == [call[d] EXCEPT !.pc = pc, !.child = c]
<1>1. call[d] \in CallType /\ CallOK(d) /\ call' = [call EXCEPT ![d] = new]
  BY CallNow
<1>2. /\ new \in CallType /\ new.pc = pc /\ new.child = c /\ new.run = call[d].run
      /\ new.attempt = call[d].attempt /\ new.sync = call[d].sync
  BY <1>1 DEF CallType, Fresh, Working
<1> HIDE DEF new
<1>3. /\ call' \in [Delegations -> CallType] /\ call'[d] = new
      /\ \A e \in Delegations \ {d} : call'[e] = call[e]
  BY <1>1, <1>2, CallWritten
<1>4. CallOK(d)' /\ ~Answers(d)
  BY <1>1, <1>2, <1>3 DEF CallOK, Answers, Fresh, Working, Ended
<1>5. CallInv'
  BY <1>1, <1>2, <1>3, <1>4, CallKept DEF CallOK
<1>6. \A e \in Delegations \ {d} : Milder(e) /\ StandsOn(e)
  BY <1>3 DEF Milder, StandsOn, Answers, Preparing, Equipped
<1> QED BY <1>2, <1>3, <1>4, <1>5, <1>6 DEF Turns, StandsOn

LEMMA ProvisionCall ==
    ASSUME CallInv, NEW d \in Delegations, Provision(d)
    PROVE  Turns(d, "adding", d)
BY ChildChosen DEF Provision, CallInv, CallTypeOK

LEMMA ResumeCall ==
    ASSUME CallInv, NEW d \in Delegations, NEW c \in Delegations, Resume(d, c)
    PROVE  Turns(d, "checked", c)
<1>1. raced' \subseteq Delegations
  BY DEF Resume, CallInv, CallTypeOK
<1> QED BY <1>1, ChildChosen DEF Resume

LEMMA ChildReady ==
    ASSUME CallInv, NEW d \in Delegations, UNCHANGED <<sessions, busy, raced>>,
           \/ call[d].pc = "adding" /\ Goes(d, "added")
           \/ call[d].pc = "checked" /\ Goes(d, "inspected")
    PROVE  \E pc \in {"added", "inspected"} : Turns(d, pc, call[d].child)
<1> DEFINE pc == IF call[d].pc = "adding" THEN "added" ELSE "inspected"
<1>1. CallOK(d) /\ pc \in Fresh \cup Working \cup Ended /\ Goes(d, pc) /\ pc \in {"added", "inspected"}
  BY CallNow DEF Fresh, Working
<1>2. /\ call[d].pc \in {"adding", "checked"}
      /\ pc = "added" <=> call[d].pc = "adding"
  OBVIOUS
<1> HIDE DEF pc
<1>3. /\ call' \in [Delegations -> CallType] /\ \A e \in Delegations \ {d} : call'[e] = call[e]
      /\ call'[d].pc = pc /\ call'[d].child = call[d].child /\ call'[d].run = call[d].run
      /\ call'[d].attempt = call[d].attempt /\ call'[d].status = call[d].status
      /\ call'[d].sync = call[d].sync
  BY <1>1, GoesCall
<1>4. CallOK(d)' /\ ~Answers(d)
  BY <1>1, <1>2, <1>3 DEF CallOK, Answers, Fresh, Working, Ended
<1>5. CallInv'
  BY <1>1, <1>2, <1>3, <1>4, CallKept DEF CallOK, CallInv, CallTypeOK
<1>6. \A e \in Delegations \ {d} : Milder(e) /\ StandsOn(e)
  BY <1>3 DEF Milder, StandsOn, Answers, Preparing, Equipped
<1> QED BY <1>1, <1>3, <1>4, <1>5, <1>6 DEF Turns, StandsOn

-----------------------------------------------------------------------------
(* The task.                                                               *)

LEMMA TaskBumped ==
    ASSUME NEW r \in T!TaskType
    PROVE  /\ T!Bump(r) \in T!TaskType /\ T!Bump(r).status = r.status
           /\ T!Bump(r).owner = r.owner /\ T!Bump(r).attempt = r.attempt /\ T!Bump(r).plan = r.plan
BY DEF T!Bump, T!TaskType

LEMMA TaskMoved ==
    ASSUME NEW r \in T!TaskType, NEW status \in T!TaskStatus
    PROVE  /\ T!Move(r, status) \in T!TaskType /\ T!Move(r, status).status = status
           /\ T!Move(r, status).owner = r.owner /\ T!Move(r, status).attempt = r.attempt
           /\ T!Move(r, status).plan = r.plan
<1> DEFINE new == [r EXCEPT !.status = status]
<1>1. /\ new \in T!TaskType /\ new.status = status /\ new.owner = r.owner
      /\ new.attempt = r.attempt /\ new.plan = r.plan
  BY DEF T!TaskType
<1>2. T!Move(r, status) = T!Bump(new)
  BY DEF T!Move
<1> HIDE DEF new
<1> QED BY <1>1, <1>2, TaskBumped

LEMMA TaskStarted ==
    ASSUME NEW r \in T!TaskType, NEW actor \in Actors
    PROVE  /\ T!Start(r, actor) \in T!TaskType /\ T!Start(r, actor).status = "running"
           /\ T!Start(r, actor).attempt = r.attempt + 1 /\ T!Start(r, actor).plan = r.plan
<1> DEFINE next == r.attempt + 1
           more == [r EXCEPT !.attempt = next]
           new  == [more EXCEPT !.owner = actor]
<1>1. next \in Nat
  BY DEF T!TaskType
<1>2. T!Start(r, actor) = T!Move(new, "running")
  BY DEF T!Start
<1> HIDE DEF next
<1>3. more \in T!TaskType /\ more.attempt = next /\ more.plan = r.plan
  BY <1>1 DEF T!TaskType
<1> HIDE DEF more
<1>4. new \in T!TaskType /\ new.attempt = next /\ new.plan = r.plan
  BY <1>3 DEF T!TaskType
<1> HIDE DEF new
<1>5. "running" \in T!TaskStatus
  BY DEF T!TaskStatus
<1> QED BY <1>2, <1>4, <1>5, TaskMoved DEF next

LEMMA TaskLeft ==
    ASSUME NEW r \in T!TaskType, NEW status \in T!TaskStatus
    PROVE  /\ T!Leave(r, status) \in T!TaskType /\ T!Leave(r, status).status = status
           /\ T!Leave(r, status).attempt = r.attempt /\ T!Leave(r, status).plan = r.plan
           /\ T!Leave(r, status).owner = NULL
<1> DEFINE new == [r EXCEPT !.owner = NULL]
<1>1. new \in T!TaskType /\ new.attempt = r.attempt /\ new.plan = r.plan /\ new.owner = NULL
  BY DEF T!TaskType
<1>2. T!Leave(r, status) = T!Move(new, status)
  BY DEF T!Leave
<1> HIDE DEF new
<1> QED BY <1>1, <1>2, TaskMoved

LEMMA TaskAssigned ==
    ASSUME NEW r \in T!TaskType, NEW mode \in {"agent", "human"}
    PROVE  /\ T!Assign(r, mode) \in T!TaskType /\ T!Assign(r, mode).status = r.status
           /\ T!Assign(r, mode).owner = NULL /\ T!Assign(r, mode).attempt = r.attempt
           /\ T!Assign(r, mode).plan = r.plan
<1> DEFINE left == [r EXCEPT !.owner = NULL]
           new  == [left EXCEPT !.mode = mode]
<1>1. left \in T!TaskType /\ left.status = r.status /\ left.owner = NULL
      /\ left.attempt = r.attempt /\ left.plan = r.plan
  BY DEF T!TaskType
<1>2. T!Assign(r, mode) = T!Bump(new)
  BY DEF T!Assign
<1> HIDE DEF left
<1>3. /\ new \in T!TaskType /\ new.status = r.status /\ new.owner = NULL
      /\ new.attempt = r.attempt /\ new.plan = r.plan
  BY <1>1 DEF T!TaskType
<1> HIDE DEF new
<1> QED BY <1>2, <1>3, TaskBumped

\* What becomes of the task: an agent that runs it has its attempt from before, or a new one.
TaskGoesOn ==
    /\ DOMAIN task' = Tasks /\ RowOK(task'[PlanTask])
    /\ task'[PlanTask].attempt >= task[PlanTask].attempt
    /\ task'[PlanTask].status = "running" /\ task'[PlanTask].owner # NULL =>
          \/ task'[PlanTask].attempt = task[PlanTask].attempt + 1
          \/ /\ task[PlanTask].status = "running" /\ task[PlanTask].owner # NULL
             /\ task'[PlanTask].attempt = task[PlanTask].attempt

\* transition_task: the task runs, with another attempt, or leaves what it was for the
\* target, or for a failure when the target was another try.
LEMMA Transitions ==
    ASSUME PlanInv, NEW actor \in Actors, NEW target \in T!TaskStatus,
           T!TransitionTask(PlanTask, target, actor)
    PROVE  /\ TaskGoesOn
           /\ target \in {"running", "completed", "failed"} => task'[PlanTask].status = target
           /\ target = "running" => task'[PlanTask].attempt = task[PlanTask].attempt + 1
<1> DEFINE result == T!Outcome(PlanTask, target)
<1>1. /\ task[PlanTask] \in T!TaskType /\ PlanTask \in Tasks /\ RowOK(task[PlanTask])
      /\ task[PlanTask].attempt \in Nat /\ task[PlanTask].status \in T!TaskStatus
  BY DelegationAssumption DEF PlanInv, RowOK, T!TaskType, T!TransitionTask, T!TransitionAllowed
<1>2. /\ result \in T!TaskStatus
      /\ result = "running" <=> target = "running"
      /\ target \in {"running", "completed", "failed"} => result = target
  BY DEF T!Outcome, T!TaskStatus
<1>3. /\ DOMAIN task' = Tasks
      /\ task'[PlanTask] = IF result = "running" THEN T!Start(task[PlanTask], actor)
                                                  ELSE T!Leave(task[PlanTask], result)
  <2>1. DOMAIN task' = Tasks
    BY DEF T!TransitionTask
  <2> QED BY <1>1, <2>1 DEF T!TransitionTask
<1> HIDE DEF result
<1>4. "none" \notin T!TaskStatus /\ task[PlanTask].plan # 0
  BY <1>1 DEF RowOK, T!TaskStatus
<1>5. CASE result = "running"
  BY <1>1, <1>2, <1>3, <1>4, <1>5, TaskStarted DEF TaskGoesOn, RowOK
<1>6. CASE result # "running"
  <2>1. /\ task'[PlanTask] \in T!TaskType /\ task'[PlanTask].status = result
        /\ task'[PlanTask].attempt = task[PlanTask].attempt
        /\ task'[PlanTask].plan = task[PlanTask].plan
    <3>1. /\ T!Leave(task[PlanTask], result) \in T!TaskType
          /\ T!Leave(task[PlanTask], result).status = result
          /\ T!Leave(task[PlanTask], result).attempt = task[PlanTask].attempt
          /\ T!Leave(task[PlanTask], result).plan = task[PlanTask].plan
      BY <1>1, <1>2, TaskLeft
    <3> QED BY <1>3, <1>6, <3>1
  <2>2. RowOK(task'[PlanTask])
    BY <1>2, <1>4, <1>6, <2>1 DEF RowOK
  <2> QED BY <1>1, <1>2, <1>3, <1>6, <2>1, <2>2 DEF TaskGoesOn
<1> QED BY <1>5, <1>6

LEMMA EditsGoOn ==
    ASSUME PlanInv, UserEdits
    PROVE  TaskGoesOn
<1>1. /\ DOMAIN task = Tasks /\ task[PlanTask] \in T!TaskType /\ PlanTask \in Tasks
      /\ RowOK(task[PlanTask]) /\ task[PlanTask].attempt \in Nat
  BY DelegationAssumption DEF PlanInv, RowOK, T!TaskType
<1>2. CASE \E target \in T!TaskStatus, actor \in Actors : T!TransitionTask(PlanTask, target, actor)
  <2> PICK target \in T!TaskStatus, actor \in Actors : T!TransitionTask(PlanTask, target, actor)
    BY <1>2
  <2> QED BY Transitions
<1>3. CASE \E human \in BOOLEAN : T!TakeoverTask(PlanTask, human)
  <2>1. PICK mode \in {"agent", "human"} :
            task' = [task EXCEPT ![PlanTask] = T!Assign(task[PlanTask], mode)]
    BY <1>3 DEF T!TakeoverTask
  <2>2. DOMAIN task' = Tasks /\ task'[PlanTask] = T!Assign(task[PlanTask], mode)
    BY <1>1, <2>1
  <2> QED BY <1>1, <2>2, TaskAssigned DEF TaskGoesOn, RowOK
<1>4. CASE \E p \in T!Plans : T!ReorderPlan(p)
  <2>1. /\ DOMAIN task' = Tasks
        /\ task'[PlanTask] = task[PlanTask] \/ task'[PlanTask] = T!Bump(task[PlanTask])
    BY <1>1, <1>4 DEF T!ReorderPlan
  <2> QED BY <1>1, <2>1, TaskBumped DEF TaskGoesOn, RowOK
<1> QED BY <1>2, <1>3, <1>4 DEF UserEdits

LEMMA CreateGoesOn ==
    ASSUME PlanInv, CreatePlan
    PROVE  TaskGoesOn
<1>1. PlanTask \in Tasks /\ 1 \in 1 .. MaxAttempts /\ 1 \in 0 .. MaxPlans
  BY DelegationAssumption
<1>2. /\ \E status \in {"ready", "pending"} : task'[PlanTask] = T!NewTask(1, status, 1)
      /\ task[PlanTask].plan = 0
  BY <1>1 DEF CreatePlan, T!CreateGoal, T!InsertTasks
<1> PICK status \in {"ready", "pending"} : task'[PlanTask] = T!NewTask(1, status, 1)
  BY <1>2
<1>3. DOMAIN task' = Tasks
  BY DEF CreatePlan, T!CreateGoal, T!InsertTasks
<1>4. task[PlanTask].attempt = 0
  BY <1>2 DEF PlanInv, RowOK
<1> QED BY <1>1, <1>3, <1>4 DEF TaskGoesOn, RowOK, T!NewTask, T!TaskType, T!TaskStatus

LEMMA TaskRests ==
    ASSUME PlanInv, NoPlanStep
    PROVE  TaskGoesOn
BY DEF PlanInv, RowOK, T!TaskType, NoPlanStep, planVars, TaskGoesOn

\* A call still stands for the attempt.
LEMMA AttemptStands ==
    ASSUME CallInv, PlanInv, TaskGoesOn, \A d \in Delegations : StandsOn(d)
    PROVE  PlanInv'
<1>1. task[PlanTask].attempt \in Nat /\ task'[PlanTask].attempt \in Nat
  BY DEF PlanInv, TaskGoesOn, RowOK, T!TaskType
<1>2. ASSUME NEW d \in Delegations
      PROVE  /\ call'[d].attempt <= task'[PlanTask].attempt
             /\ /\ task'[PlanTask].status = "running" /\ task'[PlanTask].owner # NULL
                /\ call'[d].attempt = task'[PlanTask].attempt
                => Answers(d)'
  <2>1. /\ call[d].attempt \in Nat /\ call[d].attempt <= task[PlanTask].attempt
        /\ call'[d].attempt \in {0, call[d].attempt} /\ (Answers(d) => Answers(d)')
    BY CallNow DEF PlanInv, StandsOn, CallType
  <2>2. task'[PlanTask].status = "running" => task'[PlanTask].attempt > 0
    BY DEF TaskGoesOn, RowOK
  <2> QED BY <1>1, <2>1, <2>2 DEF PlanInv, TaskGoesOn, AttemptIsFollowed
<1> QED BY <1>2 DEF PlanInv, TaskGoesOn, AttemptIsFollowed

LEMMA LinkFollows ==
    ASSUME CallInv, PlanInv, NEW d \in Delegations, Link(d)
    PROVE  PlanInv' /\ CallInv' /\ \A e \in Delegations : Milder(e)
<1>1. TaskGoesOn /\ task'[PlanTask].attempt = task[PlanTask].attempt + 1
  <2>1. "running" \in T!TaskStatus /\ "agent" \in Actors /\ T!TransitionTask(PlanTask, "running", "agent")
    BY DelegationAssumption DEF Link, Transition, T!TaskStatus
  <2> QED BY <2>1, Transitions
<1>2. task[PlanTask].attempt \in Nat /\ task'[PlanTask].attempt \in Nat
  BY <1>1 DEF PlanInv, TaskGoesOn, RowOK, T!TaskType
<1>3. /\ CallInv' /\ \A e \in Delegations : Milder(e)
      /\ \A e \in Delegations \ {d} : call'[e] = call[e]
      /\ call'[d].attempt = task'[PlanTask].attempt /\ call'[d].pc = "preparing"
  BY <1>2, LinkCall
<1>4. ASSUME NEW e \in Delegations
      PROVE  /\ call'[e].attempt <= task'[PlanTask].attempt
             /\ call'[e].attempt = task'[PlanTask].attempt => Answers(e)'
  <2>1. CASE e = d
    BY <1>2, <1>3, <2>1 DEF Answers
  <2>2. CASE e # d
    <3>1. call[e].attempt \in Nat /\ call[e].attempt <= task[PlanTask].attempt /\ call'[e] = call[e]
      BY <1>3, <2>2, CallNow DEF PlanInv, CallType
    <3> QED BY <1>1, <1>2, <3>1
  <2> QED BY <2>1, <2>2
<1>5. PlanInv'
  BY <1>1, <1>4 DEF PlanInv, TaskGoesOn, AttemptIsFollowed
<1> QED BY <1>3, <1>5

LEMMA RecordFollows ==
    ASSUME CallInv, PlanInv, NEW d \in Delegations, Record(d)
    PROVE  PlanInv' /\ CallInv' /\ \A e \in Delegations : Milder(e)
<1>1. /\ call[d].pc = "recording" /\ UNCHANGED <<sessions, busy, raced>> /\ Synced(d, "ok")
      /\ T!TransitionTask(PlanTask, call[d].status, "agent")
  BY DEF Record, Transition, PlanOnly
<1>2. call[d].status \in {"completed", "failed"}
  BY <1>1, CallNow DEF CallOK, StatusOf
<1>3. TaskGoesOn /\ task'[PlanTask].status = call[d].status
  <2>1. call[d].status \in T!TaskStatus /\ "agent" \in Actors
    BY <1>2, DelegationAssumption DEF T!TaskStatus
  <2> QED BY <1>1, <1>2, <2>1, Transitions
<1>4. /\ CallInv' /\ \A e \in Delegations : Milder(e)
      /\ \A e \in Delegations : call'[e].attempt = call[e].attempt
  BY <1>1, SyncedCall
<1>5. ASSUME NEW e \in Delegations
      PROVE  call'[e].attempt <= task'[PlanTask].attempt
  <2>1. /\ call[e].attempt \in Nat /\ call[e].attempt <= task[PlanTask].attempt
        /\ task[PlanTask].attempt \in Nat /\ task'[PlanTask].attempt \in Nat
    BY <1>3, CallNow DEF PlanInv, CallType, TaskGoesOn, RowOK, T!TaskType
  <2> QED BY <1>3, <1>4, <2>1 DEF TaskGoesOn
<1>6. PlanInv'
  BY <1>2, <1>3, <1>5 DEF PlanInv, TaskGoesOn, AttemptIsFollowed
<1> QED BY <1>4, <1>6

-----------------------------------------------------------------------------
(* Releases and the work of a child.                                       *)

\* A step that asks for no release of this child and takes nothing from it.
Gentle(c) ==
    /\ c \in raced => c \in raced'
    /\ c \in busy' => c \in busy
    /\ release'[c].pc # "none" => release[c].pc # "none"
    /\ Counts(c) => Counts(c)'
    /\ disk[c].dir => disk'[c].dir
    /\ row'[c].status = "released" => row[c].status = "released"
    /\ "commits" \in lost'[c] => "commits" \in lost[c]

LEMMA GentleSafe ==
    ASSUME NEW c \in Delegations, SafeOK(c), Gentle(c),
           \A d \in Delegations : call'[d].child = c => Milder(d)
    PROVE  SafeOK(c)'
<1> SUFFICES ASSUME c \notin raced' PROVE SafeOK(c)'
  BY DEF SafeOK
<1>1. c \notin raced
  BY DEF Gentle
<1>2. release'[c].pc # "none" => c \notin busy'
  BY <1>1 DEF SafeOK, Gentle
<1>3. ASSUME NEW d \in Delegations, call'[d].child = c
      PROVE  /\ release'[c].pc # "none" => ~Preparing(d)'
             /\ Equipped(d)' => disk'[c].dir
             /\ call'[d].pc = "checked" => row'[c].status # "released"
  <2>1. Preparing(d)' => Preparing(d) /\ call[d].child = c
    BY <1>3 DEF Milder
  <2>2. call'[d].pc = "checked" => call[d].child = c /\ call[d].pc = "checked"
    BY <1>3, <2>1 DEF Milder, Preparing
  <2>3. Equipped(d)' => Equipped(d) /\ call[d].child = c
    BY <1>3, <2>1 DEF Milder, Equipped
  <2> QED BY <1>1, <2>1, <2>2, <2>3 DEF SafeOK, Gentle
<1> QED BY <1>1, <1>2, <1>3 DEF SafeOK, Gentle

\* A step of calls and tasks only.
LEMMA CallOnlyStep ==
    ASSUME DelegationInv, UNCHANGED workVars, busy' \subseteq busy, UNCHANGED raced,
           CallInv', PlanInv', \A d \in Delegations : Milder(d)
    PROVE  DelegationInv'
<1>1. UNCHANGED <<row, disk, release, look, lock, lost>>
  BY DEF workVars
<1>2. WorkInv'
  BY <1>1 DEF DelegationInv, WorkInv, WorkTypeOK, WorkOK
<1>3. \A c \in Delegations : Gentle(c)
  BY <1>1 DEF Gentle, Counts
<1> QED BY <1>2, <1>3, GentleSafe DEF DelegationInv

\* A step that touches one workspace, and the call that has it.
LEMMA OneChildStep ==
    ASSUME DelegationInv, NEW c \in Delegations, OneWorkspace(c), SafeOK(c)', CallInv', PlanInv',
           raced \subseteq raced', \A e \in Delegations \ {c} : e \in busy' => e \in busy,
           \A d \in Delegations : call'[d].child # c => Milder(d)
    PROVE  DelegationInv'
<1>1. WorkInv'
  BY WorkStep DEF DelegationInv
<1>2. ASSUME NEW e \in Delegations, e # c PROVE SafeOK(e)'
  <2>1. Gentle(e)
    BY <1>2 DEF Gentle, Counts, OneWorkspace, Others
  <2>2. \A d \in Delegations : call'[d].child = e => Milder(d)
    BY <1>2
  <2> QED BY <2>1, <2>2, GentleSafe DEF DelegationInv
<1> QED BY <1>1, <1>2 DEF DelegationInv

\* A step that leaves the directory of its child where it is.
LEMMA GentleStep ==
    ASSUME DelegationInv, NEW c \in Delegations, OneWorkspace(c), CallInv', PlanInv',
           UNCHANGED <<busy, raced>>, \A d \in Delegations : Milder(d),
           UNCHANGED <<release, disk, lost>>,
           row'[c].status = "released" => row[c].status = "released"
    PROVE  DelegationInv'
<1>1. Gentle(c)
  BY DEF Gentle, Counts
<1>2. SafeOK(c)'
  BY <1>1, GentleSafe DEF DelegationInv
<1> QED BY <1>2, OneChildStep

-----------------------------------------------------------------------------
(* The steps of a delegation.                                              *)

\* What a step starts from, for the child of a call.
LEMMA ChildNow ==
    ASSUME DelegationInv, NEW d \in Delegations
    PROVE  /\ WorkInv /\ CallInv /\ PlanInv /\ CallOK(d) /\ busy \subseteq sessions
           /\ sessions \subseteq Delegations /\ \A c \in Delegations : SafeOK(c) /\ WorkOK(c)
           /\ call[d].pc \in {"adding", "added", "creating"} => call[d].child = d
           /\ call[d].pc \in Working => call[d].child \in Delegations
<1>1. WorkInv /\ CallInv /\ PlanInv /\ \A c \in Delegations : SafeOK(c)
  BY DEF DelegationInv
<1>2. CallOK(d)
  BY <1>1, CallNow
<1> QED BY <1>1, <1>2 DEF CallInv, CallTypeOK, CallOK, WorkInv

\* A step that writes no row of the plan, and after which each call stands for what it did.
LEMMA PlanStays ==
    ASSUME CallInv, PlanInv, NoPlanStep, \A d \in Delegations : StandsOn(d)
    PROVE  PlanInv'
BY TaskRests, AttemptStands

LEMMA ProvisionKeeps ==
    ASSUME DelegationInv, NEW d \in Delegations, Provision(d)
    PROVE  DelegationInv'
<1>1. /\ WorkInv /\ CallInv /\ PlanInv /\ SafeOK(d) /\ WorkOK(d)
  BY ChildNow
<1>2. OneWorkspace(d) /\ Turns(d, "adding", d)
  BY <1>1, ProvisionRowStep, ProvisionCall DEF Provision
<1>3. PlanInv' /\ UNCHANGED <<busy, raced, disk, release, lost>>
  BY <1>1, <1>2, PlanStays DEF Turns, Provision, W!ProvisionRow
<1>4. row[d].status = "none" /\ row'[d].status = "provisioning"
  BY <1>1, MarkRow DEF Provision, W!ProvisionRow, W!RowStatus
<1>5. release[d].pc = "none"
  BY <1>1, <1>4 DEF WorkOK
<1>6. ASSUME NEW e \in Delegations, call'[e].child = d, Equipped(e)', d \notin raced
      PROVE  disk[d].dir
  <2>1. e # d /\ call'[e] = call[e] /\ Equipped(e)
    BY <1>2, <1>6 DEF Turns, Equipped, Milder
  <2> QED BY <1>1, <1>6, <2>1 DEF SafeOK
<1>7. SafeOK(d)'
  BY <1>1, <1>3, <1>4, <1>5, <1>6 DEF SafeOK, Counts
<1> QED BY <1>2, <1>3, <1>7, OneChildStep DEF Turns

LEMMA GitAddsKeeps ==
    ASSUME DelegationInv, NEW d \in Delegations, GitAddsWorktree(d)
    PROVE  DelegationInv'
<1>1. /\ WorkInv /\ CallInv /\ PlanInv /\ SafeOK(d) /\ call[d].child = d /\ call[d].pc = "adding"
  BY ChildNow DEF GitAddsWorktree
<1>2. OneWorkspace(d) /\ disk'[d].dir
  BY <1>1, AddWorktreeStep DEF GitAddsWorktree
<1>3. \E pc \in {"added", "inspected"} : Turns(d, pc, d)
  BY <1>1, ChildReady DEF GitAddsWorktree
<1>4. PlanInv' /\ UNCHANGED <<busy, raced, row, release, lost>>
  BY <1>1, <1>3, PlanStays DEF Turns, GitAddsWorktree, W!AddWorktree
<1>5. d \notin raced => release[d].pc = "none"
  BY <1>1 DEF SafeOK, Preparing
<1>6. ASSUME NEW e \in Delegations, call'[e].child = d, call'[e].pc = "checked", d \notin raced
      PROVE  row[d].status # "released"
  <2>1. e # d /\ call'[e] = call[e]
    BY <1>3, <1>6 DEF Turns
  <2> QED BY <1>1, <1>6, <2>1 DEF SafeOK
<1>7. SafeOK(d)'
  BY <1>1, <1>2, <1>4, <1>5, <1>6 DEF SafeOK, Counts
<1> QED BY <1>2, <1>3, <1>4, <1>7, OneChildStep DEF Turns

LEMMA ResumeKeeps ==
    ASSUME DelegationInv, NEW d \in Delegations, NEW c \in Delegations, Resume(d, c)
    PROVE  DelegationInv'
<1>1. /\ WorkInv /\ CallInv /\ PlanInv /\ SafeOK(c) /\ Turns(d, "checked", c)
  BY ChildNow, ResumeCall
<1>2. UNCHANGED <<row, disk, release, look, lock, lost, busy>> /\ row[c].status # "released"
  BY DEF Resume, workVars, W!Resumable
<1>3. PlanInv'
  BY <1>1, PlanStays DEF Turns, Resume
<1>4. raced \subseteq raced' /\ (c \notin raced' => release[c].pc = "none")
  BY DEF Resume, W!ReleaseAt
<1>5. OneWorkspace(c)
  BY <1>1, <1>2 DEF OneWorkspace, Others, WorkInv, WorkTypeOK, WorkOK
<1>6. ASSUME NEW e \in Delegations, call'[e].child = c, Equipped(e)', c \notin raced
      PROVE  disk[c].dir
  <2>1. e # d /\ call'[e] = call[e] /\ Equipped(e)
    BY <1>1, <1>6 DEF Turns, Equipped, Milder
  <2> QED BY <1>1, <1>6, <2>1 DEF SafeOK
<1>7. SafeOK(c)'
  BY <1>1, <1>2, <1>4, <1>6 DEF SafeOK, Counts
<1> QED BY <1>1, <1>2, <1>3, <1>4, <1>5, <1>7, OneChildStep DEF Turns

LEMMA ResumeInspectsKeeps ==
    ASSUME DelegationInv, NEW d \in Delegations, ResumeInspects(d)
    PROVE  DelegationInv'
<1>1. /\ WorkInv /\ CallInv /\ PlanInv /\ call[d].pc = "checked" /\ CallOK(d)
      /\ call[d].child \in Delegations
  BY ChildNow DEF ResumeInspects, Working
<1> PICK c \in Delegations : call[d].child = c
  BY <1>1
<1>2. /\ OneWorkspace(c) /\ UNCHANGED <<sessions, busy, raced, disk, release, lost>>
      /\ W!ResumeInspects(c)
  BY <1>1, ResumeInspectsStep DEF ResumeInspects, W!ResumeInspects
<1>3. row'[c].status \in {row[c].status, "missing"}
  BY <1>1, <1>2, InspectRow DEF W!ResumeInspects
<1>4. CASE row'[c].status = "missing"
  <2>1. Mild
    BY <1>1, <1>2, <1>4, EndsMild DEF ResumeInspects, Raises, Ended, CallOK
  <2> QED BY <1>1, <1>2, <1>4, <2>1, PlanStays, GentleStep DEF Mild, ResumeInspects
<1>5. CASE row'[c].status # "missing"
  <2>1. PICK pc \in {"added", "inspected"} : Turns(d, pc, c)
    BY <1>1, <1>2, <1>5, ChildReady DEF ResumeInspects
  <2>2. c \notin raced => release[c].pc = "none" /\ row[c].status # "released"
    BY <1>1, ChildNow DEF SafeOK, Preparing
  <2>3. c \notin raced => disk[c].dir
    BY <1>1, <1>2, <1>5, <2>2, InspectRow DEF W!ResumeInspects
  <2>4. SafeOK(c)'
    BY <1>2, <1>3, <1>5, <2>2, <2>3, ChildNow DEF SafeOK, Counts
  <2>5. PlanInv'
    BY <1>1, <2>1, PlanStays DEF Turns, ResumeInspects
  <2> QED BY <1>1, <1>2, <2>1, <2>4, <2>5, OneChildStep DEF Turns
<1> QED BY <1>4, <1>5

\* What the end of a provision, of a resumption and of a call do to the workspace.
LEMMA LeavesKeeps ==
    ASSUME DelegationInv, NEW d \in Delegations,
           \/ ProvisionFails(d) \/ Provisioned(d) \/ ResumeEnds(d) \/ Retain(d) \/ RetainEnds(d)
    PROVE  DelegationInv'
<1> DEFINE c == call[d].child
<1>1. /\ WorkInv /\ CallInv /\ PlanInv /\ CallOK(d) /\ c \in Delegations
      /\ call[d].pc \in {"adding", "added"} => c = d
  BY ChildNow DEF ProvisionFails, Provisioned, ResumeEnds, Retain, RetainEnds, Working
<1>2. UNCHANGED <<sessions, busy, raced>> /\ NoPlanStep
  BY DEF ProvisionFails, Provisioned, ResumeEnds, Retain, RetainEnds
<1>3. Mild
  <2>1. CASE ProvisionFails(d)
    BY <1>1, <1>2, <2>1, EndsMild DEF ProvisionFails, Raises, Ended, CallOK
  <2> QED BY <1>1, <2>1, GoesMild, RetainMild
<1>4. PlanInv'
  BY <1>1, <1>2, <1>3, PlanStays DEF Mild
<1>5. CASE ProvisionFails(d) \/ Provisioned(d)
  <2>1. PICK ok \in BOOLEAN : W!ProvisionEnds(c, ok)
    BY <1>1, <1>5 DEF ProvisionFails, Provisioned
  <2>2. OneWorkspace(c) /\ UNCHANGED <<disk, release, lost>>
    BY <1>1, <2>1, ProvisionEndsStep DEF W!ProvisionEnds
  <2>3. PICK status \in {"ready", "failed"} : W!Mark(c, status)
    BY <2>1 DEF W!ProvisionEnds
  <2>4. row'[c].status # "released"
    BY <1>1, <2>3, MarkRow DEF W!RowStatus
  <2> HIDE DEF c
  <2> QED BY <1>1, <1>2, <1>3, <1>4, <2>2, <2>4, GentleStep DEF Mild
<1>6. CASE ResumeEnds(d)
  <2>1. OneWorkspace(c) /\ UNCHANGED <<disk, release, lost>> /\ W!Mark(c, "ready")
    BY <1>1, <1>6, ResumeEndsStep DEF ResumeEnds, W!ResumeEnds
  <2>2. row'[c].status # "released"
    BY <1>1, <2>1, MarkRow DEF W!RowStatus
  <2> HIDE DEF c
  <2> QED BY <1>1, <1>2, <1>3, <1>4, <2>1, <2>2, GentleStep DEF Mild
<1>7. CASE Retain(d) \/ RetainEnds(d)
  <2>1. W!Retain(c) \/ W!RetainEnds(c)
    BY <1>7 DEF Retain, RetainEnds
  <2>2. OneWorkspace(c) /\ UNCHANGED <<disk, release, lost>>
    BY <1>1, <2>1, RetainStep DEF W!Retain, W!RetainEnds
  <2>3. row'[c].status = "released" => row[c].status = "released"
    BY <1>1, <2>1, MarkRow, InspectRow DEF W!Retain, W!RetainEnds, W!RowStatus
  <2> HIDE DEF c
  <2> QED BY <1>1, <1>2, <1>3, <1>4, <2>2, <2>3, GentleStep DEF Mild
<1> QED BY <1>5, <1>6, <1>7

LEMMA CreateSessionFailsKeeps ==
    ASSUME DelegationInv, NEW d \in Delegations, CreateSessionFails(d)
    PROVE  DelegationInv'
<1>1. /\ WorkInv /\ CallInv /\ PlanInv /\ SafeOK(d) /\ CallOK(d) /\ call[d].pc = "creating"
      /\ call[d].child = d /\ busy \subseteq sessions
  BY ChildNow DEF CreateSessionFails
<1>2. /\ OneWorkspace(d) /\ Counts(d)' /\ lost' = lost /\ UNCHANGED <<sessions, busy, raced>>
      /\ Ends(d, "raised")
  BY <1>1, ReleaseAskedStep DEF CreateSessionFails, Raises
<1>3. Mild
  BY <1>1, <1>2, EndsMild DEF Ended, CallOK
<1>4. PlanInv'
  BY <1>1, <1>3, PlanStays DEF Mild, CreateSessionFails
<1>5. d \notin busy
  BY <1>1 DEF CallOK, Fresh
<1>6. ASSUME NEW e \in Delegations, call'[e].child = d PROVE ~Preparing(e)'
  <2>1. e # d
    BY <1>1, <1>2, <1>6, EndsCall, DelegationAssumption DEF Ended
  <2>2. ~Preparing(e)
    <3>1. call[e].child = d
      BY <1>1, <1>2, <1>6, <2>1, EndsCall DEF Ended
    <3>2. call[e].pc \notin Working
      BY <1>1, <3>1, ChildNow DEF CallOK, Fresh
    <3>3. call[e].pc \notin {"adding", "added", "creating"}
      BY <2>1, <3>1, ChildNow
    <3>4. call[e].run # "spawned"
      BY <3>2, ChildNow DEF CallOK, Working
    <3> QED BY <3>2, <3>3, <3>4 DEF Preparing, Working
  <2> QED BY <1>3, <2>2 DEF Mild, Milder
<1>7. SafeOK(d)'
  BY <1>1, <1>2, <1>5, <1>6 DEF SafeOK, Equipped, Preparing
<1> QED BY <1>1, <1>2, <1>3, <1>4, <1>7, OneChildStep DEF Mild

\* The steps that touch no workspace: those of the task, of the question and of the run.
LEMMA CallsKeep ==
    ASSUME DelegationInv, NEW d \in Delegations,
           \/ Request(d) \/ (\E yes \in BOOLEAN : Answered(d, yes)) \/ CreateSession(d)
           \/ ReadTask(d) \/ Link(d) \/ LinkFails(d) \/ Prepare(d) \/ PrepareFails(d)
           \/ ChildStops(d) \/ Cancel(d) \/ Collect(d)
    PROVE  DelegationInv'
<1>1. /\ WorkInv /\ CallInv /\ PlanInv /\ CallOK(d)
  BY ChildNow
<1>2. UNCHANGED workVars /\ busy' \subseteq busy /\ UNCHANGED raced
  BY DEF Request, Answered, CreateSession, ReadTask, Link, LinkFails, Prepare, PrepareFails,
         ChildStops, ChildEnds, Cancel, Collect, Only, PlanOnly
<1>3. CASE Link(d)
  BY <1>1, <1>2, <1>3, LinkFollows, CallOnlyStep
<1>4. CASE ~Link(d)
  <2>1. NoPlanStep
    BY <1>4 DEF Request, Answered, CreateSession, ReadTask, LinkFails, Prepare, PrepareFails,
                ChildStops, ChildEnds, Cancel, Collect, Only
  <2>2. Mild
    <3>1. ASSUME Raises(d), call[d].pc \in {"asking", "linking", "preparing"},
                 UNCHANGED <<sessions, busy, raced>>
          PROVE  Mild
      BY <1>1, <3>1, EndsMild DEF Raises, Ended, CallOK
    <3>2. CASE Request(d) \/ CreateSession(d)
      BY <1>1, <3>2, GoesMild
    <3>3. CASE \E yes \in BOOLEAN : Answered(d, yes)
      BY <1>1, <3>1, <3>3, GoesMild DEF Answered, Only
    <3>4. CASE LinkFails(d) \/ PrepareFails(d)
      BY <3>1, <3>4 DEF LinkFails, PrepareFails, Only
    <3> QED BY <1>1, <1>4, <3>2, <3>3, <3>4, StartsMild, RunsMild, CollectMild
  <2> QED BY <1>1, <1>2, <2>1, <2>2, PlanStays, CallOnlyStep DEF Mild
<1> QED BY <1>3, <1>4

\* The steps by which a call is left in the middle.
LEMMA LeftKeeps ==
    ASSUME DelegationInv, NEW d \in Delegations,
           ResumeFails(d) \/ RetainFails(d) \/ OrphanEnds(d) \/ ParentCancelled(d)
    PROVE  DelegationInv'
<1>1. /\ WorkInv /\ CallInv /\ PlanInv /\ CallOK(d)
      /\ UNCHANGED <<sessions, busy, raced>> /\ NoPlanStep
  BY ChildNow DEF ResumeFails, RetainFails, OrphanEnds, ParentCancelled, Only
<1>2. CASE Goes(d, "orphan") /\ call[d].pc = "waiting" /\ UNCHANGED workVars
  <2>1. Mild
    BY <1>1, <1>2, GoesCall, MildCall
       DEF CallOK, Milder, StandsOn, Answers, Preparing, Equipped, Fresh, Working, Ended
  <2> QED BY <1>1, <1>2, <2>1, PlanStays, CallOnlyStep DEF Mild
<1>3. CASE /\ Raises(d) /\ call[d].pc \in Cancellable \cup {"waiting", "orphan", "retained"}
           /\ call[d].pc \in {"waiting", "orphan"} => call[d].run # "active"
  <2>1. call[d].run # "active"
    BY <1>1, <1>3 DEF CallOK, Cancellable
  <2>2. Mild
    BY <1>1, <1>3, <2>1, EndsMild DEF Raises, Ended
  <2>3. PlanInv'
    BY <1>1, <2>2, PlanStays DEF Mild
  <2>4. CASE UNCHANGED workVars
    BY <1>1, <2>2, <2>3, <2>4, CallOnlyStep DEF Mild
  <2>5. CASE call[d].pc = "adding" /\ W!AddWorktree(d)
    <3>1. OneWorkspace(d) /\ disk'[d].dir /\ disk'[d].ahead = disk[d].ahead
      BY <1>1, <2>5, AddWorktreeStep
    <3>2. Gentle(d)
      BY <1>1, <2>5, <3>1 DEF Gentle, Counts, W!AddWorktree
    <3>3. SafeOK(d)'
      BY <2>2, <3>2, GentleSafe DEF Mild, DelegationInv
    <3> QED BY <1>1, <2>2, <2>3, <3>1, <3>3, OneChildStep DEF Mild
  <2>6. CASE call[d].pc = "retained" /\ W!RetainStops(call[d].child)
    <3> PICK c \in Delegations : call[d].child = c
      BY <2>6, ChildNow DEF Working
    <3>1. /\ lock' \in [Delegations -> {"free", "retain", "release"}] /\ lock'[c] = "free"
          /\ \A e \in Delegations \ {c} : lock'[e] = lock[e] /\ lock[c] = "retain"
          /\ UNCHANGED <<row, disk, release, look, lost>>
      BY <1>1, <2>6 DEF W!RetainStops, WorkInv, WorkTypeOK
    <3>2. release[c].pc \in {"none", "asked"}
      BY <1>1, <2>6 DEF WorkInv, WorkOK, W!RetainStops
    <3>3. OneWorkspace(c)
      BY <1>1, <3>1, <3>2 DEF OneWorkspace, Others, WorkInv, WorkTypeOK, WorkOK
    <3> QED BY <1>1, <2>2, <2>3, <3>1, <3>3, GentleStep DEF Mild
  <2> QED BY <1>3, <2>4, <2>5, <2>6
          DEF ResumeFails, RetainFails, OrphanEnds, ParentCancelled, Only, workVars,
              W!InspectFails, W!RetainFails, W!workspaceVars
<1> QED BY <1>2, <1>3 DEF ResumeFails, RetainFails, OrphanEnds, ParentCancelled, Cancellable

LEMMA RecordKeeps ==
    ASSUME DelegationInv, NEW d \in Delegations, Record(d) \/ RecordFails(d)
    PROVE  DelegationInv'
<1>1. /\ WorkInv /\ CallInv /\ PlanInv
  BY ChildNow
<1>2. UNCHANGED workVars /\ UNCHANGED <<sessions, busy, raced>>
  BY DEF Record, RecordFails, Only, PlanOnly
<1>3. CASE Record(d)
  BY <1>1, <1>2, <1>3, RecordFollows, CallOnlyStep
<1>4. CASE RecordFails(d)
  <2>1. Synced(d, "error") /\ call[d].pc = "recording" /\ NoPlanStep
    BY <1>4 DEF RecordFails, Only
  <2>2. CallInv' /\ \A e \in Delegations : Milder(e) /\ StandsOn(e)
    BY <1>1, <1>2, <2>1, SyncedCall
  <2> QED BY <1>1, <1>2, <2>1, <2>2, PlanStays, CallOnlyStep
<1> QED BY <1>3, <1>4

LEMMA BatchKeeps ==
    ASSUME DelegationInv, RequestBatch
    PROVE  DelegationInv'
<1>1. CallInv /\ PlanInv /\ Mild
  BY BatchMild DEF DelegationInv
<1> QED BY <1>1, PlanStays, CallOnlyStep DEF Mild, RequestBatch

\* What is done to the plan beside the delegations.
LEMMA PlanKeeps ==
    ASSUME DelegationInv, CreatePlan \/ UserEdits
    PROVE  DelegationInv'
<1>1. CallInv /\ PlanInv /\ UNCHANGED <<workVars, ownVars>>
  BY DEF DelegationInv, CreatePlan, UserEdits
<1>2. CallInv' /\ \A d \in Delegations : Milder(d) /\ StandsOn(d)
  BY <1>1, CallsRest DEF ownVars, CallInv, CallTypeOK
<1>3. PlanInv'
  BY <1>1, <1>2, CreateGoesOn, EditsGoOn, AttemptStands
<1> QED BY <1>1, <1>2, <1>3, CallOnlyStep DEF ownVars

\* The child that starts is the one for which everything was prepared.
LEMMA ChildStartsKeeps ==
    ASSUME DelegationInv, NEW d \in Delegations, ChildStarts(d)
    PROVE  DelegationInv'
<1>1. /\ WorkInv /\ CallInv /\ PlanInv /\ call[d].child \in Delegations
      /\ call[d].run = "spawned" /\ call[d].pc \in {"waiting", "orphan"}
  BY ChildNow DEF ChildStarts, CallOK, Working
<1> PICK c \in Delegations : call[d].child = c
  BY <1>1
<1>2. Mild /\ UNCHANGED workVars /\ UNCHANGED raced /\ NoPlanStep
  BY <1>1, RunsMild DEF ChildStarts
<1>3. PlanInv'
  BY <1>1, <1>2, PlanStays DEF Mild
<1>4. CASE busy' = busy
  BY <1>1, <1>2, <1>3, <1>4, CallOnlyStep DEF Mild
<1>5. CASE call' = [call EXCEPT ![d].run = "active"] /\ busy' = busy \cup {c}
  <2>1. UNCHANGED <<row, disk, release, look, lock, lost>>
    BY <1>2 DEF workVars
  <2>2. OneWorkspace(c)
    BY <1>1, <2>1 DEF OneWorkspace, Others, WorkInv, WorkTypeOK, WorkOK
  <2>3. SafeOK(c) /\ (c \notin raced => release[c].pc = "none" /\ disk[c].dir)
    BY <1>1, ChildNow DEF SafeOK, Preparing, Equipped
  <2>4. ASSUME NEW e \in Delegations, call'[e].child = c, c \notin raced
        PROVE  call'[e].pc = "checked" => row[c].status # "released"
    BY <1>2, <2>3, <2>4 DEF Mild, Milder, SafeOK, Preparing
  <2>5. SafeOK(c)'
    BY <1>2, <2>1, <2>3, <2>4 DEF SafeOK, Counts
  <2>6. \A e \in Delegations \ {c} : e \in busy' => e \in busy
    BY <1>5
  <2> QED BY <1>2, <1>3, <2>2, <2>5, <2>6, OneChildStep DEF Mild
<1> QED BY <1>4, <1>5 DEF ChildStarts, RunEnds

LEMMA ChildEditsKeeps ==
    ASSUME DelegationInv, NEW d \in Delegations, ChildEdits(d)
    PROVE  DelegationInv'
<1>1. /\ WorkInv /\ CallInv /\ PlanInv /\ call[d].child \in Delegations /\ call[d].child \in busy
  BY ChildNow DEF ChildEdits, Working, CallOK
<1> PICK c \in Delegations : call[d].child = c
  BY <1>1
<1>2. OneWorkspace(c) /\ disk'[c].dir /\ UNCHANGED <<row, release, look, lock, lost>>
  BY <1>1, EditsStep DEF ChildEdits, W!Edits
<1>3. UNCHANGED <<call, sessions, busy, raced>> /\ NoPlanStep
  BY DEF ChildEdits, ownVars
<1>4. CallInv' /\ \A e \in Delegations : Milder(e) /\ StandsOn(e)
  BY <1>1, <1>3, CallsRest DEF CallInv, CallTypeOK
<1>5. SafeOK(c) /\ (c \notin raced => release[c].pc = "none")
  BY <1>1, ChildNow DEF SafeOK
<1>6. SafeOK(c)'
  BY <1>2, <1>3, <1>5 DEF SafeOK, Counts, Equipped, Preparing
<1> QED BY <1>1, <1>2, <1>3, <1>4, <1>6, PlanStays, OneChildStep

\* A release is asked for while the child is idle.
LEMMA AskReleaseKeeps ==
    ASSUME DelegationInv, NEW c \in Delegations, NEW force \in BOOLEAN, AskRelease(c, force)
    PROVE  DelegationInv'
<1>1. WorkInv /\ CallInv /\ PlanInv /\ SafeOK(c)
  BY ChildNow
<1>2. /\ OneWorkspace(c) /\ Counts(c)' /\ row' = row /\ disk' = disk /\ lost' = lost
  BY <1>1, ReleaseAskedStep DEF AskRelease
<1>3. /\ UNCHANGED <<call, sessions, busy>> /\ NoPlanStep /\ c \notin busy
      /\ raced \subseteq raced' /\ raced' \subseteq Delegations
      /\ c \notin raced' => \A d \in Delegations : call[d].child = c => ~Preparing(d)
  BY <1>1 DEF AskRelease, CallInv, CallTypeOK
<1>4. CallInv' /\ \A e \in Delegations : Milder(e) /\ StandsOn(e)
  BY <1>1, <1>3, CallsRest
<1>5. SafeOK(c)'
  BY <1>1, <1>2, <1>3 DEF SafeOK, Equipped, Preparing
<1> QED BY <1>1, <1>2, <1>3, <1>4, <1>5, PlanStays, OneChildStep

LEMMA ReleaseStepKeeps ==
    ASSUME DelegationInv, NEW c \in Delegations, ReleaseStep(c)
    PROVE  DelegationInv'
<1>1. WorkInv /\ CallInv /\ PlanInv /\ SafeOK(c)
  BY ChildNow
<1>2. Releases(c) /\ release[c].pc # "none"
  BY <1>1, ReleaseStepStep DEF ReleaseStep
<1>3. UNCHANGED <<call, sessions, busy, raced>> /\ NoPlanStep
  BY DEF ReleaseStep, ownVars
<1>4. CallInv' /\ \A e \in Delegations : Milder(e) /\ StandsOn(e)
  BY <1>1, <1>3, CallsRest DEF CallInv, CallTypeOK
<1>5. SafeOK(c)'
  BY <1>1, <1>2, <1>3 DEF SafeOK, Releases, Equipped, Preparing
<1> QED BY <1>1, <1>2, <1>3, <1>4, <1>5, PlanStays, OneChildStep DEF Releases

LEMMA LookKeeps ==
    ASSUME DelegationInv, NEW c \in Delegations, LookFindsNothing(c) \/ LookWrites(c)
    PROVE  DelegationInv'
<1>1. WorkInv /\ CallInv /\ PlanInv
  BY ChildNow
<1>2. W!LookFindsNothing(c) \/ W!LookWrites(c)
  BY DEF LookFindsNothing, LookWrites
<1>3. /\ OneWorkspace(c) /\ UNCHANGED <<release, disk, lost>>
      /\ row'[c].status = "released" => row[c].status = "released"
  BY <1>1, <1>2, LookStep, MarkRow DEF W!LookFindsNothing, W!LookWrites, W!RowStatus
<1>4. UNCHANGED <<call, sessions, busy, raced>> /\ NoPlanStep
  BY DEF LookFindsNothing, LookWrites, ownVars
<1>5. CallInv' /\ \A e \in Delegations : Milder(e) /\ StandsOn(e)
  BY <1>1, <1>4, CallsRest DEF CallInv, CallTypeOK
<1> QED BY <1>1, <1>3, <1>4, <1>5, PlanStays, GentleStep

LEMMA CrashKeeps ==
    ASSUME DelegationInv, Crash
    PROVE  DelegationInv'
<1>1. WorkInv /\ CallInv /\ PlanInv /\ \A c \in Delegations : SafeOK(c)
  BY DEF DelegationInv
<1>2. /\ Mild /\ \A d \in Delegations : ~Preparing(d)' /\ call'[d].pc # "checked"
      /\ busy' = {} /\ raced' = raced /\ lost' = lost
  BY <1>1, CrashMild DEF Crash, W!RestartWorkspaces
<1>3. WorkInv' /\ \A c \in Delegations : release'[c].pc = "none"
  BY <1>1, RestartStep DEF Crash
<1>4. \A c \in Delegations : SafeOK(c)'
  BY <1>1, <1>2, <1>3 DEF SafeOK, Counts, Equipped
<1> QED BY <1>1, <1>2, <1>3, <1>4, PlanStays DEF DelegationInv, Mild, Crash

-----------------------------------------------------------------------------
(* The theorems.                                                           *)

LEMMA DelegationStarts ==
    ASSUME Init
    PROVE  DelegationInv
<1>1. /\ row = [c \in Delegations |-> [status |-> "none", dirty |-> FALSE]]
      /\ disk = [c \in Delegations |-> [dir |-> FALSE, dirty |-> FALSE,
                                        branch |-> FALSE, ahead |-> FALSE]]
      /\ release = [c \in Delegations |-> W!NoRelease]
      /\ look = [c \in Delegations |-> FALSE] /\ lock = [c \in Delegations |-> "free"]
      /\ lost = [c \in Delegations |-> {}]
      /\ call = [d \in Delegations |-> Idle]
      /\ sessions = {} /\ busy = {} /\ raced = {}
  BY DEF Init, W!InitWorkspaces
<1>2. WorkInv
  <2>1. WorkTypeOK
    BY <1>1, NoReleaseType DEF WorkTypeOK, RowType, DiskType, W!RowStatus
  <2> QED BY <1>1, <2>1, NoReleaseType DEF WorkInv, WorkOK
<1>3. Idle \in CallType /\ Idle.pc = "idle" /\ Idle.run = "none" /\ Idle.child = NULL /\ Idle.sync = "none"
  BY DEF Idle, CallType, Fresh
<1>4. CallInv
  BY <1>1, <1>3 DEF CallInv, CallTypeOK, OneRunPerChild, CallOK, Fresh, Working, Ended
<1>5. PlanInv
  <2>1. /\ task = [t \in Tasks |-> T!NewTask(0, "none", 1)] /\ PlanTask \in Tasks
        /\ 1 \in 1 .. MaxAttempts /\ 0 \in 0 .. MaxPlans
    BY DelegationAssumption DEF Init, T!Init
  <2>2. T!NewTask(0, "none", 1) \in T!TaskType /\ T!NewTask(0, "none", 1).status = "none"
    BY <2>1 DEF T!NewTask, T!TaskType
  <2> QED BY <1>1, <1>3, <2>1, <2>2 DEF PlanInv, RowOK, AttemptIsFollowed, T!NewTask, Idle
<1>6. ASSUME NEW c \in Delegations PROVE SafeOK(c)
  BY <1>1, <1>3, NoReleaseType DEF SafeOK, Counts, Equipped, Preparing
<1> QED BY <1>2, <1>4, <1>5, <1>6 DEF DelegationInv

LEMMA CallStepKeeps ==
    ASSUME DelegationInv, NEW d \in Delegations, CallStep(d)
    PROVE  DelegationInv'
BY ProvisionKeeps, GitAddsKeeps, LeavesKeeps, CreateSessionFailsKeeps, ResumeKeeps,
   ResumeInspectsKeeps, CallsKeep, LeftKeeps, RecordKeeps DEF CallStep

LEMMA DelegationGoesOn ==
    ASSUME DelegationInv, [Next]_vars
    PROVE  DelegationInv'
<1>1. CASE \E d \in Delegations : Request(d)
  BY <1>1, CallsKeep
<1>2. CASE \E d \in Delegations, yes \in BOOLEAN : Answered(d, yes)
  BY <1>2, CallsKeep
<1>3. CASE \E d \in Delegations : CallStep(d)
  BY <1>3, CallStepKeeps
<1>4. CASE \E d \in Delegations : ChildStarts(d) \/ ChildEdits(d) \/ ChildStops(d) \/ Cancel(d)
  BY <1>4, ChildStartsKeeps, ChildEditsKeeps, CallsKeep
<1>5. CASE \E c \in Delegations, force \in BOOLEAN : AskRelease(c, force)
  BY <1>5, AskReleaseKeeps
<1>6. CASE \E c \in Delegations : ReleaseStep(c) \/ LookFindsNothing(c) \/ LookWrites(c)
  BY <1>6, ReleaseStepKeeps, LookKeeps
<1>7. CASE CreatePlan \/ UserEdits \/ RequestBatch \/ Crash
  BY <1>7, PlanKeeps, BatchKeeps, CrashKeeps
<1>8. CASE UNCHANGED vars
  <2>1. /\ UNCHANGED workVars /\ UNCHANGED <<call, sessions, busy, raced>> /\ task' = task
        /\ CallInv /\ PlanInv
    BY <1>8 DEF vars, planVars, ownVars, DelegationInv
  <2>2. CallInv' /\ \A d \in Delegations : Milder(d) /\ StandsOn(d)
    BY <2>1, CallsRest DEF CallInv, CallTypeOK
  <2>3. PlanInv'
    <3>1. TaskGoesOn
      BY <2>1 DEF TaskGoesOn, PlanInv, RowOK, T!TaskType
    <3> QED BY <2>1, <2>2, <3>1, AttemptStands
  <2> QED BY <2>1, <2>2, <2>3, CallOnlyStep
<1> QED BY <1>1, <1>2, <1>3, <1>4, <1>5, <1>6, <1>7, <1>8 DEF Next

\* The invariant of a delegation: what the rows, the locks and the directories of the
\* workspaces say of each other, what a call holds at each of its places, one run at a time
\* of a child, and no release beside a delegation that prepares or runs the child.
THEOREM DelegationInvariantHolds == Spec => []DelegationInv
<1>1. Init => DelegationInv
  BY DelegationStarts
<1>2. DelegationInv /\ [Next]_vars => DelegationInv'
  BY DelegationGoesOn
<1> QED BY <1>1, <1>2, PTL DEF Spec

\* execute_task: whatever the API, its users and the agents do to the plan, and wherever a call
\* fails, is cancelled or is lost with its process, no delegation has returned as if all were
\* well while the attempt it started still runs.
THEOREM AttemptsAreFollowed == Spec => []AttemptIsFollowed
<1>1. DelegationInv => AttemptIsFollowed
  BY DEF DelegationInv, PlanInv
<1> QED BY <1>1, DelegationInvariantHolds, PTL

\* run: no two delegations, not even with an orphan between them, have runs of the same child
\* under way.
THEOREM ChildrenRunAlone == Spec => []OneRunPerChild
<1>1. DelegationInv => OneRunPerChild
  BY DEF DelegationInv, CallInv
<1> QED BY <1>1, DelegationInvariantHolds, PTL

\* release_workspace: a release that no delegation has raced takes the directory of no
\* child at work, and no commit.
THEOREM ReleasesTakeNothing == Spec => []ReleaseTakesNothing
<1>1. DelegationInv => ReleaseTakesNothing
  BY DEF DelegationInv, SafeOK, ReleaseTakesNothing
<1> QED BY <1>1, DelegationInvariantHolds, PTL

\* retain and release: a row is retained only while its directory is there.
THEOREM RetainedAreThere == Spec => []RetainedIsThere
<1>1. DelegationInv => RetainedIsThere
  BY DEF DelegationInv, WorkInv, WorkOK, RetainedIsThere
<1> QED BY <1>1, DelegationInvariantHolds, PTL
=============================================================================
