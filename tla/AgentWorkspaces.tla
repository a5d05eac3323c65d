-------------------------- MODULE AgentWorkspaces --------------------------
(***************************************************************************)
(* The isolated worktrees of child sessions: GitWorktreeManager of         *)
(* agents/workspaces.py over the rows of agent_workspaces.                 *)
(*                                                                         *)
(* A row and the worktree it names change separately, so every git command *)
(* and every row update is a step of its own.  A release and a retention   *)
(* hold the lock of the workspace; a provision, an inspection by the API   *)
(* and the resumption of a child take no lock that excludes them.  Every   *)
(* git command may fail, by itself or by its timeout.                      *)
(***************************************************************************)
EXTENDS Naturals

CONSTANTS Children   \* the child sessions; each has at most one workspace

RowStatus == {"none", "provisioning", "ready", "retained",
              "releasing", "released", "failed", "missing"}

VARIABLES
    row,      \* the row of each child: its status and the dirty flag it records
    disk,     \* what git holds: the directory, changes not committed, the
              \* branch, and whether commits are on it
    release,  \* how far a release request has come, with what it has read
    look,     \* the inspection of the API found no directory
    lock,     \* who holds the lock of the workspace
    lost      \* history: what git threw away, "changes" or "commits"

workspaceVars == <<row, disk, release, look, lock, lost>>

NoRelease == [pc |-> "none", force |-> FALSE, ahead |-> FALSE]

InitWorkspaces ==
    /\ row = [c \in Children |-> [status |-> "none", dirty |-> FALSE]]
    /\ disk = [c \in Children |-> [dir |-> FALSE, dirty |-> FALSE,
                                   branch |-> FALSE, ahead |-> FALSE]]
    /\ release = [c \in Children |-> NoRelease]
    /\ look = [c \in Children |-> FALSE]
    /\ lock = [c \in Children |-> "free"]
    /\ lost = [c \in Children |-> {}]

\* update_agent_workspace of the status.
Mark(c, status) == row' = [row EXCEPT ![c].status = status]

Resumable(c) == row[c].status \in {"ready", "retained"}

-----------------------------------------------------------------------------
(* provision.                                                              *)

ProvisionRow(c) ==
    /\ row[c].status = "none"
    /\ Mark(c, "provisioning")
    /\ UNCHANGED <<disk, release, look, lock, lost>>

AddWorktree(c) ==
    /\ disk' = [disk EXCEPT ![c].dir = TRUE, ![c].branch = TRUE]
    /\ UNCHANGED <<row, release, look, lock, lost>>

ProvisionEnds(c, ok) ==
    /\ Mark(c, IF ok THEN "ready" ELSE "failed")
    /\ UNCHANGED <<disk, release, look, lock, lost>>

-----------------------------------------------------------------------------
(* ensure_resumable: the status is checked, the directory is inspected and  *)
(* the status is written in three steps.                                   *)

\* inspect, on a row that is not released: what it writes.
InspectWrites(c) ==
    row' = [row EXCEPT ![c] = IF disk[c].dir THEN [@ EXCEPT !.dirty = disk[c].dirty]
                                             ELSE [@ EXCEPT !.status = "missing"]]

\* rev-parse or status fails in a directory that is there: nothing is written.
InspectFails(c) ==
    /\ row[c].status # "released" /\ disk[c].dir
    /\ UNCHANGED workspaceVars

\* A released row is returned as it is, and is not missing.
ResumeInspects(c) ==
    /\ IF row[c].status = "released" THEN UNCHANGED row ELSE InspectWrites(c)
    /\ UNCHANGED <<disk, release, look, lock, lost>>

ResumeEnds(c) ==
    /\ Mark(c, "ready")
    /\ UNCHANGED <<disk, release, look, lock, lost>>

-----------------------------------------------------------------------------
(* retain.                                                                 *)

\* A mutant: the lock is not taken.
RetainUnlocked(c) ==
    /\ IF row[c].status \in {"none", "released", "missing"}
       THEN UNCHANGED <<row, lock>>
       ELSE /\ InspectWrites(c)
            /\ lock' = [lock EXCEPT ![c] = IF disk[c].dir THEN "retain" ELSE "free"]
    /\ UNCHANGED <<disk, release, look, lost>>

Retain(c) ==
    /\ lock[c] = "free"
    /\ IF row[c].status \in {"none", "released", "missing"}
       THEN UNCHANGED <<row, lock>>
       ELSE /\ InspectWrites(c)
            /\ lock' = [lock EXCEPT ![c] = IF disk[c].dir THEN "retain" ELSE "free"]
    /\ UNCHANGED <<disk, release, look, lost>>

RetainFails(c) ==
    /\ lock[c] = "free" /\ row[c].status \notin {"none", "released", "missing"}
    /\ InspectFails(c)

\* The caller is cancelled before the update.
RetainStops(c) ==
    /\ lock[c] = "retain"
    /\ lock' = [lock EXCEPT ![c] = "free"]
    /\ UNCHANGED <<row, disk, release, look, lost>>

RetainEnds(c) ==
    /\ lock[c] = "retain"
    /\ Mark(c, "retained")
    /\ lock' = [lock EXCEPT ![c] = "free"]
    /\ UNCHANGED <<disk, release, look, lost>>

-----------------------------------------------------------------------------
(* release.                                                                *)

ReleaseAt(c, pc) == release[c].pc = pc

ReleaseGoes(c, pc) == release' = [release EXCEPT ![c].pc = pc]

\* The request ends, with or without an error, and leaves the lock.
ReleaseStops(c) ==
    /\ release' = [release EXCEPT ![c] = NoRelease]
    /\ lock' = [lock EXCEPT ![c] = "free"]

\* The API asks; the caller (AgentService.release_workspace) has seen the
\* child session idle.
ReleaseAsked(c, force) ==
    /\ ReleaseAt(c, "none")
    /\ row[c].status # "none"
    /\ release' = [release EXCEPT ![c] = [pc |-> "asked", force |-> force, ahead |-> FALSE]]
    /\ UNCHANGED <<row, disk, look, lock, lost>>

ReleaseInspects(c) ==
    /\ ReleaseAt(c, "asked")
    /\ lock[c] = "free"
    /\ IF row[c].status = "released"
       THEN UNCHANGED row /\ ReleaseStops(c)
       ELSE \/ /\ InspectWrites(c)
               /\ IF row'[c].status = "missing"
                  THEN ReleaseStops(c)
                  ELSE /\ ReleaseGoes(c, "inspected")
                       /\ lock' = [lock EXCEPT ![c] = "release"]
            \/ disk[c].dir /\ UNCHANGED row /\ ReleaseStops(c)
    /\ UNCHANGED <<disk, look, lost>>

ReleaseMarks(c) ==
    /\ ReleaseAt(c, "inspected")
    /\ IF row[c].dirty /\ ~release[c].force
       THEN ReleaseStops(c) /\ UNCHANGED row
       ELSE /\ Mark(c, "releasing")
            /\ ReleaseGoes(c, "marked")
            /\ UNCHANGED lock
    /\ UNCHANGED <<disk, look, lost>>

\* A failing rev-list is not caught: the row stays "releasing".
ReleaseCounts(c) ==
    /\ ReleaseAt(c, "marked")
    /\ \/ /\ release' = [release EXCEPT ![c].pc = "counted", ![c].ahead = disk[c].ahead]
          /\ UNCHANGED lock
       \/ ReleaseStops(c)
    /\ UNCHANGED <<row, disk, look, lost>>

ReleaseFails(c) ==
    /\ release[c].pc \in {"counted", "removed"}
    /\ Mark(c, "failed")
    /\ ReleaseStops(c)
    /\ UNCHANGED <<disk, look, lost>>

\* git worktree remove itself refuses a dirty worktree, unless forced.
ReleaseRemoves(c) ==
    /\ ReleaseAt(c, "counted")
    /\ disk[c].dir
    /\ disk[c].dirty => release[c].force
    /\ disk' = [disk EXCEPT ![c].dir = FALSE, ![c].dirty = FALSE]
    /\ lost' = [lost EXCEPT ![c] = @ \cup IF disk[c].dirty THEN {"changes"} ELSE {}]
    /\ ReleaseGoes(c, "removed")
    /\ UNCHANGED <<row, look, lock>>

\* The branch goes if the count found no commit on it; git branch -D asks no
\* further question.
ReleaseEnds(c) ==
    /\ ReleaseAt(c, "removed")
    /\ IF release[c].ahead
       THEN UNCHANGED <<disk, lost>>
       ELSE /\ disk' = [disk EXCEPT ![c].branch = FALSE, ![c].ahead = FALSE]
            /\ lost' = [lost EXCEPT ![c] = @ \cup IF disk[c].ahead THEN {"commits"} ELSE {}]
    /\ Mark(c, "released")
    /\ ReleaseStops(c)
    /\ UNCHANGED look

ReleaseStep(c) ==
    \/ ReleaseInspects(c)
    \/ ReleaseMarks(c)
    \/ ReleaseCounts(c)
    \/ ReleaseRemoves(c)
    \/ ReleaseFails(c)
    \/ ReleaseEnds(c)

-----------------------------------------------------------------------------
(* The inspection the API offers (no lock), and the start of a process.    *)

\* It writes only after it has looked; the flags it writes for a directory
\* that exists decide nothing and are left out.
LookFindsNothing(c) ==
    /\ row[c].status \notin {"none", "released"}
    /\ ~disk[c].dir
    /\ ~look[c]
    /\ look' = [look EXCEPT ![c] = TRUE]
    /\ UNCHANGED <<row, disk, release, lock, lost>>

LookWrites(c) ==
    /\ look[c]
    /\ Mark(c, "missing")
    /\ look' = [look EXCEPT ![c] = FALSE]
    /\ UNCHANGED <<disk, release, lock, lost>>

\* What reconcile writes for a row.
Reconciled(c) ==
    CASE row[c].status = "provisioning" -> "failed"
      [] Resumable(c) /\ ~disk[c].dir -> "missing"
      [] OTHER -> row[c].status

\* The process ends: requests and locks go with it; the next one reconciles
\* before it serves a request.
RestartWorkspaces ==
    /\ row' = [c \in Children |-> [row[c] EXCEPT !.status = Reconciled(c)]]
    /\ release' = [c \in Children |-> NoRelease]
    /\ look' = [c \in Children |-> FALSE]
    /\ lock' = [c \in Children |-> "free"]
    /\ UNCHANGED <<disk, lost>>

\* A child at work in its directory changes files and commits them.
Edits(c) ==
    /\ disk[c].dir
    /\ \/ disk' = [disk EXCEPT ![c].dirty = TRUE]
       \/ /\ disk[c].dirty
          /\ disk' = [disk EXCEPT ![c].dirty = FALSE, ![c].ahead = TRUE]
    /\ disk' # disk
    /\ UNCHANGED <<row, release, look, lock, lost>>
=============================================================================
