----------------------------- MODULE WorkKeeping -----------------------------
(***************************************************************************)
(* What becomes of an agent's uncommitted work when its session ends, is   *)
(* replaced, or loses its daemon (session_manager/manager.go over           *)
(* adapters/workspace/gitworktree).  One session, one worktree: the         *)
(* session row, the restore marker (a session_worktrees row), the worktree, *)
(* the preserve ref and the agent's pane are five stores written one after  *)
(* the other, with no lock around an operation; the daemon may die between  *)
(* any two writes, and the boot pass starts from what it left.  Requests    *)
(* wait for the end of the boot pass, except those of a paired phone: its   *)
(* listener shares the router and is opened before the pass begins.         *)
(***************************************************************************)
EXTENDS Naturals, FiniteSets

CONSTANTS
  Edits,      \* the edits the agent may make
  MaxDeaths,  \* bound on the deaths of the daemon
  Mishaps     \* which of MishapKinds the instance includes

\* git_fails: a stash, a removal, a restore or a replay fails;
\* runtime_fails: a probe, a kill or a launch of the pane or of a shell terminal fails;
\* restore: the user restores a terminated session;
\* lan_early: Connect Mobile was left on, so the LAN serves requests during the boot pass.
MishapKinds == {"git_fails", "runtime_fails", "restore", "lan_early"}

ASSUME EditsAssumption == IsFiniteSet(Edits)
ASSUME DeathsAssumption == MaxDeaths \in Nat
ASSUME MishapAssumption == Mishaps \subseteq MishapKinds

VARIABLES
  live,     \* the session row is not terminated
  marker,   \* the restore marker: its state, and whether it names a ref
  tree,     \* the worktree is on disk
  edits,    \* the uncommitted edits in it
  captured, \* the edits refs/ao/preserved/<session> holds ({}: no ref)
  branch,   \* the edits the agent committed
  pane,     \* the agent runs in its tmux pane
  boot,     \* how far the boot pass of the daemon is
  op,       \* how far each request served by the daemon is
  deaths,   \* deaths of the daemon so far
  late,     \* history: edits made after the retirement under way captured the worktree
  saved,    \* history: what the last capture held
  early,    \* history: the kill under way began during the boot pass
  killed    \* history: the user's last word is a kill that succeeded, and when it began

stores == <<live, marker, tree, edits, captured, branch>>
history == <<late, saved, early, killed>>
workVars == <<stores, pane, boot, op, deaths, history>>

Markers == {"none", "clean", "captured", "active"}
Restorable == {"clean", "captured"}
BootSteps == {"dead", "look", "probe", "leaked", "save", "mark_clean", "mark_captured",
              "terminate", "remove", "restore", "attach_clean", "attach_captured", "apply",
              "relaunch", "spawned", "consume", "forget", "serving"}
Requests == {"kill", "cleanup", "retire", "restore"}
RequestSteps == {"idle", "pane", "remove", "forget", "terminate", "attach", "launch", "spawned"}

WorkTypeOK ==
  /\ live \in BOOLEAN /\ tree \in BOOLEAN /\ pane \in BOOLEAN /\ early \in BOOLEAN
  /\ killed \in {"no", "early", "served"}
  /\ marker \in Markers
  /\ edits \subseteq Edits /\ captured \subseteq Edits /\ branch \subseteq Edits
  /\ late \subseteq Edits /\ saved \subseteq Edits
  /\ boot \in BootSteps
  /\ op \in [Requests -> RequestSteps]
  /\ deaths \in 0..MaxDeaths

WorkInit ==
  /\ live = TRUE /\ marker = "none"
  /\ tree = TRUE /\ edits = {} /\ captured = {} /\ branch = {}
  /\ pane = TRUE
  /\ boot = "serving" /\ op = [r \in Requests |-> "idle"]
  /\ deaths = 0
  /\ late = {} /\ saved = {} /\ early = FALSE /\ killed = "no"

-----------------------------------------------------------------------------
(* The workspace adapter                                                   *)

\* A dirty worktree goes into the session's one preserve ref; a clean one leaves it alone.
StashUncommitted ==
  /\ tree
  /\ captured' = IF edits = {} THEN captured ELSE edits
  /\ saved' = IF edits = {} THEN saved ELSE edits

ForceDestroy == tree' = FALSE /\ edits' = {}

\* Fault: git is told to remove a dirty worktree.
DestroyForced == tree' = FALSE /\ edits' = {}

\* git refuses to remove a dirty worktree.
Destroy == edits = {} /\ tree' = FALSE /\ UNCHANGED edits

\* An existing worktree is kept as it is, a missing one checked out from the branch.
Attach == tree' = TRUE /\ UNCHANGED edits

\* Fault: the ref is dropped even if it could not be merged.
ApplyPreservedOrDrop ==
  /\ tree /\ captured # {} /\ captured' = {}
  /\ edits' \in {edits, edits \cup captured}

\* The replay of the ref: merged and dropped, merged with conflicts and kept, or refused.
\* A dropped ref leaves its edits in the worktree.
ApplyPreserved ==
  \/ /\ tree /\ captured # {}
     /\ edits' = edits \cup captured
     /\ captured' \in {{}, captured}
  \/ /\ ~tree \/ captured = {} \/ edits # {} \/ "git_fails" \in Mishaps
     /\ UNCHANGED <<edits, captured>>

-----------------------------------------------------------------------------
(* The agent, its pane and the daemon's death                              *)

Retiring == op["retire"] \in {"pane", "remove"}

\* With the retirement ends the excuse for what was written during it.
RetirementEnds == late' = IF Retiring' THEN late ELSE {}

Edit(e) ==
  /\ pane /\ tree
  /\ e \notin edits \cup captured \cup branch \cup late \cup saved
  /\ edits' = edits \cup {e}
  /\ late' = IF Retiring THEN late \cup {e} ELSE late
  /\ UNCHANGED <<live, marker, tree, captured, branch, pane, boot, op, deaths, saved, early, killed>>

Commit ==
  /\ pane /\ edits # {}
  /\ branch' = branch \cup edits /\ edits' = {}
  /\ UNCHANGED <<live, marker, tree, captured, pane, boot, op, deaths, history>>

PaneDies ==
  /\ pane /\ pane' = FALSE
  /\ UNCHANGED <<stores, boot, op, deaths, history>>

\* The pane outlives the daemon; the requests it served do not.
DaemonDies ==
  /\ boot # "dead" /\ deaths < MaxDeaths
  /\ deaths' = deaths + 1 /\ boot' = "dead"
  /\ op' = [r \in Requests |-> "idle"]
  /\ RetirementEnds
  /\ UNCHANGED <<stores, pane, saved, early, killed>>

\* The reaper finds no pane behind a live row; it ticks from before the boot pass.
Reap ==
  /\ boot # "dead" /\ live /\ ~pane
  /\ live' = FALSE
  /\ UNCHANGED <<marker, tree, edits, captured, branch, pane, boot, op, deaths, history>>

-----------------------------------------------------------------------------
(* The boot pass: Reconcile's live pass, its reap pass and RestoreAll       *)

BootStart ==
  /\ boot = "dead" /\ boot' = "look"
  /\ UNCHANGED <<stores, pane, op, deaths, history>>

\* Reconcile lists the rows once; what it does to a session follows the row it read.
BootList ==
  /\ boot = "look" /\ boot' = IF live THEN "probe" ELSE "leaked"
  /\ UNCHANGED <<stores, pane, op, deaths, history>>

\* A session whose pane survived is adopted; a probe that fails decides nothing.
Probe ==
  /\ boot = "probe"
  /\ \/ pane /\ boot' = "restore"
     \/ ~pane /\ boot' = "save"
     \/ "runtime_fails" \in Mishaps /\ boot' = "restore"
  /\ UNCHANGED <<stores, pane, op, deaths, history>>

\* Step 1 of saveAndTeardownOne: the capture comes before the marker.
Capture ==
  /\ boot = "save"
  /\ StashUncommitted
  /\ boot' = IF edits = {} THEN "mark_clean" ELSE "mark_captured"
  /\ UNCHANGED <<live, marker, tree, edits, branch, pane, op, deaths, late, early, killed>>

\* No worktree to capture, git fails or a shell terminal cannot be closed: terminated
\* without touching the worktree.
CaptureFails ==
  /\ boot = "save"
  /\ ~tree \/ Mishaps \cap {"git_fails", "runtime_fails"} # {}
  /\ live' = FALSE /\ boot' = "restore"
  /\ UNCHANGED <<marker, tree, edits, captured, branch, pane, op, deaths, history>>

WriteMarker ==
  /\ boot \in {"mark_clean", "mark_captured"}
  /\ marker' = IF boot = "mark_clean" THEN "clean" ELSE "captured"
  /\ boot' = "terminate"
  /\ UNCHANGED <<live, tree, edits, captured, branch, pane, op, deaths, history>>

\* A reviewer pane that cannot be torn down ends the save here, worktree and marker kept.
BootTerminate ==
  /\ boot = "terminate"
  /\ live' = FALSE
  /\ boot' \in {"remove"} \cup (IF "runtime_fails" \in Mishaps THEN {"restore"} ELSE {})
  /\ UNCHANGED <<marker, tree, edits, captured, branch, pane, op, deaths, history>>

RemoveSaved ==
  /\ boot = "remove"
  /\ \/ ForceDestroy
     \/ "git_fails" \in Mishaps /\ UNCHANGED <<tree, edits>>
  /\ boot' = "restore"
  /\ UNCHANGED <<live, marker, captured, branch, pane, op, deaths, history>>

\* The reap pass kills the pane a terminated session left behind.
ReapLeaked ==
  /\ boot = "leaked"
  /\ \/ pane' = FALSE
     \/ "runtime_fails" \in Mishaps /\ UNCHANGED pane
  /\ boot' = "restore"
  /\ UNCHANGED <<stores, op, deaths, history>>

\* RestoreAll: only a terminated session with a marker in state "removed" comes back.
\* Row and marker are read here and never again.
ListSaved ==
  /\ boot = "restore"
  /\ \/ (live \/ marker \notin Restorable) /\ boot' = "serving"
     \/ ~live /\ marker = "clean" /\ boot' = "attach_clean"
     \/ ~live /\ marker = "captured" /\ boot' = "attach_captured"
  /\ UNCHANGED <<stores, pane, op, deaths, history>>

RestoreSaved ==
  /\ boot \in {"attach_clean", "attach_captured"}
  /\ Attach
  /\ boot' = IF boot = "attach_captured" THEN "apply" ELSE "relaunch"
  /\ UNCHANGED <<live, marker, captured, branch, pane, op, deaths, history>>

RestoreFails ==
  /\ boot \in {"attach_clean", "attach_captured"} /\ "git_fails" \in Mishaps
  /\ boot' = "serving"
  /\ UNCHANGED <<stores, pane, op, deaths, history>>

\* Whatever the replay did, the session is relaunched.
Replay ==
  /\ boot = "apply"
  /\ ApplyPreserved
  /\ boot' = "relaunch"
  /\ UNCHANGED <<live, marker, tree, branch, pane, op, deaths, history>>

BootLaunch ==
  /\ boot = "relaunch"
  /\ \/ pane' = TRUE /\ boot' = "spawned"
     \/ "runtime_fails" \in Mishaps /\ boot' = "serving" /\ UNCHANGED pane
  /\ UNCHANGED <<stores, op, deaths, history>>

BootSpawned ==
  /\ boot = "spawned"
  /\ live' = TRUE /\ boot' = "consume"
  /\ UNCHANGED <<marker, tree, edits, captured, branch, pane, op, deaths, history>>

\* The consumed marker is first made inert, then deleted.
ConsumeMarker ==
  /\ boot \in {"consume", "forget"}
  /\ IF boot = "consume" THEN marker' = "active" /\ boot' = "forget"
                         ELSE marker' = "none" /\ boot' = "serving"
  /\ UNCHANGED <<live, tree, edits, captured, branch, pane, op, deaths, history>>

-----------------------------------------------------------------------------
(* The requests a serving daemon takes                                     *)

\* The loopback listener opens after the boot pass, a paired phone's before it.
Serves == boot = "serving" \/ ("lan_early" \in Mishaps /\ boot # "dead")

Goto(r, step) == op' = [op EXCEPT ![r] = step]
At(r, step) == Serves /\ op[r] = step

StartKill ==
  /\ At("kill", "idle") /\ Goto("kill", "pane")
  /\ early' = (boot # "serving")
  /\ UNCHANGED <<stores, pane, boot, deaths, late, saved, killed>>

StartCleanup ==
  /\ At("cleanup", "idle") /\ ~live /\ Goto("cleanup", "pane")
  /\ UNCHANGED <<stores, pane, boot, deaths, history>>

\* A retirement captures the worktree while the agent still runs; a stale worktree is skipped.
StartRetire ==
  /\ At("retire", "idle") /\ live /\ Goto("retire", "pane")
  /\ StashUncommitted \/ (~tree /\ UNCHANGED <<captured, saved>>)
  /\ late' = {}
  /\ UNCHANGED <<live, marker, tree, edits, branch, pane, boot, deaths, early, killed>>

\* Kill and retire stop when the pane cannot be destroyed; cleanup goes on.
DestroyPane(r) ==
  /\ At(r, "pane")
  /\ \/ pane' = FALSE /\ Goto(r, "remove")
     \/ /\ "runtime_fails" \in Mishaps /\ UNCHANGED pane
        /\ Goto(r, IF r = "cleanup" THEN "remove" ELSE "idle")
  /\ RetirementEnds
  /\ UNCHANGED <<stores, boot, deaths, saved, early, killed>>

\* A dirty worktree stays, and so does one whose shell terminals cannot be closed; the
\* kill goes on.
RemoveTree(r) ==
  /\ At(r, "remove")
  /\ \/ Destroy /\ Goto(r, IF r = "kill" THEN "forget" ELSE "idle")
     \/ /\ edits # {} \/ "runtime_fails" \in Mishaps
        /\ Goto(r, IF r = "kill" THEN "forget" ELSE "idle")
        /\ UNCHANGED <<tree, edits>>
     \/ "git_fails" \in Mishaps /\ Goto(r, "idle") /\ UNCHANGED <<tree, edits>>
  /\ UNCHANGED <<live, marker, captured, branch, pane, boot, deaths, history>>

RemoveRetired ==
  /\ At("retire", "remove")
  /\ \/ ForceDestroy /\ Goto("retire", "forget")
     \/ "git_fails" \in Mishaps /\ Goto("retire", "idle") /\ UNCHANGED <<tree, edits>>
  /\ RetirementEnds
  /\ UNCHANGED <<live, marker, captured, branch, pane, boot, deaths, saved, early, killed>>

\* Fault: a kill leaves the marker of an earlier save.
LeaveMarker(r) ==
  /\ At(r, "forget") /\ Goto(r, "terminate")
  /\ UNCHANGED <<stores, pane, boot, deaths, history>>

ForgetMarker(r) ==
  /\ At(r, "forget") /\ Goto(r, "terminate")
  /\ marker' = "none"
  /\ UNCHANGED <<live, tree, edits, captured, branch, pane, boot, deaths, history>>

\* What an answered kill adds to the user's last word; with a restore under way it is
\* not the last.
LastWord ==
  IF op["restore"] # "idle" THEN "no"
  ELSE IF early /\ killed # "served" THEN "early" ELSE "served"

Terminate(r) ==
  /\ At(r, "terminate") /\ Goto(r, "idle")
  /\ live' = FALSE
  /\ killed' = IF r = "kill" THEN LastWord ELSE killed
  /\ UNCHANGED <<marker, tree, edits, captured, branch, pane, boot, deaths, late, saved, early>>

StartRestore ==
  /\ "restore" \in Mishaps
  /\ At("restore", "idle") /\ ~live /\ Goto("restore", "attach")
  /\ killed' = "no"
  /\ UNCHANGED <<stores, pane, boot, deaths, late, saved, early>>

\* RestoreWithMode attaches the worktree; it neither replays the ref nor looks at the marker.
RestoreTree ==
  /\ At("restore", "attach")
  /\ \/ Attach /\ Goto("restore", "launch")
     \/ "git_fails" \in Mishaps /\ Goto("restore", "idle") /\ UNCHANGED <<tree, edits>>
  /\ UNCHANGED <<live, marker, captured, branch, pane, boot, deaths, history>>

Relaunch ==
  /\ At("restore", "launch")
  /\ \/ pane' = TRUE /\ Goto("restore", "spawned")
     \/ "runtime_fails" \in Mishaps /\ Goto("restore", "idle") /\ UNCHANGED pane
  /\ UNCHANGED <<stores, boot, deaths, history>>

Spawned ==
  /\ At("restore", "spawned") /\ Goto("restore", "idle")
  /\ live' = TRUE
  /\ UNCHANGED <<marker, tree, edits, captured, branch, pane, boot, deaths, history>>

-----------------------------------------------------------------------------
BootNext ==
  \/ BootStart \/ BootList \/ Probe \/ Capture \/ CaptureFails \/ WriteMarker
  \/ BootTerminate \/ RemoveSaved \/ ReapLeaked \/ ListSaved \/ RestoreSaved
  \/ RestoreFails \/ Replay \/ BootLaunch \/ BootSpawned \/ ConsumeMarker

RequestNext ==
  \/ StartKill \/ StartCleanup \/ StartRetire \/ StartRestore
  \/ \E r \in {"kill", "cleanup", "retire"} : DestroyPane(r)
  \/ \E r \in {"kill", "cleanup"} : RemoveTree(r)
  \/ RemoveRetired
  \/ \E r \in {"kill", "retire"} : ForgetMarker(r) \/ Terminate(r)
  \/ RestoreTree \/ Relaunch \/ Spawned

WorkNext ==
  \/ \E e \in Edits : Edit(e)
  \/ Commit \/ PaneDies \/ DaemonDies \/ Reap
  \/ BootNext \/ RequestNext

WorkSpec == WorkInit /\ [][WorkNext]_workVars

-----------------------------------------------------------------------------
(* Properties                                                              *)

\* Capture before removal: no step of any operation, and no death between two of
\* them, takes an edit out of the worktree that is neither committed nor in the
\* preserve ref; what a running agent writes after its retirement captured the
\* worktree is the only exception.  It needs the stores to itself during the boot pass: a
\* paired phone that restores the session between the boot's capture and its removal has
\* the new agent's worktree removed under it.
RemovalKeepsWork ==
  [][\A e \in edits \ edits' : e \in branch' \cup captured' \cup late]_workVars

\* What the last capture held is never lost, however often the daemon dies during
\* the save or the restore and whatever fails: it is in the ref, in the worktree or
\* on the branch.  It needs the boot pass alone too: a retirement begun beside it
\* removes what the boot replays.
LastCaptureSurvives == saved \subseteq edits \cup captured \cup branch

\* A kill that was answered is final: no boot pass brings the session back, and
\* RestoreAll leaves a session the user killed terminated.  A paired phone's kill during
\* the boot pass refutes it: the marker it deletes was read before.
KilledStaysDead == killed # "no" => ~live

\* What holds beside the phone's requests too: a kill that began once the boot pass was
\* over is final, through every later death, boot pass and early request, because it
\* forgets the marker of an earlier save before it ends the session.
ServedKillStaysDead == killed = "served" => ~live
=============================================================================
