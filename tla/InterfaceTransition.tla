------------------------ MODULE InterfaceTransition ------------------------
(***************************************************************************)
(* The durable interface handoff of one session: the saga that moves a     *)
(* session between its terminal controller (an agent in a tmux pane, mode  *)
(* "tui") and its chat controller (an in-process provider conversation,    *)
(* mode "chat").  backend/internal/session_manager/interface_transition.go *)
(* drives it; the phases live in SQLite, the workers in daemon memory, and *)
(* the pane outlives the daemon.                                           *)
(*                                                                         *)
(* A transition id stands for one POST of the switch request: the request  *)
(* that reads the session, the row it creates and the worker that drives   *)
(* the row.  Whatever else acts on the same session - cancel, kill, resume *)
(* and restore requests, the runtime reaper, an agent that exits, a daemon *)
(* crash and the boot that reconciles - is an action beside the worker.    *)
(***************************************************************************)
EXTENDS Naturals, FiniteSets

CONSTANTS
  Transitions,   \* ids of the transition requests the instance may issue
  NoTransition,  \* not an id: no worker registered, intake open
  MaxCrashes,    \* bound on daemon crashes
  Env            \* which of EnvKinds the instance includes

\* slow_cancel: another request may run between Cancel's CAS and its signal;
\* cleanup_fails: a stop whose error the code discards really fails;
\* store_fails: a transition-row or session-row write returns an error;
\* kill, resume, restore: those user requests are issued.
EnvKinds == {"slow_cancel", "cleanup_fails", "store_fails",
             "kill", "resume", "restore"}

ASSUME EnvAssumption == Env \subseteq EnvKinds
ASSUME CrashAssumption == MaxCrashes \in Nat
ASSUME NoTransitionAssumption == NoTransition \notin Transitions

VARIABLES
  mode, terminated, handle, exited,  \* the sessions row
  marker,                            \* its restorable session_worktrees row
  phase, source,                     \* the transition rows
  pc, snapHandle, signalled,         \* the workers: step, snapshot, cancelled contexts
  run,                               \* m.transitions[session]
  cancel, kill, relaunch,            \* requests in flight
  pane, chat, orphan, closedBy,      \* the controllers and the chat intake gate
  daemon, bootTerminated, crashes

row         == <<mode, terminated, handle, exited, marker>>
transitions == <<phase, source>>
workers     == <<pc, snapHandle, signalled, run>>
requests    == <<cancel, kill, relaunch>>
controllers == <<pane, chat, orphan, closedBy>>
system      == <<daemon, bootTerminated, crashes>>
vars == <<row, transitions, workers, requests, controllers, system>>

-----------------------------------------------------------------------------
(* Vocabulary                                                              *)

Modes == {"tui", "chat"}
Opposite(m) == IF m = "chat" THEN "tui" ELSE "chat"
Target(t) == Opposite(source[t])

Cancellable == {"requested", "preflighting", "draining"}
Stopping == {"source_stopping", "source_stopped", "target_starting", "activating"}
Active == Cancellable \cup Stopping
Terminal == {"completed", "failed", "cancelled", "recovery_required"}

\* The steps of a worker before and after the durable point of no return.
Requesting == {"idle", "reading", "created"}
Preparing == {"requested", "checking", "ready", "draining", "quiescing",
              "prepared", "failing"}
Forward == {"stopping", "stopped", "committing", "committed", "launching",
            "spawning", "spawned", "launched", "activating"}
Backward == {"rbstop", "rbcommit", "restoring", "respawning", "respawned",
             "rolledback", "recovering"}
Driving == Forward \cup Backward
Steps == Requesting \cup Preparing \cup Driving \cup {"ended", "done"}

Booting == {"boot_live", "boot_reap", "boot_restore", "boot_spawning",
            "boot_spawned"}

IdleCancel == [pc |-> "idle", t |-> NoTransition, seen |-> "none"]
IdleKill == [pc |-> "idle", mode |-> "tui", handle |-> FALSE]
IdleRelaunch == [pc |-> "idle", kind |-> "resume", mode |-> "tui"]

\* The controllers that can write the native conversation right now.
Writers == (IF pane = "agent" THEN {"tui"} ELSE {})
             \cup (IF chat # "none" \/ orphan THEN {"chat"} ELSE {})

\* Fault: no unique index over the active rows of a session.
NoIndex == TRUE

NoActiveRow == \A t \in Transitions : phase[t] \notin Active

\* lifecycle.PrepareLaunch: one terminal launch per session at a time.
TuiLaunchPending ==
  \/ \E t \in Transitions : \/ pc[t] = "spawning" /\ Target(t) = "tui"
                            \/ pc[t] = "respawning" /\ source[t] = "tui"
  \/ relaunch.pc = "spawning" /\ relaunch.mode = "tui"

RowOK ==
  /\ mode \in Modes
  /\ terminated \in BOOLEAN /\ handle \in BOOLEAN
  /\ exited \in BOOLEAN /\ marker \in BOOLEAN

WorkersOK ==
  /\ phase \in [Transitions -> Active \cup Terminal \cup {"none"}]
  /\ source \in [Transitions -> Modes]
  /\ pc \in [Transitions -> Steps]
  /\ snapHandle \in [Transitions -> BOOLEAN]
  /\ signalled \subseteq Transitions
  /\ run \in Transitions \cup {NoTransition}

RequestsOK ==
  /\ cancel \in [pc : {"idle", "cas", "signal"},
                 t : Transitions \cup {NoTransition},
                 seen : Cancellable \cup {"none"}]
  /\ cancel.pc = "cas" => cancel.t \in Transitions /\ cancel.seen \in Cancellable
  /\ kill \in [pc : {"idle", "checked", "stopping", "marking"},
               mode : Modes, handle : BOOLEAN]
  /\ relaunch \in [pc : {"idle", "checked", "opening", "spawning", "spawned"},
                   kind : {"resume", "restore"}, mode : Modes]

ControllersOK ==
  /\ pane \in {"none", "shell", "agent"}
  /\ chat \in {"none", "starting", "live"}
  /\ orphan \in BOOLEAN
  /\ closedBy \in Transitions \cup {NoTransition}

SystemOK ==
  /\ daemon \in {"up", "down"} \cup Booting
  /\ bootTerminated \in BOOLEAN
  /\ crashes \in 0..MaxCrashes

TypeOK == RowOK /\ WorkersOK /\ RequestsOK /\ ControllersOK /\ SystemOK

\* A session that was spawned in either mode and is running.
Init ==
  /\ mode \in Modes
  /\ terminated = FALSE /\ exited = FALSE /\ marker = FALSE
  /\ handle = (mode = "tui")
  /\ phase = [t \in Transitions |-> "none"]
  /\ source = [t \in Transitions |-> "tui"]
  /\ pc = [t \in Transitions |-> "idle"]
  /\ snapHandle = [t \in Transitions |-> FALSE]
  /\ signalled = {} /\ run = NoTransition
  /\ cancel = IdleCancel /\ kill = IdleKill /\ relaunch = IdleRelaunch
  /\ pane = (IF mode = "tui" THEN "agent" ELSE "none")
  /\ chat = (IF mode = "chat" THEN "live" ELSE "none")
  /\ orphan = FALSE /\ closedBy = NoTransition
  /\ daemon = "up" /\ bootTerminated = FALSE /\ crashes = 0

-----------------------------------------------------------------------------
(* Helpers shared by the steps                                             *)

Goto(t, step) == pc' = [pc EXCEPT ![t] = step]

\* Fault: an UPDATE by id that does not compare the phase it read.
MovesBlindly(t, from, next, to) ==
  /\ pc[t] = from
  /\ phase' = [phase EXCEPT ![t] = next]
  /\ Goto(t, to)
  /\ UNCHANGED <<source, snapHandle, signalled, run>>

\* moveInterfaceTransition that succeeds.  Re-reading and retrying the CAS makes
\* it an atomic move of any row that is not terminal.
Moves(t, from, next, to) ==
  /\ pc[t] = from
  /\ phase[t] \in Active
  /\ phase' = [phase EXCEPT ![t] = next]
  /\ Goto(t, to)
  /\ UNCHANGED <<source, snapHandle, signalled, run>>

\* moveInterfaceTransition that fails: somebody else ended the row, or the store.
MoveFails(t, from, to) ==
  /\ pc[t] = from
  /\ phase[t] \notin Active \/ "store_fails" \in Env
  /\ Goto(t, to)
  /\ UNCHANGED <<transitions, snapHandle, signalled, run>>

\* A launch opens the new process: tmux new-session refuses a name in use, the
\* chat service holds the controller gate of the session until it is done.
Opens(m) ==
  \/ /\ m = "tui" /\ pane = "none" /\ ~TuiLaunchPending
     /\ pane' = "agent"
     /\ UNCHANGED <<chat, orphan, closedBy>>
  \/ /\ m = "chat" /\ chat = "none"
     /\ chat' = "starting"
     /\ UNCHANGED <<pane, orphan, closedBy>>

\* The process is recorded (MarkSpawned).  A chat controller first claims its
\* generation, which only a row in chat mode grants; a terminal launch has no
\* such check.
Spawned(m) ==
  /\ m = "chat" => mode = "chat"
  /\ terminated' = FALSE /\ exited' = FALSE
  /\ handle' = (handle \/ m = "tui")
  /\ UNCHANGED <<mode, marker, pane, orphan>>
  /\ IF m = "chat" THEN chat' = "live" /\ closedBy' = NoTransition
                   ELSE UNCHANGED <<chat, closedBy>>

\* The process is discarded, with an error the code ignores.
Discards(m, mayLeak) ==
  /\ UNCHANGED closedBy
  /\ \/ m = "tui" /\ pane' = "none" /\ UNCHANGED <<chat, orphan>>
     \/ m = "chat" /\ chat' = "none" /\ UNCHANGED <<pane, orphan>>
     \/ mayLeak /\ m = "tui" /\ UNCHANGED <<pane, chat, orphan>>
     \/ /\ "cleanup_fails" \in Env /\ m = "chat"
        /\ chat' = "none" /\ orphan' = TRUE /\ UNCHANGED pane

\* deliverAfterStartPrompt failed: Destroy and MarkTerminated, errors ignored.
PromptFails(mayLeak) ==
  /\ pane' = "none" \/ (mayLeak /\ pane' = pane)
  /\ \/ terminated' = TRUE /\ exited' = TRUE
     \/ mayLeak /\ UNCHANGED <<terminated, exited>>
  /\ UNCHANGED <<mode, handle, marker, chat, orphan, closedBy>>

CleanupMayFail(t) == "cleanup_fails" \in Env \/ t \in signalled

-----------------------------------------------------------------------------
(* The switch request                                                      *)

\* Read the session: live, and the request names the other mode.
StartRead(t) ==
  /\ daemon = "up" /\ pc[t] = "idle" /\ ~terminated
  /\ source' = [source EXCEPT ![t] = mode]
  /\ Goto(t, "reading")
  /\ UNCHANGED <<row, phase, snapHandle, signalled, run, requests, controllers, system>>

\* INSERT under the partial unique index: one active row, or ErrSwitchInProgress.
StartCreate(t) ==
  /\ pc[t] = "reading"
  /\ IF NoActiveRow
     THEN phase' = [phase EXCEPT ![t] = "requested"] /\ Goto(t, "created")
     ELSE Goto(t, "done") /\ UNCHANGED phase
  /\ UNCHANGED <<row, source, snapHandle, signalled, run, requests, controllers, system>>

\* Only now is the run published in m.transitions and its worker started.
Register(t) ==
  /\ pc[t] = "created"
  /\ run' = t
  /\ Goto(t, "requested")
  /\ UNCHANGED <<row, transitions, snapHandle, signalled, requests, controllers, system>>

-----------------------------------------------------------------------------
(* The worker, up to the point of no return                                *)

EnterPreflighting(t) ==
  /\ \/ Moves(t, "requested", "preflighting", "checking")
     \/ MoveFails(t, "requested", "failing")
  /\ UNCHANGED <<row, requests, controllers, system>>

\* Fault: the session is re-read but not compared with the row's source.
CheckSourceBlindly(t) ==
  /\ pc[t] = "checking"
  /\ t \notin signalled /\ ~terminated
  /\ snapHandle' = [snapHandle EXCEPT ![t] = handle]
  /\ Goto(t, "ready")
  /\ UNCHANGED <<row, transitions, signalled, run, requests, controllers, system>>

\* Re-read the session, keep it as rec, preflight the target.
CheckSource(t) ==
  /\ pc[t] = "checking"
  /\ \/ /\ t \notin signalled /\ ~terminated /\ mode = source[t]
        /\ snapHandle' = [snapHandle EXCEPT ![t] = handle]
        /\ Goto(t, "ready")
     \/ Goto(t, "failing") /\ UNCHANGED snapHandle
  /\ UNCHANGED <<row, transitions, signalled, run, requests, controllers, system>>

EnterDraining(t) ==
  /\ \/ Moves(t, "ready", "draining", "draining")
     \/ MoveFails(t, "ready", "failing")
  /\ UNCHANGED <<row, requests, controllers, system>>

\* prepareSourceHandoff: close the chat intake, or start watching the pane.  A
\* terminal row without a handle fails (the code lets an exited one pass, but a
\* live row without a handle has no launch an exit could be reported of).
BeginHandoff(t) ==
  /\ pc[t] = "draining"
  /\ IF source[t] = "tui"
     THEN /\ Goto(t, IF snapHandle[t] THEN "quiescing" ELSE "failing")
          /\ UNCHANGED closedBy
     ELSE \/ chat # "live" /\ Goto(t, "prepared") /\ UNCHANGED closedBy
          \/ /\ chat = "live" /\ closedBy # NoTransition
             /\ Goto(t, "failing") /\ UNCHANGED closedBy
          \/ /\ chat = "live" /\ closedBy = NoTransition
             /\ closedBy' = t /\ Goto(t, "quiescing")
  /\ UNCHANGED <<row, transitions, snapHandle, signalled, run, requests,
                 pane, chat, orphan, system>>

Quiesced(t) ==
  /\ pc[t] = "quiescing"
  /\ Goto(t, "prepared")
  /\ UNCHANGED <<row, transitions, snapHandle, signalled, run, requests, controllers, system>>

\* BeginHandoff reopens the intake of its own controller before it returns.
QuiesceFails(t) ==
  /\ pc[t] = "quiescing"
  /\ closedBy' = (IF closedBy = t THEN NoTransition ELSE closedBy)
  /\ Goto(t, "failing")
  /\ UNCHANGED <<row, transitions, snapHandle, signalled, run, requests,
                 pane, chat, orphan, system>>

\* Fault: the source handoff is not aborted when the row was cancelled.
EnterStoppingNoAbort(t) ==
  /\ \/ Moves(t, "prepared", "source_stopping", "stopping")
     \/ MoveFails(t, "prepared", "failing")
  /\ UNCHANGED <<row, requests, controllers, system>>

\* The durable point of no return.  When the row was cancelled meanwhile, the
\* source handoff is aborted: whichever chat controller is live is reopened.
EnterStopping(t) ==
  /\ \/ Moves(t, "prepared", "source_stopping", "stopping") /\ UNCHANGED closedBy
     \/ /\ MoveFails(t, "prepared", "failing")
        /\ closedBy' = (IF source[t] = "chat" THEN NoTransition ELSE closedBy)
  /\ UNCHANGED <<row, requests, pane, chat, orphan, system>>

\* finish(cancelled | failed), its error ignored.
FinishUnstopped(t) ==
  /\ \/ Moves(t, "failing", "failed", "ended")
     \/ t \in signalled /\ Moves(t, "failing", "cancelled", "ended")
     \/ MoveFails(t, "failing", "ended")
  /\ UNCHANGED <<row, requests, controllers, system>>

-----------------------------------------------------------------------------
(* The worker, after it: stop, commit, start                               *)

StopController(m, known) ==
  \/ /\ m = "tui"
     /\ pane' = (IF known THEN "none" ELSE pane)
     /\ UNCHANGED <<chat, closedBy>>
  \/ /\ m = "chat" /\ chat # "starting"
     /\ chat' = "none" /\ closedBy' = NoTransition
     /\ UNCHANGED pane

\* Fault: the stop is requested but not awaited.
StopSourceUnawaited(t) ==
  /\ pc[t] = "stopping"
  /\ Goto(t, "stopped")
  /\ UNCHANGED <<row, transitions, snapHandle, signalled, run, requests, controllers, system>>

StopSource(t) ==
  /\ pc[t] = "stopping"
  /\ StopController(source[t], snapHandle[t])
  /\ Goto(t, "stopped")
  /\ UNCHANGED <<row, transitions, snapHandle, signalled, run, requests, orphan, system>>

\* Both attempts failed: recovery_required, nothing is launched.
StopUncertain(t) ==
  /\ \/ Moves(t, "stopping", "recovery_required", "ended")
     \/ MoveFails(t, "stopping", "ended")
  /\ \/ UNCHANGED pane
     \/ source[t] = "tui" /\ pane' = "none"
  /\ UNCHANGED <<row, requests, chat, orphan, closedBy, system>>

EnterStopped(t) ==
  /\ \/ Moves(t, "stopped", "source_stopped", "committing")
     \/ MoveFails(t, "stopped", "restoring")
  /\ UNCHANGED <<row, requests, controllers, system>>

\* CommitControllerEpoch: compare-and-swap of the mode of a live session.
CommitsEpoch(from, to) ==
  /\ ~terminated /\ mode = from
  /\ mode' = to /\ handle' = FALSE /\ exited' = FALSE
  /\ UNCHANGED <<terminated, marker>>

CommitEpoch(t) ==
  /\ pc[t] = "committing"
  /\ \/ /\ t \notin signalled
        /\ CommitsEpoch(source[t], Target(t))
        /\ Goto(t, "committed")
     \/ /\ \/ terminated \/ mode # source[t] \/ t \in signalled
           \/ "store_fails" \in Env
        /\ Goto(t, "restoring") /\ UNCHANGED row
  /\ UNCHANGED <<transitions, snapHandle, signalled, run, requests, controllers, system>>

EnterStarting(t) ==
  /\ \/ Moves(t, "committed", "target_starting", "launching")
     \/ MoveFails(t, "committed", "rbstop")
  /\ UNCHANGED <<row, requests, controllers, system>>

\* startTransitionTarget relaunches whatever the row names now.  A chat
\* controller that is already live is handed back as it is.
OpenController(t, from, spawning, spawned, failed) ==
  /\ pc[t] = from
  /\ \/ t \notin signalled /\ Opens(mode) /\ Goto(t, spawning)
     \/ /\ mode = "chat" /\ chat = "live" /\ Goto(t, spawned)
        /\ UNCHANGED controllers
     \/ Goto(t, failed) /\ UNCHANGED controllers
  /\ UNCHANGED <<row, transitions, snapHandle, signalled, run, requests, system>>

SpawnController(t, from, m, spawned, failed) ==
  /\ pc[t] = from
  /\ \/ /\ t \notin signalled
        /\ Spawned(m) /\ Goto(t, spawned)
     \/ /\ Discards(m, CleanupMayFail(t)) /\ UNCHANGED row
        /\ Goto(t, failed)
  /\ UNCHANGED <<transitions, snapHandle, signalled, run, requests, system>>

\* The after-start prompt, and the final read of the record: when only that read
\* fails the launch is reported as failed while the controller is live.
ConfirmController(t, from, m, confirmed, failed) ==
  /\ pc[t] = from
  /\ \/ t \notin signalled /\ Goto(t, confirmed) /\ UNCHANGED <<row, controllers>>
     \/ Goto(t, failed) /\ UNCHANGED <<row, controllers>>
     \/ m = "tui" /\ PromptFails(CleanupMayFail(t)) /\ Goto(t, failed)
  /\ UNCHANGED <<transitions, snapHandle, signalled, run, requests, system>>

OpenTarget(t) == OpenController(t, "launching", "spawning", "spawned", "rbstop")
SpawnTarget(t) == SpawnController(t, "spawning", Target(t), "spawned", "rbstop")
ConfirmTarget(t) == ConfirmController(t, "spawned", Target(t), "launched", "rbstop")

\* The target is live: a failing move ends in recovery_required, not in a stop.
EnterActivating(t) ==
  /\ \/ Moves(t, "launched", "activating", "activating")
     \/ MoveFails(t, "launched", "recovering")
  /\ UNCHANGED <<row, requests, controllers, system>>

Complete(t) ==
  /\ \/ Moves(t, "activating", "completed", "ended")
     \/ MoveFails(t, "activating", "ended")
  /\ UNCHANGED <<row, requests, controllers, system>>

-----------------------------------------------------------------------------
(* Rollback                                                                *)

\* Fault: a failed target is taken for a target that never started.
RollbackNoStop(t) ==
  /\ pc[t] = "rbstop"
  /\ Goto(t, "rbcommit")
  /\ UNCHANGED <<row, transitions, snapHandle, signalled, run, requests, controllers, system>>

\* Stop what the committed mode can identify; the error, or a failed read that
\* skips the stop, is discarded.
RollbackStop(t) ==
  /\ pc[t] = "rbstop"
  /\ \/ StopController(mode, handle)
     \/ "cleanup_fails" \in Env /\ UNCHANGED <<pane, chat, closedBy>>
  /\ Goto(t, "rbcommit")
  /\ UNCHANGED <<row, transitions, snapHandle, signalled, run, requests, orphan, system>>

\* Fault: the error of the rollback's epoch commit is discarded as well.
RollbackCommitIgnored(t) ==
  /\ pc[t] = "rbcommit"
  /\ \/ CommitsEpoch(Target(t), source[t])
     \/ /\ terminated \/ mode # Target(t) \/ "store_fails" \in Env
        /\ UNCHANGED row
  /\ Goto(t, "restoring")
  /\ UNCHANGED <<transitions, snapHandle, signalled, run, requests, controllers, system>>

RollbackCommit(t) ==
  /\ pc[t] = "rbcommit"
  /\ \/ CommitsEpoch(Target(t), source[t]) /\ Goto(t, "restoring")
     \/ /\ terminated \/ mode # Target(t) \/ "store_fails" \in Env
        /\ Goto(t, "recovering") /\ UNCHANGED row
  /\ UNCHANGED <<transitions, snapHandle, signalled, run, requests, controllers, system>>

\* The rollback runs under a fresh context, so a cancel no longer reaches it.
RestoreSource(t) ==
  /\ pc[t] = "restoring"
  /\ \/ Opens(mode) /\ Goto(t, "respawning")
     \/ mode = "chat" /\ chat = "live" /\ Goto(t, "respawned") /\ UNCHANGED controllers
     \/ Goto(t, "recovering") /\ UNCHANGED controllers
  /\ UNCHANGED <<row, transitions, snapHandle, signalled, run, requests, system>>

RespawnSource(t) ==
  /\ pc[t] = "respawning"
  /\ \/ Spawned(source[t]) /\ Goto(t, "respawned")
     \/ /\ Discards(source[t], "cleanup_fails" \in Env) /\ UNCHANGED row
        /\ Goto(t, "recovering")
  /\ UNCHANGED <<transitions, snapHandle, signalled, run, requests, system>>

ConfirmSource(t) ==
  /\ pc[t] = "respawned"
  /\ \/ Goto(t, "rolledback") /\ UNCHANGED <<row, controllers>>
     \/ Goto(t, "recovering") /\ UNCHANGED <<row, controllers>>
     \/ /\ source[t] = "tui" /\ PromptFails("cleanup_fails" \in Env)
        /\ Goto(t, "recovering")
  /\ UNCHANGED <<transitions, snapHandle, signalled, run, requests, system>>

FinishRollback(t) ==
  /\ \/ Moves(t, "rolledback", "failed", "ended")
     \/ Moves(t, "recovering", "recovery_required", "ended")
     \/ MoveFails(t, "rolledback", "ended")
     \/ MoveFails(t, "recovering", "ended")
  /\ UNCHANGED <<row, requests, controllers, system>>

\* The deferred delete of the worker's own map entry.
Deregister(t) ==
  /\ pc[t] = "ended"
  /\ run' = (IF run = t THEN NoTransition ELSE run)
  /\ Goto(t, "done")
  /\ UNCHANGED <<row, transitions, snapHandle, signalled, requests, controllers, system>>

-----------------------------------------------------------------------------
(* The cancel request                                                      *)

CancelRead(t) ==
  /\ daemon = "up" /\ cancel.pc = "idle" /\ phase[t] \in Cancellable
  /\ cancel' = [pc |-> "cas", t |-> t, seen |-> phase[t]]
  /\ UNCHANGED <<row, transitions, workers, kill, relaunch, controllers, system>>

\* Fault: the map lookup's "not found" is not tested.
SignalsUntested == signalled \cup {run}

\* The signal goes to the run the session's map entry names at that moment.
Signals == signalled \cup ({run} \ {NoTransition})

\* Fault: the row is updated whatever phase it has reached since it was read.
CancelUnchecked ==
  /\ cancel.pc = "cas"
  /\ phase' = [phase EXCEPT ![cancel.t] = "cancelled"]
  /\ signalled' = Signals
  /\ cancel' = IdleCancel
  /\ UNCHANGED <<row, source, pc, snapHandle, run, kill, relaunch, controllers, system>>

\* Fault: the worker is signalled whether or not the cancellation won.
CancelSignalsAnyway ==
  /\ cancel.pc = "cas"
  /\ phase' = (IF phase[cancel.t] = cancel.seen
               THEN [phase EXCEPT ![cancel.t] = "cancelled"] ELSE phase)
  /\ signalled' = Signals
  /\ cancel' = IdleCancel
  /\ UNCHANGED <<row, source, pc, snapHandle, run, kill, relaunch, controllers, system>>

CancelCas ==
  /\ cancel.pc = "cas"
  /\ IF phase[cancel.t] = cancel.seen
     THEN /\ phase' = [phase EXCEPT ![cancel.t] = "cancelled"]
          /\ IF "slow_cancel" \in Env
             THEN cancel' = [cancel EXCEPT !.pc = "signal"] /\ UNCHANGED signalled
             ELSE cancel' = IdleCancel /\ signalled' = Signals
     ELSE cancel' = IdleCancel /\ UNCHANGED <<phase, signalled>>
  /\ UNCHANGED <<row, source, pc, snapHandle, run, kill, relaunch, controllers, system>>

CancelSignal ==
  /\ cancel.pc = "signal"
  /\ signalled' = Signals
  /\ cancel' = IdleCancel
  /\ UNCHANGED <<row, transitions, pc, snapHandle, run, kill, relaunch, controllers, system>>

-----------------------------------------------------------------------------
(* The kill request: check, read, stop by the snapshot, mark               *)

KillCheck ==
  /\ "kill" \in Env /\ daemon = "up" /\ kill.pc = "idle" /\ NoActiveRow
  /\ kill' = [kill EXCEPT !.pc = "checked"]
  /\ UNCHANGED <<row, transitions, workers, cancel, relaunch, controllers, system>>

KillRead ==
  /\ kill.pc = "checked"
  /\ kill' = [pc |-> "stopping", mode |-> mode, handle |-> handle]
  /\ UNCHANGED <<row, transitions, workers, cancel, relaunch, controllers, system>>

\* A pane that cannot be destroyed aborts the kill; a chat stop is best effort.
KillStop ==
  /\ kill.pc = "stopping"
  /\ \/ /\ StopController(kill.mode, kill.handle)
        /\ kill' = [kill EXCEPT !.pc = "marking"]
     \/ kill.mode = "tui" /\ kill' = IdleKill /\ UNCHANGED <<pane, chat, closedBy>>
     \/ /\ kill.mode = "chat" /\ "cleanup_fails" \in Env
        /\ kill' = [kill EXCEPT !.pc = "marking"] /\ UNCHANGED <<pane, chat, closedBy>>
  /\ UNCHANGED <<row, transitions, workers, cancel, relaunch, orphan, system>>

\* The worktree is removed, the marker deleted and the row terminated.  A reviewer
\* or a workspace that resists, or a launch that changed meanwhile, aborts the kill
\* with its controller already stopped; a failed delete is only logged.
KillMark ==
  /\ kill.pc = "marking"
  /\ \/ /\ terminated' = TRUE /\ exited' = TRUE
        /\ marker' = FALSE \/ ("store_fails" \in Env /\ marker' = marker)
     \/ UNCHANGED <<terminated, exited>> /\ marker' \in {FALSE, marker}
  /\ kill' = IdleKill
  /\ UNCHANGED <<mode, handle, transitions, workers, cancel, relaunch, controllers, system>>

-----------------------------------------------------------------------------
(* The resume-agent and restore requests                                   *)

RelaunchCheck(kind) ==
  /\ kind \in Env /\ daemon = "up" /\ relaunch.pc = "idle" /\ NoActiveRow
  /\ relaunch' = [pc |-> "checked", kind |-> kind, mode |-> "tui"]
  /\ UNCHANGED <<row, transitions, workers, cancel, kill, controllers, system>>

MayRelaunch(kind) ==
  \/ kind = "restore" /\ terminated
  \/ kind = "resume" /\ ~terminated /\ mode = "chat" /\ chat # "live"
  \/ kind = "resume" /\ ~terminated /\ mode = "tui" /\ exited /\ handle

RelaunchRead ==
  /\ relaunch.pc = "checked"
  /\ relaunch' = IF MayRelaunch(relaunch.kind)
                 THEN [relaunch EXCEPT !.pc = "opening", !.mode = mode]
                 ELSE IdleRelaunch
  /\ UNCHANGED <<row, transitions, workers, cancel, kill, controllers, system>>

\* A resume respawns the pane it finds; a restore insists on creating it.
RelaunchOpen ==
  /\ relaunch.pc = "opening"
  /\ \/ /\ Opens(relaunch.mode)
        /\ relaunch' = [relaunch EXCEPT !.pc = "spawning"]
     \/ /\ relaunch.kind = "resume" /\ relaunch.mode = "tui"
        /\ pane # "none" /\ ~TuiLaunchPending
        /\ pane' = "agent" /\ UNCHANGED <<chat, orphan, closedBy>>
        /\ relaunch' = [relaunch EXCEPT !.pc = "spawning"]
     \/ relaunch' = IdleRelaunch /\ UNCHANGED controllers
  /\ UNCHANGED <<row, transitions, workers, cancel, kill, system>>

RelaunchSpawn ==
  /\ relaunch.pc = "spawning"
  /\ \/ /\ Spawned(relaunch.mode)
        /\ relaunch' = [relaunch EXCEPT !.pc = "spawned"]
     \/ /\ Discards(relaunch.mode, "cleanup_fails" \in Env) /\ UNCHANGED row
        /\ relaunch' = IdleRelaunch
  /\ UNCHANGED <<transitions, workers, cancel, kill, system>>

RelaunchConfirm ==
  /\ relaunch.pc = "spawned"
  /\ relaunch' = IdleRelaunch
  /\ \/ UNCHANGED <<row, controllers>>
     \/ relaunch.mode = "tui" /\ PromptFails("cleanup_fails" \in Env)
  /\ UNCHANGED <<transitions, workers, cancel, kill, system>>

-----------------------------------------------------------------------------
(* The world: agents that exit, hooks, the reaper                          *)

\* The agent ends and leaves its keep-alive shell, or the whole pane goes.
PaneExits ==
  /\ pane # "none"
  /\ \/ pane = "agent" /\ pane' = "shell"
     \/ pane' = "none"
  /\ UNCHANGED <<row, transitions, workers, requests, chat, orphan, closedBy, system>>

ChatExits ==
  /\ chat = "live"
  /\ chat' = "none" /\ closedBy' = NoTransition
  /\ UNCHANGED <<row, transitions, workers, requests, pane, orphan, system>>

ExitReported ==
  /\ daemon = "up" /\ ~terminated /\ ~exited
  /\ mode = "tui" /\ handle /\ pane = "shell"
  /\ exited' = TRUE
  /\ UNCHANGED <<mode, terminated, handle, marker, transitions, workers, requests,
                 controllers, system>>

\* observe/reaper: a recorded pane that is gone ends the session.
Reap ==
  /\ daemon = "up" /\ ~terminated /\ mode = "tui" /\ handle /\ pane = "none"
  /\ terminated' = TRUE /\ exited' = TRUE
  /\ UNCHANGED <<mode, handle, marker, transitions, workers, requests, controllers, system>>

-----------------------------------------------------------------------------
(* Crash and boot                                                          *)

\* The pane survives; everything in daemon memory, its child processes too, does not.
Crash ==
  /\ daemon # "down" /\ crashes < MaxCrashes
  /\ crashes' = crashes + 1
  /\ daemon' = "down"
  /\ pc' = [t \in Transitions |-> IF pc[t] = "idle" THEN "idle" ELSE "done"]
  /\ signalled' = {} /\ run' = NoTransition
  /\ cancel' = IdleCancel /\ kill' = IdleKill /\ relaunch' = IdleRelaunch
  /\ chat' = "none" /\ orphan' = FALSE /\ closedBy' = NoTransition
  /\ UNCHANGED <<row, transitions, snapHandle, pane, bootTerminated>>

\* Fault: the boot overlooks the phases of a target that was starting.
BootRecoversSome ==
  /\ daemon = "down"
  /\ phase' = [t \in Transitions |-> IF phase[t] \in Active \ {"target_starting"}
                                     THEN "recovery_required" ELSE phase[t]]
  /\ bootTerminated' = terminated
  /\ daemon' = "boot_live"
  /\ UNCHANGED <<row, source, workers, requests, controllers, crashes>>

\* recoverInterruptedInterfaceTransitions, then the one listing both passes use.
BootRecover ==
  /\ daemon = "down"
  /\ phase' = [t \in Transitions |-> IF phase[t] \in Active
                                     THEN "recovery_required" ELSE phase[t]]
  /\ bootTerminated' = terminated
  /\ daemon' = "boot_live"
  /\ UNCHANGED <<row, source, workers, requests, controllers, crashes>>

\* reconcileLive: adopt a pane that survived (or whose probe failed), else save
\* the work, leave a restore marker unless the capture failed, and terminate.
BootLive ==
  /\ daemon = "boot_live"
  /\ \/ bootTerminated /\ UNCHANGED row
     \/ ~bootTerminated /\ mode = "tui" /\ handle /\ UNCHANGED row
     \/ /\ ~bootTerminated
        /\ ~(mode = "tui" /\ handle /\ pane # "none")
        /\ terminated' = TRUE /\ exited' = TRUE
        /\ marker' \in {TRUE, marker}
        /\ UNCHANGED <<mode, handle>>
  /\ daemon' = "boot_reap"
  /\ UNCHANGED <<transitions, workers, requests, controllers, bootTerminated, crashes>>

\* reconcileReap: kill the pane a row that was already terminated still names.
BootReap ==
  /\ daemon = "boot_reap"
  /\ \/ bootTerminated /\ handle /\ pane' = "none"
     \/ ~(bootTerminated /\ handle) /\ UNCHANGED pane
     \/ "cleanup_fails" \in Env /\ UNCHANGED pane
  /\ daemon' = "boot_restore"
  /\ UNCHANGED <<row, transitions, workers, requests, chat, orphan, closedBy,
                 bootTerminated, crashes>>

\* RestoreAll: relaunch a terminated session that carries the marker.
BootRestore ==
  /\ daemon = "boot_restore"
  /\ \/ terminated /\ marker /\ Opens(mode) /\ daemon' = "boot_spawning"
     \/ daemon' = "up" /\ UNCHANGED controllers
  /\ UNCHANGED <<row, transitions, workers, requests, bootTerminated, crashes>>

BootSpawn ==
  /\ daemon = "boot_spawning"
  /\ \/ Spawned(mode) /\ daemon' = "boot_spawned"
     \/ /\ Discards(mode, "cleanup_fails" \in Env) /\ UNCHANGED row
        /\ daemon' = "up"
  /\ UNCHANGED <<transitions, workers, requests, bootTerminated, crashes>>

\* The marker is consumed only by a launch that was confirmed.
BootConfirm ==
  /\ daemon = "boot_spawned"
  /\ \/ /\ marker' = FALSE
        /\ UNCHANGED <<mode, terminated, handle, exited, controllers>>
     \/ UNCHANGED <<row, controllers>>
     \/ mode = "tui" /\ PromptFails("cleanup_fails" \in Env)
  /\ daemon' = "up"
  /\ UNCHANGED <<transitions, workers, requests, bootTerminated, crashes>>

-----------------------------------------------------------------------------
(* The specification                                                       *)

\* Every step of a worker but the two that depend on what the agent does.
WorkerStep(t) ==
  \/ EnterPreflighting(t) \/ CheckSource(t) \/ EnterDraining(t) \/ BeginHandoff(t)
  \/ EnterStopping(t) \/ FinishUnstopped(t) \/ StopSource(t) \/ StopUncertain(t)
  \/ EnterStopped(t) \/ CommitEpoch(t) \/ EnterStarting(t) \/ OpenTarget(t)
  \/ SpawnTarget(t) \/ ConfirmTarget(t) \/ EnterActivating(t) \/ Complete(t)
  \/ RollbackStop(t) \/ RollbackCommit(t) \/ RestoreSource(t) \/ RespawnSource(t)
  \/ ConfirmSource(t) \/ FinishRollback(t) \/ Deregister(t)

StartStep(t) == StartRead(t) \/ StartCreate(t) \/ Register(t)
DrainStep(t) == Quiesced(t) \/ QuiesceFails(t)
CancelStep == (\E t \in Transitions : CancelRead(t)) \/ CancelCas \/ CancelSignal
KillStep == KillCheck \/ KillRead \/ KillStop \/ KillMark
RelaunchStep == \/ \E kind \in {"resume", "restore"} : RelaunchCheck(kind)
                \/ RelaunchRead \/ RelaunchOpen \/ RelaunchSpawn \/ RelaunchConfirm
WorldStep == PaneExits \/ ChatExits \/ ExitReported \/ Reap
BootStep == \/ BootRecover \/ BootLive \/ BootReap \/ BootRestore
            \/ BootSpawn \/ BootConfirm

Next ==
  \/ \E t \in Transitions : StartStep(t) \/ WorkerStep(t) \/ DrainStep(t)
  \/ CancelStep \/ KillStep \/ RelaunchStep \/ WorldStep \/ Crash \/ BootStep

Spec == Init /\ [][Next]_vars

\* Both wait loops select on ctx.Done, the chat one on the controller's end too.
MustReturn(t) == t \in signalled \/ (source[t] = "chat" /\ chat # "live")

\* A worker goroutine keeps running and a request that has begun gets on; whether
\* a busy agent ever becomes idle is not assumed.
Fairness ==
  /\ \A t \in Transitions :
       /\ WF_vars(WorkerStep(t))
       /\ WF_vars(StartCreate(t) \/ Register(t))
       /\ WF_vars(MustReturn(t) /\ DrainStep(t))
  /\ WF_vars(CancelCas \/ CancelSignal)
  /\ WF_vars(RelaunchRead \/ RelaunchOpen \/ RelaunchSpawn \/ RelaunchConfirm)
  /\ WF_vars(BootStep)

FairSpec == Spec /\ Fairness

-----------------------------------------------------------------------------
(* Properties                                                              *)

\* Both controllers are never live at once, and only the controller the session
\* row names may write the native conversation (docs/architecture.md:3).
OneWriter == Writers \subseteq {mode}

\* The handoff implements the abstract promise: controllers start only for the
\* owner and beside no other, and the mode changes only while none is live.
Ownership == INSTANCE ControllerOwnership
               WITH Owners <- Modes, owner <- mode, writers <- Writers
ImplementsOwnership == Ownership!OwnershipSpec

\* Past source_stopping a session has one worker: a worker whose row was
\* cancelled under it, or that a new transition overtook, can never still be
\* stopping, committing or launching (the CAS in moveInterfaceTransition).
ExclusiveHandoff ==
  \A t, u \in Transitions : pc[t] \in Driving /\ pc[u] \in Driving => t = u

\* A cancel the code acknowledged never sees its worker tear the source down:
\* the row of a worker that drives the handoff is not "cancelled".
CancelKeepsSource ==
  \A t \in Transitions : phase[t] = "cancelled" => pc[t] \notin Driving

\* While a row says the source is being drained or stopped, the session row still
\* names that source: no stale request ever drains the controller of the other
\* mode (the SESSION_CHANGED check against a request that read an old mode).
DrainsTheOwner ==
  \A t \in Transitions :
    phase[t] \in {"draining", "source_stopping"} => mode = source[t]

\* The chat intake is never left closed by nobody: while it is closed, the worker
\* that closed it has yet to stop the source or to reopen it, or ended in a row
\* that says the stop is uncertain (or is stuck before it until the next boot).
ClosedIntakeHasOwner ==
  \A t \in Transitions :
    closedBy = t =>
      \/ pc[t] \in {"quiescing", "prepared", "stopping"}
      \/ /\ pc[t] \in {"ended", "done"}
         /\ phase[t] \in {"source_stopping", "recovery_required"}

\* What the comment in CancelInterfaceTransition says of the worker it cancels:
\* "Cancellation must win durably before it signals the in-memory worker".  The signal
\* goes to whatever run the map names by then, so only SignalFollowsVerdict holds.
SignalledIsEnded ==
  \A t \in signalled : phase[t] \in Terminal

\* No worker is signalled before a cancellation has won: a cancel whose compare-and-swap
\* lost to the worker's move into source_stopping signals nobody.
SignalFollowsVerdict ==
  signalled # {} => \E t \in Transitions : phase[t] = "cancelled"

\* A terminated session has no controller once nothing is at work on it.
Quiet == /\ daemon = "up" /\ kill.pc = "idle" /\ relaunch.pc = "idle"
         /\ \A t \in Transitions : pc[t] \in {"idle", "reading", "done"}
TerminatedHasNoController == Quiet /\ terminated => Writers = {}

\* The row of a transition that ended never changes again: worker, cancel
\* request and boot recovery race for it and exactly one verdict stands.
KeepsVerdicts ==
  \A t \in Transitions : phase[t] \in Terminal => phase'[t] = phase[t]
TerminalIsFinal == [][KeepsVerdicts]_vars

\* The verdict tells where the session is: completed only with the target's
\* controller named by the row, cancelled only before the point of no return,
\* failed only with the source's controller named, unless the session had already
\* left that source when the worker looked.
TellsTheMode ==
  \A t \in Transitions :
    phase'[t] # phase[t] =>
      /\ phase'[t] = "completed" => mode = Target(t)
      /\ phase'[t] = "cancelled" => phase[t] \in Cancellable
      /\ phase'[t] = "failed" =>
           mode = source[t] \/ phase[t] \in {"requested", "preflighting"}
VerdictMatchesMode == [][TellsTheMode]_vars

\* A write of a transition row failed for good: the worker is gone and the row is active
\* (finishInterfaceTransition's error is discarded).  The next boot ends such a row.
Abandoned(t) ==
  "store_fails" \in Env /\ phase[t] \in Active /\ pc[t] = "done"

\* The row of a switch that has yet to get on, without waiting for its agent.
Underway == \E t \in Transitions : phase[t] \in Active \ {"draining"} /\ ~Abandoned(t)

\* A switch never hangs but on its agent: whatever fails, its row reaches a verdict, or the
\* drain that waits for an idle agent, or is abandoned by a failed write of that row.
\* (One row is active at a time and none is opened again, so a row that hangs would be
\* under way for ever.)  And whenever the daemon crashes the next boot ends every row,
\* one that drained or was abandoned too.
SwitchProgresses ==
  /\ []<>~Underway
  /\ daemon = "down" ~> \A t \in Transitions : phase[t] \notin Active

\* A cancelled transition's worker gives up even if its agent never becomes idle.
CancelledWorkerEnds ==
  \A t \in Transitions : phase[t] = "cancelled" ~> pc[t] = "done"
=============================================================================
