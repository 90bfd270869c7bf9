---------------------- MODULE InterfaceTransitionProofs ----------------------
(***************************************************************************)
(* Safety of InterfaceTransition for every set of transitions, every number *)
(* of crashes and, where a theorem does not restrict it, every environment. *)
(*                                                                         *)
(* What the helpers preserve and the types come first, then what the rows, *)
(* the mode, the intake and the signals are worth; whom a cancel reaches;  *)
(* which controllers are live, and the refinement of ControllerOwnership;  *)
(* who ends an active row; and that a dead session has no controller.      *)
(***************************************************************************)
EXTENDS InterfaceTransition, TLAPS

USE EnvAssumption, CrashAssumption, NoTransitionAssumption
USE DEF row, transitions, workers, requests, controllers, system, vars,
        Modes, Opposite, Target, Cancellable, Stopping, Active, Terminal,
        Requesting, Preparing, Forward, Backward, Driving, Steps, Booting,
        IdleCancel, IdleKill, IdleRelaunch, Goto

-----------------------------------------------------------------------------
(* What the helpers that launch, stop and commit preserve                  *)

\* A launch keeps the controllers well typed.
LEMMA OpensType ==
  ASSUME NEW m, Opens(m), ControllersOK
  PROVE  ControllersOK'
BY DEF Opens, ControllersOK

\* So does recording it in the session row.
LEMMA SpawnedType ==
  ASSUME NEW m, Spawned(m), RowOK, ControllersOK
  PROVE  RowOK' /\ ControllersOK'
<1>1. RowOK'
  BY DEF Spawned, RowOK
<1>2. ControllersOK'
  BY DEF Spawned, ControllersOK
<1>3. QED
  BY <1>1, <1>2

\* Discarding a launch touches the controllers only.
LEMMA DiscardsType ==
  ASSUME NEW m, NEW mayLeak, Discards(m, mayLeak), ControllersOK
  PROVE  ControllersOK'
BY DEF Discards, ControllersOK

\* A prompt that could not be delivered destroys the pane and ends the row.
LEMMA PromptFailsType ==
  ASSUME NEW mayLeak, PromptFails(mayLeak), RowOK, ControllersOK
  PROVE  RowOK' /\ ControllersOK'
<1>1. RowOK'
  BY DEF PromptFails, RowOK
<1>2. ControllersOK'
  BY DEF PromptFails, ControllersOK
<1>3. QED
  BY <1>1, <1>2

\* The epoch commit keeps the row well typed.
LEMMA CommitsType ==
  ASSUME NEW from, NEW to \in Modes, CommitsEpoch(from, to), RowOK
  PROVE  RowOK'
BY DEF CommitsEpoch, RowOK

\* Stopping a controller keeps the controllers well typed.
LEMMA StopType ==
  ASSUME NEW m, NEW known, StopController(m, known), UNCHANGED orphan, ControllersOK
  PROVE  ControllersOK'
BY DEF StopController, ControllersOK

-----------------------------------------------------------------------------
(* Type correctness                                                        *)

LEMMA TypeInit == Init => TypeOK
<1> SUFFICES ASSUME Init
             PROVE  TypeOK
  OBVIOUS
<1>1. RowOK
  BY DEF Init, RowOK
<1>2. WorkersOK
  BY DEF Init, WorkersOK
<1>3. RequestsOK
  BY DEF Init, RequestsOK
<1>4. ControllersOK
  BY DEF Init, ControllersOK
<1>5. SystemOK
  <2>1. Init => crashes \in 0..MaxCrashes
    BY CrashAssumption, SMT DEF Init
  <2>2. Init => daemon \in {"up", "down"} \cup Booting /\ bootTerminated \in BOOLEAN
    BY DEF Init
  <2>3. QED
    BY <2>1, <2>2 DEF SystemOK
<1>6. QED
  BY <1>1, <1>2, <1>3, <1>4, <1>5 DEF TypeOK

LEMMA TypeStep == TypeOK /\ [Next]_vars => TypeOK'
<1> SUFFICES ASSUME TypeOK, [Next]_vars
             PROVE  TypeOK'
  OBVIOUS
<1> USE DEF TypeOK, RowOK, WorkersOK, RequestsOK, ControllersOK, SystemOK
<1>a. RowOK /\ WorkersOK /\ RequestsOK /\ ControllersOK /\ SystemOK
  OBVIOUS
<1>1. ASSUME NEW t \in Transitions, StartStep(t)
      PROVE  TypeOK'
  BY <1>1 DEF StartStep, StartRead, StartCreate, Register
<1>2. ASSUME NEW t \in Transitions, WorkerStep(t)
      PROVE  TypeOK'
  <2>1. CASE EnterPreflighting(t)
    BY <2>1 DEF EnterPreflighting, Moves, MoveFails
  <2>2. CASE CheckSource(t)
    BY <2>2 DEF CheckSource
  <2>3. CASE EnterDraining(t)
    BY <2>3 DEF EnterDraining, Moves, MoveFails
  <2>4. CASE BeginHandoff(t)
    BY <2>4 DEF BeginHandoff
  <2>5. CASE EnterStopping(t)
    BY <2>5 DEF EnterStopping, Moves, MoveFails
  <2>6. CASE FinishUnstopped(t)
    BY <2>6 DEF FinishUnstopped, Moves, MoveFails
  <2>7. CASE StopSource(t)
    BY <2>7 DEF StopSource, StopController
  <2>8. CASE StopUncertain(t)
    BY <2>8 DEF StopUncertain, Moves, MoveFails
  <2>9. CASE EnterStopped(t)
    BY <2>9 DEF EnterStopped, Moves, MoveFails
  <2>10. CASE CommitEpoch(t)
    <3>1. RowOK'
      BY <2>10, CommitsType DEF CommitEpoch
    <3>2. WorkersOK' /\ RequestsOK' /\ ControllersOK' /\ SystemOK'
      BY <2>10 DEF CommitEpoch
    <3>3. QED
      BY <3>1, <3>2
  <2>11. CASE EnterStarting(t)
    BY <2>11 DEF EnterStarting, Moves, MoveFails
  <2>12. CASE OpenTarget(t)
    BY <2>12 DEF OpenTarget, OpenController, Opens
  <2>13. CASE SpawnTarget(t)
    <3>1. RowOK'
      BY <2>13, SpawnedType DEF SpawnTarget, SpawnController
    <3>2. WorkersOK' /\ RequestsOK' /\ SystemOK'
      BY <2>13 DEF SpawnTarget, SpawnController
    <3>3. ControllersOK'
      BY <2>13, SpawnedType, DiscardsType DEF SpawnTarget, SpawnController
    <3>4. QED
      BY <3>1, <3>2, <3>3
  <2>14. CASE ConfirmTarget(t)
    <3>1. RowOK' /\ ControllersOK'
      <4>1. ASSUME NEW mayLeak, PromptFails(mayLeak)
            PROVE  RowOK' /\ ControllersOK'
        BY <4>1, PromptFailsType
      <4>2. CASE UNCHANGED <<row, controllers>>
        BY <4>2
      <4>3. QED
        BY <2>14, <4>1, <4>2 DEF ConfirmTarget, ConfirmController
    <3>2. WorkersOK' /\ RequestsOK' /\ SystemOK'
      BY <2>14 DEF ConfirmTarget, ConfirmController
    <3>3. QED
      BY <3>1, <3>2
  <2>15. CASE EnterActivating(t)
    BY <2>15 DEF EnterActivating, Moves, MoveFails
  <2>16. CASE Complete(t)
    BY <2>16 DEF Complete, Moves, MoveFails
  <2>17. CASE RollbackStop(t)
    BY <2>17 DEF RollbackStop, StopController
  <2>18. CASE RollbackCommit(t)
    <3>1. RowOK'
      BY <2>18, CommitsType DEF RollbackCommit
    <3>2. WorkersOK' /\ RequestsOK' /\ ControllersOK' /\ SystemOK'
      BY <2>18 DEF RollbackCommit
    <3>3. QED
      BY <3>1, <3>2
  <2>19. CASE RestoreSource(t)
    BY <2>19 DEF RestoreSource, Opens
  <2>20. CASE RespawnSource(t)
    <3>1. RowOK'
      BY <2>20, SpawnedType DEF RespawnSource
    <3>2. WorkersOK' /\ RequestsOK' /\ SystemOK'
      BY <2>20 DEF RespawnSource
    <3>3. ControllersOK'
      BY <2>20, SpawnedType, DiscardsType DEF RespawnSource
    <3>4. QED
      BY <3>1, <3>2, <3>3
  <2>21. CASE ConfirmSource(t)
    <3>1. RowOK' /\ ControllersOK'
      <4>1. ASSUME NEW mayLeak, PromptFails(mayLeak)
            PROVE  RowOK' /\ ControllersOK'
        BY <4>1, PromptFailsType
      <4>2. CASE UNCHANGED <<row, controllers>>
        BY <4>2
      <4>3. QED
        BY <2>21, <4>1, <4>2 DEF ConfirmSource
    <3>2. WorkersOK' /\ RequestsOK' /\ SystemOK'
      BY <2>21 DEF ConfirmSource
    <3>3. QED
      BY <3>1, <3>2
  <2>22. CASE FinishRollback(t)
    BY <2>22 DEF FinishRollback, Moves, MoveFails
  <2>23. CASE Deregister(t)
    BY <2>23 DEF Deregister
  <2>24. QED
    BY <1>2, <2>1, <2>2, <2>3, <2>4, <2>5, <2>6, <2>7, <2>8, <2>9, <2>10, <2>11,
       <2>12, <2>13, <2>14, <2>15, <2>16, <2>17, <2>18, <2>19, <2>20, <2>21,
       <2>22, <2>23
    DEF WorkerStep
<1>3. ASSUME NEW t \in Transitions, DrainStep(t)
      PROVE  TypeOK'
  BY <1>3 DEF DrainStep, Quiesced, QuiesceFails
<1>4. CASE CancelStep
  BY <1>4 DEF CancelStep, CancelRead, CancelCas, CancelSignal, Signals
<1>5. CASE KillStep
  <2>1. RowOK'
    BY <1>5 DEF KillStep, KillCheck, KillRead, KillStop, KillMark
  <2>2. WorkersOK'
    BY <1>5 DEF KillStep, KillCheck, KillRead, KillStop, KillMark
  <2>3. RequestsOK'
    <3>1. CASE KillCheck
      BY <3>1 DEF KillCheck
    <3>2. CASE KillRead
      <4>1. kill' \in [pc : {"idle", "checked", "stopping", "marking"},
                      mode : Modes, handle : BOOLEAN]
        BY <3>2 DEF KillRead
      <4>2. QED
        BY <3>2, <4>1 DEF KillRead
    <3>3. CASE KillStop
      <4>1. kill' \in [pc : {"idle", "checked", "stopping", "marking"},
                      mode : Modes, handle : BOOLEAN]
        <5>1. IdleKill \in [pc : {"idle", "checked", "stopping", "marking"},
                           mode : Modes, handle : BOOLEAN]
          OBVIOUS
        <5>2. [kill EXCEPT !.pc = "marking"]
                \in [pc : {"idle", "checked", "stopping", "marking"},
                    mode : Modes, handle : BOOLEAN]
          OBVIOUS
        <5>3. kill' \in {IdleKill, [kill EXCEPT !.pc = "marking"]}
          BY <3>3 DEF KillStop
        <5>4. QED
          BY <5>1, <5>2, <5>3
      <4>2. UNCHANGED <<cancel, relaunch>>
        BY <3>3 DEF KillStop
      <4>3. QED
        BY <4>1, <4>2
    <3>4. CASE KillMark
      BY <3>4 DEF KillMark
    <3>5. QED
      BY <1>5, <3>1, <3>2, <3>3, <3>4 DEF KillStep
  <2>4. ControllersOK'
    BY <1>5, StopType DEF KillStep, KillCheck, KillRead, KillStop, KillMark
  <2>5. SystemOK'
    BY <1>5 DEF KillStep, KillCheck, KillRead, KillStop, KillMark
  <2>6. QED
    BY <2>1, <2>2, <2>3, <2>4, <2>5
<1>6. CASE RelaunchStep
  <2>1. CASE \E kind \in {"resume", "restore"} : RelaunchCheck(kind)
    BY <2>1 DEF RelaunchCheck
  <2>2. CASE RelaunchRead
    <3>1. RowOK'
      BY <2>2 DEF RelaunchRead
    <3>2. WorkersOK'
      BY <2>2 DEF RelaunchRead
    <3>3. RequestsOK'
      BY <2>2 DEF RelaunchRead
    <3>4. ControllersOK'
      BY <2>2 DEF RelaunchRead
    <3>5. SystemOK'
      BY <2>2 DEF RelaunchRead
    <3>6. QED
      BY <3>1, <3>2, <3>3, <3>4, <3>5
  <2>3. CASE RelaunchOpen
    BY <2>3 DEF RelaunchOpen, Opens
  <2>4. CASE RelaunchSpawn
    <3>1. RowOK'
      BY <2>4, SpawnedType DEF RelaunchSpawn
    <3>2. WorkersOK' /\ RequestsOK' /\ SystemOK'
      BY <2>4 DEF RelaunchSpawn
    <3>3. ControllersOK'
      BY <2>4, SpawnedType, DiscardsType DEF RelaunchSpawn
    <3>4. QED
      BY <3>1, <3>2, <3>3
  <2>5. CASE RelaunchConfirm
    <3>1. RowOK' /\ ControllersOK'
      <4>1. ASSUME NEW mayLeak, PromptFails(mayLeak)
            PROVE  RowOK' /\ ControllersOK'
        BY <4>1, PromptFailsType
      <4>2. CASE UNCHANGED <<row, controllers>>
        BY <4>2
      <4>3. QED
        BY <2>5, <4>1, <4>2 DEF RelaunchConfirm
    <3>2. WorkersOK' /\ RequestsOK' /\ SystemOK'
      BY <2>5 DEF RelaunchConfirm
    <3>3. QED
      BY <3>1, <3>2
  <2>6. QED
    BY <1>6, <2>1, <2>2, <2>3, <2>4, <2>5 DEF RelaunchStep
<1>7. CASE WorldStep
  <2>1. RowOK'
    BY <1>7 DEF WorldStep, PaneExits, ChatExits, ExitReported, Reap
  <2>2. WorkersOK'
    BY <1>7 DEF WorldStep, PaneExits, ChatExits, ExitReported, Reap
  <2>3. RequestsOK'
    BY <1>7 DEF WorldStep, PaneExits, ChatExits, ExitReported, Reap
  <2>4. ControllersOK'
    BY <1>7 DEF WorldStep, PaneExits, ChatExits, ExitReported, Reap
  <2>5. SystemOK'
    BY <1>7 DEF WorldStep, PaneExits, ChatExits, ExitReported, Reap
  <2>6. QED
    BY <2>1, <2>2, <2>3, <2>4, <2>5
<1>8. CASE Crash
  <2>1. RowOK'
    BY <1>8 DEF Crash
  <2>2. WorkersOK'
    BY <1>8 DEF Crash
  <2>3. RequestsOK'
    BY <1>8 DEF Crash
  <2>4. ControllersOK'
    BY <1>8 DEF Crash
  <2>5. SystemOK'
    BY <1>8, CrashAssumption DEF Crash
  <2>6. QED
    BY <2>1, <2>2, <2>3, <2>4, <2>5
<1>9. CASE BootStep
  <2>1. CASE BootRecover
    BY <2>1 DEF BootRecover
  <2>2. CASE BootLive
    <3>1. RowOK'
      BY <2>2 DEF BootLive
    <3>2. WorkersOK'
      BY <2>2 DEF BootLive
    <3>3. RequestsOK'
      BY <2>2 DEF BootLive
    <3>4. ControllersOK'
      BY <2>2 DEF BootLive
    <3>5. SystemOK'
      BY <2>2 DEF BootLive
    <3>6. QED
      BY <3>1, <3>2, <3>3, <3>4, <3>5
  <2>3. CASE BootReap
    BY <2>3 DEF BootReap
  <2>4. CASE BootRestore
    BY <2>4 DEF BootRestore, Opens
  <2>5. CASE BootSpawn
    <3>1. RowOK'
      BY <2>5, SpawnedType DEF BootSpawn
    <3>2. WorkersOK' /\ RequestsOK' /\ SystemOK'
      BY <2>5 DEF BootSpawn
    <3>3. ControllersOK'
      BY <2>5, SpawnedType, DiscardsType DEF BootSpawn
    <3>4. QED
      BY <3>1, <3>2, <3>3
  <2>6. CASE BootConfirm
    <3>1. RowOK' /\ ControllersOK'
      <4>1. CASE PromptFails("cleanup_fails" \in Env)
        BY <4>1, PromptFailsType
      <4>2. CASE UNCHANGED controllers /\ UNCHANGED <<mode, terminated, handle, exited>>
                 /\ marker' \in {marker, FALSE}
        BY <4>2
      <4>3. QED
        BY <2>6, <4>1, <4>2 DEF BootConfirm
    <3>2. WorkersOK' /\ RequestsOK' /\ SystemOK'
      BY <2>6 DEF BootConfirm
    <3>3. QED
      BY <3>1, <3>2
  <2>7. QED
    BY <1>9, <2>1, <2>2, <2>3, <2>4, <2>5, <2>6 DEF BootStep
<1>10. CASE UNCHANGED vars
  BY <1>10
<1>11. QED
  BY <1>1, <1>2, <1>3, <1>4, <1>5, <1>6, <1>7, <1>8, <1>9, <1>10 DEF Next

\* Every variable keeps its type, in every environment.
THEOREM TypeCorrect == Spec => []TypeOK
<1>1. QED
  BY TypeInit, TypeStep, PTL DEF Spec

-----------------------------------------------------------------------------
(* One worker past the point of no return, in every environment            *)

\* The row of a driving worker is still in one of the phases only it can leave,
\* at most one row is active, a request has no row before it created one, and no
\* worker runs before the boot has reconciled.
RowsInv ==
  /\ daemon # "up" => \A t \in Transitions : pc[t] \in {"idle", "done"}
  /\ \A t \in Transitions : pc[t] \in Driving => phase[t] \in Stopping
  /\ \A t \in Transitions : pc[t] \in {"idle", "reading"} => phase[t] = "none"
  /\ \A t, u \in Transitions :
       phase[t] \in Active /\ phase[u] \in Active => t = u

\* Init has no row and no worker.
LEMMA RowsInit == Init => RowsInv
BY DEF Init, RowsInv

\* Every step keeps RowsInv: the moves are compare-and-swaps of an active row, a
\* cancel takes a cancellable one, and a crash ends every worker.
LEMMA RowsStep == TypeOK /\ RowsInv /\ [Next]_vars => RowsInv'
<1> SUFFICES ASSUME TypeOK, RowsInv, [Next]_vars
             PROVE  RowsInv'
  OBVIOUS
<1>a. WorkersOK /\ RequestsOK
  BY DEF TypeOK
<1> USE DEF RowsInv, WorkersOK
<1>1. ASSUME NEW t \in Transitions, StartStep(t)
      PROVE  RowsInv'
  BY <1>a, <1>1 DEF StartStep, StartRead, StartCreate, Register, NoActiveRow
<1>2. ASSUME NEW t \in Transitions, WorkerStep(t)
      PROVE  RowsInv'
  <2>1. CASE EnterPreflighting(t) \/ EnterDraining(t) \/ EnterStopping(t)
    BY <1>a, <2>1 DEF EnterPreflighting, EnterDraining, EnterStopping, Moves, MoveFails
  <2>2. CASE FinishUnstopped(t) \/ StopUncertain(t)
    BY <1>a, <2>2 DEF FinishUnstopped, StopUncertain, Moves, MoveFails
  <2>3. CASE EnterStopped(t) \/ EnterStarting(t)
    BY <1>a, <2>3 DEF EnterStopped, EnterStarting, Moves, MoveFails
  <2>4. CASE EnterActivating(t) \/ Complete(t) \/ FinishRollback(t)
    BY <1>a, <2>4 DEF EnterActivating, Complete, FinishRollback, Moves, MoveFails
  <2>5. CASE CheckSource(t) \/ BeginHandoff(t)
    BY <1>a, <2>5 DEF CheckSource, BeginHandoff
  <2>6. CASE StopSource(t) \/ CommitEpoch(t) \/ OpenTarget(t)
    BY <1>a, <2>6 DEF StopSource, CommitEpoch, OpenTarget, OpenController
  <2>7. CASE SpawnTarget(t) \/ ConfirmTarget(t)
    BY <1>a, <2>7 DEF SpawnTarget, SpawnController, ConfirmTarget, ConfirmController
  <2>8. CASE RollbackStop(t) \/ RollbackCommit(t)
    BY <1>a, <2>8 DEF RollbackStop, RollbackCommit
  <2>9. CASE RestoreSource(t) \/ RespawnSource(t) \/ ConfirmSource(t)
    BY <1>a, <2>9 DEF RestoreSource, RespawnSource, ConfirmSource
  <2>10. CASE Deregister(t)
    BY <1>a, <2>10 DEF Deregister
  <2>11. QED
    BY <1>2, <2>1, <2>2, <2>3, <2>4, <2>5, <2>6, <2>7, <2>8, <2>9, <2>10
    DEF WorkerStep
<1>3. ASSUME NEW t \in Transitions, DrainStep(t)
      PROVE  RowsInv'
  BY <1>a, <1>3 DEF DrainStep, Quiesced, QuiesceFails
<1>4. CASE CancelStep
  BY <1>a, <1>4 DEF CancelStep, CancelRead, CancelCas, CancelSignal, RequestsOK
<1>5. CASE KillStep \/ RelaunchStep \/ WorldStep
  <2>1. UNCHANGED <<phase, pc, daemon>>
    BY <1>5 DEF KillStep, KillCheck, KillRead, KillStop, KillMark,
      RelaunchStep, RelaunchCheck, RelaunchRead, RelaunchOpen, RelaunchSpawn,
      RelaunchConfirm, WorldStep, PaneExits, ChatExits, ExitReported, Reap
  <2>2. QED
    BY <2>1
<1>6. CASE Crash
  BY <1>a, <1>6 DEF Crash
<1>7. CASE BootRecover
  BY <1>a, <1>7 DEF BootRecover
<1>8. CASE BootStep /\ ~BootRecover
  <2>1. UNCHANGED <<phase, pc>> /\ daemon # "up"
    BY <1>8 DEF BootStep, BootLive, BootReap, BootRestore, BootSpawn, BootConfirm
  <2>2. QED
    BY <2>1
<1>9. CASE UNCHANGED vars
  BY <1>9
<1>10. QED
  BY <1>1, <1>2, <1>3, <1>4, <1>5, <1>6, <1>7, <1>8, <1>9 DEF Next

-----------------------------------------------------------------------------
(* The mode of the session while its source is drained                     *)

\* The steps at which the mode may change, or already has.
Committing == {"committing", "committed", "launching", "spawning", "spawned",
               "launched", "activating", "rbstop", "rbcommit"}

\* The steps from the check of the session to the point of no return.
Draining == {"ready", "draining", "quiescing", "prepared"}

\* The mode changes only in the hands of a worker whose row is past
\* source_stopping, so it stays the source's from the check of a live row on.
SourceInv ==
  /\ \A t \in Transitions : pc[t] \in Committing => phase[t] # "source_stopping"
  /\ \A t \in Transitions :
       pc[t] \in Draining /\ phase[t] \in Active => mode = source[t]
  /\ DrainsTheOwner

\* Init has no worker.
LEMMA SourceInit == Init => SourceInv
BY DEF Init, SourceInv, DrainsTheOwner, Committing, Draining

\* Only the two epoch commits change the mode.
LEMMA ModeChanges ==
  ASSUME TypeOK, [Next]_vars
  PROVE  mode' = mode \/ \E t \in Transitions : CommitEpoch(t) \/ RollbackCommit(t)
<1>1. ASSUME NEW t \in Transitions, StartStep(t) \/ DrainStep(t)
      PROVE  mode' = mode
  BY <1>1 DEF StartStep, StartRead, StartCreate, Register, DrainStep, Quiesced, QuiesceFails
<1>2. ASSUME NEW t \in Transitions, WorkerStep(t), ~CommitEpoch(t), ~RollbackCommit(t)
      PROVE  mode' = mode
  BY <1>2 DEF WorkerStep, EnterPreflighting, CheckSource, EnterDraining, BeginHandoff,
    EnterStopping, FinishUnstopped, StopSource, StopUncertain, EnterStopped,
    EnterStarting, OpenTarget, OpenController, SpawnTarget, SpawnController, Spawned,
    ConfirmTarget, ConfirmController, PromptFails, EnterActivating, Complete,
    RollbackStop, RestoreSource, RespawnSource, ConfirmSource, FinishRollback, Deregister
<1>3. CASE CancelStep \/ KillStep
  BY <1>3 DEF CancelStep, CancelRead, CancelCas, CancelSignal,
    KillStep, KillCheck, KillRead, KillStop, KillMark
<1>4. CASE RelaunchStep
  BY <1>4 DEF RelaunchStep, RelaunchCheck, RelaunchRead, RelaunchOpen, RelaunchSpawn,
    RelaunchConfirm, Spawned, PromptFails
<1>5. CASE WorldStep \/ Crash
  BY <1>5 DEF WorldStep, PaneExits, ChatExits, ExitReported, Reap, Crash
<1>6. CASE BootStep
  BY <1>6 DEF BootStep, BootRecover, BootLive, BootReap, BootRestore, BootSpawn,
    BootConfirm, Spawned, PromptFails
<1>7. CASE UNCHANGED vars
  BY <1>7
<1>8. QED
  BY <1>1, <1>2, <1>3, <1>4, <1>5, <1>6, <1>7 DEF Next

\* Every step keeps SourceInv.
LEMMA SourceStep == TypeOK /\ RowsInv /\ SourceInv /\ [Next]_vars => SourceInv'
<1> SUFFICES ASSUME TypeOK, RowsInv, SourceInv, [Next]_vars
             PROVE  SourceInv'
  OBVIOUS
<1>a. WorkersOK /\ RequestsOK
  BY DEF TypeOK
<1>b. mode' = mode \/ \E t \in Transitions : CommitEpoch(t) \/ RollbackCommit(t)
  BY ModeChanges
<1> USE DEF RowsInv, SourceInv, WorkersOK, DrainsTheOwner, Committing, Draining
<1>1. ASSUME NEW t \in Transitions, CommitEpoch(t) \/ RollbackCommit(t)
      PROVE  SourceInv'
  BY <1>a, <1>1 DEF CommitEpoch, RollbackCommit
<1>2. ASSUME NEW t \in Transitions, StartStep(t), mode' = mode
      PROVE  SourceInv'
  BY <1>a, <1>2 DEF StartStep, StartRead, StartCreate, Register, NoActiveRow
<1>3. ASSUME NEW t \in Transitions, WorkerStep(t), mode' = mode
      PROVE  SourceInv'
  <2>1. CASE EnterPreflighting(t) \/ EnterDraining(t) \/ EnterStopping(t)
    BY <1>a, <1>3, <2>1 DEF EnterPreflighting, EnterDraining, EnterStopping, Moves, MoveFails
  <2>2. CASE FinishUnstopped(t) \/ StopUncertain(t)
    BY <1>a, <1>3, <2>2 DEF FinishUnstopped, StopUncertain, Moves, MoveFails
  <2>3. CASE EnterStopped(t) \/ EnterStarting(t)
    BY <1>a, <1>3, <2>3 DEF EnterStopped, EnterStarting, Moves, MoveFails
  <2>4. CASE EnterActivating(t) \/ Complete(t) \/ FinishRollback(t)
    BY <1>a, <1>3, <2>4 DEF EnterActivating, Complete, FinishRollback, Moves, MoveFails
  <2>5. CASE CheckSource(t) \/ BeginHandoff(t)
    BY <1>a, <1>3, <2>5 DEF CheckSource, BeginHandoff
  <2>6. CASE StopSource(t) \/ OpenTarget(t)
    BY <1>a, <1>3, <2>6 DEF StopSource, OpenTarget, OpenController
  <2>7. CASE SpawnTarget(t) \/ ConfirmTarget(t)
    BY <1>a, <1>3, <2>7 DEF SpawnTarget, SpawnController, ConfirmTarget, ConfirmController
  <2>8. CASE RollbackStop(t)
    BY <1>a, <1>3, <2>8 DEF RollbackStop
  <2>9. CASE RestoreSource(t) \/ RespawnSource(t) \/ ConfirmSource(t)
    BY <1>a, <1>3, <2>9 DEF RestoreSource, RespawnSource, ConfirmSource
  <2>10. CASE Deregister(t)
    BY <1>a, <1>3, <2>10 DEF Deregister
  <2>11. QED
    BY <1>1, <1>3, <2>1, <2>2, <2>3, <2>4, <2>5, <2>6, <2>7, <2>8, <2>9, <2>10
    DEF WorkerStep
<1>4. ASSUME NEW t \in Transitions, DrainStep(t), mode' = mode
      PROVE  SourceInv'
  BY <1>a, <1>4 DEF DrainStep, Quiesced, QuiesceFails
<1>5. CASE CancelStep /\ mode' = mode
  BY <1>a, <1>5 DEF CancelStep, CancelRead, CancelCas, CancelSignal, RequestsOK
<1>6. CASE (KillStep \/ RelaunchStep \/ WorldStep) /\ mode' = mode
  <2>1. UNCHANGED <<phase, source, pc>>
    BY <1>6 DEF KillStep, KillCheck, KillRead, KillStop, KillMark,
      RelaunchStep, RelaunchCheck, RelaunchRead, RelaunchOpen, RelaunchSpawn,
      RelaunchConfirm, WorldStep, PaneExits, ChatExits, ExitReported, Reap
  <2>2. QED
    BY <1>6, <2>1
<1>7. CASE Crash /\ mode' = mode
  BY <1>a, <1>7 DEF Crash
<1>8. CASE BootRecover /\ mode' = mode
  BY <1>a, <1>8 DEF BootRecover
<1>9. CASE BootStep /\ ~BootRecover /\ mode' = mode
  <2>1. UNCHANGED <<phase, source, pc>>
    BY <1>9 DEF BootStep, BootLive, BootReap, BootRestore, BootSpawn, BootConfirm
  <2>2. QED
    BY <1>9, <2>1
<1>10. CASE UNCHANGED vars
  BY <1>10
<1>11. QED
  BY <1>b, <1>1, <1>2, <1>3, <1>4, <1>5, <1>6, <1>7, <1>8, <1>9, <1>10 DEF Next

\* Past source_stopping a session has one worker (interface_transition.go:744-784).
THEOREM OneDriver == Spec => []ExclusiveHandoff
<1>1. RowsInv => ExclusiveHandoff
  BY DEF RowsInv, ExclusiveHandoff
<1>2. QED
  BY <1>1, TypeInit, TypeStep, RowsInit, RowsStep, PTL DEF Spec

\* A cancel that was acknowledged never sees its worker stop the source.
THEOREM CancelIsSafe == Spec => []CancelKeepsSource
<1>1. RowsInv => CancelKeepsSource
  BY DEF RowsInv, CancelKeepsSource
<1>2. QED
  BY <1>1, TypeInit, TypeStep, RowsInit, RowsStep, PTL DEF Spec

\* No request drains or stops the controller of the other mode.
THEOREM DrainIsOfTheOwner == Spec => []DrainsTheOwner
<1>1. SourceInv => DrainsTheOwner
  BY DEF SourceInv
<1>2. QED
  BY <1>1, TypeInit, TypeStep, RowsInit, RowsStep, SourceInit, SourceStep, PTL DEF Spec

-----------------------------------------------------------------------------
(* Verdicts                                                                *)

\* The driving steps at which the row still names the source, or does again.
AtSource == {"stopping", "stopped", "committing", "restoring", "respawning",
             "respawned", "rolledback"}

\* Those between the commit of the epoch and its rollback.
AtTarget == Committing \ {"committing"}

\* Which mode the row names at each step of the worker that drives it; a worker
\* that never passed source_stopping has no row that did.
ModeInv ==
  /\ \A t \in Transitions : pc[t] \in Requesting \cup Preparing => phase[t] \notin Stopping
  /\ \A t \in Transitions : pc[t] \in AtSource => mode = source[t]
  /\ \A t \in Transitions : pc[t] \in AtTarget => mode = Target(t)

\* Init has no worker.
LEMMA ModeInit == Init => ModeInv
BY DEF Init, ModeInv, AtSource, AtTarget, Committing

\* Every step keeps ModeInv: another worker that could commit an epoch would be a
\* second driver.
LEMMA ModeStep == TypeOK /\ RowsInv /\ SourceInv /\ ModeInv /\ [Next]_vars => ModeInv'
<1> SUFFICES ASSUME TypeOK, RowsInv, SourceInv, ModeInv, [Next]_vars
             PROVE  ModeInv'
  OBVIOUS
<1>a. WorkersOK /\ RequestsOK
  BY DEF TypeOK
<1>b. mode' = mode \/ \E t \in Transitions : CommitEpoch(t) \/ RollbackCommit(t)
  BY ModeChanges
<1> USE DEF ModeInv, WorkersOK, AtSource, AtTarget, Committing
<1>1. ASSUME NEW t \in Transitions, CommitEpoch(t) \/ RollbackCommit(t)
      PROVE  ModeInv'
  <2>1. \A u \in Transitions : pc[u] \in Driving => u = t
    BY <1>1 DEF RowsInv, CommitEpoch, RollbackCommit
  <2>2. UNCHANGED <<phase, source>> /\ pc' = [pc EXCEPT ![t] = pc'[t]]
    BY <1>a, <1>1 DEF CommitEpoch, RollbackCommit
  <2>3. CASE CommitEpoch(t) /\ mode' = Target(t) /\ pc'[t] = "committed"
    BY <1>a, <2>1, <2>2, <2>3
  <2>4. CASE CommitEpoch(t) /\ mode' = mode /\ pc'[t] = "restoring"
    BY <1>a, <2>1, <2>2, <2>4 DEF CommitEpoch
  <2>5. CASE RollbackCommit(t) /\ mode' = source[t] /\ pc'[t] = "restoring"
    BY <1>a, <2>1, <2>2, <2>5
  <2>6. CASE RollbackCommit(t) /\ mode' = mode /\ pc'[t] = "recovering"
    BY <1>a, <2>1, <2>2, <2>6
  <2>7. QED
    BY <1>a, <1>1, <2>3, <2>4, <2>5, <2>6 DEF CommitEpoch, RollbackCommit, CommitsEpoch
<1>2. ASSUME NEW t \in Transitions, StartStep(t), mode' = mode
      PROVE  ModeInv'
  BY <1>a, <1>2 DEF StartStep, StartRead, StartCreate, Register, RowsInv
<1>3. ASSUME NEW t \in Transitions, WorkerStep(t), mode' = mode
      PROVE  ModeInv'
  <2>1. CASE EnterPreflighting(t) \/ EnterDraining(t)
    BY <1>a, <1>3, <2>1 DEF EnterPreflighting, EnterDraining, Moves, MoveFails
  <2>2. CASE EnterStopping(t)
    BY <1>a, <1>3, <2>2 DEF EnterStopping, Moves, MoveFails, SourceInv, Draining
  <2>3. CASE FinishUnstopped(t) \/ StopUncertain(t)
    BY <1>a, <1>3, <2>3 DEF FinishUnstopped, StopUncertain, Moves, MoveFails
  <2>4. CASE EnterStopped(t) \/ EnterStarting(t)
    BY <1>a, <1>3, <2>4 DEF EnterStopped, EnterStarting, Moves, MoveFails
  <2>5. CASE EnterActivating(t) \/ Complete(t) \/ FinishRollback(t)
    BY <1>a, <1>3, <2>5 DEF EnterActivating, Complete, FinishRollback, Moves, MoveFails
  <2>6. CASE CheckSource(t) \/ BeginHandoff(t)
    BY <1>a, <1>3, <2>6 DEF CheckSource, BeginHandoff
  <2>7. CASE StopSource(t) \/ OpenTarget(t)
    BY <1>a, <1>3, <2>7 DEF StopSource, OpenTarget, OpenController
  <2>8. CASE SpawnTarget(t) \/ ConfirmTarget(t)
    BY <1>a, <1>3, <2>8 DEF SpawnTarget, SpawnController, ConfirmTarget, ConfirmController
  <2>9. CASE RollbackStop(t)
    BY <1>a, <1>3, <2>9 DEF RollbackStop
  <2>10. CASE RestoreSource(t) \/ RespawnSource(t) \/ ConfirmSource(t)
    BY <1>a, <1>3, <2>10 DEF RestoreSource, RespawnSource, ConfirmSource
  <2>11. CASE Deregister(t)
    BY <1>a, <1>3, <2>11 DEF Deregister
  <2>12. QED
    BY <1>1, <1>3, <2>1, <2>2, <2>3, <2>4, <2>5, <2>6, <2>7, <2>8, <2>9, <2>10, <2>11
    DEF WorkerStep
<1>4. ASSUME NEW t \in Transitions, DrainStep(t), mode' = mode
      PROVE  ModeInv'
  BY <1>a, <1>4 DEF DrainStep, Quiesced, QuiesceFails
<1>5. CASE CancelStep /\ mode' = mode
  BY <1>a, <1>5 DEF CancelStep, CancelRead, CancelCas, CancelSignal, RequestsOK
<1>6. CASE (KillStep \/ RelaunchStep \/ WorldStep) /\ mode' = mode
  <2>1. UNCHANGED <<phase, source, pc>>
    BY <1>6 DEF KillStep, KillCheck, KillRead, KillStop, KillMark,
      RelaunchStep, RelaunchCheck, RelaunchRead, RelaunchOpen, RelaunchSpawn,
      RelaunchConfirm, WorldStep, PaneExits, ChatExits, ExitReported, Reap
  <2>2. QED
    BY <1>6, <2>1
<1>7. CASE Crash /\ mode' = mode
  BY <1>a, <1>7 DEF Crash
<1>8. CASE BootRecover /\ mode' = mode
  BY <1>a, <1>8 DEF BootRecover
<1>9. CASE BootStep /\ ~BootRecover /\ mode' = mode
  <2>1. UNCHANGED <<phase, source, pc>>
    BY <1>9 DEF BootStep, BootLive, BootReap, BootRestore, BootSpawn, BootConfirm
  <2>2. QED
    BY <1>9, <2>1
<1>10. CASE UNCHANGED vars
  BY <1>10
<1>11. QED
  BY <1>b, <1>1, <1>2, <1>3, <1>4, <1>5, <1>6, <1>7, <1>8, <1>9, <1>10 DEF Next

\* Every step keeps the verdicts given and gives only true ones.
LEMMA VerdictStep ==
  TypeOK /\ RowsInv /\ SourceInv /\ ModeInv /\ [Next]_vars
    => KeepsVerdicts /\ TellsTheMode
<1> SUFFICES ASSUME TypeOK, RowsInv, SourceInv, ModeInv, [Next]_vars
             PROVE  KeepsVerdicts /\ TellsTheMode
  OBVIOUS
<1>a. WorkersOK /\ RequestsOK
  BY DEF TypeOK
<1> USE DEF KeepsVerdicts, TellsTheMode, WorkersOK
<1>1. ASSUME NEW t \in Transitions, StartStep(t) \/ DrainStep(t)
      PROVE  KeepsVerdicts /\ TellsTheMode
  BY <1>a, <1>1 DEF StartStep, StartRead, StartCreate, Register, DrainStep, Quiesced,
    QuiesceFails, RowsInv
<1>2. ASSUME NEW t \in Transitions, WorkerStep(t)
      PROVE  KeepsVerdicts /\ TellsTheMode
  <2>1. CASE EnterPreflighting(t) \/ EnterDraining(t) \/ EnterStopping(t)
    BY <1>a, <2>1 DEF EnterPreflighting, EnterDraining, EnterStopping, Moves, MoveFails
  <2>2. CASE FinishUnstopped(t)
    BY <1>a, <2>2 DEF FinishUnstopped, Moves, MoveFails, ModeInv, SourceInv, DrainsTheOwner
  <2>3. CASE EnterStopped(t) \/ EnterStarting(t) \/ EnterActivating(t) \/ StopUncertain(t)
    BY <1>a, <2>3 DEF EnterStopped, EnterStarting, EnterActivating, StopUncertain, Moves,
      MoveFails
  <2>4. CASE Complete(t)
    BY <1>a, <2>4 DEF Complete, Moves, MoveFails, ModeInv, AtTarget, Committing
  <2>5. CASE FinishRollback(t)
    BY <1>a, <2>5 DEF FinishRollback, Moves, MoveFails, ModeInv, AtSource
  <2>6. CASE UNCHANGED phase
    BY <2>6
  <2>7. QED
    BY <1>2, <2>1, <2>2, <2>3, <2>4, <2>5, <2>6
    DEF WorkerStep, CheckSource, BeginHandoff, StopSource, CommitEpoch, OpenTarget,
      OpenController, SpawnTarget, SpawnController, ConfirmTarget, ConfirmController,
      RollbackStop, RollbackCommit, RestoreSource, RespawnSource, ConfirmSource, Deregister
<1>3. CASE CancelStep
  BY <1>a, <1>3 DEF CancelStep, CancelRead, CancelCas, CancelSignal, RequestsOK
<1>4. CASE BootRecover
  BY <1>a, <1>4 DEF BootRecover
<1>5. CASE KillStep \/ RelaunchStep \/ WorldStep \/ Crash \/ (BootStep /\ ~BootRecover)
  <2>1. UNCHANGED phase
    BY <1>5 DEF KillStep, KillCheck, KillRead, KillStop, KillMark,
      RelaunchStep, RelaunchCheck, RelaunchRead, RelaunchOpen, RelaunchSpawn,
      RelaunchConfirm, WorldStep, PaneExits, ChatExits, ExitReported, Reap, Crash,
      BootStep, BootLive, BootReap, BootRestore, BootSpawn, BootConfirm
  <2>2. QED
    BY <2>1
<1>6. CASE UNCHANGED vars
  BY <1>6
<1>7. QED
  BY <1>1, <1>2, <1>3, <1>4, <1>5, <1>6 DEF Next

\* Worker, cancel and boot race for a row, and exactly one verdict stands.
THEOREM VerdictsStand == Spec => TerminalIsFinal
BY TypeInit, TypeStep, RowsInit, RowsStep, SourceInit, SourceStep, ModeInit, ModeStep,
   VerdictStep, PTL DEF Spec, TerminalIsFinal

\* The verdict agrees with the mode the session row names.
THEOREM VerdictsAreTrue == Spec => VerdictMatchesMode
BY TypeInit, TypeStep, RowsInit, RowsStep, SourceInit, SourceStep, ModeInit, ModeStep,
   VerdictStep, PTL DEF Spec, VerdictMatchesMode

-----------------------------------------------------------------------------
(* The chat intake                                                         *)

\* Only the worker of a chat source closes the gate, and its row is source_stopping
\* when its stop turns out uncertain.
GateInv ==
  /\ ClosedIntakeHasOwner
  /\ \A t \in Transitions : closedBy = t => source[t] = "chat"
  /\ \A t \in Transitions : pc[t] = "stopping" => phase[t] = "source_stopping"

\* Init has an open intake.
LEMMA GateInit == Init => GateInv
BY DEF Init, GateInv, ClosedIntakeHasOwner

\* Every step keeps GateInv: whoever leaves the three steps that own
\* the gate opens it, or leaves an uncertain stop.
LEMMA GateStep ==
  TypeOK /\ RowsInv /\ GateInv /\ [Next]_vars => GateInv'
<1> SUFFICES ASSUME TypeOK, RowsInv, GateInv, [Next]_vars
             PROVE  GateInv'
  OBVIOUS
<1>a. WorkersOK /\ RequestsOK /\ closedBy \in Transitions \cup {NoTransition}
  BY DEF TypeOK, ControllersOK
<1> USE DEF GateInv, ClosedIntakeHasOwner, WorkersOK
<1>1. ASSUME NEW t \in Transitions, StartStep(t) \/ DrainStep(t)
      PROVE  GateInv'
  BY <1>a, <1>1 DEF StartStep, StartRead, StartCreate, Register, DrainStep, Quiesced,
    QuiesceFails, RowsInv
<1>2. ASSUME NEW t \in Transitions, WorkerStep(t)
      PROVE  GateInv'
  <2>1. CASE EnterPreflighting(t) \/ EnterDraining(t) \/ FinishUnstopped(t)
    BY <1>a, <2>1 DEF EnterPreflighting, EnterDraining, FinishUnstopped, Moves, MoveFails
  <2>2. CASE EnterStopping(t)
    BY <1>a, <2>2 DEF EnterStopping, Moves, MoveFails
  <2>3. CASE StopUncertain(t)
    BY <1>a, <2>3 DEF StopUncertain, Moves, MoveFails
  <2>4. CASE StopSource(t)
    BY <1>a, <2>4 DEF StopSource, StopController
  <2>5. CASE EnterStopped(t) \/ EnterStarting(t) \/ EnterActivating(t)
    BY <1>a, <2>5 DEF EnterStopped, EnterStarting, EnterActivating, Moves, MoveFails
  <2>6. CASE Complete(t) \/ FinishRollback(t)
    BY <1>a, <2>6 DEF Complete, FinishRollback, Moves, MoveFails
  <2>7. CASE CheckSource(t) \/ BeginHandoff(t) \/ CommitEpoch(t)
    BY <1>a, <2>7 DEF CheckSource, BeginHandoff, CommitEpoch
  <2>8. CASE OpenTarget(t) \/ SpawnTarget(t) \/ ConfirmTarget(t)
    BY <1>a, <2>8 DEF OpenTarget, OpenController, Opens, SpawnTarget, SpawnController,
      Spawned, Discards, ConfirmTarget, ConfirmController, PromptFails
  <2>9. CASE RollbackStop(t) \/ RollbackCommit(t)
    BY <1>a, <2>9 DEF RollbackStop, StopController, RollbackCommit
  <2>10. CASE RestoreSource(t) \/ RespawnSource(t) \/ ConfirmSource(t)
    BY <1>a, <2>10 DEF RestoreSource, Opens, RespawnSource, Spawned, Discards,
      ConfirmSource, PromptFails
  <2>11. CASE Deregister(t)
    BY <1>a, <2>11 DEF Deregister
  <2>12. QED
    BY <1>2, <2>1, <2>2, <2>3, <2>4, <2>5, <2>6, <2>7, <2>8, <2>9, <2>10, <2>11
    DEF WorkerStep
<1>3. CASE CancelStep
  BY <1>a, <1>3 DEF CancelStep, CancelRead, CancelCas, CancelSignal, RequestsOK
<1>4. CASE KillStep \/ RelaunchStep \/ WorldStep
  <2>1. UNCHANGED <<phase, source, pc>>
    BY <1>4 DEF KillStep, KillCheck, KillRead, KillStop, KillMark,
      RelaunchStep, RelaunchCheck, RelaunchRead, RelaunchOpen, RelaunchSpawn,
      RelaunchConfirm, WorldStep, PaneExits, ChatExits, ExitReported, Reap
  <2>2. closedBy' \in {closedBy, NoTransition}
    BY <1>4 DEF KillStep, KillCheck, KillRead, KillStop, KillMark, StopController,
      RelaunchStep, RelaunchCheck, RelaunchRead, RelaunchOpen, RelaunchSpawn, Opens,
      Spawned, Discards, RelaunchConfirm, PromptFails,
      WorldStep, PaneExits, ChatExits, ExitReported, Reap
  <2>3. QED
    BY <2>1, <2>2
<1>5. CASE Crash
  BY <1>5 DEF Crash
<1>6. CASE BootStep
  <2>1. UNCHANGED <<source, pc>> /\ daemon # "up"
    BY <1>6 DEF BootStep, BootRecover, BootLive, BootReap, BootRestore, BootSpawn, BootConfirm
  <2>2. closedBy' \in {closedBy, NoTransition}
    BY <1>6 DEF BootStep, BootRecover, BootLive, BootReap, BootRestore, Opens, BootSpawn,
      Spawned, Discards, BootConfirm, PromptFails
  <2>3. \A t \in Transitions : phase'[t] = phase[t] \/ phase'[t] = "recovery_required"
    BY <1>a, <1>6 DEF BootStep, BootRecover, BootLive, BootReap, BootRestore, BootSpawn,
      BootConfirm
  <2>4. QED
    BY <2>1, <2>2, <2>3 DEF RowsInv
<1>7. CASE UNCHANGED vars
  BY <1>7
<1>8. QED
  BY <1>1, <1>2, <1>3, <1>4, <1>5, <1>6, <1>7 DEF Next

\* The chat intake is never left closed by nobody.
THEOREM IntakeIsOwned == Spec => []ClosedIntakeHasOwner
<1>1. GateInv => ClosedIntakeHasOwner
  BY DEF GateInv
<1>2. QED
  BY <1>1, TypeInit, TypeStep, RowsInit, RowsStep, GateInit, GateStep, PTL DEF Spec

-----------------------------------------------------------------------------
(* Signals                                                                 *)

\* A context is cancelled only after its row ended, and a run that is registered
\* has a row.
SignalInv ==
  /\ SignalledIsEnded
  /\ cancel.pc # "signal"
  /\ \A t \in Transitions : pc[t] = "created" \/ run = t => phase[t] # "none"

\* Init has no run and no signal.
LEMMA SignalInit == Init => SignalInv
BY DEF Init, SignalInv, SignalledIsEnded

\* A row, once created, stays.
LEMMA RowsStay ==
  ASSUME TypeOK, [Next]_vars, NEW u \in Transitions, phase[u] # "none"
  PROVE  phase'[u] # "none"
<1>a. WorkersOK
  BY DEF TypeOK
<1> USE DEF WorkersOK
<1>1. ASSUME NEW t \in Transitions, StartStep(t) \/ DrainStep(t)
      PROVE  phase'[u] # "none"
  BY <1>a, <1>1 DEF StartStep, StartRead, StartCreate, Register, DrainStep, Quiesced,
    QuiesceFails
<1>2. ASSUME NEW t \in Transitions, WorkerStep(t)
      PROVE  phase'[u] # "none"
  BY <1>a, <1>2 DEF WorkerStep, Moves, MoveFails, EnterPreflighting, CheckSource,
    EnterDraining, BeginHandoff, EnterStopping, FinishUnstopped, StopSource, StopUncertain,
    EnterStopped, CommitEpoch, EnterStarting, OpenTarget, OpenController, SpawnTarget,
    SpawnController, ConfirmTarget, ConfirmController, EnterActivating, Complete,
    RollbackStop, RollbackCommit, RestoreSource, RespawnSource, ConfirmSource,
    FinishRollback, Deregister
<1>3. CASE CancelStep \/ Crash
  BY <1>a, <1>3 DEF CancelStep, CancelRead, CancelCas, CancelSignal, Crash
<1>4. CASE KillStep \/ RelaunchStep \/ WorldStep
  BY <1>4 DEF KillStep, KillCheck, KillRead, KillStop, KillMark, RelaunchStep,
    RelaunchCheck, RelaunchRead, RelaunchOpen, RelaunchSpawn, RelaunchConfirm,
    WorldStep, PaneExits, ChatExits, ExitReported, Reap
<1>5. CASE BootStep
  BY <1>a, <1>5 DEF BootStep, BootRecover, BootLive, BootReap, BootRestore, BootSpawn,
    BootConfirm
<1>6. CASE UNCHANGED vars
  BY <1>6
<1>7. QED
  BY <1>1, <1>2, <1>3, <1>4, <1>5, <1>6 DEF Next

\* When the signal follows its CAS without delay, every step keeps SignalInv: the
\* registered run is the cancelled one, or it has a row and that row has ended,
\* because two rows are never active.
LEMMA SignalStep ==
  ASSUME "slow_cancel" \notin Env
  PROVE  TypeOK /\ RowsInv /\ SourceInv /\ ModeInv /\ SignalInv /\ [Next]_vars => SignalInv'
<1> SUFFICES ASSUME TypeOK, RowsInv, SourceInv, ModeInv, SignalInv, [Next]_vars
             PROVE  SignalInv'
  OBVIOUS
<1>a. WorkersOK /\ RequestsOK
  BY DEF TypeOK
<1>b. KeepsVerdicts
  BY VerdictStep
<1>c. \A t \in Transitions : phase[t] # "none" => phase'[t] # "none"
  BY RowsStay
<1> USE DEF SignalInv, SignalledIsEnded, WorkersOK
<1>1. ASSUME UNCHANGED <<signalled, run, cancel>>,
             \A t \in Transitions : pc'[t] = "created" => phase'[t] # "none"
      PROVE  SignalInv'
  <2>1. \A t \in signalled : t \in Transitions /\ phase'[t] \in Terminal
    BY <1>a, <1>b DEF KeepsVerdicts
  <2>2. QED
    BY <1>1, <1>c, <2>1
<1>2. ASSUME NEW t \in Transitions, StartStep(t)
      PROVE  SignalInv'
  <2>1. CASE StartRead(t)
    BY <1>a, <1>1, <2>1 DEF StartRead
  <2>2. CASE StartCreate(t)
    BY <1>a, <1>1, <1>c, <2>2 DEF StartCreate
  <2>3. CASE Register(t)
    BY <1>a, <2>3 DEF Register
  <2>4. QED
    BY <1>2, <2>1, <2>2, <2>3 DEF StartStep
<1>3. ASSUME NEW t \in Transitions, WorkerStep(t) \/ DrainStep(t), ~Deregister(t)
      PROVE  SignalInv'
  <2>1. UNCHANGED <<signalled, run, cancel>>
    BY <1>3 DEF WorkerStep, DrainStep, Moves, MoveFails, EnterPreflighting, CheckSource,
      EnterDraining, BeginHandoff, Quiesced, QuiesceFails, EnterStopping, FinishUnstopped,
      StopSource, StopUncertain, EnterStopped, CommitEpoch, EnterStarting, OpenTarget,
      OpenController, SpawnTarget, SpawnController, ConfirmTarget, ConfirmController,
      EnterActivating, Complete, RollbackStop, RollbackCommit, RestoreSource,
      RespawnSource, ConfirmSource, FinishRollback
  <2>2. \A u \in Transitions : pc'[u] = "created" => pc[u] = "created"
    BY <1>a, <1>3 DEF WorkerStep, DrainStep, Moves, MoveFails, EnterPreflighting, CheckSource,
      EnterDraining, BeginHandoff, Quiesced, QuiesceFails, EnterStopping, FinishUnstopped,
      StopSource, StopUncertain, EnterStopped, CommitEpoch, EnterStarting, OpenTarget,
      OpenController, SpawnTarget, SpawnController, ConfirmTarget, ConfirmController,
      EnterActivating, Complete, RollbackStop, RollbackCommit, RestoreSource,
      RespawnSource, ConfirmSource, FinishRollback
  <2>3. QED
    BY <1>1, <1>c, <2>1, <2>2
<1>4. ASSUME NEW t \in Transitions, Deregister(t)
      PROVE  SignalInv'
  BY <1>a, <1>4, NoTransitionAssumption DEF Deregister
<1>5. CASE CancelCas
  <2>1. CASE phase[cancel.t] # cancel.seen
    BY <1>a, <1>5, <2>1 DEF CancelCas
  <2>2. CASE phase[cancel.t] = cancel.seen
    <3>1. /\ cancel.t \in Transitions /\ phase[cancel.t] \in Cancellable
          /\ phase' = [phase EXCEPT ![cancel.t] = "cancelled"]
          /\ signalled' = Signals /\ UNCHANGED <<run, pc>> /\ cancel'.pc = "idle"
      BY <1>a, <1>5, <2>2 DEF CancelCas, RequestsOK
    <3>2. ASSUME NEW u \in signalled'
          PROVE  u \in Transitions /\ phase'[u] \in Terminal
      <4>1. CASE u \in signalled
        BY <1>a, <1>b, <4>1 DEF KeepsVerdicts
      <4>2. CASE u = run /\ run \in Transitions
        BY <1>a, <3>1, <4>2 DEF RowsInv
      <4>3. QED
        BY <1>a, <3>1, <3>2, <4>1, <4>2 DEF Signals
    <3>3. QED
      BY <1>a, <1>c, <3>1, <3>2
  <2>3. QED
    BY <2>1, <2>2
<1>6. CASE \E t \in Transitions : CancelRead(t)
  BY <1>a, <1>6 DEF CancelRead
<1>7. CASE Crash
  BY <1>a, <1>7, NoTransitionAssumption DEF Crash
<1>8. CASE KillStep \/ RelaunchStep \/ WorldStep \/ BootStep
  <2>1. UNCHANGED <<signalled, run, cancel, pc>>
    BY <1>8 DEF KillStep, KillCheck, KillRead, KillStop, KillMark, RelaunchStep,
      RelaunchCheck, RelaunchRead, RelaunchOpen, RelaunchSpawn, RelaunchConfirm,
      WorldStep, PaneExits, ChatExits, ExitReported, Reap,
      BootStep, BootRecover, BootLive, BootReap, BootRestore, BootSpawn, BootConfirm
  <2>2. QED
    BY <1>1, <1>c, <2>1
<1>9. CASE UNCHANGED vars
  BY <1>9
<1>10. QED
  BY <1>2, <1>3, <1>4, <1>5, <1>6, <1>7, <1>8, <1>9 DEF Next, CancelStep, CancelSignal

\* A signal sent, or about to be sent, has a cancelled row behind it.
BackedInv ==
  /\ SignalFollowsVerdict
  /\ cancel.pc = "signal" => cancel.t \in Transitions /\ phase[cancel.t] = "cancelled"

\* Only a compare-and-swap that won leads to a signal, and no verdict is taken back.
LEMMA BackedStep ==
  TypeOK /\ RowsInv /\ SourceInv /\ ModeInv /\ BackedInv /\ [Next]_vars => BackedInv'
<1> SUFFICES ASSUME TypeOK, RowsInv, SourceInv, ModeInv, BackedInv, [Next]_vars
             PROVE  BackedInv'
  OBVIOUS
<1>a. WorkersOK /\ RequestsOK
  BY DEF TypeOK
<1>b. \A u \in Transitions : phase[u] = "cancelled" => phase'[u] = "cancelled"
  BY VerdictStep DEF KeepsVerdicts, Terminal
<1> USE DEF BackedInv, SignalFollowsVerdict, WorkersOK
<1>1. ASSUME UNCHANGED <<signalled, cancel>>
      PROVE  BackedInv'
  BY <1>1, <1>b
<1>2. ASSUME NEW t \in Transitions, StartStep(t) \/ WorkerStep(t) \/ DrainStep(t)
      PROVE  UNCHANGED <<signalled, cancel>>
  BY <1>2 DEF StartStep, StartRead, StartCreate, Register, WorkerStep, DrainStep, Moves,
    MoveFails, EnterPreflighting, CheckSource, EnterDraining, BeginHandoff, Quiesced,
    QuiesceFails, EnterStopping, FinishUnstopped, StopSource, StopUncertain, EnterStopped,
    CommitEpoch, EnterStarting, OpenTarget, OpenController, SpawnTarget, SpawnController,
    ConfirmTarget, ConfirmController, EnterActivating, Complete, RollbackStop,
    RollbackCommit, RestoreSource, RespawnSource, ConfirmSource, FinishRollback, Deregister
<1>3. CASE CancelCas
  <2>1. CASE phase[cancel.t] # cancel.seen
    BY <1>a, <1>b, <1>3, <2>1 DEF CancelCas, IdleCancel
  <2>2. CASE phase[cancel.t] = cancel.seen
    <3>1. cancel.t \in Transitions
      BY <1>a, <1>3 DEF CancelCas, RequestsOK
    <3>2. phase'[cancel.t] = "cancelled"
      BY <1>a, <1>3, <2>2, <3>1 DEF CancelCas
    <3>3. cancel'.pc = "signal" => cancel'.t = cancel.t
      BY <1>a, <1>3, <2>2 DEF CancelCas, RequestsOK, IdleCancel
    <3>4. QED
      BY <3>1, <3>2, <3>3
  <2>3. QED
    BY <2>1, <2>2
<1>4. CASE CancelSignal
  <2>1. cancel.t \in Transitions /\ phase[cancel.t] = "cancelled"
    BY <1>4 DEF CancelSignal
  <2>2. cancel'.pc = "idle"
    BY <1>4 DEF CancelSignal, IdleCancel
  <2>3. QED
    BY <1>b, <2>1, <2>2
<1>5. CASE \E t \in Transitions : CancelRead(t)
  BY <1>b, <1>5 DEF CancelRead
<1>6. CASE Crash
  BY <1>6 DEF Crash, IdleCancel
<1>7. CASE KillStep \/ RelaunchStep \/ WorldStep \/ BootStep
  <2>1. UNCHANGED <<signalled, cancel>>
    BY <1>7 DEF KillStep, KillCheck, KillRead, KillStop, KillMark, RelaunchStep,
      RelaunchCheck, RelaunchRead, RelaunchOpen, RelaunchSpawn, RelaunchConfirm,
      WorldStep, PaneExits, ChatExits, ExitReported, Reap,
      BootStep, BootRecover, BootLive, BootReap, BootRestore, BootSpawn, BootConfirm
  <2>2. QED
    BY <1>1, <2>1
<1>8. CASE UNCHANGED vars
  BY <1>1, <1>8 DEF vars, workers
<1>9. QED
  BY <1>1, <1>2, <1>3, <1>4, <1>5, <1>6, <1>7, <1>8 DEF Next, CancelStep

\* Nobody is signalled before a cancellation has won durably, however many requests run
\* between a cancel's compare-and-swap and its signal, and whatever fails.
THEOREM SignalsFollowVerdicts == Spec => []SignalFollowsVerdict
<1>1. Init => BackedInv
  BY DEF Init, BackedInv, SignalFollowsVerdict, IdleCancel
<1>2. BackedInv => SignalFollowsVerdict
  BY DEF BackedInv
<1>3. QED
  BY <1>1, <1>2, TypeInit, TypeStep, RowsInit, RowsStep, SourceInit, SourceStep, ModeInit,
     ModeStep, BackedStep, PTL DEF Spec

-----------------------------------------------------------------------------
(* Whom a cancel reaches                                                   *)

\* No request is cancelled between the insert of its row and the publication of its run.
PublishedInTime == \A t \in Transitions : pc[t] = "created" => phase[t] \in Active

\* The worker of a cancelled row is told.
CancelledIsTold ==
  \A t \in Transitions : phase[t] = "cancelled" /\ pc[t] \in Preparing \cup Driving => t \in signalled

\* m.transitions names the worker of the active row.
RunIsOwner ==
  \A t \in Transitions : phase[t] \in Active /\ pc[t] \in Preparing \cup Driving => run = t

\* A step of one transition that publishes, signals and cancels nobody.
LEMMA ToldMoves ==
  ASSUME CancelledIsTold, RunIsOwner, NEW t \in Transitions, UNCHANGED <<signalled, run>>,
         \A u \in Transitions : u # t => phase'[u] = phase[u] /\ pc'[u] = pc[u],
         phase'[t] \in Active /\ pc'[t] \in Preparing \cup Driving
           => phase[t] \in Active /\ pc[t] \in Preparing \cup Driving,
         phase'[t] = "cancelled" /\ pc'[t] \in Preparing \cup Driving
           => phase[t] = "cancelled" /\ pc[t] \in Preparing \cup Driving
  PROVE  CancelledIsTold' /\ RunIsOwner'
BY DEF CancelledIsTold, RunIsOwner

\* While runs are published in time, the entry of m.transitions stays the active row's,
\* and a cancel finds the worker it ends.
LEMMA ToldStep ==
  ASSUME "slow_cancel" \notin Env
  PROVE  TypeOK /\ RowsInv /\ PublishedInTime /\ PublishedInTime' /\ CancelledIsTold /\ RunIsOwner
           /\ [Next]_vars => CancelledIsTold' /\ RunIsOwner'
<1> SUFFICES ASSUME TypeOK, RowsInv, PublishedInTime, PublishedInTime', CancelledIsTold,
                    RunIsOwner, [Next]_vars
             PROVE  CancelledIsTold' /\ RunIsOwner'
  OBVIOUS
<1>a. WorkersOK /\ RequestsOK
  BY DEF TypeOK
<1>1. ASSUME NEW t \in Transitions, StartRead(t) \/ StartCreate(t)
      PROVE  CancelledIsTold' /\ RunIsOwner'
  <2>1. /\ UNCHANGED <<signalled, run>> /\ pc'[t] \in {"reading", "created", "done"}
        /\ \A u \in Transitions : u # t => phase'[u] = phase[u] /\ pc'[u] = pc[u]
    BY <1>a, <1>1 DEF StartRead, StartCreate, WorkersOK
  <2>2. QED
    BY <2>1, ToldMoves
<1>2. ASSUME NEW t \in Transitions, Register(t)
      PROVE  CancelledIsTold' /\ RunIsOwner'
  <2>1. /\ phase[t] \in Active /\ phase' = phase /\ run' = t /\ signalled' = signalled
        /\ \A u \in Transitions : u # t => pc'[u] = pc[u]
    BY <1>a, <1>2 DEF Register, PublishedInTime, WorkersOK
  <2>2. \A u \in Transitions : phase'[u] \in Active => u = t
    BY <2>1 DEF RowsInv
  <2>3. QED
    BY <2>1, <2>2 DEF CancelledIsTold, RunIsOwner
<1>3. ASSUME NEW t \in Transitions, WorkerStep(t) \/ DrainStep(t), ~Deregister(t)
      PROVE  CancelledIsTold' /\ RunIsOwner'
  <2> USE DEF WorkersOK
  <2>1. /\ UNCHANGED <<signalled, run>>
        /\ \E step : pc' = [pc EXCEPT ![t] = step]
        /\ phase' = phase \/ \E p : phase' = [phase EXCEPT ![t] = p]
        /\ pc[t] \in Preparing \cup Driving
    BY <1>3 DEF WorkerStep, DrainStep, Moves, MoveFails, EnterPreflighting, CheckSource,
      EnterDraining, BeginHandoff, Quiesced, QuiesceFails, EnterStopping, FinishUnstopped,
      StopSource, StopUncertain, EnterStopped, CommitEpoch, EnterStarting, OpenTarget,
      OpenController, SpawnTarget, SpawnController, ConfirmTarget, ConfirmController,
      EnterActivating, Complete, RollbackStop, RollbackCommit, RestoreSource,
      RespawnSource, ConfirmSource, FinishRollback
  <2>2. \A u \in Transitions : u # t => phase'[u] = phase[u] /\ pc'[u] = pc[u]
    BY <1>a, <2>1
  <2>3. /\ phase'[t] \in Active => phase[t] \in Active
        /\ phase'[t] = "cancelled" /\ pc'[t] # "ended" => phase[t] = "cancelled"
    BY <1>a, <1>3 DEF WorkerStep, DrainStep, Moves, MoveFails, EnterPreflighting, CheckSource,
      EnterDraining, BeginHandoff, Quiesced, QuiesceFails, EnterStopping, FinishUnstopped,
      StopSource, StopUncertain, EnterStopped, CommitEpoch, EnterStarting, OpenTarget,
      OpenController, SpawnTarget, SpawnController, ConfirmTarget, ConfirmController,
      EnterActivating, Complete, RollbackStop, RollbackCommit, RestoreSource,
      RespawnSource, ConfirmSource, FinishRollback
  <2>4. QED
    BY <2>1, <2>2, <2>3, ToldMoves
<1>4. ASSUME NEW t \in Transitions, Deregister(t)
      PROVE  CancelledIsTold' /\ RunIsOwner'
  BY <1>a, <1>4 DEF Deregister, CancelledIsTold, RunIsOwner, WorkersOK
<1>5. CASE CancelCas
  <2>1. CASE phase[cancel.t] # cancel.seen
    BY <1>5, <2>1 DEF CancelCas, CancelledIsTold, RunIsOwner
  <2>2. CASE phase[cancel.t] = cancel.seen
    <3>1. /\ cancel.t \in Transitions /\ phase[cancel.t] \in Cancellable
          /\ phase' = [phase EXCEPT ![cancel.t] = "cancelled"]
          /\ signalled' = Signals /\ UNCHANGED <<run, pc>>
      BY <1>a, <1>5, <2>2 DEF CancelCas, RequestsOK
    <3>2. ASSUME pc[cancel.t] \in Preparing \cup Driving
          PROVE  cancel.t \in signalled'
      BY <3>1, <3>2, NoTransitionAssumption DEF RunIsOwner, Signals
    <3>3. signalled \subseteq signalled'
      BY <3>1 DEF Signals
    <3>4. QED
      BY <1>a, <3>1, <3>2, <3>3 DEF CancelledIsTold, RunIsOwner, WorkersOK
  <2>3. QED
    BY <2>1, <2>2
<1>6. CASE (\E t \in Transitions : CancelRead(t)) \/ CancelSignal
  BY <1>a, <1>6 DEF CancelRead, CancelSignal, CancelledIsTold, RunIsOwner, Signals, WorkersOK
<1>7. CASE Crash
  BY <1>a, <1>7 DEF Crash, CancelledIsTold, RunIsOwner, WorkersOK
<1>8. CASE KillStep \/ RelaunchStep \/ WorldStep
  <2>1. UNCHANGED <<phase, pc, signalled, run>>
    BY <1>8 DEF KillStep, KillCheck, KillRead, KillStop, KillMark,
      RelaunchStep, RelaunchCheck, RelaunchRead, RelaunchOpen, RelaunchSpawn,
      RelaunchConfirm, WorldStep, PaneExits, ChatExits, ExitReported, Reap
  <2>2. QED
    BY <2>1 DEF CancelledIsTold, RunIsOwner
<1>9. CASE BootStep
  <2>1. /\ UNCHANGED <<pc, signalled, run>> /\ daemon # "up"
    BY <1>9 DEF BootStep, BootRecover, BootLive, BootReap, BootRestore, BootSpawn, BootConfirm
  <2>2. \A t \in Transitions : pc[t] \in {"idle", "done"}
    BY <2>1 DEF RowsInv
  <2>3. QED
    BY <2>1, <2>2 DEF CancelledIsTold, RunIsOwner
<1>10. CASE UNCHANGED vars
  BY <1>10 DEF CancelledIsTold, RunIsOwner
<1>11. QED
  BY <1>1, <1>2, <1>3, <1>4, <1>5, <1>6, <1>7, <1>8, <1>9, <1>10
  DEF Next, StartStep, CancelStep

\* A cancel whose signal follows its compare-and-swap reaches the worker of the row it
\* ended, over crashes, failing writes and overlapping requests, as long as nobody
\* cancels a request that has not published its run yet: that window between the insert
\* and m.transitions, which CancelledWorkerEnds falls into, is the only one there is.
THEOREM CancelReachesWorker ==
  ASSUME "slow_cancel" \notin Env
  PROVE  Spec /\ []PublishedInTime => []CancelledIsTold
<1>1. Init => CancelledIsTold /\ RunIsOwner
  BY DEF Init, CancelledIsTold, RunIsOwner
<1>2. QED
  BY <1>1, TypeInit, TypeStep, RowsInit, RowsStep, ToldStep, PTL DEF Spec

-----------------------------------------------------------------------------
(* One writer, where no discarded error and no unfenced launch interferes  *)

\* A worker that drains a terminal source has its handle (BeginHandoff fails without).
SnapInv ==
  \A t \in Transitions :
    pc[t] \in {"quiescing", "prepared", "stopping"} /\ source[t] = "tui" => snapHandle[t]

\* Init has no worker.
LEMMA SnapInit == Init => SnapInv
BY DEF Init, SnapInv

\* The snapshot is taken before those steps and never again.
LEMMA SnapStep == TypeOK /\ SnapInv /\ [Next]_vars => SnapInv'
<1> SUFFICES ASSUME TypeOK, SnapInv, [Next]_vars
             PROVE  SnapInv'
  OBVIOUS
<1>a. WorkersOK
  BY DEF TypeOK
<1> USE DEF SnapInv, WorkersOK
<1>1. ASSUME NEW t \in Transitions, StartStep(t) \/ DrainStep(t)
      PROVE  SnapInv'
  BY <1>a, <1>1 DEF StartStep, StartRead, StartCreate, Register, DrainStep, Quiesced,
    QuiesceFails
<1>2. ASSUME NEW t \in Transitions, WorkerStep(t)
      PROVE  SnapInv'
  <2>1. CASE EnterPreflighting(t) \/ CheckSource(t) \/ EnterDraining(t)
    BY <1>a, <2>1 DEF EnterPreflighting, CheckSource, EnterDraining, Moves, MoveFails
  <2>2. CASE BeginHandoff(t)
    BY <1>a, <2>2 DEF BeginHandoff
  <2>3. CASE EnterStopping(t) \/ FinishUnstopped(t) \/ StopUncertain(t)
    BY <1>a, <2>3 DEF EnterStopping, FinishUnstopped, StopUncertain, Moves, MoveFails
  <2>4. CASE EnterStopped(t) \/ EnterStarting(t) \/ EnterActivating(t)
    BY <1>a, <2>4 DEF EnterStopped, EnterStarting, EnterActivating, Moves, MoveFails
  <2>5. CASE Complete(t) \/ FinishRollback(t)
    BY <1>a, <2>5 DEF Complete, FinishRollback, Moves, MoveFails
  <2>6. CASE StopSource(t) \/ CommitEpoch(t) \/ OpenTarget(t) \/ SpawnTarget(t) \/ ConfirmTarget(t)
    BY <1>a, <2>6 DEF StopSource, CommitEpoch, OpenTarget, OpenController, SpawnTarget,
      SpawnController, ConfirmTarget, ConfirmController
  <2>7. CASE \/ RollbackStop(t) \/ RollbackCommit(t) \/ RestoreSource(t)
             \/ RespawnSource(t) \/ ConfirmSource(t) \/ Deregister(t)
    BY <1>a, <2>7 DEF RollbackStop, RollbackCommit, RestoreSource, RespawnSource,
      ConfirmSource, Deregister
  <2>8. QED
    BY <1>2, <2>1, <2>2, <2>3, <2>4, <2>5, <2>6, <2>7 DEF WorkerStep
<1>3. CASE Crash
  BY <1>a, <1>3 DEF Crash
<1>4. CASE CancelStep \/ KillStep \/ RelaunchStep \/ WorldStep \/ BootStep
  <2>1. UNCHANGED <<pc, source, snapHandle>>
    BY <1>4 DEF CancelStep, CancelRead, CancelCas, CancelSignal,
      KillStep, KillCheck, KillRead, KillStop, KillMark, RelaunchStep,
      RelaunchCheck, RelaunchRead, RelaunchOpen, RelaunchSpawn, RelaunchConfirm,
      WorldStep, PaneExits, ChatExits, ExitReported, Reap,
      BootStep, BootRecover, BootLive, BootReap, BootRestore, BootSpawn, BootConfirm
  <2>2. QED
    BY <2>1
<1>5. CASE UNCHANGED vars
  BY <1>5
<1>6. QED
  BY <1>1, <1>2, <1>3, <1>4, <1>5 DEF Next

\* The environment the next theorems assume.
QuietEnv == Env \subseteq {"store_fails", "kill"}

\* The steps at which no controller is live.
Between == {"stopped", "committing", "committed", "launching", "rbcommit"}

\* What is live, and what the row records of it, when the worker relies on it.
WriterInv ==
  /\ relaunch = IdleRelaunch /\ ~orphan
  /\ OneWriter
  /\ \A t \in Transitions : pc[t] \in Between => Writers = {}
  /\ \A t \in Transitions :
       pc[t] \in {"spawned", "rbstop"} /\ pane = "agent" => handle

\* Init has at most the controller of the mode it starts in.
LEMMA WriterInit == Init => WriterInv
BY DEF Init, WriterInv, OneWriter, Writers, Between

\* What a launch does to the writers.
LEMMA OpensWriters ==
  ASSUME Opens(mode), OneWriter, ~orphan, TypeOK, mode' = mode
  PROVE  ~orphan' /\ Writers = {} /\ Writers' = {mode}
<1>1. CASE mode = "tui"
  BY <1>1 DEF Opens, OneWriter, Writers
<1>2. CASE mode = "chat"
  BY <1>2 DEF Opens, OneWriter, Writers
<1>3. QED
  BY <1>1, <1>2 DEF TypeOK, RowOK

\* Recording it adds no writer but the one the row names.
LEMMA SpawnedWriters ==
  ASSUME NEW m, Spawned(m), OneWriter, ~orphan
  PROVE  ~orphan' /\ OneWriter' /\ mode' = mode /\ (m # "chat" => Writers' = Writers)
BY DEF Spawned, OneWriter, Writers

\* Discarding it, when the stop works, adds none.
LEMMA DiscardsWriters ==
  ASSUME NEW m, Discards(m, FALSE), "cleanup_fails" \notin Env, ~orphan
  PROVE  ~orphan' /\ Writers' \subseteq Writers /\ (m = "tui" => pane' = "none")
BY DEF Discards, Writers

\* Nor does a prompt that could not be delivered.
LEMMA PromptFailsWriters ==
  ASSUME PromptFails(FALSE), ~orphan
  PROVE  ~orphan' /\ mode' = mode /\ Writers' \subseteq Writers
         /\ pane' = "none" /\ UNCHANGED handle
BY DEF PromptFails, Writers

\* A stop adds none, and leaves none when it is of the mode the row names and can
\* identify the pane.
LEMMA StopWriters ==
  ASSUME NEW m, NEW known \in BOOLEAN, StopController(m, known), ~orphan, UNCHANGED orphan
  PROVE  /\ Writers' \subseteq Writers
         /\ Writers \subseteq {m} /\ (m = "tui" /\ pane = "agent" => known)
              => Writers' = {}
BY DEF StopController, Writers

\* A step that adds no writer, and takes no worker to a step WriterInv speaks of.
LEMMA WriterShrinks ==
  ASSUME TypeOK, WriterInv, Writers' \subseteq Writers, ~orphan',
         UNCHANGED <<mode, relaunch>>, handle => handle',
         pane' = "agent" => pane = "agent",
         \A t \in Transitions :
           /\ pc'[t] \in Between => pc[t] \in Between
           /\ pc'[t] \in {"spawned", "rbstop"} => pc[t] \in {"spawned", "rbstop"}
  PROVE  WriterInv'
BY DEF WriterInv, OneWriter

\* The same for a worker that reaches one of them with what it needs, while no other
\* worker drives.
LEMMA WriterMoves ==
  ASSUME TypeOK, WriterInv, NEW t \in Transitions, NEW step,
         pc' = [pc EXCEPT ![t] = step],
         \A u \in Transitions : pc[u] \in Driving => u = t,
         UNCHANGED relaunch, ~orphan', OneWriter',
         step \in Between => Writers' = {},
         step \in {"spawned", "rbstop"} /\ pane' = "agent" => handle'
  PROVE  WriterInv'
<1>1. \A u \in Transitions : u # t => pc'[u] = pc[u] /\ pc[u] \notin Driving
  BY DEF TypeOK, WorkersOK
<1>2. pc'[t] = step
  BY DEF TypeOK, WorkersOK
<1>3. \A u \in Transitions : pc'[u] \in Between \cup {"spawned", "rbstop"} => u = t
  BY <1>1 DEF Between
<1>4. QED
  BY <1>2, <1>3 DEF WriterInv

\* What the other invariants give WriterInv's step.
Others == TypeOK /\ RowsInv /\ SourceInv /\ ModeInv /\ SignalInv /\ SnapInv

\* The driving steps of a worker keep WriterInv.
LEMMA DriverWriters ==
  ASSUME QuietEnv, Others, WriterInv, NEW t \in Transitions, pc[t] \in Driving,
         WorkerStep(t)
  PROVE  WriterInv'
<1>a. /\ WorkersOK /\ handle \in BOOLEAN /\ mode \in Modes /\ source[t] \in Modes
      /\ TypeOK /\ snapHandle[t] \in BOOLEAN
  BY DEF Others, TypeOK, WorkersOK, RowOK
<1>b. "cleanup_fails" \notin Env
  BY DEF QuietEnv
<1>c. \A u \in Transitions : pc[u] \in Driving => u = t
  BY DEF Others, RowsInv
<1>d. t \notin signalled /\ CleanupMayFail(t) = FALSE
  BY <1>a, <1>b DEF Others, RowsInv, SignalInv, SignalledIsEnded, CleanupMayFail
<1>e. ~orphan /\ OneWriter
  BY DEF WriterInv
<1>1. ASSUME NEW step, pc' = [pc EXCEPT ![t] = step], UNCHANGED <<mode, handle, relaunch>>,
             Writers' \subseteq Writers, ~orphan', pane' = "agent" => pane = "agent",
             step \in Between => pc[t] \in Between \/ Writers' = {},
             step \in {"spawned", "rbstop"}
               => pc[t] \in {"spawned", "rbstop"} \/ pane' # "agent"
      PROVE  WriterInv'
  <2>1. OneWriter'
    BY <1>1, <1>e DEF OneWriter
  <2>2. step \in Between => Writers' = {}
    BY <1>1 DEF WriterInv
  <2>3. step \in {"spawned", "rbstop"} /\ pane' = "agent" => handle'
    BY <1>1 DEF WriterInv
  <2>4. QED
    BY <1>a, <1>c, <1>1, <2>1, <2>2, <2>3, WriterMoves
<1>2. CASE StopSource(t)
  <2>1. mode = source[t]
    BY <1>2 DEF StopSource, Others, ModeInv, AtSource
  <2>2. Writers \subseteq {source[t]}
    BY <1>e, <2>1 DEF OneWriter
  <2>3. source[t] = "tui" => snapHandle[t]
    BY <1>2 DEF StopSource, Others, SnapInv
  <2>4. StopController(source[t], snapHandle[t]) /\ UNCHANGED orphan
    BY <1>2 DEF StopSource
  <2>5. Writers' = {}
    BY <1>a, <1>e, <2>2, <2>3, <2>4, StopWriters
  <2>6. pane' = "agent" => pane = "agent"
    BY <2>4 DEF StopController
  <2>7. QED
    BY <1>1, <1>2, <1>e, <2>5, <2>6 DEF StopSource, Between
<1>3. CASE StopUncertain(t)
  <2>1. Writers' \subseteq Writers /\ ~orphan'
    BY <1>3, <1>e DEF StopUncertain, Writers
  <2>2. QED
    BY <1>1, <1>3, <2>1 DEF StopUncertain, Moves, MoveFails, Between
<1>4. CASE EnterStopped(t) \/ EnterStarting(t)
  <2>1. UNCHANGED Writers
    BY <1>4 DEF EnterStopped, EnterStarting, Writers
  <2>2. pc[t] \in Between
    BY <1>4 DEF EnterStopped, EnterStarting, Moves, MoveFails, Between
  <2>3. pane # "agent"
    BY <2>2 DEF WriterInv, Writers
  <2>4. QED
    BY <1>1, <1>4, <1>e, <2>1, <2>2, <2>3 DEF EnterStopped, EnterStarting, Moves, MoveFails
<1>5. CASE CommitEpoch(t) \/ RollbackCommit(t)
  <2>1. pc[t] \in Between /\ UNCHANGED <<Writers, orphan, pane, relaunch>>
    BY <1>5 DEF CommitEpoch, RollbackCommit, Between, Writers
  <2>2. Writers' = {} /\ OneWriter'
    BY <2>1 DEF WriterInv, OneWriter
  <2>3. pane' # "agent"
    BY <2>2 DEF Writers
  <2>4. PICK step : pc' = [pc EXCEPT ![t] = step]
    BY <1>5 DEF CommitEpoch, RollbackCommit
  <2>5. QED
    BY <1>a, <1>c, <1>e, <2>1, <2>2, <2>3, <2>4, WriterMoves
<1>6. CASE OpenTarget(t) \/ RestoreSource(t)
  <2>1. UNCHANGED <<mode, handle, relaunch>>
    BY <1>6 DEF OpenTarget, OpenController, RestoreSource
  <2>2. CASE Opens(mode)
    <3>1. ~orphan' /\ Writers' = {mode}
      BY <1>a, <1>e, <2>1, <2>2, OpensWriters
    <3>2. OneWriter'
      BY <2>1, <3>1 DEF OneWriter
    <3>3. CASE pc' = [pc EXCEPT ![t] = "spawning"]
      BY <1>a, <1>c, <2>1, <3>1, <3>2, <3>3, WriterMoves DEF Between
    <3>4. CASE pc' = [pc EXCEPT ![t] = "respawning"]
      BY <1>a, <1>c, <2>1, <3>1, <3>2, <3>4, WriterMoves DEF Between
    <3>5. CASE UNCHANGED controllers
      BY <3>1, <3>5, <1>a, <1>e, <2>1, <2>2, OpensWriters DEF Writers
    <3>6. QED
      BY <1>6, <2>2, <3>3, <3>4, <3>5 DEF OpenTarget, OpenController, RestoreSource
  <2>3. CASE UNCHANGED controllers
    <3>1. UNCHANGED Writers /\ ~orphan'
      BY <1>e, <2>3 DEF Writers
    <3>2. pc[t] = "launching" => pane # "agent"
      BY DEF WriterInv, Between, Writers
    <3>3. QED
      BY <1>1, <1>6, <2>1, <2>3, <3>1, <3>2
      DEF OpenTarget, OpenController, RestoreSource, Between
  <2>4. QED
    BY <1>6, <2>2, <2>3 DEF OpenTarget, OpenController, RestoreSource
<1>7. CASE SpawnTarget(t)
  <2>1. mode = Target(t)
    BY <1>7 DEF SpawnTarget, SpawnController, Others, ModeInv, AtTarget, Committing
  <2>2. UNCHANGED relaunch
    BY <1>7 DEF SpawnTarget, SpawnController
  <2>3. CASE Spawned(Target(t)) /\ pc' = [pc EXCEPT ![t] = "spawned"]
    <3>1. ~orphan' /\ OneWriter' /\ mode' = mode
      BY <1>e, <2>3, SpawnedWriters
    <3>2. pane' = "agent" => handle'
      <4>1. CASE mode = "tui"
        BY <1>a, <2>1, <2>3, <4>1 DEF Spawned
      <4>2. CASE mode = "chat"
        BY <1>e, <2>3, <4>2 DEF Spawned, OneWriter, Writers
      <4>3. QED
        BY <1>a, <4>1, <4>2
    <3>3. QED
      BY <1>a, <1>c, <2>2, <2>3, <3>1, <3>2, WriterMoves DEF Between
  <2>4. CASE /\ Discards(Target(t), CleanupMayFail(t)) /\ UNCHANGED row
             /\ pc' = [pc EXCEPT ![t] = "rbstop"]
    <3>1. /\ ~orphan' /\ Writers' \subseteq Writers
          /\ Target(t) = "tui" => pane' = "none"
      BY <1>b, <1>d, <1>e, <2>4, DiscardsWriters
    <3>2. pane' # "agent"
      <4>1. CASE mode = "tui"
        BY <2>1, <3>1, <4>1
      <4>2. CASE mode = "chat"
        BY <1>e, <3>1, <4>2 DEF OneWriter, Writers
      <4>3. QED
        BY <1>a, <4>1, <4>2
    <3>3. QED
      BY <1>1, <2>2, <2>4, <3>1, <3>2 DEF Between
  <2>5. QED
    BY <1>7, <2>3, <2>4 DEF SpawnTarget, SpawnController
<1>8. CASE RespawnSource(t)
  <2>1. UNCHANGED relaunch
    BY <1>8 DEF RespawnSource
  <2>2. CASE Spawned(source[t]) /\ pc' = [pc EXCEPT ![t] = "respawned"]
    BY <1>a, <1>c, <1>e, <2>1, <2>2, SpawnedWriters, WriterMoves DEF Between
  <2>3. CASE /\ Discards(source[t], FALSE) /\ UNCHANGED row
             /\ pc' = [pc EXCEPT ![t] = "recovering"]
    <3>1. ~orphan' /\ Writers' \subseteq Writers
      BY <1>b, <1>e, <2>3, DiscardsWriters
    <3>2. OneWriter'
      BY <1>e, <2>3, <3>1 DEF OneWriter
    <3>3. QED
      BY <1>a, <1>c, <2>1, <2>3, <3>1, <3>2, WriterMoves DEF Between
  <2>4. Discards(source[t], "cleanup_fails" \in Env) => Discards(source[t], FALSE)
    BY <1>b DEF Discards
  <2>5. QED
    BY <1>8, <2>2, <2>3, <2>4 DEF RespawnSource
<1>9. CASE ConfirmTarget(t) \/ ConfirmSource(t)
  <2>1. UNCHANGED relaunch
    BY <1>9 DEF ConfirmTarget, ConfirmController, ConfirmSource
  <2>2. PICK step \in {"launched", "rbstop", "rolledback", "recovering"} :
           /\ pc' = [pc EXCEPT ![t] = step]
           /\ step = "rbstop" => pc[t] = "spawned"
    BY <1>9 DEF ConfirmTarget, ConfirmController, ConfirmSource
  <2>3. CASE UNCHANGED <<row, controllers>>
    BY <1>1, <1>e, <2>1, <2>2, <2>3 DEF Between, Writers
  <2>4. CASE PromptFails(FALSE)
    <3>1. /\ ~orphan' /\ mode' = mode /\ Writers' \subseteq Writers
          /\ pane' = "none" /\ UNCHANGED handle
      BY <1>e, <2>4, PromptFailsWriters
    <3>2. QED
      BY <1>1, <2>1, <2>2, <3>1 DEF Between
  <2>5. PromptFails("cleanup_fails" \in Env) \/ PromptFails(CleanupMayFail(t))
          => PromptFails(FALSE)
    BY <1>b, <1>d DEF PromptFails
  <2>6. QED
    BY <1>9, <2>3, <2>4, <2>5 DEF ConfirmTarget, ConfirmController, ConfirmSource
<1>10. CASE EnterActivating(t) \/ Complete(t) \/ FinishRollback(t)
  BY <1>1, <1>10, <1>e
  DEF EnterActivating, Complete, FinishRollback, Moves, MoveFails, Between, Writers
<1>11. CASE RollbackStop(t)
  <2>1. StopController(mode, handle) /\ UNCHANGED <<orphan, row, relaunch>>
        /\ pc' = [pc EXCEPT ![t] = "rbcommit"]
    BY <1>b, <1>11 DEF RollbackStop
  <2>2. pane = "agent" => handle
    BY <1>11 DEF RollbackStop, WriterInv
  <2>3. Writers \subseteq {mode}
    BY <1>e DEF OneWriter
  <2>4. Writers' = {}
    BY <1>a, <1>e, <2>1, <2>2, <2>3, StopWriters
  <2>5. pane' = "agent" => pane = "agent"
    BY <2>1 DEF StopController
  <2>6. QED
    BY <1>1, <1>e, <2>1, <2>4, <2>5
<1>12. QED
  BY <1>2, <1>3, <1>4, <1>5, <1>6, <1>7, <1>8, <1>9, <1>10, <1>11
  DEF WorkerStep, EnterPreflighting, CheckSource, EnterDraining, BeginHandoff,
    EnterStopping, FinishUnstopped, Deregister, Moves, MoveFails

\* So does every other step.
LEMMA WriterStep ==
  ASSUME QuietEnv
  PROVE  Others /\ WriterInv /\ [Next]_vars => WriterInv'
<1> SUFFICES ASSUME Others, WriterInv, [Next]_vars
             PROVE  WriterInv'
  OBVIOUS
<1>a. WorkersOK /\ TypeOK /\ RowsInv
  BY DEF Others, TypeOK
<1>b. ~orphan /\ OneWriter /\ relaunch = IdleRelaunch
  BY DEF WriterInv
<1>c. "cleanup_fails" \notin Env /\ "resume" \notin Env /\ "restore" \notin Env
  BY DEF QuietEnv
<1>1. ASSUME NEW t \in Transitions, StartStep(t) \/ DrainStep(t) \/ WorkerStep(t),
             pc[t] \notin Driving
      PROVE  WriterInv'
  <2> DEFINE Undriven == \/ EnterPreflighting(t) \/ CheckSource(t) \/ EnterDraining(t)
                         \/ BeginHandoff(t) \/ EnterStopping(t) \/ FinishUnstopped(t)
                         \/ Deregister(t)
  <2>1. CASE WorkerStep(t)
    <3>1. Undriven
      BY <1>1, <2>1 DEF WorkerStep, StopSource, StopUncertain, EnterStopped, CommitEpoch,
        EnterStarting, OpenTarget, OpenController, SpawnTarget, SpawnController,
        ConfirmTarget, ConfirmController, EnterActivating, Complete, RollbackStop,
        RollbackCommit, RestoreSource, RespawnSource, ConfirmSource, FinishRollback,
        Moves, MoveFails
    <3>2. UNCHANGED <<mode, relaunch, handle, pane, chat, orphan>>
      BY <3>1 DEF EnterPreflighting, CheckSource, EnterDraining, BeginHandoff,
        EnterStopping, FinishUnstopped, Deregister
    <3>3. PICK step \in Preparing \cup {"stopping", "ended", "done"} :
            pc' = [pc EXCEPT ![t] = step]
      BY <3>1 DEF EnterPreflighting, CheckSource, EnterDraining, BeginHandoff,
        EnterStopping, FinishUnstopped, Deregister, Moves, MoveFails
    <3>4. Writers' \subseteq Writers /\ ~orphan'
      BY <1>b, <3>2 DEF Writers
    <3>5. \A u \in Transitions :
            /\ pc'[u] \in Between => pc[u] \in Between
            /\ pc'[u] \in {"spawned", "rbstop"} => pc[u] \in {"spawned", "rbstop"}
      BY <1>a, <3>3 DEF Between, WorkersOK
    <3>6. QED
      BY <1>a, <3>2, <3>4, <3>5, WriterShrinks
  <2>2. CASE StartStep(t) \/ DrainStep(t)
    <3>1. UNCHANGED <<mode, relaunch, handle, pane, chat, orphan>>
      BY <2>2 DEF StartStep, StartRead, StartCreate, Register, DrainStep, Quiesced, QuiesceFails
    <3>2. Writers' \subseteq Writers /\ ~orphan'
      BY <1>b, <3>1 DEF Writers
    <3>3. \A u \in Transitions :
            /\ pc'[u] \in Between => pc[u] \in Between
            /\ pc'[u] \in {"spawned", "rbstop"} => pc[u] \in {"spawned", "rbstop"}
      BY <1>a, <2>2 DEF Between, WorkersOK, StartStep, StartRead, StartCreate, Register,
        DrainStep, Quiesced, QuiesceFails
    <3>4. QED
      BY <1>a, <3>1, <3>2, <3>3, WriterShrinks
  <2>3. QED
    BY <1>1, <2>1, <2>2
<1>2. ASSUME NEW t \in Transitions, StartStep(t) \/ DrainStep(t) \/ WorkerStep(t),
             pc[t] \in Driving
      PROVE  WriterInv'
  <2>1. WorkerStep(t)
    BY <1>2 DEF StartStep, StartRead, StartCreate, Register, DrainStep, Quiesced, QuiesceFails
  <2>2. QED
    BY <1>2, <2>1, DriverWriters
<1>3. CASE CancelStep \/ KillStep \/ WorldStep \/ UNCHANGED vars
  <2>1. UNCHANGED <<mode, relaunch, handle, orphan, pc>>
    BY <1>3 DEF CancelStep, CancelRead, CancelCas, CancelSignal, KillStep, KillCheck,
      KillRead, KillStop, KillMark, WorldStep, PaneExits, ChatExits, ExitReported, Reap
  <2>2. /\ pane' = "agent" => pane = "agent"
        /\ chat' # "none" => chat # "none"
    BY <1>3 DEF CancelStep, CancelRead, CancelCas, CancelSignal, KillStep, KillCheck,
      KillRead, KillStop, StopController, KillMark, WorldStep, PaneExits, ChatExits,
      ExitReported, Reap
  <2>3. Writers' \subseteq Writers /\ ~orphan'
    BY <1>b, <2>1, <2>2 DEF Writers
  <2>4. QED
    BY <1>a, <2>1, <2>2, <2>3, WriterShrinks
<1>4. CASE RelaunchStep
  BY <1>b, <1>c, <1>4 DEF RelaunchStep, RelaunchCheck, RelaunchRead, RelaunchOpen,
    RelaunchSpawn, RelaunchConfirm
<1>5. CASE Crash
  <2>1. /\ UNCHANGED <<mode, handle, pane>> /\ relaunch' = relaunch
        /\ chat' = "none" /\ orphan' = FALSE
    BY <1>b, <1>5 DEF Crash
  <2>2. \A u \in Transitions : pc'[u] \in {"idle", "done"}
    BY <1>5 DEF Crash
  <2>3. Writers' \subseteq Writers /\ ~orphan'
    BY <1>b, <2>1 DEF Writers
  <2>4. QED
    BY <1>a, <2>1, <2>2, <2>3, WriterShrinks DEF Between
<1>6. CASE BootStep
  <2>1. \A u \in Transitions : pc'[u] \in {"idle", "done"}
    BY <1>a, <1>6 DEF RowsInv, BootStep, BootRecover, BootLive, BootReap, BootRestore,
      BootSpawn, BootConfirm
  <2>2. UNCHANGED <<mode, relaunch>>
    BY <1>6 DEF BootStep, BootRecover, BootLive, BootReap, BootRestore, BootSpawn,
      BootConfirm, Spawned, PromptFails
  <2>3. ~orphan' /\ OneWriter'
    <3>1. ASSUME ~orphan', Writers' \subseteq Writers
          PROVE  ~orphan' /\ OneWriter'
      BY <1>b, <2>2, <3>1 DEF OneWriter
    <3>2. CASE BootRecover \/ BootLive \/ BootReap
      BY <1>b, <3>1, <3>2 DEF BootRecover, BootLive, BootReap, Writers
    <3>3. CASE BootRestore
      <4>1. CASE Opens(mode)
        BY <1>a, <1>b, <2>2, <4>1, OpensWriters DEF OneWriter
      <4>2. CASE UNCHANGED controllers
        BY <1>b, <3>1, <4>2 DEF Writers
      <4>3. QED
        BY <3>3, <4>1, <4>2 DEF BootRestore
    <3>4. CASE BootSpawn
      <4>1. CASE Spawned(mode)
        BY <1>b, <4>1, SpawnedWriters
      <4>2. CASE Discards(mode, "cleanup_fails" \in Env)
        <5>1. Discards(mode, FALSE)
          BY <1>c, <4>2 DEF Discards
        <5>2. QED
          BY <1>b, <1>c, <3>1, <5>1, DiscardsWriters
      <4>3. QED
        BY <3>4, <4>1, <4>2 DEF BootSpawn
    <3>5. CASE BootConfirm
      <4>1. CASE UNCHANGED controllers
        BY <1>b, <3>1, <4>1 DEF Writers
      <4>2. CASE PromptFails("cleanup_fails" \in Env)
        <5>1. PromptFails(FALSE)
          BY <1>c, <4>2 DEF PromptFails
        <5>2. QED
          BY <1>b, <3>1, <5>1, PromptFailsWriters
      <4>3. QED
        BY <3>5, <4>1, <4>2 DEF BootConfirm
    <3>6. QED
      BY <1>6, <3>2, <3>3, <3>4, <3>5 DEF BootStep
  <2>4. QED
    BY <1>b, <2>1, <2>2, <2>3 DEF WriterInv, Between
<1>7. QED
  BY <1>1, <1>2, <1>3, <1>4, <1>5, <1>6 DEF Next

\* The safety argument as one inductive invariant.
SafeInv == Others /\ WriterInv

LEMMA SafeInvariant ==
  ASSUME QuietEnv
  PROVE  Spec => []SafeInv
<1>1. Init => SafeInv
  BY TypeInit, RowsInit, SourceInit, ModeInit, SignalInit, SnapInit, WriterInit
  DEF SafeInv, Others
<1>2. SafeInv /\ [Next]_vars => SafeInv'
  <2>1. "slow_cancel" \notin Env
    BY DEF QuietEnv
  <2>2. SafeInv /\ [Next]_vars => Others'
    BY <2>1, TypeStep, RowsStep, SourceStep, ModeStep, SignalStep, SnapStep
    DEF SafeInv, Others
  <2>3. QED
    BY <2>2, WriterStep DEF SafeInv
<1>3. QED
  BY <1>1, <1>2, PTL DEF Spec

\* Both controllers are never live at once, and only the one the row names is.
THEOREM ControllersExclude ==
  ASSUME QuietEnv
  PROVE  Spec => []OneWriter
<1>1. SafeInv => OneWriter
  BY DEF SafeInv, WriterInv
<1>2. QED
  BY <1>1, SafeInvariant, PTL

\* The handoff implements ControllerOwnership: what is left to show, given
\* OneWriter, is that the mode changes only while no controller is live.
THEOREM HandoffImplementsOwnership ==
  ASSUME QuietEnv
  PROVE  Spec => ImplementsOwnership
<1>1. Init => Ownership!OwnershipInit
  BY DEF Init, Ownership!OwnershipInit, Writers
<1>2. SafeInv /\ SafeInv' /\ [Next]_vars
        => [Ownership!OwnershipNext]_<<mode, Writers>>
  <2> SUFFICES ASSUME SafeInv, SafeInv', [Next]_vars
               PROVE  [Ownership!OwnershipNext]_<<mode, Writers>>
    OBVIOUS
  <2>1. Writers \subseteq {mode} /\ Writers' \subseteq {mode'} /\ mode \in Modes
        /\ mode' \in Modes
    BY DEF SafeInv, WriterInv, OneWriter, Others, TypeOK, RowOK
  <2>2. CASE mode' = mode
    <3>1. Writers \in {{}, {mode}} /\ Writers' \in {{}, {mode}}
      BY <2>1, <2>2
    <3>2. QED
      BY <2>2, <3>1 DEF Ownership!OwnershipNext, Ownership!Acquire, Ownership!Release
  <2>3. CASE mode' # mode
    <3>1. PICK t \in Transitions : CommitEpoch(t) \/ RollbackCommit(t)
      BY <2>3, ModeChanges DEF SafeInv, Others
    <3>2. Writers = {} /\ Writers' = Writers
      BY <3>1 DEF CommitEpoch, RollbackCommit, SafeInv, WriterInv, Between, Writers
    <3>3. QED
      BY <2>1, <2>3, <3>2 DEF Ownership!OwnershipNext, Ownership!Handover
  <2>4. QED
    BY <2>2, <2>3
<1>3. QED
  BY <1>1, <1>2, SafeInvariant, PTL DEF Spec, ImplementsOwnership, Ownership!OwnershipSpec
-----------------------------------------------------------------------------
(* Where the worker of an active row is, while its moves reach the store   *)

\* The phase of an active row and the step of its worker go together.
Tells(t) ==
  /\ phase[t] = "requested" => pc[t] \in {"created", "requested", "failing"}
  /\ phase[t] = "preflighting" => pc[t] \in {"checking", "ready", "failing"}
  /\ phase[t] = "draining" =>
       pc[t] \in {"draining", "quiescing", "prepared", "failing"}
  /\ phase[t] = "source_stopping" => pc[t] \in {"stopping", "stopped"}
  /\ phase[t] = "source_stopped" =>
       pc[t] \in {"committing", "committed", "restoring", "respawning", "respawned",
                  "rolledback", "recovering"}
  /\ phase[t] = "target_starting" =>
       pc[t] \in {"launching", "spawning", "spawned", "launched", "rbstop", "rbcommit",
                  "restoring", "respawning", "respawned", "rolledback", "recovering"}
  /\ phase[t] = "activating" => pc[t] = "activating"

PhaseTells == daemon # "down" => \A t \in Transitions : Tells(t)

\* No active row is left without somebody who will move it: the request that is about
\* to register its worker, the worker, or the boot of a daemon that is down.
RowsHaveMovers ==
  \A t \in Transitions :
    phase[t] \in Active =>
      daemon = "down" \/ pc[t] \in {"created"} \cup Preparing \cup Driving

\* A step that moves no row and no worker but one whose row and step still match.
LEMMA TellsMoves ==
  ASSUME TypeOK, PhaseTells, NEW t \in Transitions, UNCHANGED daemon,
         \A u \in Transitions : u # t => phase'[u] = phase[u] /\ pc'[u] = pc[u],
         (\A u \in Transitions : Tells(u)) => Tells(t)'
  PROVE  PhaseTells'
BY DEF PhaseTells, Tells

\* When a move fails only because the row has ended, every step keeps PhaseTells.
LEMMA TellsStep ==
  ASSUME "store_fails" \notin Env
  PROVE  TypeOK /\ RowsInv /\ PhaseTells /\ [Next]_vars => PhaseTells'
<1> SUFFICES ASSUME TypeOK, RowsInv, PhaseTells, [Next]_vars
             PROVE  PhaseTells'
  OBVIOUS
<1>a. WorkersOK /\ RequestsOK
  BY DEF TypeOK
<1>1. ASSUME NEW t \in Transitions, StartStep(t)
      PROVE  PhaseTells'
  <2>1. /\ UNCHANGED daemon
        /\ \A u \in Transitions : u # t => phase'[u] = phase[u] /\ pc'[u] = pc[u]
    BY <1>a, <1>1 DEF StartStep, StartRead, StartCreate, Register, WorkersOK
  <2>2. (\A u \in Transitions : Tells(u)) => Tells(t)'
    BY <1>a, <1>1 DEF StartStep, StartRead, StartCreate, Register, WorkersOK, RowsInv, Tells
  <2>3. QED
    BY <2>1, <2>2, TellsMoves
<1>2. ASSUME NEW t \in Transitions, WorkerStep(t)
      PROVE  PhaseTells'
  <2>a. /\ UNCHANGED daemon
        /\ \E step : pc' = [pc EXCEPT ![t] = step]
        /\ phase' = phase \/ \E p : phase' = [phase EXCEPT ![t] = p]
    BY <1>2 DEF WorkerStep, EnterPreflighting, CheckSource, EnterDraining, BeginHandoff,
      EnterStopping, FinishUnstopped, StopSource, StopUncertain, EnterStopped, CommitEpoch,
      EnterStarting, OpenTarget, OpenController, SpawnTarget, SpawnController,
      ConfirmTarget, ConfirmController, EnterActivating, Complete, RollbackStop,
      RollbackCommit, RestoreSource, RespawnSource, ConfirmSource, FinishRollback,
      Deregister, Moves, MoveFails
  <2>b. \A u \in Transitions : u # t => phase'[u] = phase[u] /\ pc'[u] = pc[u]
    BY <1>a, <2>a DEF WorkersOK
  <2> SUFFICES ASSUME Tells(t)
               PROVE  Tells(t)'
    BY <2>a, <2>b, TellsMoves
  <2> USE DEF Tells, WorkersOK
  <2>1. CASE EnterPreflighting(t) \/ EnterDraining(t) \/ EnterStopping(t)
    BY <1>a, <2>1 DEF EnterPreflighting, EnterDraining, EnterStopping, Moves, MoveFails
  <2>2. CASE FinishUnstopped(t) \/ StopUncertain(t)
    BY <1>a, <2>2 DEF FinishUnstopped, StopUncertain, Moves, MoveFails
  <2>3. CASE EnterStopped(t) \/ EnterStarting(t)
    BY <1>a, <2>3 DEF EnterStopped, EnterStarting, Moves, MoveFails
  <2>4. CASE EnterActivating(t) \/ Complete(t) \/ FinishRollback(t)
    BY <1>a, <2>4 DEF EnterActivating, Complete, FinishRollback, Moves, MoveFails
  <2>5. CASE CheckSource(t) \/ BeginHandoff(t)
    BY <1>a, <2>5 DEF CheckSource, BeginHandoff
  <2>6. CASE StopSource(t) \/ CommitEpoch(t) \/ OpenTarget(t)
    BY <1>a, <2>6 DEF StopSource, CommitEpoch, OpenTarget, OpenController
  <2>7. CASE SpawnTarget(t) \/ ConfirmTarget(t)
    BY <1>a, <2>7 DEF SpawnTarget, SpawnController, ConfirmTarget, ConfirmController
  <2>8. CASE RollbackStop(t) \/ RollbackCommit(t)
    BY <1>a, <2>8 DEF RollbackStop, RollbackCommit
  <2>9. CASE RestoreSource(t) \/ RespawnSource(t) \/ ConfirmSource(t)
    BY <1>a, <2>9 DEF RestoreSource, RespawnSource, ConfirmSource
  <2>10. CASE Deregister(t)
    BY <1>a, <2>10 DEF Deregister
  <2>11. QED
    BY <1>2, <2>1, <2>2, <2>3, <2>4, <2>5, <2>6, <2>7, <2>8, <2>9, <2>10
    DEF WorkerStep
<1>3. ASSUME NEW t \in Transitions, DrainStep(t)
      PROVE  PhaseTells'
  <2>1. UNCHANGED <<phase, daemon>> /\ \E step : pc' = [pc EXCEPT ![t] = step]
    BY <1>3 DEF DrainStep, Quiesced, QuiesceFails
  <2>2. (\A u \in Transitions : Tells(u)) => Tells(t)'
    BY <1>a, <1>3 DEF DrainStep, Quiesced, QuiesceFails, WorkersOK, Tells
  <2>3. QED
    BY <1>a, <2>1, <2>2, TellsMoves DEF WorkersOK
<1>4. CASE CancelStep
  BY <1>a, <1>4 DEF CancelStep, CancelRead, CancelCas, CancelSignal, RequestsOK, WorkersOK,
    PhaseTells, Tells
<1>5. CASE KillStep \/ RelaunchStep \/ WorldStep
  <2>1. UNCHANGED <<phase, pc, daemon>>
    BY <1>5 DEF KillStep, KillCheck, KillRead, KillStop, KillMark,
      RelaunchStep, RelaunchCheck, RelaunchRead, RelaunchOpen, RelaunchSpawn,
      RelaunchConfirm, WorldStep, PaneExits, ChatExits, ExitReported, Reap
  <2>2. QED
    BY <2>1 DEF PhaseTells, Tells
<1>6. CASE Crash
  BY <1>6 DEF Crash, PhaseTells
<1>7. CASE BootRecover
  <2>1. \A t \in Transitions : phase'[t] \notin Active
    BY <1>a, <1>7 DEF BootRecover
  <2>2. QED
    BY <2>1 DEF PhaseTells, Tells
<1>8. CASE BootStep /\ ~BootRecover
  <2>1. UNCHANGED <<phase, pc>> /\ daemon # "down"
    BY <1>8 DEF BootStep, BootLive, BootReap, BootRestore, BootSpawn, BootConfirm
  <2>2. QED
    BY <2>1 DEF PhaseTells, Tells
<1>9. CASE UNCHANGED vars
  BY <1>9 DEF PhaseTells, Tells
<1>10. QED
  BY <1>1, <1>2, <1>3, <1>4, <1>5, <1>6, <1>7, <1>8, <1>9 DEF Next

\* While no write of a transition row fails, an active row always has a mover: the
\* session is not left locked out of kill, resume and switch by a row nobody drives
\* (driveInterfaceTransition's every early return ends the row, or finds it ended).
\* This is the safety half of SwitchProgresses, for every other fault and any crash.
THEOREM NoRowIsForgotten ==
  ASSUME "store_fails" \notin Env
  PROVE  Spec => []RowsHaveMovers
<1>1. Init => PhaseTells
  BY DEF Init, PhaseTells, Tells
<1>2. TypeOK /\ PhaseTells => RowsHaveMovers
  BY DEF TypeOK, WorkersOK, PhaseTells, Tells, RowsHaveMovers
<1>3. QED
  BY <1>1, <1>2, TypeInit, TypeStep, RowsInit, RowsStep, TellsStep, PTL DEF Spec
-----------------------------------------------------------------------------
(* A terminated session has no controller, where nobody but the switch and *)
(* the agent itself acts on it                                             *)

\* A launch of a worker that is not recorded yet.
Launching == \E t \in Transitions : pc[t] \in {"spawning", "respawning"}

\* No daemon crash has happened, and a row is terminated beside a live controller only
\* while the launch that will record that controller is under way.
DeadInv ==
  /\ daemon = "up" /\ kill = IdleKill
  /\ terminated /\ Writers # {} => Launching

\* A step that terminates nothing, starts no writer and ends no launch.
LEMMA DeadStays ==
  ASSUME DeadInv, UNCHANGED <<terminated, daemon, kill>>, Writers' \subseteq Writers,
         Launching => Launching'
  PROVE  DeadInv'
BY DEF DeadInv

\* The driving steps of a worker keep DeadInv.
LEMMA DriverDead ==
  ASSUME QuietEnv, SafeInv, SafeInv', DeadInv, NEW t \in Transitions, pc[t] \in Driving,
         WorkerStep(t)
  PROVE  DeadInv'
<1>a. /\ WorkersOK /\ mode \in Modes /\ source[t] \in Modes /\ TypeOK
      /\ terminated \in BOOLEAN
  BY DEF SafeInv, Others, TypeOK, WorkersOK, RowOK
<1>b. "cleanup_fails" \notin Env /\ ~orphan /\ OneWriter
  BY DEF QuietEnv, SafeInv, WriterInv
<1>c. \A u \in Transitions : pc[u] \in Driving => u = t
  BY DEF SafeInv, Others, RowsInv
<1>d. CleanupMayFail(t) = FALSE
  BY <1>a, <1>b DEF SafeInv, Others, RowsInv, SignalInv, SignalledIsEnded, CleanupMayFail
<1>e. UNCHANGED <<daemon, kill>>
  BY DEF WorkerStep, EnterPreflighting, CheckSource, EnterDraining, BeginHandoff,
    EnterStopping, FinishUnstopped, StopSource, StopUncertain, EnterStopped, CommitEpoch,
    EnterStarting, OpenTarget, OpenController, SpawnTarget, SpawnController,
    ConfirmTarget, ConfirmController, EnterActivating, Complete, RollbackStop,
    RollbackCommit, RestoreSource, RespawnSource, ConfirmSource, FinishRollback,
    Deregister
<1>f. Launching => pc[t] \in {"spawning", "respawning"}
  BY <1>c DEF Launching
<1>1. ASSUME Writers' = {}
      PROVE  DeadInv'
  BY <1>1, <1>e DEF DeadInv
<1>2. CASE StopSource(t) \/ RollbackStop(t)
  <2>1. UNCHANGED <<terminated, orphan>> /\ pc[t] \notin {"spawning", "respawning"}
        /\ \E m, known : StopController(m, known)
    BY <1>2, <1>b DEF StopSource, RollbackStop
  <2>2. Writers' \subseteq Writers
    BY <2>1 DEF StopController, Writers
  <2>3. QED
    BY <1>e, <1>f, <2>1, <2>2, DeadStays
<1>3. CASE \/ StopUncertain(t) \/ EnterStopped(t) \/ EnterStarting(t)
           \/ EnterActivating(t) \/ Complete(t) \/ FinishRollback(t)
  <2>1. UNCHANGED terminated /\ pc[t] \notin {"spawning", "respawning"}
    BY <1>3 DEF StopUncertain, EnterStopped, EnterStarting, EnterActivating, Complete,
      FinishRollback, Moves, MoveFails
  <2>2. Writers' \subseteq Writers
    BY <1>3 DEF StopUncertain, EnterStopped, EnterStarting, EnterActivating, Complete,
      FinishRollback, Writers
  <2>3. QED
    BY <1>e, <1>f, <2>1, <2>2, DeadStays
<1>4. CASE CommitEpoch(t) \/ RollbackCommit(t)
  <2>1. /\ UNCHANGED <<terminated, pane, chat, orphan>>
        /\ pc[t] \notin {"spawning", "respawning"}
    BY <1>4 DEF CommitEpoch, RollbackCommit, CommitsEpoch
  <2>2. Writers' \subseteq Writers
    BY <2>1 DEF Writers
  <2>3. QED
    BY <1>e, <1>f, <2>1, <2>2, DeadStays
<1>5. CASE OpenTarget(t) \/ RestoreSource(t)
  <2>1. UNCHANGED terminated /\ pc[t] \notin {"spawning", "respawning"}
    BY <1>5 DEF OpenTarget, OpenController, RestoreSource
  <2>2. CASE UNCHANGED controllers
    <3>1. Writers' \subseteq Writers
      BY <2>2 DEF Writers
    <3>2. QED
      BY <1>e, <1>f, <2>1, <3>1, DeadStays
  <2>3. CASE \E step \in {"spawning", "respawning"} : Goto(t, step)
    <3>1. Launching'
      BY <1>a, <2>3 DEF Launching, WorkersOK
    <3>2. QED
      BY <1>e, <3>1 DEF DeadInv
  <2>4. QED
    BY <1>5, <2>2, <2>3 DEF OpenTarget, OpenController, RestoreSource
<1>6. CASE SpawnTarget(t) \/ RespawnSource(t)
  <2> DEFINE m == IF pc[t] = "spawning" THEN Target(t) ELSE source[t]
  <2>1. mode = m
    BY <1>6 DEF SpawnTarget, SpawnController, RespawnSource, SafeInv, Others, ModeInv,
      AtTarget, AtSource, Committing
  <2>2. CASE Spawned(m)
    BY <1>e, <2>2 DEF Spawned, DeadInv
  <2>3. CASE Discards(m, FALSE)
    <3>1. CASE mode = "tui"
      BY <1>1, <1>b, <2>1, <2>3, <3>1 DEF Discards, OneWriter, Writers
    <3>2. CASE mode = "chat"
      BY <1>1, <1>b, <2>1, <2>3, <3>2 DEF Discards, OneWriter, Writers
    <3>3. QED
      BY <1>a, <3>1, <3>2
  <2>4. CASE SpawnTarget(t)
    <3>1. pc[t] = "spawning" /\ (Spawned(m) \/ Discards(m, CleanupMayFail(t)))
      BY <2>4 DEF SpawnTarget, SpawnController
    <3>2. QED
      BY <1>d, <2>2, <2>3, <3>1
  <2>5. CASE RespawnSource(t)
    <3>1. pc[t] = "respawning" /\ (Spawned(m) \/ Discards(m, "cleanup_fails" \in Env))
      BY <2>5 DEF RespawnSource
    <3>2. Discards(m, "cleanup_fails" \in Env) => Discards(m, FALSE)
      BY <1>b DEF Discards
    <3>3. QED
      BY <2>2, <2>3, <3>1, <3>2
  <2>6. QED
    BY <1>6, <2>4, <2>5
<1>7. CASE ConfirmTarget(t) \/ ConfirmSource(t)
  <2>1. pc[t] \notin {"spawning", "respawning"}
    BY <1>7 DEF ConfirmTarget, ConfirmController, ConfirmSource
  <2>2. CASE UNCHANGED <<row, controllers>>
    <3>1. Writers' \subseteq Writers
      BY <2>2 DEF Writers
    <3>2. QED
      BY <1>e, <1>f, <2>1, <2>2, <3>1, DeadStays
  <2>3. CASE mode = "tui" /\ PromptFails(FALSE)
    BY <1>1, <1>b, <2>3 DEF PromptFails, OneWriter, Writers
  <2>4. /\ ConfirmTarget(t) => mode = Target(t)
        /\ ConfirmSource(t) => mode = source[t]
    BY DEF ConfirmTarget, ConfirmController, ConfirmSource, SafeInv, Others, ModeInv,
      AtTarget, AtSource, Committing
  <2>5. CASE ConfirmTarget(t)
    <3>1. \/ UNCHANGED <<row, controllers>>
          \/ Target(t) = "tui" /\ PromptFails(CleanupMayFail(t))
      BY <2>5 DEF ConfirmTarget, ConfirmController
    <3>2. QED
      BY <1>d, <2>2, <2>3, <2>4, <2>5, <3>1
  <2>6. CASE ConfirmSource(t)
    <3>1. \/ UNCHANGED <<row, controllers>>
          \/ source[t] = "tui" /\ PromptFails("cleanup_fails" \in Env)
      BY <2>6 DEF ConfirmSource
    <3>2. PromptFails("cleanup_fails" \in Env) => PromptFails(FALSE)
      BY <1>b DEF PromptFails
    <3>3. QED
      BY <2>2, <2>3, <2>4, <2>6, <3>1, <3>2
  <2>7. QED
    BY <1>7, <2>5, <2>6
<1>8. QED
  BY <1>2, <1>3, <1>4, <1>5, <1>6, <1>7
  DEF WorkerStep, EnterPreflighting, CheckSource, EnterDraining, BeginHandoff,
    EnterStopping, FinishUnstopped, Deregister, Moves, MoveFails

\* The other steps: only the reaper still terminates, and only what has no pane.
LEMMA DeadStep ==
  ASSUME Env \subseteq {"store_fails"}, MaxCrashes = 0
  PROVE  SafeInv /\ SafeInv' /\ DeadInv /\ [Next]_vars => DeadInv'
<1> SUFFICES ASSUME SafeInv, SafeInv', DeadInv, [Next]_vars
             PROVE  DeadInv'
  OBVIOUS
<1>a. WorkersOK /\ crashes = 0 /\ OneWriter /\ ~orphan
  BY DEF SafeInv, Others, TypeOK, SystemOK, WriterInv
<1>b. relaunch = IdleRelaunch /\ kill = IdleKill /\ daemon = "up"
  BY DEF SafeInv, WriterInv, DeadInv
<1>1. ASSUME NEW t \in Transitions, StartStep(t) \/ DrainStep(t) \/ WorkerStep(t),
             pc[t] \in Driving
      PROVE  DeadInv'
  <2>1. WorkerStep(t)
    BY <1>1 DEF StartStep, StartRead, StartCreate, Register, DrainStep, Quiesced, QuiesceFails
  <2>2. QuietEnv
    BY DEF QuietEnv
  <2>3. QED
    BY <1>1, <2>1, <2>2, DriverDead
<1>2. ASSUME NEW t \in Transitions, StartStep(t) \/ DrainStep(t) \/ WorkerStep(t),
             pc[t] \notin Driving
      PROVE  DeadInv'
  <2>1. \/ StartStep(t) \/ DrainStep(t) \/ EnterPreflighting(t) \/ CheckSource(t)
        \/ EnterDraining(t) \/ BeginHandoff(t) \/ EnterStopping(t) \/ FinishUnstopped(t)
        \/ Deregister(t)
    BY <1>2 DEF WorkerStep, StopSource, StopUncertain, EnterStopped, CommitEpoch,
      EnterStarting, OpenTarget, OpenController, SpawnTarget, SpawnController,
      ConfirmTarget, ConfirmController, EnterActivating, Complete, RollbackStop,
      RollbackCommit, RestoreSource, RespawnSource, ConfirmSource, FinishRollback,
      Moves, MoveFails
  <2>2. /\ UNCHANGED <<terminated, daemon, kill, pane, chat, orphan>>
        /\ \E step : pc' = [pc EXCEPT ![t] = step]
    BY <2>1 DEF StartStep, StartRead, StartCreate, Register, DrainStep, Quiesced,
      QuiesceFails, EnterPreflighting, CheckSource, EnterDraining, BeginHandoff,
      EnterStopping, FinishUnstopped, Deregister, Moves, MoveFails
  <2>3. Writers' \subseteq Writers
    BY <2>2 DEF Writers
  <2>4. Launching => Launching'
    BY <1>a, <1>2, <2>2 DEF Launching, WorkersOK
  <2>5. QED
    BY <2>2, <2>3, <2>4, DeadStays
<1>3. CASE CancelStep \/ PaneExits \/ ChatExits \/ ExitReported
  <2>1. UNCHANGED <<terminated, daemon, kill, orphan, pc>>
    BY <1>3 DEF CancelStep, CancelRead, CancelCas, CancelSignal, PaneExits, ChatExits,
      ExitReported
  <2>2. Writers' \subseteq Writers
    BY <1>3 DEF CancelStep, CancelRead, CancelCas, CancelSignal, PaneExits, ChatExits,
      ExitReported, Writers
  <2>3. QED
    BY <2>1, <2>2, DeadStays DEF Launching
<1>4. CASE Reap
  <2>1. Writers' = {}
    BY <1>a, <1>4 DEF Reap, OneWriter, Writers
  <2>2. QED
    BY <1>b, <1>4, <2>1 DEF Reap, DeadInv
<1>5. ~KillStep /\ ~RelaunchStep /\ ~Crash /\ ~BootStep
  BY <1>a, <1>b DEF KillStep, KillCheck, KillRead, KillStop, KillMark,
    RelaunchStep, RelaunchCheck, RelaunchRead, RelaunchOpen, RelaunchSpawn,
    RelaunchConfirm, Crash, BootStep, BootRecover, BootLive, BootReap, BootRestore,
    BootSpawn, BootConfirm
<1>6. CASE UNCHANGED vars
  BY <1>6 DEF DeadInv, Launching, Writers
<1>7. QED
  BY <1>1, <1>2, <1>3, <1>4, <1>5, <1>6 DEF Next, WorldStep

\* A switch alone never leaves a controller running under a terminated row, whatever
\* agent exits and reaper passes it meets and whatever of its own writes fail: each way
\* TerminatedHasNoController is violated takes a kill, a relaunch, a discarded error, a
\* crash, or a signal that hits the next worker.
THEOREM TheDeadHaveNoController ==
  ASSUME Env \subseteq {"store_fails"}, MaxCrashes = 0
  PROVE  Spec => []TerminatedHasNoController
<1>1. Init => DeadInv
  BY DEF Init, DeadInv
<1>2. DeadInv => TerminatedHasNoController
  BY DEF DeadInv, Launching, TerminatedHasNoController, Quiet
<1>3. Spec => []SafeInv
  BY SafeInvariant DEF QuietEnv
<1>4. QED
  BY <1>1, <1>2, <1>3, DeadStep, PTL DEF Spec
=============================================================================
