---------------------------- MODULE LifecycleProofs ----------------------------
(***************************************************************************)
(* Lifecycle, for any executions, names and bounds: its type invariant, that *)
(* a dialog on screen is shown, that no open execution outlives its agent,   *)
(* that usage is final when a session is terminated, and that an early hook  *)
(* is not taken for a stale one.                                             *)
(*                                                                         *)
(* The dialog is the hard one.  What makes it safe is a fact about the agent *)
(* (AskInv): while it asks, no hook on its way ends a turn, and the only one *)
(* that names the asking execution is the permission hook itself.  So when   *)
(* the reducer has identified a dialog, no hook on its way can clear it.     *)
(***************************************************************************)
EXTENDS Lifecycle, FiniteSetTheorems, TLAPS

\* The type invariant in parts.
RowOK == act \in Activities /\ launch \in Launches \cup {NoLaunch}
RowFlagsOK == terminated \in BOOLEAN /\ heard \in BOOLEAN /\ shell \in BOOLEAN /\ finalized \in BOOLEAN
FlightOK ==
  /\ inflight \subseteq Tools /\ candidate \in Tools \cup {NoTool} /\ dialog \in Tools \cup {NoTool}
EpochsOK ==
  /\ launches \in Launches /\ restarts \in 0..MaxEpochs
  /\ pendingLaunch \in Launches \cup {NoLaunch} /\ spawn \in {"idle", "prepared", "started"}
  /\ probe \in [launch : Launches \cup {NoLaunch}, found : Probes]
EndingOK == ending \in [Terminators -> {"idle", "fresh", "stale", "moved"}]
AgentOK ==
  /\ proc \in Launches \cup {NoLaunch}
  /\ tool \in [Tools -> ToolStates] /\ toolName \in [Tools -> Names]
WireOK == wire \subseteq Hooks /\ \A h \in wire : h.kind \in ToolKinds => h.tool \in Tools

\* The launch under way is the last one counted.
LaunchInv ==
  /\ spawn # "idle" => pendingLaunch = launches
  /\ spawn = "started" => proc \in {launches, NoLaunch}

\* A termination that is still fresh rests on final usage.
EndInv == (\A t \in Terminators : ending[t] = "fresh" => finalized) /\ (terminated => finalized)

\* While an execution asks, nothing on its way ends the turn, and what names the
\* execution is its permission hook, of this very process.
AskInv ==
  \A u \in Tools : tool[u] = "asking" =>
    /\ proc # NoLaunch
    /\ \A h \in wire : /\ h.kind \notin Boundaries
                       /\ h.tool = u => h.kind = "permission-request" /\ h.launch = proc

\* An identified dialog is the one on screen, and only its own execution could clear it.
DialogInv ==
  dialog # NoTool => /\ tool[dialog] = "asking" /\ act \in {"blocked", "exited"}
                     /\ candidate \in {dialog, NoTool} /\ spawn # "started"

TypeInv == RowOK /\ RowFlagsOK /\ FlightOK /\ EpochsOK /\ EndingOK /\ AgentOK /\ WireOK
LifeInv == TypeInv /\ LaunchInv /\ FlightsDieWithAgent /\ EndInv /\ AskInv /\ DialogInv

USE ToolsAssumption, NamesAssumption, InflightAssumption, EpochAssumption

\* A hook that names an execution is posted when none is on its way.
LEMMA StartToolKeeps == ASSUME NEW u \in Tools, LifeInv, StartTool(u) PROVE LifeInv'
<1>. USE DEF LifeInv, TypeInv, StartTool, UseTool, Post, Answered, row, flight, agent, counts
<1>1. RowOK'
  BY DEF RowOK, Activities, Launches, NoLaunch, EpochsOK
<1>2. RowFlagsOK'
  BY DEF RowFlagsOK
<1>3. FlightOK'
  BY DEF FlightOK, WireOK
<1>4. EpochsOK'
  BY DEF EpochsOK, RowOK, Launches, NoLaunch, Probes
<1>5. EndingOK'
  BY DEF EndingOK, Terminators
<1>6. AgentOK'
  BY DEF AgentOK, ToolStates, Launches, NoLaunch, EpochsOK, RowOK
<1>7. WireOK'
  BY DEF WireOK, Hooks, Hook, Kinds, ToolKinds, AgentOK, Launches, NoLaunch
<1>8. LaunchInv'
  BY DEF LaunchInv, EpochsOK
<1>9. FlightsDieWithAgent'
  BY DEF FlightsDieWithAgent
<1>10. EndInv'
  BY DEF EndInv, EndingOK, RowFlagsOK, Terminators
<1>11. AskInv'
  BY DEF AskInv, AgentOK, WireOK, Hook, ToolKinds, Boundaries
<1>12. DialogInv'
  BY DEF DialogInv, AskInv, FlightOK, AgentOK, WireOK
<1>. QED BY <1>1, <1>2, <1>3, <1>4, <1>5, <1>6, <1>7, <1>8, <1>9, <1>10, <1>11, <1>12

\* The dialog appears when no turn is being closed, along with its permission hook.
LEMMA AskKeeps == ASSUME NEW u \in Tools, LifeInv, Ask(u) PROVE LifeInv'
<1>. USE DEF LifeInv, TypeInv, Ask, UseTool, Post, Answered, Turning, Asking, row, flight, agent, counts
<1>1. RowOK'
  BY DEF RowOK, Activities, Launches, NoLaunch, EpochsOK
<1>2. RowFlagsOK'
  BY DEF RowFlagsOK
<1>3. FlightOK'
  BY DEF FlightOK, WireOK
<1>4. EpochsOK'
  BY DEF EpochsOK, RowOK, Launches, NoLaunch, Probes
<1>5. EndingOK'
  BY DEF EndingOK, Terminators
<1>6. AgentOK'
  BY DEF AgentOK, ToolStates, Launches, NoLaunch, EpochsOK, RowOK
<1>7. WireOK'
  BY DEF WireOK, Hooks, Hook, Kinds, ToolKinds, AgentOK, Launches, NoLaunch
<1>8. LaunchInv'
  BY DEF LaunchInv, EpochsOK
<1>9. FlightsDieWithAgent'
  BY DEF FlightsDieWithAgent
<1>10. EndInv'
  BY DEF EndInv, EndingOK, RowFlagsOK, Terminators
<1>11. AskInv'
  BY DEF AskInv, AgentOK, WireOK, Hook, ToolKinds, Boundaries
<1>12. DialogInv'
  BY DEF DialogInv, AskInv, FlightOK, AgentOK, WireOK
<1>. QED BY <1>1, <1>2, <1>3, <1>4, <1>5, <1>6, <1>7, <1>8, <1>9, <1>10, <1>11, <1>12

\* An answer takes the dialog from the screen.
LEMMA AnswerKeeps == ASSUME NEW u \in Tools, LifeInv, Answer(u) PROVE LifeInv'
<1>. USE DEF LifeInv, TypeInv, Answer, UseTool, Post, Answered, row, flight, agent, counts
<1>1. RowOK'
  BY DEF RowOK, Activities, Launches, NoLaunch, EpochsOK
<1>2. RowFlagsOK'
  BY DEF RowFlagsOK
<1>3. FlightOK'
  BY DEF FlightOK, WireOK
<1>4. EpochsOK'
  BY DEF EpochsOK, RowOK, Launches, NoLaunch, Probes
<1>5. EndingOK'
  BY DEF EndingOK, Terminators
<1>6. AgentOK'
  BY DEF AgentOK, ToolStates, Launches, NoLaunch, EpochsOK, RowOK
<1>7. WireOK'
  BY DEF WireOK, Hooks, Hook, Kinds, ToolKinds, AgentOK, Launches, NoLaunch
<1>8. LaunchInv'
  BY DEF LaunchInv, EpochsOK
<1>9. FlightsDieWithAgent'
  BY DEF FlightsDieWithAgent
<1>10. EndInv'
  BY DEF EndInv, EndingOK, RowFlagsOK, Terminators
<1>11. AskInv'
  BY DEF AskInv, AgentOK, WireOK
<1>12. DialogInv'
  BY DEF DialogInv, AskInv, FlightOK, AgentOK, WireOK
<1>. QED BY <1>1, <1>2, <1>3, <1>4, <1>5, <1>6, <1>7, <1>8, <1>9, <1>10, <1>11, <1>12

\* An execution that asks does not finish.
LEMMA FinishToolKeeps == ASSUME NEW u \in Tools, LifeInv, FinishTool(u) PROVE LifeInv'
<1>. USE DEF LifeInv, TypeInv, FinishTool, UseTool, Post, Answered, row, flight, agent, counts
<1>1. RowOK'
  BY DEF RowOK, Activities, Launches, NoLaunch, EpochsOK
<1>2. RowFlagsOK'
  BY DEF RowFlagsOK
<1>3. FlightOK'
  BY DEF FlightOK, WireOK
<1>4. EpochsOK'
  BY DEF EpochsOK, RowOK, Launches, NoLaunch, Probes
<1>5. EndingOK'
  BY DEF EndingOK, Terminators
<1>6. AgentOK'
  BY DEF AgentOK, ToolStates, Launches, NoLaunch, EpochsOK, RowOK
<1>7. WireOK'
  BY DEF WireOK, Hooks, Hook, Kinds, ToolKinds, AgentOK, Launches, NoLaunch
<1>8. LaunchInv'
  BY DEF LaunchInv, EpochsOK
<1>9. FlightsDieWithAgent'
  BY DEF FlightsDieWithAgent
<1>10. EndInv'
  BY DEF EndInv, EndingOK, RowFlagsOK, Terminators
<1>11. AskInv'
  BY DEF AskInv, AgentOK, WireOK, Hook, ToolKinds, Boundaries
<1>12. DialogInv'
  BY DEF DialogInv, AskInv, FlightOK, AgentOK, WireOK
<1>. QED BY <1>1, <1>2, <1>3, <1>4, <1>5, <1>6, <1>7, <1>8, <1>9, <1>10, <1>11, <1>12

\* A turn ends under no dialog.
LEMMA TurnHookKeeps == ASSUME NEW kind \in {"user-prompt-submit", "stop", "idle-prompt"}, LifeInv, TurnHook(kind) PROVE LifeInv'
<1>. USE DEF LifeInv, TypeInv, TurnHook, Post, Asking, row, flight, agent, counts
<1>1. RowOK'
  BY DEF RowOK, Activities, Launches, NoLaunch, EpochsOK
<1>2. RowFlagsOK'
  BY DEF RowFlagsOK
<1>3. FlightOK'
  BY DEF FlightOK, WireOK
<1>4. EpochsOK'
  BY DEF EpochsOK, RowOK, Launches, NoLaunch, Probes
<1>5. EndingOK'
  BY DEF EndingOK, Terminators
<1>6. AgentOK'
  BY DEF AgentOK, ToolStates, Launches, NoLaunch, EpochsOK, RowOK
<1>7. WireOK'
  BY DEF WireOK, Hooks, Hook, Kinds, ToolKinds, AgentOK, Launches, NoLaunch
<1>8. LaunchInv'
  BY DEF LaunchInv, EpochsOK
<1>9. FlightsDieWithAgent'
  BY DEF FlightsDieWithAgent
<1>10. EndInv'
  BY DEF EndInv, EndingOK, RowFlagsOK, Terminators
<1>11. AskInv'
  BY DEF AskInv, AgentOK, WireOK
<1>12. DialogInv'
  BY DEF DialogInv, AskInv, FlightOK, AgentOK, WireOK
<1>. QED BY <1>1, <1>2, <1>3, <1>4, <1>5, <1>6, <1>7, <1>8, <1>9, <1>10, <1>11, <1>12

\* The end of the agent takes the dialog along.
LEMMA AgentExitsKeeps == ASSUME LifeInv, AgentExits PROVE LifeInv'
<1>. USE DEF LifeInv, TypeInv, AgentExits, Post, Gone, row, flight, agent, counts
<1>1. RowOK'
  BY DEF RowOK, Activities, Launches, NoLaunch, EpochsOK
<1>2. RowFlagsOK'
  BY DEF RowFlagsOK
<1>3. FlightOK'
  BY DEF FlightOK, WireOK
<1>4. EpochsOK'
  BY DEF EpochsOK, RowOK, Launches, NoLaunch, Probes
<1>5. EndingOK'
  BY DEF EndingOK, Terminators
<1>6. AgentOK'
  BY DEF AgentOK, ToolStates, Launches, NoLaunch, EpochsOK, RowOK
<1>7. WireOK'
  BY DEF WireOK, Hooks, Hook, Kinds, ToolKinds, AgentOK, Launches, NoLaunch
<1>8. LaunchInv'
  BY DEF LaunchInv, EpochsOK
<1>9. FlightsDieWithAgent'
  BY DEF FlightsDieWithAgent
<1>10. EndInv'
  BY DEF EndInv, EndingOK, RowFlagsOK, Terminators
<1>11. AskInv'
  BY DEF AskInv, AgentOK, WireOK
<1>12. DialogInv'
  BY DEF DialogInv, AskInv, FlightOK, AgentOK, WireOK
<1>. QED BY <1>1, <1>2, <1>3, <1>4, <1>5, <1>6, <1>7, <1>8, <1>9, <1>10, <1>11, <1>12

\* So does the end of its shell.
LEMMA ShellDiesKeeps == ASSUME LifeInv, ShellDies PROVE LifeInv'
<1>. USE DEF LifeInv, TypeInv, ShellDies, Gone, row, flight, agent, counts
<1>1. RowOK'
  BY DEF RowOK, Activities, Launches, NoLaunch, EpochsOK
<1>2. RowFlagsOK'
  BY DEF RowFlagsOK
<1>3. FlightOK'
  BY DEF FlightOK, WireOK
<1>4. EpochsOK'
  BY DEF EpochsOK, RowOK, Launches, NoLaunch, Probes
<1>5. EndingOK'
  BY DEF EndingOK, Terminators
<1>6. AgentOK'
  BY DEF AgentOK, ToolStates, Launches, NoLaunch, EpochsOK, RowOK
<1>7. WireOK'
  BY DEF WireOK, Hooks, Hook, Kinds, ToolKinds, AgentOK, Launches, NoLaunch
<1>8. LaunchInv'
  BY DEF LaunchInv, EpochsOK
<1>9. FlightsDieWithAgent'
  BY DEF FlightsDieWithAgent
<1>10. EndInv'
  BY DEF EndInv, EndingOK, RowFlagsOK, Terminators
<1>11. AskInv'
  BY DEF AskInv, AgentOK, WireOK
<1>12. DialogInv'
  BY DEF DialogInv, AskInv, FlightOK, AgentOK, WireOK
<1>. QED BY <1>1, <1>2, <1>3, <1>4, <1>5, <1>6, <1>7, <1>8, <1>9, <1>10, <1>11, <1>12

\* A restarted agent asks nothing yet.
LEMMA RestartKeeps == ASSUME LifeInv, RestartInShell PROVE LifeInv'
<1>. USE DEF LifeInv, TypeInv, RestartInShell, row, flight, agent, counts
<1>1. RowOK'
  BY DEF RowOK, Activities, Launches, NoLaunch, EpochsOK
<1>2. RowFlagsOK'
  BY DEF RowFlagsOK
<1>3. FlightOK'
  BY DEF FlightOK, WireOK
<1>4. EpochsOK'
  BY DEF EpochsOK, RowOK, Launches, NoLaunch, Probes
<1>5. EndingOK'
  BY DEF EndingOK, Terminators
<1>6. AgentOK'
  BY DEF AgentOK, ToolStates, Launches, NoLaunch, EpochsOK, RowOK
<1>7. WireOK'
  BY DEF WireOK, Hooks, Hook, Kinds, ToolKinds, AgentOK, Launches, NoLaunch
<1>8. LaunchInv'
  BY DEF LaunchInv, EpochsOK
<1>9. FlightsDieWithAgent'
  BY DEF FlightsDieWithAgent
<1>10. EndInv'
  BY DEF EndInv, EndingOK, RowFlagsOK, Terminators
<1>11. AskInv'
  BY DEF AskInv, AgentOK, WireOK
<1>12. DialogInv'
  BY DEF DialogInv, AskInv, FlightOK, AgentOK, WireOK
<1>. QED BY <1>1, <1>2, <1>3, <1>4, <1>5, <1>6, <1>7, <1>8, <1>9, <1>10, <1>11, <1>12

\* A lost hook disturbs nothing.
LEMMA LoseHookKeeps == ASSUME NEW h, LifeInv, LoseHook(h) PROVE LifeInv'
<1>. USE DEF LifeInv, TypeInv, LoseHook, row, flight, agent, counts
<1>1. RowOK'
  BY DEF RowOK, Activities, Launches, NoLaunch, EpochsOK
<1>2. RowFlagsOK'
  BY DEF RowFlagsOK
<1>3. FlightOK'
  BY DEF FlightOK, WireOK
<1>4. EpochsOK'
  BY DEF EpochsOK, RowOK, Launches, NoLaunch, Probes
<1>5. EndingOK'
  BY DEF EndingOK, Terminators
<1>6. AgentOK'
  BY DEF AgentOK, ToolStates, Launches, NoLaunch, EpochsOK, RowOK
<1>7. WireOK'
  BY DEF WireOK, Hooks, Hook, Kinds, ToolKinds, AgentOK, Launches, NoLaunch
<1>8. LaunchInv'
  BY DEF LaunchInv, EpochsOK
<1>9. FlightsDieWithAgent'
  BY DEF FlightsDieWithAgent
<1>10. EndInv'
  BY DEF EndInv, EndingOK, RowFlagsOK, Terminators
<1>11. AskInv'
  BY DEF AskInv, AgentOK, WireOK
<1>12. DialogInv'
  BY DEF DialogInv, AskInv, FlightOK, AgentOK, WireOK
<1>. QED BY <1>1, <1>2, <1>3, <1>4, <1>5, <1>6, <1>7, <1>8, <1>9, <1>10, <1>11, <1>12

\* Hooks that change no row.
LEMMA UnusedHookKeeps == ASSUME NEW h, LifeInv, HookAfterEnd(h) \/ StaleHook(h) \/ LateHook(h) PROVE LifeInv'
<1>. USE DEF LifeInv, TypeInv, HookAfterEnd, StaleHook, LateHook, Arrives, ForgetFlight, RowKept, row, flight, agent, counts
<1>1. RowOK'
  BY DEF RowOK, Activities, Launches, NoLaunch, EpochsOK
<1>2. RowFlagsOK'
  BY DEF RowFlagsOK
<1>3. FlightOK'
  BY DEF FlightOK, WireOK
<1>4. EpochsOK'
  BY DEF EpochsOK, RowOK, Launches, NoLaunch, Probes
<1>5. EndingOK'
  BY DEF EndingOK, Terminators
<1>6. AgentOK'
  BY DEF AgentOK, ToolStates, Launches, NoLaunch, EpochsOK, RowOK
<1>7. WireOK'
  BY DEF WireOK, Hooks, Hook, Kinds, ToolKinds, AgentOK, Launches, NoLaunch
<1>8. LaunchInv'
  BY DEF LaunchInv, EpochsOK
<1>9. FlightsDieWithAgent'
  BY DEF FlightsDieWithAgent
<1>10. EndInv'
  BY DEF EndInv, EndingOK, RowFlagsOK, Terminators
<1>11. AskInv'
  BY DEF AskInv, AgentOK, WireOK
<1>12. DialogInv'
  BY DEF DialogInv, AskInv, FlightOK, AgentOK, WireOK
<1>. QED BY <1>1, <1>2, <1>3, <1>4, <1>5, <1>6, <1>7, <1>8, <1>9, <1>10, <1>11, <1>12

\* A probe changes nothing until it is applied.
LEMMA ProbeKeeps == ASSUME LifeInv, TakeProbe \/ ProbeIgnored PROVE LifeInv'
<1>. USE DEF LifeInv, TypeInv, TakeProbe, ProbeIgnored, row, flight, agent, counts
<1>1. RowOK'
  BY DEF RowOK, Activities, Launches, NoLaunch, EpochsOK
<1>2. RowFlagsOK'
  BY DEF RowFlagsOK
<1>3. FlightOK'
  BY DEF FlightOK, WireOK
<1>4. EpochsOK'
  <2>1. probe' \in [launch : Launches \cup {NoLaunch}, found : Probes]
    <3>1. CASE TakeProbe
      BY <3>1 DEF RowOK, Probes
    <3>2. CASE ProbeIgnored
      BY <3>2 DEF NoProbe, Probes
    <3>. QED BY <3>1, <3>2
  <2>. QED BY <2>1 DEF EpochsOK
<1>5. EndingOK'
  BY DEF EndingOK, Terminators
<1>6. AgentOK'
  BY DEF AgentOK, ToolStates, Launches, NoLaunch, EpochsOK, RowOK
<1>7. WireOK'
  BY DEF WireOK, Hooks, Hook, Kinds, ToolKinds, AgentOK, Launches, NoLaunch
<1>8. LaunchInv'
  BY DEF LaunchInv, EpochsOK
<1>9. FlightsDieWithAgent'
  BY DEF FlightsDieWithAgent
<1>10. EndInv'
  BY DEF EndInv, EndingOK, RowFlagsOK, Terminators
<1>11. AskInv'
  BY DEF AskInv, AgentOK, WireOK
<1>12. DialogInv'
  BY DEF DialogInv, AskInv, FlightOK, AgentOK, WireOK
<1>. QED BY <1>1, <1>2, <1>3, <1>4, <1>5, <1>6, <1>7, <1>8, <1>9, <1>10, <1>11, <1>12

\* The end of the agent is recorded with its executions.
LEMMA WorkloadDiedKeeps == ASSUME LifeInv, WorkloadDied PROVE LifeInv'
<1>. USE DEF LifeInv, TypeInv, WorkloadDied, ForgetFlight, RowWritten, ProbeFits, row, flight, agent, counts
<1>1. RowOK'
  BY DEF RowOK, Activities, Launches, NoLaunch, EpochsOK
<1>2. RowFlagsOK'
  BY DEF RowFlagsOK
<1>3. FlightOK'
  BY DEF FlightOK, WireOK
<1>4. EpochsOK'
  BY DEF EpochsOK, NoProbe, Launches, NoLaunch, Probes
<1>5. EndingOK'
  BY DEF EndingOK, Terminators
<1>6. AgentOK'
  BY DEF AgentOK, ToolStates, Launches, NoLaunch, EpochsOK, RowOK
<1>7. WireOK'
  BY DEF WireOK, Hooks, Hook, Kinds, ToolKinds, AgentOK, Launches, NoLaunch
<1>8. LaunchInv'
  BY DEF LaunchInv, EpochsOK
<1>9. FlightsDieWithAgent'
  BY DEF FlightsDieWithAgent
<1>10. EndInv'
  BY DEF EndInv, EndingOK, RowFlagsOK, Terminators
<1>11. AskInv'
  BY DEF AskInv, AgentOK, WireOK
<1>12. DialogInv'
  BY DEF DialogInv, AskInv, FlightOK, AgentOK, WireOK
<1>. QED BY <1>1, <1>2, <1>3, <1>4, <1>5, <1>6, <1>7, <1>8, <1>9, <1>10, <1>11, <1>12

\* A termination starts from final usage.
LEMMA BeginKeeps == ASSUME LifeInv, RuntimeDied \/ BeginEnd PROVE LifeInv'
<1>. USE DEF LifeInv, TypeInv, RuntimeDied, BeginEnd, row, flight, agent, counts
<1>1. RowOK'
  BY DEF RowOK, Activities, Launches, NoLaunch, EpochsOK
<1>2. RowFlagsOK'
  BY DEF RowFlagsOK
<1>3. FlightOK'
  BY DEF FlightOK, WireOK
<1>4. EpochsOK'
  BY DEF EpochsOK, NoProbe, Launches, NoLaunch, Probes
<1>5. EndingOK'
  BY DEF EndingOK, Terminators
<1>6. AgentOK'
  BY DEF AgentOK, ToolStates, Launches, NoLaunch, EpochsOK, RowOK
<1>7. WireOK'
  BY DEF WireOK, Hooks, Hook, Kinds, ToolKinds, AgentOK, Launches, NoLaunch
<1>8. LaunchInv'
  BY DEF LaunchInv, EpochsOK
<1>9. FlightsDieWithAgent'
  BY DEF FlightsDieWithAgent
<1>10. EndInv'
  BY DEF EndInv, EndingOK, RowFlagsOK, Terminators
<1>11. AskInv'
  BY DEF AskInv, AgentOK, WireOK
<1>12. DialogInv'
  BY DEF DialogInv, AskInv, FlightOK, AgentOK, WireOK
<1>. QED BY <1>1, <1>2, <1>3, <1>4, <1>5, <1>6, <1>7, <1>8, <1>9, <1>10, <1>11, <1>12

\* A termination that is still fresh is committed, and makes the others stale.
LEMMA CommitEndKeeps == ASSUME NEW t \in Terminators, LifeInv, CommitEnd(t) PROVE LifeInv'
<1>. USE DEF LifeInv, TypeInv, CommitEnd, ForgetFlight, row, flight, agent, counts
<1>1. RowOK'
  BY DEF RowOK, Activities, Launches, NoLaunch, EpochsOK
<1>2. RowFlagsOK'
  BY DEF RowFlagsOK
<1>3. FlightOK'
  BY DEF FlightOK, WireOK
<1>4. EpochsOK'
  BY DEF EpochsOK, RowOK, Launches, NoLaunch, Probes
<1>5. EndingOK'
  BY DEF EndingOK, Terminators
<1>6. AgentOK'
  BY DEF AgentOK, ToolStates, Launches, NoLaunch, EpochsOK, RowOK
<1>7. WireOK'
  BY DEF WireOK, Hooks, Hook, Kinds, ToolKinds, AgentOK, Launches, NoLaunch
<1>8. LaunchInv'
  BY DEF LaunchInv, EpochsOK
<1>9. FlightsDieWithAgent'
  BY DEF FlightsDieWithAgent
<1>10. EndInv'
  BY DEF EndInv, EndingOK, RowFlagsOK, Terminators
<1>11. AskInv'
  BY DEF AskInv, AgentOK, WireOK
<1>12. DialogInv'
  BY DEF DialogInv, AskInv, FlightOK, AgentOK, WireOK
<1>. QED BY <1>1, <1>2, <1>3, <1>4, <1>5, <1>6, <1>7, <1>8, <1>9, <1>10, <1>11, <1>12

\* A termination given up is forgotten.
LEMMA GiveUpEndKeeps == ASSUME NEW t \in Terminators, LifeInv, GiveUpEnd(t) PROVE LifeInv'
<1>. USE DEF LifeInv, TypeInv, GiveUpEnd, row, flight, agent, counts
<1>1. RowOK'
  BY DEF RowOK, Activities, Launches, NoLaunch, EpochsOK
<1>2. RowFlagsOK'
  BY DEF RowFlagsOK
<1>3. FlightOK'
  BY DEF FlightOK, WireOK
<1>4. EpochsOK'
  BY DEF EpochsOK, RowOK, Launches, NoLaunch, Probes
<1>5. EndingOK'
  BY DEF EndingOK, Terminators
<1>6. AgentOK'
  BY DEF AgentOK, ToolStates, Launches, NoLaunch, EpochsOK, RowOK
<1>7. WireOK'
  BY DEF WireOK, Hooks, Hook, Kinds, ToolKinds, AgentOK, Launches, NoLaunch
<1>8. LaunchInv'
  BY DEF LaunchInv, EpochsOK
<1>9. FlightsDieWithAgent'
  BY DEF FlightsDieWithAgent
<1>10. EndInv'
  BY DEF EndInv, EndingOK, RowFlagsOK, Terminators
<1>11. AskInv'
  BY DEF AskInv, AgentOK, WireOK
<1>12. DialogInv'
  BY DEF DialogInv, AskInv, FlightOK, AgentOK, WireOK
<1>. QED BY <1>1, <1>2, <1>3, <1>4, <1>5, <1>6, <1>7, <1>8, <1>9, <1>10, <1>11, <1>12

\* The launch hooks wait for is the last one counted.
LEMMA PrepareKeeps == ASSUME LifeInv, PrepareLaunch PROVE LifeInv'
<1>. USE DEF LifeInv, TypeInv, PrepareLaunch, row, flight, agent, counts
<1>1. RowOK'
  BY DEF RowOK, Activities, Launches, NoLaunch, EpochsOK
<1>2. RowFlagsOK'
  BY DEF RowFlagsOK
<1>3. FlightOK'
  BY DEF FlightOK, WireOK
<1>4. EpochsOK'
  BY DEF EpochsOK, RowOK, Launches, NoLaunch, Probes
<1>5. EndingOK'
  BY DEF EndingOK, Terminators
<1>6. AgentOK'
  BY DEF AgentOK, ToolStates, Launches, NoLaunch, EpochsOK, RowOK
<1>7. WireOK'
  BY DEF WireOK, Hooks, Hook, Kinds, ToolKinds, AgentOK, Launches, NoLaunch
<1>8. LaunchInv'
  BY DEF LaunchInv, EpochsOK
<1>9. FlightsDieWithAgent'
  BY DEF FlightsDieWithAgent
<1>10. EndInv'
  BY DEF EndInv, EndingOK, RowFlagsOK, Terminators
<1>11. AskInv'
  BY DEF AskInv, AgentOK, WireOK
<1>12. DialogInv'
  BY DEF DialogInv, AskInv, FlightOK, AgentOK, WireOK
<1>. QED BY <1>1, <1>2, <1>3, <1>4, <1>5, <1>6, <1>7, <1>8, <1>9, <1>10, <1>11, <1>12

\* The new process has no dialog yet.
LEMMA StartProcessKeeps == ASSUME LifeInv, StartProcess PROVE LifeInv'
<1>. USE DEF LifeInv, TypeInv, StartProcess, Gone, row, flight, agent, counts
<1>1. RowOK'
  BY DEF RowOK, Activities, Launches, NoLaunch, EpochsOK
<1>2. RowFlagsOK'
  BY DEF RowFlagsOK
<1>3. FlightOK'
  BY DEF FlightOK, WireOK
<1>4. EpochsOK'
  BY DEF EpochsOK, RowOK, Launches, NoLaunch, Probes
<1>5. EndingOK'
  BY DEF EndingOK, Terminators
<1>6. AgentOK'
  BY DEF AgentOK, ToolStates, Launches, NoLaunch, EpochsOK, RowOK
<1>7. WireOK'
  BY DEF WireOK, Hooks, Hook, Kinds, ToolKinds, AgentOK, Launches, NoLaunch
<1>8. LaunchInv'
  BY DEF LaunchInv, EpochsOK
<1>9. FlightsDieWithAgent'
  BY DEF FlightsDieWithAgent
<1>10. EndInv'
  BY DEF EndInv, EndingOK, RowFlagsOK, Terminators
<1>11. AskInv'
  BY DEF AskInv, AgentOK, WireOK
<1>12. DialogInv'
  BY DEF DialogInv, AskInv, FlightOK, AgentOK, WireOK
<1>. QED BY <1>1, <1>2, <1>3, <1>4, <1>5, <1>6, <1>7, <1>8, <1>9, <1>10, <1>11, <1>12

\* No dialog was identified before the launch was recorded.
LEMMA MarkSpawnedKeeps == ASSUME LifeInv, MarkSpawned PROVE LifeInv'
<1>. USE DEF LifeInv, TypeInv, MarkSpawned, RowMoved, row, flight, agent, counts
<1>1. RowOK'
  BY DEF RowOK, Activities, Launches, NoLaunch, EpochsOK
<1>2. RowFlagsOK'
  BY DEF RowFlagsOK
<1>3. FlightOK'
  BY DEF FlightOK, WireOK
<1>4. EpochsOK'
  BY DEF EpochsOK, RowOK, Launches, NoLaunch, Probes
<1>5. EndingOK'
  BY DEF EndingOK, Terminators
<1>6. AgentOK'
  BY DEF AgentOK, ToolStates, Launches, NoLaunch, EpochsOK, RowOK
<1>7. WireOK'
  BY DEF WireOK, Hooks, Hook, Kinds, ToolKinds, AgentOK, Launches, NoLaunch
<1>8. LaunchInv'
  BY DEF LaunchInv, EpochsOK
<1>9. FlightsDieWithAgent'
  BY DEF FlightsDieWithAgent
<1>10. EndInv'
  BY DEF EndInv, EndingOK, RowFlagsOK, Terminators
<1>11. AskInv'
  BY DEF AskInv, AgentOK, WireOK
<1>12. DialogInv'
  BY DEF DialogInv, AskInv, FlightOK, AgentOK, WireOK
<1>. QED BY <1>1, <1>2, <1>3, <1>4, <1>5, <1>6, <1>7, <1>8, <1>9, <1>10, <1>11, <1>12

\* A failed launch takes its process along.
LEMMA SpawnFailsKeeps == ASSUME LifeInv, SpawnFails PROVE LifeInv'
<1>. USE DEF LifeInv, TypeInv, SpawnFails, Gone, row, flight, agent, counts
<1>1. RowOK'
  BY DEF RowOK, Activities, Launches, NoLaunch, EpochsOK
<1>2. RowFlagsOK'
  BY DEF RowFlagsOK
<1>3. FlightOK'
  BY DEF FlightOK, WireOK
<1>4. EpochsOK'
  BY DEF EpochsOK, RowOK, Launches, NoLaunch, Probes
<1>5. EndingOK'
  BY DEF EndingOK, Terminators
<1>6. AgentOK'
  BY DEF AgentOK, ToolStates, Launches, NoLaunch, EpochsOK, RowOK
<1>7. WireOK'
  BY DEF WireOK, Hooks, Hook, Kinds, ToolKinds, AgentOK, Launches, NoLaunch
<1>8. LaunchInv'
  BY DEF LaunchInv, EpochsOK
<1>9. FlightsDieWithAgent'
  BY DEF FlightsDieWithAgent
<1>10. EndInv'
  BY DEF EndInv, EndingOK, RowFlagsOK, Terminators
<1>11. AskInv'
  BY DEF AskInv, AgentOK, WireOK
<1>12. DialogInv'
  BY DEF DialogInv, AskInv, FlightOK, AgentOK, WireOK
<1>. QED BY <1>1, <1>2, <1>3, <1>4, <1>5, <1>6, <1>7, <1>8, <1>9, <1>10, <1>11, <1>12

\* A handoff finds no agent, and so no dialog.
LEMMA EpochKeeps == ASSUME LifeInv, CommitControllerEpoch PROVE LifeInv'
<1>. USE DEF LifeInv, TypeInv, CommitControllerEpoch, ForgetFlight, RowMoved, row, flight, agent, counts
<1>1. RowOK'
  BY DEF RowOK, Activities, Launches, NoLaunch, EpochsOK
<1>2. RowFlagsOK'
  BY DEF RowFlagsOK
<1>3. FlightOK'
  BY DEF FlightOK, WireOK
<1>4. EpochsOK'
  BY DEF EpochsOK, RowOK, Launches, NoLaunch, Probes
<1>5. EndingOK'
  BY DEF EndingOK, Terminators
<1>6. AgentOK'
  BY DEF AgentOK, ToolStates, Launches, NoLaunch, EpochsOK, RowOK
<1>7. WireOK'
  BY DEF WireOK, Hooks, Hook, Kinds, ToolKinds, AgentOK, Launches, NoLaunch
<1>8. LaunchInv'
  BY DEF LaunchInv, EpochsOK
<1>9. FlightsDieWithAgent'
  BY DEF FlightsDieWithAgent
<1>10. EndInv'
  BY DEF EndInv, EndingOK, RowFlagsOK, Terminators
<1>11. AskInv'
  BY DEF AskInv, AgentOK, WireOK
<1>12. DialogInv'
  BY DEF DialogInv, AskInv, FlightOK, AgentOK, WireOK
<1>. QED BY <1>1, <1>2, <1>3, <1>4, <1>5, <1>6, <1>7, <1>8, <1>9, <1>10, <1>11, <1>12

\* What a daemon forgets clears no dialog.
LEMMA DaemonKeeps == ASSUME LifeInv, DaemonRestarts PROVE LifeInv'
<1>. USE DEF LifeInv, TypeInv, DaemonRestarts, ForgetFlight, row, flight, agent, counts
<1>1. RowOK'
  BY DEF RowOK, Activities, Launches, NoLaunch, EpochsOK
<1>2. RowFlagsOK'
  BY DEF RowFlagsOK
<1>3. FlightOK'
  BY DEF FlightOK, WireOK
<1>4. EpochsOK'
  BY DEF EpochsOK, NoProbe, Launches, NoLaunch, Probes
<1>5. EndingOK'
  BY DEF EndingOK, Terminators
<1>6. AgentOK'
  BY DEF AgentOK, ToolStates, Launches, NoLaunch, EpochsOK, RowOK
<1>7. WireOK'
  BY DEF WireOK, Hooks, Hook, Kinds, ToolKinds, AgentOK, Launches, NoLaunch
<1>8. LaunchInv'
  BY DEF LaunchInv, EpochsOK
<1>9. FlightsDieWithAgent'
  BY DEF FlightsDieWithAgent
<1>10. EndInv'
  BY DEF EndInv, EndingOK, RowFlagsOK, Terminators
<1>11. AskInv'
  BY DEF AskInv, AgentOK, WireOK
<1>12. DialogInv'
  BY DEF DialogInv, AskInv, FlightOK, AgentOK, WireOK
<1>. QED BY <1>1, <1>2, <1>3, <1>4, <1>5, <1>6, <1>7, <1>8, <1>9, <1>10, <1>11, <1>12


\* An identified execution that is open is the one asked about.
LEMMA IdentifiesOne ==
  ASSUME NEW u \in Tools, NEW open, open \subseteq Tools, u \in open, toolName \in [Tools -> Names]
  PROVE  Identified(u, open) \in {u, NoTool}
<1> DEFINE namesakes == {v \in open : toolName[v] = toolName[u]}
<1>1. u \in namesakes /\ IsFiniteSet(namesakes)
  BY FS_Subset
<1>2. ASSUME Cardinality(namesakes) = 1 PROVE namesakes = {u}
  BY <1>1, <1>2, FS_Singleton
<1>3. Cardinality(namesakes) = 1 => (CHOOSE v \in namesakes : TRUE) = u
  BY <1>2
<1>. HIDE DEF namesakes
<1>4. Identified(u, open) = IF NamesTool /\ u \in open THEN u
      ELSE IF Cardinality(namesakes) = 1 THEN CHOOSE v \in namesakes : TRUE ELSE NoTool
  BY DEF Identified, namesakes
<1>. QED BY <1>3, <1>4

\* Whatever it identifies is an execution.
LEMMA IdentifiesTool ==
  ASSUME NEW u \in Tools, NEW open, open \subseteq Tools PROVE Identified(u, open) \in Tools \cup {NoTool}
<1> DEFINE namesakes == {v \in open : toolName[v] = toolName[u]}
<1>1. ASSUME Cardinality(namesakes) = 1 PROVE (CHOOSE v \in namesakes : TRUE) \in Tools
  <2>1. IsFiniteSet(namesakes)
    BY FS_Subset
  <2>2. PICK v : namesakes = {v}
    BY <1>1, <2>1, FS_Singleton
  <2>. QED BY <2>2
<1>. HIDE DEF namesakes
<1>2. Identified(u, open) = IF NamesTool /\ u \in open THEN u
      ELSE IF Cardinality(namesakes) = 1 THEN CHOOSE v \in namesakes : TRUE ELSE NoTool
  BY DEF Identified, namesakes
<1>. QED BY <1>1, <1>2

\* What ApplyHook leaves alone.
LEMMA ApplyFrame ==
  ASSUME NEW h, ApplyHook(h)
  PROVE  /\ UNCHANGED <<terminated, launch, pendingLaunch, spawn, probe, proc, shell, tool, toolName,
                        launches, restarts>>
         /\ ~terminated /\ h \in wire /\ wire' = wire \ {h} /\ h.launch # pendingLaunch
         /\ RowWritten \/ RowKept
BY DEF ApplyHook, Arrives, agent, counts

\* The dialog after a hook was applied: an identified one survives every hook that may be
\* on its way, and a new one is identified as itself.
LEMMA ApplyKeepsDialog == ASSUME NEW h, LifeInv, ApplyHook(h) PROVE DialogInv'
<1>. USE DEF LifeInv, TypeInv
<1>1. CASE h.kind = "permission-request" /\ tool[h.tool] = "asking" /\ h.tool \in inflight
  <2>1. h.tool \in Tools
    BY <1>1 DEF FlightOK
  <2>2. dialog' = h.tool
    BY <1>1 DEF ApplyHook
  <2>3. act' = "blocked"
    BY <1>1 DEF ApplyHook, Suppressed, StateOf, Boundaries, Resurrects
  <2>4. candidate' \in {h.tool, NoTool}
    BY <1>1, <2>1, IdentifiesOne DEF ApplyHook, TrackDialog, Boundaries, FlightOK, AgentOK
  <2>5. spawn # "started"
    BY <1>1, <2>1, ApplyFrame DEF AskInv, LaunchInv
  <2>. QED BY <1>1, <2>2, <2>3, <2>4, <2>5, ApplyFrame DEF DialogInv
<1>2. CASE h.kind = "permission-request" /\ ~(tool[h.tool] = "asking" /\ h.tool \in inflight)
  BY <1>2 DEF ApplyHook, DialogInv
<1>3. CASE h.kind # "permission-request" /\ dialog # NoTool
  <2>1. h \in wire /\ dialog \in Tools
    BY <1>3, ApplyFrame DEF FlightOK
  <2>2. h.kind \notin Boundaries /\ h.tool # dialog
    BY <1>3, <2>1 DEF DialogInv, AskInv
  <2>3. act = "blocked"
    BY <1>3, <2>2 DEF ApplyHook, DialogInv, Resurrects, Boundaries
  <2>4. h.kind = "post-tool-use" => h.tool # candidate
    BY <1>3, <2>1, <2>2, ToolsAssumption DEF DialogInv, WireOK, ToolKinds
  <2>5. act' = "blocked"
    BY <2>2, <2>3, <2>4 DEF ApplyHook, Suppressed
  <2>6. candidate' = candidate
    BY <1>3, <2>2, <2>4 DEF ApplyHook, TrackDialog
  <2>7. dialog' = dialog
    BY <1>3 DEF ApplyHook
  <2>. QED BY <1>3, <2>5, <2>6, <2>7, ApplyFrame DEF DialogInv
<1>4. CASE h.kind # "permission-request" /\ dialog = NoTool
  BY <1>4 DEF ApplyHook, DialogInv
<1>. QED BY <1>1, <1>2, <1>3, <1>4

\* A hook that is applied.
LEMMA ApplyHookKeeps == ASSUME NEW h, LifeInv, ApplyHook(h) PROVE LifeInv'
<1>. USE DEF LifeInv, TypeInv
<1>0. h \in Hooks /\ h.kind \in Kinds /\ (h.kind \in ToolKinds => h.tool \in Tools)
  BY ApplyFrame DEF WireOK, Hooks
<1>1. RowOK'
  <2>1. StateOf(h.kind) \in Activities
    BY DEF StateOf, Activities
  <2>2. act' \in {act, StateOf(h.kind)}
    BY DEF ApplyHook
  <2>. QED BY <2>1, <2>2, ApplyFrame DEF RowOK
<1>2. RowFlagsOK'
  <2>1. heard' = (heard \/ ~Suppressed(h))
    BY DEF ApplyHook
  <2>2. finalized' \in BOOLEAN
    BY ApplyFrame DEF RowWritten, RowKept, RowFlagsOK
  <2>3. heard' \in BOOLEAN
    BY <2>1
  <2>. QED BY <2>2, <2>3, ApplyFrame DEF RowFlagsOK
<1>3. FlightOK'
  <2>1. inflight' \subseteq Tools
    BY <1>0 DEF ApplyHook, TrackDialog, Tracked, FlightOK, ToolKinds
  <2>2. candidate' \in Tools \cup {NoTool}
    BY <1>0, IdentifiesTool DEF ApplyHook, TrackDialog, FlightOK, ToolKinds
  <2>3. dialog' \in Tools \cup {NoTool}
    BY DEF ApplyHook, FlightOK
  <2>. QED BY <2>1, <2>2, <2>3 DEF FlightOK
<1>4. EpochsOK'
  BY ApplyFrame DEF EpochsOK
<1>5. EndingOK'
  BY ApplyFrame DEF RowWritten, RowKept, EndingOK
<1>6. AgentOK'
  BY ApplyFrame DEF AgentOK
<1>7. WireOK'
  BY ApplyFrame DEF WireOK
<1>8. LaunchInv'
  BY ApplyFrame DEF LaunchInv
<1>9. FlightsDieWithAgent'
  <2>1. CASE h.kind \in Boundaries
    <3>1. inflight' = {}
      BY <2>1 DEF ApplyHook, TrackDialog
    <3>2. candidate' = NoTool
      BY <2>1 DEF ApplyHook, TrackDialog, Boundaries
    <3>. QED BY <3>1, <3>2 DEF FlightsDieWithAgent
  <2>2. CASE h.kind \notin Boundaries
    <3>1. act # "exited" /\ StateOf(h.kind) # "exited"
      BY <2>2 DEF ApplyHook, Resurrects, Boundaries, StateOf
    <3>2. act' # "exited" /\ ~terminated'
      BY <3>1, ApplyFrame DEF ApplyHook
    <3>. QED BY <3>2 DEF FlightsDieWithAgent
  <2>. QED BY <2>1, <2>2
<1>10. EndInv'
  BY ApplyFrame DEF RowWritten, RowKept, EndInv, EndingOK
<1>11. AskInv'
  BY ApplyFrame DEF AskInv
<1>12. DialogInv'
  BY ApplyKeepsDialog
<1>. QED BY <1>1, <1>2, <1>3, <1>4, <1>5, <1>6, <1>7, <1>8, <1>9, <1>10, <1>11, <1>12

\* A session starts with an idle agent.
LEMMA LifeInvInit == LifeInit => LifeInv
<1> SUFFICES ASSUME LifeInit PROVE LifeInv
  OBVIOUS
<1>. USE DEF LifeInit
<1>1. RowOK /\ AgentOK
  BY DEF RowOK, Activities, AgentOK, ToolStates, Launches, NoLaunch
<1>2. RowFlagsOK
  BY DEF RowFlagsOK
<1>3. FlightOK /\ WireOK
  BY DEF FlightOK, WireOK
<1>4. EpochsOK
  BY DEF EpochsOK, NoProbe, Launches, NoLaunch, Probes
<1>5. EndingOK /\ EndInv
  BY DEF EndingOK, EndInv
<1>6. LaunchInv /\ FlightsDieWithAgent /\ AskInv /\ DialogInv
  BY DEF LaunchInv, FlightsDieWithAgent, AskInv, DialogInv
<1>. QED BY <1>1, <1>2, <1>3, <1>4, <1>5, <1>6 DEF LifeInv, TypeInv

\* Every step keeps the invariant.
LEMMA LifeInvStep == LifeInv /\ [LifeNext]_lifeVars => LifeInv'
<1> SUFFICES ASSUME LifeInv, [LifeNext]_lifeVars PROVE LifeInv'
  OBVIOUS
<1>1. CASE AgentNext
  BY <1>1, StartToolKeeps, AskKeeps, AnswerKeeps, FinishToolKeeps, TurnHookKeeps, AgentExitsKeeps,
     ShellDiesKeeps, RestartKeeps, LoseHookKeeps DEF AgentNext
<1>2. CASE ReducerNext
  BY <1>2, UnusedHookKeeps, ApplyHookKeeps, ProbeKeeps, WorkloadDiedKeeps, BeginKeeps,
     CommitEndKeeps, GiveUpEndKeeps, PrepareKeeps, StartProcessKeeps, MarkSpawnedKeeps,
     SpawnFailsKeeps, EpochKeeps, DaemonKeeps DEF ReducerNext
<1>3. CASE UNCHANGED lifeVars
  BY <1>3 DEF lifeVars, row, flight, agent, counts, LifeInv, TypeInv, RowOK, RowFlagsOK, FlightOK,
              EpochsOK, EndingOK, AgentOK, WireOK, LaunchInv, FlightsDieWithAgent, EndInv, AskInv,
              DialogInv
<1>. QED BY <1>1, <1>2, <1>3 DEF LifeNext

\* The reducer, the agent and the hooks stay in their types.
THEOREM LifeTypeCorrect == LifeSpec => []LifeTypeOK
<1>1. LifeInv => LifeTypeOK
  BY DEF LifeInv, TypeInv, RowOK, RowFlagsOK, FlightOK, EpochsOK, EndingOK, AgentOK, WireOK, LifeTypeOK
<1>. QED BY LifeInvInit, LifeInvStep, <1>1, PTL DEF LifeSpec

\* An identified dialog stays shown until it is answered or its agent ends, for any number
\* of executions, hooks on their way, launches and restarts.
THEOREM DialogIsShown == LifeSpec => []DialogStays
<1>1. LifeInv => DialogStays
  BY DEF LifeInv, DialogInv, DialogStays
<1>. QED BY LifeInvInit, LifeInvStep, <1>1, PTL DEF LifeSpec

\* No open execution and no dialog outlives the agent.
THEOREM FlightsDie == LifeSpec => []FlightsDieWithAgent
<1>1. LifeInv => FlightsDieWithAgent
  BY DEF LifeInv
<1>. QED BY LifeInvInit, LifeInvStep, <1>1, PTL DEF LifeSpec

\* A session is terminated on top of final usage only.
THEOREM UsageFinal == LifeSpec => []UsageIsFinal
<1>1. LifeInv => UsageIsFinal
  BY DEF LifeInv, EndInv, UsageIsFinal
<1>. QED BY LifeInvInit, LifeInvStep, <1>1, PTL DEF LifeSpec

\* What no step does: discard a hook of the launch under way.
Waits == \A h \in wire : StaleHook(h) => ~(spawn = "started" /\ h.launch = launches)

\* A hook that overtakes the record of its launch is never taken for a stale one.
THEOREM EarlyHooksWait == LifeSpec => EarlyHookWaits
<1>1. LifeInv /\ [LifeNext]_lifeVars => [Waits]_lifeVars
  BY DEF Waits, StaleHook, Arrives, LifeInv, LaunchInv
<1>. QED BY LifeInvInit, LifeInvStep, <1>1, PTL DEF LifeSpec, EarlyHookWaits, Waits
=============================================================================
