------------------------------ MODULE Lifecycle ------------------------------
(***************************************************************************)
(* The lifecycle reducer (lifecycle/manager.go) of one session: agent hooks, *)
(* runtime probes, launches and terminations become the durable facts of    *)
(* its row, one transaction at a time under the reducer's lock.  Everything *)
(* around the lock is concurrent: hooks are posted by processes of their    *)
(* own and may be lost or overtaken, a probe is applied after it was taken, *)
(* a termination finalizes usage between reading the row and writing it,    *)
(* and a daemon restart forgets whatever is not in the row.                 *)
(***************************************************************************)
EXTENDS Naturals, FiniteSets

CONSTANTS
  Tools,        \* tool executions
  NoTool,       \* not a tool
  Names,        \* tool names
  NamesTool,    \* the permission hooks of the agent carry the id of their execution
  MaxInflight,  \* maxInflightTools: the executions the reducer tracks at once
  MaxHooks,     \* bound on the hooks on their way at once
  MaxEpochs     \* bound on launches of the session and restarts of the daemon, together

ASSUME ToolsAssumption == IsFiniteSet(Tools) /\ NoTool \notin Tools
ASSUME NamesAssumption == Names # {} /\ NamesTool \in BOOLEAN
ASSUME InflightAssumption == MaxInflight \in Nat \ {0} /\ MaxHooks \in Nat
ASSUME EpochAssumption == MaxEpochs \in Nat \ {0}

VARIABLES
  act, terminated, launch, heard, \* the session row (heard: FirstSignalAt is set)
  inflight, candidate,            \* toolFlight: the open executions, the dialog's own
  pendingLaunch, spawn,           \* the launch hooks wait for, and the relaunch it belongs to
  probe,                          \* a runtime probe taken and not yet applied
  ending,                         \* terminations between reading the row and writing it
  proc, shell, tool,              \* the agent process's launch, its shell, its executions
  wire,                           \* hooks posted and not yet answered
  toolName,                       \* the tool an execution runs
  launches, restarts,             \* launches and daemon restarts so far
  dialog,                         \* history: the dialog on screen the reducer could identify
  finalized                       \* history: usage was finalized and the row not written since

row     == <<act, terminated, launch, heard>>
flight  == <<inflight, candidate>>
agent   == <<proc, shell, tool, toolName>>
counts  == <<launches, restarts>>
lifeVars == <<row, flight, pendingLaunch, spawn, probe, ending, agent, wire, counts, dialog,
             finalized>>

Activities == {"idle", "active", "waiting_input", "blocked", "exited"}
Sticky == {"waiting_input", "blocked"}
Launches == 1..MaxEpochs
NoLaunch == 0
Probes == {"none", "runtime_dead", "workload_dead"}
Terminators == {"user", "reaper"}
ToolStates == {"new", "running", "asking", "done"}

\* What a hook reports: the state it carries and whether it ends a turn.
Kinds == {"pre-tool-use", "post-tool-use", "permission-request", "notification", "idle-prompt",
          "user-prompt-submit", "stop", "process-exited"}
Boundaries == {"user-prompt-submit", "stop", "process-exited"}
ToolKinds == {"pre-tool-use", "post-tool-use", "permission-request"}
StateOf(kind) ==
  CASE kind \in {"permission-request", "notification"} -> "blocked"
    [] kind = "idle-prompt" -> "waiting_input"
    [] kind = "stop" -> "idle"
    [] kind = "process-exited" -> "exited"
    [] OTHER -> "active"

Hook(kind, u, l) == [kind |-> kind, tool |-> u, launch |-> l]
Hooks == [kind : Kinds, tool : Tools \cup {NoTool}, launch : Launches]

LifeTypeOK ==
  /\ act \in Activities /\ terminated \in BOOLEAN /\ heard \in BOOLEAN
  /\ launch \in Launches \cup {NoLaunch} /\ pendingLaunch \in Launches \cup {NoLaunch}
  /\ inflight \subseteq Tools /\ candidate \in Tools \cup {NoTool}
  /\ spawn \in {"idle", "prepared", "started"}
  /\ probe \in [launch : Launches \cup {NoLaunch}, found : Probes]
  /\ ending \in [Terminators -> {"idle", "fresh", "stale", "moved"}]
  /\ proc \in Launches \cup {NoLaunch} /\ shell \in BOOLEAN
  /\ tool \in [Tools -> ToolStates] /\ toolName \in [Tools -> Names]
  /\ wire \subseteq Hooks
  /\ launches \in Launches /\ restarts \in 0..MaxEpochs
  /\ dialog \in Tools \cup {NoTool} /\ finalized \in BOOLEAN

NoProbe == [launch |-> NoLaunch, found |-> "none"]

LifeInit ==
  /\ act = "idle" /\ terminated = FALSE /\ launch = 1 /\ heard = FALSE
  /\ inflight = {} /\ candidate = NoTool
  /\ pendingLaunch = NoLaunch /\ spawn = "idle"
  /\ probe = NoProbe
  /\ ending = [t \in Terminators |-> "idle"]
  /\ proc = 1 /\ shell = TRUE /\ tool = [u \in Tools |-> "new"]
  /\ toolName \in [Tools -> Names]
  /\ wire = {}
  /\ launches = 1 /\ restarts = 0
  /\ dialog = NoTool /\ finalized = FALSE

-----------------------------------------------------------------------------
(* The agent process and the hooks it posts                                *)

\* A hook blocks the execution it reports until it is answered or given up.
Answered(u) == \A h \in wire : h.tool # u
Turning == \E h \in wire : h.kind \in Boundaries
Asking == {u \in Tools : tool[u] = "asking"}
Post(kinds, u) ==
  /\ wire' = wire \cup {Hook(k, IF k \in ToolKinds THEN u ELSE NoTool, proc) : k \in kinds}
  /\ Cardinality(wire') <= MaxHooks

UseTool(u, from, to, kinds) ==
  /\ proc # NoLaunch /\ tool[u] \in from /\ Answered(u)
  /\ tool' = [tool EXCEPT ![u] = to]
  /\ Post(kinds, u)
  /\ UNCHANGED <<row, flight, pendingLaunch, spawn, probe, ending, proc, shell, toolName, counts, finalized>>

StartTool(u) == UseTool(u, {"new"}, "running", {"pre-tool-use"}) /\ UNCHANGED dialog

\* One dialog is on screen at a time, and none appears while a turn is being closed.
\* The permission hook has a notification twin that names no tool.
Ask(u) ==
  /\ Asking = {} /\ ~Turning
  /\ UseTool(u, {"running"}, "asking", {"permission-request", "notification"})
  /\ UNCHANGED dialog

\* Answering a dialog fires no hook of its own.
Answer(u) ==
  /\ UseTool(u, {"asking"}, "running", {})
  /\ dialog' = NoTool

FinishTool(u) ==
  UseTool(u, {"running"}, "done", {"post-tool-use"}) /\ UNCHANGED dialog

\* A turn starts or ends, or the agent waits for a prompt: never under a dialog.
TurnHook(kind) ==
  /\ proc # NoLaunch /\ Asking = {}
  /\ Post({kind}, NoTool)
  /\ UNCHANGED <<row, flight, pendingLaunch, spawn, probe, ending, agent, counts, dialog,
                 finalized>>

\* The process ends and takes its executions and its dialog along.
Gone == [u \in Tools |-> IF tool[u] = "new" THEN "new" ELSE "done"]

AgentExits ==
  /\ proc # NoLaunch
  /\ Post({"process-exited"}, NoTool)
  /\ proc' = NoLaunch /\ tool' = Gone /\ dialog' = NoTool
  /\ UNCHANGED <<row, flight, pendingLaunch, spawn, probe, ending, shell, toolName, counts, finalized>>

ShellDies ==
  /\ shell /\ shell' = FALSE
  /\ proc' = NoLaunch /\ tool' = Gone /\ dialog' = NoTool
  /\ UNCHANGED <<row, flight, pendingLaunch, spawn, probe, ending, toolName,
                 wire, counts, finalized>>

\* The user starts the agent again in the shell it left, under the same launch id.
RestartInShell ==
  /\ shell /\ proc = NoLaunch /\ launch # NoLaunch /\ spawn = "idle"
  /\ proc' = launch
  /\ UNCHANGED <<row, flight, pendingLaunch, spawn, probe, ending, shell, tool, toolName, wire, counts, dialog, finalized>>

LoseHook(h) ==
  /\ h \in wire /\ wire' = wire \ {h}
  /\ UNCHANGED <<row, flight, pendingLaunch, spawn, probe, ending, agent, counts, dialog,
                 finalized>>

-----------------------------------------------------------------------------
(* Hooks reach the reducer: ApplyActivitySignal                            *)

\* Fault: a termination does not notice that its row was written.
RowWrittenUnseen == UNCHANGED ending /\ finalized' = FALSE

RowWritten ==
  /\ ending' = [t \in Terminators |-> IF ending[t] = "fresh" THEN "stale" ELSE ending[t]]
  /\ finalized' = FALSE
RowMoved ==
  /\ ending' = [t \in Terminators |-> IF ending[t] = "idle" THEN "idle" ELSE "moved"]
  /\ finalized' = FALSE
RowKept == UNCHANGED <<ending, finalized>>
ForgetFlight == inflight' = {} /\ candidate' = NoTool

\* Fault: hooks do not wait for the launch under way.
ArrivesEarly(h) ==
  /\ h \in wire /\ wire' = wire \ {h}
  /\ UNCHANGED <<terminated, launch, pendingLaunch, spawn, probe, agent, counts>>

\* A hook of the launch being started waits until it is recorded or cancelled.
Arrives(h) ==
  /\ h \in wire /\ h.launch # pendingLaunch
  /\ wire' = wire \ {h}
  /\ UNCHANGED <<terminated, launch, pendingLaunch, spawn, probe, agent, counts>>

HookAfterEnd(h) ==
  /\ terminated
  /\ Arrives(h) /\ ForgetFlight /\ RowKept
  /\ UNCHANGED <<act, heard, dialog>>

StaleHook(h) ==
  /\ ~terminated /\ h.launch # launch
  /\ Arrives(h) /\ RowKept
  /\ UNCHANGED <<act, heard, flight, dialog>>

\* Only a submitted prompt proves that an exited agent was started again.
Resurrects(h) == h.kind \in {"user-prompt-submit", "process-exited"}

LateHook(h) ==
  /\ ~terminated /\ h.launch = launch /\ act = "exited" /\ ~Resurrects(h)
  /\ Arrives(h) /\ RowKept
  /\ UNCHANGED <<act, heard, flight, dialog>>

\* The executions open after the hook; a full table is emptied first.
Tracked(h) ==
  CASE h.kind = "pre-tool-use" ->
         (IF Cardinality(inflight) >= MaxInflight THEN {} ELSE inflight) \cup {h.tool}
    [] h.kind = "post-tool-use" -> inflight \ {h.tool}
    [] OTHER -> inflight

\* The execution a permission dialog is about: the one it names by id, or the only
\* open one with its tool's name.
Identified(u, open) ==
  IF NamesTool /\ u \in open THEN u
  ELSE LET namesakes == {v \in open : toolName[v] = toolName[u]}
       IN IF Cardinality(namesakes) = 1 THEN CHOOSE v \in namesakes : TRUE ELSE NoTool

\* Fault: the end of any execution ends the dialog.
SuppressedByName(h) ==
  \/ act = "blocked" /\ StateOf(h.kind) # "blocked" /\ h.kind \notin Boundaries \cup {"post-tool-use"}
  \/ act = "waiting_input" /\ h.kind \in {"pre-tool-use", "post-tool-use"}

\* Under a dialog only a turn boundary or the end of the dialog's own execution
\* counts; background tools do not end the wait for a prompt.
Suppressed(h) ==
  \/ /\ act = "blocked" /\ StateOf(h.kind) # "blocked" /\ h.kind \notin Boundaries
     /\ ~(h.kind = "post-tool-use" /\ h.tool = candidate)
  \/ act = "waiting_input" /\ h.kind \in {"pre-tool-use", "post-tool-use"}

TrackDialog(h) ==
  /\ inflight' = IF h.kind \in Boundaries THEN {} ELSE Tracked(h)
  /\ candidate' =
       CASE h.kind \in Boundaries -> NoTool
         [] h.kind = "permission-request" -> Identified(h.tool, inflight)
         [] act = "blocked" /\ h.kind = "post-tool-use" /\ h.tool = candidate -> NoTool
         [] OTHER -> candidate

ApplyHook(h) ==
  /\ ~terminated /\ h.launch = launch /\ (act = "exited" => Resurrects(h))
  /\ Arrives(h)
  /\ TrackDialog(h)
  /\ act' = IF Suppressed(h) THEN act ELSE StateOf(h.kind)
  /\ heard' = (heard \/ ~Suppressed(h))
  /\ IF act' # act \/ heard' # heard \/ h.kind = "user-prompt-submit" THEN RowWritten ELSE RowKept
  /\ dialog' = IF h.kind # "permission-request" THEN dialog
               ELSE IF tool[h.tool] = "asking" /\ h.tool \in inflight THEN h.tool ELSE NoTool

-----------------------------------------------------------------------------
(* Probes and terminations                                                 *)

TakeProbe ==
  /\ ~terminated /\ launch # NoLaunch /\ probe = NoProbe /\ ending["reaper"] = "idle"
  /\ ~shell \/ proc # launch
  /\ probe' = [launch |-> launch, found |-> IF shell THEN "workload_dead" ELSE "runtime_dead"]
  /\ UNCHANGED <<row, flight, pendingLaunch, spawn, ending, agent, wire, counts, dialog, finalized>>

\* Only time tells whether the activity is still recent; a sticky one always is.
MayBeOld == act \notin Sticky
MayBeRecent == act # "exited"
ProbeFits == ~terminated /\ (launch = NoLaunch \/ probe.launch = launch)

\* Fault: the executions of a dead agent stay open.
WorkloadDiedAlone ==
  /\ probe.found = "workload_dead" /\ ProbeFits /\ launch # NoLaunch /\ act # "exited"
  /\ probe' = NoProbe
  /\ act' = "exited"
  /\ RowWritten
  /\ UNCHANGED <<terminated, launch, heard, flight, pendingLaunch, spawn, agent, wire, counts, dialog>>

\* The agent is gone while its runtime lives on: exited, never terminated.
WorkloadDied ==
  /\ probe.found = "workload_dead" /\ ProbeFits /\ launch # NoLaunch /\ act # "exited"
  /\ probe' = NoProbe
  /\ act' = "exited"
  /\ ForgetFlight /\ RowWritten
  /\ UNCHANGED <<terminated, launch, heard, pendingLaunch, spawn, agent, wire, counts, dialog>>

\* A clearly dead runtime: usage is finalized for the row as it was read.
RuntimeDied ==
  /\ probe.found = "runtime_dead" /\ ProbeFits /\ MayBeOld
  /\ probe' = NoProbe
  /\ ending' = [ending EXCEPT !["reaper"] = "fresh"] /\ finalized' = TRUE
  /\ UNCHANGED <<row, flight, pendingLaunch, spawn, agent, wire, counts, dialog>>

ProbeIgnored ==
  /\ \/ probe.found = "workload_dead" /\ (~ProbeFits \/ launch = NoLaunch \/ act = "exited")
     \/ probe.found = "runtime_dead" /\ (~ProbeFits \/ MayBeRecent)
  /\ probe' = NoProbe
  /\ UNCHANGED <<row, flight, pendingLaunch, spawn, ending, agent, wire, counts, dialog,
                 finalized>>

\* MarkTerminated reads the row and finalizes its usage, again if the row changed since.
BeginEnd ==
  /\ ending["user"] \in {"idle", "stale"} /\ ~terminated
  /\ ending' = [ending EXCEPT !["user"] = "fresh"] /\ finalized' = TRUE
  /\ UNCHANGED <<row, flight, pendingLaunch, spawn, probe, agent, wire, counts, dialog>>

CommitEnd(t) ==
  /\ ending[t] = "fresh" /\ ~terminated
  /\ terminated' = TRUE /\ act' = "exited"
  /\ ForgetFlight
  /\ ending' = [s \in Terminators |-> IF s = t THEN "idle"
                                      ELSE IF ending[s] = "fresh" THEN "stale" ELSE ending[s]]
  /\ UNCHANGED <<launch, heard, pendingLaunch, spawn, probe, agent, wire, counts, dialog, finalized>>

\* Already terminated, relaunched meanwhile, or no longer the row the reaper read.
GiveUpEnd(t) ==
  /\ \/ ending[t] = "moved"
     \/ ending[t] # "idle" /\ terminated
     \/ t = "reaper" /\ ending[t] = "stale"
  /\ ending' = [ending EXCEPT ![t] = "idle"]
  /\ UNCHANGED <<row, flight, pendingLaunch, spawn, probe, agent, wire, counts, dialog,
                 finalized>>

-----------------------------------------------------------------------------
(* Launches, controller epochs and restarts                                *)

PrepareLaunch ==
  /\ spawn = "idle" /\ pendingLaunch = NoLaunch /\ launches + restarts < MaxEpochs
  /\ terminated \/ act = "exited" \/ launch = NoLaunch
  /\ launches' = launches + 1 /\ pendingLaunch' = launches' /\ spawn' = "prepared"
  /\ UNCHANGED <<row, flight, probe, ending, agent, wire, restarts, dialog, finalized>>

StartProcess ==
  /\ spawn = "prepared" /\ spawn' = "started"
  /\ proc' = launches /\ shell' = TRUE /\ tool' = Gone /\ dialog' = NoTool
  /\ UNCHANGED <<row, flight, pendingLaunch, probe, ending, toolName, wire,
                 counts, finalized>>

MarkSpawned ==
  /\ spawn = "started" /\ spawn' = "idle"
  /\ terminated' = FALSE /\ act' = "idle" /\ heard' = FALSE /\ launch' = launches
  /\ pendingLaunch' = NoLaunch
  /\ RowMoved
  /\ UNCHANGED <<flight, probe, agent, wire, counts, dialog>>

\* The runtime or the write of MarkSpawned fails: CancelLaunch lets the hooks go.
SpawnFails ==
  /\ spawn # "idle" /\ spawn' = "idle"
  /\ pendingLaunch' = NoLaunch
  /\ IF spawn = "started"
     THEN proc' = NoLaunch /\ shell' = FALSE /\ tool' = Gone /\ dialog' = NoTool
     ELSE UNCHANGED <<proc, shell, tool, dialog>>
  /\ UNCHANGED <<row, flight, probe, ending, toolName, wire, counts, finalized>>

\* A handoff stopped the source controller; the row waits for the target's launch.
CommitControllerEpoch ==
  /\ ~terminated /\ spawn = "idle" /\ proc = NoLaunch /\ launch # NoLaunch
  /\ act' = "idle" /\ launch' = NoLaunch
  /\ ForgetFlight /\ RowMoved
  /\ UNCHANGED <<terminated, heard, pendingLaunch, spawn, probe, agent, wire, counts, dialog>>

\* Everything but the row is memory; hooks in flight find the next daemon, or nobody.
DaemonRestarts ==
  /\ launches + restarts < MaxEpochs /\ restarts' = restarts + 1
  /\ ForgetFlight
  /\ pendingLaunch' = NoLaunch /\ spawn' = "idle" /\ probe' = NoProbe
  /\ ending' = [t \in Terminators |-> "idle"]
  /\ UNCHANGED <<row, agent, wire, launches, dialog, finalized>>

-----------------------------------------------------------------------------
AgentNext ==
  \/ \E u \in Tools : StartTool(u) \/ Ask(u) \/ Answer(u) \/ FinishTool(u)
  \/ \E kind \in {"user-prompt-submit", "stop", "idle-prompt"} : TurnHook(kind)
  \/ AgentExits \/ ShellDies \/ RestartInShell
  \/ \E h \in wire : LoseHook(h)

ReducerNext ==
  \/ \E h \in wire : HookAfterEnd(h) \/ StaleHook(h) \/ LateHook(h) \/ ApplyHook(h)
  \/ TakeProbe \/ WorkloadDied \/ RuntimeDied \/ ProbeIgnored
  \/ BeginEnd
  \/ \E t \in Terminators : CommitEnd(t) \/ GiveUpEnd(t)
  \/ PrepareLaunch \/ StartProcess \/ MarkSpawned \/ SpawnFails
  \/ CommitControllerEpoch \/ DaemonRestarts

LifeNext == AgentNext \/ ReducerNext
LifeSpec == LifeInit /\ [][LifeNext]_lifeVars

-----------------------------------------------------------------------------
(* Properties                                                              *)

\* While a dialog the reducer could identify is on screen, the session is shown
\* blocked (or its end is known): no hook of another execution and no restart of the
\* daemon makes it look as if it worked on.  The late permission hook of an agent that
\* died and was started again in its shell is the exception: the reducer takes it for
\* the dialog on screen, and may identify it with another execution.
DialogStays == dialog # NoTool => act \in {"blocked", "exited"}

\* No open execution and no dialog outlives the agent: whichever path learns of its
\* end first (hook, probe, kill), nothing is left that could clear a later dialog.
FlightsDieWithAgent == terminated \/ act = "exited" => inflight = {} /\ candidate = NoTool

\* A hook that overtakes the record of its own launch is never discarded as stale.
EarlyHookWaits ==
  [][\A h \in wire : StaleHook(h) => ~(spawn = "started" /\ h.launch = launches)]_lifeVars

\* A session is terminated only on top of usage finalized for that very row: no fact
\* was recorded between the two.
UsageIsFinal == terminated => finalized
=============================================================================
