--------------------------- MODULE WorkKeepingProofs ---------------------------
(***************************************************************************)
(* WorkKeeping, for any set of edits, any number of deaths and every choice *)
(* of mishaps: the type invariant, and that a kill begun after the boot     *)
(* pass is final.  Capture before removal, the survival of the last capture *)
(* and the finality of every kill hold when no phone is served during the   *)
(* boot pass; "lan_early" refutes them, and each theorem says so.           *)
(*                                                                         *)
(* Five stores are written one after the other; what makes the order safe   *)
(* is that the boot pass has the stores for itself (BootAlone): from the    *)
(* capture to the removal nobody writes the worktree (SaveInv), and only a  *)
(* retirement captures while the agent still runs (RetireInv).  That a      *)
(* served kill is final needs none of it: it begins when the boot pass is   *)
(* over and forgets the marker before the row (KillInv).                    *)
(***************************************************************************)
EXTENDS WorkKeeping, TLAPS

Saving == {"mark_clean", "mark_captured", "terminate", "remove"}
Quiet == {"dead", "look", "leaked", "restore", "serving"}

\* Without Connect Mobile no request is served during the boot pass.
NoLan == "lan_early" \notin Mishaps

\* Requests are served only after the boot pass.
BootAlone == boot # "serving" => \A r \in Requests : op[r] = "idle"

\* Edits need a worktree.
TreeInv == ~tree => edits = {}

\* From the capture on the boot pass saves a worktree no agent writes.
SaveInv ==
  /\ boot \in Saving \cup {"save"} => ~pane
  /\ boot \in Saving => edits \subseteq captured

\* What a retirement will remove is in the ref, or younger than it.
RetireInv ==
  /\ Retiring => edits \subseteq captured \cup late
  /\ late \cap saved = {}
  /\ ~Retiring => late = {}

\* A served kill forgets the marker before it ends the session, and nobody writes a new
\* one: only a boot pass writes markers, and only of a session it found live.
KillInv ==
  /\ op["kill"] # "idle" /\ ~early => boot = "serving"
  /\ op["kill"] = "terminate" /\ ~early => marker \notin Restorable
  /\ killed = "served" => /\ ~live /\ op["restore"] = "idle"
                          /\ marker \notin Restorable /\ boot \in Quiet

\* Only the phone's kills begin during a boot pass.
EarlyInv == early \/ killed = "early" => ~NoLan

\* The two halves of the type invariant.
WorkFlagsOK ==
  /\ live \in BOOLEAN /\ tree \in BOOLEAN /\ pane \in BOOLEAN /\ early \in BOOLEAN
  /\ killed \in {"no", "early", "served"}
WorkStoresOK ==
  /\ marker \in Markers
  /\ edits \subseteq Edits /\ captured \subseteq Edits /\ branch \subseteq Edits
  /\ late \subseteq Edits /\ saved \subseteq Edits
  /\ boot \in BootSteps
  /\ op \in [Requests -> RequestSteps]
  /\ deaths \in 0..MaxDeaths

\* What holds of every instance, and what holds of those without Connect Mobile.
KillSafe == WorkFlagsOK /\ WorkStoresOK /\ KillInv /\ EarlyInv
WorkSafe == NoLan => BootAlone /\ TreeInv /\ SaveInv /\ RetireInv /\ LastCaptureSurvives
WorkInv == KillSafe /\ WorkSafe

USE DeathsAssumption

\* The daemon serves a fresh session.
LEMMA WorkInvInit == WorkInit => WorkInv
<1> SUFFICES ASSUME WorkInit PROVE WorkInv
  OBVIOUS
<1>. USE DEF WorkInit
<1>1. WorkFlagsOK
  BY DEF WorkFlagsOK
<1>2. WorkStoresOK
  BY DEF WorkStoresOK, Markers, BootSteps, Requests, RequestSteps
<1>3. BootAlone /\ TreeInv /\ SaveInv /\ LastCaptureSurvives
  BY DEF BootAlone, TreeInv, SaveInv, Saving, LastCaptureSurvives
<1>4. RetireInv /\ KillInv /\ EarlyInv
  BY DEF RetireInv, Retiring, KillInv, EarlyInv, Requests, Quiet
<1>. QED BY <1>1, <1>2, <1>3, <1>4 DEF WorkInv, KillSafe, WorkSafe

\* An edit made during a retirement is young.
LEMMA EditKeeps == ASSUME NEW e \in Edits, WorkInv, Edit(e) PROVE WorkInv'
<1>. USE DEF Edit, stores, history
<1>1. WorkFlagsOK'
  BY DEF WorkInv, KillSafe, WorkFlagsOK
<1>2. WorkStoresOK'
  BY DEF WorkInv, KillSafe, WorkStoresOK, Markers, BootSteps, Requests, RequestSteps
<1>3. KillInv'
  BY DEF WorkInv, KillSafe, WorkStoresOK, WorkFlagsOK, KillInv, Requests, RequestSteps, Quiet, Restorable
<1>4. EarlyInv'
  BY DEF WorkInv, KillSafe, EarlyInv, NoLan
<1>5. ASSUME NoLan PROVE BootAlone' /\ TreeInv' /\ SaveInv' /\ RetireInv' /\ LastCaptureSurvives'
  <2>. USE <1>5 DEF WorkInv, KillSafe, WorkSafe, NoLan
  <2>1. BootAlone'
    BY DEF BootAlone, WorkStoresOK, Requests
  <2>2. TreeInv'
    BY DEF TreeInv
  <2>3. SaveInv'
    BY DEF SaveInv, Saving, BootAlone, Requests
  <2>4. RetireInv'
    BY DEF RetireInv, Retiring, BootAlone, WorkStoresOK, Requests, TreeInv
  <2>5. LastCaptureSurvives'
    BY DEF LastCaptureSurvives, SaveInv, RetireInv, Retiring, Saving
  <2>. QED BY <2>1, <2>2, <2>3, <2>4, <2>5
<1>. QED BY <1>1, <1>2, <1>3, <1>4, <1>5 DEF WorkInv, KillSafe, WorkSafe, NoLan

\* A commit takes edits from the worktree to the branch.
LEMMA CommitKeeps == ASSUME WorkInv, Commit PROVE WorkInv'
<1>. USE DEF Commit, stores, history
<1>1. WorkFlagsOK'
  BY DEF WorkInv, KillSafe, WorkFlagsOK
<1>2. WorkStoresOK'
  BY DEF WorkInv, KillSafe, WorkStoresOK, Markers, BootSteps, Requests, RequestSteps
<1>3. KillInv'
  BY DEF WorkInv, KillSafe, WorkStoresOK, WorkFlagsOK, KillInv, Requests, RequestSteps, Quiet, Restorable
<1>4. EarlyInv'
  BY DEF WorkInv, KillSafe, EarlyInv, NoLan
<1>5. ASSUME NoLan PROVE BootAlone' /\ TreeInv' /\ SaveInv' /\ RetireInv' /\ LastCaptureSurvives'
  <2>. USE <1>5 DEF WorkInv, KillSafe, WorkSafe, NoLan
  <2>1. BootAlone'
    BY DEF BootAlone, WorkStoresOK, Requests
  <2>2. TreeInv'
    BY DEF TreeInv
  <2>3. SaveInv'
    BY DEF SaveInv, Saving, BootAlone, Requests
  <2>4. RetireInv'
    BY DEF RetireInv, Retiring, BootAlone, WorkStoresOK, Requests, TreeInv
  <2>5. LastCaptureSurvives'
    BY DEF LastCaptureSurvives, SaveInv, RetireInv, Retiring, Saving
  <2>. QED BY <2>1, <2>2, <2>3, <2>4, <2>5
<1>. QED BY <1>1, <1>2, <1>3, <1>4, <1>5 DEF WorkInv, KillSafe, WorkSafe, NoLan

\* A death of the daemon leaves no request under way.
LEMMA AccidentsKeep == ASSUME WorkInv, PaneDies \/ DaemonDies \/ Reap PROVE WorkInv'
<1>. USE DEF PaneDies, DaemonDies, Reap, stores, history, RetirementEnds
<1>1. WorkFlagsOK'
  BY DEF WorkInv, KillSafe, WorkFlagsOK
<1>2. WorkStoresOK'
  BY DEF WorkInv, KillSafe, WorkStoresOK, Markers, BootSteps, Requests, RequestSteps
<1>3. KillInv'
  BY DEF WorkInv, KillSafe, WorkStoresOK, WorkFlagsOK, KillInv, Requests, RequestSteps, Quiet, Restorable
<1>4. EarlyInv'
  BY DEF WorkInv, KillSafe, EarlyInv, NoLan
<1>5. ASSUME NoLan PROVE BootAlone' /\ TreeInv' /\ SaveInv' /\ RetireInv' /\ LastCaptureSurvives'
  <2>. USE <1>5 DEF WorkInv, KillSafe, WorkSafe, NoLan
  <2>1. BootAlone'
    BY DEF BootAlone, WorkStoresOK, Requests
  <2>2. TreeInv'
    BY DEF TreeInv
  <2>3. SaveInv'
    BY DEF SaveInv, Saving, BootAlone, Requests
  <2>4. RetireInv'
    BY DEF RetireInv, Retiring, BootAlone, WorkStoresOK, Requests, TreeInv
  <2>5. LastCaptureSurvives'
    BY DEF LastCaptureSurvives, SaveInv, RetireInv, Retiring, Saving
  <2>. QED BY <2>1, <2>2, <2>3, <2>4, <2>5
<1>. QED BY <1>1, <1>2, <1>3, <1>4, <1>5 DEF WorkInv, KillSafe, WorkSafe, NoLan

\* The boot pass captures what no pane writes any more.
LEMMA CaptureKeeps == ASSUME WorkInv, Capture PROVE WorkInv'
<1>. USE DEF Capture, StashUncommitted, stores, history
<1>1. WorkFlagsOK'
  BY DEF WorkInv, KillSafe, WorkFlagsOK
<1>2. WorkStoresOK'
  BY DEF WorkInv, KillSafe, WorkStoresOK, Markers, BootSteps, Requests, RequestSteps
<1>3. KillInv'
  BY DEF WorkInv, KillSafe, WorkStoresOK, WorkFlagsOK, KillInv, Requests, RequestSteps, Quiet, Restorable
<1>4. EarlyInv'
  BY DEF WorkInv, KillSafe, EarlyInv, NoLan
<1>5. ASSUME NoLan PROVE BootAlone' /\ TreeInv' /\ SaveInv' /\ RetireInv' /\ LastCaptureSurvives'
  <2>. USE <1>5 DEF WorkInv, KillSafe, WorkSafe, NoLan
  <2>1. BootAlone'
    BY DEF BootAlone, WorkStoresOK, Requests
  <2>2. TreeInv'
    BY DEF TreeInv
  <2>3. SaveInv'
    BY DEF SaveInv, Saving, BootAlone, Requests
  <2>4. RetireInv'
    BY DEF RetireInv, Retiring, BootAlone, WorkStoresOK, Requests, TreeInv
  <2>5. LastCaptureSurvives'
    BY DEF LastCaptureSurvives, SaveInv, RetireInv, Retiring, Saving
  <2>. QED BY <2>1, <2>2, <2>3, <2>4, <2>5
<1>. QED BY <1>1, <1>2, <1>3, <1>4, <1>5 DEF WorkInv, KillSafe, WorkSafe, NoLan

\* Between capture and removal the worktree stays as it was captured.
LEMMA SaveKeeps == ASSUME WorkInv, CaptureFails \/ WriteMarker \/ BootTerminate PROVE WorkInv'
<1>. USE DEF CaptureFails, WriteMarker, BootTerminate, stores, history, At, Goto
<1>1. WorkFlagsOK'
  BY DEF WorkInv, KillSafe, WorkFlagsOK
<1>2. WorkStoresOK'
  BY DEF WorkInv, KillSafe, WorkStoresOK, Markers, BootSteps, Requests, RequestSteps
<1>3. KillInv'
  BY DEF WorkInv, KillSafe, WorkStoresOK, WorkFlagsOK, KillInv, Requests, RequestSteps, Quiet, Restorable
<1>4. EarlyInv'
  BY DEF WorkInv, KillSafe, EarlyInv, NoLan
<1>5. ASSUME NoLan PROVE BootAlone' /\ TreeInv' /\ SaveInv' /\ RetireInv' /\ LastCaptureSurvives'
  <2>. USE <1>5 DEF WorkInv, KillSafe, WorkSafe, NoLan
  <2>1. BootAlone'
    BY DEF BootAlone, WorkStoresOK, Requests
  <2>2. TreeInv'
    BY DEF TreeInv
  <2>3. SaveInv'
    BY DEF SaveInv, Saving, BootAlone, Requests
  <2>4. RetireInv'
    BY DEF RetireInv, Retiring, BootAlone, WorkStoresOK, Requests, TreeInv
  <2>5. LastCaptureSurvives'
    BY DEF LastCaptureSurvives, SaveInv, RetireInv, Retiring, Saving
  <2>. QED BY <2>1, <2>2, <2>3, <2>4, <2>5
<1>. QED BY <1>1, <1>2, <1>3, <1>4, <1>5 DEF WorkInv, KillSafe, WorkSafe, NoLan

\* What the boot pass removes is in the ref.
LEMMA RemoveSavedKeeps == ASSUME WorkInv, RemoveSaved PROVE WorkInv'
<1>. USE DEF RemoveSaved, ForceDestroy, stores, history, At, Goto
<1>1. WorkFlagsOK'
  BY DEF WorkInv, KillSafe, WorkFlagsOK
<1>2. WorkStoresOK'
  BY DEF WorkInv, KillSafe, WorkStoresOK, Markers, BootSteps, Requests, RequestSteps
<1>3. KillInv'
  BY DEF WorkInv, KillSafe, WorkStoresOK, WorkFlagsOK, KillInv, Requests, RequestSteps, Quiet, Restorable
<1>4. EarlyInv'
  BY DEF WorkInv, KillSafe, EarlyInv, NoLan
<1>5. ASSUME NoLan PROVE BootAlone' /\ TreeInv' /\ SaveInv' /\ RetireInv' /\ LastCaptureSurvives'
  <2>. USE <1>5 DEF WorkInv, KillSafe, WorkSafe, NoLan
  <2>1. BootAlone'
    BY DEF BootAlone, WorkStoresOK, Requests
  <2>2. TreeInv'
    BY DEF TreeInv
  <2>3. SaveInv'
    BY DEF SaveInv, Saving, BootAlone, Requests
  <2>4. RetireInv'
    BY DEF RetireInv, Retiring, BootAlone, WorkStoresOK, Requests, TreeInv
  <2>5. LastCaptureSurvives'
    BY DEF LastCaptureSurvives, SaveInv, RetireInv, Retiring, Saving
  <2>. QED BY <2>1, <2>2, <2>3, <2>4, <2>5
<1>. QED BY <1>1, <1>2, <1>3, <1>4, <1>5 DEF WorkInv, KillSafe, WorkSafe, NoLan

\* Steps of the boot pass that write no store.
LEMMA BootWaitsKeep == ASSUME WorkInv, BootStart \/ BootList \/ Probe \/ ReapLeaked \/ ListSaved \/ RestoreFails PROVE WorkInv'
<1>. USE DEF BootStart, ReapLeaked, stores, history, At, Goto, BootList, Probe, ListSaved, RestoreFails
<1>1. WorkFlagsOK'
  BY DEF WorkInv, KillSafe, WorkFlagsOK
<1>2. WorkStoresOK'
  BY DEF WorkInv, KillSafe, WorkStoresOK, Markers, BootSteps, Requests, RequestSteps
<1>3. KillInv'
  BY DEF WorkInv, KillSafe, WorkStoresOK, WorkFlagsOK, KillInv, Requests, RequestSteps, Quiet, Restorable
<1>4. EarlyInv'
  BY DEF WorkInv, KillSafe, EarlyInv, NoLan
<1>5. ASSUME NoLan PROVE BootAlone' /\ TreeInv' /\ SaveInv' /\ RetireInv' /\ LastCaptureSurvives'
  <2>. USE <1>5 DEF WorkInv, KillSafe, WorkSafe, NoLan
  <2>1. BootAlone'
    BY DEF BootAlone, WorkStoresOK, Requests
  <2>2. TreeInv'
    BY DEF TreeInv
  <2>3. SaveInv'
    <3>1. CASE Probe
      BY <3>1 DEF SaveInv, Saving
    <3>2. CASE ~Probe
      BY <3>2 DEF SaveInv, Saving, BootAlone, Requests
    <3>. QED BY <3>1, <3>2
  <2>4. RetireInv'
    BY DEF RetireInv, Retiring, BootAlone, WorkStoresOK, Requests, TreeInv
  <2>5. LastCaptureSurvives'
    BY DEF LastCaptureSurvives, SaveInv, RetireInv, Retiring, Saving
  <2>. QED BY <2>1, <2>2, <2>3, <2>4, <2>5
<1>. QED BY <1>1, <1>2, <1>3, <1>4, <1>5 DEF WorkInv, KillSafe, WorkSafe, NoLan

\* A session with a marker was not killed.
LEMMA RestoreSavedKeeps == ASSUME WorkInv, RestoreSaved PROVE WorkInv'
<1>. USE DEF RestoreSaved, Attach, stores, history
<1>1. WorkFlagsOK'
  BY DEF WorkInv, KillSafe, WorkFlagsOK
<1>2. WorkStoresOK'
  BY DEF WorkInv, KillSafe, WorkStoresOK, Markers, BootSteps, Requests, RequestSteps
<1>3. KillInv'
  BY DEF WorkInv, KillSafe, WorkStoresOK, WorkFlagsOK, KillInv, Requests, RequestSteps, Quiet, Restorable
<1>4. EarlyInv'
  BY DEF WorkInv, KillSafe, EarlyInv, NoLan
<1>5. ASSUME NoLan PROVE BootAlone' /\ TreeInv' /\ SaveInv' /\ RetireInv' /\ LastCaptureSurvives'
  <2>. USE <1>5 DEF WorkInv, KillSafe, WorkSafe, NoLan
  <2>1. BootAlone'
    BY DEF BootAlone, WorkStoresOK, Requests
  <2>2. TreeInv'
    BY DEF TreeInv
  <2>3. SaveInv'
    BY DEF SaveInv, Saving, BootAlone, Requests
  <2>4. RetireInv'
    BY DEF RetireInv, Retiring, BootAlone, WorkStoresOK, Requests, TreeInv
  <2>5. LastCaptureSurvives'
    BY DEF LastCaptureSurvives, SaveInv, RetireInv, Retiring, Saving
  <2>. QED BY <2>1, <2>2, <2>3, <2>4, <2>5
<1>. QED BY <1>1, <1>2, <1>3, <1>4, <1>5 DEF WorkInv, KillSafe, WorkSafe, NoLan

\* A ref is dropped only after its edits are in the worktree.
LEMMA ReplayKeeps == ASSUME WorkInv, Replay PROVE WorkInv'
<1>. USE DEF Replay, ApplyPreserved, stores, history
<1>1. WorkFlagsOK'
  BY DEF WorkInv, KillSafe, WorkFlagsOK
<1>2. WorkStoresOK'
  BY DEF WorkInv, KillSafe, WorkStoresOK, Markers, BootSteps, Requests, RequestSteps
<1>3. KillInv'
  BY DEF WorkInv, KillSafe, WorkStoresOK, WorkFlagsOK, KillInv, Requests, RequestSteps, Quiet, Restorable
<1>4. EarlyInv'
  BY DEF WorkInv, KillSafe, EarlyInv, NoLan
<1>5. ASSUME NoLan PROVE BootAlone' /\ TreeInv' /\ SaveInv' /\ RetireInv' /\ LastCaptureSurvives'
  <2>. USE <1>5 DEF WorkInv, KillSafe, WorkSafe, NoLan
  <2>1. BootAlone'
    BY DEF BootAlone, WorkStoresOK, Requests
  <2>2. TreeInv'
    BY DEF TreeInv
  <2>3. SaveInv'
    BY DEF SaveInv, Saving, BootAlone, Requests
  <2>4. RetireInv'
    BY DEF RetireInv, Retiring, BootAlone, WorkStoresOK, Requests, TreeInv
  <2>5. LastCaptureSurvives'
    BY DEF LastCaptureSurvives, SaveInv, RetireInv, Retiring, Saving
  <2>. QED BY <2>1, <2>2, <2>3, <2>4, <2>5
<1>. QED BY <1>1, <1>2, <1>3, <1>4, <1>5 DEF WorkInv, KillSafe, WorkSafe, NoLan

\* What the boot pass brings back was not killed.
LEMMA BootRelaunchKeeps == ASSUME WorkInv, BootLaunch \/ BootSpawned \/ ConsumeMarker PROVE WorkInv'
<1>. USE DEF BootLaunch, BootSpawned, ConsumeMarker, stores, history, At, Goto
<1>1. WorkFlagsOK'
  BY DEF WorkInv, KillSafe, WorkFlagsOK
<1>2. WorkStoresOK'
  BY DEF WorkInv, KillSafe, WorkStoresOK, Markers, BootSteps, Requests, RequestSteps
<1>3. KillInv'
  BY DEF WorkInv, KillSafe, WorkStoresOK, WorkFlagsOK, KillInv, Requests, RequestSteps, Quiet, Restorable
<1>4. EarlyInv'
  BY DEF WorkInv, KillSafe, EarlyInv, NoLan
<1>5. ASSUME NoLan PROVE BootAlone' /\ TreeInv' /\ SaveInv' /\ RetireInv' /\ LastCaptureSurvives'
  <2>. USE <1>5 DEF WorkInv, KillSafe, WorkSafe, NoLan
  <2>1. BootAlone'
    BY DEF BootAlone, WorkStoresOK, Requests
  <2>2. TreeInv'
    BY DEF TreeInv
  <2>3. SaveInv'
    BY DEF SaveInv, Saving, BootAlone, Requests
  <2>4. RetireInv'
    BY DEF RetireInv, Retiring, BootAlone, WorkStoresOK, Requests, TreeInv
  <2>5. LastCaptureSurvives'
    BY DEF LastCaptureSurvives, SaveInv, RetireInv, Retiring, Saving
  <2>. QED BY <2>1, <2>2, <2>3, <2>4, <2>5
<1>. QED BY <1>1, <1>2, <1>3, <1>4, <1>5 DEF WorkInv, KillSafe, WorkSafe, NoLan

\* A restore takes the last word from the kill.
LEMMA StartsKeep == ASSUME WorkInv, StartKill \/ StartCleanup \/ StartRestore PROVE WorkInv'
<1>. USE DEF StartKill, StartCleanup, StartRestore, stores, history, At, Goto, Serves
<1>1. WorkFlagsOK'
  <2>1. early' = early \/ early' = (boot # "serving")
    OBVIOUS
  <2>2. early' \in BOOLEAN
    BY <2>1, ZenonT(30) DEF WorkInv, KillSafe, WorkFlagsOK
  <2>3. killed' = killed \/ killed' = "no"
    OBVIOUS
  <2>. QED BY <2>2, <2>3 DEF WorkInv, KillSafe, WorkFlagsOK
<1>2. WorkStoresOK'
  BY DEF WorkInv, KillSafe, WorkStoresOK, Markers, BootSteps, Requests, RequestSteps
<1>3. KillInv'
  <2>1. CASE StartKill
    <3>1. ~early' => boot = "serving"
      <4>1. early' <=> boot # "serving"
        BY <2>1, Zenon
      <4>. QED BY <4>1
    <3>2. /\ op'["kill"] = "pane" /\ op'["restore"] = op["restore"]
          /\ UNCHANGED <<live, marker, boot, killed>>
      BY <2>1 DEF WorkInv, KillSafe, WorkStoresOK, Requests, RequestSteps
    <3>. QED BY ONLY WorkInv, <3>1, <3>2 DEF WorkInv, KillSafe, KillInv
  <2>2. CASE StartCleanup \/ StartRestore
    BY <2>2 DEF WorkInv, KillSafe, WorkStoresOK, WorkFlagsOK, KillInv, Requests, RequestSteps, Quiet, Restorable
  <2>. QED BY <2>1, <2>2
<1>4. EarlyInv'
  BY DEF WorkInv, KillSafe, EarlyInv, NoLan
<1>5. ASSUME NoLan PROVE BootAlone' /\ TreeInv' /\ SaveInv' /\ RetireInv' /\ LastCaptureSurvives'
  <2>. USE <1>5 DEF WorkInv, KillSafe, WorkSafe, NoLan
  <2>1. BootAlone'
    BY DEF BootAlone, WorkStoresOK, Requests
  <2>2. TreeInv'
    BY DEF TreeInv
  <2>3. SaveInv'
    BY DEF SaveInv, Saving, BootAlone, Requests
  <2>4. RetireInv'
    BY DEF RetireInv, Retiring, BootAlone, WorkStoresOK, Requests, TreeInv
  <2>5. LastCaptureSurvives'
    BY DEF LastCaptureSurvives, SaveInv, RetireInv, Retiring, Saving
  <2>. QED BY <2>1, <2>2, <2>3, <2>4, <2>5
<1>. QED BY <1>1, <1>2, <1>3, <1>4, <1>5 DEF WorkInv, KillSafe, WorkSafe, NoLan

\* A retirement captures all there is.
LEMMA StartRetireKeeps == ASSUME WorkInv, StartRetire PROVE WorkInv'
<1>. USE DEF StartRetire, StashUncommitted, stores, history, At, Goto, Serves
<1>1. WorkFlagsOK'
  BY DEF WorkInv, KillSafe, WorkFlagsOK
<1>2. WorkStoresOK'
  BY DEF WorkInv, KillSafe, WorkStoresOK, Markers, BootSteps, Requests, RequestSteps
<1>3. KillInv'
  BY DEF WorkInv, KillSafe, WorkStoresOK, WorkFlagsOK, KillInv, Requests, RequestSteps, Quiet, Restorable
<1>4. EarlyInv'
  BY DEF WorkInv, KillSafe, EarlyInv, NoLan
<1>5. ASSUME NoLan PROVE BootAlone' /\ TreeInv' /\ SaveInv' /\ RetireInv' /\ LastCaptureSurvives'
  <2>. USE <1>5 DEF WorkInv, KillSafe, WorkSafe, NoLan
  <2>1. BootAlone'
    BY DEF BootAlone, WorkStoresOK, Requests
  <2>2. TreeInv'
    BY DEF TreeInv
  <2>3. SaveInv'
    BY DEF SaveInv, Saving, BootAlone, Requests
  <2>4. RetireInv'
    BY DEF RetireInv, Retiring, BootAlone, WorkStoresOK, Requests, TreeInv
  <2>5. LastCaptureSurvives'
    BY DEF LastCaptureSurvives, SaveInv, RetireInv, Retiring, Saving
  <2>. QED BY <2>1, <2>2, <2>3, <2>4, <2>5
<1>. QED BY <1>1, <1>2, <1>3, <1>4, <1>5 DEF WorkInv, KillSafe, WorkSafe, NoLan

\* A request kills the pane and no more.
LEMMA DestroyPaneKeeps == ASSUME NEW r \in {"kill", "cleanup", "retire"}, WorkInv, DestroyPane(r) PROVE WorkInv'
<1>. USE DEF DestroyPane, stores, history, At, Goto, Serves, RetirementEnds
<1>1. WorkFlagsOK'
  BY DEF WorkInv, KillSafe, WorkFlagsOK
<1>2. WorkStoresOK'
  BY DEF WorkInv, KillSafe, WorkStoresOK, Markers, BootSteps, Requests, RequestSteps
<1>3. KillInv'
  BY DEF WorkInv, KillSafe, WorkStoresOK, WorkFlagsOK, KillInv, Requests, RequestSteps, Quiet, Restorable
<1>4. EarlyInv'
  BY DEF WorkInv, KillSafe, EarlyInv, NoLan
<1>5. ASSUME NoLan PROVE BootAlone' /\ TreeInv' /\ SaveInv' /\ RetireInv' /\ LastCaptureSurvives'
  <2>. USE <1>5 DEF WorkInv, KillSafe, WorkSafe, NoLan
  <2>1. BootAlone'
    BY DEF BootAlone, WorkStoresOK, Requests
  <2>2. TreeInv'
    BY DEF TreeInv
  <2>3. SaveInv'
    BY DEF SaveInv, Saving, BootAlone, Requests
  <2>4. RetireInv'
    BY DEF RetireInv, Retiring, BootAlone, WorkStoresOK, Requests, TreeInv
  <2>5. LastCaptureSurvives'
    BY DEF LastCaptureSurvives, SaveInv, RetireInv, Retiring, Saving
  <2>. QED BY <2>1, <2>2, <2>3, <2>4, <2>5
<1>. QED BY <1>1, <1>2, <1>3, <1>4, <1>5 DEF WorkInv, KillSafe, WorkSafe, NoLan

\* git removes a clean worktree only.
LEMMA RemoveTreeKeeps == ASSUME NEW r \in {"kill", "cleanup"}, WorkInv, RemoveTree(r) PROVE WorkInv'
<1>. USE DEF RemoveTree, Destroy, stores, history, At, Goto, Serves
<1>1. WorkFlagsOK'
  BY DEF WorkInv, KillSafe, WorkFlagsOK
<1>2. WorkStoresOK'
  BY DEF WorkInv, KillSafe, WorkStoresOK, Markers, BootSteps, Requests, RequestSteps
<1>3. KillInv'
  BY DEF WorkInv, KillSafe, WorkStoresOK, WorkFlagsOK, KillInv, Requests, RequestSteps, Quiet, Restorable
<1>4. EarlyInv'
  BY DEF WorkInv, KillSafe, EarlyInv, NoLan
<1>5. ASSUME NoLan PROVE BootAlone' /\ TreeInv' /\ SaveInv' /\ RetireInv' /\ LastCaptureSurvives'
  <2>. USE <1>5 DEF WorkInv, KillSafe, WorkSafe, NoLan
  <2>1. BootAlone'
    BY DEF BootAlone, WorkStoresOK, Requests
  <2>2. TreeInv'
    BY DEF TreeInv
  <2>3. SaveInv'
    BY DEF SaveInv, Saving, BootAlone, Requests
  <2>4. RetireInv'
    BY DEF RetireInv, Retiring, BootAlone, WorkStoresOK, Requests, TreeInv
  <2>5. LastCaptureSurvives'
    BY DEF LastCaptureSurvives, SaveInv, RetireInv, Retiring, Saving
  <2>. QED BY <2>1, <2>2, <2>3, <2>4, <2>5
<1>. QED BY <1>1, <1>2, <1>3, <1>4, <1>5 DEF WorkInv, KillSafe, WorkSafe, NoLan

\* What a retirement removes is in the ref or young.
LEMMA RemoveRetiredKeeps == ASSUME WorkInv, RemoveRetired PROVE WorkInv'
<1>. USE DEF RemoveRetired, ForceDestroy, stores, history, At, Goto, Serves, RetirementEnds
<1>1. WorkFlagsOK'
  BY DEF WorkInv, KillSafe, WorkFlagsOK
<1>2. WorkStoresOK'
  BY DEF WorkInv, KillSafe, WorkStoresOK, Markers, BootSteps, Requests, RequestSteps
<1>3. KillInv'
  BY DEF WorkInv, KillSafe, WorkStoresOK, WorkFlagsOK, KillInv, Requests, RequestSteps, Quiet, Restorable
<1>4. EarlyInv'
  BY DEF WorkInv, KillSafe, EarlyInv, NoLan
<1>5. ASSUME NoLan PROVE BootAlone' /\ TreeInv' /\ SaveInv' /\ RetireInv' /\ LastCaptureSurvives'
  <2>. USE <1>5 DEF WorkInv, KillSafe, WorkSafe, NoLan
  <2>1. BootAlone'
    BY DEF BootAlone, WorkStoresOK, Requests
  <2>2. TreeInv'
    BY DEF TreeInv
  <2>3. SaveInv'
    BY DEF SaveInv, Saving, BootAlone, Requests
  <2>4. RetireInv'
    BY DEF RetireInv, Retiring, BootAlone, WorkStoresOK, Requests, TreeInv
  <2>5. LastCaptureSurvives'
    BY DEF LastCaptureSurvives, SaveInv, RetireInv, Retiring, Saving
  <2>. QED BY <2>1, <2>2, <2>3, <2>4, <2>5
<1>. QED BY <1>1, <1>2, <1>3, <1>4, <1>5 DEF WorkInv, KillSafe, WorkSafe, NoLan

\* The marker goes first.
LEMMA EndKeeps == ASSUME NEW r \in {"kill", "retire"}, WorkInv, ForgetMarker(r) \/ Terminate(r) PROVE WorkInv'
<1>. USE DEF ForgetMarker, Terminate, stores, history, At, Goto, Serves
<1>1. WorkFlagsOK'
  BY DEF WorkInv, KillSafe, WorkFlagsOK, LastWord
<1>2. WorkStoresOK'
  BY DEF WorkInv, KillSafe, WorkStoresOK, Markers, BootSteps, Requests, RequestSteps
<1>3. KillInv'
  BY DEF WorkInv, KillSafe, WorkStoresOK, WorkFlagsOK, KillInv, Requests, RequestSteps, Quiet, Restorable, LastWord
<1>4. EarlyInv'
  BY DEF WorkInv, KillSafe, EarlyInv, NoLan, LastWord
<1>5. ASSUME NoLan PROVE BootAlone' /\ TreeInv' /\ SaveInv' /\ RetireInv' /\ LastCaptureSurvives'
  <2>. USE <1>5 DEF WorkInv, KillSafe, WorkSafe, NoLan
  <2>1. BootAlone'
    BY DEF BootAlone, WorkStoresOK, Requests
  <2>2. TreeInv'
    BY DEF TreeInv
  <2>3. SaveInv'
    BY DEF SaveInv, Saving, BootAlone, Requests
  <2>4. RetireInv'
    BY DEF RetireInv, Retiring, BootAlone, WorkStoresOK, Requests, TreeInv
  <2>5. LastCaptureSurvives'
    BY DEF LastCaptureSurvives, SaveInv, RetireInv, Retiring, Saving
  <2>. QED BY <2>1, <2>2, <2>3, <2>4, <2>5
<1>. QED BY <1>1, <1>2, <1>3, <1>4, <1>5 DEF WorkInv, KillSafe, WorkSafe, NoLan

\* A restore under way is not killed.
LEMMA RestoreKeeps == ASSUME WorkInv, RestoreTree \/ Relaunch \/ Spawned PROVE WorkInv'
<1>. USE DEF RestoreTree, Attach, Relaunch, Spawned, stores, history, At, Goto, Serves
<1>1. WorkFlagsOK'
  BY DEF WorkInv, KillSafe, WorkFlagsOK
<1>2. WorkStoresOK'
  BY DEF WorkInv, KillSafe, WorkStoresOK, Markers, BootSteps, Requests, RequestSteps
<1>3. KillInv'
  BY DEF WorkInv, KillSafe, WorkStoresOK, WorkFlagsOK, KillInv, Requests, RequestSteps, Quiet, Restorable
<1>4. EarlyInv'
  BY DEF WorkInv, KillSafe, EarlyInv, NoLan
<1>5. ASSUME NoLan PROVE BootAlone' /\ TreeInv' /\ SaveInv' /\ RetireInv' /\ LastCaptureSurvives'
  <2>. USE <1>5 DEF WorkInv, KillSafe, WorkSafe, NoLan
  <2>1. BootAlone'
    BY DEF BootAlone, WorkStoresOK, Requests
  <2>2. TreeInv'
    BY DEF TreeInv
  <2>3. SaveInv'
    BY DEF SaveInv, Saving, BootAlone, Requests
  <2>4. RetireInv'
    BY DEF RetireInv, Retiring, BootAlone, WorkStoresOK, Requests, TreeInv
  <2>5. LastCaptureSurvives'
    BY DEF LastCaptureSurvives, SaveInv, RetireInv, Retiring, Saving
  <2>. QED BY <2>1, <2>2, <2>3, <2>4, <2>5
<1>. QED BY <1>1, <1>2, <1>3, <1>4, <1>5 DEF WorkInv, KillSafe, WorkSafe, NoLan

\* Every step keeps the invariant.
LEMMA WorkInvStep == WorkInv /\ [WorkNext]_workVars => WorkInv'
<1> SUFFICES ASSUME WorkInv, [WorkNext]_workVars PROVE WorkInv'
  OBVIOUS
<1>1. CASE (\E e \in Edits : Edit(e)) \/ Commit \/ PaneDies \/ DaemonDies \/ Reap
  BY <1>1, EditKeeps, CommitKeeps, AccidentsKeep
<1>2. CASE BootNext
  BY <1>2, CaptureKeeps, SaveKeeps, RemoveSavedKeeps, BootWaitsKeep, RestoreSavedKeeps,
     ReplayKeeps, BootRelaunchKeeps DEF BootNext
<1>3. CASE RequestNext
  BY <1>3, StartsKeep, StartRetireKeeps, DestroyPaneKeeps, RemoveTreeKeeps, RemoveRetiredKeeps,
     EndKeeps, RestoreKeeps DEF RequestNext
<1>4. CASE UNCHANGED workVars
  BY <1>4 DEF workVars, stores, history, WorkInv, WorkFlagsOK, WorkStoresOK, BootAlone, TreeInv,
              SaveInv, RetireInv, Retiring, KillInv, EarlyInv, KillSafe, WorkSafe,
              LastCaptureSurvives
<1>. QED BY <1>1, <1>2, <1>3, <1>4 DEF WorkNext

\* The stores, the boot pass and the requests stay in their types.
THEOREM WorkTypeCorrect == WorkSpec => []WorkTypeOK
<1>1. WorkInv => WorkTypeOK
  BY DEF WorkInv, KillSafe, WorkFlagsOK, WorkStoresOK, WorkTypeOK
<1>. QED BY WorkInvInit, WorkInvStep, <1>1, PTL DEF WorkSpec

\* What the last capture held is in the ref, in the worktree or on the branch, however
\* often the daemon dies and whatever fails, when no phone is served during a boot pass.
THEOREM CaptureSurvives ==
  ASSUME "lan_early" \notin Mishaps PROVE WorkSpec => []LastCaptureSurvives
<1>1. WorkInv => LastCaptureSurvives
  BY DEF WorkInv, WorkSafe, NoLan
<1>. QED BY WorkInvInit, WorkInvStep, <1>1, PTL DEF WorkSpec

\* No boot pass brings back a session whose kill began after the boot pass and was the
\* user's last word, whatever a phone asks for during later boot passes.
THEOREM ServedKillIsFinal == WorkSpec => []ServedKillStaysDead
<1>1. WorkInv => ServedKillStaysDead
  BY DEF WorkInv, KillSafe, KillInv, ServedKillStaysDead
<1>. QED BY WorkInvInit, WorkInvStep, <1>1, PTL DEF WorkSpec

\* Where no phone is served during a boot pass every answered kill is final: only a
\* request beside Reconcile can refute it.
THEOREM DeadStaysDead ==
  ASSUME "lan_early" \notin Mishaps PROVE WorkSpec => []KilledStaysDead
<1>1. WorkInv => KilledStaysDead
  BY DEF WorkInv, KillSafe, WorkFlagsOK, KillInv, EarlyInv, NoLan, KilledStaysDead
<1>. QED BY WorkInvInit, WorkInvStep, <1>1, PTL DEF WorkSpec

\* An edit that leaves the worktree is accounted for.
Kept == \A e \in edits \ edits' : e \in branch' \cup captured' \cup late

\* No step drops an edit that is neither committed nor captured.
LEMMA KeptStep == ASSUME NoLan PROVE WorkInv /\ [WorkNext]_workVars => [Kept]_workVars
<1> SUFFICES ASSUME WorkInv, [WorkNext]_workVars PROVE Kept \/ UNCHANGED workVars
  OBVIOUS
<1>. USE DEF Kept, stores, history
<1>1. ASSUME NEW e \in Edits, Edit(e) PROVE Kept
  BY <1>1 DEF Edit
<1>2. CASE Commit \/ PaneDies \/ DaemonDies \/ Reap
  BY <1>2 DEF Commit, PaneDies, DaemonDies, Reap
<1>3. CASE RemoveSaved
  BY <1>3 DEF RemoveSaved, ForceDestroy, WorkInv, WorkSafe, SaveInv, Saving
<1>4. CASE BootNext /\ ~RemoveSaved
  BY <1>4 DEF BootNext, BootStart, BootList, Probe, Capture, CaptureFails, WriteMarker, BootTerminate,
              ReapLeaked, ListSaved, RestoreSaved, Attach, RestoreFails, Replay, ApplyPreserved,
              BootLaunch, BootSpawned, ConsumeMarker
<1>5. CASE RemoveRetired
  BY <1>5 DEF RemoveRetired, At, ForceDestroy, WorkInv, WorkSafe, RetireInv, Retiring
<1>6. ASSUME NEW r, RemoveTree(r) PROVE Kept
  BY <1>6 DEF RemoveTree, Destroy
<1>7. CASE StartKill \/ StartCleanup \/ StartRetire \/ StartRestore \/ RestoreTree \/ Relaunch \/ Spawned
  BY <1>7 DEF StartKill, StartCleanup, StartRetire, StartRestore, RestoreTree, Attach, Relaunch, Spawned
<1>8. ASSUME NEW r, DestroyPane(r) \/ ForgetMarker(r) \/ Terminate(r) PROVE Kept
  BY <1>8 DEF DestroyPane, ForgetMarker, Terminate
<1>. QED BY <1>1, <1>2, <1>3, <1>4, <1>5, <1>6, <1>7, <1>8 DEF WorkNext, RequestNext

\* Capture before removal, over all interleavings and deaths, when no phone is served
\* during a boot pass.
THEOREM RemovalLosesNothing ==
  ASSUME "lan_early" \notin Mishaps PROVE WorkSpec => RemovalKeepsWork
<1>1. NoLan
  BY DEF NoLan
<1>2. WorkInv /\ [WorkNext]_workVars => [Kept]_workVars
  BY <1>1, KeptStep
<1>. QED BY WorkInvInit, WorkInvStep, <1>2, PTL DEF WorkSpec, RemovalKeepsWork, Kept
=============================================================================
