------------------------------ MODULE ChatTurns ------------------------------
(***************************************************************************)
(* The turns of one chat controller, from the message a user sends to the  *)
(* provider turn that answers it (service/chat/controller.go over the rows *)
(* of conversation_turns).  Messages wait in the database while the agent  *)
(* is busy; sendMu is held by whoever hands one to the provider: a sender, *)
(* the projection goroutine after a completed turn, the handoff worker or  *)
(* the goroutine an aborted handoff leaves behind.  Provider events reach  *)
(* the projection goroutine through a channel and are applied without      *)
(* sendMu, so everything dispatch does can interleave with them.           *)
(*                                                                         *)
(* Two kinds of driver: "acp" prepares a turn and starts it only after its *)
(* id is bound to the row, "codex" starts it before the id is known.       *)
(***************************************************************************)
EXTENDS Naturals, Sequences, FiniteSets

CONSTANTS
  Messages,   \* the messages users may send
  NoMessage,  \* not a message: no dispatch in progress
  Drivers,    \* the kinds of driver: "acp", "codex"
  MaxTurns,   \* bound on the turns the provider accepts
  MaxReopens, \* bound on the drains aborted handoffs leave behind
  Env         \* which of EnvKinds the instance includes

\* handoff: an interface switch prepares this controller, and may be cancelled;
\* brake: the user presses stop; brake_fails: the provider call of a stop fails;
\* close: the provider's stream ends; send_fails: a provider send fails;
\* lost_answers: and the eager provider may have accepted the turn all the same;
\* eager: a turn may be announced before the dispatcher has recorded its id.
EnvKinds == {"handoff", "brake", "brake_fails", "close", "send_fails", "lost_answers",
             "eager"}

ASSUME MessagesAssumption == IsFiniteSet(Messages) /\ NoMessage \notin Messages
ASSUME DriverAssumption == Drivers \subseteq {"acp", "codex"}
ASSUME BoundAssumption == MaxTurns \in Nat /\ MaxReopens \in Nat
ASSUME EnvAssumption == Env \subseteq EnvKinds

VARIABLES
  asked, state, boundTo, adopted, \* the turn rows: requested_at, state, provider turn
  late,                           \* those bound after the projection ended (history)
  pending, cutoff, gate,          \* the controller: pendingTurnID, cancelQueuedAt, handoff
  holder, call,                   \* who holds sendMu, and its dispatch
  projector, worker, reopens,     \* projection goroutine, BeginHandoff, AbortHandoff's drains
  brake,                          \* Interrupt calls in flight
  given, life, active, cut, events, closed, shut, \* the provider and its driver
  driver,                         \* the kind of driver
  halted                          \* messages an accepted stop found waiting (history)

rows       == <<asked, state, boundTo, adopted, late>>
memory     == <<pending, cutoff, gate>>
sendMu     == <<holder, call>>
goroutines == <<projector, worker, reopens>>
provider   == <<given, life, active, cut, events, closed, shut>>
vars == <<rows, memory, sendMu, goroutines, brake, provider, driver, halted>>

-----------------------------------------------------------------------------
(* Vocabulary                                                              *)

Turns == 1..MaxTurns
NoTurn == 0
NoCall == [step |-> "none", m |-> NoMessage, turn |-> NoTurn]
NoBrake == [pc |-> "idle", turn |-> NoTurn, behind |-> {}]
Brakers == {"user", "worker"}

RowStates == {"none", "queued", "running", "completed", "interrupted", "failed"}
Lives == {"none", "prepared", "accepted", "running", "ended"}
Events == [kind : {"started", "completed", "interrupted"}, turn : Turns]
Queued == {m \in Messages : state[m] = "queued"}
Asked == Cardinality({m \in Messages : asked[m] > 0})
Alive == {t \in Turns : life[t] \in {"accepted", "running"}}

RowsOK ==
  /\ asked \in [Messages -> 0..Cardinality(Messages)]
  /\ state \in [Messages -> RowStates]
  /\ boundTo \in [Messages -> Turns \cup {NoTurn}]
  /\ adopted \subseteq Turns
  /\ late \subseteq Messages

MemoryOK ==
  /\ pending \in Turns \cup {NoTurn}
  /\ cutoff \in 0..Cardinality(Messages)
  /\ gate \in {"open", "drain", "interrupt"}

SendMuOK ==
  /\ holder \in {"none", "sender", "projector", "worker", "reopener"}
  /\ call \in [step : {"none", "calling", "binding", "noting", "starting"},
               m : Messages \cup {NoMessage}, turn : Turns \cup {NoTurn}]
  /\ holder = "none" <=> call = NoCall

GoroutinesOK ==
  /\ projector \in {"loop", "draining", "ended"}
  /\ worker \in {"idle", "braking", "draining", "polling", "checking", "prepared"}
  /\ reopens \in 0..MaxReopens

BrakesOK ==
  /\ brake \in [Brakers -> [pc : {"idle", "cutting", "calling"},
                            turn : Turns \cup {NoTurn}, behind : SUBSET Messages]]
  /\ halted \subseteq Messages

ProviderOK ==
  /\ driver \in Drivers
  /\ given \in Seq(Messages) /\ Len(given) <= MaxTurns
  /\ life \in [Turns -> Lives]
  /\ active \in Turns \cup {NoTurn}
  /\ cut \subseteq Turns
  /\ events \in Seq(Events)
  /\ closed \in BOOLEAN /\ shut \in BOOLEAN

TypeOK == RowsOK /\ MemoryOK /\ SendMuOK /\ GoroutinesOK /\ BrakesOK /\ ProviderOK

\* A controller that was just started over a settled conversation.
Init ==
  /\ asked = [m \in Messages |-> 0]
  /\ state = [m \in Messages |-> "none"]
  /\ boundTo = [m \in Messages |-> NoTurn]
  /\ adopted = {} /\ late = {}
  /\ pending = NoTurn /\ cutoff = 0 /\ gate = "open"
  /\ holder = "none" /\ call = NoCall
  /\ projector = "loop" /\ worker = "idle" /\ reopens = 0
  /\ brake = [p \in Brakers |-> NoBrake]
  /\ given = <<>> /\ life = [t \in Turns |-> "none"]
  /\ active = NoTurn /\ cut = {} /\ events = <<>> /\ closed = FALSE /\ shut = FALSE
  /\ driver \in Drivers /\ halted = {}

-----------------------------------------------------------------------------
(* Sending and dispatching                                                 *)

Settles(m, how) == state' = [state EXCEPT ![m] = how]

\* A goroutine's drain is over.
Returned(who) ==
  /\ projector' = (IF who = "projector" THEN "loop" ELSE projector)
  /\ worker' = (IF who = "worker" THEN "polling" ELSE worker)
  /\ reopens' = (IF who = "reopener" THEN reopens - 1 ELSE reopens)

\* Fault: sendMu is released before the dispatch is over.
ReleasesEarly == holder' = "none" /\ UNCHANGED call /\ Returned(holder)

\* The dispatch is over: sendMu is released.
Releases ==
  /\ holder' = "none" /\ call' = NoCall
  /\ Returned(holder)

Dispatches(who, m) ==
  /\ holder' = who
  /\ call' = [step |-> "calling", m |-> m, turn |-> NoTurn]

\* Fault: a sender does not ask whether the agent is busy.
SendWhileBusy(m) ==
  /\ holder = "none" /\ gate = "open" /\ asked[m] = 0
  /\ asked' = [asked EXCEPT ![m] = Asked + 1]
  /\ Settles(m, "queued") /\ Dispatches("sender", m)
  /\ UNCHANGED <<boundTo, adopted, late, memory, goroutines, brake, provider, driver, halted>>

\* Send: the row first, then the provider unless the agent is busy.  A sender may
\* have looked this controller up before its stream ended.
Send(m) ==
  /\ holder = "none" /\ gate = "open" /\ asked[m] = 0
  /\ asked' = [asked EXCEPT ![m] = Asked + 1]
  /\ Settles(m, "queued")
  /\ IF pending = NoTurn THEN Dispatches("sender", m) ELSE UNCHANGED sendMu
  /\ UNCHANGED <<boundTo, adopted, late, memory, goroutines, brake, provider, driver, halted>>

\* The acp driver holds one prepared or active turn.
InFlight == driver = "acp" /\ (active # NoTurn \/ \E t \in Turns : life[t] = "prepared")

\* The driver would take a turn.  Codex asks the provider; acp prepares the turn on
\* its own (a settings call to the provider may come first) and looks only at whether
\* AO itself closed it: a provider that died is no reason to refuse.
Takes == IF driver = "acp" THEN ~shut /\ ~InFlight ELSE ~closed

\* conv.SendTurn is accepted.
SendTurn ==
  /\ call.step = "calling" /\ Takes /\ Len(given) < MaxTurns
  /\ LET t == Len(given) + 1 IN
       /\ given' = Append(given, call.m)
       /\ life' = [life EXCEPT ![t] = IF driver = "acp" THEN "prepared" ELSE "accepted"]
       /\ call' = [call EXCEPT !.step = "binding", !.turn = t]
  /\ UNCHANGED <<rows, memory, holder, goroutines, brake, active, cut, events,
                 closed, shut, driver, halted>>

\* conv.SendTurn returns an error, which says nothing of what the provider did.
SendTurnFails ==
  /\ call.step = "calling"
  /\ closed \/ ~Takes \/ "send_fails" \in Env
  /\ \/ UNCHANGED <<given, life>>
     \/ /\ "lost_answers" \in Env
        /\ driver = "codex" /\ ~closed /\ Len(given) < MaxTurns
        /\ given' = Append(given, call.m)
        /\ life' = [life EXCEPT ![Len(given) + 1] = "accepted"]
  /\ Settles(call.m, "failed")
  /\ Releases
  /\ UNCHANGED <<asked, boundTo, adopted, late, memory, brake, active, cut, events,
                 closed, shut, driver, halted>>

\* BindTurnToProvider: refused when the turn was already adopted under a row of its
\* own; otherwise the row runs, whatever it was.
Bind ==
  /\ call.step = "binding"
  /\ IF call.turn \in adopted
     THEN /\ life' = (IF driver = "acp" THEN [life EXCEPT ![call.turn] = "ended"] ELSE life)
          /\ Releases /\ UNCHANGED <<state, boundTo, late>>
     ELSE /\ boundTo' = [boundTo EXCEPT ![call.m] = call.turn]
          /\ Settles(call.m, "running")
          /\ call' = [call EXCEPT !.step = "noting"]
          /\ late' = (IF projector = "ended" THEN late \cup {call.m} ELSE late)
          /\ UNCHANGED <<life, holder, goroutines>>
  /\ UNCHANGED <<asked, adopted, memory, brake, given, active, cut, events, closed, shut,
                 driver, halted>>

\* Only now does the controller know that it is busy.
NotePending ==
  /\ call.step = "noting"
  /\ pending' = call.turn
  /\ IF driver = "acp"
     THEN call' = [call EXCEPT !.step = "starting"] /\ UNCHANGED <<holder, goroutines>>
     ELSE Releases
  /\ UNCHANGED <<rows, cutoff, gate, brake, provider, driver, halted>>

\* StartDeferredTurn: only a driver that AO closed refuses.  After the provider died
\* the turn starts and fails, but its events find no stream and nobody hears of it.
StartTurn ==
  /\ call.step = "starting"
  /\ IF shut
     THEN /\ pending' = NoTurn /\ Settles(call.m, "failed")
          /\ UNCHANGED <<life, active, events>>
     ELSE /\ life' = [life EXCEPT ![call.turn] = IF closed THEN "ended" ELSE "running"]
          /\ active' = call.turn
          /\ events' = (IF closed THEN events
                        ELSE Append(events, [kind |-> "started", turn |-> call.turn]))
          /\ UNCHANGED <<pending, state>>
  /\ Releases
  /\ UNCHANGED <<asked, boundTo, adopted, late, cutoff, gate, brake, given, cut, closed, shut,
                 driver, halted>>

Waits(who) ==
  \/ who = "projector" /\ projector = "draining"
  \/ who = "worker" /\ worker = "draining"
  \/ who = "reopener" /\ reopens > 0

\* Fault: a drain does not wait for sendMu.
DrainUnlocked(who) ==
  /\ Waits(who) /\ pending = NoTurn /\ gate # "interrupt"
  /\ \E m \in Queued : Dispatches(who, m)
  /\ UNCHANGED <<rows, memory, goroutines, brake, provider, driver, halted>>

\* drain: take the stop cutoff, cancel what was queued before it, dispatch the
\* oldest message left.  When the agent is busy again the cutoff is dropped.
Drain(who) ==
  /\ holder = "none" /\ Waits(who)
  /\ cutoff' = 0
  /\ LET swept == [m \in Messages |-> IF state[m] = "queued" /\ asked[m] <= cutoff
                                      THEN "interrupted" ELSE state[m]]
         left == {m \in Messages : swept[m] = "queued"}
     IN \/ /\ pending # NoTurn
           /\ Returned(who) /\ UNCHANGED <<state, sendMu>>
        \/ /\ pending = NoTurn /\ (left = {} \/ gate = "interrupt")
           /\ state' = swept
           /\ Returned(who) /\ UNCHANGED sendMu
        \/ /\ pending = NoTurn /\ gate # "interrupt"
           /\ state' = swept
           /\ \E m \in left : /\ \A n \in left : asked[m] <= asked[n]
                              /\ Dispatches(who, m)
           /\ UNCHANGED goroutines
  /\ UNCHANGED <<asked, boundTo, adopted, late, pending, gate, brake, provider, driver, halted>>

-----------------------------------------------------------------------------
(* The provider                                                            *)

Emits(kind, t) == events' = Append(events, [kind |-> kind, turn |-> t])

\* An eager provider announces a turn it accepted.
Announce(t) ==
  /\ life[t] = "accepted" /\ ("eager" \in Env \/ call.turn # t)
  /\ life' = [life EXCEPT ![t] = "running"]
  /\ Emits("started", t)
  /\ UNCHANGED <<rows, memory, sendMu, goroutines, brake, given, active, cut, closed, shut, driver, halted>>

\* The acp driver's runTurn forgets the turn only after it announced its end.
Complete(t) ==
  /\ life[t] = "running"
  /\ life' = [life EXCEPT ![t] = "ended"]
  /\ Emits(IF t \in cut THEN "interrupted" ELSE "completed", t)
  /\ UNCHANGED <<rows, memory, sendMu, goroutines, brake, given, active, cut, closed, shut,
                 driver, halted>>

ClearActive ==
  /\ active # NoTurn /\ life[active] = "ended"
  /\ active' = NoTurn
  /\ UNCHANGED <<rows, memory, sendMu, goroutines, brake, given, life, cut, events,
                 closed, shut, driver, halted>>

\* Controller.Close: AO closes the acp driver, which takes no further turn; stopping
\* the process then ends the stream.  (Codex only stops its process.)
Shut ==
  /\ "close" \in Env /\ driver = "acp" /\ ~shut
  /\ shut' = TRUE
  /\ UNCHANGED <<rows, memory, sendMu, goroutines, brake, given, life, active, cut, events,
                 closed, driver, halted>>

\* The stream ends: the provider died, or AO stopped its process.
Close ==
  /\ "close" \in Env /\ ~closed
  /\ closed' = TRUE
  /\ life' = [t \in Turns |-> IF life[t] \in {"accepted", "running"} THEN "ended" ELSE life[t]]
  /\ UNCHANGED <<rows, memory, sendMu, goroutines, brake, given, active, cut, events, shut, driver, halted>>

-----------------------------------------------------------------------------
(* The projection goroutine                                                *)

\* A turn nobody bound is adopted under a row of its own.
ProjectStarted ==
  /\ projector = "loop" /\ events # <<>> /\ Head(events).kind = "started"
  /\ events' = Tail(events)
  /\ pending' = Head(events).turn
  /\ adopted' = (IF \E m \in Messages : boundTo[m] = Head(events).turn
                 THEN adopted ELSE adopted \cup {Head(events).turn})
  /\ UNCHANGED <<asked, state, boundTo, late, cutoff, gate, sendMu, goroutines, brake,
                 given, life, active, cut, closed, shut, driver, halted>>

\* Fault: the end of a turn drains nothing.
ProjectCompletedNoDrain ==
  /\ projector = "loop" /\ events # <<>> /\ Head(events).kind # "started"
  /\ events' = Tail(events)
  /\ pending' = (IF pending = Head(events).turn THEN NoTurn ELSE pending)
  /\ state' = [m \in Messages |-> IF boundTo[m] = Head(events).turn
                                  THEN Head(events).kind ELSE state[m]]
  /\ UNCHANGED <<asked, boundTo, adopted, late, cutoff, gate, sendMu, goroutines, brake,
                 given, life, active, cut, closed, shut, driver, halted>>

\* Settle the row of the turn, then drain.
ProjectCompleted ==
  /\ projector = "loop" /\ events # <<>> /\ Head(events).kind # "started"
  /\ events' = Tail(events)
  /\ pending' = (IF pending = Head(events).turn THEN NoTurn ELSE pending)
  /\ state' = [m \in Messages |-> IF boundTo[m] = Head(events).turn
                                  THEN Head(events).kind ELSE state[m]]
  /\ projector' = "draining"
  /\ UNCHANGED <<asked, boundTo, adopted, late, cutoff, gate, sendMu, worker, reopens, brake,
                 given, life, active, cut, closed, shut, driver, halted>>

\* Fault: the end of the stream settles only what was never sent.
EndOfStreamQueuedOnly ==
  /\ projector = "loop" /\ events = <<>> /\ closed
  /\ state' = [m \in Messages |-> IF state[m] = "queued" THEN "failed" ELSE state[m]]
  /\ projector' = "ended"
  /\ UNCHANGED <<asked, boundTo, adopted, late, memory, sendMu, worker, reopens, brake,
                 provider, driver, halted>>

\* The stream is over: whatever is queued or running has failed.
EndOfStream ==
  /\ projector = "loop" /\ events = <<>> /\ closed
  /\ state' = [m \in Messages |-> IF state[m] \in {"queued", "running"}
                                  THEN "failed" ELSE state[m]]
  /\ projector' = "ended"
  /\ UNCHANGED <<asked, boundTo, adopted, late, memory, sendMu, worker, reopens, brake,
                 provider, driver, halted>>

-----------------------------------------------------------------------------
(* Stop                                                                    *)

\* Interrupt: which turn?  (Waiting for its acknowledgement is bounded, and what the
\* wait returns is the pending turn either way.)
BrakeRead ==
  /\ "brake" \in Env /\ brake["user"].pc = "idle" /\ pending # NoTurn
  /\ brake' = [brake EXCEPT !["user"] = [pc |-> "cutting", turn |-> pending, behind |-> {}]]
  /\ UNCHANGED <<rows, memory, sendMu, goroutines, provider, driver, halted>>

\* BeginHandoff's own Interrupt; a turn that ended meanwhile is ErrNoActiveTurn.
BrakeReadWorker ==
  /\ worker = "braking" /\ brake["worker"].pc = "idle"
  /\ IF pending = NoTurn
     THEN worker' = "polling" /\ UNCHANGED brake
     ELSE /\ brake' = [brake EXCEPT !["worker"] =
                         [pc |-> "cutting", turn |-> pending, behind |-> {}]]
          /\ UNCHANGED worker
  /\ UNCHANGED <<rows, memory, sendMu, projector, reopens, provider, driver, halted>>

\* The cutoff is recorded before the provider call.
BrakeCut(p) ==
  /\ brake[p].pc = "cutting"
  /\ cutoff' = Asked
  /\ brake' = [brake EXCEPT ![p].pc = "calling", ![p].behind = Queued \ {call.m}]
  /\ UNCHANGED <<rows, pending, gate, sendMu, goroutines, provider, driver, halted>>

BrakeReturns(p) == brake' = [brake EXCEPT ![p] = NoBrake]

AbortHandoff ==
  /\ gate' = "open"
  /\ reopens' = (IF gate = "drain" THEN reopens + 1 ELSE reopens)
  /\ worker' = "idle"

\* The provider accepts: the turn will end, and what waits behind it with it.
BrakeAccepted(p) ==
  /\ brake[p].pc = "calling" /\ life[brake[p].turn] = "running" /\ ~closed
  /\ driver = "acp" => brake[p].turn \notin cut
  /\ cut' = cut \cup {brake[p].turn}
  /\ halted' = halted \cup brake[p].behind
  /\ BrakeReturns(p)
  /\ worker' = (IF p = "worker" THEN "polling" ELSE worker)
  /\ UNCHANGED <<rows, memory, sendMu, projector, reopens, given, life, active, events,
                 closed, shut, driver>>

\* The turn is not active: the stop did not happen, and what waits is the user's again.
BrakeRefused(p) ==
  /\ brake[p].pc = "calling" /\ (life[brake[p].turn] # "running" \/ closed)
  /\ cutoff' = 0 /\ halted' = {}
  /\ BrakeReturns(p)
  /\ worker' = (IF p = "worker" THEN "polling" ELSE worker)
  /\ UNCHANGED <<rows, pending, gate, sendMu, projector, reopens, provider, driver>>

\* Any other error, a connection that is gone and the acp driver's "already in
\* progress" among them.
BrakeFails(p) ==
  /\ brake[p].pc = "calling"
  /\ \/ "brake_fails" \in Env \/ closed
     \/ driver = "acp" /\ life[brake[p].turn] = "running" /\ brake[p].turn \in cut
  /\ cutoff' = 0 /\ halted' = {}
  /\ BrakeReturns(p)
  /\ IF p = "worker" THEN AbortHandoff ELSE UNCHANGED <<gate, reopens, worker>>
  /\ UNCHANGED <<rows, pending, sendMu, projector, provider, driver>>

-----------------------------------------------------------------------------
(* The handoff                                                             *)

BeginHandoff(policy) ==
  /\ "handoff" \in Env /\ reopens < MaxReopens
  /\ worker = "idle" /\ holder = "none" /\ gate = "open" /\ projector # "ended"
  /\ gate' = policy
  /\ cutoff' = (IF policy = "interrupt" THEN Asked ELSE cutoff)
  /\ worker' = (IF pending = NoTurn THEN "draining"
                ELSE IF policy = "interrupt" THEN "braking" ELSE "polling")
  /\ UNCHANGED <<rows, pending, sendMu, projector, reopens, brake, provider, driver, halted>>

\* The quiescence loop reads the memory first and the rows after it.
PollBusy ==
  /\ worker = "polling" /\ pending = NoTurn
  /\ worker' = "checking"
  /\ UNCHANGED <<rows, memory, sendMu, projector, reopens, brake, provider, driver, halted>>

\* Fault: quiescent as soon as no turn is pending, whatever waits.
PollQueueBlindly ==
  /\ worker = "checking" /\ worker' = "prepared"
  /\ UNCHANGED <<rows, memory, sendMu, projector, reopens, brake, provider, driver, halted>>

PollQueue ==
  /\ worker = "checking"
  /\ worker' = (IF Queued = {} THEN "prepared"
                ELSE IF gate = "drain" THEN "draining" ELSE "polling")
  /\ UNCHANGED <<rows, memory, sendMu, projector, reopens, brake, provider, driver, halted>>

\* Fault: the end of the stream counts only for an idle agent.
PollStoppedIdle ==
  /\ worker = "polling" /\ projector = "ended" /\ pending = NoTurn
  /\ worker' = "prepared"
  /\ UNCHANGED <<rows, memory, sendMu, projector, reopens, brake, provider, driver, halted>>

PollStopped ==
  /\ worker = "polling" /\ projector = "ended"
  /\ worker' = "prepared"
  /\ UNCHANGED <<rows, memory, sendMu, projector, reopens, brake, provider, driver, halted>>

\* The switch is cancelled while it waits, or before it stops the controller.
CancelHandoff ==
  /\ worker \in {"polling", "prepared"}
  /\ AbortHandoff
  /\ UNCHANGED <<rows, pending, cutoff, sendMu, projector, brake, provider, driver, halted>>

-----------------------------------------------------------------------------
(* The specification                                                       *)

DispatchStep == SendTurn \/ SendTurnFails \/ Bind \/ NotePending \/ StartTurn
DrainStep == \E who \in {"projector", "worker", "reopener"} : Drain(who)
ProviderStep == (\E t \in Turns : Announce(t) \/ Complete(t)) \/ ClearActive
ProjectStep == ProjectStarted \/ ProjectCompleted \/ EndOfStream
BrakeStep(p) == BrakeCut(p) \/ BrakeAccepted(p) \/ BrakeRefused(p) \/ BrakeFails(p)
PollStep == PollBusy \/ PollQueue \/ PollStopped

Next ==
  \/ \E m \in Messages : Send(m)
  \/ DispatchStep \/ DrainStep \/ ProviderStep \/ Shut \/ Close \/ ProjectStep
  \/ BrakeRead \/ BrakeReadWorker \/ (\E p \in Brakers : BrakeStep(p))
  \/ (\E policy \in {"drain", "interrupt"} : BeginHandoff(policy))
  \/ PollStep \/ CancelHandoff

Spec == Init /\ [][Next]_vars

\* Goroutines run, sync.Mutex starves nobody, and a turn that runs ends.
Fairness ==
  /\ WF_vars(DispatchStep) /\ WF_vars(ProviderStep) /\ WF_vars(ProjectStep)
  /\ WF_vars(BrakeReadWorker) /\ WF_vars(PollStep)
  /\ \A p \in Brakers : WF_vars(BrakeStep(p))
  /\ \A who \in {"projector", "worker", "reopener"} : SF_vars(Drain(who))

FairSpec == Spec /\ Fairness

-----------------------------------------------------------------------------
(* Properties                                                              *)

\* A message is handed to the provider at most once: "a duplicate turn would run
\* the work twice" (dispatch).
AtMostOnce ==
  \A i, j \in 1..Len(given) : given[i] = given[j] => i = j

\* The agent is never busy for good: while a turn is pending and nobody is about to
\* start it, that turn runs, or its end is on its way to the projection goroutine.
\* (False of an eager provider whose turn comes and goes before dispatch, which holds
\* only sendMu, wrote down that it is pending.)
BusyWillEnd ==
  pending # NoTurn /\ call.turn # pending /\ ~closed =>
    \/ life[pending] \in {"accepted", "running"}
    \/ \E i \in 1..Len(events) : events[i].kind # "started" /\ events[i].turn = pending

\* A row that says "running" belongs to a turn that is being started, runs, or has an
\* end that will be projected; when the stream ends, project settles the rest.  Only
\* a row bound after that (late) is nobody's.
RunningIsReal ==
  \A m \in Messages :
    state[m] = "running" =>
      \/ call.m = m
      \/ life[boundTo[m]] \in {"accepted", "running"}
      \/ \E i \in 1..Len(events) :
           events[i].kind # "started" /\ events[i].turn = boundTo[m]
      \/ closed /\ projector # "ended"
      \/ m \in late

\* Once the stream ended and nothing is being dispatched, no row is "left looking live
\* forever" (project).
NothingLooksLive ==
  projector = "ended" /\ call = NoCall =>
    \A m \in Messages : state[m] # "running"

\* The provider is never given a second turn while it works on one.
OneTurn == Cardinality(Alive) <= 1

\* A drain that reports quiescence has finished all the work AO had accepted.
DrainFinishes ==
  worker = "prepared" /\ gate = "drain" /\ ~closed =>
    \A m \in Messages : state[m] \notin {"queued", "running"}

\* A stop-now handoff that reports quiescence left nothing running and nothing that
\* could still be sent.
InterruptFinishes ==
  worker = "prepared" /\ gate = "interrupt" /\ ~closed =>
    \A m \in Messages : state[m] \notin {"queued", "running"}

\* A message that waited when a stop was accepted is not sent afterwards, unless a
\* later stop failed and gave the queue back.
BrakeHolds ==
  \A m \in halted : state[m] \notin {"running", "completed"}

\* A queued message is sent or settled in the end, unless a send failed, the stream
\* ended or a stop-now handoff held it back.
QueuedIsServed ==
  []("interrupt" # gate /\ ~closed /\ \A m \in Messages : state[m] # "failed")
    => \A m \in Messages : state[m] = "queued" ~> state[m] # "queued"

\* A handoff that drains comes to an end.
DrainEnds ==
  worker # "idle" /\ gate = "drain" ~> worker \in {"idle", "prepared"}
=============================================================================
