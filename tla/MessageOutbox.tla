---------------------------- MODULE MessageOutbox ----------------------------
(***************************************************************************)
(* The durable outbox of a session whose controller is being switched       *)
(* (session_manager/interface_transition.go, manager.go, message_delivery.go *)
(* and sessionguard).  A message sent during a handoff is kept in a row of   *)
(* that handoff; after it, the worker of the handoff and the dispatcher of   *)
(* the daemon hand the rows to whichever controller is live, one attempt at  *)
(* a time.  Looking a handoff up, adding a row, handing it over and marking  *)
(* it are separate steps: a handoff may start or end, the agent ask or exit, *)
(* the write fail or the daemon die between any two.  A chat is handed a     *)
(* message in steps of its own: its controller records the message under its *)
(* client id, then gives it to the driver or leaves it queued behind the     *)
(* turn that runs, and may fail or be replaced in between.  What a driver    *)
(* does with a turn it took is the subject of ChatTurns.                     *)
(***************************************************************************)
EXTENDS Naturals, Sequences, FiniteSets

CONSTANTS
  Msgs,         \* the messages sent to the session
  MaxHandoffs,  \* bound on the handoffs of the session
  MaxTroubles   \* bound on failed writes and dispatches, deaths of the daemon, exits of the
                \* agent, handoffs that leave no controller, turns the user starts or
                \* stops and dialogs the agent opens, together

ASSUME MsgsAssumption == IsFiniteSet(Msgs)
ASSUME OutboxBounds == MaxHandoffs \in Nat /\ MaxTroubles \in Nat

VARIABLES
  phase,    \* each handoff: none, active, over
  queue,    \* the undelivered rows of each handoff, in id order
  sender,   \* how far the sender of each message is
  found,    \* the active handoff it looked up and did not use yet, or NoHandoff
  attempt,  \* the delivery attempt under transitionDeliveryAttemptMu
  round,    \* the handoffs the dispatcher has still to visit
  settle,   \* whether the worker of a handoff still owes its own attempt
  mode,     \* the session's mode
  activity, \* the session's activity; starting: idle, no hook since the launch
  live,     \* the session is not terminated
  owned,       \* there is a controller: a pane, or an open chat controller
  serving,  \* the daemon runs
  inbox,    \* what was written into the pane or taken by the chat driver: <<mode, message>>
  turn,     \* the conversation's turn of each message that was kept, or queued
  troubles, \* counted against their bound
  doubt     \* history: messages a hand-over of which came to no known end

rows == <<phase, queue>>
senders == <<sender, found>>
deliverer == <<attempt, round, settle>>
session == <<mode, activity, live, owned>>
agent == <<inbox, turn>>
outVars == <<rows, senders, deliverer, session, serving, agent, troubles, doubt>>

Handoffs == 1..MaxHandoffs
NoHandoff == 0
Modes == {"tui", "chat"}
NoAttempt == [handoff |-> NoHandoff, list |-> <<>>, step |-> "none", target |-> NoHandoff]
AttemptSteps == {"none", "wait", "look", "queue", "deliver", "dispatch", "mark"}
TurnStates == {"none", "recorded", "queued", "sent", "failed", "cancelled"}

OutboxTypeOK ==
  /\ phase \in [Handoffs -> {"none", "active", "over"}]
  /\ queue \in [Handoffs -> Seq(Msgs)]
  /\ sender \in [Msgs -> {"new", "looked", "accepted", "refused"}]
  /\ found \in [Msgs -> Handoffs \cup {NoHandoff}]
  /\ attempt \in [handoff : Handoffs \cup {NoHandoff}, list : Seq(Msgs), step : AttemptSteps,
                  target : Handoffs \cup {NoHandoff}]
  /\ round \in Seq(Handoffs) /\ settle \in [Handoffs -> BOOLEAN]
  /\ mode \in Modes /\ activity \in {"starting", "idle", "active", "blocked", "exited"}
  /\ live \in BOOLEAN /\ owned \in BOOLEAN /\ serving \in BOOLEAN
  /\ inbox \in Seq(Modes \X Msgs) /\ turn \in [Msgs -> TurnStates]
  /\ troubles \in 0..MaxTroubles
  /\ doubt \subseteq Msgs

OutboxInit ==
  /\ phase = [t \in Handoffs |-> "none"] /\ queue = [t \in Handoffs |-> <<>>]
  /\ sender = [m \in Msgs |-> "new"] /\ found = [m \in Msgs |-> NoHandoff]
  /\ attempt = NoAttempt /\ round = <<>> /\ settle = [t \in Handoffs |-> FALSE]
  /\ mode \in Modes /\ activity = "idle" /\ live = TRUE /\ owned = TRUE /\ serving = TRUE
  /\ inbox = <<>> /\ turn = [m \in Msgs |-> "none"] /\ troubles = 0 /\ doubt = {}

-----------------------------------------------------------------------------
(* Senders                                                                 *)

Active == {t \in Handoffs : phase[t] = "active"}
ActiveHandoff == IF Active = {} THEN NoHandoff ELSE CHOOSE t \in Active : TRUE

Received(m) == \E i \in DOMAIN inbox : inbox[i][2] = m
Held(m) == \E t \in Handoffs : \E i \in DOMAIN queue[t] : queue[t][i] = m

Trouble == troubles < MaxTroubles /\ troubles' = troubles + 1

\* The guard in front of the pane refuses a dead session, one whose agent exited and one
\* with a dialog open; the chat controller looks at the session's end only.
Accepts == live /\ (mode = "tui" => activity \notin {"blocked", "exited"})

Reaches(m) ==
  /\ inbox' = Append(inbox, <<mode, m>>)
  /\ activity' = IF activity \in {"starting", "idle"} THEN "active" ELSE activity
  /\ UNCHANGED <<mode, live, owned>>

\* A chat runs one turn at a time: while it is busy a message stays queued.
Busy == mode = "chat" /\ activity \in {"active", "blocked"}

LookUp(m) ==
  /\ serving /\ sender[m] = "new"
  /\ sender' = [sender EXCEPT ![m] = "looked"]
  /\ found' = [found EXCEPT ![m] = ActiveHandoff]
  /\ UNCHANGED <<rows, deliverer, session, serving, agent, troubles, doubt>>

\* The handoff is not looked at again: it may be over by now.
Enqueue(m) ==
  /\ serving /\ sender[m] = "looked" /\ found[m] # NoHandoff
  /\ queue' = [queue EXCEPT ![found[m]] = Append(@, m)]
  /\ sender' = [sender EXCEPT ![m] = "accepted"] /\ found' = [found EXCEPT ![m] = NoHandoff]
  /\ UNCHANGED <<phase, deliverer, session, serving, agent, troubles, doubt>>

\* No handoff was found: the message goes to the controller of the moment, without a client
\* id, or is refused.  A write or a dispatch that was attempted and failed is refused too,
\* though the agent may have it.
SendDirect(m) ==
  /\ serving /\ sender[m] = "looked" /\ found[m] = NoHandoff
  /\ \/ /\ Accepts /\ owned /\ ~Busy
        /\ Reaches(m) /\ UNCHANGED turn
        /\ \/ sender' = [sender EXCEPT ![m] = "accepted"] /\ UNCHANGED troubles
           \/ sender' = [sender EXCEPT ![m] = "refused"] /\ Trouble
     \/ /\ Accepts /\ owned /\ Busy
        /\ turn' = [turn EXCEPT ![m] = "queued"]
        /\ sender' = [sender EXCEPT ![m] = "accepted"]
        /\ UNCHANGED <<session, inbox, troubles>>
     \/ /\ sender' = [sender EXCEPT ![m] = "refused"]
        /\ UNCHANGED <<session, agent, troubles>>
  /\ UNCHANGED <<rows, found, deliverer, serving, doubt>>

-----------------------------------------------------------------------------
(* The session and its handoffs                                            *)

StartHandoff(t) ==
  /\ serving /\ live /\ phase[t] = "none"
  /\ \A s \in 1..(t - 1) : phase[s] = "over"
  /\ phase' = [phase EXCEPT ![t] = "active"]
  /\ UNCHANGED <<queue, senders, deliverer, session, serving, agent, troubles, doubt>>

\* A chat controller that is opened settles as failed what an earlier one left.
Orphaned == [m \in Msgs |-> IF turn[m] \in {"recorded", "queued"} THEN "failed" ELSE turn[m]]

\* A chat is stopped for a handoff once its queue is drained, or cancelled.
Drained ==
  mode = "chat" /\ owned /\ activity # "exited" => \A m \in Msgs : turn[m] # "queued"

\* Completed or rolled back, with a controller launched; cancelled in time; or given up as
\* recovery_required, with no controller behind the row.
EndHandoff(t) ==
  /\ serving /\ phase[t] = "active"
  /\ phase' = [phase EXCEPT ![t] = "over"]
  /\ settle' = [settle EXCEPT ![t] = TRUE]
  /\ \/ /\ Drained /\ mode' \in Modes /\ activity' = "starting" /\ owned' = TRUE
        /\ turn' = IF mode' = "chat" THEN Orphaned ELSE turn
        /\ UNCHANGED troubles
     \/ UNCHANGED <<mode, activity, owned, turn, troubles>>
     \/ /\ Drained /\ mode' \in Modes /\ activity' \in {activity, "starting"} /\ owned' = FALSE
        /\ turn' \in {turn, Orphaned}
        /\ Trouble
  /\ UNCHANGED <<queue, senders, attempt, round, live, serving, inbox, doubt>>

FirstSignal ==
  /\ owned /\ activity = "starting" /\ activity' = "idle"
  /\ UNCHANGED <<rows, senders, deliverer, mode, live, owned, serving, agent, troubles, doubt>>

TurnEnds ==
  /\ owned /\ activity = "active" /\ activity' = "idle"
  /\ UNCHANGED <<rows, senders, deliverer, mode, live, owned, serving, agent, troubles, doubt>>

\* The user starts a turn of its own, the agent opens a dialog, or it exits and its row
\* says so.
Stirs ==
  /\ owned /\ Trouble
  /\ \/ activity \in {"starting", "idle"} /\ activity' = "active"
     \/ activity = "active" /\ activity' = "blocked"
     \/ activity # "exited" /\ activity' = "exited"
  /\ UNCHANGED <<rows, senders, deliverer, mode, live, owned, serving, agent, doubt>>

Answered ==
  /\ owned /\ activity = "blocked" /\ activity' = "active"
  /\ UNCHANGED <<rows, senders, deliverer, mode, live, owned, serving, agent, troubles, doubt>>

\* The user resumes an agent that exited, or a chat that has no controller.
Resume ==
  /\ serving /\ live /\ (activity = "exited" \/ (mode = "chat" /\ ~owned))
  /\ activity' = "starting" /\ owned' = TRUE
  /\ turn' = IF mode = "chat" THEN Orphaned ELSE turn
  /\ UNCHANGED <<rows, senders, deliverer, mode, live, serving, inbox, troubles, doubt>>

\* drain: the turn is over, and the controller dispatches a queued message.
Drain(m) ==
  /\ serving /\ mode = "chat" /\ owned /\ activity = "idle" /\ turn[m] = "queued"
  /\ Reaches(m) /\ turn' = [turn EXCEPT ![m] = "sent"]
  /\ UNCHANGED <<rows, senders, deliverer, serving, troubles, doubt>>

DrainFails(m) ==
  /\ serving /\ mode = "chat" /\ owned /\ activity = "idle" /\ turn[m] = "queued" /\ Trouble
  /\ Reaches(m) \/ UNCHANGED <<session, inbox>>
  /\ turn' = [turn EXCEPT ![m] = "failed"] /\ doubt' = doubt \cup {m}
  /\ UNCHANGED <<rows, senders, deliverer, serving>>

\* The user stops the agent, and with it what is queued.
StopQueue ==
  /\ serving /\ mode = "chat" /\ owned /\ Trouble
  /\ \E m \in Msgs : turn[m] = "queued"
  /\ turn' = [m \in Msgs |-> IF turn[m] = "queued" THEN "cancelled" ELSE turn[m]]
  /\ UNCHANGED <<rows, senders, deliverer, session, serving, inbox, doubt>>

SessionEnds ==
  /\ live /\ live' = FALSE
  /\ UNCHANGED <<rows, senders, deliverer, mode, activity, owned, serving, agent, troubles, doubt>>

-----------------------------------------------------------------------------
(* Delivery attempts                                                       *)

\* Fault: only the latest handoff is looked at.
OwedByLatest ==
  {t \in Handoffs : /\ phase[t] = "over" /\ queue[t] # <<>>
                    /\ \A s \in Handoffs : s > t => phase[s] = "none"}

Owed == {t \in Handoffs : phase[t] = "over" /\ queue[t] # <<>>}

\* The rows are listed once: what is enqueued later waits for the next attempt.
StartAttempt(t) ==
  attempt' = IF queue[t] = <<>> THEN NoAttempt
             ELSE [handoff |-> t, list |-> queue[t], step |-> "wait", target |-> NoHandoff]

\* settleTransitionMessages: the worker of a handoff tries once.
Settle(t) ==
  /\ serving /\ settle[t] /\ attempt = NoAttempt
  /\ settle' = [settle EXCEPT ![t] = FALSE]
  /\ StartAttempt(t)
  /\ UNCHANGED <<rows, senders, round, session, serving, agent, troubles, doubt>>

\* The dispatcher, woken or by its timer, lists the handoffs that are over and owe a
\* message, and visits all of them whatever becomes of each.
Scan ==
  /\ serving /\ round = <<>> /\ Owed # {} /\ attempt = NoAttempt
  /\ round' \in {r \in [1..Cardinality(Owed) -> Owed] : \A i, j \in DOMAIN r : i < j => r[i] < r[j]}
  /\ UNCHANGED <<rows, senders, attempt, settle, session, serving, agent, troubles, doubt>>

Dispatch ==
  /\ serving /\ round # <<>> /\ attempt = NoAttempt
  /\ StartAttempt(Head(round)) /\ round' = Tail(round)
  /\ UNCHANGED <<rows, senders, settle, session, serving, agent, troubles, doubt>>

\* Nothing is pasted into a terminal whose agent has not reported since its launch.
Ready == live /\ (activity = "idle" \/ (mode = "chat" /\ activity = "starting"))

At(step) == serving /\ attempt.step = step
Goto(step) == attempt' = [attempt EXCEPT !.step = step]
Message == Head(attempt.list)

WaitEnds ==
  /\ At("wait")
  /\ IF Ready THEN Goto("look") ELSE attempt' = NoAttempt
  /\ UNCHANGED <<rows, senders, round, settle, session, serving, agent, troubles, doubt>>

\* send looks for an active handoff again: a new one takes the row over.
LookAgain ==
  /\ At("look")
  /\ attempt' = [attempt EXCEPT !.step = IF Active = {} THEN "deliver" ELSE "queue",
                                !.target = ActiveHandoff]
  /\ UNCHANGED <<rows, senders, round, settle, session, serving, agent, troubles, doubt>>

Requeue ==
  /\ At("queue") /\ Goto("mark")
  /\ queue' = [queue EXCEPT ![attempt.target] = Append(@, Message)]
  /\ UNCHANGED <<phase, senders, round, settle, session, serving, agent, troubles, doubt>>

\* Fault: the controller does not look its client ids up.
NeverKnown(m) == FALSE

\* The message has a turn in the conversation, whatever became of it.
Known(m) == turn[m] # "none"

\* RelayChatTurnWithID: a client id the conversation knows is taken for a message sent.
Record ==
  IF Known(Message) THEN Goto("mark") /\ UNCHANGED turn
  ELSE Goto("dispatch") /\ turn' = [turn EXCEPT ![Message] = "recorded"]

\* Fault: a message the guard refused is marked delivered.
DeliverOrMark ==
  /\ At("deliver")
  /\ IF mode = "chat" /\ live /\ owned THEN Record /\ UNCHANGED <<session, inbox>>
     ELSE /\ Goto("mark") /\ UNCHANGED turn
          /\ IF Accepts /\ owned THEN Reaches(Message) ELSE UNCHANGED <<session, inbox>>
  /\ UNCHANGED <<rows, senders, round, settle, serving, troubles, doubt>>

\* Recorded for the chat, or pasted into the pane; an attempt ends at the first error.
Deliver ==
  /\ At("deliver")
  /\ \/ /\ Accepts /\ owned /\ mode = "chat"
        /\ Record /\ UNCHANGED <<session, inbox>>
     \/ /\ Accepts /\ owned /\ mode = "tui"
        /\ Reaches(Message) /\ Goto("mark") /\ UNCHANGED turn
     \/ /\ ~Accepts \/ ~owned
        /\ attempt' = NoAttempt /\ UNCHANGED <<session, agent>>
  /\ UNCHANGED <<rows, senders, round, settle, serving, troubles, doubt>>

\* The messenger fails: the write was attempted, and its bytes may be in the pane.
WriteAttempted ==
  /\ At("deliver") /\ Accepts /\ mode = "tui" /\ attempt' = NoAttempt
  /\ \/ owned /\ Trouble /\ (Reaches(Message) \/ UNCHANGED <<session, inbox>>)
     \/ ~owned /\ UNCHANGED <<session, inbox, troubles>>
  /\ doubt' = doubt \cup {Message}
  /\ UNCHANGED <<rows, senders, round, settle, serving, turn>>

\* The driver takes the turn, or it stays queued behind the running one.
DispatchTurn ==
  /\ At("dispatch") /\ mode = "chat" /\ owned /\ turn[Message] = "recorded" /\ Goto("mark")
  /\ \/ ~Busy /\ Reaches(Message) /\ turn' = [turn EXCEPT ![Message] = "sent"]
     \/ Busy /\ UNCHANGED <<session, inbox>> /\ turn' = [turn EXCEPT ![Message] = "queued"]
  /\ UNCHANGED <<rows, senders, round, settle, serving, troubles, doubt>>

\* The driver returns an error, whether or not the provider accepted the turn: it is
\* settled as failed, and the row stays.
DispatchFails ==
  /\ At("dispatch") /\ attempt' = NoAttempt
  /\ turn' = [turn EXCEPT ![Message] = "failed"]
  /\ doubt' = doubt \cup {Message}
  /\ \/ /\ mode = "chat" /\ owned /\ ~Busy /\ Trouble
        /\ Reaches(Message) \/ UNCHANGED <<session, inbox>>
     \/ /\ mode # "chat" \/ ~owned \/ activity = "exited" \/ turn[Message] # "recorded"
        /\ UNCHANGED <<session, inbox, troubles>>
  /\ UNCHANGED <<rows, senders, round, settle, serving>>

\* Fault: the rows of an attempt are all marked when the first was handed over.
MarkBatch ==
  /\ At("mark") /\ attempt' = NoAttempt
  /\ queue' = [queue EXCEPT ![attempt.handoff] =
                 SubSeq(@, Len(attempt.list) + 1, Len(@))]
  /\ UNCHANGED <<phase, senders, round, settle, session, serving, agent, troubles, doubt>>

\* The listed rows are the head of the queue: they are added at its end and marked here.
Mark ==
  /\ At("mark")
  /\ queue' = [queue EXCEPT ![attempt.handoff] = Tail(@)]
  /\ attempt' = IF Tail(attempt.list) = <<>> THEN NoAttempt
                ELSE [attempt EXCEPT !.list = Tail(@), !.step = "look", !.target = NoHandoff]
  /\ UNCHANGED <<phase, senders, round, settle, session, serving, agent, troubles, doubt>>

\* What was handed over and not marked will be handed over again.
InDoubt == IF attempt.step \in {"dispatch", "mark"} THEN {Message} ELSE {}

WriteFails ==
  /\ serving /\ attempt.step \in {"look", "queue", "deliver", "mark"}
  /\ Trouble
  /\ attempt' = NoAttempt /\ doubt' = doubt \cup InDoubt
  /\ UNCHANGED <<rows, senders, round, settle, session, serving, agent>>

\* What was recorded or queued is settled as failed before a chat controller is opened
\* again; nobody looks at it until then.
DaemonDies ==
  /\ serving /\ serving' = FALSE
  /\ Trouble
  /\ attempt' = NoAttempt /\ round' = <<>> /\ settle' = [t \in Handoffs |-> FALSE]
  /\ doubt' = doubt \cup InDoubt
  /\ sender' = [m \in Msgs |-> IF sender[m] = "looked" THEN "refused" ELSE sender[m]]
  /\ found' = [m \in Msgs |-> NoHandoff]
  /\ turn' = Orphaned
  /\ UNCHANGED <<rows, session, inbox>>

\* recoverInterruptedInterfaceTransitions ends the handoff the daemon died in; a pane may
\* be adopted, a chat is always launched again.
Boot ==
  /\ ~serving /\ serving' = TRUE
  /\ phase' = [t \in Handoffs |-> IF phase[t] = "active" THEN "over" ELSE phase[t]]
  /\ \/ mode = "tui" /\ UNCHANGED <<activity, owned>>
     \/ activity' = "starting" /\ owned' = TRUE
  /\ UNCHANGED <<queue, senders, deliverer, mode, live, agent, troubles, doubt>>

-----------------------------------------------------------------------------
SendNext == \E m \in Msgs : LookUp(m) \/ Enqueue(m) \/ SendDirect(m)

SessionNext ==
  \/ \E t \in Handoffs : StartHandoff(t) \/ EndHandoff(t)
  \/ \E m \in Msgs : Drain(m) \/ DrainFails(m)
  \/ FirstSignal \/ TurnEnds \/ Stirs \/ Answered \/ Resume \/ StopQueue \/ SessionEnds

AttemptNext ==
  \/ WaitEnds \/ LookAgain \/ Requeue \/ Deliver \/ WriteAttempted
  \/ DispatchTurn \/ DispatchFails \/ Mark

OutboxNext ==
  \/ SendNext \/ SessionNext \/ AttemptNext
  \/ \E t \in Handoffs : Settle(t)
  \/ Scan \/ Dispatch \/ WriteFails \/ DaemonDies \/ Boot

\* The dispatcher and an attempt keep going, a daemon is started again, a handoff ends,
\* and an agent that runs reports its start and the end of its turn.
OutboxFairness ==
  /\ WF_outVars(Scan) /\ WF_outVars(Dispatch) /\ WF_outVars(AttemptNext) /\ WF_outVars(Boot)
  /\ WF_outVars(\E t \in Handoffs : EndHandoff(t))
  /\ WF_outVars(FirstSignal) /\ WF_outVars(TurnEnds)

OutboxSpec == OutboxInit /\ [][OutboxNext]_outVars
LiveOutbox == OutboxSpec /\ OutboxFairness

-----------------------------------------------------------------------------
(* Properties                                                              *)

\* A message whose sender was told it was sent has reached the agent, is in a row or is
\* queued for the agent, unless the user cancelled it: what the comment on
\* settleTransitionMessages and migration 0079 say of transient failures.  A dispatch that
\* fails once refutes it: its turn is settled as failed, the retry meets the client id, is
\* told that the message was sent, and the row is marked.
AcceptedIsKept ==
  \A m \in Msgs :
    sender[m] = "accepted" => Received(m) \/ Held(m) \/ turn[m] \in {"queued", "cancelled"}

\* What is true of it: no failure, race or death between the steps drops such a message
\* without a trace.  If it reached nobody and no row holds it, the conversation shows its
\* turn, as waiting, as cancelled by the user or as failed.
AcceptedIsOnRecord ==
  \A m \in Msgs :
    sender[m] = "accepted" =>
      Received(m) \/ Held(m) \/ turn[m] \in {"queued", "cancelled", "failed"}

\* A message reaches the agent a second time only if an earlier hand-over came to no known
\* end: its row could not be marked, the pane's write failed after it was attempted, or the
\* dispatch of its turn did.  A chat never gets it twice.
RepeatsOnlyInDoubt ==
  \A i, j \in DOMAIN inbox :
    i # j /\ inbox[i][2] = inbox[j][2] => inbox[i][2] \in doubt /\ "tui" \in {inbox[i][1], inbox[j][1]}

\* The outbox implements the abstract promise: a message is let go only once the agent has
\* it or the conversation shows its turn, and handed over again only in doubt, by whichever
\* of worker, dispatcher and drain.
Shown(m) == turn[m] \notin {"none", "recorded"}

Box == INSTANCE Mailbox
         WITH Channels <- Modes, Deduping <- {"chat"},
              told <- {m \in Msgs : sender[m] = "accepted"},
              kept <- {m \in Msgs : Held(m)},
              got <- inbox,
              shown <- {m \in Msgs : Shown(m)}
ImplementsMailbox == Box!MailboxSpec

\* Nobody takes a message: the agent waits for an answer or exited, or the last handoff
\* left no controller.
NobodyListens == activity \in {"blocked", "exited"} \/ ~owned

\* A held message is let go of, however often the daemon dies, the session is switched
\* again or the agent is busy, unless the session ends or from some moment on nobody
\* listens.
HeldIsDelivered ==
  \A m \in Msgs : [](Held(m) => <>(~Held(m) \/ ~live \/ []NobodyListens))
=============================================================================
