----------------------------- MODULE MCDelivery -----------------------------
(***************************************************************************)
(* The two deliveries of the daemon side by side, for one run of TLC: the   *)
(* outbox hands messages to the agent, the change feed hands events to the   *)
(* clients.  Neither reads a variable of the other, so an instance lets one *)
(* of them move and the other rest; an action is fair where it may move.    *)
(***************************************************************************)
EXTENDS MessageOutbox, ChangeFeed

VARIABLE focus \* the delivery that moves

deliveryVars == <<outVars, changeVars, focus>>

DeliveryInit ==
  /\ OutboxInit /\ ChangeInit
  /\ focus \in {"outbox", "feed"}
  /\ focus = "feed" => mode = "tui"

\* The messages are alike: "m1" is the name of the one that is sent first.
InTurn == sender'["m1"] = "new" => sender'["m2"] = "new"

OutboxMoves == focus = "outbox" /\ OutboxNext /\ InTurn /\ UNCHANGED <<changeVars, focus>>
FeedMoves == focus = "feed" /\ ChangeNext /\ UNCHANGED <<outVars, focus>>

\* The fairness of OutboxFairness and ChangeFairness.
InOutbox(A) == focus = "outbox" /\ A /\ UNCHANGED <<changeVars, focus>>
InFeed(A) == focus = "feed" /\ A /\ UNCHANGED <<outVars, focus>>

DeliveryFairness ==
  /\ WF_deliveryVars(InOutbox(Scan)) /\ WF_deliveryVars(InOutbox(Dispatch))
  /\ WF_deliveryVars(InOutbox(AttemptNext)) /\ WF_deliveryVars(InOutbox(Boot))
  /\ WF_deliveryVars(InOutbox(\E t \in Handoffs : EndHandoff(t)))
  /\ WF_deliveryVars(InOutbox(FirstSignal)) /\ WF_deliveryVars(InOutbox(TurnEnds))
  /\ WF_deliveryVars(InFeed(PollNext)) /\ WF_deliveryVars(InFeed(StreamStep))
  /\ WF_deliveryVars(InFeed(EndLost)) /\ WF_deliveryVars(InFeed(FeedRestarts))
  /\ WF_deliveryVars(InFeed(\E e \in wire : Receive(e)))

DeliverySpec ==
  DeliveryInit /\ [][OutboxMoves \/ FeedMoves]_deliveryVars /\ DeliveryFairness

\* The type invariants of the two deliveries.
DeliveryTypeOK == OutboxTypeOK /\ ChangeTypeOK
=============================================================================
