------------------------- MODULE MessageOutboxProofs -------------------------
(***************************************************************************)
(* MessageOutbox stays in its type, keeps every message it accepted or the  *)
(* turn that shows what became of it, and repeats one only in doubt, for    *)
(* any messages, handoffs and failures.                                     *)
(*                                                                         *)
(* An attempt works on a prefix of the rows of a handoff that is over       *)
(* (AttemptInv): so the row it marks is the message it handed over, and the *)
(* handoff it puts the message into again is another one.  What is about to *)
(* be marked is elsewhere already, or the conversation shows its turn       *)
(* (MarkInv, KeptInv): a turn is recorded only while an attempt dispatches  *)
(* it, so the client id a retry meets belongs to a turn that waits, was     *)
(* sent, cancelled or failed (TurnInv).  Of a message that is not in doubt  *)
(* there is one copy, in a row, in the chat's queue or in the inbox, beside *)
(* the row that is about to be marked (OnceInv).                            *)
(*                                                                         *)
(* The same facts show that the outbox implements Mailbox.  A held message *)
(* is always within the dispatcher's reach, because a handoff somebody     *)
(* looked up has begun and can only end (StartedInv), and the dispatcher   *)
(* can always set out on its round.                                        *)
(***************************************************************************)
EXTENDS MessageOutbox, SequenceTheorems, FiniteSetTheorems, TLAPS

\* The type invariant in parts.
RowsOK ==
  /\ phase \in [Handoffs -> {"none", "active", "over"}]
  /\ queue \in [Handoffs -> Seq(Msgs)]
SendersOK ==
  /\ sender \in [Msgs -> {"new", "looked", "accepted", "refused"}]
  /\ found \in [Msgs -> Handoffs \cup {NoHandoff}]
DelivererOK ==
  /\ attempt \in [handoff : Handoffs \cup {NoHandoff}, list : Seq(Msgs), step : AttemptSteps,
                  target : Handoffs \cup {NoHandoff}]
  /\ round \in Seq(Handoffs)
SettleOK == settle \in [Handoffs -> BOOLEAN]
SessionOK ==
  /\ mode \in Modes /\ activity \in {"starting", "idle", "active", "blocked", "exited"}
  /\ live \in BOOLEAN /\ owned \in BOOLEAN /\ serving \in BOOLEAN
  /\ troubles \in 0..MaxTroubles
BoxOK == inbox \in Seq(Modes \X Msgs) /\ doubt \subseteq Msgs
TurnOK == turn \in [Msgs -> TurnStates]

\* Only handoffs that are over are visited.
OverInv ==
  /\ \A t \in Handoffs : settle[t] => phase[t] = "over"
  /\ \A i \in DOMAIN round : phase[round[i]] = "over"

\* What an attempt lists is a prefix of the rows of its handoff.
AttemptInv ==
  attempt.step # "none" =>
    /\ attempt.handoff \in Handoffs /\ phase[attempt.handoff] = "over"
    /\ attempt.list # <<>> /\ Len(attempt.list) <= Len(queue[attempt.handoff])
    /\ \A i \in DOMAIN attempt.list : attempt.list[i] = queue[attempt.handoff][i]

\* A row is put into another handoff, never into the one it came from.
TargetInv ==
  /\ attempt.step = "queue" => attempt.target \in Handoffs
  /\ attempt.step \in {"deliver", "dispatch"} => attempt.target = NoHandoff
  /\ attempt.step \in {"queue", "mark"} => attempt.target # attempt.handoff

\* The message whose row is about to be marked is in its new row or in the inbox, or the
\* conversation shows its turn.
MarkInv ==
  attempt.step = "mark" =>
    IF attempt.target = NoHandoff THEN Received(Message) \/ Shown(Message)
    ELSE \E i \in DOMAIN queue[attempt.target] : queue[attempt.target][i] = Message

\* The chat has the message in its transcript of what it took.
TakenByChat(m) == \E i \in DOMAIN inbox : inbox[i] = <<"chat", m>>

\* A turn is recorded while an attempt dispatches it, and only then; what the chat took
\* neither waits in its queue nor will be dispatched, and a retry meets its turn.
TurnInv ==
  /\ \A m \in Msgs : turn[m] = "recorded" => attempt.step = "dispatch" /\ m = Message
  /\ attempt.step = "dispatch" => turn[Message] \in {"recorded", "failed"} /\ ~TakenByChat(Message)
  /\ \A m \in Msgs : turn[m] = "sent" => Received(m)
  /\ \A m \in Msgs : (TakenByChat(m) => turn[m] \in {"none", "sent", "failed"}
                                        /\ (Held(m) => turn[m] # "none"))

\* Only an accepted message has a row; one that has reached the agent, or has a turn, was
\* sent.
SentInv ==
  \A m \in Msgs : /\ Held(m) => sender[m] = "accepted"
                  /\ Received(m) \/ turn[m] # "none" => sender[m] \in {"accepted", "refused"}

\* An accepted message reached the agent, is in a row, or is shown.
KeptInv == \A m \in Msgs : sender[m] = "accepted" => Received(m) \/ Held(m) \/ Shown(m)

\* The row that is about to be marked.
Passed(t, i) == attempt.step = "mark" /\ t = attempt.handoff /\ i = 1

\* A message that is not in doubt has one copy: one row, then one place in the chat's queue
\* or one entry of the inbox, the row about to be marked aside.
OneRow(m) ==
  \A s, t \in Handoffs : \A i \in DOMAIN queue[s], j \in DOMAIN queue[t] :
    queue[s][i] = m /\ queue[t][j] = m /\ ~Passed(s, i) /\ ~Passed(t, j) => s = t /\ i = j
RowOrPassed(m) ==
  Received(m) \/ turn[m] = "queued" =>
    \A t \in Handoffs : \A i \in DOMAIN queue[t] : queue[t][i] = m => Passed(t, i)
QueuedOrIn(m) == turn[m] = "queued" => ~Received(m)
OneEntry(m) == \A i, j \in DOMAIN inbox : inbox[i][2] = m /\ inbox[j][2] = m => i = j
Once(m) == OneRow(m) /\ RowOrPassed(m) /\ QueuedOrIn(m) /\ OneEntry(m)
OnceInv == \A m \in Msgs : m \notin doubt => Once(m)

\* The chat never takes a message twice.
ChatInv == \A i, j \in DOMAIN inbox : i # j => ~(inbox[i][1] = "chat" /\ inbox[j] = inbox[i])

TypeParts == RowsOK /\ SendersOK /\ DelivererOK /\ SettleOK /\ SessionOK /\ BoxOK /\ TurnOK
OutInv ==
  /\ TypeParts /\ OverInv /\ AttemptInv /\ TargetInv /\ MarkInv /\ TurnInv /\ SentInv
  /\ KeptInv /\ OnceInv /\ ChatInv

\* The steps in which an attempt hands its message over, or fails to.
HandStep == Deliver \/ WriteAttempted \/ DispatchTurn \/ DispatchFails

\* The steps of the chat's own queue.
QueueStep == StopQueue \/ \E m \in Msgs : Drain(m) \/ DrainFails(m)

USE OutboxBounds

-----------------------------------------------------------------------------
(* Rows and the inbox                                                      *)

\* What adding a row at the end of a handoff's queue changes.
LEMMA RowAdded ==
  ASSUME RowsOK, NEW t \in Handoffs, NEW m \in Msgs,
         queue' = [queue EXCEPT ![t] = Append(@, m)]
  PROVE  /\ queue' \in [Handoffs -> Seq(Msgs)]
         /\ \A s \in Handoffs : s # t => queue'[s] = queue[s]
         /\ Len(queue[t]) \in Nat /\ Len(queue'[t]) = Len(queue[t]) + 1
         /\ DOMAIN queue[t] = 1..Len(queue[t]) /\ DOMAIN queue'[t] = 1..(Len(queue[t]) + 1)
         /\ \A i \in DOMAIN queue[t] : queue'[t][i] = queue[t][i]
         /\ queue'[t][Len(queue[t]) + 1] = m
<1> DEFINE q == queue[t]  longer == Append(queue[t], m)
<1>1. q \in Seq(Msgs)
  BY DEF RowsOK
<1>2. /\ longer \in Seq(Msgs) /\ Len(q) \in Nat /\ Len(longer) = Len(q) + 1
      /\ DOMAIN q = 1..Len(q) /\ DOMAIN longer = 1..(Len(q) + 1)
      /\ \A i \in 1..Len(q) : longer[i] = q[i]
      /\ longer[Len(q) + 1] = m
  BY <1>1, AppendProperties, LenProperties
<1>3. queue'[t] = longer /\ \A s \in Handoffs : s # t => queue'[s] = queue[s]
  BY DEF RowsOK
<1>4. queue' \in [Handoffs -> Seq(Msgs)]
  BY <1>2 DEF RowsOK
<1> HIDE DEF q, longer
<1> QED BY <1>2, <1>3, <1>4 DEF q

\* What dropping the first row of a handoff changes.
LEMMA RowDropped ==
  ASSUME RowsOK, NEW t \in Handoffs, queue[t] # <<>>,
         queue' = [queue EXCEPT ![t] = Tail(@)]
  PROVE  /\ queue' \in [Handoffs -> Seq(Msgs)]
         /\ \A s \in Handoffs : s # t => queue'[s] = queue[s]
         /\ Len(queue[t]) \in Nat \ {0} /\ Len(queue'[t]) = Len(queue[t]) - 1
         /\ DOMAIN queue[t] = 1..Len(queue[t]) /\ DOMAIN queue'[t] = 1..(Len(queue[t]) - 1)
         /\ \A i \in DOMAIN queue'[t] : queue'[t][i] = queue[t][i + 1]
<1> DEFINE q == queue[t]  shorter == Tail(queue[t])
<1>1. q \in Seq(Msgs) /\ q # <<>>
  BY DEF RowsOK
<1>2. /\ shorter \in Seq(Msgs) /\ Len(q) \in Nat \ {0} /\ Len(shorter) = Len(q) - 1
      /\ DOMAIN q = 1..Len(q) /\ DOMAIN shorter = 1..(Len(q) - 1)
      /\ \A i \in 1..Len(shorter) : shorter[i] = q[i + 1]
  BY <1>1, HeadTailProperties, LenProperties, EmptySeq
<1>3. queue'[t] = shorter /\ \A s \in Handoffs : s # t => queue'[s] = queue[s]
  BY DEF RowsOK
<1>4. queue' \in [Handoffs -> Seq(Msgs)]
  BY <1>2 DEF RowsOK
<1> HIDE DEF q, shorter
<1> QED BY <1>2, <1>3, <1>4 DEF q

\* Adding a row keeps the messages that are held, and adds its own.
LEMMA HeldGrows ==
  ASSUME RowsOK, NEW t \in Handoffs, NEW m \in Msgs,
         queue' = [queue EXCEPT ![t] = Append(@, m)]
  PROVE  /\ \A x \in Msgs : Held(x) => Held(x)'
         /\ Held(m)'
         /\ \A x \in Msgs : x # m /\ Held(x)' => Held(x)
<1>1. \A s \in Handoffs : DOMAIN queue[s] \subseteq DOMAIN queue'[s]
                          /\ \A i \in DOMAIN queue[s] : queue'[s][i] = queue[s][i]
  BY RowAdded
<1>2. \A x \in Msgs : Held(x) => Held(x)'
  BY <1>1 DEF Held
<1> DEFINE n == Len(queue[t])
<1>0. /\ n \in Nat /\ DOMAIN queue[t] = 1..n /\ DOMAIN queue'[t] = 1..(n + 1)
      /\ queue'[t][n + 1] = m
  BY RowAdded
<1> HIDE DEF n
<1>3. n + 1 \in DOMAIN queue'[t] /\ queue'[t][n + 1] = m
  BY <1>0
<1>4. Held(m)'
  BY <1>3 DEF Held
<1>5. ASSUME NEW x \in Msgs, x # m, NEW s \in Handoffs, NEW i \in DOMAIN queue'[s],
             queue'[s][i] = x
      PROVE  i \in DOMAIN queue[s] /\ queue[s][i] = x
  <2>1. CASE s # t
    BY <1>5, <2>1, RowAdded
  <2>2. CASE s = t
    <3>1. i \in 1..(n + 1) /\ i # n + 1
      BY <1>0, <1>5, <2>2
    <3>2. i \in DOMAIN queue[t]
      BY <3>1, <1>0
    <3> QED BY <3>2, <1>5, <2>2, RowAdded
  <2> QED BY <2>1, <2>2
<1>6. \A x \in Msgs : x # m /\ Held(x)' => Held(x)
  BY <1>5 DEF Held
<1> QED BY <1>2, <1>4, <1>6

\* What a message that reaches the agent does to the inbox.
LEMMA Handed ==
  ASSUME BoxOK, mode \in Modes, NEW m \in Msgs, Reaches(m)
  PROVE  /\ inbox' \in Seq(Modes \X Msgs)
         /\ \A x \in Msgs : Received(x) => Received(x)'
         /\ Received(m)'
         /\ \A x \in Msgs : x # m /\ Received(x)' => Received(x)
         /\ \A x \in Msgs : x # m /\ OneEntry(x) => OneEntry(x)'
         /\ ~Received(m) => OneEntry(m)'
         /\ \A x \in Msgs : TakenByChat(x)' => TakenByChat(x) \/ (x = m /\ mode = "chat")
         /\ ChatInv /\ (mode = "chat" => ~TakenByChat(m)) => ChatInv'
<1> DEFINE new == <<mode, m>>  n == Len(inbox)
<1>1. new \in Modes \X Msgs /\ inbox \in Seq(Modes \X Msgs) /\ inbox' = Append(inbox, new)
  BY DEF Reaches, BoxOK
<1>2. new[1] = mode /\ new[2] = m
  OBVIOUS
<1>3. mode = "chat" /\ ~TakenByChat(m) => \A i \in DOMAIN inbox : inbox[i] # new
  BY DEF TakenByChat
<1>0. \A x \in Msgs : new = <<"chat", x>> => x = m /\ mode = "chat"
  OBVIOUS
<1> HIDE DEF new
<1>4. /\ inbox' \in Seq(Modes \X Msgs) /\ n \in Nat
      /\ DOMAIN inbox = 1..n /\ DOMAIN inbox' = 1..(n + 1)
      /\ \A i \in DOMAIN inbox : inbox'[i] = inbox[i]
      /\ inbox'[n + 1] = new
  BY <1>1, AppendProperties, LenProperties
<1> HIDE DEF n
<1>5. \A i \in DOMAIN inbox' : i = n + 1 \/ (i \in DOMAIN inbox /\ i # n + 1)
  BY <1>4
<1>6. n + 1 \in DOMAIN inbox' /\ \A i \in DOMAIN inbox : i \in DOMAIN inbox'
  BY <1>4
<1>7. \A x \in Msgs : Received(x) => Received(x)'
  BY <1>4, <1>6 DEF Received
<1>8. Received(m)'
  BY <1>2, <1>4, <1>6 DEF Received
<1>9. \A x \in Msgs : x # m /\ Received(x)' => Received(x)
  BY <1>2, <1>4, <1>5 DEF Received
<1>10. \A x \in Msgs : x # m /\ OneEntry(x) => OneEntry(x)'
  BY <1>2, <1>4, <1>5 DEF OneEntry
<1>11. ~Received(m) => OneEntry(m)'
  BY <1>2, <1>4, <1>5 DEF OneEntry, Received
<1>12. \A x \in Msgs : TakenByChat(x)' => TakenByChat(x) \/ (x = m /\ mode = "chat")
  BY <1>0, <1>4, <1>5 DEF TakenByChat
<1>13. ASSUME ChatInv, mode = "chat" => ~TakenByChat(m), NEW i \in DOMAIN inbox',
              NEW j \in DOMAIN inbox', i # j, inbox'[i][1] = "chat", inbox'[j] = inbox'[i]
       PROVE  FALSE
  <2>1. CASE i = n + 1
    <3>1. mode = "chat" /\ j \in DOMAIN inbox /\ inbox[j] = new
      BY <1>2, <1>4, <1>5, <1>13, <2>1
    <3> QED BY <3>1, <1>3, <1>13
  <2>2. CASE j = n + 1
    <3>1. mode = "chat" /\ i \in DOMAIN inbox /\ inbox[i] = new
      BY <1>2, <1>4, <1>5, <1>13, <2>2
    <3> QED BY <3>1, <1>3, <1>13
  <2>3. CASE i \in DOMAIN inbox /\ j \in DOMAIN inbox
    BY <1>4, <1>13, <2>3 DEF ChatInv
  <2> QED BY <2>1, <2>2, <2>3, <1>5
<1>14. ChatInv /\ (mode = "chat" => ~TakenByChat(m)) => ChatInv'
  BY <1>13 DEF ChatInv
<1> QED BY <1>4, <1>7, <1>8, <1>9, <1>10, <1>11, <1>12, <1>14

-----------------------------------------------------------------------------
(* Hand-overs                                                              *)

\* What stays in a step of the chat's queue.
LEMMA QueueRests ==
  QueueStep => /\ UNCHANGED <<rows, senders, deliverer, serving, mode, live, owned>>
               /\ phase' = phase /\ queue' = queue /\ sender' = sender /\ found' = found
               /\ attempt' = attempt /\ round' = round /\ settle' = settle
               /\ activity' \in {activity, "active"} /\ (troubles' = troubles \/ Trouble)
<1>1. StopQueue => UNCHANGED <<rows, senders, deliverer, session, serving>> /\ Trouble
  BY DEF StopQueue
<1>2. ASSUME NEW m \in Msgs, Drain(m) \/ DrainFails(m)
      PROVE  /\ UNCHANGED <<rows, senders, deliverer, serving, mode, live, owned>>
             /\ activity' \in {activity, "active"} /\ (troubles' = troubles \/ Trouble)
  BY <1>2 DEF Drain, DrainFails, Reaches, session
<1> QED BY <1>1, <1>2 DEF QueueStep, session, rows, senders, deliverer

\* What stays in a hand-over.
LEMMA HandRests ==
  HandStep => /\ phase' = phase /\ queue' = queue /\ sender' = sender /\ found' = found
              /\ round' = round /\ settle' = settle /\ serving' = serving
BY DEF HandStep, Deliver, WriteAttempted, DispatchTurn, DispatchFails, rows, senders

\* What a hand-over does: it ends the attempt or goes on to the next step, and a message
\* that reached the agent is in doubt or about to be marked.
LEMMA HandMoves ==
  ASSUME DelivererOK, HandStep
  PROVE  /\ attempt.step \in {"deliver", "dispatch"}
         /\ \/ attempt' = NoAttempt
            \/ /\ attempt'.handoff = attempt.handoff /\ attempt'.list = attempt.list
               /\ attempt'.target = attempt.target /\ attempt'.step \in {"mark", "dispatch"}
         /\ \/ inbox' = inbox /\ UNCHANGED session
            \/ Reaches(Message)
         /\ \/ doubt' = doubt /\ (inbox' = inbox \/ attempt'.step = "mark")
            \/ doubt' = doubt \cup {Message} /\ attempt' = NoAttempt
         /\ troubles' = troubles \/ Trouble
<1> USE DEF At
<1>0. \A st \in AttemptSteps :
        Goto(st) => /\ attempt'.handoff = attempt.handoff /\ attempt'.list = attempt.list
                    /\ attempt'.target = attempt.target /\ attempt'.step = st
  BY DEF Goto, DelivererOK
<1>1. Goto("mark") \/ Goto("dispatch") =>
        /\ attempt'.handoff = attempt.handoff /\ attempt'.list = attempt.list
        /\ attempt'.target = attempt.target /\ attempt'.step \in {"mark", "dispatch"}
        /\ (Goto("mark") => attempt'.step = "mark")
  BY <1>0 DEF AttemptSteps
<1>2. CASE Deliver
  <2>1. /\ attempt.step = "deliver" /\ doubt' = doubt /\ troubles' = troubles
    BY <1>2 DEF Deliver
  <2>2. CASE Record /\ UNCHANGED <<session, inbox>>
    <3>1. Goto("mark") \/ Goto("dispatch")
      BY <2>2 DEF Record
    <3> QED BY <1>1, <2>1, <2>2, <3>1
  <2>3. CASE Reaches(Message) /\ Goto("mark")
    BY <1>1, <2>1, <2>3
  <2>4. CASE attempt' = NoAttempt /\ UNCHANGED <<session, agent>>
    BY <2>1, <2>4 DEF agent
  <2> QED BY <1>2, <2>2, <2>3, <2>4 DEF Deliver
<1>3. CASE WriteAttempted
  BY <1>3 DEF WriteAttempted
<1>4. CASE DispatchTurn
  BY <1>1, <1>4 DEF DispatchTurn
<1>5. CASE DispatchFails
  BY <1>5 DEF DispatchFails
<1> QED BY <1>2, <1>3, <1>4, <1>5 DEF HandStep

-----------------------------------------------------------------------------
(* The type                                                                *)

LEMMA TypePartsAgree == TypeParts <=> OutboxTypeOK
BY DEF TypeParts, OutboxTypeOK, RowsOK, SendersOK, DelivererOK, SettleOK, SessionOK, BoxOK, TurnOK

LEMMA FoundIsHandoff == ActiveHandoff \in Handoffs \cup {NoHandoff} /\ (Active # {} => ActiveHandoff \in Active)
BY DEF ActiveHandoff, Active

LEMMA FirstListed ==
  ASSUME DelivererOK, attempt.list # <<>>
  PROVE  Message \in Msgs /\ Tail(attempt.list) \in Seq(Msgs) /\ Message = attempt.list[1]
<1>1. attempt.list \in Seq(Msgs)
  BY DEF DelivererOK
<1> QED BY <1>1, HeadTailProperties, EmptySeq DEF Message

\* A new attempt lists the rows of its handoff.
LEMMA Started ==
  ASSUME RowsOK, NEW t \in Handoffs, phase[t] = "over", phase' = phase, queue' = queue,
         StartAttempt(t)
  PROVE  /\ attempt' \in [handoff : Handoffs \cup {NoHandoff}, list : Seq(Msgs),
                          step : AttemptSteps, target : Handoffs \cup {NoHandoff}]
         /\ AttemptInv' /\ TargetInv' /\ MarkInv'
<1>0. queue[t] \in Seq(Msgs) /\ <<>> \in Seq(Msgs)
  BY EmptySeq DEF RowsOK
<1>1. CASE queue[t] = <<>>
  <2>1. attempt' = NoAttempt
    BY <1>1 DEF StartAttempt
  <2> QED BY <2>1, <1>0 DEF NoAttempt, AttemptInv, TargetInv, MarkInv, AttemptSteps
<1>2. CASE queue[t] # <<>>
  <2> DEFINE r == [handoff |-> t, list |-> queue[t], step |-> "wait", target |-> NoHandoff]
  <2>1. attempt' = r
    BY <1>2 DEF StartAttempt
  <2>2. r.handoff = t /\ r.list = queue[t] /\ r.step = "wait"
    OBVIOUS
  <2>3. r \in [handoff : Handoffs \cup {NoHandoff}, list : Seq(Msgs),
               step : AttemptSteps, target : Handoffs \cup {NoHandoff}]
    BY <1>0 DEF AttemptSteps
  <2> HIDE DEF r
  <2>4. Len(queue[t]) \in Nat
    BY <1>0, LenProperties
  <2>5. AttemptInv'
    BY <1>2, <2>1, <2>2, <2>4 DEF AttemptInv
  <2>6. TargetInv' /\ MarkInv'
    BY <2>1, <2>2 DEF TargetInv, MarkInv
  <2> QED BY <2>1, <2>3, <2>5, <2>6
<1> QED BY <1>1, <1>2

\* The first handoff of the dispatcher's round.
LEMMA FirstOfRound ==
  ASSUME DelivererOK, OverInv, round # <<>>
  PROVE  /\ Head(round) \in Handoffs /\ phase[Head(round)] = "over"
         /\ Tail(round) \in Seq(Handoffs)
         /\ \A i \in DOMAIN Tail(round) : phase[Tail(round)[i]] = "over"
<1>1. round \in Seq(Handoffs) /\ Len(round) \in Nat /\ DOMAIN round = 1..Len(round)
  BY LenProperties DEF DelivererOK
<1>2. /\ Head(round) = round[1] /\ Tail(round) \in Seq(Handoffs)
      /\ Len(round) > 0
      /\ DOMAIN Tail(round) = 1..(Len(round) - 1)
      /\ \A i \in 1..(Len(round) - 1) : Tail(round)[i] = round[i + 1]
  BY <1>1, HeadTailProperties, EmptySeq, LenProperties
<1> DEFINE n == Len(round)
<1>3. 1 \in DOMAIN round /\ \A i \in 1..(n - 1) : i + 1 \in DOMAIN round
  BY <1>1, <1>2
<1>4. phase[round[1]] = "over" /\ \A i \in 1..(n - 1) : phase[round[i + 1]] = "over"
  BY <1>3 DEF OverInv
<1>5. round[1] \in Handoffs
  BY <1>1, <1>3, ElementOfSeq
<1> QED BY <1>1, <1>2, <1>4, <1>5

\* A round of the dispatcher is a sequence of handoffs that are over.
LEMMA Scanned ==
  ASSUME RowsOK, Scan
  PROVE  round' \in Seq(Handoffs) /\ \A i \in DOMAIN round' : phase[round'[i]] = "over"
<1>1. IsFiniteSet(Handoffs) /\ Owed \subseteq Handoffs
  BY FS_Interval DEF Handoffs, Owed
<1>2. Cardinality(Owed) \in Nat
  BY <1>1, FS_Subset, FS_CardinalityType
<1> DEFINE n == Cardinality(Owed)
<1>3. round' \in [1..n -> Owed]
  BY DEF Scan
<1>4. round' \in Seq(Owed)
  BY <1>2, <1>3, SeqDef
<1>5. \A i \in DOMAIN round' : round'[i] \in Owed
  BY <1>3
<1>6. round' \in Seq(Handoffs)
  <2> HIDE DEF n
  <2>1. round' \in [1..n -> Handoffs] /\ n \in Nat
    BY <1>1, <1>2, <1>3 DEF n
  <2> QED BY <2>1, SeqDef
<1> QED BY <1>5, <1>6 DEF Owed

\* The parts of the type no step of a sequence disturbs.
LEMMA TypeInit == OutboxInit => TypeParts
<1> SUFFICES ASSUME OutboxInit PROVE TypeParts
  OBVIOUS
<1>1. <<>> \in Seq(Msgs) /\ <<>> \in Seq(Handoffs) /\ <<>> \in Seq(Modes \X Msgs)
  BY EmptySeq
<1>2. RowsOK /\ SendersOK /\ BoxOK
  BY <1>1 DEF OutboxInit, RowsOK, SendersOK, BoxOK
<1>3. DelivererOK
  BY <1>1 DEF OutboxInit, DelivererOK, NoAttempt, AttemptSteps
<1>4. SettleOK
  BY DEF OutboxInit, SettleOK
<1>5. SessionOK
  BY DEF OutboxInit, SessionOK
<1>6. TurnOK
  BY DEF OutboxInit, TurnOK, TurnStates
<1> QED BY <1>2, <1>3, <1>4, <1>5, <1>6 DEF TypeParts

LEMMA RowsStep == ASSUME TypeParts, AttemptInv, TargetInv, OutboxNext PROVE RowsOK'
<1> USE DEF TypeParts
<1>1. ASSUME NEW m \in Msgs, SendNext, Enqueue(m) PROVE RowsOK'
  <2>1. found[m] \in Handoffs
    BY <1>1 DEF Enqueue, SendersOK
  <2>2. queue' \in [Handoffs -> Seq(Msgs)]
    BY <1>1, <2>1, RowAdded DEF Enqueue
  <2> QED BY <1>1, <2>2 DEF Enqueue, RowsOK
<1>2. CASE Requeue
  <2>1. attempt.step = "queue" /\ attempt.target \in Handoffs /\ attempt.list # <<>>
    BY <1>2 DEF Requeue, At, TargetInv, AttemptInv
  <2>2. queue' \in [Handoffs -> Seq(Msgs)]
    BY <1>2, <2>1, FirstListed, RowAdded DEF Requeue
  <2> QED BY <1>2, <2>2 DEF Requeue, RowsOK
<1>3. CASE Mark
  <2>1. /\ attempt.handoff \in Handoffs /\ attempt.list # <<>>
        /\ Len(attempt.list) <= Len(queue[attempt.handoff])
    BY <1>3 DEF Mark, At, AttemptInv
  <2>2. attempt.list \in Seq(Msgs) /\ queue[attempt.handoff] \in Seq(Msgs)
    BY <2>1 DEF DelivererOK, RowsOK
  <2>3. queue[attempt.handoff] # <<>>
    BY <2>1, <2>2, EmptySeq, LenProperties
  <2>4. queue' \in [Handoffs -> Seq(Msgs)]
    BY <1>3, <2>1, <2>3, RowDropped DEF Mark
  <2> QED BY <1>3, <2>4 DEF Mark, RowsOK
<1>4. ASSUME NEW t \in Handoffs, StartHandoff(t) \/ EndHandoff(t) PROVE RowsOK'
  BY <1>4 DEF StartHandoff, EndHandoff, RowsOK
<1>5. CASE Boot
  BY <1>5 DEF Boot, RowsOK
<1>6. CASE UNCHANGED rows
  BY <1>6 DEF rows, RowsOK
<1>7. ASSUME NEW m \in Msgs, LookUp(m) \/ SendDirect(m) PROVE UNCHANGED rows
  BY <1>7 DEF LookUp, SendDirect
<1>8. ASSUME NEW t \in Handoffs, Settle(t) PROVE UNCHANGED rows
  BY <1>8 DEF Settle
<1>9. FirstSignal \/ TurnEnds \/ Stirs \/ Answered \/ Resume \/ SessionEnds \/ QueueStep => UNCHANGED rows
  BY QueueRests DEF FirstSignal, TurnEnds, Stirs, Answered, Resume, SessionEnds
<1>10. WaitEnds \/ LookAgain \/ HandStep \/ Scan \/ Dispatch \/ WriteFails \/ DaemonDies
         => UNCHANGED rows
  BY HandRests DEF WaitEnds, LookAgain, Scan, Dispatch, WriteFails, DaemonDies, rows
<1> QED BY <1>1, <1>2, <1>3, <1>4, <1>5, <1>6, <1>7, <1>8, <1>9, <1>10
       DEF OutboxNext, SendNext, SessionNext, QueueStep, AttemptNext, HandStep

LEMMA SendersStep == ASSUME TypeParts, OutboxNext PROVE SendersOK'
<1> USE DEF TypeParts
<1>1. ASSUME NEW m \in Msgs, LookUp(m) PROVE SendersOK'
  BY <1>1, FoundIsHandoff DEF LookUp, SendersOK
<1>2. ASSUME NEW m \in Msgs, Enqueue(m) \/ SendDirect(m) PROVE SendersOK'
  BY <1>2 DEF Enqueue, SendDirect, SendersOK
<1>3. CASE DaemonDies
  BY <1>3 DEF DaemonDies, SendersOK
<1>4. CASE UNCHANGED senders
  BY <1>4 DEF senders, SendersOK
<1>5. ASSUME NEW t \in Handoffs, StartHandoff(t) \/ EndHandoff(t) \/ Settle(t) PROVE UNCHANGED senders
  BY <1>5 DEF StartHandoff, EndHandoff, Settle
<1>6. FirstSignal \/ TurnEnds \/ Stirs \/ Answered \/ Resume \/ SessionEnds \/ QueueStep => UNCHANGED senders
  BY QueueRests DEF FirstSignal, TurnEnds, Stirs, Answered, Resume, SessionEnds
<1>7. WaitEnds \/ LookAgain \/ Requeue \/ HandStep \/ Mark \/ Scan \/ Dispatch \/ WriteFails \/ Boot
         => UNCHANGED senders
  BY HandRests DEF WaitEnds, LookAgain, Requeue, Mark, Scan, Dispatch, WriteFails, Boot, senders
<1> QED BY <1>1, <1>2, <1>3, <1>4, <1>5, <1>6, <1>7
       DEF OutboxNext, SendNext, SessionNext, QueueStep, AttemptNext, HandStep

LEMMA DelivererStep == ASSUME TypeParts, OverInv, AttemptInv, OutboxNext PROVE DelivererOK'
<1> USE DEF TypeParts
<1>0. NoAttempt \in [handoff : Handoffs \cup {NoHandoff}, list : Seq(Msgs), step : AttemptSteps,
                     target : Handoffs \cup {NoHandoff}] /\ <<>> \in Seq(Handoffs)
  <2>1. <<>> \in Seq(Msgs) /\ <<>> \in Seq(Handoffs)
    BY EmptySeq
  <2> QED BY <2>1 DEF NoAttempt, AttemptSteps
<1>1. ASSUME NEW t \in Handoffs, Settle(t) PROVE DelivererOK'
  <2>1. phase[t] = "over" /\ phase' = phase /\ queue' = queue /\ round' = round /\ StartAttempt(t)
    BY <1>1 DEF Settle, OverInv, rows
  <2> QED BY <2>1, Started DEF DelivererOK
<1>2. CASE Scan
  BY <1>2, Scanned DEF Scan, DelivererOK
<1>3. CASE Dispatch
  <2>1. phase' = phase /\ queue' = queue /\ round # <<>> /\ round' = Tail(round) /\ StartAttempt(Head(round))
    BY <1>3 DEF Dispatch, rows
  <2>2. Head(round) \in Handoffs /\ phase[Head(round)] = "over" /\ Tail(round) \in Seq(Handoffs)
    BY <2>1, FirstOfRound
  <2> QED BY <2>1, <2>2, Started DEF DelivererOK
<1>4. CASE attempt' = NoAttempt /\ (round' = round \/ round' = <<>>)
  BY <1>0, <1>4 DEF DelivererOK
<1>5. ASSUME NEW step \in AttemptSteps, Goto(step), round' = round PROVE DelivererOK'
  BY <1>5 DEF Goto, DelivererOK
<1>6. CASE WaitEnds
  BY <1>4, <1>5, <1>6 DEF WaitEnds, AttemptSteps
<1>7. CASE LookAgain
  <2>1. ActiveHandoff \in Handoffs \cup {NoHandoff}
    BY FoundIsHandoff
  <2>2. round' = round
    BY <1>7 DEF LookAgain
  <2>3. attempt' = [attempt EXCEPT !.step = IF Active = {} THEN "deliver" ELSE "queue",
                                   !.target = ActiveHandoff]
    BY <1>7 DEF LookAgain
  <2>4. ASSUME NEW st \in AttemptSteps, attempt' = [attempt EXCEPT !.step = st, !.target = ActiveHandoff]
        PROVE  DelivererOK'
    BY <2>1, <2>2, <2>4 DEF DelivererOK
  <2> QED BY <2>3, <2>4 DEF AttemptSteps
<1>8. CASE Requeue
  BY <1>5, <1>8 DEF Requeue, AttemptSteps
<1>9. CASE HandStep
  <2>1. \/ attempt' = NoAttempt
        \/ Goto("mark") \/ Goto("dispatch")
    BY <1>9 DEF HandStep, Deliver, WriteAttempted, DispatchTurn, DispatchFails, Record
  <2> QED BY <1>4, <1>5, <1>9, <2>1, HandRests DEF AttemptSteps
<1>10. CASE Mark
  <2>1. attempt.list # <<>> /\ round' = round
    BY <1>10 DEF Mark, At, AttemptInv
  <2>2. Tail(attempt.list) \in Seq(Msgs)
    BY <2>1, FirstListed
  <2>3. CASE Tail(attempt.list) = <<>>
    BY <1>4, <1>10, <2>1, <2>3 DEF Mark
  <2>4. CASE Tail(attempt.list) # <<>>
    <3>1. attempt' = [attempt EXCEPT !.list = Tail(@), !.step = "look", !.target = NoHandoff]
      BY <1>10, <2>4 DEF Mark
    <3>2. attempt' \in [handoff : Handoffs \cup {NoHandoff}, list : Seq(Msgs), step : AttemptSteps,
                        target : Handoffs \cup {NoHandoff}]
      BY <3>1, <2>2 DEF DelivererOK, AttemptSteps
    <3> QED BY <3>2, <2>1 DEF DelivererOK
  <2> QED BY <2>3, <2>4
<1>11. WriteFails \/ DaemonDies => attempt' = NoAttempt /\ (round' = round \/ round' = <<>>)
  BY DEF WriteFails, DaemonDies
<1>12. CASE attempt' = attempt /\ round' = round
  BY <1>12 DEF DelivererOK
<1>13. ASSUME NEW m \in Msgs, LookUp(m) \/ Enqueue(m) \/ SendDirect(m) PROVE attempt' = attempt /\ round' = round
  BY <1>13 DEF LookUp, Enqueue, SendDirect, deliverer
<1>14. ASSUME NEW t \in Handoffs, StartHandoff(t) \/ EndHandoff(t) PROVE attempt' = attempt /\ round' = round
  BY <1>14 DEF StartHandoff, EndHandoff, deliverer
<1>15. FirstSignal \/ TurnEnds \/ Stirs \/ Answered \/ Resume \/ SessionEnds \/ QueueStep \/ Boot => attempt' = attempt /\ round' = round
  BY QueueRests DEF FirstSignal, TurnEnds, Stirs, Answered, Resume, SessionEnds, Boot, deliverer
<1> QED BY <1>1, <1>2, <1>3, <1>4, <1>6, <1>7, <1>8, <1>9, <1>10, <1>11, <1>12, <1>13, <1>14, <1>15
       DEF OutboxNext, SendNext, SessionNext, QueueStep, AttemptNext, HandStep

LEMMA SettleStep == ASSUME TypeParts, OutboxNext PROVE SettleOK'
<1> USE DEF TypeParts
<1>1. ASSUME NEW t \in Handoffs, EndHandoff(t) \/ Settle(t) PROVE SettleOK'
  BY <1>1 DEF EndHandoff, Settle, SettleOK
<1>2. CASE DaemonDies
  BY <1>2 DEF DaemonDies, SettleOK
<1>3. CASE UNCHANGED settle
  BY <1>3 DEF SettleOK
<1>4. ASSUME NEW m \in Msgs, LookUp(m) \/ Enqueue(m) \/ SendDirect(m) PROVE UNCHANGED settle
  BY <1>4 DEF LookUp, Enqueue, SendDirect, deliverer
<1>5. ASSUME NEW t \in Handoffs, StartHandoff(t) PROVE UNCHANGED settle
  BY <1>5 DEF StartHandoff, deliverer
<1>6. FirstSignal \/ TurnEnds \/ Stirs \/ Answered \/ Resume \/ SessionEnds \/ QueueStep \/ Boot => UNCHANGED settle
  BY QueueRests DEF FirstSignal, TurnEnds, Stirs, Answered, Resume, SessionEnds, Boot, deliverer
<1>7. WaitEnds \/ LookAgain \/ Requeue \/ HandStep \/ Mark \/ Scan \/ Dispatch \/ WriteFails
         => UNCHANGED settle
  BY HandRests DEF WaitEnds, LookAgain, Requeue, Mark, Scan, Dispatch, WriteFails
<1> QED BY <1>1, <1>2, <1>3, <1>4, <1>5, <1>6, <1>7
       DEF OutboxNext, SendNext, SessionNext, QueueStep, AttemptNext, HandStep

LEMMA SessionStep == ASSUME TypeParts, OutboxNext PROVE SessionOK'
<1> USE DEF TypeParts
<1>0. Trouble => troubles' \in 0..MaxTroubles
  BY DEF Trouble, SessionOK
<1>1. ASSUME NEW m, Reaches(m) PROVE mode' \in Modes /\ live' \in BOOLEAN /\ owned' \in BOOLEAN
                    /\ activity' \in {"starting", "idle", "active", "blocked", "exited"}
  BY <1>1 DEF Reaches, SessionOK
<1>2. CASE UNCHANGED session /\ serving' = serving /\ (troubles' = troubles \/ Trouble)
  BY <1>0, <1>2 DEF session, SessionOK
<1>3. ASSUME NEW m \in Msgs, SendDirect(m) PROVE SessionOK'
  <2>1. /\ serving' = serving /\ (troubles' = troubles \/ Trouble)
        /\ UNCHANGED session \/ Reaches(m)
    BY <1>3 DEF SendDirect
  <2> QED BY <1>0, <1>1, <1>2, <2>1 DEF SessionOK
<1>4. CASE HandStep
  <2>1. serving' = serving /\ (troubles' = troubles \/ Trouble)
        /\ (UNCHANGED session \/ Reaches(Message))
    BY <1>4, HandRests, HandMoves
  <2> QED BY <1>0, <1>1, <1>2, <2>1 DEF SessionOK
<1>5. ASSUME NEW t \in Handoffs, EndHandoff(t) PROVE SessionOK'
  <2>1. /\ serving' = serving /\ live' = live /\ mode' \in Modes /\ owned' \in BOOLEAN
        /\ activity' \in {activity, "starting"} /\ (troubles' = troubles \/ Trouble)
    BY <1>5 DEF EndHandoff, SessionOK
  <2> QED BY <1>0, <2>1 DEF SessionOK
<1>6. CASE FirstSignal \/ TurnEnds \/ Stirs \/ Answered \/ Resume \/ SessionEnds
  <2>1. (live' = live \/ live' = FALSE) /\ serving' = serving /\ mode' = mode
        /\ (owned' = owned \/ owned' = TRUE)
    BY <1>6 DEF FirstSignal, TurnEnds, Stirs, Answered, Resume, SessionEnds
  <2>2. activity' \in {activity, "starting", "idle", "active", "blocked", "exited"}
    BY <1>6 DEF FirstSignal, TurnEnds, Stirs, Answered, Resume, SessionEnds
  <2>3. troubles' = troubles \/ Trouble
    BY <1>6 DEF FirstSignal, TurnEnds, Stirs, Answered, Resume, SessionEnds
  <2> QED BY <1>0, <2>1, <2>2, <2>3 DEF SessionOK
<1>11. CASE QueueStep
  BY <1>0, <1>11, QueueRests DEF SessionOK
<1>7. CASE WriteFails \/ DaemonDies \/ Boot
  <2>1. live' = live /\ mode' = mode /\ (serving' = serving \/ serving' = FALSE \/ serving' = TRUE)
    BY <1>7 DEF WriteFails, DaemonDies, Boot, session
  <2>2. activity' \in {activity, "starting"} /\ (owned' = owned \/ owned' = TRUE)
    BY <1>7 DEF WriteFails, DaemonDies, Boot, session
  <2>3. troubles' = troubles \/ Trouble
    BY <1>7 DEF WriteFails, DaemonDies, Boot
  <2> QED BY <1>0, <2>1, <2>2, <2>3 DEF SessionOK
<1>8. ASSUME NEW m \in Msgs, LookUp(m) \/ Enqueue(m) PROVE UNCHANGED <<session, serving, troubles>>
  BY <1>8 DEF LookUp, Enqueue
<1>9. ASSUME NEW t \in Handoffs, StartHandoff(t) \/ Settle(t)
      PROVE  UNCHANGED <<session, serving, troubles>>
  BY <1>9 DEF StartHandoff, Settle
<1>10. WaitEnds \/ LookAgain \/ Requeue \/ Mark \/ Scan \/ Dispatch
         => UNCHANGED <<session, serving, troubles>>
  BY DEF WaitEnds, LookAgain, Requeue, Mark, Scan, Dispatch
<1> QED BY <1>2, <1>3, <1>4, <1>5, <1>6, <1>7, <1>8, <1>9, <1>10, <1>11
       DEF OutboxNext, SendNext, SessionNext, QueueStep, AttemptNext, HandStep

\* Outside of the steps that hand over a message, the inbox stays; outside of those, of a
\* failed mark and of a death, so does what is in doubt; outside of those, of a new
\* controller and of the chat's queue, the turns.
LEMMA InboxStays ==
  ASSUME OutboxNext, DelivererOK
  PROVE  \/ inbox' = inbox
         \/ \E m \in Msgs : (SendDirect(m) \/ Drain(m) \/ DrainFails(m)) /\ Reaches(m)
         \/ HandStep /\ Reaches(Message)
<1>7. ASSUME NEW m \in Msgs, Drain(m) \/ DrainFails(m) PROVE Reaches(m) \/ inbox' = inbox
  BY <1>7 DEF Drain, DrainFails
<1>8. StopQueue => inbox' = inbox
  BY DEF StopQueue
<1>1. ASSUME NEW m \in Msgs, SendDirect(m) PROVE Reaches(m) \/ inbox' = inbox
  BY <1>1 DEF SendDirect, agent
<1>2. HandStep => Reaches(Message) \/ inbox' = inbox
  BY HandMoves
<1>3. ASSUME NEW m \in Msgs, LookUp(m) \/ Enqueue(m) PROVE inbox' = inbox
  BY <1>3 DEF LookUp, Enqueue, agent
<1>4. ASSUME NEW t \in Handoffs, StartHandoff(t) \/ EndHandoff(t) \/ Settle(t) PROVE inbox' = inbox
  BY <1>4 DEF StartHandoff, EndHandoff, Settle, agent
<1>5. FirstSignal \/ TurnEnds \/ Stirs \/ Answered \/ Resume \/ SessionEnds \/ Boot => inbox' = inbox
  BY DEF FirstSignal, TurnEnds, Stirs, Answered, Resume, SessionEnds, Boot, agent
<1>6. WaitEnds \/ LookAgain \/ Requeue \/ Mark \/ Scan \/ Dispatch \/ WriteFails \/ DaemonDies
         => inbox' = inbox
  BY DEF WaitEnds, LookAgain, Requeue, Mark, Scan, Dispatch, WriteFails, DaemonDies, agent
<1> QED BY <1>1, <1>2, <1>3, <1>4, <1>5, <1>6, <1>7, <1>8
       DEF OutboxNext, SendNext, SessionNext, QueueStep, AttemptNext, HandStep

LEMMA DoubtStays ==
  ASSUME OutboxNext
  PROVE  \/ doubt' = doubt
         \/ HandStep
         \/ \E m \in Msgs : DrainFails(m) /\ doubt' = doubt \cup {m}
         \/ (WriteFails \/ DaemonDies) /\ doubt' = doubt \cup InDoubt
<1>6. ASSUME NEW m \in Msgs, DrainFails(m) PROVE doubt' = doubt \cup {m}
  BY <1>6 DEF DrainFails
<1>7. ASSUME NEW m \in Msgs, Drain(m) PROVE doubt' = doubt
  BY <1>7 DEF Drain
<1>8. StopQueue => doubt' = doubt
  BY DEF StopQueue
<1>1. WriteFails \/ DaemonDies => doubt' = doubt \cup InDoubt
  BY DEF WriteFails, DaemonDies
<1>2. ASSUME NEW m \in Msgs, LookUp(m) \/ Enqueue(m) \/ SendDirect(m) PROVE doubt' = doubt
  BY <1>2 DEF LookUp, Enqueue, SendDirect
<1>3. ASSUME NEW t \in Handoffs, StartHandoff(t) \/ EndHandoff(t) \/ Settle(t) PROVE doubt' = doubt
  BY <1>3 DEF StartHandoff, EndHandoff, Settle
<1>4. FirstSignal \/ TurnEnds \/ Stirs \/ Answered \/ Resume \/ SessionEnds \/ Boot => doubt' = doubt
  BY DEF FirstSignal, TurnEnds, Stirs, Answered, Resume, SessionEnds, Boot
<1>5. WaitEnds \/ LookAgain \/ Requeue \/ Mark \/ Scan \/ Dispatch => doubt' = doubt
  BY DEF WaitEnds, LookAgain, Requeue, Mark, Scan, Dispatch
<1> QED BY <1>1, <1>2, <1>3, <1>4, <1>5, <1>6, <1>7, <1>8
       DEF OutboxNext, SendNext, SessionNext, QueueStep, AttemptNext, HandStep

LEMMA TurnStays ==
  ASSUME OutboxNext
  PROVE  \/ turn' = turn
         \/ HandStep
         \/ /\ turn' = Orphaned /\ UNCHANGED <<queue, inbox>>
            /\ (doubt' = doubt /\ attempt' = attempt) \/ (DaemonDies /\ attempt' = NoAttempt)
         \/ StopQueue
         \/ \E m \in Msgs : \/ SendDirect(m) /\ turn' = [turn EXCEPT ![m] = "queued"] /\ inbox' = inbox
                            \/ Drain(m) \/ DrainFails(m)
<1>1. ASSUME NEW m \in Msgs, LookUp(m) \/ Enqueue(m) PROVE turn' = turn
  BY <1>1 DEF LookUp, Enqueue, agent
<1>2. ASSUME NEW m \in Msgs, SendDirect(m)
      PROVE  turn' = turn \/ (turn' = [turn EXCEPT ![m] = "queued"] /\ inbox' = inbox)
  BY <1>2 DEF SendDirect, agent
<1>3. ASSUME NEW t \in Handoffs, EndHandoff(t)
      PROVE  turn' = turn \/ (turn' = Orphaned /\ UNCHANGED <<queue, inbox, doubt, attempt>>)
  BY <1>3 DEF EndHandoff
<1>4. Resume => turn' = turn \/ (turn' = Orphaned /\ UNCHANGED <<queue, inbox, doubt, attempt>>)
  BY DEF Resume, rows, deliverer
<1>5. DaemonDies => turn' = Orphaned /\ attempt' = NoAttempt /\ UNCHANGED <<queue, inbox>>
  BY DEF DaemonDies, rows
<1>6. ASSUME NEW t \in Handoffs, StartHandoff(t) \/ Settle(t) PROVE turn' = turn
  BY <1>6 DEF StartHandoff, Settle, agent
<1>7. FirstSignal \/ TurnEnds \/ Stirs \/ Answered \/ SessionEnds \/ Boot => turn' = turn
  BY DEF FirstSignal, TurnEnds, Stirs, Answered, SessionEnds, Boot, agent
<1>8. WaitEnds \/ LookAgain \/ Requeue \/ Mark \/ Scan \/ Dispatch \/ WriteFails => turn' = turn
  BY DEF WaitEnds, LookAgain, Requeue, Mark, Scan, Dispatch, WriteFails, agent
<1> QED BY <1>1, <1>2, <1>3, <1>4, <1>5, <1>6, <1>7, <1>8
       DEF OutboxNext, SendNext, SessionNext, AttemptNext, HandStep

\* What a hand-over does to the turn of its message.
LEMMA HandTurns ==
  ASSUME HandStep
  PROVE  \/ attempt.step = "deliver" /\ turn' = turn
            /\ (attempt' = NoAttempt \/ (Goto("mark") /\ (Reaches(Message) \/ Known(Message))))
         \/ attempt.step = "deliver" /\ turn[Message] = "none" /\ Goto("dispatch")
            /\ turn' = [turn EXCEPT ![Message] = "recorded"] /\ inbox' = inbox
         \/ attempt.step = "dispatch" /\ turn[Message] = "recorded" /\ Goto("mark")
            /\ Reaches(Message) /\ turn' = [turn EXCEPT ![Message] = "sent"]
         \/ attempt.step = "dispatch" /\ turn[Message] = "recorded" /\ Goto("mark")
            /\ inbox' = inbox /\ turn' = [turn EXCEPT ![Message] = "queued"]
         \/ attempt.step = "dispatch" /\ attempt' = NoAttempt /\ doubt' = doubt \cup {Message}
            /\ turn' = [turn EXCEPT ![Message] = "failed"]
<1>1. CASE Deliver
  BY <1>1 DEF Deliver, Record, Known, At, agent
<1>2. CASE WriteAttempted
  BY <1>2 DEF WriteAttempted, At
<1>3. CASE DispatchTurn
  BY <1>3 DEF DispatchTurn, At
<1>4. CASE DispatchFails
  BY <1>4 DEF DispatchFails, At
<1> QED BY <1>1, <1>2, <1>3, <1>4 DEF HandStep

\* A chat is handed a message at its dispatch only.
LEMMA ChatHands ==
  ASSUME HandStep, Reaches(Message), inbox' # inbox, mode = "chat"
  PROVE  attempt.step = "dispatch"
BY DEF HandStep, Deliver, WriteAttempted, DispatchTurn, DispatchFails, At, agent

\* The message of an attempt is the first row of its handoff.
LEMMA FirstRow ==
  ASSUME TypeParts, AttemptInv, attempt.step # "none"
  PROVE  /\ Message \in Msgs /\ attempt.list # <<>> /\ attempt.handoff \in Handoffs
         /\ queue[attempt.handoff] # <<>> /\ 1 \in DOMAIN queue[attempt.handoff]
         /\ queue[attempt.handoff][1] = Message
<1> DEFINE h == attempt.handoff
<1>1. /\ h \in Handoffs /\ attempt.list # <<>> /\ Len(attempt.list) <= Len(queue[h])
      /\ \A i \in DOMAIN attempt.list : attempt.list[i] = queue[h][i]
  BY DEF AttemptInv
<1>2. attempt.list \in Seq(Msgs) /\ queue[h] \in Seq(Msgs)
  BY <1>1 DEF TypeParts, DelivererOK, RowsOK
<1>3. /\ Len(attempt.list) \in Nat \ {0} /\ DOMAIN attempt.list = 1..Len(attempt.list)
      /\ Len(queue[h]) \in Nat /\ DOMAIN queue[h] = 1..Len(queue[h])
  BY <1>1, <1>2, EmptySeq, LenProperties
<1>4. 1 \in DOMAIN attempt.list /\ 1 \in DOMAIN queue[h]
  BY <1>1, <1>3
<1>5. queue[h] # <<>>
  BY <1>2, <1>4, EmptySeq, LenProperties
<1>6. Message \in Msgs /\ Message = attempt.list[1]
  BY <1>1, FirstListed DEF TypeParts
<1> QED BY <1>1, <1>4, <1>5, <1>6

\* So is the one that is handed over.
LEMMA HandsARow ==
  ASSUME TypeParts, AttemptInv, HandStep
  PROVE  /\ Message \in Msgs /\ attempt.handoff \in Handoffs
         /\ 1 \in DOMAIN queue[attempt.handoff] /\ queue[attempt.handoff][1] = Message
         /\ Held(Message)
<1>1. attempt.step # "none"
  BY HandMoves DEF TypeParts
<1> QED BY <1>1, FirstRow DEF Held

LEMMA BoxStep == ASSUME TypeParts, AttemptInv, OutboxNext PROVE BoxOK'
<1> USE DEF TypeParts
<1>0. HandStep => Message \in Msgs
  BY HandsARow
<1>1. inbox' \in Seq(Modes \X Msgs)
  <2>1. mode \in Modes
    BY DEF SessionOK
  <2>2. CASE inbox' = inbox
    BY <2>2 DEF BoxOK
  <2>3. ASSUME NEW m \in Msgs, Reaches(m) PROVE inbox' \in Seq(Modes \X Msgs)
    BY <2>1, <2>3, Handed
  <2> QED BY <1>0, <2>2, <2>3, InboxStays
<1>2. doubt' \subseteq Msgs
  BY <1>0, DoubtStays, HandMoves, FirstRow DEF InDoubt, BoxOK
<1> QED BY <1>1, <1>2 DEF BoxOK

LEMMA TurnsStep == ASSUME TypeParts, OutboxNext PROVE TurnOK'
<1> USE DEF TypeParts, TurnOK, TurnStates
<1>1. CASE HandStep
  <2>1. turn' = turn \/ \E st \in TurnStates : turn' = [turn EXCEPT ![Message] = st]
    BY <1>1, HandTurns
  <2> QED BY <2>1
<1>2. CASE turn' = Orphaned
  BY <1>2 DEF Orphaned
<1>3. CASE StopQueue
  BY <1>3 DEF StopQueue
<1>4. ASSUME NEW m \in Msgs, turn' = [turn EXCEPT ![m] = "queued"] \/ Drain(m) \/ DrainFails(m)
      PROVE  TurnOK'
  BY <1>4 DEF Drain, DrainFails
<1> QED BY <1>1, <1>2, <1>3, <1>4, TurnStays

-----------------------------------------------------------------------------
(* Attempts                                                                *)

\* A handoff that is over stays over.
LEMMA OverStays ==
  ASSUME TypeParts, OutboxNext
  PROVE  \A t \in Handoffs : phase[t] = "over" => phase'[t] = "over"
<1> USE DEF TypeParts, RowsOK
<1>1. ASSUME NEW s \in Handoffs, StartHandoff(s) \/ EndHandoff(s)
      PROVE  \A t \in Handoffs : phase[t] = "over" => phase'[t] = "over"
  BY <1>1 DEF StartHandoff, EndHandoff
<1>2. CASE Boot
  BY <1>2 DEF Boot
<1>3. ASSUME NEW m \in Msgs, LookUp(m) \/ Enqueue(m) \/ SendDirect(m) PROVE phase' = phase
  BY <1>3 DEF LookUp, Enqueue, SendDirect, rows
<1>4. ASSUME NEW t \in Handoffs, Settle(t) PROVE phase' = phase
  BY <1>4 DEF Settle, rows
<1>5. FirstSignal \/ TurnEnds \/ Stirs \/ Answered \/ Resume \/ SessionEnds \/ QueueStep => phase' = phase
  BY QueueRests DEF FirstSignal, TurnEnds, Stirs, Answered, Resume, SessionEnds, rows
<1>6. WaitEnds \/ LookAgain \/ Requeue \/ HandStep \/ Mark \/ Scan \/ Dispatch \/ WriteFails
        \/ DaemonDies => phase' = phase
  BY HandRests DEF WaitEnds, LookAgain, Requeue, Mark, Scan, Dispatch, WriteFails, DaemonDies, rows
<1> QED BY <1>1, <1>2, <1>3, <1>4, <1>5, <1>6
       DEF OutboxNext, SendNext, SessionNext, QueueStep, AttemptNext, HandStep

LEMMA OverStep == ASSUME TypeParts, OverInv, OutboxNext PROVE OverInv'
<1>1. \A t \in Handoffs : settle'[t] => phase'[t] = "over"
  <2> USE DEF OverInv, TypeParts
  <2>1. ASSUME NEW t \in Handoffs, EndHandoff(t) PROVE \A s \in Handoffs : settle'[s] => phase'[s] = "over"
    BY <2>1 DEF EndHandoff, SettleOK, RowsOK
  <2>2. ASSUME NEW t \in Handoffs, Settle(t) PROVE \A s \in Handoffs : settle'[s] => phase'[s] = "over"
    BY <2>2 DEF Settle, SettleOK, rows
  <2>3. CASE DaemonDies
    BY <2>3 DEF DaemonDies
  <2>4. CASE UNCHANGED settle
    BY <2>4, OverStays
  <2>5. ASSUME NEW m \in Msgs, LookUp(m) \/ Enqueue(m) \/ SendDirect(m) PROVE UNCHANGED settle
    BY <2>5 DEF LookUp, Enqueue, SendDirect, deliverer
  <2>6. ASSUME NEW t \in Handoffs, StartHandoff(t) PROVE UNCHANGED settle
    BY <2>6 DEF StartHandoff, deliverer
  <2>7. FirstSignal \/ TurnEnds \/ Stirs \/ Answered \/ Resume \/ SessionEnds \/ QueueStep \/ Boot => UNCHANGED settle
    BY QueueRests DEF FirstSignal, TurnEnds, Stirs, Answered, Resume, SessionEnds, Boot, deliverer
  <2>8. WaitEnds \/ LookAgain \/ Requeue \/ HandStep \/ Mark \/ Scan \/ Dispatch \/ WriteFails
           => UNCHANGED settle
    BY HandRests DEF WaitEnds, LookAgain, Requeue, Mark, Scan, Dispatch, WriteFails
  <2> QED BY <2>1, <2>2, <2>3, <2>4, <2>5, <2>6, <2>7, <2>8
         DEF OutboxNext, SendNext, SessionNext, QueueStep, AttemptNext, HandStep
<1>2. \A i \in DOMAIN round' : phase'[round'[i]] = "over"
  <2>1. round \in Seq(Handoffs) /\ \A i \in DOMAIN round : round[i] \in Handoffs
    BY ElementOfSeq, LenProperties DEF TypeParts, DelivererOK
  <2>2. CASE round' = round
    BY <2>1, <2>2, OverStays DEF OverInv
  <2>3. CASE round' = <<>>
    BY <2>3, EmptySeq
  <2>4. CASE Scan
    <3>1. phase' = phase
      BY <2>4 DEF Scan, rows
    <3> QED BY <2>4, <3>1, Scanned DEF TypeParts
  <2>5. CASE Dispatch
    <3>1. phase' = phase /\ round # <<>> /\ round' = Tail(round)
      BY <2>5 DEF Dispatch, rows
    <3> QED BY <3>1, FirstOfRound DEF TypeParts
  <2>6. ASSUME NEW m \in Msgs, LookUp(m) \/ Enqueue(m) \/ SendDirect(m) PROVE round' = round
    BY <2>6 DEF LookUp, Enqueue, SendDirect, deliverer
  <2>7. ASSUME NEW t \in Handoffs, StartHandoff(t) \/ EndHandoff(t) \/ Settle(t) PROVE round' = round
    BY <2>7 DEF StartHandoff, EndHandoff, Settle, deliverer
  <2>8. FirstSignal \/ TurnEnds \/ Stirs \/ Answered \/ Resume \/ SessionEnds \/ QueueStep \/ Boot => round' = round
    BY QueueRests DEF FirstSignal, TurnEnds, Stirs, Answered, Resume, SessionEnds, Boot, deliverer
  <2>9. WaitEnds \/ LookAgain \/ Requeue \/ HandStep \/ Mark \/ WriteFails => round' = round
    BY HandRests DEF WaitEnds, LookAgain, Requeue, Mark, WriteFails
  <2>10. DaemonDies => round' = <<>>
    BY DEF DaemonDies
  <2> QED BY <2>2, <2>3, <2>4, <2>5, <2>6, <2>7, <2>8, <2>9, <2>10
         DEF OutboxNext, SendNext, SessionNext, QueueStep, AttemptNext, HandStep
<1> QED BY <1>1, <1>2 DEF OverInv

\* Only three actions change the rows.
LEMMA RowsChange ==
  ASSUME OutboxNext
  PROVE  queue' = queue \/ (\E m \in Msgs : Enqueue(m)) \/ Requeue \/ Mark
<1>1. ASSUME NEW m \in Msgs, LookUp(m) \/ SendDirect(m) PROVE queue' = queue
  BY <1>1 DEF LookUp, SendDirect, rows
<1>2. ASSUME NEW t \in Handoffs, StartHandoff(t) \/ EndHandoff(t) \/ Settle(t) PROVE queue' = queue
  BY <1>2 DEF StartHandoff, EndHandoff, Settle, rows
<1>3. FirstSignal \/ TurnEnds \/ Stirs \/ Answered \/ Resume \/ SessionEnds \/ QueueStep \/ Boot => queue' = queue
  BY QueueRests DEF FirstSignal, TurnEnds, Stirs, Answered, Resume, SessionEnds, Boot, rows
<1>4. WaitEnds \/ LookAgain \/ HandStep \/ Scan \/ Dispatch \/ WriteFails \/ DaemonDies
        => queue' = queue
  BY HandRests DEF WaitEnds, LookAgain, Scan, Dispatch, WriteFails, DaemonDies, rows
<1> QED BY <1>1, <1>2, <1>3, <1>4 DEF OutboxNext, SendNext, SessionNext, QueueStep, AttemptNext, HandStep

\* Only these change the attempt.
LEMMA AttemptChanges ==
  ASSUME OutboxNext
  PROVE  \/ attempt' = attempt /\ ~Requeue /\ ~Mark /\ ~HandStep /\ ~WriteFails /\ ~DaemonDies
         \/ (WriteFails \/ DaemonDies) /\ attempt' = NoAttempt /\ ~Requeue /\ ~Mark /\ ~HandStep
         \/ \E t \in Handoffs : Settle(t)
         \/ Dispatch \/ WaitEnds \/ LookAgain \/ Requeue \/ HandStep \/ Mark
<1>1. ASSUME NEW m \in Msgs, LookUp(m) \/ Enqueue(m) \/ SendDirect(m) PROVE attempt' = attempt
  BY <1>1 DEF LookUp, Enqueue, SendDirect, deliverer
<1>2. ASSUME NEW t \in Handoffs, StartHandoff(t) \/ EndHandoff(t) PROVE attempt' = attempt
  BY <1>2 DEF StartHandoff, EndHandoff, deliverer
<1>3. FirstSignal \/ TurnEnds \/ Stirs \/ Answered \/ Resume \/ SessionEnds \/ QueueStep \/ Boot \/ Scan
        => attempt' = attempt
  BY QueueRests DEF FirstSignal, TurnEnds, Stirs, Answered, Resume, SessionEnds, Boot, Scan, deliverer
<1>4. WriteFails \/ DaemonDies => attempt' = NoAttempt
  BY DEF WriteFails, DaemonDies
<1> QED BY <1>1, <1>2, <1>3, <1>4 DEF OutboxNext, SendNext, SessionNext, QueueStep, AttemptNext, HandStep

\* What the other steps of an attempt do to it.
LEMMA AttemptMoves ==
  ASSUME TypeParts
  PROVE  /\ WaitEnds => /\ attempt.step = "wait"
                        /\ \/ attempt' = NoAttempt
                           \/ attempt'.handoff = attempt.handoff /\ attempt'.list = attempt.list
                              /\ attempt'.step = "look"
         /\ LookAgain => /\ attempt.step = "look"
                         /\ attempt'.handoff = attempt.handoff /\ attempt'.list = attempt.list
                         /\ attempt'.target = ActiveHandoff
                         /\ attempt'.step = IF Active = {} THEN "deliver" ELSE "queue"
         /\ Requeue => /\ attempt.step = "queue"
                       /\ attempt'.handoff = attempt.handoff /\ attempt'.list = attempt.list
                       /\ attempt'.target = attempt.target /\ attempt'.step = "mark"
         /\ Mark => /\ attempt.step = "mark"
                    /\ \/ attempt' = NoAttempt
                       \/ /\ attempt'.handoff = attempt.handoff
                          /\ attempt'.list = Tail(attempt.list) /\ Tail(attempt.list) # <<>>
                          /\ attempt'.target = NoHandoff /\ attempt'.step = "look"
<1> USE DEF TypeParts, DelivererOK, At, Goto
<1>1. WaitEnds => /\ attempt.step = "wait"
                  /\ \/ attempt' = NoAttempt
                     \/ attempt'.handoff = attempt.handoff /\ attempt'.list = attempt.list
                        /\ attempt'.step = "look"
  BY DEF WaitEnds
<1>2. LookAgain => /\ attempt.step = "look"
                   /\ attempt'.handoff = attempt.handoff /\ attempt'.list = attempt.list
                   /\ attempt'.target = ActiveHandoff
                   /\ attempt'.step = IF Active = {} THEN "deliver" ELSE "queue"
  BY DEF LookAgain
<1>3. Requeue => /\ attempt.step = "queue"
                 /\ attempt'.handoff = attempt.handoff /\ attempt'.list = attempt.list
                 /\ attempt'.target = attempt.target /\ attempt'.step = "mark"
  BY DEF Requeue
<1>5. Mark => /\ attempt.step = "mark"
              /\ \/ attempt' = NoAttempt
                 \/ /\ attempt'.handoff = attempt.handoff
                    /\ attempt'.list = Tail(attempt.list) /\ Tail(attempt.list) # <<>>
                    /\ attempt'.target = NoHandoff /\ attempt'.step = "look"
  BY DEF Mark
<1> QED BY <1>1, <1>2, <1>3, <1>5

\* The row an Enqueue or a Requeue adds.
LEMMA Added ==
  ASSUME TypeParts, AttemptInv, TargetInv, (\E m \in Msgs : Enqueue(m)) \/ Requeue
  PROVE  \E t \in Handoffs, m \in Msgs :
           /\ queue' = [queue EXCEPT ![t] = Append(@, m)]
           /\ Requeue => t = attempt.target /\ m = Message
           /\ ~Requeue => Enqueue(m)
<1>1. ASSUME NEW m \in Msgs, Enqueue(m)
      PROVE  found[m] \in Handoffs /\ queue' = [queue EXCEPT ![found[m]] = Append(@, m)]
  BY <1>1 DEF Enqueue, TypeParts, SendersOK
<1>2. CASE Requeue
  <2>1. attempt.step = "queue" /\ queue' = [queue EXCEPT ![attempt.target] = Append(@, Message)]
    BY <1>2 DEF Requeue, At
  <2>2. attempt.target \in Handoffs
    BY <2>1 DEF TargetInv
  <2>3. Message \in Msgs
    BY <2>1, FirstRow
  <2> QED BY <1>2, <2>1, <2>2, <2>3
<1> QED BY <1>1, <1>2

\* Until a row is marked, the rows only get more.
LEMMA RowsGrow ==
  ASSUME TypeParts, AttemptInv, TargetInv, OutboxNext, ~Mark, NEW s \in Handoffs
  PROVE  /\ Len(queue[s]) \in Nat /\ Len(queue'[s]) \in Nat /\ Len(queue[s]) <= Len(queue'[s])
         /\ \A i \in DOMAIN queue[s] : i \in DOMAIN queue'[s] /\ queue'[s][i] = queue[s][i]
<1>1. queue[s] \in Seq(Msgs) /\ Len(queue[s]) \in Nat /\ DOMAIN queue[s] = 1..Len(queue[s])
  BY LenProperties DEF TypeParts, RowsOK
<1>2. CASE queue' = queue
  BY <1>1, <1>2
<1>3. ASSUME NEW t \in Handoffs, NEW m \in Msgs, queue' = [queue EXCEPT ![t] = Append(@, m)]
      PROVE  /\ Len(queue'[s]) \in Nat /\ Len(queue[s]) <= Len(queue'[s])
             /\ \A i \in DOMAIN queue[s] : i \in DOMAIN queue'[s] /\ queue'[s][i] = queue[s][i]
  <2>1. CASE s # t
    <3>1. queue'[s] = queue[s]
      BY <1>3, <2>1, RowAdded DEF TypeParts
    <3> QED BY <3>1, <1>1
  <2>2. CASE s = t
    <3> DEFINE n == Len(queue[t])
    <3>1. /\ n \in Nat /\ Len(queue'[t]) = n + 1
          /\ DOMAIN queue[t] = 1..n /\ DOMAIN queue'[t] = 1..(n + 1)
          /\ \A i \in DOMAIN queue[t] : queue'[t][i] = queue[t][i]
      BY <1>3, RowAdded DEF TypeParts
    <3> HIDE DEF n
    <3>2. n <= n + 1 /\ n + 1 \in Nat /\ \A i \in 1..n : i \in 1..(n + 1)
      BY <3>1
    <3> QED BY <3>1, <3>2, <2>2 DEF n
  <2> QED BY <2>1, <2>2
<1> QED BY <1>1, <1>2, <1>3, Added, RowsChange

\* What was received stays received.
LEMMA ReceivedStays ==
  ASSUME TypeParts, AttemptInv, OutboxNext, NEW m \in Msgs, Received(m)
  PROVE  Received(m)'
<1>1. CASE inbox' = inbox
  BY <1>1 DEF Received
<1>2. ASSUME NEW x \in Msgs, Reaches(x) PROVE Received(m)'
  BY <1>2, Handed DEF TypeParts, SessionOK
<1>3. HandStep => Message \in Msgs
  BY HandsARow
<1> QED BY <1>1, <1>2, <1>3, InboxStays DEF TypeParts

\* Marking drops the first row of the attempt's handoff.
LEMMA Marked ==
  ASSUME TypeParts, AttemptInv, Mark
  PROVE  /\ attempt.step = "mark" /\ attempt.handoff \in Handoffs
         /\ Message \in Msgs /\ queue[attempt.handoff][1] = Message
         /\ queue[attempt.handoff] # <<>>
         /\ queue' = [queue EXCEPT ![attempt.handoff] = Tail(@)]
<1>1. attempt.step = "mark" /\ queue' = [queue EXCEPT ![attempt.handoff] = Tail(@)]
  BY DEF Mark, At
<1> QED BY <1>1, FirstRow

\* Where the rows are after one was added.
LEMMA PlacesAdded ==
  ASSUME RowsOK, NEW t \in Handoffs, NEW m \in Msgs,
         queue' = [queue EXCEPT ![t] = Append(@, m)],
         NEW s \in Handoffs, NEW i \in DOMAIN queue'[s]
  PROVE  \/ i \in DOMAIN queue[s] /\ queue'[s][i] = queue[s][i]
         \/ s = t /\ i = Len(queue[t]) + 1 /\ queue'[s][i] = m
<1>1. CASE s # t
  BY <1>1, RowAdded
<1>2. CASE s = t
  <2> DEFINE n == Len(queue[t])
  <2>1. /\ n \in Nat /\ DOMAIN queue[t] = 1..n /\ DOMAIN queue'[t] = 1..(n + 1)
        /\ \A j \in DOMAIN queue[t] : queue'[t][j] = queue[t][j]
        /\ queue'[t][n + 1] = m
    BY RowAdded
  <2> HIDE DEF n
  <2>2. i = n + 1 \/ i \in 1..n
    BY <2>1, <1>2
  <2> QED BY <2>1, <2>2, <1>2 DEF n
<1> QED BY <1>1, <1>2

\* A message comes into a row by its sender's step, or it had one.
LEMMA HeldComes ==
  ASSUME TypeParts, AttemptInv, TargetInv, OutboxNext, NEW m \in Msgs, Held(m)'
  PROVE  Held(m) \/ Enqueue(m)
<1>0. PICK s \in Handoffs : \E i \in DOMAIN queue'[s] : queue'[s][i] = m
  BY DEF Held
<1>00. PICK i \in DOMAIN queue'[s] : queue'[s][i] = m
  BY <1>0
<1>1. CASE queue' = queue
  BY <1>1 DEF Held
<1>2. CASE (\E x \in Msgs : Enqueue(x)) \/ Requeue
  <2>1. PICK t \in Handoffs, x \in Msgs :
          /\ queue' = [queue EXCEPT ![t] = Append(@, x)]
          /\ Requeue => t = attempt.target /\ x = Message
          /\ ~Requeue => Enqueue(x)
    BY <1>2, Added
  <2>2. CASE i \in DOMAIN queue[s] /\ queue'[s][i] = queue[s][i]
    BY <1>00, <2>2 DEF Held
  <2>3. CASE m = x
    <3>1. Requeue => Held(Message)
      BY FirstRow DEF Requeue, At, Held
    <3> QED BY <2>1, <2>3, <3>1
  <2> QED BY <1>00, <2>1, <2>2, <2>3, PlacesAdded DEF TypeParts
<1>3. CASE Mark
  <2> DEFINE h == attempt.handoff  n == Len(queue[h])
  <2>1. /\ h \in Handoffs /\ queue[h] # <<>> /\ queue' = [queue EXCEPT ![h] = Tail(@)]
    BY <1>3, Marked
  <2>2. /\ n \in Nat \ {0} /\ DOMAIN queue[h] = 1..n /\ DOMAIN queue'[h] = 1..(n - 1)
        /\ \A k \in DOMAIN queue'[h] : queue'[h][k] = queue[h][k + 1]
        /\ \A t \in Handoffs : t # h => queue'[t] = queue[t]
    BY <2>1, RowDropped DEF TypeParts
  <2> HIDE DEF n
  <2>3. CASE s # h
    BY <1>00, <2>2, <2>3 DEF Held
  <2>4. CASE s = h
    <3>1. i + 1 \in DOMAIN queue[h] /\ queue[h][i + 1] = m
      BY <1>00, <2>2, <2>4
    <3> QED BY <2>1, <3>1 DEF Held
  <2> QED BY <2>3, <2>4
<1> QED BY <1>1, <1>2, <1>3, RowsChange

\* A turn the conversation shows stays shown.
LEMMA ShownStays ==
  ASSUME TypeParts, OutboxNext, NEW m \in Msgs, Shown(m)
  PROVE  Shown(m)'
<1> USE DEF TypeParts, TurnOK, Shown
<1>1. CASE HandStep
  BY <1>1, HandTurns
<1>2. CASE turn' = Orphaned
  BY <1>2 DEF Orphaned
<1>3. CASE StopQueue
  BY <1>3 DEF StopQueue
<1>4. ASSUME NEW x \in Msgs, turn' = [turn EXCEPT ![x] = "queued"] \/ Drain(x) \/ DrainFails(x)
      PROVE  Shown(m)'
  BY <1>4 DEF Drain, DrainFails
<1> QED BY <1>1, <1>2, <1>3, <1>4, TurnStays

LEMMA AttemptStep ==
  ASSUME TypeParts, OverInv, AttemptInv, TargetInv, OutboxNext PROVE AttemptInv'
<1>1. ASSUME ~Mark, attempt'.handoff = attempt.handoff, attempt'.list = attempt.list,
             attempt.step # "none"
      PROVE  AttemptInv'
  <2> DEFINE h == attempt.handoff  l == attempt.list
  <2>1. /\ h \in Handoffs /\ phase[h] = "over" /\ l # <<>> /\ Len(l) <= Len(queue[h])
        /\ \A i \in DOMAIN l : l[i] = queue[h][i]
    BY <1>1 DEF AttemptInv
  <2>2. Len(l) \in Nat /\ DOMAIN l = 1..Len(l)
    BY LenProperties DEF TypeParts, DelivererOK
  <2>3. /\ Len(queue[h]) \in Nat /\ Len(queue'[h]) \in Nat /\ Len(queue[h]) <= Len(queue'[h])
        /\ \A i \in DOMAIN queue[h] : queue'[h][i] = queue[h][i]
    BY <1>1, <2>1, RowsGrow
  <2>4. DOMAIN queue[h] = 1..Len(queue[h])
    BY <2>1, LenProperties DEF TypeParts, RowsOK
  <2>5. phase'[h] = "over"
    BY <2>1, OverStays
  <2> HIDE DEF h, l
  <2>6. Len(l) <= Len(queue'[h])
    BY <2>1, <2>2, <2>3
  <2>7. ASSUME NEW i \in DOMAIN l PROVE l[i] = queue'[h][i]
    <3>1. i \in DOMAIN queue[h]
      BY <2>1, <2>2, <2>3, <2>4
    <3> QED BY <3>1, <2>1, <2>3
  <2>8. attempt'.handoff = h /\ attempt'.list = l
    BY <1>1 DEF h, l
  <2> QED BY <2>1, <2>5, <2>6, <2>7, <2>8 DEF AttemptInv
<1>2. CASE attempt' = NoAttempt
  BY <1>2 DEF AttemptInv, NoAttempt
<1>3. ASSUME NEW t \in Handoffs, Settle(t) PROVE AttemptInv'
  <2>1. phase[t] = "over" /\ phase' = phase /\ queue' = queue /\ StartAttempt(t)
    BY <1>3 DEF Settle, OverInv, rows
  <2> QED BY <2>1, Started DEF TypeParts
<1>4. CASE Dispatch
  <2>1. phase' = phase /\ queue' = queue /\ round # <<>> /\ StartAttempt(Head(round))
    BY <1>4 DEF Dispatch, rows
  <2>2. Head(round) \in Handoffs /\ phase[Head(round)] = "over"
    BY <2>1, FirstOfRound DEF TypeParts
  <2> QED BY <2>1, <2>2, Started DEF TypeParts
<1>5. CASE Mark
  <2> DEFINE h == attempt.handoff  l == attempt.list  q == queue[h]
  <2>1. /\ h \in Handoffs /\ phase[h] = "over" /\ l # <<>> /\ Len(l) <= Len(q)
        /\ \A i \in DOMAIN l : l[i] = q[i]
    BY <1>5, Marked DEF AttemptInv
  <2>2. /\ Len(l) \in Nat /\ Len(Tail(l)) = Len(l) - 1 /\ DOMAIN l = 1..Len(l)
        /\ DOMAIN Tail(l) = 1..(Len(l) - 1) /\ \A i \in 1..(Len(l) - 1) : Tail(l)[i] = l[i + 1]
    <3>1. l \in Seq(Msgs)
      BY DEF TypeParts, DelivererOK
    <3> HIDE DEF l
    <3>2. Tail(l) \in Seq(Msgs) /\ Len(Tail(l)) = Len(l) - 1 /\ \A i \in 1..Len(Tail(l)) : Tail(l)[i] = l[i + 1]
      BY <2>1, <3>1, HeadTailProperties, EmptySeq
    <3> QED BY <3>1, <3>2, LenProperties
  <2>3. /\ Len(q) \in Nat \ {0} /\ Len(queue'[h]) = Len(q) - 1
        /\ DOMAIN queue'[h] = 1..(Len(q) - 1)
        /\ \A i \in DOMAIN queue'[h] : queue'[h][i] = q[i + 1]
    BY <1>5, Marked, RowDropped DEF TypeParts
  <2>4. phase'[h] = "over"
    BY <2>1, OverStays
  <2>5. CASE attempt' = NoAttempt
    BY <2>5, <1>2
  <2>6. CASE /\ attempt'.handoff = h /\ attempt'.list = Tail(l) /\ Tail(l) # <<>>
    <3>1. Len(Tail(l)) <= Len(queue'[h])
      BY <2>1, <2>2, <2>3
    <3>2. ASSUME NEW i \in DOMAIN Tail(l) PROVE Tail(l)[i] = queue'[h][i]
      <4> HIDE DEF h, l, q
      <4>1. i \in 1..(Len(l) - 1) /\ i + 1 \in DOMAIN l /\ i \in DOMAIN queue'[h]
        BY <2>1, <2>2, <2>3
      <4> QED BY <4>1, <2>1, <2>2, <2>3
    <3> HIDE DEF h, l, q
    <3> QED BY <2>1, <2>4, <2>6, <3>1, <3>2 DEF AttemptInv
  <2> QED BY <1>5, <2>5, <2>6, AttemptMoves
<1>6. CASE attempt' = attempt /\ ~Mark
  BY <1>1, <1>6 DEF AttemptInv
<1>7. CASE ~Mark /\ (WaitEnds \/ LookAgain \/ Requeue \/ HandStep)
  BY <1>1, <1>2, <1>7, AttemptMoves, HandMoves DEF TypeParts
<1> QED BY <1>2, <1>3, <1>4, <1>5, <1>6, <1>7, AttemptChanges

LEMMA TargetStep == ASSUME TypeParts, OverInv, AttemptInv, TargetInv, OutboxNext PROVE TargetInv'
<1>1. CASE attempt' = attempt \/ attempt' = NoAttempt
  BY <1>1 DEF TargetInv, NoAttempt
<1>2. ASSUME NEW t \in Handoffs, Settle(t) PROVE TargetInv'
  <2>1. phase[t] = "over" /\ phase' = phase /\ queue' = queue /\ StartAttempt(t)
    BY <1>2 DEF Settle, OverInv, rows
  <2> QED BY <2>1, Started DEF TypeParts
<1>3. CASE Dispatch
  <2>1. phase' = phase /\ queue' = queue /\ round # <<>> /\ StartAttempt(Head(round))
    BY <1>3 DEF Dispatch, rows
  <2>2. Head(round) \in Handoffs /\ phase[Head(round)] = "over"
    BY <2>1, FirstOfRound DEF TypeParts
  <2> QED BY <2>1, <2>2, Started DEF TypeParts
<1>4. CASE LookAgain
  <2>1. attempt.handoff \in Handoffs /\ phase[attempt.handoff] = "over"
    BY <1>4, AttemptMoves DEF AttemptInv
  <2>2. Active # {} => ActiveHandoff \in Handoffs /\ phase[ActiveHandoff] = "active"
    BY FoundIsHandoff DEF Active
  <2>3. Active = {} => ActiveHandoff = NoHandoff
    BY DEF ActiveHandoff
  <2>4. Active # {} => ActiveHandoff # attempt.handoff
    BY <2>1, <2>2
  <2> QED BY <1>4, <2>2, <2>3, <2>4, AttemptMoves DEF TargetInv
<1>5. CASE HandStep
  <2>1. attempt.handoff \in Handoffs /\ attempt.target = NoHandoff
    BY <1>5, HandMoves, HandsARow DEF TargetInv, TypeParts
  <2>2. attempt.target # attempt.handoff
    BY <2>1 DEF NoHandoff, Handoffs
  <2> QED BY <1>1, <1>5, <2>1, <2>2, HandMoves DEF TargetInv, TypeParts
<1>6. CASE Requeue
  BY <1>6, AttemptMoves DEF TargetInv
<1>7. CASE WaitEnds \/ Mark
  BY <1>1, <1>7, AttemptMoves DEF TargetInv
<1> QED BY <1>1, <1>2, <1>3, <1>4, <1>5, <1>6, <1>7, AttemptChanges

LEMMA MarkStep ==
  ASSUME TypeParts, OverInv, AttemptInv, TargetInv, MarkInv, TurnInv, OutboxNext PROVE MarkInv'
<1>1. CASE attempt' = attempt /\ ~Mark
  <2> SUFFICES ASSUME attempt.step = "mark" PROVE MarkInv'
    BY <1>1 DEF MarkInv
  <2>1. Message' = Message /\ Message \in Msgs
    BY <1>1, FirstRow DEF Message
  <2>2. CASE attempt.target = NoHandoff
    <3>0. PICK m \in Msgs : m = Message
      BY <2>1
    <3>1. Received(m) \/ Shown(m)
      BY <2>2, <3>0 DEF MarkInv
    <3>2. Received(m)' \/ Shown(m)'
      BY <3>1, ReceivedStays, ShownStays
    <3>3. (Received(Message) \/ Shown(Message))'
      BY <2>1, <3>0, <3>2 DEF Received, Shown
    <3> QED BY <1>1, <2>2, <3>3 DEF MarkInv
  <2>3. CASE attempt.target # NoHandoff
    <3>1. attempt.target \in Handoffs
      BY <2>3 DEF TypeParts, DelivererOK
    <3>2. PICK i \in DOMAIN queue[attempt.target] : queue[attempt.target][i] = Message
      BY <2>3 DEF MarkInv
    <3>3. i \in DOMAIN queue'[attempt.target] /\ queue'[attempt.target][i] = Message
      BY <1>1, <3>1, <3>2, RowsGrow
    <3> QED BY <1>1, <2>1, <2>3, <3>3 DEF MarkInv
  <2> QED BY <2>2, <2>3
<1>2. CASE attempt'.step # "mark"
  BY <1>2 DEF MarkInv
<1>3. CASE Requeue
  <2>1. /\ attempt'.target = attempt.target /\ attempt.target \in Handoffs
        /\ attempt'.list = attempt.list /\ Message \in Msgs
    BY <1>3, AttemptMoves, FirstRow DEF TargetInv
  <2> DEFINE t == attempt.target  n == Len(queue[t])
  <2>2. queue' = [queue EXCEPT ![t] = Append(@, Message)]
    BY <1>3 DEF Requeue
  <2>3. n \in Nat /\ DOMAIN queue'[t] = 1..(n + 1) /\ queue'[t][n + 1] = Message
    BY <2>1, <2>2, RowAdded DEF TypeParts
  <2>4. Message' = Message /\ t # NoHandoff
    BY <2>1 DEF Message, NoHandoff, Handoffs
  <2>5. n + 1 \in DOMAIN queue'[t]
    BY <2>3
  <2> HIDE DEF n
  <2> QED BY <2>1, <2>3, <2>4, <2>5 DEF MarkInv
<1>4. CASE HandStep /\ attempt'.step = "mark"
  <2>1. attempt'.target = attempt.target /\ attempt'.list = attempt.list
    BY <1>4, HandMoves DEF TypeParts, NoAttempt
  <2>2. PICK m \in Msgs : m = Message
    BY <1>4, HandsARow
  <2>3. attempt.target = NoHandoff /\ Message' = m
    BY <1>4, <2>1, <2>2, HandMoves DEF TargetInv, Message, TypeParts
  <2>4. attempt' # NoAttempt /\ ~Goto("dispatch")
    <3>1. Goto("dispatch") => attempt'.step = "dispatch"
      BY DEF Goto, TypeParts, DelivererOK
    <3> QED BY <1>4, <3>1 DEF NoAttempt
  <2>5. CASE Reaches(Message)
    <3>1. Received(m)'
      BY <2>2, <2>5, Handed DEF TypeParts, SessionOK
    <3>2. Received(Message)'
      BY <2>3, <3>1 DEF Received
    <3> QED BY <2>1, <2>3, <3>2 DEF MarkInv
  <2>6. CASE Known(Message) /\ attempt.step = "deliver" /\ turn' = turn
    <3>1. Shown(Message)'
      BY <2>2, <2>3, <2>6 DEF Known, TurnInv, Shown
    <3> QED BY <2>1, <2>3, <3>1 DEF MarkInv
  <2>7. CASE turn' = [turn EXCEPT ![Message] = "queued"]
    <3>1. Shown(Message)'
      BY <2>2, <2>3, <2>7 DEF Shown, TypeParts, TurnOK
    <3> QED BY <2>1, <2>3, <3>1 DEF MarkInv
  <2> QED BY <1>4, <2>4, <2>5, <2>6, <2>7, HandTurns
<1>5. CASE Dispatch
  <2>1. phase' = phase /\ queue' = queue /\ round # <<>> /\ StartAttempt(Head(round))
    BY <1>5 DEF Dispatch, rows
  <2>2. Head(round) \in Handoffs /\ phase[Head(round)] = "over"
    BY <2>1, FirstOfRound DEF TypeParts
  <2> QED BY <2>1, <2>2, Started DEF TypeParts
<1>6. ASSUME NEW t \in Handoffs, Settle(t) PROVE MarkInv'
  <2>1. phase[t] = "over" /\ phase' = phase /\ queue' = queue /\ StartAttempt(t)
    BY <1>6 DEF Settle, OverInv, rows
  <2> QED BY <2>1, Started DEF TypeParts
<1>7. attempt' = NoAttempt => attempt'.step # "mark"
  BY DEF NoAttempt
<1>8. CASE WaitEnds \/ LookAgain \/ Mark
  BY <1>2, <1>7, <1>8, AttemptMoves
<1> QED BY <1>1, <1>2, <1>3, <1>4, <1>5, <1>6, <1>7, <1>8, AttemptChanges

\* What the chat takes in a step is handed to it by that step.
LEMMA TakenComes ==
  ASSUME TypeParts, AttemptInv, OutboxNext, NEW m \in Msgs, TakenByChat(m)'
  PROVE  \/ TakenByChat(m)
         \/ SendDirect(m) \/ Drain(m) \/ DrainFails(m)
         \/ HandStep /\ Message = m /\ attempt.step = "dispatch" /\ Reaches(m)
<1>0. mode \in Modes /\ BoxOK /\ DelivererOK
  BY DEF TypeParts, SessionOK
<1>1. CASE inbox' = inbox
  BY <1>1 DEF TakenByChat
<1>2. ASSUME NEW x \in Msgs, SendDirect(x) \/ Drain(x) \/ DrainFails(x), Reaches(x), ~TakenByChat(m)
      PROVE  SendDirect(m) \/ Drain(m) \/ DrainFails(m)
  <2>1. x = m
    BY <1>0, <1>2, Handed
  <2> QED BY <1>2, <2>1
<1>3. ASSUME HandStep, Reaches(Message), inbox' # inbox, ~TakenByChat(m)
      PROVE  Message = m /\ attempt.step = "dispatch" /\ Reaches(m)
  <2>1. PICK x \in Msgs : x = Message
    BY <1>3, HandsARow
  <2>2. x = m /\ mode = "chat"
    BY <1>0, <1>3, <2>1, Handed
  <2> QED BY <1>3, <2>1, <2>2, ChatHands
<1> QED BY <1>0, <1>1, <1>2, <1>3, InboxStays

\* The turn clauses hold where rows and attempt stay and only the turn of one message,
\* which no attempt dispatches, changes.
LEMMA TurnFrame ==
  ASSUME TypeParts, AttemptInv, TurnInv, OutboxNext, attempt' = attempt, queue' = queue,
         NEW x \in Msgs, attempt.step = "dispatch" => x # Message,
         \A m \in Msgs : m # x => turn'[m] = turn[m] /\ (TakenByChat(m)' => TakenByChat(m)),
         turn'[x] \in {"queued", "sent", "failed"},
         turn'[x] = "sent" => Received(x)',
         turn'[x] = "queued" => ~TakenByChat(x)'
  PROVE  TurnInv'
<1>1. Message' = Message /\ (attempt.step = "dispatch" => Message \in Msgs)
  BY FirstRow DEF Message
<1>2. \A m \in Msgs : (Received(m) => Received(m)') /\ (Held(m)' <=> Held(m))
  BY ReceivedStays DEF Held
<1>3. \A m \in Msgs : turn'[m] = "recorded" => attempt'.step = "dispatch" /\ m = Message'
  BY <1>1 DEF TurnInv
<1>4. attempt'.step = "dispatch" => turn'[Message'] \in {"recorded", "failed"} /\ ~TakenByChat(Message)'
  <2> SUFFICES ASSUME attempt.step = "dispatch"
               PROVE  turn'[Message'] \in {"recorded", "failed"} /\ ~TakenByChat(Message)'
    OBVIOUS
  <2>1. PICK y \in Msgs : y = Message
    BY <1>1
  <2>2. turn'[y] \in {"recorded", "failed"} /\ ~TakenByChat(y)'
    BY <2>1 DEF TurnInv
  <2> QED BY <1>1, <2>1, <2>2 DEF TakenByChat
<1>5. \A m \in Msgs : turn'[m] = "sent" => Received(m)'
  BY <1>2 DEF TurnInv
<1>6. \A m \in Msgs : (TakenByChat(m)' => turn'[m] \in {"none", "sent", "failed"}
                                          /\ (Held(m)' => turn'[m] # "none"))
  BY <1>2 DEF TurnInv
<1> QED BY <1>3, <1>4, <1>5, <1>6 DEF TurnInv

LEMMA TurnInvHands ==
  ASSUME TypeParts, AttemptInv, TurnInv, OutboxNext, HandStep PROVE TurnInv'
<1> USE DEF TypeParts
<1>0. TurnOK /\ NoAttempt.step = "none"
  BY DEF NoAttempt
<1>1. PICK x \in Msgs : x = Message /\ Held(x)
  BY HandsARow
<1>2. \A st \in AttemptSteps : Goto(st) => attempt'.step = st /\ Message' = x
  BY <1>1 DEF Goto, DelivererOK, Message
<1>3. /\ Goto("mark") => attempt'.step = "mark"
      /\ Goto("dispatch") => attempt'.step = "dispatch" /\ Message' = x
  BY <1>2 DEF AttemptSteps
<1>4. \A m \in Msgs : (Held(m)' <=> Held(m)) /\ (Received(m) => Received(m)')
  BY HandRests, ReceivedStays DEF Held
<1>5. \A m \in Msgs : m # x => turn'[m] = turn[m] /\ turn'[m] # "recorded"
  BY <1>1, HandTurns, HandMoves DEF TurnOK, TurnInv
<1>6. \A m \in Msgs : m # x \/ attempt.step # "dispatch" => (TakenByChat(m)' => TakenByChat(m))
  <2>1. \A m \in Msgs : ~SendDirect(m) /\ ~Drain(m) /\ ~DrainFails(m)
    <3>1. attempt' # attempt
      BY HandMoves, <1>0 DEF HandStep, Deliver, WriteAttempted, DispatchTurn, DispatchFails, At,
         Record, Goto, DelivererOK
    <3> QED BY <3>1 DEF SendDirect, Drain, DrainFails, deliverer
  <2> QED BY <1>1, <2>1, TakenComes
<1>7. \A m \in Msgs : m # x => /\ turn'[m] = "sent" => Received(m)'
                              /\ (TakenByChat(m)' => turn'[m] \in {"none", "sent", "failed"}
                                                     /\ (Held(m)' => turn'[m] # "none"))
  BY <1>4, <1>5, <1>6 DEF TurnInv
<1>8. CASE attempt.step = "deliver" /\ turn' = turn /\ (attempt' = NoAttempt \/ Goto("mark"))
  <2>1. attempt'.step # "dispatch" /\ turn[x] # "recorded"
    BY <1>0, <1>3, <1>8 DEF TurnInv
  <2>2. TakenByChat(x)' => TakenByChat(x)
    BY <1>6, <1>8
  <2> QED BY <1>4, <1>5, <1>7, <1>8, <2>1, <2>2 DEF TurnInv
<1>9. CASE attempt.step = "deliver" /\ turn[x] = "none" /\ Goto("dispatch")
            /\ turn' = [turn EXCEPT ![x] = "recorded"] /\ inbox' = inbox
  <2>1. turn'[x] = "recorded" /\ attempt'.step = "dispatch" /\ Message' = x
    BY <1>3, <1>9 DEF TurnOK
  <2>2. ~TakenByChat(x)'
    BY <1>1, <1>6, <1>9 DEF TurnInv
  <2>3. ~TakenByChat(Message)'
    BY <2>1, <2>2 DEF TakenByChat
  <2> QED BY <1>5, <1>7, <2>1, <2>2, <2>3 DEF TurnInv
<1>10. CASE attempt.step = "dispatch" /\ Goto("mark") /\ Reaches(x)
             /\ turn' = [turn EXCEPT ![x] = "sent"]
  <2>1. turn'[x] = "sent" /\ attempt'.step = "mark"
    BY <1>3, <1>10 DEF TurnOK
  <2>2. Received(x)'
    BY <1>10, Handed DEF SessionOK
  <2> QED BY <1>5, <1>7, <2>1, <2>2 DEF TurnInv
<1>11. CASE attempt.step = "dispatch" /\ Goto("mark") /\ inbox' = inbox
             /\ turn' = [turn EXCEPT ![x] = "queued"]
  <2>1. turn'[x] = "queued" /\ attempt'.step = "mark"
    BY <1>3, <1>11 DEF TurnOK
  <2>2. ~TakenByChat(x)'
    BY <1>1, <1>11 DEF TurnInv, TakenByChat
  <2> QED BY <1>5, <1>7, <2>1, <2>2 DEF TurnInv
<1>12. CASE attempt.step = "dispatch" /\ attempt' = NoAttempt
             /\ turn' = [turn EXCEPT ![x] = "failed"]
  <2>1. turn'[x] = "failed" /\ attempt'.step # "dispatch"
    BY <1>0, <1>12 DEF TurnOK
  <2> QED BY <1>5, <1>7, <2>1 DEF TurnInv
<1> QED BY <1>1, <1>8, <1>9, <1>10, <1>11, <1>12, HandTurns

LEMMA TurnInvStep ==
  ASSUME TypeParts, AttemptInv, TargetInv, TurnInv, SentInv, OutboxNext PROVE TurnInv'
<1> USE DEF TypeParts
<1>0. TurnOK /\ NoAttempt.step = "none"
  BY DEF NoAttempt
<1>00. attempt.step = "dispatch" => /\ Message \in Msgs /\ Held(Message)
                                    /\ sender[Message] = "accepted"
                                    /\ turn[Message] # "queued"
  BY FirstRow DEF Held, SentInv, TurnInv
<1>1. CASE HandStep
  BY <1>1, TurnInvHands
<1>2. CASE turn' = Orphaned /\ UNCHANGED <<queue, inbox>>
            /\ (attempt' = attempt \/ attempt' = NoAttempt)
  <2>1. \A m \in Msgs : turn'[m] = IF turn[m] \in {"recorded", "queued"} THEN "failed" ELSE turn[m]
    BY <1>2 DEF Orphaned
  <2>2. \A m \in Msgs : /\ Received(m)' <=> Received(m)
                        /\ Held(m)' <=> Held(m)
                        /\ TakenByChat(m)' <=> TakenByChat(m)
    BY <1>2 DEF Received, Held, TakenByChat
  <2>3. attempt'.step = "dispatch" => turn'[Message'] \in {"recorded", "failed"} /\ ~TakenByChat(Message)'
    <3> SUFFICES ASSUME attempt'.step = "dispatch"
                 PROVE  turn'[Message'] \in {"recorded", "failed"} /\ ~TakenByChat(Message)'
      OBVIOUS
    <3>1. PICK y \in Msgs : y = Message /\ y = Message' /\ attempt.step = "dispatch"
      BY <1>0, <1>00, <1>2 DEF Message
    <3>2. turn'[y] \in {"recorded", "failed"} /\ ~TakenByChat(y)'
      BY <2>1, <2>2, <3>1 DEF TurnInv
    <3> QED BY <3>1, <3>2 DEF TakenByChat
  <2>4. \A m \in Msgs : /\ turn'[m] # "recorded"
                        /\ turn'[m] = "sent" => Received(m)'
                        /\ (TakenByChat(m)' => turn'[m] \in {"none", "sent", "failed"}
                                               /\ (Held(m)' => turn'[m] # "none"))
    BY <2>1, <2>2 DEF TurnInv
  <2> QED BY <2>3, <2>4 DEF TurnInv
<1>3. CASE StopQueue
  <2>1. /\ attempt' = attempt /\ queue' = queue /\ inbox' = inbox
        /\ \A m \in Msgs : turn'[m] = IF turn[m] = "queued" THEN "cancelled" ELSE turn[m]
    BY <1>3 DEF StopQueue, deliverer, rows
  <2> QED BY <1>00, <2>1 DEF TurnInv, Message, Received, Held, TakenByChat
<1>4. ASSUME NEW x \in Msgs, SendDirect(x), turn' = [turn EXCEPT ![x] = "queued"], inbox' = inbox
      PROVE  TurnInv'
  <2>1. /\ attempt' = attempt /\ queue' = queue /\ sender[x] = "looked"
        /\ \A m \in Msgs : TakenByChat(m)' => TakenByChat(m)
    BY <1>4 DEF SendDirect, deliverer, rows, TakenByChat
  <2>2. ~TakenByChat(x)
    BY <2>1 DEF SentInv, TakenByChat, Received
  <2>3. attempt.step = "dispatch" => x # Message
    BY <1>00, <2>1
  <2>4. turn'[x] = "queued" /\ \A m \in Msgs : m # x => turn'[m] = turn[m]
    BY <1>4 DEF TurnOK
  <2> QED BY <2>1, <2>2, <2>3, <2>4, TurnFrame
<1>5. ASSUME NEW x \in Msgs, Drain(x) \/ DrainFails(x) PROVE TurnInv'
  <2>1. /\ attempt' = attempt /\ queue' = queue /\ turn[x] = "queued"
        /\ Reaches(x) \/ inbox' = inbox
    BY <1>5 DEF Drain, DrainFails, deliverer, rows
  <2>2. /\ turn'[x] \in {"sent", "failed"} /\ (turn'[x] = "sent" => Reaches(x))
        /\ \A m \in Msgs : m # x => turn'[m] = turn[m]
    BY <1>5 DEF Drain, DrainFails, TurnOK
  <2>3. turn'[x] = "sent" => Received(x)'
    BY <2>2, Handed DEF SessionOK
  <2>4. \A m \in Msgs : m # x => (TakenByChat(m)' => TakenByChat(m))
    <3>1. CASE inbox' = inbox
      BY <3>1 DEF TakenByChat
    <3>2. CASE Reaches(x)
      BY <3>2, Handed DEF SessionOK
    <3> QED BY <2>1, <3>1, <3>2
  <2>5. attempt.step = "dispatch" => x # Message
    BY <1>00, <2>1
  <2> QED BY <2>1, <2>2, <2>3, <2>4, <2>5, TurnFrame
<1>6. CASE ~HandStep /\ turn' = turn
  <2>1. \A m \in Msgs : ~Drain(m) /\ ~DrainFails(m)
    BY <1>6 DEF Drain, DrainFails, TurnOK
  <2>2. /\ attempt.step = "dispatch" => attempt' = attempt \/ attempt' = NoAttempt
        /\ attempt'.step = "dispatch" => attempt' = attempt
        /\ attempt' = NoAttempt /\ attempt.step = "dispatch" => turn[Message] = "failed"
    <3>1. \A t \in Handoffs : StartAttempt(t) => attempt'.step # "dispatch"
      BY <1>0 DEF StartAttempt
    <3>2. \A t \in Handoffs : Settle(t) => attempt.step # "dispatch" /\ attempt'.step # "dispatch"
      BY <1>0, <3>1 DEF Settle
    <3>3. Dispatch => attempt.step # "dispatch" /\ attempt'.step # "dispatch"
      <4>1. Dispatch => attempt = NoAttempt /\ attempt'.step \in {"none", "wait"}
        BY <1>0 DEF Dispatch, StartAttempt
      <4> QED BY <1>0, <4>1
    <3>4. WriteFails => attempt.step # "dispatch" /\ attempt' = NoAttempt
      BY DEF WriteFails
    <3>5. DaemonDies => attempt' = NoAttempt
                        /\ (attempt.step = "dispatch" => turn[Message] = "failed")
      <4>1. DaemonDies => \A m \in Msgs : turn[m] # "recorded"
        BY <1>6 DEF DaemonDies, Orphaned
      <4> QED BY <1>00, <4>1 DEF DaemonDies, TurnInv
    <3> QED BY <1>0, <1>6, <3>2, <3>3, <3>4, <3>5, AttemptChanges, AttemptMoves
  <2>3. attempt' = attempt => Message' = Message
    BY DEF Message
  <2>4. \A m \in Msgs : turn'[m] = "recorded" => attempt'.step = "dispatch" /\ m = Message'
    <3>1. \A m \in Msgs : turn[m] = "recorded" => attempt' = attempt
      BY <1>0, <1>00, <2>2 DEF TurnInv
    <3> QED BY <1>6, <2>3, <3>1 DEF TurnInv
  <2>5. attempt'.step = "dispatch" => turn'[Message'] \in {"recorded", "failed"} /\ ~TakenByChat(Message)'
    <3> SUFFICES ASSUME attempt'.step = "dispatch"
                 PROVE  turn'[Message'] \in {"recorded", "failed"} /\ ~TakenByChat(Message)'
      OBVIOUS
    <3>1. PICK y \in Msgs : y = Message /\ y = Message' /\ attempt.step = "dispatch"
      BY <1>00, <2>2, <2>3
    <3>2. ~SendDirect(y)
      BY <1>00, <3>1 DEF SendDirect
    <3>3. turn'[y] \in {"recorded", "failed"} /\ ~TakenByChat(y)'
      BY <1>6, <2>1, <3>1, <3>2, TakenComes DEF TurnInv
    <3> QED BY <3>1, <3>3 DEF TakenByChat
  <2>6. \A m \in Msgs : turn'[m] = "sent" => Received(m)'
    BY <1>6, ReceivedStays DEF TurnInv
  <2>7. ASSUME NEW m \in Msgs, TakenByChat(m)'
        PROVE  turn'[m] \in {"none", "sent", "failed"} /\ (Held(m)' => turn'[m] # "none")
    <3>1. CASE SendDirect(m)
      <4>1. sender[m] = "looked" /\ queue' = queue
        BY <3>1 DEF SendDirect, rows
      <4>2. turn[m] = "none" /\ ~Held(m)'
        BY <4>1 DEF SentInv, Held
      <4> QED BY <1>6, <4>2
    <3>2. CASE TakenByChat(m)
      <4>1. Enqueue(m) => ~Received(m)
        BY DEF Enqueue, SentInv
      <4>2. ~Enqueue(m)
        BY <3>2, <4>1 DEF TakenByChat, Received
      <4>3. Held(m)' => Held(m)
        BY <4>2, HeldComes
      <4> QED BY <1>6, <3>2, <4>3 DEF TurnInv
    <3> QED BY <1>6, <2>1, <2>7, <3>1, <3>2, TakenComes
  <2> QED BY <2>4, <2>5, <2>6, <2>7 DEF TurnInv
<1> QED BY <1>1, <1>2, <1>3, <1>4, <1>5, <1>6, TurnStays

-----------------------------------------------------------------------------
(* Messages                                                                *)

\* Whoever is accepted by a step was added to the rows or handed over by it.
LEMMA NowAccepted ==
  ASSUME TypeParts, OutboxNext, NEW m \in Msgs
  PROVE  /\ sender'[m] = "accepted" => \/ sender[m] = "accepted"
                                       \/ Enqueue(m)
                                       \/ SendDirect(m) /\ (Reaches(m) \/ turn'[m] = "queued")
         /\ sender[m] = "accepted" => sender'[m] = "accepted"
         /\ sender[m] = "refused" => sender'[m] = "refused"
         /\ SendDirect(m) => sender[m] = "looked" /\ sender'[m] \in {"accepted", "refused"}
<1> USE DEF TypeParts, SendersOK
<1>1. ASSUME NEW x \in Msgs, Enqueue(x)
      PROVE  /\ sender[x] = "looked"
             /\ sender'[m] = IF m = x THEN "accepted" ELSE sender[m]
  BY <1>1 DEF Enqueue
<1>2. ASSUME NEW x \in Msgs, SendDirect(x)
      PROVE  /\ sender[x] = "looked" /\ sender'[x] \in {"accepted", "refused"}
             /\ sender'[m] = IF m = x THEN sender'[x] ELSE sender[m]
             /\ sender'[x] = "accepted" => Reaches(x) \/ turn'[x] = "queued"
  BY <1>2 DEF SendDirect, TurnOK
<1>3. ASSUME NEW x \in Msgs, LookUp(x)
      PROVE  /\ sender[x] = "new"
             /\ sender'[m] = IF m = x THEN "looked" ELSE sender[m]
  BY <1>3 DEF LookUp
<1>4. DaemonDies => sender'[m] = IF sender[m] = "looked" THEN "refused" ELSE sender[m]
  BY DEF DaemonDies
<1>5. ASSUME NEW t \in Handoffs, StartHandoff(t) \/ EndHandoff(t) \/ Settle(t) PROVE sender' = sender
  BY <1>5 DEF StartHandoff, EndHandoff, Settle, senders
<1>6. FirstSignal \/ TurnEnds \/ Stirs \/ Answered \/ Resume \/ SessionEnds \/ QueueStep \/ Boot => sender' = sender
  BY QueueRests DEF FirstSignal, TurnEnds, Stirs, Answered, Resume, SessionEnds, Boot, senders
<1>7. WaitEnds \/ LookAgain \/ Requeue \/ HandStep \/ Mark \/ Scan \/ Dispatch \/ WriteFails
        => sender' = sender
  BY HandRests DEF WaitEnds, LookAgain, Requeue, Mark, Scan, Dispatch, WriteFails, senders
<1> QED BY <1>1, <1>2, <1>3, <1>4, <1>5, <1>6, <1>7
       DEF OutboxNext, SendNext, SessionNext, QueueStep, AttemptNext, HandStep

LEMMA KeptStep ==
  ASSUME TypeParts, AttemptInv, TargetInv, MarkInv, TurnInv, KeptInv, OutboxNext
  PROVE  KeptInv'
<1> SUFFICES ASSUME NEW m \in Msgs, sender'[m] = "accepted"
             PROVE  Received(m)' \/ Held(m)' \/ Shown(m)'
  BY DEF KeptInv
<1>6. CASE Shown(m) \/ turn'[m] = "queued"
  BY <1>6, ShownStays DEF Shown
<1>1. CASE Enqueue(m)
  <2>1. found[m] \in Handoffs /\ queue' = [queue EXCEPT ![found[m]] = Append(@, m)]
    BY <1>1 DEF Enqueue, TypeParts, SendersOK
  <2> QED BY <2>1, HeldGrows DEF TypeParts
<1>2. CASE SendDirect(m) /\ Reaches(m)
  BY <1>2, Handed DEF TypeParts, SessionOK
<1>3. CASE sender[m] = "accepted" /\ Received(m)
  BY <1>3, ReceivedStays
<1>4. CASE sender[m] = "accepted" /\ Held(m) /\ ~Mark
  <2>0. PICK t \in Handoffs : \E i \in DOMAIN queue[t] : queue[t][i] = m
    BY <1>4 DEF Held
  <2>1. PICK i \in DOMAIN queue[t] : queue[t][i] = m
    BY <2>0
  <2>2. i \in DOMAIN queue'[t] /\ queue'[t][i] = m
    BY <1>4, <2>1, RowsGrow
  <2> QED BY <2>2 DEF Held
<1>5. CASE Held(m) /\ Mark
  <2> DEFINE h == attempt.handoff  n == Len(queue[h])
  <2>1. /\ attempt.step = "mark" /\ h \in Handoffs /\ queue[h][1] = Message /\ Message \in Msgs
        /\ queue[h] # <<>> /\ queue' = [queue EXCEPT ![h] = Tail(@)]
    BY <1>5, Marked
  <2>2. /\ n \in Nat \ {0} /\ DOMAIN queue[h] = 1..n /\ DOMAIN queue'[h] = 1..(n - 1)
        /\ \A i \in DOMAIN queue'[h] : queue'[h][i] = queue[h][i + 1]
        /\ \A s \in Handoffs : s # h => queue'[s] = queue[s]
    BY <2>1, RowDropped DEF TypeParts
  <2> HIDE DEF n
  <2>3. ASSUME NEW t \in Handoffs, NEW i \in DOMAIN queue[t], queue[t][i] = m, t # h
        PROVE  Held(m)'
    <3>1. queue'[t] = queue[t]
      BY <2>2, <2>3
    <3> QED BY <3>1, <2>3 DEF Held
  <2>4. ASSUME NEW i \in DOMAIN queue[h], queue[h][i] = m, i # 1 PROVE Held(m)'
    <3>1. i - 1 \in 1..(n - 1) /\ i - 1 + 1 = i
      BY <2>2, <2>4
    <3>2. i - 1 \in DOMAIN queue'[h] /\ queue'[h][i - 1] = m
      BY <3>1, <2>2, <2>4
    <3> QED BY <3>2, <2>1 DEF Held
  <2>5. CASE m = Message
    <3>1. CASE attempt.target = NoHandoff
      BY <2>1, <2>5, <3>1, ReceivedStays, ShownStays DEF MarkInv
    <3>2. CASE attempt.target # NoHandoff
      <4>1. attempt.target \in Handoffs /\ attempt.target # h
        BY <2>1, <3>2 DEF TypeParts, DelivererOK, TargetInv
      <4>2. PICK i \in DOMAIN queue[attempt.target] : queue[attempt.target][i] = Message
        BY <2>1, <3>2 DEF MarkInv
      <4> QED BY <2>3, <2>5, <4>1, <4>2
    <3> QED BY <3>1, <3>2
  <2>6. CASE m # Message
    <3>0. PICK t \in Handoffs : \E i \in DOMAIN queue[t] : queue[t][i] = m
      BY <1>5 DEF Held
    <3>1. PICK i \in DOMAIN queue[t] : queue[t][i] = m
      BY <3>0
    <3>2. t = h => i # 1
      BY <2>1, <2>6, <3>1
    <3> QED BY <2>3, <2>4, <3>1, <3>2
  <2> QED BY <2>5, <2>6
<1> QED BY <1>1, <1>2, <1>3, <1>4, <1>5, <1>6, NowAccepted DEF KeptInv

LEMMA SentStep ==
  ASSUME TypeParts, AttemptInv, TargetInv, SentInv, OutboxNext PROVE SentInv'
<1> SUFFICES ASSUME NEW m \in Msgs
             PROVE  /\ Held(m)' => sender'[m] = "accepted"
                    /\ Received(m)' \/ turn'[m] # "none" => sender'[m] \in {"accepted", "refused"}
  BY DEF SentInv
<1>1. Held(m) => sender'[m] = "accepted"
  BY NowAccepted DEF SentInv
<1>2. Enqueue(m) => sender'[m] = "accepted"
  BY DEF Enqueue, TypeParts, SendersOK
<1>3. Received(m) \/ turn[m] # "none" \/ SendDirect(m) => sender'[m] \in {"accepted", "refused"}
  BY NowAccepted DEF SentInv
<1>4. Received(m)' => Received(m) \/ SendDirect(m) \/ turn[m] # "none" \/ Held(m)
  <2>1. CASE inbox' = inbox
    BY <2>1 DEF Received
  <2>2. ASSUME NEW x \in Msgs, SendDirect(x) \/ Drain(x) \/ DrainFails(x), Reaches(x), Received(m)'
        PROVE  Received(m) \/ SendDirect(m) \/ turn[m] # "none"
    <3>1. x # m => Received(m)
      BY <2>2, Handed DEF TypeParts, SessionOK
    <3>2. Drain(x) \/ DrainFails(x) => turn[x] # "none"
      BY DEF Drain, DrainFails
    <3> QED BY <2>2, <3>1, <3>2
  <2>3. ASSUME HandStep, Reaches(Message), Received(m)' PROVE Received(m) \/ Held(m)
    BY <2>3, HandsARow, Handed DEF TypeParts, SessionOK
  <2> QED BY <2>1, <2>2, <2>3, InboxStays DEF TypeParts
<1>5. turn'[m] # "none" => turn[m] # "none" \/ SendDirect(m) \/ Held(m)
  <2> USE DEF TypeParts, TurnOK
  <2>1. CASE HandStep
    <3>1. m # Message => turn'[m] = turn[m]
      BY <2>1, HandsARow, HandTurns
    <3> QED BY <2>1, <3>1, HandsARow
  <2>2. CASE turn' = Orphaned \/ StopQueue
    BY <2>2 DEF Orphaned, StopQueue
  <2>3. ASSUME NEW x \in Msgs, Drain(x) \/ DrainFails(x), turn[m] = "none" PROVE turn'[m] = "none"
    BY <2>3 DEF Drain, DrainFails
  <2>4. ASSUME NEW x \in Msgs, SendDirect(x), turn' = [turn EXCEPT ![x] = "queued"], ~SendDirect(m)
        PROVE  turn'[m] = turn[m]
    BY <2>4
  <2> QED BY <2>1, <2>2, <2>3, <2>4, TurnStays
<1> QED BY <1>1, <1>2, <1>3, <1>4, <1>5, HeldComes

LEMMA ChatStep ==
  ASSUME TypeParts, AttemptInv, TurnInv, SentInv, ChatInv, OutboxNext PROVE ChatInv'
<1>0. mode \in Modes
  BY DEF TypeParts, SessionOK
<1>1. CASE inbox' = inbox
  BY <1>1 DEF ChatInv
<1>2. ASSUME NEW m \in Msgs, SendDirect(m) \/ Drain(m) \/ DrainFails(m), Reaches(m) PROVE ChatInv'
  <2>1. SendDirect(m) => ~Received(m)
    BY NowAccepted DEF SentInv
  <2>2. Drain(m) \/ DrainFails(m) => turn[m] = "queued"
    BY DEF Drain, DrainFails
  <2>3. ~TakenByChat(m)
    BY <1>2, <2>1, <2>2 DEF TakenByChat, Received, TurnInv
  <2> QED BY <1>0, <1>2, <2>3, Handed DEF TypeParts
<1>3. CASE HandStep /\ Reaches(Message) /\ inbox' # inbox
  <2>1. PICK m \in Msgs : m = Message
    BY <1>3, HandsARow
  <2>2. ASSUME mode = "chat" PROVE ~TakenByChat(m)
    BY <1>3, <2>1, <2>2, ChatHands DEF TurnInv
  <2> QED BY <1>0, <1>3, <2>1, <2>2, Handed DEF TypeParts
<1> QED BY <1>1, <1>2, <1>3, InboxStays DEF TypeParts

\* Nothing about the copies of a message changes if its rows, the inbox and which of its
\* rows is about to be marked stay, and it is not queued.
LEMMA OnceFrame ==
  ASSUME NEW m \in Msgs, Once(m), queue' = queue, inbox' = inbox,
         turn'[m] = "queued" => turn[m] = "queued",
         \A t \in Handoffs : \A i \in DOMAIN queue[t] :
           queue[t][i] = m => (Passed(t, i) => Passed(t, i)')
  PROVE  Once(m)'
<1>1. Received(m)' <=> Received(m)
  BY DEF Received
<1>2. QueuedOrIn(m)'
  BY <1>1 DEF Once, QueuedOrIn
<1>4. OneEntry(m)'
  BY DEF Once, OneEntry
<1>5. OneRow(m)'
  BY DEF Once, OneRow
<1>6. RowOrPassed(m)'
  BY <1>1 DEF Once, RowOrPassed
<1> QED BY <1>2, <1>4, <1>5, <1>6 DEF Once

\* The steps that move neither rows nor the inbox, nor queue a message.
LEMMA OnceRests ==
  ASSUME TypeParts, OverInv, AttemptInv, TargetInv, OutboxNext, NEW m \in Msgs, Once(m),
         m \notin doubt', queue' = queue, inbox' = inbox, ~HandStep, ~Requeue, ~Mark,
         turn'[m] = "queued" => turn[m] = "queued"
  PROVE  Once(m)'
<1>1. CASE attempt.step # "mark" \/ attempt' = attempt
  BY <1>1, OnceFrame DEF Passed
<1>2. CASE attempt.step = "mark" /\ attempt' # attempt
  <2>1. WriteFails \/ DaemonDies
    <3>1. ~Dispatch /\ \A t \in Handoffs : ~Settle(t)
      BY <1>2 DEF Dispatch, Settle, NoAttempt
    <3> QED BY <1>2, <3>1, AttemptChanges, AttemptMoves
  <2>2. Message \in doubt'
    BY <1>2, <2>1 DEF WriteFails, DaemonDies, InDoubt
  <2>3. queue[attempt.handoff][1] = Message
    BY <1>2, FirstRow
  <2>4. \A t \in Handoffs : \A i \in DOMAIN queue[t] : queue[t][i] = m => ~Passed(t, i)
    BY <2>2, <2>3 DEF Passed
  <2> QED BY <2>4, OnceFrame
<1> QED BY <1>1, <1>2

LEMMA OnceEnqueued ==
  ASSUME TypeParts, SentInv, OutboxNext, NEW m \in Msgs, Once(m), NEW x \in Msgs, Enqueue(x)
  PROVE  Once(m)'
<1> DEFINE t == found[x]  n == Len(queue[t])
<1>1. /\ t \in Handoffs /\ queue' = [queue EXCEPT ![t] = Append(@, x)]
      /\ inbox' = inbox /\ turn' = turn /\ attempt' = attempt /\ sender[x] = "looked"
  BY DEF Enqueue, TypeParts, SendersOK, deliverer, agent
<1>2. Received(m)' <=> Received(m)
  BY <1>1 DEF Received
<1>3. OneEntry(m)'
  BY <1>1 DEF Once, OneEntry
<1>6. QueuedOrIn(m)'
  BY <1>1, <1>2 DEF Once, QueuedOrIn
<1>4. CASE x # m
  <2>1. \A s \in Handoffs : \A i \in DOMAIN queue'[s] :
          queue'[s][i] = m => i \in DOMAIN queue[s] /\ queue[s][i] = m
    BY <1>1, <1>4, PlacesAdded DEF TypeParts
  <2>5. OneRow(m)'
    BY <1>1, <2>1 DEF Once, OneRow, Passed
  <2>6. RowOrPassed(m)'
    BY <1>1, <1>2, <2>1 DEF Once, RowOrPassed, Passed
  <2> QED BY <1>3, <1>6, <2>5, <2>6 DEF Once
<1>5. CASE x = m
  <2>1. ~Received(m) /\ ~Held(m) /\ turn[m] = "none"
    BY <1>1, <1>5 DEF SentInv
  <2>2. \A s \in Handoffs : \A i \in DOMAIN queue[s] : queue[s][i] # m
    BY <2>1 DEF Held
  <2>3. \A s \in Handoffs : \A i \in DOMAIN queue'[s] :
          queue'[s][i] = m => s = t /\ i = n + 1
    BY <1>1, <1>5, <2>2, PlacesAdded DEF TypeParts
  <2>4. OneRow(m)'
    BY <2>3 DEF OneRow
  <2>5. RowOrPassed(m)'
    BY <1>1, <1>2, <2>1 DEF RowOrPassed
  <2> QED BY <1>3, <1>6, <2>4, <2>5 DEF Once
<1> QED BY <1>4, <1>5

\* A message that is sent has no row and no turn; one that is queued then stays out of the
\* rows and the inbox.
LEMMA OnceSent ==
  ASSUME TypeParts, SentInv, OutboxNext, NEW m \in Msgs, Once(m), NEW x \in Msgs,
         SendDirect(x), Reaches(x) \/ (inbox' = inbox /\ turn' = [turn EXCEPT ![x] = "queued"])
  PROVE  Once(m)'
<1>1. /\ queue' = queue /\ attempt' = attempt /\ sender[x] = "looked"
      /\ m # x => turn'[m] = turn[m]
      /\ Reaches(x) /\ turn'[x] = "queued" => inbox' = inbox \/ turn[x] = "queued"
  BY DEF SendDirect, rows, deliverer, agent, TypeParts, TurnOK
<1>2. ~Received(x) /\ ~Held(x) /\ turn[x] = "none"
  BY <1>1 DEF SentInv
<1>3. OneRow(m)'
  BY <1>1 DEF Once, OneRow, Passed
<1>4. mode \in Modes /\ BoxOK
  BY DEF TypeParts, SessionOK
<1>5. CASE x # m
  <2>1. /\ Received(m)' => Received(m)
        /\ OneEntry(m) => OneEntry(m)'
    <3>1. CASE Reaches(x)
      BY <1>4, <1>5, <3>1, Handed
    <3>2. CASE inbox' = inbox
      BY <3>2 DEF Received, OneEntry
    <3> QED BY <3>1, <3>2
  <2>2. RowOrPassed(m)' /\ QueuedOrIn(m)'
    BY <1>1, <1>5, <2>1 DEF Once, RowOrPassed, QueuedOrIn, Passed
  <2> QED BY <1>3, <2>1, <2>2 DEF Once
<1>6. CASE x = m
  <2>1. OneEntry(m)' /\ QueuedOrIn(m)'
    <3>1. CASE inbox' = inbox
      <4>1. OneEntry(m)'
        BY <3>1 DEF Once, OneEntry
      <4>2. ~Received(m)'
        BY <1>2, <1>6, <3>1 DEF Received
      <4> QED BY <4>1, <4>2 DEF QueuedOrIn
    <3>2. CASE Reaches(x) /\ inbox' # inbox
      <4>1. OneEntry(m)'
        BY <1>2, <1>4, <1>6, <3>2, Handed
      <4>2. turn'[m] # "queued"
        BY <1>1, <1>2, <1>6, <3>2
      <4> QED BY <4>1, <4>2 DEF QueuedOrIn
    <3> QED BY <3>1, <3>2
  <2>2. \A s \in Handoffs : \A i \in DOMAIN queue'[s] : queue'[s][i] # m
    BY <1>1, <1>2, <1>6 DEF Held
  <2>3. RowOrPassed(m)'
    BY <2>2 DEF RowOrPassed
  <2> QED BY <1>3, <2>1, <2>3 DEF Once
<1> QED BY <1>5, <1>6

\* What leaves the chat's queue has no row, and was not in the inbox.
LEMMA OnceDrained ==
  ASSUME TypeParts, OutboxNext, NEW m \in Msgs, Once(m), NEW x \in Msgs,
         Drain(x) \/ DrainFails(x), m \notin doubt'
  PROVE  Once(m)'
<1>1. /\ queue' = queue /\ attempt' = attempt /\ turn[x] = "queued"
      /\ turn'[x] # "queued" /\ \A y \in Msgs : y # x => turn'[y] = turn[y]
      /\ Reaches(x) \/ inbox' = inbox
      /\ DrainFails(x) => x \in doubt'
  BY DEF Drain, DrainFails, rows, deliverer, TypeParts, TurnOK
<1>2. mode \in Modes /\ BoxOK
  BY DEF TypeParts, SessionOK
<1>3. OneRow(m)'
  BY <1>1 DEF Once, OneRow, Passed
<1>4. CASE x # m
  <2>1. /\ Received(m)' => Received(m)
        /\ OneEntry(m) => OneEntry(m)'
    <3>1. CASE Reaches(x)
      BY <1>2, <1>4, <3>1, Handed
    <3>2. CASE inbox' = inbox
      BY <3>2 DEF Received, OneEntry
    <3> QED BY <1>1, <3>1, <3>2
  <2>2. RowOrPassed(m)' /\ QueuedOrIn(m)'
    BY <1>1, <1>4, <2>1 DEF Once, RowOrPassed, QueuedOrIn, Passed
  <2> QED BY <1>3, <2>1, <2>2 DEF Once
<1>5. CASE x = m
  <2>1. Drain(x) /\ Reaches(x)
    BY <1>1, <1>5 DEF Drain
  <2>2. ~Received(m)
    BY <1>1, <1>5 DEF Once, QueuedOrIn
  <2>3. OneEntry(m)'
    BY <1>2, <1>5, <2>1, <2>2, Handed
  <2>4. QueuedOrIn(m)'
    BY <1>1, <1>5 DEF QueuedOrIn
  <2>5. RowOrPassed(m)'
    BY <1>1, <1>5 DEF Once, RowOrPassed, Passed
  <2> QED BY <1>3, <2>3, <2>4, <2>5 DEF Once
<1> QED BY <1>4, <1>5

LEMMA OnceRequeued ==
  ASSUME TypeParts, AttemptInv, TargetInv, OutboxNext, NEW m \in Msgs, Once(m), Requeue
  PROVE  Once(m)'
<1> DEFINE h == attempt.handoff  t == attempt.target  n == Len(queue[t])
<1>1. /\ attempt.step = "queue" /\ attempt'.step = "mark" /\ attempt'.handoff = h
      /\ t \in Handoffs /\ t # h /\ h \in Handoffs
      /\ queue' = [queue EXCEPT ![t] = Append(@, Message)] /\ inbox' = inbox /\ turn' = turn
  BY AttemptMoves, FirstRow DEF Requeue, TargetInv, agent
<1>2. Message \in Msgs /\ queue[h][1] = Message /\ 1 \in DOMAIN queue[h]
  BY <1>1, FirstRow
<1>3. Received(m)' <=> Received(m)
  BY <1>1 DEF Received
<1>4. OneEntry(m)'
  BY <1>1 DEF Once, OneEntry
<1>8. QueuedOrIn(m)'
  BY <1>1, <1>3 DEF Once, QueuedOrIn
<1>5. \A s \in Handoffs : \A i \in DOMAIN queue[s] : ~Passed(s, i)
  BY <1>1 DEF Passed
<1>6. CASE m # Message
  <2>1. \A s \in Handoffs : \A i \in DOMAIN queue'[s] :
          queue'[s][i] = m => i \in DOMAIN queue[s] /\ queue[s][i] = m
    BY <1>1, <1>2, <1>6, PlacesAdded DEF TypeParts
  <2>4. OneRow(m)'
    BY <1>5, <2>1 DEF Once, OneRow
  <2>5. RowOrPassed(m)'
    BY <1>1, <1>3, <1>5, <2>1 DEF Once, RowOrPassed
  <2> QED BY <1>4, <1>8, <2>4, <2>5 DEF Once
<1>7. CASE m = Message
  <2>1. \A s \in Handoffs : \A i \in DOMAIN queue[s] : queue[s][i] = m => s = h /\ i = 1
    BY <1>1, <1>2, <1>5, <1>7 DEF Once, OneRow
  <2>3. ~Received(m) /\ turn[m] # "queued"
    BY <1>1, <1>2, <1>5, <1>7 DEF Once, RowOrPassed
  <2>5. RowOrPassed(m)'
    BY <1>1, <1>3, <2>3 DEF RowOrPassed
  <2>6. \A s \in Handoffs : \A i \in DOMAIN queue'[s] :
          queue'[s][i] = m => (s = h /\ i = 1) \/ (s = t /\ i = n + 1)
    BY <1>1, <1>2, <2>1, PlacesAdded DEF TypeParts
  <2>7. \A s \in Handoffs : \A i \in DOMAIN queue'[s] :
          queue'[s][i] = m /\ ~Passed(s, i)' => s = t /\ i = n + 1
    BY <1>1, <2>6 DEF Passed
  <2>8. OneRow(m)'
    BY <2>7 DEF OneRow
  <2> QED BY <1>4, <1>8, <2>5, <2>8 DEF Once
<1> QED BY <1>6, <1>7

\* A message is handed over, or queued, from the row that is then about to be marked.
LEMMA OnceHanded ==
  ASSUME TypeParts, AttemptInv, OutboxNext, NEW m \in Msgs, Once(m), HandStep, m \notin doubt'
  PROVE  Once(m)'
<1> DEFINE h == attempt.handoff
<1>1. /\ attempt.step \in {"deliver", "dispatch"} /\ queue' = queue
      /\ inbox' = inbox \/ Reaches(Message)
  BY HandMoves, HandRests DEF TypeParts
<1>2. Message \in Msgs /\ queue[h][1] = Message /\ 1 \in DOMAIN queue[h] /\ h \in Handoffs
  BY HandsARow
<1>3. \A s \in Handoffs : \A i \in DOMAIN queue[s] : ~Passed(s, i)
  BY <1>1 DEF Passed
<1>4. mode \in Modes /\ BoxOK
  BY DEF TypeParts, SessionOK
<1>5. OneRow(m)'
  <2>1. \A s, u \in Handoffs : \A i \in DOMAIN queue[s], j \in DOMAIN queue[u] :
          queue[s][i] = m /\ queue[u][j] = m => s = u /\ i = j
    BY <1>3 DEF Once, OneRow
  <2> QED BY <1>1, <2>1 DEF OneRow
<1>6. CASE m # Message
  <2>1. /\ Received(m)' => Received(m)
        /\ OneEntry(m) => OneEntry(m)'
    <3>1. CASE Reaches(Message)
      BY <1>2, <1>4, <1>6, <3>1, Handed
    <3>2. CASE inbox' = inbox
      BY <3>2 DEF Received, OneEntry
    <3> QED BY <1>1, <3>1, <3>2
  <2>2. turn'[m] = turn[m]
    BY <1>2, <1>6, HandTurns DEF TypeParts, TurnOK
  <2>3. RowOrPassed(m)' /\ QueuedOrIn(m)'
    BY <1>1, <1>3, <2>1, <2>2 DEF Once, RowOrPassed, QueuedOrIn
  <2> QED BY <1>5, <2>1, <2>3 DEF Once
<1>7. CASE m = Message
  <2>1. ~Received(m) /\ turn[m] # "queued"
    BY <1>2, <1>3, <1>7 DEF Once, RowOrPassed
  <2>2. \A s \in Handoffs : \A i \in DOMAIN queue[s] : queue[s][i] = m => s = h /\ i = 1
    BY <1>2, <1>3, <1>7 DEF Once, OneRow
  <2>3. CASE inbox' = inbox /\ turn'[m] # "queued"
    <3>1. ~Received(m)' /\ OneEntry(m)'
      BY <2>1, <2>3 DEF Received, Once, OneEntry
    <3> QED BY <1>5, <2>3, <3>1 DEF Once, RowOrPassed, QueuedOrIn
  <2>4. CASE inbox' # inbox \/ turn'[m] = "queued"
    <3>1. attempt' # NoAttempt
      <4>1. inbox' # inbox => attempt' # NoAttempt
        BY <1>7, HandMoves DEF TypeParts, NoAttempt
      <4>2. turn'[m] = "queued" => attempt' # NoAttempt
        <5>1. Goto("mark") => attempt' # NoAttempt
          BY DEF Goto, NoAttempt, TypeParts, DelivererOK
        <5> QED BY <1>7, <2>1, <5>1, HandTurns DEF TypeParts, TurnOK
      <4> QED BY <2>4, <4>1, <4>2
    <3>2. attempt'.handoff = h /\ attempt'.step = "mark"
      <4>1. Goto("mark") => attempt'.step = "mark"
        BY DEF Goto, TypeParts, DelivererOK
      <4>2. Goto("dispatch") => inbox' = inbox /\ turn'[m] # "queued"
        <5>1. Goto("dispatch") => ~Goto("mark")
          BY DEF Goto, TypeParts, DelivererOK
        <5> QED BY <1>7, <3>1, <5>1, HandTurns DEF TypeParts, TurnOK
      <4> QED BY <2>4, <3>1, <4>1, <4>2, HandTurns, HandMoves DEF TypeParts
    <3>3. RowOrPassed(m)'
      BY <1>1, <2>2, <3>2 DEF RowOrPassed, Passed
    <3>4. OneEntry(m)' /\ (inbox' = inbox => ~Received(m)')
      <4>1. inbox' = inbox => OneEntry(m)' /\ ~Received(m)'
        BY <2>1 DEF Received, Once, OneEntry
      <4>2. Reaches(Message) => OneEntry(m)'
        BY <1>2, <1>4, <1>7, <2>1, Handed
      <4> QED BY <1>1, <4>1, <4>2
    <3>5. inbox' # inbox => turn'[m] # "queued"
      BY <1>7, <2>1, HandTurns, <3>1 DEF TypeParts, TurnOK
    <3>6. QueuedOrIn(m)'
      BY <3>4, <3>5 DEF QueuedOrIn
    <3> QED BY <1>5, <3>3, <3>4, <3>6 DEF Once
  <2> QED BY <2>3, <2>4
<1> QED BY <1>6, <1>7

LEMMA OnceMarked ==
  ASSUME TypeParts, AttemptInv, OutboxNext, NEW m \in Msgs, Once(m), Mark
  PROVE  Once(m)'
<1> DEFINE h == attempt.handoff
<1>1. /\ attempt.step = "mark" /\ h \in Handoffs /\ queue[h] # <<>>
      /\ queue' = [queue EXCEPT ![h] = Tail(@)] /\ inbox' = inbox /\ turn' = turn
  BY Marked DEF Mark, agent
<1>2. attempt'.step # "mark"
  BY AttemptMoves DEF NoAttempt
<1>3. Received(m)' <=> Received(m)
  BY <1>1 DEF Received
<1>4. OneEntry(m)'
  BY <1>1 DEF Once, OneEntry
<1>6. QueuedOrIn(m)'
  BY <1>1, <1>3 DEF Once, QueuedOrIn
<1> DEFINE Old(s, i) == IF s = h THEN i + 1 ELSE i
<1>5. ASSUME NEW s \in Handoffs, NEW i \in DOMAIN queue'[s]
      PROVE  /\ Old(s, i) \in DOMAIN queue[s] /\ queue[s][Old(s, i)] = queue'[s][i]
             /\ ~Passed(s, Old(s, i)) /\ (s = h => i \in Nat)
  <2>1. s = h => /\ i \in Nat \ {0} /\ i + 1 \in DOMAIN queue[h]
                 /\ queue'[h][i] = queue[h][i + 1]
    <3> SUFFICES ASSUME s = h PROVE i \in Nat \ {0} /\ i + 1 \in DOMAIN queue[h]
                                    /\ queue'[h][i] = queue[h][i + 1]
      OBVIOUS
    <3> DEFINE n == Len(queue[h])
    <3>1. /\ n \in Nat \ {0} /\ DOMAIN queue[h] = 1..n /\ DOMAIN queue'[h] = 1..(n - 1)
          /\ \A j \in DOMAIN queue'[h] : queue'[h][j] = queue[h][j + 1]
      BY <1>1, RowDropped DEF TypeParts
    <3>2. i \in DOMAIN queue'[h]
      OBVIOUS
    <3> HIDE DEF n, h
    <3>3. i \in Nat \ {0} /\ i + 1 \in 1..n
      BY <3>1, <3>2
    <3> QED BY <3>1, <3>2, <3>3
  <2>4. s # h => i \in DOMAIN queue[s] /\ queue'[s][i] = queue[s][i]
    BY <1>1, RowDropped DEF TypeParts
  <2>2. CASE s = h
    <3>1. i + 1 # 1
      BY <2>1, <2>2
    <3> QED BY <2>1, <2>2, <3>1 DEF Passed
  <2>3. CASE s # h
    BY <2>3, <2>4 DEF Passed
  <2> QED BY <2>2, <2>3
<1> HIDE DEF Old
<1>8. RowOrPassed(m)'
  BY <1>1, <1>3, <1>5 DEF Once, RowOrPassed
<1>9. ASSUME NEW s \in Handoffs, NEW u \in Handoffs, NEW i \in DOMAIN queue'[s], NEW j \in DOMAIN queue'[u],
             queue'[s][i] = m, queue'[u][j] = m
      PROVE  s = u /\ i = j
  <2>1. s = u /\ Old(s, i) = Old(u, j)
    BY <1>5, <1>9 DEF Once, OneRow
  <2>2. CASE s = h
    <3>1. i + 1 = j + 1 /\ i \in Nat /\ j \in Nat
      BY <1>5, <2>1, <2>2 DEF Old
    <3> QED BY <2>1, <3>1
  <2>3. CASE s # h
    BY <2>1, <2>3 DEF Old
  <2> QED BY <2>2, <2>3
<1>10. OneRow(m)'
  BY <1>9 DEF OneRow
<1> QED BY <1>4, <1>6, <1>8, <1>10 DEF Once

LEMMA OnceStep ==
  ASSUME TypeParts, OverInv, AttemptInv, TargetInv, SentInv, OnceInv, OutboxNext PROVE OnceInv'
<1> SUFFICES ASSUME NEW m \in Msgs, m \notin doubt' PROVE Once(m)'
  BY DEF OnceInv
<1>1. m \notin doubt
  BY DoubtStays, HandMoves DEF TypeParts
<1>2. Once(m)
  BY <1>1 DEF OnceInv
<1>3. CASE Requeue
  BY <1>2, <1>3, OnceRequeued
<1>4. CASE HandStep
  BY <1>2, <1>4, OnceHanded
<1>5. CASE Mark
  BY <1>2, <1>5, OnceMarked
<1>6. ASSUME NEW x \in Msgs, Enqueue(x) PROVE Once(m)'
  BY <1>2, <1>6, OnceEnqueued
<1>7. ASSUME NEW x \in Msgs, SendDirect(x),
             Reaches(x) \/ (inbox' = inbox /\ turn' = [turn EXCEPT ![x] = "queued"])
      PROVE  Once(m)'
  BY <1>2, <1>7, OnceSent
<1>8. ASSUME NEW x \in Msgs, Drain(x) \/ DrainFails(x) PROVE Once(m)'
  BY <1>2, <1>8, OnceDrained
<1>9. CASE /\ queue' = queue /\ inbox' = inbox /\ ~Requeue /\ ~HandStep /\ ~Mark
           /\ turn' = turn \/ turn' = Orphaned \/ StopQueue
  <2>1. turn'[m] = "queued" => turn[m] = "queued"
    BY <1>9 DEF Orphaned, StopQueue
  <2> QED BY <1>2, <1>9, <2>1, OnceRests
<1> QED BY <1>3, <1>4, <1>5, <1>6, <1>7, <1>8, <1>9, RowsChange, InboxStays, TurnStays DEF TypeParts

-----------------------------------------------------------------------------
(* The theorems                                                            *)

LEMMA OutInit == OutboxInit => OutInv
<1> SUFFICES ASSUME OutboxInit PROVE OutInv
  OBVIOUS
<1>1. TypeParts
  BY TypeInit
<1>2. DOMAIN round = {} /\ DOMAIN inbox = {} /\ \A t \in Handoffs : DOMAIN queue[t] = {}
  BY EmptySeq DEF OutboxInit
<1>3. OverInv
  BY <1>2 DEF OutboxInit, OverInv
<1>4. AttemptInv /\ TargetInv /\ MarkInv
  BY DEF OutboxInit, NoAttempt, AttemptInv, TargetInv, MarkInv
<1>5. KeptInv
  BY DEF OutboxInit, KeptInv
<1>6. \A m \in Msgs : ~Received(m) /\ ~Held(m)
  BY <1>2 DEF Received, Held
<1>7. OnceInv
  BY <1>2, <1>6 DEF OutboxInit, OnceInv, Once, OneRow, RowOrPassed, QueuedOrIn, OneEntry
<1>8. ChatInv
  BY <1>2 DEF ChatInv
<1>9. TurnInv
  BY <1>2, <1>6 DEF OutboxInit, TurnInv, NoAttempt, TakenByChat
<1>10. SentInv
  BY <1>6 DEF OutboxInit, SentInv
<1> QED BY <1>1, <1>3, <1>4, <1>5, <1>7, <1>8, <1>9, <1>10 DEF OutInv

LEMMA OutStep == OutInv /\ [OutboxNext]_outVars => OutInv'
<1> SUFFICES ASSUME OutInv, [OutboxNext]_outVars PROVE OutInv'
  OBVIOUS
<1> USE DEF OutInv
<1>1. CASE OutboxNext
  <2>1. RowsOK' /\ SendersOK' /\ DelivererOK' /\ SettleOK' /\ SessionOK' /\ BoxOK' /\ TurnOK'
    BY <1>1, RowsStep, SendersStep, DelivererStep, SettleStep, SessionStep, BoxStep, TurnsStep
  <2>2. OverInv' /\ AttemptInv' /\ TargetInv' /\ MarkInv'
    BY <1>1, OverStep, AttemptStep, TargetStep, MarkStep
  <2>3. TurnInv' /\ SentInv'
    BY <1>1, TurnInvStep, SentStep
  <2>4. KeptInv' /\ OnceInv' /\ ChatInv'
    BY <1>1, KeptStep, OnceStep, ChatStep
  <2> QED BY <2>1, <2>2, <2>3, <2>4 DEF TypeParts
<1>2. CASE UNCHANGED outVars
  <2> USE <1>2 DEF outVars, rows, senders, deliverer, session, agent
  <2>1. TypeParts'
    BY DEF TypeParts, RowsOK, SendersOK, DelivererOK, SettleOK, SessionOK, BoxOK, TurnOK
  <2>2. OverInv' /\ AttemptInv' /\ TargetInv'
    BY DEF OverInv, AttemptInv, TargetInv
  <2>3. MarkInv' /\ KeptInv'
    BY DEF MarkInv, KeptInv, Message, Received, Held, Shown
  <2>4. OnceInv' /\ ChatInv'
    BY DEF OnceInv, ChatInv, Once, OneRow, RowOrPassed, QueuedOrIn, OneEntry, Passed, Received
  <2>5. TurnInv' /\ SentInv'
    BY DEF TurnInv, SentInv, Message, TakenByChat, Received, Held
  <2> QED BY <2>1, <2>2, <2>3, <2>4, <2>5
<1> QED BY <1>1, <1>2

LEMMA OutAlways == OutboxSpec => []OutInv
BY OutInit, OutStep, PTL DEF OutboxSpec

\* The outbox stays in its type.
THEOREM OutboxTypeCorrect == OutboxSpec => []OutboxTypeOK
<1>1. OutInv => OutboxTypeOK
  BY TypePartsAgree DEF OutInv
<1> QED BY <1>1, OutAlways, PTL

\* A message whose sender was told it was sent is received, still in a row, or shown in the
\* conversation as waiting, cancelled or failed, whatever handoffs start and end, writes and
\* dispatches fail, agents exit, controllers are replaced and daemons die between the steps.
THEOREM AcceptedStaysOnRecord == OutboxSpec => []AcceptedIsOnRecord
<1>1. ASSUME OutInv PROVE AcceptedIsOnRecord
  <2> SUFFICES ASSUME NEW m \in Msgs, sender[m] = "accepted"
               PROVE  Received(m) \/ Held(m) \/ turn[m] \in {"queued", "cancelled", "failed"}
    BY DEF AcceptedIsOnRecord
  <2>1. Received(m) \/ Held(m) \/ Shown(m)
    BY <1>1 DEF OutInv, KeptInv
  <2>2. turn[m] = "sent" => Received(m)
    BY <1>1 DEF OutInv, TurnInv
  <2> QED BY <1>1, <2>1, <2>2 DEF OutInv, TypeParts, TurnOK, TurnStates, Shown
<1> QED BY <1>1, OutAlways, PTL

\* A message reaches the agent twice only after a hand-over that came to no known end (a
\* row that could not be marked, a pane write or a dispatch that failed once attempted),
\* and the chat never gets it twice.
THEOREM RepeatsAreInDoubt == OutboxSpec => []RepeatsOnlyInDoubt
<1>1. ASSUME OutInv PROVE RepeatsOnlyInDoubt
  <2> SUFFICES ASSUME NEW i \in DOMAIN inbox, NEW j \in DOMAIN inbox, i # j,
                      inbox[i][2] = inbox[j][2]
               PROVE  inbox[i][2] \in doubt /\ "tui" \in {inbox[i][1], inbox[j][1]}
    BY DEF RepeatsOnlyInDoubt
  <2>1. inbox[i] \in Modes \X Msgs /\ inbox[j] \in Modes \X Msgs
    BY <1>1, ElementOfSeq, LenProperties DEF OutInv, TypeParts, BoxOK
  <2>2. inbox[i][2] \in doubt
    BY <1>1, <2>1 DEF OutInv, OnceInv, Once, OneEntry
  <2>3. ASSUME inbox[i][1] = "chat", inbox[j][1] = "chat" PROVE FALSE
    <3>1. inbox[i] = inbox[j]
      BY <2>1, <2>3
    <3> QED BY <1>1, <2>3, <3>1 DEF OutInv, ChatInv
  <2> QED BY <2>1, <2>2, <2>3 DEF Modes
<1> QED BY <1>1, OutAlways, PTL

-----------------------------------------------------------------------------
(* The mailbox                                                             *)

Told == {m \in Msgs : sender[m] = "accepted"}
Kept == {m \in Msgs : Held(m)}
ShownTurns == {m \in Msgs : Shown(m)}

\* Who was told changes only where a message is accepted.
LEMMA ToldStays ==
  ASSUME TypeParts, OutboxNext, \A m \in Msgs : ~Enqueue(m) /\ ~SendDirect(m)
  PROVE  Told' = Told
<1>1. \A m \in Msgs : sender'[m] = "accepted" <=> sender[m] = "accepted"
  BY NowAccepted
<1> QED BY <1>1 DEF Told

\* What a hand-over lets the conversation show: nothing new before its dispatch, and then
\* the turn of its message.
LEMMA HandShows ==
  ASSUME TypeParts, AttemptInv, TurnInv, HandStep
  PROVE  /\ attempt.step # "dispatch" => ShownTurns' = ShownTurns
         /\ attempt.step = "dispatch" => ShownTurns' = ShownTurns \cup {Message}
<1> USE DEF TypeParts, TurnOK
<1>1. Message \in Msgs
  BY HandsARow
<1>2. ASSUME attempt.step # "dispatch" PROVE ShownTurns' = ShownTurns
  <2>1. turn' = turn \/ (turn[Message] = "none" /\ turn' = [turn EXCEPT ![Message] = "recorded"])
    BY <1>2, HandTurns
  <2> QED BY <1>1, <2>1 DEF ShownTurns, Shown
<1>3. ASSUME attempt.step = "dispatch" PROVE ShownTurns' = ShownTurns \cup {Message}
  <2>1. \E st \in {"sent", "queued", "failed"} : turn' = [turn EXCEPT ![Message] = st]
    BY <1>3, HandTurns
  <2> QED BY <1>1, <2>1 DEF ShownTurns, Shown
<1> QED BY <1>2, <1>3

\* What a new chat controller settles was shown before, save the turn of the message that
\* is being dispatched.
LEMMA OrphansShow ==
  ASSUME TypeParts, AttemptInv, TurnInv, turn' = Orphaned
  PROVE  /\ attempt.step # "dispatch" => ShownTurns' = ShownTurns
         /\ attempt.step = "dispatch" => ShownTurns' = ShownTurns \cup {Message}
<1>1. \A m \in Msgs : Shown(m)' <=> Shown(m) \/ turn[m] = "recorded"
  BY DEF Orphaned, Shown
<1>2. \A m \in Msgs : turn[m] = "recorded" => attempt.step = "dispatch" /\ m = Message
  BY DEF TurnInv
<1>3. attempt.step = "dispatch" => Message \in Msgs /\ (turn[Message] = "recorded" \/ Shown(Message))
  BY FirstRow DEF TurnInv, Shown
<1> QED BY <1>1, <1>2, <1>3 DEF ShownTurns

\* What marking a row does to the messages that are held.
LEMMA LetGoMarked ==
  ASSUME OutInv, Mark, NEW m \in Msgs
  PROVE  /\ m # Message => (Held(m)' <=> Held(m))
         /\ m = Message => Held(m) /\ (~Held(m)' => Received(m) \/ Shown(m))
<1> USE DEF OutInv
<1> DEFINE h == attempt.handoff  n == Len(queue[h])
<1>1. /\ attempt.step = "mark" /\ h \in Handoffs /\ queue[h][1] = Message /\ Message \in Msgs
      /\ queue[h] # <<>> /\ queue' = [queue EXCEPT ![h] = Tail(@)]
  BY Marked
<1>2. /\ n \in Nat \ {0} /\ DOMAIN queue[h] = 1..n /\ DOMAIN queue'[h] = 1..(n - 1)
      /\ \A i \in DOMAIN queue'[h] : queue'[h][i] = queue[h][i + 1]
      /\ \A s \in Handoffs : s # h => queue'[s] = queue[s]
  BY <1>1, RowDropped DEF TypeParts
<1> HIDE DEF n
<1>3. Held(Message)
  <2>1. 1 \in DOMAIN queue[h]
    BY <1>2
  <2> QED BY <1>1, <2>1 DEF Held
<1>4. ASSUME NEW x \in Msgs, NEW t \in Handoffs, NEW i \in DOMAIN queue[t], queue[t][i] = x,
             t = h => i # 1
      PROVE  Held(x)'
  <2>1. CASE t # h
    BY <1>2, <1>4, <2>1 DEF Held
  <2>2. CASE t = h
    <3>1. i - 1 \in 1..(n - 1) /\ i - 1 + 1 = i
      BY <1>2, <1>4, <2>2
    <3>2. i - 1 \in DOMAIN queue'[h] /\ queue'[h][i - 1] = x
      BY <3>1, <1>2, <1>4, <2>2
    <3> QED BY <3>2, <1>1 DEF Held
  <2> QED BY <2>1, <2>2
<1>5. ASSUME NEW x \in Msgs, NEW t \in Handoffs, NEW i \in DOMAIN queue'[t], queue'[t][i] = x
      PROVE  Held(x)
  <2>1. CASE t # h
    BY <1>2, <1>5, <2>1 DEF Held
  <2>2. CASE t = h
    <3>1. i + 1 \in DOMAIN queue[h]
      BY <1>2, <1>5, <2>2
    <3>2. queue[h][i + 1] = x
      BY <1>2, <1>5, <2>2
    <3> QED BY <1>1, <3>1, <3>2 DEF Held
  <2> QED BY <2>1, <2>2
<1>6. ASSUME m # Message PROVE Held(m)' <=> Held(m)
  <2>1. Held(m)' => Held(m)
    BY <1>5 DEF Held
  <2>2. \A t \in Handoffs : \A i \in DOMAIN queue[t] : queue[t][i] = m => (t = h => i # 1)
    BY <1>1, <1>6
  <2>3. Held(m) => Held(m)'
    BY <1>4, <2>2 DEF Held
  <2> QED BY <2>1, <2>3
<1>7. ASSUME m = Message, ~Received(m), ~Shown(m) PROVE Held(m)'
  <2>1. attempt.target # NoHandoff /\ attempt.target \in Handoffs /\ attempt.target # h
    BY <1>1, <1>7 DEF MarkInv, TargetInv, TypeParts, DelivererOK
  <2>2. PICK i \in DOMAIN queue[attempt.target] : queue[attempt.target][i] = m
    BY <1>1, <1>7, <2>1 DEF MarkInv
  <2> QED BY <1>1, <1>4, <2>1, <2>2
<1> QED BY <1>1, <1>3, <1>6, <1>7

\* A channel gets a message as the mailbox allows.
LEMMA HandsOverAsAllowed ==
  ASSUME NEW m \in Msgs, Reaches(m), Received(m) => m \in doubt,
         mode = "chat" => ~TakenByChat(m)
  PROVE  Box!HandsOver(mode, m)
<1>1. Box!HasGot(m) => m \in doubt
  BY DEF Box!HasGot, Received
<1>2. mode \in {"chat"} => ~Box!TookFrom(mode, m)
  BY DEF Box!TookFrom, TakenByChat
<1>3. inbox' = Append(inbox, <<mode, m>>)
  BY DEF Reaches
<1> QED BY <1>1, <1>2, <1>3 DEF Box!HandsOver

\* A message that is about to be handed over by an attempt, or leaves the chat's queue, is
\* in doubt if the agent has it.
LEMMA AgainInDoubt ==
  ASSUME OutInv, NEW m \in Msgs, Received(m),
         (HandStep /\ Message = m) \/ turn[m] = "queued"
  PROVE  m \in doubt
<1> USE DEF OutInv
<1>1. CASE turn[m] = "queued"
  BY <1>1 DEF OnceInv, Once, QueuedOrIn
<1>2. CASE HandStep /\ Message = m
  <2>1. /\ attempt.handoff \in Handoffs /\ 1 \in DOMAIN queue[attempt.handoff]
        /\ queue[attempt.handoff][1] = m /\ attempt.step \in {"deliver", "dispatch"}
    BY <1>2, HandsARow, HandMoves DEF TypeParts
  <2>2. ~Passed(attempt.handoff, 1)
    BY <2>1 DEF Passed
  <2> QED BY <2>1, <2>2 DEF OnceInv, Once, RowOrPassed
<1> QED BY <1>1, <1>2

\* The steps of the outbox, one by one, as steps of the mailbox.
LEMMA EnqueueKeeps ==
  ASSUME OutInv, OutboxNext, NEW m \in Msgs, Enqueue(m) PROVE Box!Keep(m)
<1> USE DEF OutInv
<1>1. /\ sender[m] = "looked" /\ sender' = [sender EXCEPT ![m] = "accepted"]
      /\ found[m] \in Handoffs /\ queue' = [queue EXCEPT ![found[m]] = Append(@, m)]
      /\ inbox' = inbox /\ turn' = turn /\ doubt' = doubt
  BY DEF Enqueue, TypeParts, SendersOK, agent
<1>2. m \notin Told
  BY <1>1 DEF Told
<1>3. Told' = Told \cup {m}
  BY <1>1 DEF Told, TypeParts, SendersOK
<1>4. /\ \A x \in Msgs : Held(x) => Held(x)'
      /\ Held(m)'
      /\ \A x \in Msgs : x # m /\ Held(x)' => Held(x)
  BY <1>1, HeldGrows DEF TypeParts
<1>5. Kept' = Kept \cup {m} /\ ShownTurns' = ShownTurns
  BY <1>1, <1>4 DEF Kept, ShownTurns, Shown
<1> QED BY <1>1, <1>2, <1>3, <1>5 DEF Box!Keep, Told, Kept, ShownTurns

\* A message that is sent passes, is queued by a busy chat, or is refused.
LEMMA SendPasses ==
  ASSUME OutInv, OutboxNext, NEW m \in Msgs, SendDirect(m)
  PROVE  Box!Pass(mode, m) \/ Box!Queue(m) \/ UNCHANGED Box!boxVars
<1> USE DEF OutInv
<1>1. sender[m] = "looked" /\ queue' = queue /\ doubt' = doubt
  BY DEF SendDirect, rows
<1>2. ~Received(m) /\ m \notin Told /\ Kept' = Kept
  BY <1>1 DEF SentInv, Told, Kept, Held
<1>3. CASE Reaches(m) /\ turn' = turn
           /\ sender' \in {[sender EXCEPT ![m] = "accepted"], [sender EXCEPT ![m] = "refused"]}
  <2>1. Told' \in {Told, Told \cup {m}}
    BY <1>1, <1>3 DEF Told, TypeParts, SendersOK
  <2>2. ShownTurns' = ShownTurns
    BY <1>3 DEF ShownTurns, Shown
  <2>3. Box!HandsOver(mode, m)
    BY <1>2, <1>3, HandsOverAsAllowed DEF TakenByChat, Received
  <2> QED BY <1>1, <1>2, <2>1, <2>2, <2>3 DEF Box!Pass, Told, Kept, ShownTurns
<1>4. CASE /\ turn' = [turn EXCEPT ![m] = "queued"] /\ inbox' = inbox
           /\ sender' = [sender EXCEPT ![m] = "accepted"]
  <2>1. Told' = Told \cup {m}
    BY <1>4 DEF Told, TypeParts, SendersOK
  <2>2. ShownTurns' = ShownTurns \cup {m}
    BY <1>4 DEF ShownTurns, Shown, TypeParts, TurnOK
  <2> QED BY <1>1, <1>2, <1>4, <2>1, <2>2 DEF Box!Queue, Told, Kept, ShownTurns
<1>5. CASE sender' = [sender EXCEPT ![m] = "refused"] /\ UNCHANGED agent
  <2>1. Told' = Told /\ ShownTurns' = ShownTurns
    BY <1>1, <1>5 DEF Told, ShownTurns, Shown, agent, TypeParts, SendersOK
  <2> QED BY <1>1, <1>2, <1>5, <2>1 DEF Box!boxVars, Told, Kept, ShownTurns, agent
<1> QED BY <1>3, <1>4, <1>5 DEF SendDirect

\* A hand-over is a delivery, a turn shown by the chat, a doubt, or nothing yet.
LEMMA HandDelivers ==
  ASSUME OutInv, OutboxNext, HandStep PROVE [Box!MailboxNext]_(Box!boxVars)
<1> USE DEF OutInv
<1>1. queue' = queue /\ sender' = sender
  BY HandRests
<1>2. PICK m \in Msgs : m = Message /\ Held(m)
  BY HandsARow
<1>3. Told' = Told /\ Kept' = Kept /\ m \in Kept
  BY <1>1, <1>2 DEF Told, Kept, Held
<1>4. Received(m) => m \in doubt
  BY <1>2, AgainInDoubt
<1>5. attempt.step = "dispatch" => ~TakenByChat(m)
  BY <1>2 DEF TurnInv
<1>6. mode \in Modes
  BY DEF TypeParts, SessionOK
<1>7. CASE Deliver
  <2>0. attempt.step = "deliver"
    BY <1>7 DEF Deliver, At
  <2>1. doubt' = doubt /\ ShownTurns' = ShownTurns
    BY <1>7, <2>0, HandShows DEF Deliver
  <2>2. CASE inbox' = inbox
    BY <1>3, <2>1, <2>2 DEF Box!boxVars, Told, Kept, ShownTurns
  <2>3. CASE Reaches(m) /\ inbox' # inbox
    <3>1. mode # "chat"
      BY <1>2, <2>0, <2>3, ChatHands
    <3>2. Box!HandsOver(mode, m)
      BY <1>4, <2>3, <3>1, HandsOverAsAllowed
    <3>3. Box!Deliver(mode, m)
      BY <1>3, <2>1, <3>2 DEF Box!Deliver, Told, Kept, ShownTurns
    <3> QED BY <1>6, <3>3 DEF Box!MailboxNext
  <2> QED BY <1>2, <2>2, <2>3, HandMoves DEF TypeParts
<1>8. CASE WriteAttempted
  <2>1. doubt' = doubt \cup {m} /\ mode = "tui" /\ attempt.step = "deliver"
    BY <1>2, <1>8 DEF WriteAttempted, At
  <2>2. ShownTurns' = ShownTurns
    BY <2>1, HandShows
  <2>3. CASE inbox' = inbox
    <3>1. Box!BecomesDoubtful(m)
      BY <1>3, <2>1, <2>2, <2>3 DEF Box!BecomesDoubtful, Told, Kept, ShownTurns
    <3> QED BY <3>1 DEF Box!MailboxNext
  <2>4. CASE Reaches(m)
    <3>1. Box!HandsOver(mode, m)
      BY <1>4, <2>1, <2>4, HandsOverAsAllowed
    <3>2. Box!Deliver(mode, m)
      BY <1>3, <2>1, <2>2, <3>1 DEF Box!Deliver, Told, Kept, ShownTurns
    <3> QED BY <1>6, <3>2 DEF Box!MailboxNext
  <2> QED BY <1>2, <2>3, <2>4, HandMoves DEF TypeParts
<1>9. CASE DispatchTurn \/ DispatchFails
  <2>1. /\ attempt.step = "dispatch" /\ doubt' \in {doubt, doubt \cup {m}}
        /\ inbox' = inbox \/ (mode = "chat" /\ Reaches(m))
    BY <1>2, <1>9 DEF DispatchTurn, DispatchFails, At
  <2>2. ShownTurns' = ShownTurns \cup {m}
    BY <1>2, <2>1, HandShows
  <2>3. inbox' = inbox \/ Box!HandsOver("chat", m)
    BY <1>4, <1>5, <2>1, HandsOverAsAllowed
  <2>4. Box!Show("chat", m)
    BY <1>3, <2>1, <2>2, <2>3 DEF Box!Show, Told, Kept, ShownTurns
  <2> QED BY <2>4 DEF Box!MailboxNext, Modes
<1> QED BY <1>7, <1>8, <1>9 DEF HandStep

\* A step of the chat's queue delivers a message that is shown, or leaves it in doubt.
LEMMA QueueDelivers ==
  ASSUME OutInv, OutboxNext, QueueStep PROVE [Box!MailboxNext]_(Box!boxVars)
<1> USE DEF OutInv
<1>1. Told' = Told /\ Kept' = Kept
  BY QueueRests DEF Told, Kept, Held
<1>2. CASE StopQueue
  <2>1. inbox' = inbox /\ doubt' = doubt /\ ShownTurns' = ShownTurns
    BY <1>2 DEF StopQueue, ShownTurns, Shown
  <2> QED BY <1>1, <2>1 DEF Box!boxVars, Told, Kept, ShownTurns
<1>3. ASSUME NEW m \in Msgs, Drain(m) \/ DrainFails(m) PROVE Box!MailboxNext
  <2>1. /\ mode = "chat" /\ turn[m] = "queued" /\ doubt' \in {doubt, doubt \cup {m}}
        /\ \/ Reaches(m)
           \/ inbox' = inbox /\ doubt' = doubt \cup {m}
        /\ \E st \in {"sent", "failed"} : turn' = [turn EXCEPT ![m] = st]
    BY <1>3 DEF Drain, DrainFails
  <2>2. m \in ShownTurns /\ ShownTurns' = ShownTurns
    BY <2>1 DEF ShownTurns, Shown, TypeParts, TurnOK
  <2>3. ~TakenByChat(m) /\ (Received(m) => m \in doubt)
    BY <2>1, AgainInDoubt DEF TurnInv
  <2>4. CASE Reaches(m)
    <3>1. Box!HandsOver("chat", m)
      BY <2>1, <2>3, <2>4, HandsOverAsAllowed
    <3>2. Box!Deliver("chat", m)
      BY <1>1, <2>1, <2>2, <3>1 DEF Box!Deliver, Told, Kept, ShownTurns
    <3> QED BY <3>2 DEF Box!MailboxNext, Modes
  <2>5. CASE inbox' = inbox /\ doubt' = doubt \cup {m}
    <3>1. Box!BecomesDoubtful(m)
      BY <1>1, <2>2, <2>5 DEF Box!BecomesDoubtful, Told, Kept, ShownTurns
    <3> QED BY <3>1 DEF Box!MailboxNext
  <2> QED BY <2>1, <2>4, <2>5
<1> QED BY <1>2, <1>3 DEF QueueStep

LEMMA MarkLetsGo ==
  ASSUME OutInv, OutboxNext, Mark
  PROVE  (Message \in Msgs /\ Box!LetGo(Message)) \/ UNCHANGED Box!boxVars
<1> USE DEF OutInv
<1>1. inbox' = inbox /\ turn' = turn /\ doubt' = doubt /\ sender' = sender
  BY DEF Mark, senders, agent
<1>2. Told' = Told /\ ShownTurns' = ShownTurns
  BY <1>1 DEF Told, ShownTurns, Shown
<1>3. PICK m \in Msgs : m = Message
  BY Marked
<1>4. Held(m) /\ \A x \in Msgs : x # m => (Held(x)' <=> Held(x))
  BY <1>3, LetGoMarked
<1>5. CASE Held(m)'
  <2>1. Kept' = Kept
    BY <1>4, <1>5 DEF Kept
  <2> QED BY <1>1, <1>2, <2>1 DEF Box!boxVars, Told, Kept, ShownTurns
<1>6. CASE ~Held(m)'
  <2>1. Kept' = Kept \ {m} /\ m \in Kept
    BY <1>4, <1>6 DEF Kept
  <2>2. Box!HasGot(m) \/ m \in ShownTurns
    BY <1>3, <1>6, LetGoMarked DEF Box!HasGot, Received, ShownTurns
  <2>3. Box!LetGo(m)
    BY <1>1, <1>2, <2>1, <2>2 DEF Box!LetGo, Told, Kept, ShownTurns
  <2> QED BY <1>3, <2>3
<1> QED BY <1>5, <1>6

\* A row that is put into another handoff's queue is of a message that is kept already.
LEMMA RequeueKeeps ==
  ASSUME OutInv, Requeue PROVE UNCHANGED Box!boxVars
<1> USE DEF OutInv
<1>1. /\ attempt.step = "queue" /\ attempt.target \in Handoffs
      /\ queue' = [queue EXCEPT ![attempt.target] = Append(@, Message)]
      /\ inbox' = inbox /\ turn' = turn /\ doubt' = doubt /\ sender' = sender
  BY DEF Requeue, At, TargetInv, senders, agent
<1>2. PICK m \in Msgs : m = Message /\ Held(m)
  BY <1>1, FirstRow DEF Held
<1>3. \A x \in Msgs : Held(x)' <=> Held(x)
  BY <1>1, <1>2, HeldGrows DEF TypeParts
<1>4. Told' = Told /\ Kept' = Kept /\ ShownTurns' = ShownTurns
  BY <1>1, <1>3 DEF Told, Kept, ShownTurns, Shown
<1> QED BY <1>1, <1>4 DEF Box!boxVars, Told, Kept, ShownTurns

\* A failed write or a death leaves what was handed over in doubt.
LEMMA TroubleDoubts ==
  ASSUME OutInv, OutboxNext, WriteFails \/ DaemonDies
  PROVE  [Box!MailboxNext]_(Box!boxVars)
<1> USE DEF OutInv
<1>1. /\ queue' = queue /\ inbox' = inbox /\ doubt' = doubt \cup InDoubt
      /\ turn' = turn \/ turn' = Orphaned
      /\ attempt.step = "dispatch" => turn' = Orphaned
  BY DEF WriteFails, DaemonDies, rows, agent
<1>2. Told' = Told
  <2>1. \A m \in Msgs : sender'[m] = "accepted" <=> sender[m] = "accepted"
    BY DEF WriteFails, DaemonDies, senders, TypeParts, SendersOK
  <2> QED BY <2>1 DEF Told
<1>3. Kept' = Kept
  BY <1>1 DEF Kept, Held
<1>4. /\ attempt.step # "dispatch" => ShownTurns' = ShownTurns
      /\ attempt.step = "dispatch" => ShownTurns' = ShownTurns \cup {Message}
  BY <1>1, OrphansShow DEF ShownTurns, Shown
<1>5. CASE attempt.step \in {"dispatch", "mark"}
  <2>1. PICK m \in Msgs : m = Message /\ m \in Kept
    BY <1>5, FirstRow DEF Kept, Held
  <2>2. doubt' = doubt \cup {m}
    BY <1>1, <1>5, <2>1 DEF InDoubt
  <2>3. CASE attempt.step = "mark"
    <3>1. Box!BecomesDoubtful(m)
      BY <1>1, <1>2, <1>3, <1>4, <2>1, <2>2, <2>3
         DEF Box!BecomesDoubtful, Told, Kept, ShownTurns
    <3> QED BY <3>1 DEF Box!MailboxNext
  <2>4. CASE attempt.step = "dispatch"
    <3>1. Box!Show("chat", m)
      BY <1>1, <1>2, <1>3, <1>4, <2>1, <2>2, <2>4 DEF Box!Show, Told, Kept, ShownTurns
    <3> QED BY <3>1 DEF Box!MailboxNext, Modes
  <2> QED BY <1>5, <2>3, <2>4
<1>6. CASE attempt.step \notin {"dispatch", "mark"}
  <2>1. doubt' = doubt
    BY <1>1, <1>6 DEF InDoubt
  <2> QED BY <1>1, <1>2, <1>3, <1>4, <1>6, <2>1 DEF Box!boxVars, Told, Kept, ShownTurns
<1> QED BY <1>5, <1>6

\* A new chat controller shows the turn that was being dispatched as failed.
LEMMA OrphansAreShown ==
  ASSUME OutInv, turn' = Orphaned, UNCHANGED <<queue, inbox, doubt>>, Told' = Told
  PROVE  [Box!MailboxNext]_(Box!boxVars)
<1> USE DEF OutInv
<1>1. Kept' = Kept
  BY DEF Kept, Held
<1>2. CASE attempt.step = "dispatch"
  <2>1. PICK m \in Msgs : m = Message /\ m \in Kept
    BY <1>2, FirstRow DEF Kept, Held
  <2>2. ShownTurns' = ShownTurns \cup {m}
    BY <1>2, <2>1, OrphansShow
  <2>3. Box!Show("chat", m)
    BY <1>1, <2>1, <2>2 DEF Box!Show, Told, Kept, ShownTurns
  <2> QED BY <2>3 DEF Box!MailboxNext, Modes
<1>3. CASE attempt.step # "dispatch"
  <2>1. ShownTurns' = ShownTurns
    BY <1>3, OrphansShow
  <2> QED BY <1>1, <2>1 DEF Box!boxVars, Told, Kept, ShownTurns
<1> QED BY <1>2, <1>3

LEMMA MailboxStep ==
  OutInv /\ [OutboxNext]_outVars => [Box!MailboxNext]_(Box!boxVars)
<1> SUFFICES ASSUME OutInv, [OutboxNext]_outVars PROVE [Box!MailboxNext]_(Box!boxVars)
  OBVIOUS
<1>0. CASE UNCHANGED outVars
  BY <1>0 DEF outVars, rows, senders, agent, Box!boxVars, Held, Shown
<1> SUFFICES ASSUME OutboxNext PROVE [Box!MailboxNext]_(Box!boxVars)
  BY <1>0
<1>1. ASSUME NEW m \in Msgs, Enqueue(m) PROVE Box!MailboxNext
  BY <1>1, EnqueueKeeps DEF Box!MailboxNext
<1>2. ASSUME NEW m \in Msgs, SendDirect(m) PROVE [Box!MailboxNext]_(Box!boxVars)
  <2>1. mode \in Modes
    BY DEF OutInv, TypeParts, SessionOK
  <2> QED BY <1>2, <2>1, SendPasses DEF Box!MailboxNext
<1>3. CASE Requeue
  BY <1>3, RequeueKeeps
<1>4. CASE Mark
  BY <1>4, MarkLetsGo DEF Box!MailboxNext
<1>5. CASE HandStep
  BY <1>5, HandDelivers
<1>6. CASE WriteFails \/ DaemonDies
  BY <1>6, TroubleDoubts
<1>7. CASE QueueStep
  BY <1>7, QueueDelivers
<1>8. CASE /\ queue' = queue /\ inbox' = inbox /\ doubt' = doubt
           /\ turn' = turn \/ turn' = Orphaned
           /\ \A m \in Msgs : ~Enqueue(m) /\ ~SendDirect(m)
  <2>1. Told' = Told
    BY <1>8, ToldStays DEF OutInv
  <2>2. CASE turn' = turn
    <3>1. Kept' = Kept /\ ShownTurns' = ShownTurns
      BY <1>8, <2>2 DEF Kept, Held, ShownTurns, Shown
    <3> QED BY <1>8, <2>1, <3>1 DEF Box!boxVars, Told, Kept, ShownTurns
  <2>3. CASE turn' = Orphaned
    BY <1>8, <2>1, <2>3, OrphansAreShown
  <2> QED BY <1>8, <2>2, <2>3
<1>9. DelivererOK /\ (StopQueue \/ (\E m \in Msgs : Drain(m) \/ DrainFails(m)) => QueueStep)
  BY DEF OutInv, TypeParts, QueueStep
<1> QED
  BY <1>1, <1>2, <1>3, <1>4, <1>5, <1>6, <1>7, <1>8, <1>9, RowsChange, InboxStays, DoubtStays, TurnStays

\* The outbox is a mailbox: what a sender was told was sent is kept until the agent has it
\* or the conversation shows its turn (waiting, sent, cancelled or failed), and a message
\* reaches the agent again only in doubt, and a chat never.  For any messages, handoffs,
\* races of the worker, the dispatcher and the chat's own queue, failed writes and
\* dispatches, exits and deaths.
THEOREM OutboxIsImplemented == OutboxSpec => ImplementsMailbox
<1>1. ASSUME OutboxInit PROVE Box!MailboxInit
  <2>1. \A m \in Msgs : ~Held(m) /\ sender[m] # "accepted" /\ ~Shown(m)
    BY <1>1, OutInit DEF OutboxInit, OutInv, SentInv, Shown
  <2> QED BY <1>1, <2>1 DEF Box!MailboxInit, OutboxInit
<1> QED
  BY <1>1, OutInit, OutStep, MailboxStep, PTL
     DEF OutboxSpec, ImplementsMailbox, Box!MailboxSpec

-----------------------------------------------------------------------------
(* No row is beyond reach                                                  *)

\* A held message has a row in a handoff whose end is still to come, or in one the
\* dispatcher lists.
HeldIsInReach ==
  \A m \in Msgs : Held(m) =>
    \E t \in Active \cup Owed : \E i \in DOMAIN queue[t] : queue[t][i] = m

\* Rows are added to handoffs that were started, and a handoff never goes back.
StartedInv ==
  /\ \A t \in Handoffs : queue[t] # <<>> => phase[t] # "none"
  /\ \A m \in Msgs : found[m] # NoHandoff => phase[found[m]] # "none"
  /\ attempt.step = "queue" => phase[attempt.target] # "none"
ReachInv == OutInv /\ StartedInv

LEMMA PhaseStays ==
  ASSUME TypeParts, OutboxNext
  PROVE  \A t \in Handoffs : phase[t] # "none" => phase'[t] # "none"
<1> USE DEF TypeParts, RowsOK
<1>1. ASSUME NEW t \in Handoffs, StartHandoff(t) \/ EndHandoff(t)
      PROVE  \A s \in Handoffs : phase[s] # "none" => phase'[s] # "none"
  BY <1>1 DEF StartHandoff, EndHandoff
<1>2. CASE Boot
  BY <1>2 DEF Boot
<1>3. CASE phase' = phase
  BY <1>3
<1>4. ASSUME NEW m \in Msgs, LookUp(m) \/ Enqueue(m) \/ SendDirect(m) PROVE phase' = phase
  BY <1>4 DEF LookUp, Enqueue, SendDirect, rows
<1>5. ASSUME NEW t \in Handoffs, Settle(t) PROVE phase' = phase
  BY <1>5 DEF Settle, rows
<1>6. ASSUME FirstSignal \/ TurnEnds \/ Stirs \/ Answered \/ Resume \/ SessionEnds \/ QueueStep PROVE phase' = phase
  BY <1>6, QueueRests DEF FirstSignal, TurnEnds, Stirs, Answered, Resume, SessionEnds, rows
<1>7. ASSUME AttemptNext PROVE phase' = phase
  BY <1>7, HandRests DEF AttemptNext, HandStep, WaitEnds, LookAgain, Requeue, Mark, rows
<1>8. ASSUME Scan \/ Dispatch \/ WriteFails \/ DaemonDies PROVE phase' = phase
  BY <1>8 DEF Scan, Dispatch, WriteFails, DaemonDies, rows
<1> QED BY <1>1, <1>2, <1>3, <1>4, <1>5, <1>6, <1>7, <1>8 DEF OutboxNext, SendNext, SessionNext, QueueStep

\* What a sender looked up was active then.
LEMMA FoundIsStarted ==
  ASSUME TypeParts, StartedInv, OutboxNext, NEW m \in Msgs, found'[m] # NoHandoff
  PROVE  phase'[found'[m]] # "none"
<1> USE DEF TypeParts, SendersOK
<1>1. CASE found'[m] = found[m]
  BY <1>1, PhaseStays DEF StartedInv
<1>2. ASSUME NEW x \in Msgs, LookUp(x), x = m PROVE phase'[found'[m]] # "none"
  <2>1. found'[m] = ActiveHandoff /\ phase' = phase
    BY <1>2 DEF LookUp, rows
  <2>2. ActiveHandoff \in Active
    BY <2>1, FoundIsHandoff DEF ActiveHandoff
  <2> QED BY <2>1, <2>2 DEF Active
<1>3. ASSUME NEW x \in Msgs, LookUp(x) \/ Enqueue(x) \/ SendDirect(x), x # m
      PROVE  found'[m] = found[m]
  BY <1>3 DEF LookUp, Enqueue, SendDirect
<1>4. Enqueue(m) => found'[m] = NoHandoff
  BY DEF Enqueue
<1>5. SendDirect(m) => found'[m] = found[m]
  BY DEF SendDirect
<1>6. DaemonDies => found'[m] = NoHandoff
  BY DEF DaemonDies
<1>7. ASSUME NEW t \in Handoffs, StartHandoff(t) \/ EndHandoff(t) \/ Settle(t)
      PROVE  found' = found
  BY <1>7 DEF StartHandoff, EndHandoff, Settle, senders
<1>8. ASSUME FirstSignal \/ TurnEnds \/ Stirs \/ Answered \/ Resume \/ SessionEnds \/ QueueStep \/ Boot PROVE found' = found
  BY <1>8, QueueRests DEF FirstSignal, TurnEnds, Stirs, Answered, Resume, SessionEnds, Boot, senders
<1>9. ASSUME AttemptNext PROVE found' = found
  BY <1>9, HandRests DEF AttemptNext, HandStep, WaitEnds, LookAgain, Requeue, Mark, senders
<1>10. ASSUME Scan \/ Dispatch \/ WriteFails PROVE found' = found
  BY <1>10 DEF Scan, Dispatch, WriteFails, senders
<1> QED
  BY <1>1, <1>2, <1>3, <1>4, <1>5, <1>6, <1>7, <1>8, <1>9, <1>10
     DEF OutboxNext, SendNext, SessionNext, QueueStep

\* Rows are added to a handoff that was looked up, and nowhere else.
LEMMA RowsAreStarted ==
  ASSUME OutInv, StartedInv, OutboxNext, NEW t \in Handoffs, queue'[t] # <<>>
  PROVE  phase'[t] # "none"
<1> USE DEF OutInv
<1>1. CASE queue[t] # <<>>
  BY <1>1, PhaseStays DEF StartedInv
<1>2. CASE queue[t] = <<>>
  <2>1. ~Mark
    <3> SUFFICES ASSUME Mark PROVE FALSE
      OBVIOUS
    <3>1. t # attempt.handoff /\ queue' = [queue EXCEPT ![attempt.handoff] = Tail(@)]
      BY <1>2, Marked
    <3> QED BY <3>1, <1>2 DEF TypeParts, RowsOK
  <2>2. ASSUME NEW m \in Msgs, Enqueue(m) PROVE phase'[t] # "none"
    <3>1. t = found[m] /\ found[m] # NoHandoff
      BY <1>2, <2>2 DEF Enqueue, TypeParts, RowsOK
    <3> QED BY <3>1, PhaseStays DEF StartedInv
  <2>3. CASE Requeue
    <3>1. t = attempt.target /\ attempt.step = "queue"
      BY <1>2, <2>3 DEF Requeue, At, TypeParts, RowsOK
    <3> QED BY <3>1, PhaseStays DEF StartedInv
  <2> QED BY <1>2, <2>1, <2>2, <2>3, RowsChange
<1> QED BY <1>1, <1>2

LEMMA ReachStep == ReachInv /\ [OutboxNext]_outVars => ReachInv'
<1> SUFFICES ASSUME ReachInv, [OutboxNext]_outVars PROVE ReachInv'
  OBVIOUS
<1> USE DEF ReachInv
<1>1. OutInv'
  BY OutStep
<1>2. CASE UNCHANGED outVars
  BY <1>1, <1>2 DEF StartedInv, outVars, rows, senders, deliverer
<1>3. CASE OutboxNext
  <2>1. attempt'.step = "queue" => phase'[attempt'.target] # "none"
    <3> SUFFICES ASSUME attempt'.step = "queue" PROVE phase'[attempt'.target] # "none"
      OBVIOUS
    <3>1. CASE attempt' = attempt
      <4>1. attempt.target \in Handoffs
        BY <3>1 DEF OutInv, TargetInv
      <4> QED BY <1>3, <3>1, <4>1, PhaseStays DEF OutInv, StartedInv
    <3>2. CASE LookAgain
      <4>1. Active # {} /\ attempt'.target = ActiveHandoff /\ phase' = phase
        BY <3>2, AttemptMoves DEF OutInv, LookAgain, rows
      <4> QED BY <4>1, FoundIsHandoff DEF Active
    <3>3. ASSUME NEW t \in Handoffs, StartAttempt(t) PROVE FALSE
      <4>1. attempt'.step \in {"none", "wait"}
        BY <3>3 DEF StartAttempt, NoAttempt
      <4> QED BY <4>1
    <3>4. ~Dispatch
      <4>1. Dispatch => Head(round) \in Handoffs
        BY FirstOfRound DEF OutInv, TypeParts, Dispatch
      <4> QED BY <4>1, <3>3 DEF Dispatch
    <3>5. \A t \in Handoffs : ~Settle(t)
      BY <3>3 DEF Settle
    <3>6. ~(WaitEnds \/ Requeue \/ HandStep \/ Mark) /\ attempt' # NoAttempt
      BY AttemptMoves, HandMoves DEF OutInv, TypeParts, NoAttempt
    <3> QED BY <1>3, <3>1, <3>2, <3>4, <3>5, <3>6, AttemptChanges
  <2> QED BY <1>1, <1>3, <2>1, FoundIsStarted, RowsAreStarted DEF StartedInv, OutInv
<1> QED BY <1>2, <1>3

\* The safety half of HeldIsDelivered: no message waits in a row that neither the worker
\* of a handoff nor the dispatcher will ever look at, though a sender adds its row without
\* looking whether its handoff is over, and a daemon may die in between.
THEOREM NoRowIsOutOfReach == OutboxSpec => []HeldIsInReach
<1>1. ASSUME OutboxInit PROVE ReachInv
  BY <1>1, OutInit DEF ReachInv, StartedInv, OutboxInit, NoAttempt
<1>2. ASSUME ReachInv PROVE HeldIsInReach
  <2> SUFFICES ASSUME NEW m \in Msgs, NEW t \in Handoffs, NEW i \in DOMAIN queue[t],
                      queue[t][i] = m
               PROVE  t \in Active \cup Owed
    BY DEF HeldIsInReach, Held
  <2>1. queue[t] # <<>>
    BY EmptySeq
  <2>2. phase[t] \in {"active", "over"}
    BY <1>2, <2>1 DEF ReachInv, StartedInv, OutInv, TypeParts, RowsOK
  <2> QED BY <2>1, <2>2 DEF Active, Owed
<1> QED BY <1>1, <1>2, ReachStep, PTL DEF OutboxSpec

\* A finite set of sets has a smallest one in it.
LEMMA SmallestOfSets ==
  ASSUME NEW A, IsFiniteSet(A), NEW C, C \subseteq SUBSET A, C # {}
  PROVE  \E X \in C : \A Y \in C : Y \subseteq X => Y = X
<1>1. IsWellFoundedOn(StrictSubsetOrdering(A), FiniteSubsetsOf(A))
  BY FS_StrictSubsetOrderingWellFounded
<1>2. C \subseteq FiniteSubsetsOf(A)
  BY FS_FiniteSubsetsOfFinite
<1>3. PICK X \in C : \A Y \in C : ~(<<Y, X>> \in StrictSubsetOrdering(A))
  BY <1>1, <1>2, WFMin
<1>4. ASSUME NEW Y \in C, Y \subseteq X, Y # X PROVE FALSE
  <2>1. <<Y, X>> \in StrictSubsetOrdering(A)
    BY <1>4 DEF StrictSubsetOrdering
  <2> QED BY <1>3, <2>1
<1> QED BY <1>4

\* A finite set of numbers has a last one.
LEMMA LastExists ==
  ASSUME NEW S, S \subseteq Nat, IsFiniteSet(S), S # {}
  PROVE  \E e \in S : \A f \in S : f <= e
<1> DEFINE From(e) == {f \in S : f >= e}
           C == {From(e) : e \in S}
<1>1. PICK e \in S : \A f \in S : From(f) \subseteq From(e) => From(f) = From(e)
  <2>1. C \subseteq SUBSET S /\ C # {}
    OBVIOUS
  <2>2. PICK X \in C : \A Y \in C : Y \subseteq X => Y = X
    <3>1. IsFiniteSet(S)
      OBVIOUS
    <3> HIDE DEF C
    <3> QED BY ONLY <2>1, <3>1, SmallestOfSets
  <2>3. PICK e \in S : X = From(e)
    OBVIOUS
  <2>4. \A f \in S : From(f) \in C
    OBVIOUS
  <2> HIDE DEF C, From
  <2> QED BY <2>2, <2>3, <2>4
<1>2. ASSUME NEW f \in S, f > e PROVE FALSE
  <2>1. From(f) \subseteq From(e)
    <3>1. ASSUME NEW g \in S, g >= f PROVE g >= e
      BY <1>2, <3>1
    <3> QED BY <3>1
  <2>2. e \in From(e) /\ e \notin From(f)
    BY <1>2
  <2> QED BY <1>1, <2>1, <2>2
<1> QED BY <1>2

\* The rounds in which the dispatcher may visit a set of handoffs.
RoundsOf(S) == {r \in [1..Cardinality(S) -> S] : \A i, j \in DOMAIN r : i < j => r[i] < r[j]}

\* A round of all but the last becomes a round by going on to the last.
LEMMA RoundGrows ==
  ASSUME NEW S, S \subseteq Nat, IsFiniteSet(S), NEW e \in S, \A f \in S : f <= e,
         NEW r \in RoundsOf(S \ {e})
  PROVE  RoundsOf(S) # {}
<1> DEFINE n == Cardinality(S \ {e})
           longer == [i \in 1..(n + 1) |-> IF i = n + 1 THEN e ELSE r[i]]
<1>1. n \in Nat /\ Cardinality(S) = n + 1
  <2>1. IsFiniteSet(S \ {e})
    BY FS_Subset
  <2>2. n \in Nat
    BY <2>1, FS_CardinalityType
  <2>3. Cardinality((S \ {e}) \cup {e}) = n + 1
    BY <2>1, FS_AddElement
  <2>4. (S \ {e}) \cup {e} = S
    OBVIOUS
  <2> QED BY <2>2, <2>3, <2>4
<1>2. /\ DOMAIN r = 1..n /\ \A i \in 1..n : r[i] \in S /\ r[i] # e
      /\ \A i, j \in 1..n : i < j => r[i] < r[j]
  BY DEF RoundsOf
<1> HIDE DEF n
<1>3. \A i \in 1..(n + 1) : i # n + 1 => i \in 1..n
  BY <1>1
<1>4. \A i \in 1..(n + 1) : longer[i] = IF i = n + 1 THEN e ELSE r[i]
  OBVIOUS
<1>5. longer \in [1..(n + 1) -> S]
  BY <1>2, <1>3
<1>6. DOMAIN longer = 1..(n + 1)
  OBVIOUS
<1> HIDE DEF longer
<1>7. ASSUME NEW i \in 1..(n + 1), NEW j \in 1..(n + 1), i < j PROVE longer[i] < longer[j]
  <2>1. i # n + 1 /\ i \in 1..n
    BY <1>1, <1>7
  <2>2. longer[i] = r[i] /\ r[i] \in Nat /\ r[i] < e
    <3>1. longer[i] = r[i]
      BY <1>4, <2>1
    <3>2. r[i] \in S /\ r[i] # e
      BY <1>2, <2>1
    <3>3. r[i] \in Nat /\ e \in Nat /\ r[i] <= e
      BY <3>2
    <3> QED BY <3>1, <3>2, <3>3
  <2>3. CASE j = n + 1
    BY <1>4, <2>2, <2>3
  <2>4. CASE j # n + 1
    BY <1>2, <1>3, <1>4, <1>7, <2>1, <2>2, <2>4
  <2> QED BY <2>3, <2>4
<1>8. longer \in RoundsOf(S)
  BY <1>1, <1>5, <1>6, <1>7 DEF RoundsOf
<1> QED BY <1>8

\* Every finite set of numbers has a round: the smallest that had none would have a last.
LEMMA RoundExists ==
  ASSUME NEW A, A \subseteq Nat, IsFiniteSet(A)
  PROVE  RoundsOf(A) # {}
<1> DEFINE C == {S \in SUBSET A : RoundsOf(S) = {}}
<1> SUFFICES ASSUME C # {} PROVE FALSE
  OBVIOUS
<1>1. C \subseteq SUBSET A
  OBVIOUS
<1>2. PICK S \in C : \A Y \in C : Y \subseteq S => Y = S
  <2>1. IsFiniteSet(A) /\ C # {}
    OBVIOUS
  <2> HIDE DEF C
  <2> QED BY ONLY <1>1, <2>1, SmallestOfSets
<1>3. S \subseteq Nat /\ IsFiniteSet(S) /\ RoundsOf(S) = {}
  <2>1. S \subseteq A /\ RoundsOf(S) = {} /\ IsFiniteSet(A) /\ A \subseteq Nat
    OBVIOUS
  <2> QED BY ONLY <2>1, FS_Subset
<1>4. S # {}
  <2>1. ASSUME S = {} PROVE <<>> \in RoundsOf(S)
    <3>1. Cardinality(S) = 0
      BY <2>1, FS_EmptySet
    <3>2. 1..0 = {} /\ <<>> \in [1..0 -> S]
      OBVIOUS
    <3> QED BY <3>1, <3>2 DEF RoundsOf
  <2> QED BY <1>3, <2>1
<1>5. PICK e \in S : \A f \in S : f <= e
  BY <1>3, <1>4, LastExists
<1>6. RoundsOf(S \ {e}) # {}
  BY <1>2, <1>5
<1> QED BY <1>3, <1>5, <1>6, RoundGrows

\* The dispatcher that finds handoffs owing a message can always set out on a round of
\* them, oldest first: no number of handoffs, and no order in which they end, stops it.
THEOREM RoundIsFound == OutboxSpec => [](RoundsOf(Owed) # {})
<1>1. Owed \subseteq Nat /\ IsFiniteSet(Owed)
  <2>1. Handoffs \subseteq Nat /\ IsFiniteSet(Handoffs) /\ Owed \subseteq Handoffs
    BY FS_Interval DEF Handoffs, Owed
  <2> QED BY <2>1, FS_Subset
<1>2. RoundsOf(Owed) # {}
  BY <1>1, RoundExists
<1> QED BY <1>2, PTL
=============================================================================
