---------------------------- MODULE ChatFlowProofs ----------------------------
(***************************************************************************)
(* The safety properties of ChatTurns that follow one turn from its send    *)
(* to its end: a turn at a time, no row and no controller that looks busy   *)
(* for ever, and a stop-now handoff that stopped.  For every finite set of  *)
(* messages and every bound, provided that no eager provider announces a    *)
(* turn before its id is recorded and that a send that failed was not       *)
(* accepted all the same (OneAtATime).                                      *)
(*                                                                         *)
(* The latest turn the provider accepted is the only one that matters.      *)
(* While a dispatch is past SendTurn the controller is about to be busy     *)
(* with it and no event is on its way (CallInv); once the controller is not *)
(* busy, the provider is idle and every event was projected (QuietInv), so  *)
(* the next dispatch starts from nothing.  A row that says running is bound *)
(* to the latest turn, and the controller is busy with it (RowInv).         *)
(*                                                                         *)
(* Then what waits while a handoff is prepared (nothing), who looks after  *)
(* what waits otherwise (no wakeup is lost), when a handoff that drains is *)
(* right to report quiescence, and that a row only moves on.               *)
(***************************************************************************)
EXTENDS ChatTurnsProofs

USE DEF rows, memory, sendMu, goroutines, provider, Turns, NoTurn, NoCall, NoBrake, Brakers,
        RowStates, Lives

Latest == Len(given)
OneAtATime == LateAnnouncements /\ "lost_answers" \notin Env

\* Where a dispatch stands.
CallInv ==
  /\ call.step \in {"none", "calling"} => call.turn = NoTurn
  /\ call.step \in {"binding", "noting", "starting"} =>
       /\ call.turn = Latest /\ events = <<>>
       /\ ~closed => life[Latest] \in {"prepared", "accepted"}
  /\ call.step \in {"calling", "binding", "noting"} => pending = NoTurn
  /\ call.step = "starting" => pending = Latest /\ driver = "acp"

\* A controller that is not busy, nor about to be, has an idle provider.
QuietInv ==
  pending = NoTurn /\ call.step \in {"none", "calling"} => events = <<>> /\ Alive = {}

\* Earlier turns are over.
LatestInv ==
  /\ pending \in {NoTurn, Latest}
  /\ \A t \in Turns : t # Latest => life[t] \notin {"prepared", "accepted", "running"}
  /\ driver = "codex" => \A t \in Turns : life[t] # "prepared"
  /\ closed => Alive = {}

\* The events on their way are of the latest turn, its end last.
EventInv ==
  /\ \A i \in 1..Len(events) : events[i].turn = Latest
  /\ \A i \in 1..Len(events) : events[i].kind # "started" => i = Len(events) /\ life[Latest] = "ended"

\* The turn a controller is busy with ends.
BusyInv ==
  pending # NoTurn /\ call.step # "starting" /\ ~closed =>
    \/ life[pending] \in {"accepted", "running"}
    \/ \E i \in 1..Len(events) : events[i].kind # "started"

\* Rows that say running, and the turns they are bound to.
RowInv ==
  /\ \A m \in Messages : state[m] = "running" =>
       /\ boundTo[m] = Latest /\ Latest # NoTurn
       /\ pending = Latest \/ (call.m = m /\ call.step = "noting")
  /\ \A m \in Messages : boundTo[m] <= Latest
  /\ call.step = "binding" => \A m \in Messages : boundTo[m] # Latest
  /\ call.step \in {"noting", "starting"} => \A m \in Messages : boundTo[m] = Latest => m = call.m
  /\ projector = "ended" => closed
  /\ projector = "ended" => \A m \in Messages : state[m] = "running" => m \in late

\* A stop-now handoff lets nothing be dispatched.
StopInv ==
  gate = "interrupt" =>
    /\ call.step = "none"
    /\ worker = "checking" => pending = NoTurn
    /\ worker = "prepared" /\ ~closed => pending = NoTurn /\ Queued = {}

CoreInv == CallInv /\ QuietInv /\ LatestInv /\ EventInv /\ BusyInv
FlowInv == CoreInv /\ RowInv /\ StopInv

-----------------------------------------------------------------------------
(* Facts the steps rest on                                                 *)

LEMMA Shapes ==
  ASSUME TypeInv
  PROVE  /\ Latest \in Nat /\ MaxTurns \in Nat /\ Len(events) \in Nat
         /\ events = <<>> <=> Len(events) = 0
         /\ life \in [Turns -> Lives] /\ pending \in Turns \cup {NoTurn} /\ driver \in {"acp", "codex"}
         /\ call \in [step : {"none", "calling", "binding", "noting", "starting"},
                      m : Messages \cup {NoMessage}, turn : Turns \cup {NoTurn}]
         /\ call.step # "none" => call.m \in Messages
         /\ call.step \in {"binding", "noting", "starting"} => call.turn \in Turns
         /\ holder = "none" => call = NoCall
<1>1. events \in Seq(Events) /\ given \in Seq(Messages)
  BY DEF TypeInv, TypeOK, ProviderOK
<1>2. /\ Len(given) \in Nat /\ Len(events) \in Nat /\ (events = <<>> <=> Len(events) = 0)
  BY <1>1, LenProperties, EmptySeq
<1>3. life \in [Turns -> Lives] /\ driver \in {"acp", "codex"}
  BY DriverAssumption DEF TypeInv, TypeOK, ProviderOK
<1>4. pending \in Turns \cup {NoTurn} /\ MaxTurns \in Nat
  BY BoundAssumption DEF TypeInv, TypeOK, MemoryOK
<1>5. /\ call \in [step : {"none", "calling", "binding", "noting", "starting"},
                   m : Messages \cup {NoMessage}, turn : Turns \cup {NoTurn}]
      /\ holder = "none" => call = NoCall
  BY DEF TypeInv, TypeOK, SendMuOK
<1>6. /\ call.step # "none" => call.m \in Messages
      /\ call.step \in {"binding", "noting", "starting"} => call.turn \in Turns
  BY DEF TypeInv, CallOK
<1>7. QED
  BY <1>2, <1>3, <1>4, <1>5, <1>6 DEF Latest

LEMMA Idle == Alive = {} <=> \A t \in Turns : life[t] \notin {"accepted", "running"}
BY DEF Alive

\* An event at the end of the channel.
LEMMA EventAdded ==
  ASSUME TypeInv, NEW k \in {"started", "completed", "interrupted"}, NEW t \in Turns,
         events' = Append(events, [kind |-> k, turn |-> t])
  PROVE  /\ Len(events') = Len(events) + 1 /\ events' # <<>>
         /\ events'[Len(events) + 1].kind = k /\ events'[Len(events) + 1].turn = t
         /\ \A i \in 1..Len(events) : events'[i] = events[i]
<1> DEFINE e == [kind |-> k, turn |-> t]
<1>1. events \in Seq(Events) /\ Len(events) \in Nat /\ e \in Events
  BY LenProperties DEF TypeInv, TypeOK, ProviderOK, Events
<1>2. /\ Len(events') = Len(events) + 1 /\ events'[Len(events) + 1] = e
      /\ \A i \in 1..Len(events) : events'[i] = events[i]
      /\ events' \in Seq(Events)
  BY <1>1, AppendProperties
<1>3. events' # <<>>
  BY <1>1, <1>2, EmptySeq
<1>4. e.kind = k /\ e.turn = t
  OBVIOUS
<1> HIDE DEF e
<1>5. QED
  BY <1>2, <1>3, <1>4

\* The first event leaves the channel.
LEMMA EventTaken ==
  ASSUME TypeInv, events # <<>>, events' = Tail(events)
  PROVE  /\ Len(events) \in Nat \ {0} /\ Len(events') = Len(events) - 1
         /\ Head(events) = events[1]
         /\ \A i \in 1..Len(events') : events'[i] = events[i + 1]
         /\ Len(events) = 1 => events' = <<>>
<1>1. events \in Seq(Events) /\ Len(events) \in Nat \ {0}
  BY LenProperties, EmptySeq DEF TypeInv, TypeOK, ProviderOK
<1>2. /\ Len(Tail(events)) = Len(events) - 1 /\ Tail(events) \in Seq(Events)
      /\ \A i \in 1..Len(Tail(events)) : Tail(events)[i] = events[i + 1]
  BY <1>1, HeadTailProperties
<1>3. Len(events) = 1 => Tail(events) = <<>>
  BY <1>2, EmptySeq
<1>4. Head(events) = events[1]
  BY <1>1
<1>5. QED
  BY <1>1, <1>2, <1>3, <1>4

-----------------------------------------------------------------------------
(* One turn at a time: the steps of CoreInv                                *)

LEMMA FlowInit == Init => FlowInv
<1> SUFFICES ASSUME Init PROVE FlowInv
  OBVIOUS
<1>1. Len(given) = 0 /\ Len(events) = 0 /\ 1..Len(events) = {}
  BY EmptySeq DEF Init
<1>2. Alive = {}
  BY DEF Init, Alive
<1>3. CallInv /\ QuietInv /\ EventInv /\ BusyInv
  BY <1>1, <1>2 DEF Init, CallInv, QuietInv, EventInv, BusyInv
<1>4. LatestInv
  BY <1>2 DEF Init, LatestInv
<1>5. RowInv /\ StopInv
  BY <1>1 DEF Init, RowInv, StopInv, Latest
<1>6. QED
  BY <1>3, <1>4, <1>5 DEF FlowInv, CoreInv

\* What the core depends on.
core == <<given, call, pending, events, life, closed, driver>>

LEMMA CoreFrame == ASSUME CoreInv, UNCHANGED core PROVE CoreInv'
<1>1. CallInv' /\ QuietInv'
  BY DEF core, CoreInv, CallInv, QuietInv, Latest, Alive
<1>2. LatestInv' /\ EventInv' /\ BusyInv'
  BY DEF core, CoreInv, LatestInv, EventInv, BusyInv, Latest, Alive
<1>3. QED
  BY <1>1, <1>2 DEF CoreInv

\* A dispatch begins while the controller is not busy, or ends before SendTurn.
LEMMA CoreCalls ==
  ASSUME CoreInv, call.step \in {"none", "calling"}, pending = NoTurn,
         call'.step \in {"none", "calling"}, call'.turn = NoTurn,
         UNCHANGED <<given, pending, events, life, closed, driver>>
  PROVE  CoreInv'
<1>1. CallInv'
  BY DEF CoreInv, CallInv
<1>2. QuietInv' /\ BusyInv'
  BY DEF CoreInv, QuietInv, BusyInv, Alive
<1>3. LatestInv' /\ EventInv'
  BY DEF CoreInv, LatestInv, EventInv, Latest, Alive
<1>4. QED
  BY <1>1, <1>2, <1>3 DEF CoreInv

LEMMA CoreSendTurn == ASSUME TypeInv, TurnInv, CoreInv, SendTurn PROVE CoreInv'
<1>1. /\ call.step = "calling" /\ Takes /\ Len(given) < MaxTurns
      /\ given' = Append(given, call.m)
      /\ life' = [life EXCEPT ![Len(given) + 1] = IF driver = "acp" THEN "prepared" ELSE "accepted"]
      /\ call' = [call EXCEPT !.step = "binding", !.turn = Len(given) + 1]
      /\ UNCHANGED <<pending, events, closed, driver>>
  BY DEF SendTurn
<1>2. pending = NoTurn /\ events = <<>> /\ Alive = {}
  BY <1>1 DEF CoreInv, CallInv, QuietInv
<1>3. Latest' = Latest + 1 /\ Latest \in Nat /\ Latest + 1 \in Turns
  BY <1>1, Shapes, GivenGrows DEF Latest
<1>4. call'.step = "binding" /\ call'.turn = Latest'
  BY <1>1, <1>3, Shapes DEF Latest
<1>5. life'[Latest'] \in {"prepared", "accepted"}
  BY <1>1, <1>3, Shapes DEF Latest
<1>6. \A t \in Turns : t # Latest' => life'[t] \notin {"prepared", "accepted", "running"}
  <2>1. \A t \in Turns : t # Latest' => life'[t] = life[t]
    BY <1>1, <1>3, Shapes DEF Latest
  <2>2. \A t \in Turns : life[t] # "prepared"
    BY <1>1, Shapes DEF Takes, InFlight, CoreInv, LatestInv
  <2>3. QED
    BY <1>2, <2>1, <2>2, Idle
<1>7. driver = "codex" => \A t \in Turns : life'[t] # "prepared"
  BY <1>1, Shapes DEF CoreInv, LatestInv
<1>8. CallInv' /\ QuietInv' /\ BusyInv'
  BY <1>1, <1>2, <1>4, <1>5 DEF CallInv, QuietInv, BusyInv
<1>9. EventInv'
  BY <1>1, <1>2, Shapes DEF EventInv
<1>10. LatestInv'
  <2>1. closed => life'[Latest'] = "prepared"
    BY <1>1, <1>3, Shapes DEF Takes, Latest
  <2>2. closed => \A t \in Turns : life'[t] \notin {"accepted", "running"}
    BY <1>6, <2>1
  <2>3. closed' => Alive' = {}
    BY <1>1, <2>2 DEF Alive
  <2>. QED BY <1>1, <1>2, <1>6, <1>7, <2>3 DEF LatestInv
<1>11. QED
  BY <1>8, <1>9, <1>10 DEF CoreInv

LEMMA CoreBind == ASSUME TypeInv, TurnInv, CoreInv, Bind PROVE CoreInv'
<1>1. /\ call.step = "binding" /\ call' = [call EXCEPT !.step = "noting"]
      /\ UNCHANGED <<given, pending, events, life, closed, driver>>
  BY DEF Bind, TurnInv
<1>2. call'.step = "noting" /\ call'.turn = call.turn
  BY <1>1, Shapes
<1>3. CallInv' /\ QuietInv' /\ BusyInv'
  BY <1>1, <1>2 DEF CoreInv, CallInv, QuietInv, BusyInv, Latest
<1>4. LatestInv' /\ EventInv'
  BY <1>1 DEF CoreInv, LatestInv, EventInv, Latest, Alive
<1>5. QED
  BY <1>3, <1>4 DEF CoreInv

LEMMA CoreNotePending == ASSUME TypeInv, CoreInv, NotePending PROVE CoreInv'
<1>1. /\ call.step = "noting" /\ pending' = call.turn
      /\ UNCHANGED <<given, events, life, closed, driver>>
  BY DEF NotePending
<1>2. /\ call.turn = Latest /\ call.turn \in Turns /\ events = <<>>
      /\ ~closed => life[Latest] \in {"prepared", "accepted"}
  BY <1>1, Shapes DEF CoreInv, CallInv
<1>3. pending' = Latest /\ Latest # NoTurn /\ Latest' = Latest
  BY <1>1, <1>2, Shapes DEF Latest
<1>4. LatestInv' /\ EventInv'
  BY <1>1, <1>3 DEF CoreInv, LatestInv, EventInv, Latest, Alive
<1>5. CASE driver = "acp"
  <2>1. call'.step = "starting" /\ call'.turn = call.turn
    BY <1>5, Shapes DEF NotePending
  <2>2. CallInv' /\ QuietInv' /\ BusyInv'
    BY <1>1, <1>2, <1>3, <1>5, <2>1 DEF CallInv, QuietInv, BusyInv
  <2>3. QED
    BY <1>4, <2>2 DEF CoreInv
<1>6. CASE driver # "acp"
  <2>1. call' = NoCall
    BY <1>6 DEF NotePending, Releases
  <2>2. ~closed => life[Latest] = "accepted"
    BY <1>2, <1>6, Shapes DEF CoreInv, LatestInv
  <2>3. CallInv' /\ QuietInv'
    BY <1>1, <1>3, <2>1 DEF CallInv, QuietInv
  <2>4. BusyInv'
    BY <1>1, <1>3, <2>1, <2>2 DEF BusyInv
  <2>5. QED
    BY <1>4, <2>3, <2>4 DEF CoreInv
<1>7. QED
  BY <1>5, <1>6

LEMMA CoreStartTurn == ASSUME TypeInv, TurnInv, CoreInv, StartTurn PROVE CoreInv'
<1>1. call.step = "starting" /\ call' = NoCall /\ UNCHANGED <<given, closed, driver>>
  BY DEF StartTurn, Releases
<1>2. /\ call.turn = Latest /\ Latest \in Turns /\ events = <<>> /\ pending = Latest
      /\ driver = "acp"
  BY <1>1, Shapes DEF CoreInv, CallInv
<1>3. CASE shut
  <2>1. pending' = NoTurn /\ UNCHANGED <<life, events>>
    BY <1>3 DEF StartTurn
  <2>2. Alive = {}
    <3>1. \A u \in Turns : life[u] # "accepted"
      BY <1>2 DEF TurnInv
    <3>2. closed \/ life[Latest] = "prepared"
      BY <1>1, <1>2, <3>1 DEF CoreInv, CallInv
    <3>. QED BY <1>2, <3>2, Idle DEF CoreInv, LatestInv
  <2>3. CallInv' /\ QuietInv' /\ BusyInv'
    BY <1>1, <1>2, <2>1, <2>2 DEF CallInv, QuietInv, BusyInv, Alive
  <2>4. LatestInv' /\ EventInv'
    BY <1>1, <1>2, <2>1 DEF CoreInv, LatestInv, EventInv, Latest, Alive
  <2>5. QED
    BY <2>3, <2>4 DEF CoreInv
<1>4. CASE ~shut /\ ~closed
  <2>1. /\ pending' = Latest /\ life' = [life EXCEPT ![Latest] = "running"]
        /\ events' = Append(events, [kind |-> "started", turn |-> Latest])
    BY <1>2, <1>4 DEF StartTurn
  <2>2. Len(events) = 0 /\ Len(events') = 1 /\ events' # <<>>
        /\ events'[1].kind = "started" /\ events'[1].turn = Latest
    BY <1>2, <2>1, EventAdded, Shapes
  <2>3. \A i \in 1..Len(events') : i = 1
    BY <2>2
  <2>4. /\ life'[Latest] = "running" /\ Latest # NoTurn
        /\ \A t \in Turns : t # Latest => life'[t] = life[t]
    BY <1>2, <2>1, Shapes
  <2>5. Latest' = Latest
    BY <1>1 DEF Latest
  <2>6. CallInv' /\ QuietInv' /\ BusyInv'
    BY <1>1, <2>1, <2>4, <2>5 DEF CallInv, QuietInv, BusyInv
  <2>7. EventInv'
    BY <2>2, <2>3, <2>5 DEF EventInv
  <2>8. LatestInv'
    BY <1>1, <1>2, <1>4, <2>1, <2>4, <2>5 DEF CoreInv, LatestInv
  <2>9. QED
    BY <2>6, <2>7, <2>8 DEF CoreInv
<1>5. CASE ~shut /\ closed
  <2>1. /\ UNCHANGED <<pending, events>> /\ life' = [life EXCEPT ![Latest] = "ended"]
    BY <1>2, <1>5 DEF StartTurn
  <2>2. /\ Latest' = Latest /\ life'[Latest] = "ended"
        /\ \A t \in Turns : t # Latest => life'[t] = life[t]
    BY <1>1, <1>2, <2>1, Shapes DEF Latest
  <2>3. Alive = {} /\ \A t \in Turns : life[t] \notin {"accepted", "running"}
    BY <1>5, Idle DEF CoreInv, LatestInv
  <2>4. \A t \in Turns : life'[t] \notin {"accepted", "running"}
    BY <1>2, <2>2, <2>3
  <2>5. Alive' = {}
    BY <2>4 DEF Alive
  <2>6. CallInv' /\ QuietInv' /\ BusyInv'
    BY <1>1, <1>2, <1>5, <2>1, <2>5 DEF CallInv, QuietInv, BusyInv
  <2>7. EventInv'
    BY <1>2, <2>1, Shapes DEF EventInv
  <2>8. LatestInv'
    BY <1>1, <1>2, <2>1, <2>2, <2>5 DEF CoreInv, LatestInv
  <2>. QED BY <2>6, <2>7, <2>8 DEF CoreInv
<1>. QED BY <1>3, <1>4, <1>5

\* A turn that lives is the one the controller is busy with, unless it is being dispatched;
\* and none of the events on their way ends it.
LEMMA AliveTurn ==
  ASSUME TypeInv, CoreInv, NEW t \in Turns, life[t] \in {"accepted", "running"}
  PROVE  /\ t = Latest /\ ~closed
         /\ \A i \in 1..Len(events) : events[i].kind = "started" /\ events[i].turn = t
         /\ call.step \in {"none", "calling"} => pending = t /\ call.step = "none"
<1>1. t = Latest /\ ~closed /\ Alive # {}
  BY Idle DEF CoreInv, LatestInv
<1>2. \A i \in 1..Len(events) : events[i].kind = "started" /\ events[i].turn = t
  BY <1>1 DEF CoreInv, EventInv
<1>3. ASSUME call.step \in {"none", "calling"} PROVE pending = t /\ call.step = "none"
  <2>1. pending # NoTurn
    BY <1>1, <1>3 DEF CoreInv, QuietInv
  <2>2. QED
    BY <1>1, <1>3, <2>1 DEF CoreInv, LatestInv, CallInv
<1>4. QED
  BY <1>1, <1>2, <1>3

LEMMA CoreAnnounce ==
  ASSUME OneAtATime, TypeInv, TurnInv, CoreInv, NEW t \in Turns, Announce(t) PROVE CoreInv'
<1>1. /\ life[t] = "accepted" /\ life' = [life EXCEPT ![t] = "running"]
      /\ events' = Append(events, [kind |-> "started", turn |-> t])
      /\ UNCHANGED <<given, call, pending, closed, driver>>
  BY DEF Announce, Emits
<1>2. t = Latest /\ ~closed /\ \A i \in 1..Len(events) : events[i].kind = "started" /\ events[i].turn = t
  BY <1>1, AliveTurn
<1>3. call.turn # t
  <2>1. driver # "acp"
    BY <1>1 DEF TurnInv
  <2>2. "eager" \notin Env
    BY <2>1 DEF OneAtATime, LateAnnouncements, TypeInv, TypeOK, ProviderOK
  <2>3. QED
    BY <2>2 DEF Announce
<1>4. call.step = "none" /\ pending = t
  <2>1. call.step \in {"none", "calling"}
    BY <1>2, <1>3, Shapes DEF CoreInv, CallInv
  <2>2. QED
    BY <1>1, <2>1, AliveTurn
<1>5. /\ life'[t] = "running" /\ t # NoTurn /\ \A u \in Turns : u # t => life'[u] = life[u]
  BY <1>1, Shapes
<1>6. /\ Len(events') = Len(events) + 1 /\ Len(events) \in Nat
      /\ events'[Len(events) + 1].kind = "started" /\ events'[Len(events) + 1].turn = t
      /\ \A i \in 1..Len(events) : events'[i] = events[i]
  BY <1>1, EventAdded, Shapes
<1>7. \A i \in 1..Len(events') : events'[i].kind = "started" /\ events'[i].turn = t
  <2>1. \A i \in 1..Len(events') : i = Len(events) + 1 \/ i \in 1..Len(events)
    BY <1>6
  <2>2. QED
    BY <1>2, <1>6, <2>1
<1>8. Latest' = Latest
  BY <1>1 DEF Latest
<1>9. CallInv' /\ QuietInv' /\ BusyInv'
  BY <1>1, <1>4, <1>5, <1>8 DEF CoreInv, CallInv, QuietInv, BusyInv
<1>10. EventInv'
  BY <1>2, <1>7, <1>8 DEF EventInv
<1>11. LatestInv'
  BY <1>1, <1>2, <1>5, <1>8 DEF CoreInv, LatestInv
<1>12. QED
  BY <1>9, <1>10, <1>11 DEF CoreInv

LEMMA CoreComplete ==
  ASSUME TypeInv, CoreInv, NEW t \in Turns, Complete(t) PROVE CoreInv'
<1> DEFINE k == IF t \in cut THEN "interrupted" ELSE "completed"
<1>1. /\ life[t] = "running" /\ life' = [life EXCEPT ![t] = "ended"]
      /\ events' = Append(events, [kind |-> k, turn |-> t])
      /\ UNCHANGED <<given, call, pending, closed, driver>>
  BY DEF Complete, Emits
<1>2. k \in {"completed", "interrupted"}
  OBVIOUS
<1> HIDE DEF k
<1>3. t = Latest /\ ~closed /\ \A i \in 1..Len(events) : events[i].kind = "started" /\ events[i].turn = t
  BY <1>1, AliveTurn
<1>4. call.step = "none" /\ pending = t
  <2>1. call.step \in {"none", "calling"}
    BY <1>1, <1>3, Shapes DEF CoreInv, CallInv
  <2>2. QED
    BY <1>1, <2>1, AliveTurn
<1>5. /\ life'[t] = "ended" /\ t # NoTurn /\ \A u \in Turns : u # t => life'[u] = life[u]
  BY <1>1, Shapes
<1>6. /\ Len(events') = Len(events) + 1 /\ Len(events) \in Nat
      /\ events'[Len(events) + 1].kind = k /\ events'[Len(events) + 1].turn = t
      /\ \A i \in 1..Len(events) : events'[i] = events[i]
  BY <1>1, <1>2, EventAdded, Shapes
<1>7. \A i \in 1..Len(events') :
        events'[i].turn = t /\ (events'[i].kind = "started" \/ i = Len(events'))
  <2>1. \A i \in 1..Len(events') : i = Len(events) + 1 \/ i \in 1..Len(events)
    BY <1>6
  <2>2. QED
    BY <1>3, <1>6, <2>1
<1>8. \E i \in 1..Len(events') : events'[i].kind # "started"
  <2>1. Len(events) + 1 \in 1..Len(events')
    BY <1>6
  <2>2. QED
    BY <1>2, <1>6, <2>1
<1>9. Latest' = Latest
  BY <1>1 DEF Latest
<1>10. CallInv' /\ QuietInv' /\ BusyInv'
  BY <1>1, <1>4, <1>5, <1>8, <1>9 DEF CoreInv, CallInv, QuietInv, BusyInv
<1>11. EventInv'
  BY <1>3, <1>5, <1>7, <1>9 DEF EventInv
<1>12. LatestInv'
  BY <1>1, <1>3, <1>5, <1>9 DEF CoreInv, LatestInv
<1>13. QED
  BY <1>10, <1>11, <1>12 DEF CoreInv

LEMMA CoreClose == ASSUME TypeInv, CoreInv, Close PROVE CoreInv'
<1>1. /\ closed' = TRUE /\ UNCHANGED <<given, call, pending, events, driver>>
      /\ life' = [t \in Turns |-> IF life[t] \in {"accepted", "running"} THEN "ended" ELSE life[t]]
  BY DEF Close
<1>2. \A t \in Turns : life'[t] = life[t] \/ life'[t] = "ended"
  BY <1>1
<1>3. Alive' = {}
  BY <1>1 DEF Alive
<1>4. Latest' = Latest
  BY <1>1 DEF Latest
<1>5. CallInv' /\ QuietInv' /\ BusyInv'
  BY <1>1, <1>3, <1>4 DEF CoreInv, CallInv, QuietInv, BusyInv
<1>6. LatestInv'
  BY <1>1, <1>2, <1>3, <1>4 DEF CoreInv, LatestInv
<1>7. EventInv'
  <2>1. ASSUME NEW i \in 1..Len(events), events[i].kind # "started" PROVE life'[Latest] = "ended"
    <3>1. life[Latest] = "ended" /\ events[i].turn = Latest
      BY <2>1 DEF CoreInv, EventInv
    <3>2. Latest \in Turns
      <4>1. events[i] \in Events
        BY EventTurns
      <4>2. events[i].turn \in Turns
        BY <4>1 DEF Events
      <4>3. QED
        BY <3>1, <4>2
    <3>3. QED
      BY <1>2, <3>1, <3>2
  <2>2. QED
    BY <1>1, <1>4, <2>1 DEF CoreInv, EventInv
<1>8. QED
  BY <1>5, <1>6, <1>7 DEF CoreInv

\* When an event arrives nothing is being dispatched, and it is of the pending turn.
LEMMA EventArrives ==
  ASSUME TypeInv, CoreInv, events # <<>>
  PROVE  /\ call.step = "none" /\ pending = Latest /\ Latest \in Turns
         /\ Head(events) = events[1] /\ Head(events).turn = Latest
         /\ Head(events).kind # "started" => Len(events) = 1 /\ life[Latest] = "ended"
<1>1. call.step \in {"none", "calling"}
  BY Shapes DEF CoreInv, CallInv
<1>2. pending # NoTurn
  BY <1>1 DEF CoreInv, QuietInv
<1>3. pending = Latest /\ call.step = "none" /\ Latest \in Turns
  BY <1>1, <1>2, Shapes DEF CoreInv, LatestInv, CallInv
<1>4. 1 \in 1..Len(events) /\ Head(events) = events[1]
  <2>1. Len(events) \in Nat /\ Len(events) # 0
    BY Shapes
  <2>2. events \in Seq(Events)
    BY DEF TypeInv, TypeOK, ProviderOK
  <2>3. QED
    BY <2>1, <2>2
<1>5. QED
  BY <1>3, <1>4 DEF CoreInv, EventInv

LEMMA CoreProject ==
  ASSUME TypeInv, CoreInv, ProjectStarted \/ ProjectCompleted PROVE CoreInv'
<1>1. /\ events # <<>> /\ events' = Tail(events)
      /\ UNCHANGED <<given, call, life, closed, driver>>
  BY DEF ProjectStarted, ProjectCompleted
<1>2. /\ call.step = "none" /\ pending = Latest /\ Latest \in Turns /\ Latest # NoTurn
      /\ Head(events) = events[1] /\ Head(events).turn = Latest
      /\ Head(events).kind # "started" => Len(events) = 1 /\ life[Latest] = "ended"
  BY <1>1, EventArrives, Shapes
<1>3. /\ Len(events) \in Nat \ {0} /\ Len(events') = Len(events) - 1
      /\ \A i \in 1..Len(events') : events'[i] = events[i + 1]
      /\ Len(events) = 1 => events' = <<>>
  BY <1>1, EventTaken
<1>4. Latest' = Latest
  BY <1>1 DEF Latest
<1>5. CallInv'
  BY <1>1, <1>2 DEF CoreInv, CallInv
<1>6. EventInv'
  <2>1. ASSUME NEW i \in 1..Len(events')
        PROVE  /\ events'[i].turn = Latest
               /\ events'[i].kind # "started" => i = Len(events') /\ life[Latest] = "ended"
    <3>1. i + 1 \in 1..Len(events) /\ events'[i] = events[i + 1] /\ i \in Nat
      BY <1>3
    <3>2. /\ events[i + 1].turn = Latest
          /\ events[i + 1].kind # "started" => i + 1 = Len(events) /\ life[Latest] = "ended"
      BY <3>1 DEF CoreInv, EventInv
    <3>3. QED
      BY <1>3, <3>1, <3>2
  <2>2. QED
    BY <1>1, <1>4, <2>1 DEF EventInv
<1>7. CASE ProjectStarted
  <2>1. pending' = pending /\ Head(events).kind = "started"
    BY <1>2, <1>7 DEF ProjectStarted
  <2>2. LatestInv' /\ QuietInv'
    BY <1>1, <1>2, <1>4, <2>1 DEF CoreInv, LatestInv, QuietInv, Alive
  <2>3. BusyInv'
    <3>1. ASSUME NEW i \in 1..Len(events), events[i].kind # "started"
          PROVE  \E j \in 1..Len(events') : events'[j].kind # "started"
      <4>1. i # 1
        BY <1>2, <2>1, <3>1
      <4>2. i - 1 \in 1..Len(events') /\ i - 1 + 1 = i
        BY <1>3, <4>1
      <4>3. events'[i - 1] = events[i]
        BY <1>3, <4>2
      <4>4. QED
        BY <3>1, <4>2, <4>3
    <3>2. QED
      BY <1>1, <2>1, <3>1 DEF CoreInv, BusyInv
  <2>4. QED
    BY <1>5, <1>6, <2>2, <2>3 DEF CoreInv
<1>8. CASE ProjectCompleted
  <2>1. Head(events).kind # "started" /\ pending' = NoTurn
    BY <1>2, <1>8 DEF ProjectCompleted
  <2>2. events' = <<>> /\ life[Latest] = "ended"
    BY <1>2, <1>3, <2>1
  <2>3. Alive = {}
    BY <1>2, <2>2, Idle DEF CoreInv, LatestInv
  <2>4. LatestInv' /\ QuietInv' /\ BusyInv'
    BY <1>1, <1>4, <2>1, <2>2, <2>3 DEF CoreInv, LatestInv, QuietInv, BusyInv, Alive
  <2>5. QED
    BY <1>5, <1>6, <2>4 DEF CoreInv
<1>9. QED
  BY <1>7, <1>8

-----------------------------------------------------------------------------
(* Every step keeps CoreInv                                                *)

\* The steps that touch nothing the core depends on.
LEMMA CoreRests ==
  ASSUME Next
  PROVE  \/ UNCHANGED core
         \/ \E m \in Messages : Send(m)
         \/ DispatchStep \/ DrainStep \/ Close \/ ProjectStarted \/ ProjectCompleted
         \/ \E t \in Turns : Announce(t) \/ Complete(t)
<1>1. ClearActive \/ Shut \/ EndOfStream \/ BrakeRead \/ BrakeReadWorker \/ PollStep \/ CancelHandoff
        => UNCHANGED core
  BY DEF ClearActive, Shut, EndOfStream, BrakeRead, BrakeReadWorker, PollStep, PollBusy,
         PollQueue, PollStopped, CancelHandoff, core
<1>2. ASSUME NEW p \in Brakers, BrakeStep(p) PROVE UNCHANGED core
  BY <1>2 DEF BrakeStep, BrakeCut, BrakeAccepted, BrakeRefused, BrakeFails, core
<1>3. ASSUME NEW policy \in {"drain", "interrupt"}, BeginHandoff(policy) PROVE UNCHANGED core
  BY <1>3 DEF BeginHandoff, core
<1>4. QED
  BY <1>1, <1>2, <1>3 DEF Next, ProviderStep, ProjectStep

\* What a drain does: it dispatches the controller's next message, or nothing.
LEMMA DrainDoes ==
  ASSUME TypeInv, NEW who, Drain(who)
  PROVE  /\ call.step = "none" /\ holder = "none"
         /\ UNCHANGED <<given, pending, events, life, closed, driver, boundTo, late, gate>>
         /\ \A m \in Messages : state'[m] = "running" => state[m] = "running"
         /\ \A m \in Messages : state'[m] = "queued" => state[m] = "queued"
         /\ projector' = "ended" => projector = "ended"
         /\ \/ call' = call /\ Returned(who)
            \/ pending = NoTurn /\ gate # "interrupt" /\ UNCHANGED goroutines
               /\ call'.step = "calling" /\ call'.turn = NoTurn
<1> DEFINE swept == [m \in Messages |-> IF state[m] = "queued" /\ asked[m] <= cutoff
                                        THEN "interrupted" ELSE state[m]]
<1>1. call.step = "none" /\ holder = "none"
  BY Shapes DEF Drain
<1>2. UNCHANGED <<given, pending, events, life, closed, driver, boundTo, late, gate>>
  BY DEF Drain
<1>3. state' = state \/ state' = swept
  BY DEF Drain
<1>4. \A m \in Messages : /\ swept[m] = "running" => state[m] = "running"
                          /\ swept[m] = "queued" => state[m] = "queued"
  OBVIOUS
<1>5. \/ UNCHANGED sendMu /\ Returned(who)
      \/ /\ pending = NoTurn /\ gate # "interrupt" /\ UNCHANGED goroutines
         /\ \E m \in Messages : Dispatches(who, m)
  BY DEF Drain
<1> HIDE DEF swept
<1>6. \A m \in Messages : Dispatches(who, m) => call'.step = "calling" /\ call'.turn = NoTurn
  BY DEF Dispatches
<1>7. projector' = "ended" => projector = "ended"
  BY <1>5 DEF Returned
<1>8. QED
  BY <1>1, <1>2, <1>3, <1>4, <1>5, <1>6, <1>7

LEMMA CoreStep ==
  ASSUME OneAtATime, TypeInv, TurnInv, CoreInv, Next PROVE CoreInv'
<1>1. CASE UNCHANGED core
  BY <1>1, CoreFrame
<1>2. ASSUME NEW m \in Messages, Send(m) PROVE CoreInv'
  <2>1. call.step = "none" /\ UNCHANGED <<given, pending, events, life, closed, driver>>
    BY <1>2, Shapes DEF Send
  <2>2. CASE pending = NoTurn
    <3>1. call'.step = "calling" /\ call'.turn = NoTurn
      BY <1>2, <2>2 DEF Send, Dispatches
    <3>2. QED
      BY <2>1, <2>2, <3>1, CoreCalls
  <2>3. CASE pending # NoTurn
    <3>1. call' = call
      BY <1>2, <2>3 DEF Send
    <3>2. QED
      BY <2>1, <3>1, CoreFrame DEF core
  <2>4. QED
    BY <2>2, <2>3
<1>3. CASE SendTurnFails
  <2>1. /\ call.step = "calling" /\ call' = NoCall
        /\ UNCHANGED <<given, pending, events, life, closed, driver>>
    BY <1>3 DEF SendTurnFails, Releases, OneAtATime
  <2>2. pending = NoTurn
    BY <2>1 DEF CoreInv, CallInv
  <2>3. QED
    BY <2>1, <2>2, CoreCalls
<1>4. CASE SendTurn \/ Bind \/ NotePending \/ StartTurn
  BY <1>4, CoreSendTurn, CoreBind, CoreNotePending, CoreStartTurn
<1>5. ASSUME NEW who, Drain(who) PROVE CoreInv'
  <2>1. CASE call' = call
    BY <1>5, <2>1, DrainDoes, CoreFrame DEF core
  <2>2. CASE pending = NoTurn /\ call'.step = "calling" /\ call'.turn = NoTurn
    BY <1>5, <2>2, DrainDoes, CoreCalls
  <2>3. QED
    BY <1>5, <2>1, <2>2, DrainDoes
<1>6. ASSUME NEW t \in Turns, Announce(t) \/ Complete(t) PROVE CoreInv'
  BY <1>6, CoreAnnounce, CoreComplete
<1>7. CASE Close \/ ProjectStarted \/ ProjectCompleted
  BY <1>7, CoreClose, CoreProject
<1>8. QED
  BY <1>1, <1>2, <1>3, <1>4, <1>5, <1>6, <1>7, CoreRests DEF DispatchStep, DrainStep

-----------------------------------------------------------------------------
(* Rows                                                                    *)

\* A step that makes no row run and moves no turn.
LEMMA RowFrame ==
  ASSUME RowInv, UNCHANGED <<given, call, pending, boundTo, late>>,
         closed => closed', projector' = "ended" => projector = "ended",
         \A m \in Messages : state'[m] = "running" => state[m] = "running"
  PROVE  RowInv'
BY DEF RowInv, Latest

\* Nor does the begin or the early end of a dispatch.
LEMMA RowCalls ==
  ASSUME RowInv, UNCHANGED <<given, pending, boundTo, late, closed>>,
         call.step \in {"none", "calling"}, call'.step \in {"none", "calling"},
         projector' = "ended" => projector = "ended",
         \A m \in Messages : state'[m] = "running" => state[m] = "running"
  PROVE  RowInv'
BY DEF RowInv, Latest

\* No row runs while the controller is not busy and binds nothing.
LEMMA NoneRuns ==
  ASSUME TypeInv, CoreInv, RowInv, call.step \in {"calling", "binding"}
  PROVE  \A m \in Messages : state[m] # "running"
BY DEF RowInv, CoreInv, CallInv

\* Who holds sendMu returns to its loop.
LEMMA ReleasesLoops == ASSUME Releases PROVE projector' = "ended" => projector = "ended"
BY DEF Releases, Returned

LEMMA RowDispatch ==
  ASSUME OneAtATime, TypeInv, TurnInv, CoreInv, RowInv, DispatchStep PROVE RowInv'
<1>0. boundTo \in [Messages -> Turns \cup {NoTurn}] /\ state \in [Messages -> RowStates]
  BY DEF TypeInv, TypeOK, RowsOK
<1>1. CASE SendTurn
  <2>1. /\ call.step = "calling" /\ UNCHANGED <<state, boundTo, late, projector, closed, pending>>
        /\ given' = Append(given, call.m)
        /\ call' = [call EXCEPT !.step = "binding", !.turn = Len(given) + 1]
    BY <1>1 DEF SendTurn
  <2>2. \A m \in Messages : state'[m] # "running"
    BY <2>1, NoneRuns
  <2>3. Latest' = Latest + 1 /\ Latest \in Nat
    BY <2>1, Shapes, GivenGrows DEF Latest
  <2>4. call'.step = "binding"
    BY <2>1, Shapes
  <2>5. \A m \in Messages : boundTo'[m] <= Latest' /\ boundTo'[m] # Latest'
    BY <1>0, <2>1, <2>3 DEF RowInv
  <2>6. QED
    BY <2>1, <2>2, <2>4, <2>5 DEF RowInv
<1>2. CASE SendTurnFails
  <2>1. /\ call.step = "calling" /\ call'.step = "none"
        /\ UNCHANGED <<given, pending, boundTo, late, closed>>
        /\ state' = [state EXCEPT ![call.m] = "failed"] /\ Releases
    BY <1>2 DEF SendTurnFails, Releases, OneAtATime, Settles
  <2>2. \A m \in Messages : state'[m] = "running" => state[m] = "running"
    BY <1>0, <2>1
  <2>3. QED
    BY <2>1, <2>2, RowCalls, ReleasesLoops
<1>3. CASE Bind
  <2>1. /\ call.step = "binding" /\ boundTo' = [boundTo EXCEPT ![call.m] = call.turn]
        /\ state' = [state EXCEPT ![call.m] = "running"]
        /\ call' = [call EXCEPT !.step = "noting"]
        /\ UNCHANGED <<given, pending, closed, projector>>
        /\ late' = (IF projector = "ended" THEN late \cup {call.m} ELSE late)
    BY <1>3 DEF Bind, TurnInv, Settles
  <2>2. /\ call'.step = "noting" /\ call'.m = call.m /\ call.m \in Messages
        /\ call.turn = Latest /\ Latest \in Turns /\ Latest # NoTurn /\ Latest' = Latest
    BY <2>1, Shapes DEF CoreInv, CallInv, Latest
  <2>3. \A m \in Messages : m # call.m =>
          state'[m] # "running" /\ boundTo'[m] = boundTo[m] /\ boundTo[m] # Latest
    BY <1>0, <2>1, NoneRuns DEF RowInv
  <2>4. boundTo'[call.m] = Latest
    BY <1>0, <2>1, <2>2
  <2>5. \A m \in Messages : boundTo'[m] <= Latest
    BY <2>2, <2>3, <2>4, Shapes DEF RowInv
  <2>6. QED
    BY <2>1, <2>2, <2>3, <2>4, <2>5 DEF RowInv
<1>4. CASE NotePending
  <2>1. /\ call.step = "noting" /\ pending' = call.turn
        /\ UNCHANGED <<given, state, boundTo, late, closed>>
    BY <1>4 DEF NotePending
  <2>2. /\ pending' = Latest /\ Latest' = Latest
    BY <2>1 DEF CoreInv, CallInv, Latest
  <2>3. projector' = "ended" => projector = "ended"
    BY <1>4, ReleasesLoops DEF NotePending
  <2>4. CASE driver = "acp"
    <3>1. call'.step = "starting" /\ call'.m = call.m
      BY <1>4, <2>4, Shapes DEF NotePending
    <3>2. QED
      BY <2>1, <2>2, <2>3, <3>1 DEF RowInv
  <2>5. CASE driver # "acp"
    <3>1. call'.step = "none"
      BY <1>4, <2>5 DEF NotePending, Releases
    <3>2. QED
      BY <2>1, <2>2, <2>3, <2>5, <3>1 DEF RowInv
  <2>6. QED
    BY <2>4, <2>5
<1>5. CASE StartTurn
  <2>1. /\ call.step = "starting" /\ call'.step = "none" /\ Latest' = Latest
        /\ UNCHANGED <<given, boundTo, late, closed>> /\ Releases
    BY <1>5 DEF StartTurn, Releases, Latest
  <2>2. pending = Latest /\ call.m \in Messages
    BY <2>1, Shapes DEF CoreInv, CallInv
  <2>3. CASE shut
    <3>1. state' = [state EXCEPT ![call.m] = "failed"]
      BY <1>5, <2>3 DEF StartTurn, Settles
    <3>2. \A m \in Messages : state[m] = "running" => m = call.m
      BY <2>1 DEF RowInv
    <3>3. \A m \in Messages : state'[m] # "running"
      BY <1>0, <3>1, <3>2
    <3>4. projector' = "ended" => projector = "ended"
      BY <2>1, ReleasesLoops
    <3>5. QED
      BY <2>1, <2>3, <3>3, <3>4 DEF RowInv
  <2>4. CASE ~shut
    <3>1. UNCHANGED <<pending, state>>
      BY <1>5, <2>4 DEF StartTurn
    <3>2. projector' = "ended" => projector = "ended"
      BY <2>1, ReleasesLoops
    <3>3. QED
      BY <2>1, <2>2, <3>1, <3>2 DEF RowInv
  <2>5. QED
    BY <2>3, <2>4
<1>6. QED
  BY <1>1, <1>2, <1>3, <1>4, <1>5 DEF DispatchStep

LEMMA RowStep ==
  ASSUME OneAtATime, TypeInv, TurnInv, CoreInv, RowInv, Next PROVE RowInv'
<1>0. boundTo \in [Messages -> Turns \cup {NoTurn}] /\ state \in [Messages -> RowStates]
  BY DEF TypeInv, TypeOK, RowsOK
<1>1. ASSUME NEW m \in Messages, Send(m) PROVE RowInv'
  <2>1. /\ call.step = "none" /\ UNCHANGED <<given, pending, boundTo, late, closed, projector>>
        /\ state' = [state EXCEPT ![m] = "queued"]
    BY <1>1, Shapes DEF Send, Settles
  <2>2. call'.step \in {"none", "calling"}
    BY <1>1, <2>1 DEF Send, Dispatches
  <2>3. \A n \in Messages : state'[n] = "running" => state[n] = "running"
    BY <1>0, <2>1
  <2>4. QED
    BY <2>1, <2>2, <2>3, RowCalls
<1>2. ASSUME NEW who, Drain(who) PROVE RowInv'
  <2>1. /\ call.step = "none" /\ UNCHANGED <<given, pending, boundTo, late, closed>>
        /\ \A m \in Messages : state'[m] = "running" => state[m] = "running"
        /\ projector' = "ended" => projector = "ended"
    BY <1>2, DrainDoes
  <2>2. call'.step \in {"none", "calling"}
    BY <1>2, <2>1, DrainDoes
  <2>3. QED
    BY <2>1, <2>2, RowCalls
<1>3. CASE Shut \/ Close
  BY <1>3, RowFrame DEF Shut, Close
<1>4. ASSUME NEW t \in Turns, Announce(t) \/ Complete(t) PROVE RowInv'
  BY <1>4, RowFrame DEF Announce, Complete
<1>5. CASE ClearActive
  BY <1>5, RowFrame DEF ClearActive
<1>6. CASE ProjectStarted
  <2>1. pending' = pending
    BY <1>6, EventArrives DEF ProjectStarted
  <2>2. QED
    BY <1>6, <2>1, RowFrame DEF ProjectStarted
<1>7. CASE ProjectCompleted
  <2>1. /\ events # <<>> /\ Head(events).kind # "started" /\ Head(events) \in Events
    BY <1>7, EventsType DEF ProjectCompleted, TypeInv, TypeOK
  <2>2. Head(events).turn = Latest /\ call.step = "none"
    BY <2>1, EventArrives
  <2>3. /\ UNCHANGED <<given, call, boundTo, late, closed>> /\ projector' = "draining"
        /\ state' = [m \in Messages |-> IF boundTo[m] = Latest THEN Head(events).kind ELSE state[m]]
    BY <1>7, <2>2 DEF ProjectCompleted
  <2>4. Head(events).kind # "running"
    BY <2>1 DEF Events
  <2>5. \A m \in Messages : state'[m] # "running"
    BY <2>3, <2>4 DEF RowInv
  <2>6. QED
    BY <2>2, <2>3, <2>5 DEF RowInv, Latest
<1>8. CASE EndOfStream
  <2>1. closed /\ UNCHANGED <<given, call, boundTo, late, closed, pending>>
    BY <1>8 DEF EndOfStream
  <2>2. \A m \in Messages : state'[m] # "running"
    BY <1>8 DEF EndOfStream
  <2>3. QED
    BY <2>1, <2>2 DEF RowInv, Latest
<1>9. CASE BrakeRead \/ BrakeReadWorker \/ PollStep \/ CancelHandoff
  <2>1. UNCHANGED <<given, call, pending, boundTo, late, closed, projector, state>>
    BY <1>9 DEF BrakeRead, BrakeReadWorker, PollStep, PollBusy, PollQueue, PollStopped,
                CancelHandoff
  <2>2. QED
    BY <2>1, RowFrame
<1>10. ASSUME NEW p \in Brakers, BrakeStep(p) PROVE RowInv'
  <2>1. UNCHANGED <<given, call, pending, boundTo, late, closed, projector, state>>
    BY <1>10 DEF BrakeStep, BrakeCut, BrakeAccepted, BrakeRefused, BrakeFails
  <2>2. QED
    BY <2>1, RowFrame
<1>11. ASSUME NEW policy \in {"drain", "interrupt"}, BeginHandoff(policy) PROVE RowInv'
  BY <1>11, RowFrame DEF BeginHandoff
<1>12. QED
  BY <1>1, <1>2, <1>3, <1>4, <1>5, <1>6, <1>7, <1>8, <1>9, <1>10, <1>11, RowDispatch
     DEF Next, DrainStep, ProviderStep, ProjectStep

-----------------------------------------------------------------------------
(* The stop-now handoff                                                    *)

\* A step that leaves the gate and the worker, dispatches nothing and queues nothing.
LEMMA StopFrame ==
  ASSUME StopInv, UNCHANGED <<gate, worker>>, call' = call,
         pending = NoTurn => pending' = NoTurn, closed => closed',
         \A m \in Messages : state'[m] = "queued" => state[m] = "queued"
  PROVE  StopInv'
BY DEF StopInv, Queued

LEMMA StopStep ==
  ASSUME OneAtATime, TypeInv, TurnInv, CoreInv, RowInv, StopInv, Next PROVE StopInv'
<1>1. ASSUME NEW m \in Messages, Send(m) PROVE StopInv'
  BY <1>1 DEF Send, StopInv
<1>2. CASE DispatchStep
  <2>1. gate' = gate
    BY <1>2 DEF DispatchStep, SendTurn, SendTurnFails, Bind, NotePending, StartTurn
  <2>2. call.step # "none"
    BY <1>2 DEF DispatchStep, SendTurn, SendTurnFails, Bind, NotePending, StartTurn
  <2>3. QED
    BY <2>1, <2>2 DEF StopInv
<1>3. ASSUME NEW who, Drain(who) PROVE StopInv'
  <2>1. UNCHANGED <<gate, pending, closed>>
    BY <1>3, DrainDoes
  <2>2. CASE gate = "interrupt"
    <3>1. call' = call /\ Returned(who) /\ Waits(who)
      BY <1>3, <2>2, DrainDoes DEF Drain
    <3>2. worker' = worker \/ worker' = "polling"
      BY <3>1 DEF Returned
    <3>3. \A m \in Messages : state'[m] = "queued" => state[m] = "queued"
      BY <1>3, DrainDoes
    <3>4. CASE worker' = worker
      BY <2>1, <3>1, <3>3, <3>4, StopFrame
    <3>5. CASE worker' = "polling"
      BY <2>1, <2>2, <3>1, <3>5 DEF StopInv
    <3>6. QED
      BY <3>2, <3>4, <3>5
  <2>3. CASE gate # "interrupt"
    BY <2>1, <2>3 DEF StopInv
  <2>4. QED
    BY <2>2, <2>3
<1>4. CASE Shut \/ Close
  BY <1>4, StopFrame DEF Shut, Close
<1>5. ASSUME NEW t \in Turns, Announce(t) \/ Complete(t) PROVE StopInv'
  BY <1>5, StopFrame DEF Announce, Complete
<1>6. CASE ClearActive
  BY <1>6, StopFrame DEF ClearActive
<1>7. CASE ProjectStarted
  <2>1. pending' = pending
    BY <1>7, EventArrives DEF ProjectStarted
  <2>2. QED
    BY <1>7, <2>1, StopFrame DEF ProjectStarted
<1>8. CASE ProjectCompleted
  <2>1. events # <<>> /\ Head(events) \in Events
    BY <1>8, EventsType DEF ProjectCompleted, TypeInv, TypeOK
  <2>2. Head(events).kind # "queued"
    BY <2>1 DEF Events
  <2>3. \A m \in Messages : state'[m] = "queued" => state[m] = "queued"
    BY <1>8, <2>2 DEF ProjectCompleted
  <2>4. UNCHANGED <<gate, worker, call, closed>> /\ (pending = NoTurn => pending' = NoTurn)
    BY <1>8 DEF ProjectCompleted
  <2>5. QED
    BY <2>3, <2>4, StopFrame
<1>9. CASE EndOfStream
  <2>1. \A m \in Messages : state'[m] = "queued" => state[m] = "queued"
    BY <1>9 DEF EndOfStream
  <2>2. QED
    BY <1>9, <2>1, StopFrame DEF EndOfStream
<1>10. CASE BrakeRead
  BY <1>10, StopFrame DEF BrakeRead
<1>11. CASE BrakeReadWorker
  <2>1. UNCHANGED <<gate, call, pending, closed, state>> /\ worker' \in {"polling", "braking"}
    BY <1>11 DEF BrakeReadWorker
  <2>2. QED
    BY <2>1 DEF StopInv
<1>12. ASSUME NEW p \in Brakers, BrakeStep(p) PROVE StopInv'
  <2>1. UNCHANGED <<call, pending, closed, state>>
    BY <1>12 DEF BrakeStep, BrakeCut, BrakeAccepted, BrakeRefused, BrakeFails
  <2>2. gate' = "open" \/ (gate' = gate /\ (worker' = worker \/ worker' = "polling"))
    BY <1>12 DEF BrakeStep, BrakeCut, BrakeAccepted, BrakeRefused, BrakeFails, AbortHandoff
  <2>3. QED
    BY <2>1, <2>2 DEF StopInv, Queued
<1>13. ASSUME NEW policy \in {"drain", "interrupt"}, BeginHandoff(policy) PROVE StopInv'
  <2>1. call.step = "none" /\ call' = call /\ worker' \in {"draining", "braking", "polling"}
    BY <1>13, Shapes DEF BeginHandoff
  <2>2. QED
    BY <2>1 DEF StopInv
<1>14. CASE PollBusy
  BY <1>14 DEF PollBusy, StopInv
<1>15. CASE PollQueue
  <2>1. worker = "checking" /\ UNCHANGED <<gate, call, pending, closed, state>>
    BY <1>15 DEF PollQueue
  <2>2. worker' = "prepared" => Queued = {}
    BY <1>15 DEF PollQueue
  <2>3. worker' # "checking"
    BY <1>15 DEF PollQueue
  <2>4. QED
    BY <2>1, <2>2, <2>3 DEF StopInv, Queued
<1>16. CASE PollStopped
  <2>1. closed
    BY <1>16 DEF PollStopped, RowInv
  <2>2. QED
    BY <1>16, <2>1 DEF PollStopped, StopInv
<1>17. CASE CancelHandoff
  BY <1>17 DEF CancelHandoff, AbortHandoff, StopInv
<1>18. QED
  BY <1>1, <1>2, <1>3, <1>4, <1>5, <1>6, <1>7, <1>8, <1>9, <1>10, <1>11, <1>12, <1>13, <1>14,
     <1>15, <1>16, <1>17
     DEF Next, DrainStep, ProviderStep, ProjectStep, PollStep

-----------------------------------------------------------------------------
(* The theorems                                                            *)

\* Every step keeps the flow.
LEMMA FlowKeeps ==
  ASSUME OneAtATime
  PROVE  TypeInv /\ TurnInv /\ FlowInv /\ [Next]_vars => FlowInv'
<1> SUFFICES ASSUME TypeInv, TurnInv, FlowInv, [Next]_vars PROVE FlowInv'
  OBVIOUS
<1>1. CASE Next
  BY <1>1, CoreStep, RowStep, StopStep DEF FlowInv
<1>2. CASE UNCHANGED vars
  <2>1. CoreInv'
    BY <1>2, CoreFrame DEF FlowInv, vars, core
  <2>2. RowInv'
    BY <1>2, RowFrame DEF FlowInv, vars
  <2>3. StopInv'
    BY <1>2, StopFrame DEF FlowInv, vars
  <2>. QED BY <2>1, <2>2, <2>3 DEF FlowInv
<1>. QED BY <1>1, <1>2

LEMMA FlowAlways == OneAtATime => (Spec => [](TypeInv /\ FlowInv))
<1> SUFFICES ASSUME OneAtATime PROVE Spec => [](TypeInv /\ FlowInv)
  OBVIOUS
<1>1. Init => TypeInv /\ TurnInv /\ FlowInv
  BY TypeInit, OnceInit, FlowInit
<1>2. TypeInv /\ TurnInv /\ [Next]_vars => TypeInv' /\ TurnInv'
  BY TypeStep, TurnStep DEF OneAtATime
<1>. QED BY <1>1, <1>2, FlowKeeps, PTL DEF Spec

\* The provider never works on two turns at a time (controller.go's dispatch asks the
\* pending turn, which is noted only after the turn is bound).
THEOREM TurnByTurn == OneAtATime => (Spec => []OneTurn)
<1>1. ASSUME TypeInv, FlowInv PROVE OneTurn
  <2>1. Alive \subseteq {Latest}
    BY <1>1 DEF FlowInv, CoreInv, LatestInv, Alive
  <2>2. IsFiniteSet({Latest}) /\ Cardinality({Latest}) = 1
    BY FS_Singleton
  <2>3. Cardinality(Alive) <= Cardinality({Latest})
    BY <2>1, <2>2, FS_Subset
  <2>4. QED
    BY <2>2, <2>3 DEF OneTurn
<1>2. QED
  BY <1>1, FlowAlways, PTL

\* The controller is not left busy: the pending turn runs, or its end is on its way to the
\* projection goroutine.
THEOREM BusyEnds == OneAtATime => (Spec => []BusyWillEnd)
<1>1. ASSUME TypeInv, FlowInv PROVE BusyWillEnd
  <2> SUFFICES ASSUME pending # NoTurn, call.turn # pending, ~closed
               PROVE  \/ life[pending] \in {"accepted", "running"}
                      \/ \E i \in 1..Len(events) : events[i].kind # "started" /\ events[i].turn = pending
    BY DEF BusyWillEnd
  <2>1. pending = Latest /\ call.step # "starting"
    BY <1>1 DEF FlowInv, CoreInv, LatestInv, CallInv
  <2>2. \A i \in 1..Len(events) : events[i].turn = pending
    BY <1>1, <2>1 DEF FlowInv, CoreInv, EventInv
  <2>3. QED
    BY <1>1, <2>1, <2>2 DEF FlowInv, CoreInv, BusyInv
<1>2. QED
  BY <1>1, FlowAlways, PTL

\* A row that says running is real: being started, run, or about to be settled.
THEOREM RunningRowsAreReal == OneAtATime => (Spec => []RunningIsReal)
<1>1. ASSUME TypeInv, FlowInv PROVE RunningIsReal
  <2> SUFFICES ASSUME NEW m \in Messages, state[m] = "running", call.m # m,
                      ~(closed /\ projector # "ended"), m \notin late
               PROVE  \/ life[boundTo[m]] \in {"accepted", "running"}
                      \/ \E i \in 1..Len(events) :
                           events[i].kind # "started" /\ events[i].turn = boundTo[m]
    BY DEF RunningIsReal
  <2>1. boundTo[m] = Latest /\ Latest # NoTurn /\ pending = Latest
    BY <1>1 DEF FlowInv, RowInv
  <2>2. call.step # "starting"
    BY <1>1, <2>1 DEF FlowInv, RowInv
  <2>3. ~closed
    BY <1>1 DEF FlowInv, RowInv
  <2>4. \A i \in 1..Len(events) : events[i].turn = Latest
    BY <1>1 DEF FlowInv, CoreInv, EventInv
  <2>5. QED
    BY <1>1, <2>1, <2>2, <2>3, <2>4 DEF FlowInv, CoreInv, BusyInv
<1>2. QED
  BY <1>1, FlowAlways, PTL

\* A stop-now handoff that reports quiescence left nothing running and nothing to send.
THEOREM StopsNow == OneAtATime => (Spec => []InterruptFinishes)
<1>1. ASSUME TypeInv, FlowInv PROVE InterruptFinishes
  <2> SUFFICES ASSUME worker = "prepared", gate = "interrupt", ~closed, NEW m \in Messages
               PROVE  state[m] \notin {"queued", "running"}
    BY DEF InterruptFinishes
  <2>1. call.step = "none" /\ pending = NoTurn /\ Queued = {}
    BY <1>1 DEF FlowInv, StopInv
  <2>2. state[m] # "running"
    BY <1>1, <2>1 DEF FlowInv, RowInv
  <2>3. QED
    BY <2>1, <2>2 DEF Queued
<1>2. QED
  BY <1>1, FlowAlways, PTL

-----------------------------------------------------------------------------
(* What waits when a handoff is prepared                                   *)

\* The gate is closed by the handoff that is under way; once the stream ended behind a
\* closed gate, or the handoff is prepared, nothing waits.
GateInv ==
  /\ gate = "open" <=> worker = "idle"
  /\ worker = "braking" => gate = "interrupt"
  /\ gate # "open" /\ projector = "ended" => Queued = {}
  /\ worker = "prepared" => Queued = {}

NothingNewWaits == \A m \in Messages : state'[m] = "queued" => state[m] = "queued"

\* A step that queues nothing and leaves the gate; the worker may return to its poll.
LEMMA GateFrame ==
  ASSUME GateInv, gate' = gate, worker' = worker \/ (worker # "idle" /\ worker' = "polling"),
         projector' = "ended" => projector = "ended", NothingNewWaits
  PROVE  GateInv'
BY DEF GateInv, Queued, NothingNewWaits

\* Whoever held sendMu goes back to its own loop.
LEMMA GateReleases ==
  ASSUME TypeInv, NEW who, who = "worker" => worker = "draining", Returned(who)
  PROVE  /\ worker' = worker \/ (worker # "idle" /\ worker' = "polling")
         /\ projector' = "ended" => projector = "ended"
BY DEF Returned

LEMMA GateDispatch == ASSUME TypeInv, GateInv, DispatchStep PROVE GateInv'
<1>1. /\ gate' = gate /\ call.m \in Messages /\ state \in [Messages -> RowStates]
      /\ holder = "worker" => worker = "draining"
  BY Shapes DEF DispatchStep, SendTurn, SendTurnFails, Bind, NotePending, StartTurn, TypeInv,
                TypeOK, RowsOK, ReopensOK
<1>2. UNCHANGED goroutines \/ Returned(holder)
  BY DEF DispatchStep, SendTurn, SendTurnFails, Bind, NotePending, StartTurn, Releases
<1>3. NothingNewWaits
  BY <1>1 DEF DispatchStep, SendTurn, SendTurnFails, Bind, NotePending, StartTurn, Settles,
              NothingNewWaits
<1>4. /\ worker' = worker \/ (worker # "idle" /\ worker' = "polling")
      /\ projector' = "ended" => projector = "ended"
  BY <1>1, <1>2, GateReleases
<1>. QED BY <1>1, <1>3, <1>4, GateFrame

LEMMA GateDrain == ASSUME TypeInv, GateInv, NEW who, Drain(who) PROVE GateInv'
<1>1. gate' = gate /\ NothingNewWaits
  BY DrainDoes DEF NothingNewWaits
<1>2. Returned(who) \/ UNCHANGED goroutines
  BY DrainDoes
<1>3. who = "worker" => worker = "draining"
  BY DEF Drain, Waits
<1>4. /\ worker' = worker \/ (worker # "idle" /\ worker' = "polling")
      /\ projector' = "ended" => projector = "ended"
  BY <1>2, <1>3, GateReleases
<1>. QED BY <1>1, <1>4, GateFrame

LEMMA GateProject == ASSUME TypeInv, GateInv, ProjectStep PROVE GateInv'
<1>1. CASE ProjectStarted
  BY <1>1, GateFrame DEF ProjectStarted, NothingNewWaits
<1>2. CASE ProjectCompleted
  <2>1. Head(events).kind \in {"started", "completed", "interrupted"}
    BY <1>2, EventsType DEF ProjectCompleted, TypeInv, TypeOK, Events
  <2>2. NothingNewWaits
    BY <1>2, <2>1 DEF ProjectCompleted, NothingNewWaits
  <2>. QED BY <1>2, <2>2, GateFrame DEF ProjectCompleted
<1>3. CASE EndOfStream
  <2>1. Queued' = {} /\ UNCHANGED <<gate, worker>>
    BY <1>3 DEF EndOfStream, Queued
  <2>. QED BY <2>1 DEF GateInv
<1>. QED BY <1>1, <1>2, <1>3 DEF ProjectStep

LEMMA GateBrake == ASSUME TypeInv, GateInv, NEW p \in Brakers, BrakeStep(p) PROVE GateInv'
<1>1. UNCHANGED <<state, projector>>
  BY DEF BrakeStep, BrakeCut, BrakeAccepted, BrakeRefused, BrakeFails
<1>2. p = "worker" => worker = "braking"
  BY DEF BrakeStep, BrakeCut, BrakeAccepted, BrakeRefused, BrakeFails, TypeInv, ReopensOK
<1>3. \/ gate' = gate /\ (worker' = worker \/ (worker # "idle" /\ worker' = "polling"))
      \/ gate' = "open" /\ worker' = "idle"
  BY <1>2 DEF BrakeStep, BrakeCut, BrakeAccepted, BrakeRefused, BrakeFails, AbortHandoff
<1>. QED BY <1>1, <1>3 DEF GateInv, Queued

LEMMA GateHandoff ==
  ASSUME TypeInv, GateInv,
         \/ BrakeReadWorker
         \/ \E policy \in {"drain", "interrupt"} : BeginHandoff(policy)
         \/ PollStep \/ CancelHandoff
  PROVE  GateInv'
<1>1. CASE BrakeReadWorker
  BY <1>1, GateFrame DEF BrakeReadWorker, NothingNewWaits
<1>2. ASSUME NEW policy \in {"drain", "interrupt"}, BeginHandoff(policy) PROVE GateInv'
  BY <1>2 DEF BeginHandoff, GateInv
<1>3. CASE PollBusy
  BY <1>3 DEF PollBusy, GateInv, Queued
<1>4. CASE PollQueue
  BY <1>4 DEF PollQueue, GateInv, Queued
<1>5. CASE PollStopped
  BY <1>5 DEF PollStopped, GateInv, Queued
<1>6. CASE CancelHandoff
  BY <1>6 DEF CancelHandoff, AbortHandoff, GateInv
<1>. QED BY <1>1, <1>2, <1>3, <1>4, <1>5, <1>6 DEF PollStep

LEMMA GateStep == TypeInv /\ GateInv /\ [Next]_vars => GateInv'
<1> SUFFICES ASSUME TypeInv, GateInv, [Next]_vars PROVE GateInv'
  OBVIOUS
<1>1. ASSUME NEW m \in Messages, Send(m) PROVE GateInv'
  BY <1>1 DEF Send, GateInv
<1>2. CASE Shut \/ Close \/ ClearActive \/ BrakeRead \/ UNCHANGED vars
  BY <1>2, GateFrame DEF Shut, Close, ClearActive, BrakeRead, vars, NothingNewWaits
<1>3. ASSUME NEW t \in Turns, Announce(t) \/ Complete(t) PROVE GateInv'
  BY <1>3, GateFrame DEF Announce, Complete, NothingNewWaits
<1>. QED
  BY <1>1, <1>2, <1>3, GateDispatch, GateDrain, GateProject, GateBrake, GateHandoff
     DEF Next, DrainStep, ProviderStep

\* A handoff, of either kind, that reports quiescence left no message waiting: what
\* DrainFinishes claims too much of is a row that runs, never one that waits.  This
\* holds of every driver and environment.
PreparedLeavesNoQueue == worker = "prepared" => Queued = {}

THEOREM NothingWaitsWhenPrepared == Spec => []PreparedLeavesNoQueue
<1>1. Init => GateInv
  BY DEF Init, GateInv
<1>2. GateInv => PreparedLeavesNoQueue
  BY DEF GateInv, PreparedLeavesNoQueue
<1>. QED BY <1>1, <1>2, TypeInit, TypeStep, GateStep, PTL DEF Spec

-----------------------------------------------------------------------------
(* No lost wakeup                                                          *)

\* The cases QueuedIsServed excuses.
Undisturbed == gate # "interrupt" /\ ~closed /\ \A m \in Messages : state[m] # "failed"

\* Somebody is about to look at the queue, or the agent is busy.
LookedAfter ==
  \/ call.step # "none" \/ pending # NoTurn
  \/ projector = "draining" \/ worker = "draining" \/ reopens > 0
  \/ gate = "drain" /\ worker \in {"polling", "checking"}

WatchInv == Queued # {} => LookedAfter

LEMMA WatchDispatch ==
  ASSUME TypeInv, TurnInv, FlowInv, Undisturbed, Undisturbed', DispatchStep
  PROVE  LookedAfter'
<1>1. /\ call.m \in Messages /\ state \in [Messages -> RowStates] /\ UNCHANGED closed
      /\ call.step \in {"binding", "noting", "starting"} => call.turn \in Turns
  BY Shapes DEF DispatchStep, SendTurn, SendTurnFails, Bind, NotePending, StartTurn, TypeInv,
                TypeOK, RowsOK
<1>2. CASE SendTurn
  BY <1>2, Shapes DEF SendTurn, LookedAfter
<1>3. CASE SendTurnFails
  <2>1. state'[call.m] = "failed"
    BY <1>1, <1>3 DEF SendTurnFails, Settles
  <2>. QED BY <1>1, <2>1 DEF Undisturbed
<1>4. CASE Bind
  <2>1. call' = [call EXCEPT !.step = "noting"]
    BY <1>4 DEF Bind, TurnInv
  <2>. QED BY <2>1, Shapes DEF LookedAfter
<1>5. CASE NotePending
  BY <1>1, <1>5 DEF NotePending, LookedAfter
<1>6. CASE StartTurn
  <2>0. ~shut
    <3>1. shut => state'[call.m] = "failed"
      BY <1>1, <1>6 DEF StartTurn, Settles
    <3>. QED BY <1>1, <3>1 DEF Undisturbed
  <2>1. pending' = pending /\ call.step = "starting"
    BY <1>6, <2>0 DEF StartTurn
  <2>2. pending \in Turns
    BY <1>1, <2>1 DEF FlowInv, CoreInv, CallInv
  <2>. QED BY <2>1, <2>2 DEF LookedAfter
<1>. QED BY <1>2, <1>3, <1>4, <1>5, <1>6 DEF DispatchStep

\* A drain that leaves a message waiting hands one to the provider or found the agent busy.
LEMMA WatchDrain == ASSUME TypeInv, Undisturbed, NEW who, Drain(who) PROVE WatchInv'
<1> DEFINE swept == [m \in Messages |-> IF state[m] = "queued" /\ asked[m] <= cutoff
                                        THEN "interrupted" ELSE state[m]]
<1>1. \/ pending' # NoTurn
      \/ state' = swept /\ {m \in Messages : swept[m] = "queued"} = {}
      \/ call'.step # "none"
  BY DEF Drain, Dispatches, Undisturbed
<1>2. state' = swept /\ {m \in Messages : swept[m] = "queued"} = {} => Queued' = {}
  BY DEF Queued
<1>. QED BY <1>1, <1>2 DEF WatchInv, LookedAfter

LEMMA WatchHandoff ==
  ASSUME TypeInv, FlowInv, GateInv, WatchInv, Undisturbed, Undisturbed',
         \/ \E policy \in {"drain", "interrupt"} : BeginHandoff(policy)
         \/ PollStep \/ CancelHandoff
  PROVE  WatchInv'
<1>0. /\ worker # "idle" => gate = "drain"
      /\ reopens \in Nat
  BY DEF GateInv, Undisturbed, TypeInv, TypeOK, MemoryOK, GoroutinesOK
<1>1. ASSUME NEW policy \in {"drain", "interrupt"}, BeginHandoff(policy) PROVE LookedAfter'
  BY <1>1 DEF BeginHandoff, LookedAfter, Undisturbed
<1>2. CASE PollBusy
  BY <1>0, <1>2 DEF PollBusy, LookedAfter, WatchInv
<1>3. CASE PollQueue
  BY <1>0, <1>3 DEF PollQueue, LookedAfter, WatchInv, Queued
<1>4. CASE PollStopped
  BY <1>4 DEF PollStopped, FlowInv, RowInv, Undisturbed
<1>5. CASE CancelHandoff
  BY <1>0, <1>5 DEF CancelHandoff, AbortHandoff, LookedAfter, WatchInv
<1>. QED BY <1>1, <1>2, <1>3, <1>4, <1>5 DEF PollStep, WatchInv

LEMMA WatchStep ==
  /\ TypeInv /\ TurnInv /\ FlowInv /\ GateInv /\ WatchInv
  /\ Undisturbed /\ Undisturbed' /\ [Next]_vars
  => WatchInv'
<1> SUFFICES ASSUME TypeInv, TurnInv, FlowInv, GateInv, WatchInv, Undisturbed, Undisturbed',
                    [Next]_vars
             PROVE  WatchInv'
  OBVIOUS
<1>1. ASSUME NEW m \in Messages, Send(m) PROVE LookedAfter'
  BY <1>1, Shapes DEF Send, Dispatches, LookedAfter
<1>2. CASE Close \/ EndOfStream
  BY <1>2 DEF Close, EndOfStream, Undisturbed
<1>3. CASE Shut \/ ClearActive \/ BrakeRead \/ UNCHANGED vars
  BY <1>3 DEF Shut, ClearActive, BrakeRead, vars, WatchInv, LookedAfter, Queued
<1>4. ASSUME NEW t \in Turns, Announce(t) \/ Complete(t) PROVE WatchInv'
  BY <1>4 DEF Announce, Complete, WatchInv, LookedAfter, Queued
<1>5. CASE ProjectStarted
  <2>1. pending' = Latest /\ Latest \in Turns
    BY <1>5, EventArrives DEF ProjectStarted, FlowInv
  <2>. QED BY <2>1 DEF WatchInv, LookedAfter
<1>6. CASE ProjectCompleted
  BY <1>6 DEF ProjectCompleted, WatchInv, LookedAfter
<1>7. CASE BrakeReadWorker
  BY <1>7 DEF BrakeReadWorker, GateInv, Undisturbed
<1>8. ASSUME NEW p \in Brakers, BrakeStep(p) PROVE WatchInv'
  <2>1. p # "worker"
    BY <1>8 DEF BrakeStep, BrakeCut, BrakeAccepted, BrakeRefused, BrakeFails, TypeInv, ReopensOK,
                GateInv, Undisturbed
  <2>2. UNCHANGED <<state, call, pending, projector, worker, reopens, gate>>
    BY <1>8, <2>1 DEF BrakeStep, BrakeCut, BrakeAccepted, BrakeRefused, BrakeFails
  <2>. QED BY <2>2 DEF WatchInv, LookedAfter, Queued
<1>. QED
  BY <1>1, <1>2, <1>3, <1>4, <1>5, <1>6, <1>7, <1>8, WatchDispatch, WatchDrain, WatchHandoff
     DEF Next, DrainStep, ProviderStep, ProjectStep, WatchInv

\* The end of turn t is on its way to the projection goroutine, which drains after it.
EndComes(t) == \E i \in 1..Len(events) : events[i].kind # "started" /\ events[i].turn = t

\* The safety half of QueuedIsServed: while a message waits, a dispatch or a drain is
\* under way, a drain is owed (by the projection goroutine, by the handoff's worker, by
\* an aborted handoff), or the busy agent's turn runs or has an end that will drain.
QueueIsWatched ==
  Queued # {} =>
    \/ call.step # "none"
    \/ projector = "draining" \/ worker = "draining" \/ reopens > 0
    \/ gate = "drain" /\ worker \in {"polling", "checking"}
    \/ pending # NoTurn /\ (life[pending] \in {"accepted", "running"} \/ EndComes(pending))

\* No wakeup is lost: between the end of a turn and the next message there is no state in
\* which a message waits and nobody will look, under the hypotheses of QueuedIsServed.
THEOREM NoLostWakeup == OneAtATime => (Spec /\ []Undisturbed => []QueueIsWatched)
<1> SUFFICES ASSUME OneAtATime PROVE Spec /\ []Undisturbed => []QueueIsWatched
  OBVIOUS
<1>1. Init => TypeInv /\ TurnInv /\ FlowInv /\ GateInv /\ WatchInv
  BY TypeInit, OnceInit, FlowInit DEF Init, GateInv, WatchInv, Queued
<1>2. TypeInv /\ TurnInv /\ [Next]_vars => TypeInv' /\ TurnInv'
  BY TypeStep, TurnStep DEF OneAtATime
<1>3. TypeInv /\ TurnInv /\ FlowInv /\ [Next]_vars => FlowInv'
  BY FlowKeeps
<1>4. TypeInv /\ FlowInv /\ WatchInv /\ Undisturbed => QueueIsWatched
  <2> SUFFICES ASSUME TypeInv, FlowInv, WatchInv, Undisturbed, Queued # {}, call.step = "none",
                      pending # NoTurn
               PROVE  life[pending] \in {"accepted", "running"} \/ EndComes(pending)
    BY DEF QueueIsWatched, WatchInv, LookedAfter
  <2>1. pending = Latest /\ \A i \in 1..Len(events) : events[i].turn = Latest
    BY DEF FlowInv, CoreInv, LatestInv, EventInv
  <2>. QED BY <2>1 DEF FlowInv, CoreInv, BusyInv, Undisturbed, EndComes
<1>. QED BY <1>1, <1>2, <1>3, <1>4, GateStep, WatchStep, PTL DEF Spec

-----------------------------------------------------------------------------
(* The two looks of the quiescence loop                                    *)

\* Nobody dispatches between the loop's look at the memory and its look at the rows.
OneLook == worker = "checking" => call.step = "none"

\* A draining handoff that saw an idle agent, and then no row that waits, has the
\* controller to itself.
LookInv ==
  gate = "drain" /\ ~closed =>
    /\ worker = "checking" => pending = NoTurn
    /\ worker = "prepared" => call.step = "none" /\ pending = NoTurn

\* A step that dispatches nothing and wakes no agent; the worker may return to its poll.
LookFrame ==
  /\ UNCHANGED <<gate, call>> /\ (closed => closed')
  /\ worker' = worker \/ worker' \in {"polling", "braking"}
  /\ pending = NoTurn => pending' = NoTurn

LEMMA LookRests == LookInv /\ LookFrame => LookInv'
BY DEF LookInv, LookFrame

\* A dispatch is never under way behind a prepared handoff, and between the two looks
\* only if OneLook fails.
LEMMA LookDispatch == ASSUME TypeInv, LookInv, OneLook, DispatchStep PROVE LookInv'
<1>1. call.step # "none" /\ UNCHANGED <<gate, closed>>
  BY DEF DispatchStep, SendTurn, SendTurnFails, Bind, NotePending, StartTurn
<1>2. worker' = worker \/ worker' = "polling"
  BY DEF DispatchStep, SendTurn, SendTurnFails, Bind, NotePending, StartTurn, Releases, Returned
<1>. QED BY <1>1, <1>2 DEF LookInv, OneLook

\* A drain finds nothing to hand over once the handoff is prepared.
LEMMA LookDrain == ASSUME TypeInv, GateInv, LookInv, NEW who, Drain(who) PROVE LookInv'
<1>1. UNCHANGED <<gate, pending, closed>>
  BY DrainDoes
<1>2. worker' = worker \/ worker' = "polling"
  BY DrainDoes DEF Returned
<1>3. call' = call \/ Queued # {}
  BY DEF Drain, Queued
<1>. QED BY <1>1, <1>2, <1>3 DEF LookInv, GateInv

LEMMA LookHandoff ==
  ASSUME TypeInv, FlowInv, GateInv, LookInv, OneLook,
         \/ \E policy \in {"drain", "interrupt"} : BeginHandoff(policy)
         \/ PollStep \/ CancelHandoff
  PROVE  LookInv'
<1>1. ASSUME NEW policy \in {"drain", "interrupt"}, BeginHandoff(policy) PROVE LookInv'
  BY <1>1 DEF BeginHandoff, LookInv
<1>2. CASE PollBusy
  BY <1>2 DEF PollBusy, LookInv
<1>3. CASE PollQueue
  BY <1>3 DEF PollQueue, LookInv, OneLook
<1>4. CASE PollStopped
  BY <1>4 DEF PollStopped, LookInv, FlowInv, RowInv
<1>5. CASE CancelHandoff
  BY <1>5 DEF CancelHandoff, AbortHandoff, LookInv
<1>. QED BY <1>1, <1>2, <1>3, <1>4, <1>5 DEF PollStep

LEMMA LookStep ==
  TypeInv /\ FlowInv /\ GateInv /\ LookInv /\ OneLook /\ [Next]_vars => LookInv'
<1> SUFFICES ASSUME TypeInv, FlowInv, GateInv, LookInv, OneLook, [Next]_vars PROVE LookInv'
  OBVIOUS
<1>1. ASSUME NEW m \in Messages, Send(m) PROVE LookInv'
  BY <1>1 DEF Send, LookInv
<1>2. CASE Shut \/ Close \/ ClearActive \/ BrakeRead \/ BrakeReadWorker \/ UNCHANGED vars
  BY <1>2, LookRests DEF Shut, Close, ClearActive, BrakeRead, BrakeReadWorker, vars, LookFrame
<1>3. ASSUME NEW t \in Turns, Announce(t) \/ Complete(t) PROVE LookInv'
  BY <1>3, LookRests DEF Announce, Complete, LookFrame
<1>4. CASE ProjectStarted
  <2>1. pending' = pending
    BY <1>4, EventArrives DEF ProjectStarted, FlowInv
  <2>. QED BY <1>4, <2>1, LookRests DEF ProjectStarted, LookFrame
<1>5. CASE ProjectCompleted \/ EndOfStream
  BY <1>5, LookRests DEF ProjectCompleted, EndOfStream, LookFrame
<1>6. ASSUME NEW p \in Brakers, BrakeStep(p) PROVE LookInv'
  <2>1. UNCHANGED <<call, pending, closed>>
    BY <1>6 DEF BrakeStep, BrakeCut, BrakeAccepted, BrakeRefused, BrakeFails
  <2>2. gate' = "open" \/ (gate' = gate /\ (worker' = worker \/ worker' = "polling"))
    BY <1>6 DEF BrakeStep, BrakeCut, BrakeAccepted, BrakeRefused, BrakeFails, AbortHandoff
  <2>. QED BY <2>1, <2>2 DEF LookInv
<1>. QED
  BY <1>1, <1>2, <1>3, <1>4, <1>5, <1>6, LookDispatch, LookDrain, LookHandoff
     DEF Next, DrainStep, ProviderStep, ProjectStep

\* A drain that reports quiescence has finished everything, unless a dispatch was under
\* way between the loop's two looks (BeginHandoff polls pendingTurnID first and reads the
\* rows after it): that window, which CT_DrainRace.cfg shows, is the only one.
THEOREM DrainIsRight == OneAtATime => (Spec /\ []OneLook => []DrainFinishes)
<1> SUFFICES ASSUME OneAtATime PROVE Spec /\ []OneLook => []DrainFinishes
  OBVIOUS
<1>1. Init => TypeInv /\ TurnInv /\ FlowInv /\ GateInv /\ LookInv
  BY TypeInit, OnceInit, FlowInit DEF Init, GateInv, LookInv, Queued
<1>2. TypeInv /\ TurnInv /\ [Next]_vars => TypeInv' /\ TurnInv'
  BY TypeStep, TurnStep DEF OneAtATime
<1>3. FlowInv /\ GateInv /\ LookInv => DrainFinishes
  BY DEF FlowInv, RowInv, GateInv, LookInv, DrainFinishes, Queued
<1>. QED BY <1>1, <1>2, <1>3, FlowKeeps, GateStep, LookStep, PTL DEF Spec

-----------------------------------------------------------------------------
(* The way of a row                                                        *)

Moves ==
  {<<"none", "queued">>, <<"queued", "running">>, <<"queued", "interrupted">>,
   <<"queued", "failed">>, <<"running", "completed">>, <<"running", "interrupted">>,
   <<"running", "failed">>}

\* While the stream lives a row only moves on: it waits once, runs once and is settled
\* once; a message a stop cancels was never handed to the provider; and a row that runs
\* fails only if AO closes the driver under its dispatch.
RowsMoveOn ==
  ~closed =>
    \A m \in Messages : state'[m] # state[m] =>
      /\ <<state[m], state'[m]>> \in Moves
      /\ state[m] = "queued" /\ state'[m] = "interrupted" => \A i \in 1..Len(given) : given[i] # m
      /\ state[m] = "running" /\ state'[m] = "failed" => shut /\ call.m = m

\* A message that was not sent has no row.  While the stream lives, a message being
\* handed over waits, and the row of the turn the agent is busy with runs.
WayInv ==
  /\ \A m \in Messages : asked[m] = 0 => state[m] = "none"
  /\ \A m \in Messages : state[m] = "none" => asked[m] = 0 /\ boundTo[m] = NoTurn
  /\ ~closed =>
       /\ call.step \in {"calling", "binding"} => state[call.m] = "queued"
       /\ call.step \in {"noting", "starting"} => state[call.m] = "running"
       /\ pending # NoTurn => \A m \in Messages : boundTo[m] = pending => state[m] = "running"

\* A step that touches neither the rows nor the dispatch.
LEMMA WayFrame ==
  ASSUME WayInv, UNCHANGED <<asked, state, boundTo, call, pending>>, closed => closed'
  PROVE  WayInv' /\ RowsMoveOn
BY DEF WayInv, RowsMoveOn

LEMMA WaySend ==
  ASSUME TypeInv, FlowInv, WayInv, NEW n \in Messages, Send(n)
  PROVE  WayInv' /\ RowsMoveOn
<1>1. /\ asked \in [Messages -> 0..Cardinality(Messages)] /\ state \in [Messages -> RowStates]
      /\ asked[n] = 0 /\ asked' = [asked EXCEPT ![n] = Asked + 1] /\ Asked \in Nat
      /\ state' = [state EXCEPT ![n] = "queued"] /\ state[n] = "none" /\ call.step = "none"
      /\ UNCHANGED <<boundTo, pending, closed, given>>
  BY Shapes, AskedType, MessagesAssumption, FS_CardinalityType
     DEF Send, TypeInv, TypeOK, RowsOK, WayInv, Settles
<1>2. call' = call \/ (call'.step = "calling" /\ call'.m = n)
  BY DEF Send, Dispatches
<1>3. RowsMoveOn
  BY <1>1 DEF RowsMoveOn, Moves
<1>4. \A m \in Messages : /\ asked'[m] = 0 => state'[m] = "none"
                         /\ state'[m] = "none" => asked'[m] = 0 /\ boundTo[m] = NoTurn
  BY <1>1 DEF WayInv
<1>5. ~closed /\ pending # NoTurn => \A m \in Messages : boundTo[m] = pending => state'[m] = "running"
  BY <1>1 DEF WayInv
<1>. QED BY <1>1, <1>2, <1>3, <1>4, <1>5 DEF WayInv

LEMMA WayDispatch ==
  ASSUME TypeInv, TurnInv, FlowInv, HandedInv, WayInv, DispatchStep
  PROVE  WayInv' /\ RowsMoveOn
<1>1. /\ state \in [Messages -> RowStates] /\ call.m \in Messages
      /\ boundTo \in [Messages -> Turns \cup {NoTurn}] /\ asked[call.m] > 0
      /\ asked \in [Messages -> Nat]
      /\ call.step \in {"binding", "noting", "starting"} => call.turn = Latest
      /\ call.step \in {"calling", "binding", "noting"} => pending = NoTurn
      /\ UNCHANGED <<asked, closed>>
  <2>1. call.step # "none" /\ UNCHANGED <<asked, closed>>
    BY DEF DispatchStep, SendTurn, SendTurnFails, Bind, NotePending, StartTurn
  <2>2. Cardinality(Messages) \in Nat
    BY MessagesAssumption, FS_CardinalityType
  <2>. QED BY <2>1, <2>2, Shapes DEF TypeInv, TypeOK, RowsOK, HandedInv, FlowInv, CoreInv, CallInv
<1>2. CASE SendTurn
  <2>1. call.step = "calling" /\ call'.step = "binding" /\ call'.m = call.m
        /\ UNCHANGED <<state, boundTo, pending>>
    BY <1>2, Shapes DEF SendTurn
  <2>. QED BY <1>1, <2>1 DEF WayInv, RowsMoveOn
<1>3. CASE SendTurnFails
  <2>1. call.step = "calling" /\ call'.step = "none" /\ state' = [state EXCEPT ![call.m] = "failed"]
        /\ UNCHANGED <<boundTo, pending>>
    BY <1>3 DEF SendTurnFails, Releases, Settles
  <2>. QED BY <1>1, <2>1 DEF WayInv, RowsMoveOn, Moves
<1>4. CASE Bind
  <2>1. call.step = "binding" /\ call' = [call EXCEPT !.step = "noting"]
        /\ state' = [state EXCEPT ![call.m] = "running"] /\ pending' = pending
        /\ boundTo' = [boundTo EXCEPT ![call.m] = call.turn]
    BY <1>4 DEF Bind, TurnInv, Settles
  <2>2. call'.step = "noting" /\ call'.m = call.m
    BY <2>1, Shapes
  <2>3. RowsMoveOn
    BY <1>1, <2>1 DEF WayInv, RowsMoveOn, Moves
  <2>4. \A m \in Messages : m # call.m => state'[m] = state[m] /\ boundTo'[m] = boundTo[m]
    BY <1>1, <2>1
  <2>5. state'[call.m] = "running"
    BY <1>1, <2>1
  <2>. QED BY <1>1, <2>1, <2>2, <2>3, <2>4, <2>5 DEF WayInv
<1>5. CASE NotePending
  <2>1. call.step = "noting" /\ pending' = Latest /\ UNCHANGED <<state, boundTo>>
    BY <1>1, <1>5 DEF NotePending
  <2>2. call'.step = "none" \/ (call'.step = "starting" /\ call'.m = call.m)
    BY <1>5, Shapes DEF NotePending, Releases
  <2>3. \A m \in Messages : boundTo[m] = Latest => m = call.m
    BY <2>1 DEF FlowInv, RowInv
  <2>. QED BY <1>1, <2>1, <2>2, <2>3 DEF WayInv, RowsMoveOn
<1>6. CASE StartTurn
  <2>1. call'.step = "none" /\ boundTo' = boundTo
    BY <1>6 DEF StartTurn, Releases
  <2>2. CASE shut
    <3>1. \A m \in Messages : state'[m] = state[m] \/ (m = call.m /\ state'[m] = "failed")
      BY <1>1, <1>6, <2>2 DEF StartTurn, Settles
    <3>2. pending' = NoTurn /\ call.step = "starting"
      BY <1>6, <2>2 DEF StartTurn
    <3>3. ~closed => state[call.m] = "running"
      BY <3>2 DEF WayInv
    <3>4. RowsMoveOn
      BY <1>1, <2>2, <3>1, <3>3 DEF RowsMoveOn, Moves
    <3>. QED BY <1>1, <2>1, <3>1, <3>2, <3>4 DEF WayInv
  <2>3. CASE ~shut
    BY <1>1, <1>6, <2>1, <2>3 DEF StartTurn, WayInv, RowsMoveOn
  <2>. QED BY <2>2, <2>3
<1>. QED BY <1>2, <1>3, <1>4, <1>5, <1>6 DEF DispatchStep

\* What a drain sweeps was not handed over, for only a message that is being bound both
\* waits and was.
LEMMA WayDrain ==
  ASSUME TypeInv, HandedInv, WayInv, NEW who, Drain(who)
  PROVE  WayInv' /\ RowsMoveOn
<1> DEFINE swept == [m \in Messages |-> IF state[m] = "queued" /\ asked[m] <= cutoff
                                        THEN "interrupted" ELSE state[m]]
<1>1. call.step = "none" /\ UNCHANGED <<asked, given, pending, closed, boundTo>>
  BY DrainDoes DEF Drain
<1>2. state' = state \/ state' = swept
  BY DEF Drain
<1>3. \A m \in Messages : state'[m] = state[m] \/ (state[m] = "queued" /\ state'[m] = "interrupted")
  BY <1>2
<1>4. call' = call \/ (call'.step = "calling" /\ state'[call'.m] = "queued")
  BY DEF Drain, Dispatches
<1>5. \A m \in Messages : state[m] = "queued" => \A i \in 1..Len(given) : given[i] # m
  BY <1>1 DEF HandedInv
<1>6. RowsMoveOn
  BY <1>3, <1>5 DEF RowsMoveOn, Moves
<1>. QED BY <1>1, <1>3, <1>4, <1>6 DEF WayInv

LEMMA WayProject ==
  ASSUME TypeInv, FlowInv, WayInv, ProjectStep
  PROVE  WayInv' /\ RowsMoveOn
<1>1. CASE ProjectStarted
  <2>1. pending' = pending
    BY <1>1, EventArrives DEF ProjectStarted, FlowInv
  <2>. QED BY <1>1, <2>1, WayFrame DEF ProjectStarted
<1>2. CASE ProjectCompleted
  <2>1. /\ events # <<>> /\ Head(events) \in Events /\ Head(events).kind # "started"
    BY <1>2, EventsType DEF ProjectCompleted, TypeInv, TypeOK
  <2>2. Head(events).turn = Latest /\ pending = Latest /\ Latest # NoTurn /\ call.step = "none"
    BY <2>1, EventArrives DEF FlowInv
  <2>3. /\ pending' = NoTurn /\ UNCHANGED <<asked, closed, call, boundTo>>
        /\ state' = [m \in Messages |-> IF boundTo[m] = Latest THEN Head(events).kind ELSE state[m]]
    BY <1>2, <2>2 DEF ProjectCompleted
  <2>4. Head(events).kind \in {"completed", "interrupted"}
    BY <2>1 DEF Events
  <2>5. RowsMoveOn
    BY <2>2, <2>3, <2>4 DEF RowsMoveOn, Moves, WayInv
  <2>6. \A m \in Messages : boundTo[m] = Latest => state[m] # "none"
    BY <2>2 DEF WayInv
  <2>7. \A m \in Messages : state'[m] = "none" <=> state[m] = "none"
    BY <2>3, <2>4, <2>6
  <2>. QED BY <2>2, <2>3, <2>5, <2>7 DEF WayInv
<1>3. CASE EndOfStream
  BY <1>3 DEF EndOfStream, WayInv, RowsMoveOn
<1>. QED BY <1>1, <1>2, <1>3 DEF ProjectStep

LEMMA WayStep ==
  /\ TypeInv /\ TurnInv /\ HandedInv /\ FlowInv /\ WayInv /\ [Next]_vars
  => WayInv' /\ (RowsMoveOn \/ UNCHANGED vars)
<1> SUFFICES ASSUME TypeInv, TurnInv, HandedInv, FlowInv, WayInv, [Next]_vars
             PROVE  WayInv' /\ (RowsMoveOn \/ UNCHANGED vars)
  OBVIOUS
<1>1. ASSUME NEW t \in Turns, Announce(t) \/ Complete(t) PROVE WayInv' /\ RowsMoveOn
  BY <1>1, WayFrame DEF Announce, Complete
<1>2. CASE ClearActive \/ Shut \/ Close \/ BrakeRead \/ BrakeReadWorker \/ PollStep
           \/ CancelHandoff
  BY <1>2, WayFrame DEF ClearActive, Shut, Close, BrakeRead, BrakeReadWorker, PollStep, PollBusy,
                        PollQueue, PollStopped, CancelHandoff
<1>3. ASSUME NEW p \in Brakers, BrakeStep(p) PROVE WayInv' /\ RowsMoveOn
  BY <1>3, WayFrame DEF BrakeStep, BrakeCut, BrakeAccepted, BrakeRefused, BrakeFails
<1>4. ASSUME NEW policy \in {"drain", "interrupt"}, BeginHandoff(policy) PROVE WayInv' /\ RowsMoveOn
  BY <1>4, WayFrame DEF BeginHandoff
<1>5. CASE UNCHANGED vars
  BY <1>5, WayFrame DEF vars
<1>. QED
  BY <1>1, <1>2, <1>3, <1>4, <1>5, WaySend, WayDispatch, WayDrain, WayProject
     DEF Next, DrainStep, ProviderStep

\* A row's verdict stands: no late event, second dispatch, drain or stop settles it again or
\* opens it again while the stream lives, and no sent message is swept as if it had waited.
THEOREM RowsOnlyMoveOn == OneAtATime => (Spec => [][RowsMoveOn]_vars)
<1> SUFFICES ASSUME OneAtATime PROVE Spec => [][RowsMoveOn]_vars
  OBVIOUS
<1>1. Init => TypeInv /\ TurnInv /\ HandedInv /\ FlowInv /\ WayInv
  BY TypeInit, OnceInit, FlowInit DEF Init, WayInv
<1>2. TypeInv /\ TurnInv /\ HandedInv /\ [Next]_vars => TypeInv' /\ TurnInv' /\ HandedInv'
  BY TypeStep, TurnStep, HandedStep DEF OneAtATime
<1>. QED BY <1>1, <1>2, FlowKeeps, WayStep, PTL DEF Spec
=============================================================================
