--------------------------- MODULE ChatTurnsProofs ---------------------------
(***************************************************************************)
(* Safety of ChatTurns for every finite set of messages, every bound and,   *)
(* where a theorem does not restrict it, every environment and driver.     *)
(*                                                                         *)
(* In order: the types; a message is handed over at most once; a row is    *)
(* bound to the turn of its own message; a stop holds if stops do not      *)
(* overlap and no drain comes late enough to drop its cutoff.              *)
(***************************************************************************)
EXTENDS ChatTurns, FiniteSetTheorems, SequenceTheorems, TLAPS

USE DEF rows, memory, sendMu, goroutines, provider, Turns, NoTurn, NoCall, NoBrake, Brakers,
        RowStates, Lives

-----------------------------------------------------------------------------
(* Counting messages                                                       *)

LEMMA AskedType == Asked \in 0..Cardinality(Messages)
<1> DEFINE S == {m \in Messages : asked[m] > 0}
<1>1. IsFiniteSet(Messages) /\ S \subseteq Messages
  BY MessagesAssumption
<1>2. Cardinality(S) <= Cardinality(Messages) /\ IsFiniteSet(S)
  BY <1>1, FS_Subset
<1>3. Cardinality(S) \in Nat /\ Cardinality(Messages) \in Nat
  BY <1>1, <1>2, FS_CardinalityType
<1>4. QED
  BY <1>2, <1>3 DEF Asked

\* A message that was not asked yet leaves room for one more number.
LEMMA AskedRoom ==
  ASSUME NEW m \in Messages, RowsOK, asked[m] = 0
  PROVE  Asked + 1 \in 0..Cardinality(Messages)
<1> DEFINE S == {n \in Messages : asked[n] > 0}
           R == Messages \ {m}
<1>1. IsFiniteSet(Messages) /\ S \subseteq R
  BY MessagesAssumption DEF RowsOK
<1>2. IsFiniteSet(R) /\ Cardinality(R) = Cardinality(Messages) - 1
  BY <1>1, FS_RemoveElement
<1>3. IsFiniteSet(S) /\ Cardinality(S) <= Cardinality(R)
  BY <1>1, <1>2, FS_Subset
<1>4. Cardinality(S) \in Nat /\ Cardinality(Messages) \in Nat
  BY <1>1, <1>3, FS_CardinalityType
<1>5. QED
  BY <1>2, <1>3, <1>4 DEF Asked

-----------------------------------------------------------------------------
(* Type correctness                                                        *)

\* A dispatch under way names a message, and past SendTurn a turn; a stop under way
\* names a turn.
CallOK ==
  /\ call.step # "none" => call.m \in Messages
  /\ call.step \in {"binding", "noting", "starting"} => call.turn \in Turns

\* A drain that an aborted handoff left behind is counted until it is over, and
\* only an idle worker lets another handoff begin.
ReopensOK ==
  /\ worker # "idle" => reopens < MaxReopens
  /\ holder = "reopener" => reopens > 0
  /\ holder = "worker" => worker = "draining"
  /\ brake["worker"].pc # "idle" => worker = "braking"

StopOK == \A p \in Brakers : brake[p].pc # "idle" => brake[p].turn \in Turns

TypeInv == TypeOK /\ CallOK /\ ReopensOK /\ StopOK

LEMMA TypeInit == Init => TypeInv
<1> SUFFICES ASSUME Init PROVE TypeInv
  OBVIOUS
<1>0. Cardinality(Messages) \in Nat
  BY MessagesAssumption, FS_CardinalityType
<1>1. RowsOK /\ MemoryOK
  BY <1>0 DEF Init, RowsOK, MemoryOK
<1>2. SendMuOK /\ GoroutinesOK
  BY BoundAssumption DEF Init, SendMuOK, GoroutinesOK
<1>3. BrakesOK
  BY DEF Init, BrakesOK
<1>4. given \in Seq(Messages) /\ Len(given) = 0 /\ events \in Seq(Events)
  BY EmptySeq DEF Init
<1>5. ProviderOK
  <2>1. Len(given) <= MaxTurns
    BY <1>4, BoundAssumption
  <2>2. /\ driver \in Drivers /\ life \in [Turns -> Lives] /\ active \in Turns \cup {NoTurn}
        /\ cut \subseteq Turns /\ closed \in BOOLEAN /\ shut \in BOOLEAN
    BY DEF Init
  <2>3. QED
    BY <1>4, <2>1, <2>2 DEF ProviderOK
<1>6. CallOK /\ ReopensOK /\ StopOK
  BY DEF Init, CallOK, ReopensOK, StopOK
<1>7. QED
  BY <1>1, <1>2, <1>3, <1>5, <1>6 DEF TypeInv, TypeOK

\* Appending to what the provider was given, or to the events, keeps their types.
LEMMA GivenType ==
  ASSUME NEW m \in Messages, ProviderOK, Len(given) < MaxTurns
  PROVE  /\ Append(given, m) \in Seq(Messages)
         /\ Len(Append(given, m)) = Len(given) + 1
         /\ Len(given) + 1 \in Turns
<1>1. given \in Seq(Messages) /\ Len(given) \in Nat
  BY LenProperties DEF ProviderOK
<1>2. Append(given, m) \in Seq(Messages) /\ Len(Append(given, m)) = Len(given) + 1
  BY <1>1, AppendProperties
<1>3. QED
  BY <1>1, <1>2, BoundAssumption

LEMMA EventsType ==
  ASSUME ProviderOK
  PROVE  /\ \A e \in Events : Append(events, e) \in Seq(Events)
         /\ events # <<>> => Head(events) \in Events /\ Tail(events) \in Seq(Events)
<1>1. events \in Seq(Events)
  BY DEF ProviderOK
<1>2. \A e \in Events : Append(events, e) \in Seq(Events)
  BY <1>1, AppendProperties
<1>3. QED
  BY <1>1, <1>2, HeadTailProperties

\* What a step leaves alone stays well typed.
LEMMA Stays ==
  ASSUME TypeInv
  PROVE  /\ UNCHANGED rows => RowsOK'
         /\ UNCHANGED memory => MemoryOK'
         /\ UNCHANGED sendMu => SendMuOK' /\ CallOK'
         /\ UNCHANGED goroutines => GoroutinesOK'
         /\ UNCHANGED <<brake, halted>> => BrakesOK'
         /\ UNCHANGED brake => StopOK'
         /\ UNCHANGED <<provider, driver>> => ProviderOK'
         /\ UNCHANGED <<goroutines, holder, brake>> => ReopensOK'
<1>1. UNCHANGED rows => RowsOK'
  BY DEF TypeInv, TypeOK, RowsOK
<1>2. UNCHANGED memory => MemoryOK'
  BY DEF TypeInv, TypeOK, MemoryOK
<1>3. UNCHANGED sendMu => SendMuOK' /\ CallOK'
  BY DEF TypeInv, TypeOK, SendMuOK, CallOK
<1>4. UNCHANGED goroutines => GoroutinesOK'
  BY DEF TypeInv, TypeOK, GoroutinesOK
<1>5. UNCHANGED <<brake, halted>> => BrakesOK'
  BY DEF TypeInv, TypeOK, BrakesOK
<1>6. UNCHANGED <<provider, driver>> => ProviderOK'
  BY DEF TypeInv, TypeOK, ProviderOK
<1>7. UNCHANGED <<goroutines, holder, brake>> => ReopensOK'
  BY DEF TypeInv, ReopensOK
<1>8. UNCHANGED brake => StopOK'
  BY DEF TypeInv, StopOK
<1>9. QED
  BY <1>1, <1>2, <1>3, <1>4, <1>5, <1>6, <1>7, <1>8

\* Handing a message to the provider keeps sendMu well typed.
LEMMA DispatchesType ==
  ASSUME NEW who \in {"sender", "projector", "worker", "reopener"}, NEW m \in Messages,
         Dispatches(who, m)
  PROVE  SendMuOK' /\ CallOK'
BY DEF Dispatches, SendMuOK, CallOK

\* So does the end of a dispatch, which may end the drain of its goroutine.
LEMMA ReleasesType ==
  ASSUME TypeInv, Releases, UNCHANGED brake
  PROVE  SendMuOK' /\ CallOK' /\ GoroutinesOK' /\ ReopensOK'
<1>1. SendMuOK' /\ CallOK'
  BY DEF Releases, SendMuOK, CallOK
<1>2. GoroutinesOK'
  BY BoundAssumption
     DEF TypeInv, TypeOK, GoroutinesOK, ReopensOK, Releases, Returned
<1>3. ReopensOK'
  BY BoundAssumption
     DEF TypeInv, TypeOK, GoroutinesOK, BrakesOK, ReopensOK, Releases, Returned
<1>4. QED
  BY <1>1, <1>2, <1>3

\* A drain that dispatches nothing.
LEMMA ReturnedType ==
  ASSUME TypeInv, NEW who, Waits(who), holder = "none", Returned(who), UNCHANGED <<holder, brake>>
  PROVE  GoroutinesOK' /\ ReopensOK'
<1>1. GoroutinesOK'
  BY BoundAssumption DEF TypeInv, TypeOK, GoroutinesOK, Waits, Returned
<1>2. ReopensOK'
  BY BoundAssumption
     DEF TypeInv, TypeOK, GoroutinesOK, BrakesOK, ReopensOK, Waits, Returned
<1>3. QED
  BY <1>1, <1>2

\* Setting the state of one row keeps the rows well typed.
LEMMA SettlesType ==
  ASSUME RowsOK, NEW m, NEW how \in RowStates, Settles(m, how),
         UNCHANGED <<asked, boundTo, adopted, late>>
  PROVE  RowsOK'
BY DEF RowsOK, Settles

-----------------------------------------------------------------------------
(* Every step keeps the types: sending and dispatching                     *)

LEMMA SendType == ASSUME TypeInv, NEW m \in Messages, Send(m) PROVE TypeInv'
<1>1. RowsOK /\ asked[m] = 0
  BY DEF TypeInv, TypeOK, Send
<1>2. RowsOK'
  <2>1. Asked + 1 \in 0..Cardinality(Messages)
    BY <1>1, AskedRoom
  <2>2. QED
    BY <1>1, <2>1 DEF RowsOK, Send, Settles
<1>3. SendMuOK' /\ CallOK'
  BY DispatchesType, Stays DEF Send
<1>4. ReopensOK'
  BY DEF TypeInv, ReopensOK, Send, Dispatches
<1>5. QED
  BY <1>2, <1>3, <1>4, Stays DEF Send, TypeInv, TypeOK

LEMMA SendTurnType == ASSUME TypeInv, SendTurn PROVE TypeInv'
<1>1. call.m \in Messages /\ ProviderOK /\ SendMuOK
  BY DEF TypeInv, TypeOK, CallOK, SendTurn
<1>2. /\ Append(given, call.m) \in Seq(Messages)
      /\ Len(Append(given, call.m)) <= MaxTurns /\ Len(given) + 1 \in Turns
  BY <1>1, GivenType DEF SendTurn
<1>3. ProviderOK'
  BY <1>1, <1>2 DEF SendTurn, ProviderOK
<1>4. SendMuOK' /\ CallOK'
  <2>1. call' = [step |-> "binding", m |-> call.m, turn |-> Len(given) + 1]
    BY <1>1 DEF SendTurn, SendMuOK
  <2>2. holder # "none" /\ holder' = holder
    BY <1>1 DEF SendTurn, SendMuOK
  <2>3. QED
    BY <1>1, <1>2, <2>1, <2>2 DEF SendMuOK, CallOK
<1>5. QED
  BY <1>3, <1>4, Stays DEF SendTurn, TypeInv, TypeOK

LEMMA SendTurnFailsType == ASSUME TypeInv, SendTurnFails PROVE TypeInv'
<1>1. call.m \in Messages /\ ProviderOK /\ RowsOK
  BY DEF TypeInv, TypeOK, CallOK, SendTurnFails
<1>2. RowsOK'
  BY <1>1, SettlesType DEF SendTurnFails
<1>3. ProviderOK'
  <2>1. CASE UNCHANGED <<given, life>>
    BY <1>1, <2>1 DEF SendTurnFails, ProviderOK
  <2>2. CASE /\ Len(given) < MaxTurns /\ given' = Append(given, call.m)
             /\ life' = [life EXCEPT ![Len(given) + 1] = "accepted"]
    <3>1. Append(given, call.m) \in Seq(Messages) /\ Len(Append(given, call.m)) = Len(given) + 1
      BY <1>1, <2>2, GivenType
    <3>2. life' \in [Turns -> Lives] /\ given' \in Seq(Messages) /\ Len(given') <= MaxTurns
      BY <1>1, <2>2, <3>1, LenProperties, BoundAssumption DEF ProviderOK
    <3>3. UNCHANGED <<active, cut, events, closed, shut, driver>>
      BY DEF SendTurnFails
    <3>. QED BY <1>1, <3>2, <3>3 DEF ProviderOK
  <2>3. QED
    BY <2>1, <2>2 DEF SendTurnFails
<1>4. SendMuOK' /\ CallOK' /\ GoroutinesOK' /\ ReopensOK'
  BY ReleasesType DEF SendTurnFails
<1>5. QED
  BY <1>2, <1>3, <1>4, Stays DEF SendTurnFails, TypeInv, TypeOK

LEMMA BindType == ASSUME TypeInv, Bind PROVE TypeInv'
<1>1. call.m \in Messages /\ call.turn \in Turns /\ ProviderOK /\ RowsOK /\ SendMuOK
  BY DEF TypeInv, TypeOK, CallOK, Bind
<1>2. RowsOK'
  BY <1>1 DEF Bind, RowsOK, Settles
<1>3. ProviderOK'
  BY <1>1 DEF Bind, ProviderOK
<1>4. SendMuOK' /\ CallOK' /\ GoroutinesOK' /\ ReopensOK'
  <2>1. CASE call.turn \in adopted
    BY <2>1, ReleasesType DEF Bind
  <2>2. CASE call.turn \notin adopted
    <3>1. SendMuOK' /\ CallOK'
      BY <1>1, <2>2 DEF Bind, SendMuOK, CallOK
    <3>2. QED
      BY <2>2, <3>1, Stays DEF Bind
  <2>3. QED
    BY <2>1, <2>2
<1>5. QED
  BY <1>2, <1>3, <1>4, Stays DEF Bind, TypeInv, TypeOK

LEMMA NotePendingType == ASSUME TypeInv, NotePending PROVE TypeInv'
<1>1. call.m \in Messages /\ call.turn \in Turns /\ MemoryOK /\ SendMuOK
  BY DEF TypeInv, TypeOK, CallOK, NotePending
<1>2. MemoryOK'
  BY <1>1 DEF NotePending, MemoryOK
<1>3. SendMuOK' /\ CallOK' /\ GoroutinesOK' /\ ReopensOK'
  <2>1. CASE driver = "acp"
    <3>1. SendMuOK' /\ CallOK'
      BY <1>1, <2>1 DEF NotePending, SendMuOK, CallOK
    <3>2. QED
      BY <2>1, <3>1, Stays DEF NotePending
  <2>2. CASE driver # "acp"
    BY <2>2, ReleasesType DEF NotePending
  <2>3. QED
    BY <2>1, <2>2
<1>4. QED
  BY <1>2, <1>3, Stays DEF NotePending, TypeInv, TypeOK

LEMMA StartTurnType == ASSUME TypeInv, StartTurn PROVE TypeInv'
<1>1. call.m \in Messages /\ call.turn \in Turns /\ MemoryOK /\ ProviderOK /\ RowsOK
  BY DEF TypeInv, TypeOK, CallOK, StartTurn
<1>2. RowsOK'
  BY <1>1 DEF StartTurn, RowsOK, Settles
<1>3. MemoryOK'
  BY <1>1 DEF StartTurn, MemoryOK
<1>4. ProviderOK'
  <2>1. Append(events, [kind |-> "started", turn |-> call.turn]) \in Seq(Events)
    BY <1>1, EventsType DEF Events
  <2>2. QED
    BY <1>1, <2>1 DEF StartTurn, ProviderOK
<1>5. SendMuOK' /\ CallOK' /\ GoroutinesOK' /\ ReopensOK'
  BY ReleasesType DEF StartTurn
<1>6. QED
  BY <1>2, <1>3, <1>4, <1>5, Stays DEF StartTurn, TypeInv, TypeOK

LEMMA DrainType ==
  ASSUME TypeInv, NEW who \in {"projector", "worker", "reopener"}, Drain(who)
  PROVE  TypeInv'
<1>0. TypeOK /\ 0 \in 0..Cardinality(Messages)
  BY MessagesAssumption, FS_CardinalityType DEF TypeInv
<1>1. RowsOK'
  BY <1>0 DEF TypeOK, RowsOK, Drain
<1>2. MemoryOK'
  BY <1>0 DEF TypeOK, MemoryOK, Drain
<1>3. SendMuOK' /\ CallOK' /\ GoroutinesOK' /\ ReopensOK'
  <2>1. CASE Returned(who) /\ UNCHANGED sendMu
    BY <2>1, ReturnedType, Stays DEF Drain
  <2>2. CASE (\E m \in Messages : Dispatches(who, m)) /\ UNCHANGED goroutines
    <3>1. SendMuOK' /\ CallOK'
      BY <2>2, DispatchesType
    <3>2. ReopensOK'
      BY <2>2 DEF TypeInv, ReopensOK, Dispatches, Drain, Waits
    <3>3. QED
      BY <2>2, <3>1, <3>2, Stays
  <2>3. QED
    BY <2>1, <2>2 DEF Drain
<1>4. QED
  BY <1>1, <1>2, <1>3, Stays DEF Drain, TypeInv, TypeOK

-----------------------------------------------------------------------------
(* The provider, the projection goroutine, stops and the handoff           *)

LEMMA ProviderType == ASSUME TypeInv, ProviderStep \/ Shut \/ Close PROVE TypeInv'
<1>1. ProviderOK
  BY DEF TypeInv, TypeOK
<1>2. ASSUME NEW t \in Turns, Announce(t) PROVE TypeInv'
  <2>1. Append(events, [kind |-> "started", turn |-> t]) \in Seq(Events)
    BY <1>1, EventsType DEF Events
  <2>2. ProviderOK'
    BY <1>1, <1>2, <2>1 DEF Announce, Emits, ProviderOK
  <2>3. QED
    BY <1>2, <2>2, Stays DEF Announce, TypeInv, TypeOK
<1>3. ASSUME NEW t \in Turns, Complete(t) PROVE TypeInv'
  <2>1. \A k \in {"interrupted", "completed"} :
          Append(events, [kind |-> k, turn |-> t]) \in Seq(Events)
    BY <1>1, EventsType DEF Events
  <2>2. ProviderOK'
    BY <1>1, <1>3, <2>1 DEF Complete, Emits, ProviderOK
  <2>3. QED
    BY <1>3, <2>2, Stays DEF Complete, TypeInv, TypeOK
<1>4. CASE ClearActive
  <2>1. ProviderOK'
    BY <1>1, <1>4 DEF ClearActive, ProviderOK
  <2>2. QED
    BY <1>4, <2>1, Stays DEF ClearActive, TypeInv, TypeOK
<1>5. CASE Close
  <2>1. ProviderOK'
    BY <1>1, <1>5 DEF Close, ProviderOK
  <2>2. QED
    BY <1>5, <2>1, Stays DEF Close, TypeInv, TypeOK
<1>6. CASE Shut
  <2>1. ProviderOK'
    BY <1>1, <1>6 DEF Shut, ProviderOK
  <2>2. QED
    BY <1>6, <2>1, Stays DEF Shut, TypeInv, TypeOK
<1>7. QED
  BY <1>2, <1>3, <1>4, <1>5, <1>6 DEF ProviderStep

LEMMA ProjectType == ASSUME TypeInv, ProjectStep PROVE TypeInv'
<1>1. RowsOK /\ MemoryOK /\ GoroutinesOK /\ ProviderOK
  BY DEF TypeInv, TypeOK
<1>2. events # <<>> => Head(events) \in Events /\ Tail(events) \in Seq(Events)
  BY <1>1, EventsType
<1>3. CASE ProjectStarted
  <2>1. Head(events).turn \in Turns /\ Tail(events) \in Seq(Events)
    BY <1>2, <1>3 DEF ProjectStarted, Events
  <2>2. RowsOK' /\ MemoryOK'
    BY <1>1, <1>3, <2>1 DEF ProjectStarted, RowsOK, MemoryOK
  <2>3. ProviderOK'
    BY <1>1, <1>3, <2>1 DEF ProjectStarted, ProviderOK
  <2>4. QED
    BY <1>3, <2>2, <2>3, Stays DEF ProjectStarted, TypeInv, TypeOK
<1>4. CASE ProjectCompleted
  <2>1. /\ Head(events).turn \in Turns /\ Tail(events) \in Seq(Events)
        /\ Head(events).kind \in {"completed", "interrupted"}
    BY <1>2, <1>4 DEF ProjectCompleted, Events
  <2>2. RowsOK' /\ MemoryOK'
    BY <1>1, <1>4, <2>1 DEF ProjectCompleted, RowsOK, MemoryOK
  <2>3. ProviderOK'
    BY <1>1, <1>4, <2>1 DEF ProjectCompleted, ProviderOK
  <2>4. GoroutinesOK' /\ ReopensOK'
    BY <1>1, <1>4 DEF ProjectCompleted, GoroutinesOK, TypeInv, ReopensOK
  <2>5. QED
    BY <1>4, <2>2, <2>3, <2>4, Stays DEF ProjectCompleted, TypeInv, TypeOK
<1>5. CASE EndOfStream
  <2>1. RowsOK'
    BY <1>1, <1>5 DEF EndOfStream, RowsOK
  <2>2. GoroutinesOK' /\ ReopensOK'
    BY <1>1, <1>5 DEF EndOfStream, GoroutinesOK, TypeInv, ReopensOK
  <2>3. QED
    BY <1>5, <2>1, <2>2, Stays DEF EndOfStream, TypeInv, TypeOK
<1>6. QED
  BY <1>3, <1>4, <1>5 DEF ProjectStep

\* A stop that returns, and the worker whose own stop it was.
LEMMA BrakeReturnsType ==
  ASSUME TypeInv, NEW p \in Brakers, BrakeReturns(p),
         halted' \subseteq Messages
  PROVE  BrakesOK' /\ StopOK'
<1>1. BrakesOK'
  BY DEF TypeInv, TypeOK, BrakesOK, BrakeReturns
<1>2. StopOK'
  BY DEF TypeInv, TypeOK, BrakesOK, StopOK, BrakeReturns
<1>3. QED
  BY <1>1, <1>2

\* Whose stop it was: the worker waits for its own.
LEMMA BrakeOwner ==
  ASSUME TypeInv, NEW p \in Brakers, brake[p].pc # "idle", BrakeReturns(p)
  PROVE  /\ p = "user" => brake'["worker"] = brake["worker"]
         /\ p = "worker" => /\ worker = "braking" /\ holder # "worker"
                            /\ brake'["worker"].pc = "idle" /\ reopens < MaxReopens
<1>1. CASE p = "user"
  BY <1>1 DEF TypeInv, TypeOK, BrakesOK, BrakeReturns
<1>2. CASE p = "worker"
  <2>1. brake'["worker"] = NoBrake
    BY <1>2 DEF TypeInv, TypeOK, BrakesOK, BrakeReturns
  <2>2. worker = "braking"
    BY <1>2 DEF TypeInv, ReopensOK
  <2>3. QED
    BY <1>2, <2>1, <2>2 DEF TypeInv, ReopensOK
<1>3. QED
  BY <1>1, <1>2

LEMMA BrakeEnds ==
  ASSUME TypeInv, NEW p \in Brakers, brake[p].pc # "idle", BrakeReturns(p),
         UNCHANGED <<projector, reopens, holder>>,
         worker' = (IF p = "worker" THEN "polling" ELSE worker)
  PROVE  GoroutinesOK' /\ ReopensOK'
<1>1. GoroutinesOK'
  BY DEF TypeInv, TypeOK, GoroutinesOK
<1>2. ReopensOK'
  BY BrakeOwner DEF TypeInv, ReopensOK
<1>3. QED
  BY <1>1, <1>2

LEMMA BrakeType ==
  ASSUME TypeInv,
         BrakeRead \/ BrakeReadWorker \/ \E p \in Brakers : BrakeStep(p)
  PROVE  TypeInv'
<1>1. MemoryOK /\ GoroutinesOK /\ BrakesOK /\ ProviderOK /\ StopOK
  BY DEF TypeInv, TypeOK
<1>0. 0 \in 0..Cardinality(Messages)
  BY MessagesAssumption, FS_CardinalityType
<1>2. CASE BrakeRead
  <2>1. BrakesOK' /\ ReopensOK' /\ StopOK'
    BY <1>1, <1>2 DEF BrakeRead, BrakesOK, MemoryOK, TypeInv, ReopensOK, StopOK
  <2>2. QED
    BY <1>2, <2>1, Stays DEF BrakeRead, TypeInv, TypeOK
<1>3. CASE BrakeReadWorker
  <2>1. BrakesOK' /\ StopOK'
    BY <1>1, <1>3 DEF BrakeReadWorker, BrakesOK, MemoryOK, StopOK
  <2>2. GoroutinesOK' /\ ReopensOK'
    BY <1>1, <1>3 DEF BrakeReadWorker, GoroutinesOK, BrakesOK, TypeInv, ReopensOK
  <2>3. QED
    BY <1>3, <2>1, <2>2, Stays DEF BrakeReadWorker, TypeInv, TypeOK
<1>4. ASSUME NEW p \in Brakers, BrakeCut(p) PROVE TypeInv'
  <2>1. MemoryOK'
    BY <1>1, <1>4, AskedType DEF BrakeCut, MemoryOK
  <2>2. BrakesOK' /\ ReopensOK' /\ StopOK'
    BY <1>1, <1>4 DEF BrakeCut, BrakesOK, Queued, TypeInv, ReopensOK, StopOK
  <2>3. QED
    BY <1>4, <2>1, <2>2, Stays DEF BrakeCut, TypeInv, TypeOK
<1>5. ASSUME NEW p \in Brakers, BrakeAccepted(p) PROVE TypeInv'
  <2>1. brake[p].turn \in Turns /\ brake[p].behind \subseteq Messages
    BY <1>1, <1>5 DEF BrakesOK, StopOK, BrakeAccepted
  <2>2. BrakesOK' /\ StopOK'
    BY <1>1, <1>5, <2>1, BrakeReturnsType DEF BrakeAccepted, BrakesOK
  <2>3. GoroutinesOK' /\ ReopensOK'
    BY <1>5, BrakeEnds DEF BrakeAccepted
  <2>4. ProviderOK'
    BY <1>1, <1>5, <2>1 DEF BrakeAccepted, ProviderOK
  <2>5. QED
    BY <1>5, <2>2, <2>3, <2>4, Stays DEF BrakeAccepted, TypeInv, TypeOK
<1>6. ASSUME NEW p \in Brakers, BrakeRefused(p) PROVE TypeInv'
  <2>1. MemoryOK'
    BY <1>0, <1>1, <1>6 DEF BrakeRefused, MemoryOK
  <2>2. BrakesOK' /\ StopOK'
    BY <1>6, BrakeReturnsType DEF BrakeRefused
  <2>3. GoroutinesOK' /\ ReopensOK'
    BY <1>6, BrakeEnds DEF BrakeRefused
  <2>4. QED
    BY <1>6, <2>1, <2>2, <2>3, Stays DEF BrakeRefused, TypeInv, TypeOK
<1>7. ASSUME NEW p \in Brakers, BrakeFails(p) PROVE TypeInv'
  <2>1. MemoryOK'
    BY <1>0, <1>1, <1>7 DEF BrakeFails, AbortHandoff, MemoryOK
  <2>2. BrakesOK' /\ StopOK'
    BY <1>7, BrakeReturnsType DEF BrakeFails
  <2>3. GoroutinesOK' /\ ReopensOK'
    <3>1. brake[p].pc # "idle" /\ BrakeReturns(p)
      BY <1>7 DEF BrakeFails
    <3>2. CASE p = "user"
      BY <1>7, <3>1, <3>2, BrakeEnds DEF BrakeFails
    <3>3. CASE p = "worker"
      <4>1. GoroutinesOK'
        BY <1>1, <1>7, <3>1, <3>3, BrakeOwner, BoundAssumption
           DEF BrakeFails, AbortHandoff, GoroutinesOK
      <4>2. ReopensOK'
        BY <1>1, <1>7, <3>1, <3>3, BrakeOwner, BoundAssumption
           DEF BrakeFails, AbortHandoff, GoroutinesOK, TypeInv, ReopensOK
      <4>3. QED
        BY <4>1, <4>2
    <3>4. QED
      BY <3>2, <3>3
  <2>4. QED
    BY <1>7, <2>1, <2>2, <2>3, Stays DEF BrakeFails, TypeInv, TypeOK
<1>8. QED
  BY <1>2, <1>3, <1>4, <1>5, <1>6, <1>7 DEF BrakeStep

LEMMA HandoffType ==
  ASSUME TypeInv,
         (\E policy \in {"drain", "interrupt"} : BeginHandoff(policy))
           \/ PollStep \/ CancelHandoff
  PROVE  TypeInv'
<1>1. MemoryOK /\ GoroutinesOK /\ BrakesOK /\ ReopensOK
  BY DEF TypeInv, TypeOK
<1>2. ASSUME NEW policy \in {"drain", "interrupt"}, BeginHandoff(policy) PROVE TypeInv'
  <2>1. MemoryOK'
    BY <1>1, <1>2, AskedType DEF BeginHandoff, MemoryOK
  <2>2. GoroutinesOK' /\ ReopensOK'
    BY <1>1, <1>2 DEF BeginHandoff, GoroutinesOK, BrakesOK, ReopensOK
  <2>3. QED
    BY <1>2, <2>1, <2>2, Stays DEF BeginHandoff, TypeInv, TypeOK
<1>3. CASE PollStep
  <2>1. GoroutinesOK' /\ ReopensOK'
    BY <1>1, <1>3
       DEF PollStep, PollBusy, PollQueue, PollStopped, GoroutinesOK, BrakesOK, ReopensOK
  <2>2. QED
    BY <1>3, <2>1, Stays
       DEF PollStep, PollBusy, PollQueue, PollStopped, TypeInv, TypeOK
<1>4. CASE CancelHandoff
  <2>1. MemoryOK'
    BY <1>1, <1>4 DEF CancelHandoff, AbortHandoff, MemoryOK
  <2>2. GoroutinesOK' /\ ReopensOK'
    BY <1>1, <1>4, BoundAssumption
       DEF CancelHandoff, AbortHandoff, GoroutinesOK, BrakesOK, ReopensOK
  <2>3. QED
    BY <1>4, <2>1, <2>2, Stays DEF CancelHandoff, TypeInv, TypeOK
<1>5. QED
  BY <1>2, <1>3, <1>4

LEMMA TypeStep == TypeInv /\ [Next]_vars => TypeInv'
<1> SUFFICES ASSUME TypeInv, [Next]_vars PROVE TypeInv'
  OBVIOUS
<1>1. ASSUME NEW m \in Messages, Send(m) PROVE TypeInv'
  BY <1>1, SendType
<1>2. CASE DispatchStep
  BY <1>2, SendTurnType, SendTurnFailsType, BindType, NotePendingType, StartTurnType
     DEF DispatchStep
<1>3. CASE DrainStep
  BY <1>3, DrainType DEF DrainStep
<1>4. CASE ProviderStep \/ Shut \/ Close
  BY <1>4, ProviderType
<1>5. CASE ProjectStep
  BY <1>5, ProjectType
<1>6. CASE BrakeRead \/ BrakeReadWorker \/ \E p \in Brakers : BrakeStep(p)
  BY <1>6, BrakeType
<1>7. CASE (\E policy \in {"drain", "interrupt"} : BeginHandoff(policy))
             \/ PollStep \/ CancelHandoff
  BY <1>7, HandoffType
<1>8. CASE UNCHANGED vars
  BY <1>8, Stays DEF vars, TypeInv, TypeOK
<1>9. QED
  BY <1>1, <1>2, <1>3, <1>4, <1>5, <1>6, <1>7, <1>8 DEF Next

\* Every reachable state of a chat controller is well typed.
THEOREM TurnsTypeCorrect == Spec => []TypeOK
<1>1. TypeInv => TypeOK
  BY DEF TypeInv
<1>2. QED
  BY <1>1, TypeInit, TypeStep, PTL DEF Spec

-----------------------------------------------------------------------------
(* At most once                                                            *)

\* No turn is announced before its id is recorded.
LateAnnouncements == "eager" \notin Env \/ Drivers \subseteq {"acp"}

\* Turns are numbered as they are handed over, and the one being bound is still
\* unknown to the projection goroutine: not adopted, and no start of it on its way.
TurnInv ==
  /\ \A t \in Turns : life[t] # "none" => t <= Len(given)
  /\ \A t \in adopted : t <= Len(given)
  /\ \A i \in 1..Len(events) : events[i].turn <= Len(given)
  /\ call.step \in {"binding", "noting", "starting"} => call.turn <= Len(given)
  /\ driver = "acp" => \A t \in Turns : life[t] # "accepted"
  /\ call.step = "binding" =>
       /\ call.turn \notin adopted
       /\ \A i \in 1..Len(events) : events[i].kind = "started" => events[i].turn # call.turn

\* What was handed over was asked, and its row no longer waits, unless it is being
\* bound this moment; what is about to be handed over was not before.
HandedInv ==
  /\ \A i \in 1..Len(given) : asked[given[i]] > 0
  /\ call.step # "none" => asked[call.m] > 0
  /\ \A m \in Messages : state[m] = "queued" => asked[m] > 0
  /\ \A i \in 1..Len(given) :
       state[given[i]] = "queued" => call.step = "binding" /\ call.m = given[i]
  /\ call.step = "calling" => \A i \in 1..Len(given) : given[i] # call.m
  /\ AtMostOnce

LEMMA OnceInit == Init => TurnInv /\ HandedInv
<1> SUFFICES ASSUME Init PROVE TurnInv /\ HandedInv
  OBVIOUS
<1>1. Len(given) = 0 /\ Len(events) = 0 /\ 1..Len(given) = {} /\ 1..Len(events) = {}
  BY EmptySeq DEF Init
<1>2. TurnInv
  BY <1>1 DEF Init, TurnInv
<1>3. HandedInv
  BY <1>1 DEF Init, HandedInv, AtMostOnce
<1>4. QED
  BY <1>2, <1>3

\* What Append and Tail do to what the provider was given and to the events.
LEMMA GivenGrows ==
  ASSUME TypeInv, NEW m \in Messages, given' = Append(given, m)
  PROVE  /\ Len(given') = Len(given) + 1 /\ Len(given) \in Nat
         /\ \A i \in 1..Len(given) : given'[i] = given[i] /\ given[i] \in Messages
         /\ given'[Len(given) + 1] = m
<1>1. given \in Seq(Messages) /\ Len(given) \in Nat
  BY LenProperties DEF TypeInv, TypeOK, ProviderOK
<1>2. QED
  BY <1>1, AppendProperties, ElementOfSeq

LEMMA EventTurns ==
  ASSUME TypeInv
  PROVE  \A i \in 1..Len(events) : events[i] \in Events /\ events[i].turn \in Nat
<1>1. events \in Seq(Events)
  BY DEF TypeInv, TypeOK, ProviderOK
<1>2. \A i \in 1..Len(events) : events[i] \in Events
  BY <1>1, ElementOfSeq
<1>3. \A e \in Events : e.turn \in Nat
  BY DEF Events
<1>4. QED
  BY <1>2, <1>3

LEMMA EventsGrow ==
  ASSUME TypeInv, NEW k \in {"started", "completed", "interrupted"}, NEW t \in Turns,
         events' = Append(events, [kind |-> k, turn |-> t])
  PROVE  /\ Len(events) \in Nat
         /\ \A i \in 1..Len(events') :
              \/ i \in 1..Len(events) /\ events'[i] = events[i]
              \/ events'[i].kind = k /\ events'[i].turn = t
<1> DEFINE e == [kind |-> k, turn |-> t]
<1>1. events \in Seq(Events) /\ Len(events) \in Nat /\ e \in Events
  BY LenProperties DEF TypeInv, TypeOK, ProviderOK, Events
<1>2. /\ Len(events') = Len(events) + 1 /\ events'[Len(events) + 1] = e
      /\ \A i \in 1..Len(events) : events'[i] = events[i]
  BY <1>1, AppendProperties
<1>3. QED
  BY <1>1, <1>2

LEMMA EventsShrink ==
  ASSUME TypeInv, events # <<>>, events' = Tail(events)
  PROVE  /\ 1 \in 1..Len(events) /\ Head(events) = events[1]
         /\ \A i \in 1..Len(events') : i + 1 \in 1..Len(events) /\ events'[i] = events[i + 1]
<1>1. events \in Seq(Events) /\ Len(events) \in Nat \ {0}
  BY LenProperties, EmptySeq DEF TypeInv, TypeOK, ProviderOK
<1>2. /\ Len(Tail(events)) = Len(events) - 1
      /\ \A i \in 1..Len(Tail(events)) : Tail(events)[i] = events[i + 1]
  BY <1>1, HeadTailProperties
<1>3. Head(events) = events[1]
  BY <1>1
<1>4. QED
  BY <1>1, <1>2, <1>3

LEMMA TurnStep ==
  ASSUME LateAnnouncements, TypeInv, TurnInv, [Next]_vars
  PROVE  TurnInv'
<1>1. /\ Len(given) \in Nat /\ given \in Seq(Messages) /\ driver \in Drivers
      /\ adopted \subseteq Turns /\ life \in [Turns -> Lives] /\ MaxTurns \in Nat
  BY LenProperties, BoundAssumption DEF TypeInv, TypeOK, ProviderOK, RowsOK
<1>2. /\ call.step \in {"binding", "noting", "starting"} => call.turn \in Turns
      /\ call.step # "none" => call.m \in Messages
      /\ holder = "none" => call.step = "none"
  BY DEF TypeInv, TypeOK, CallOK, SendMuOK
\* Most steps touch nothing the turns depend on, or only end a dispatch.
<1>3. ASSUME UNCHANGED <<given, life, events, adopted, driver>>,
             \/ UNCHANGED call
             \/ call'.step \in {"none", "calling"}
             \/ call' = [call EXCEPT !.step = "noting"] /\ call.step = "binding"
             \/ call' = [call EXCEPT !.step = "starting"] /\ call.step = "noting"
      PROVE  TurnInv'
  <2>1. call'.step \in {"binding", "noting", "starting"} =>
          call.step \in {"binding", "noting", "starting"} /\ call'.turn = call.turn
    BY <1>3 DEF TypeInv, TypeOK, SendMuOK
  <2>2. call'.step = "binding" => call' = call
    BY <1>3 DEF TypeInv, TypeOK, SendMuOK
  <2>3. QED
    BY <1>3, <2>1, <2>2 DEF TurnInv
<1>4. ASSUME NEW m \in Messages, Send(m) PROVE TurnInv'
  BY <1>3, <1>4 DEF Send, Dispatches
<1>5. CASE SendTurn
  <2>1. Len(given') = Len(given) + 1 /\ UNCHANGED <<events, adopted, driver>>
    BY <1>2, <1>5, GivenGrows DEF SendTurn
  <2>2. call'.step = "binding" /\ call'.turn = Len(given) + 1
    BY <1>5 DEF SendTurn, TypeInv, TypeOK, SendMuOK
  <2>3. /\ \A t \in Turns : life'[t] # "none" => t <= Len(given')
        /\ driver = "acp" => \A t \in Turns : life'[t] # "accepted"
    BY <1>1, <1>5, <2>1 DEF SendTurn, TurnInv
  <2>4. \A t \in adopted : t <= Len(given) /\ t \in Int
    BY <1>1 DEF TurnInv
  <2>5. \A i \in 1..Len(events) : events[i].turn <= Len(given) /\ events[i].turn \in Int
    BY EventTurns DEF TurnInv
  <2>6. QED
    BY <1>1, <2>1, <2>2, <2>3, <2>4, <2>5 DEF TurnInv
<1>6. CASE SendTurnFails
  <2>1. call'.step = "none" /\ UNCHANGED <<events, adopted, driver>>
    BY <1>6 DEF SendTurnFails, Releases
  <2>2. CASE UNCHANGED <<given, life>>
    BY <1>3, <2>1, <2>2
  <2>3. CASE /\ driver = "codex" /\ given' = Append(given, call.m)
             /\ life' = [life EXCEPT ![Len(given) + 1] = "accepted"]
    <3>1. Len(given') = Len(given) + 1
      BY <1>2, <1>6, <2>3, GivenGrows DEF SendTurnFails
    <3>2. \A t \in Turns : life'[t] # "none" => t <= Len(given')
      BY <1>1, <2>3, <3>1 DEF TurnInv
    <3>3. \A t \in adopted : t <= Len(given) /\ t \in Int
      BY <1>1 DEF TurnInv
    <3>4. \A i \in 1..Len(events) : events[i].turn <= Len(given) /\ events[i].turn \in Int
      BY EventTurns DEF TurnInv
    <3>5. QED
      BY <1>1, <2>1, <2>3, <3>1, <3>2, <3>3, <3>4 DEF TurnInv
  <2>4. QED
    BY <1>6, <2>2, <2>3 DEF SendTurnFails
<1>7. CASE Bind
  <2>1. call.turn \notin adopted /\ call.step = "binding"
    BY <1>7 DEF Bind, TurnInv
  <2>2. QED
    BY <1>3, <1>7, <2>1 DEF Bind
<1>8. CASE NotePending
  BY <1>3, <1>8 DEF NotePending, Releases
<1>9. CASE StartTurn
  <2>1. /\ call'.step = "none" /\ call.turn \in Turns /\ call.turn <= Len(given)
        /\ UNCHANGED <<given, adopted, driver>>
    BY <1>2, <1>9 DEF StartTurn, Releases, TurnInv
  <2>2. CASE shut
    BY <1>3, <1>9, <2>1, <2>2 DEF StartTurn
  <2>3. CASE ~shut
    <3>1. \A i \in 1..Len(events') : events'[i].turn <= Len(given)
      BY <1>9, <2>1, <2>3, EventsGrow DEF StartTurn, TurnInv
    <3>2. /\ \A t \in Turns : life'[t] # "none" => t <= Len(given)
          /\ driver = "acp" => \A t \in Turns : life'[t] # "accepted"
      BY <1>1, <1>9, <2>1, <2>3 DEF StartTurn, TurnInv
    <3>3. QED
      BY <2>1, <3>1, <3>2 DEF TurnInv
  <2>4. QED
    BY <2>2, <2>3
<1>10. CASE DrainStep
  BY <1>3, <1>10 DEF DrainStep, Drain, Dispatches
<1>11. ASSUME NEW t \in Turns, Announce(t) PROVE TurnInv'
  <2>1. call.step = "binding" => t # call.turn
    BY <1>1, <1>11 DEF Announce, LateAnnouncements, TurnInv
  <2>2. \A i \in 1..Len(events') :
          \/ i \in 1..Len(events) /\ events'[i] = events[i]
          \/ events'[i].turn = t
    BY <1>11, EventsGrow DEF Announce, Emits
  <2>3. t <= Len(given) /\ UNCHANGED <<given, adopted, driver, call>>
    BY <1>11 DEF Announce, TurnInv
  <2>4. /\ \A u \in Turns : life'[u] # "none" => u <= Len(given)
        /\ driver = "acp" => \A u \in Turns : life'[u] # "accepted"
    BY <1>1, <1>11, <2>3 DEF Announce, TurnInv
  <2>5. QED
    BY <2>1, <2>2, <2>3, <2>4 DEF TurnInv
<1>12. ASSUME NEW t \in Turns, Complete(t) PROVE TurnInv'
  <2>1. \A i \in 1..Len(events') :
          \/ i \in 1..Len(events) /\ events'[i] = events[i]
          \/ events'[i].turn = t /\ events'[i].kind # "started"
    BY <1>12, EventsGrow DEF Complete, Emits
  <2>2. t <= Len(given) /\ UNCHANGED <<given, adopted, driver, call>>
    BY <1>12 DEF Complete, TurnInv
  <2>3. /\ \A u \in Turns : life'[u] # "none" => u <= Len(given)
        /\ driver = "acp" => \A u \in Turns : life'[u] # "accepted"
    BY <1>1, <1>12, <2>2 DEF Complete, TurnInv
  <2>4. QED
    BY <2>1, <2>2, <2>3 DEF TurnInv
<1>13. CASE ClearActive \/ Shut \/ BrakeRead \/ BrakeReadWorker \/ PollStep \/ CancelHandoff
            \/ EndOfStream
  BY <1>3, <1>13
     DEF ClearActive, Shut, BrakeRead, BrakeReadWorker, PollStep, PollBusy, PollQueue,
         PollStopped, CancelHandoff, EndOfStream
<1>14. CASE Close
  <2>1. UNCHANGED <<given, events, adopted, driver, call>>
    BY <1>14 DEF Close
  <2>2. /\ \A t \in Turns : life'[t] # "none" => t <= Len(given)
        /\ driver = "acp" => \A t \in Turns : life'[t] # "accepted"
    BY <1>1, <1>14 DEF Close, TurnInv
  <2>3. QED
    BY <2>1, <2>2 DEF TurnInv
<1>15. CASE ProjectStarted \/ ProjectCompleted
  <2>1. events # <<>> /\ events' = Tail(events) /\ UNCHANGED <<given, life, driver, call>>
    BY <1>15 DEF ProjectStarted, ProjectCompleted
  <2>2. /\ 1 \in 1..Len(events) /\ Head(events) = events[1]
        /\ \A i \in 1..Len(events') : i + 1 \in 1..Len(events) /\ events'[i] = events[i + 1]
    BY <2>1, EventsShrink
  <2>3. \A t \in adopted' : t \in adopted \/ (t = events[1].turn /\ events[1].kind = "started")
    <3>1. CASE ProjectCompleted
      <4>1. adopted' = adopted
        BY <3>1 DEF ProjectCompleted
      <4>2. QED
        BY <4>1
    <3>2. CASE ProjectStarted
      <4>1. adopted' = adopted \/ adopted' = adopted \cup {events[1].turn}
        BY <2>2, <3>2 DEF ProjectStarted
      <4>2. events[1].kind = "started"
        BY <2>2, <3>2 DEF ProjectStarted
      <4>3. QED
        BY <4>1, <4>2
    <3>3. QED
      BY <1>15, <3>1, <3>2
  <2>4. QED
    BY <2>1, <2>2, <2>3 DEF TurnInv
<1>16. ASSUME NEW p \in Brakers, BrakeStep(p) PROVE TurnInv'
  BY <1>3, <1>16 DEF BrakeStep, BrakeCut, BrakeAccepted, BrakeRefused, BrakeFails
<1>17. ASSUME NEW policy \in {"drain", "interrupt"}, BeginHandoff(policy) PROVE TurnInv'
  BY <1>3, <1>17 DEF BeginHandoff
<1>18. CASE UNCHANGED vars
  BY <1>3, <1>18 DEF vars
<1>19. QED
  BY <1>4, <1>5, <1>6, <1>7, <1>8, <1>9, <1>10, <1>11, <1>12, <1>13, <1>14, <1>15, <1>16,
     <1>17, <1>18
     DEF Next, DispatchStep, ProviderStep, ProjectStep

LEMMA HandedStep ==
  ASSUME TypeInv, TurnInv, HandedInv, [Next]_vars
  PROVE  HandedInv'
<1>1. /\ Len(given) \in Nat /\ given \in Seq(Messages) /\ MaxTurns \in Nat
      /\ asked \in [Messages -> 0..Cardinality(Messages)] /\ state \in [Messages -> RowStates]
  BY LenProperties, BoundAssumption DEF TypeInv, TypeOK, ProviderOK, RowsOK
<1>2. /\ call.step # "none" => call.m \in Messages
      /\ call.step \in {"binding", "noting", "starting"} => call.turn \in Turns
      /\ holder = "none" => call.step = "none"
      /\ \A i \in 1..Len(given) : given[i] \in Messages
  BY <1>1, ElementOfSeq DEF TypeInv, TypeOK, CallOK, SendMuOK
\* Most steps hand nothing over and put no row back in the queue.
<1>3. ASSUME UNCHANGED <<given, asked>>,
             \A m \in Messages : state'[m] = "queued" => state[m] = "queued",
             call'.step # "none" => call.step # "none" /\ call'.m = call.m,
             call'.step = "calling" => call.step = "calling",
             call.step = "binding" => call'.step = "binding" \/ state'[call.m] # "queued"
      PROVE  HandedInv'
  <2>1. /\ \A i \in 1..Len(given) : asked[given[i]] > 0
        /\ call'.step # "none" => asked[call'.m] > 0
        /\ \A m \in Messages : state'[m] = "queued" => asked[m] > 0
        /\ call'.step = "calling" => \A i \in 1..Len(given) : given[i] # call'.m
    BY <1>3 DEF HandedInv
  <2>2. ASSUME NEW i \in 1..Len(given), state'[given[i]] = "queued"
        PROVE  call'.step = "binding" /\ call'.m = given[i]
    <3>1. call.step = "binding" /\ call.m = given[i]
      BY <1>2, <1>3, <2>2 DEF HandedInv
    <3>2. QED
      BY <1>3, <2>2, <3>1
  <2>3. AtMostOnce'
    BY <1>3 DEF HandedInv, AtMostOnce
  <2>4. QED
    BY <1>3, <2>1, <2>2, <2>3 DEF HandedInv
\* Some of those leave the rows and the dispatch alone altogether.
<1>4. ASSUME UNCHANGED <<given, asked, state, call>> PROVE HandedInv'
  BY <1>3, <1>4
<1>5. ASSUME NEW m \in Messages, Send(m) PROVE HandedInv'
  <2>1. /\ asked' = [asked EXCEPT ![m] = Asked + 1] /\ state' = [state EXCEPT ![m] = "queued"]
        /\ given' = given /\ asked[m] = 0 /\ call.step = "none"
        /\ call'.step # "none" => call'.m = m
        /\ call'.step \in {"none", "calling"}
    BY <1>2, <1>5 DEF Send, Settles, Dispatches
  <2>2. /\ \A n \in Messages : n # m => asked'[n] = asked[n] /\ state'[n] = state[n]
        /\ asked'[m] = Asked + 1 /\ Asked \in Nat
    BY <1>1, <2>1, AskedType
  <2>3. \A i \in 1..Len(given) : given[i] # m
    BY <2>1 DEF HandedInv
  <2>4. AtMostOnce'
    BY <2>1 DEF HandedInv, AtMostOnce
  <2>5. QED
    BY <1>2, <2>1, <2>2, <2>3, <2>4 DEF HandedInv
\* The message handed over is the one of the dispatch, and it is the first time.
<1>6. ASSUME call.step = "calling", given' = Append(given, call.m), asked' = asked,
             \A m \in Messages : m # call.m => state'[m] = state[m],
             \/ state'[call.m] = "failed" /\ call'.step = "none"
             \/ state' = state /\ call'.step = "binding" /\ call'.m = call.m
      PROVE  HandedInv'
  <2>1. /\ Len(given') = Len(given) + 1
        /\ \A i \in 1..Len(given) : given'[i] = given[i]
        /\ given'[Len(given) + 1] = call.m
        /\ call.m \in Messages /\ asked[call.m] > 0
    BY <1>2, <1>6, GivenGrows DEF HandedInv
  <2>2. \A i \in 1..Len(given') :
          \/ i \in 1..Len(given) /\ given'[i] = given[i] /\ given'[i] # call.m
          \/ i = Len(given) + 1 /\ given'[i] = call.m
    BY <1>1, <1>6, <2>1 DEF HandedInv
  <2>3. AtMostOnce'
    BY <1>1, <2>1, <2>2 DEF HandedInv, AtMostOnce
  <2>4. /\ \A i \in 1..Len(given') : asked'[given'[i]] > 0
        /\ call'.step # "none" => asked'[call'.m] > 0
        /\ call'.step = "calling" => \A i \in 1..Len(given') : given'[i] # call'.m
    BY <1>6, <2>1, <2>2 DEF HandedInv
  <2>5. \A m \in Messages : state'[m] = "queued" => asked'[m] > 0
    BY <1>6, <2>1 DEF HandedInv
  <2>6. ASSUME NEW i \in 1..Len(given'), state'[given'[i]] = "queued"
        PROVE  call'.step = "binding" /\ call'.m = given'[i]
    <3>1. CASE given'[i] = call.m
      BY <1>6, <2>6, <3>1
    <3>2. CASE i \in 1..Len(given) /\ given'[i] = given[i] /\ given'[i] # call.m
      <4>1. state[given[i]] = "queued"
        BY <1>2, <1>6, <2>6, <3>2
      <4>2. QED
        BY <1>6, <3>2, <4>1 DEF HandedInv
    <3>3. QED
      BY <2>2, <3>1, <3>2
  <2>7. QED
    BY <2>3, <2>4, <2>5, <2>6 DEF HandedInv
<1>7. CASE SendTurn
  <2>1. call'.step = "binding" /\ call'.m = call.m
    BY <1>7 DEF SendTurn, TypeInv, TypeOK, SendMuOK
  <2>2. /\ call.step = "calling" /\ given' = Append(given, call.m)
        /\ UNCHANGED <<asked, state>>
    BY <1>7 DEF SendTurn
  <2>3. QED
    BY <1>6, <2>1, <2>2
<1>8. CASE SendTurnFails
  <2>1. /\ call.step = "calling" /\ call'.step = "none" /\ asked' = asked
        /\ call.m \in Messages /\ state' = [state EXCEPT ![call.m] = "failed"]
        /\ given' = given \/ given' = Append(given, call.m)
    BY <1>2, <1>8 DEF SendTurnFails, Releases, Settles
  <2>2. state'[call.m] = "failed" /\ \A m \in Messages : m # call.m => state'[m] = state[m]
    BY <1>1, <2>1
  <2>3. CASE given' = given
    BY <1>3, <2>1, <2>2, <2>3
  <2>4. CASE given' = Append(given, call.m)
    BY <1>6, <2>1, <2>2, <2>4
  <2>5. QED
    BY <2>1, <2>3, <2>4
\* The turn is not adopted, so the row of the message runs.
<1>9. CASE Bind
  <2>1. call.turn \notin adopted /\ call.step = "binding" /\ call.m \in Messages
    BY <1>2, <1>9 DEF Bind, TurnInv
  <2>2. state' = [state EXCEPT ![call.m] = "running"] /\ UNCHANGED <<given, asked>>
    BY <1>9, <2>1 DEF Bind, Settles
  <2>3. call'.step = "noting" /\ call'.m = call.m
    BY <1>9, <2>1 DEF Bind, TypeInv, TypeOK, SendMuOK
  <2>4. state'[call.m] = "running" /\ \A m \in Messages : m # call.m => state'[m] = state[m]
    BY <1>1, <2>1, <2>2
  <2>5. QED
    BY <1>3, <2>1, <2>2, <2>3, <2>4
<1>10. CASE NotePending
  <2>1. /\ call.step = "noting" /\ UNCHANGED <<given, asked, state>>
        /\ call'.step # "none" => call'.step = "starting" /\ call'.m = call.m
    BY <1>10 DEF NotePending, Releases, TypeInv, TypeOK, SendMuOK
  <2>2. QED
    BY <1>3, <2>1
<1>11. CASE StartTurn
  <2>1. /\ call.step = "starting" /\ call'.step = "none" /\ UNCHANGED <<given, asked>>
        /\ state' = state \/ state' = [state EXCEPT ![call.m] = "failed"]
    BY <1>11 DEF StartTurn, Releases, Settles
  <2>2. \A m \in Messages : state'[m] = "queued" => state[m] = "queued"
    BY <1>1, <1>2, <2>1
  <2>3. QED
    BY <1>3, <2>1, <2>2
\* A drain dispatches nothing but a message that waits, while no dispatch is under way.
<1>12. ASSUME NEW who \in {"projector", "worker", "reopener"}, Drain(who) PROVE HandedInv'
  <2>1. /\ call.step = "none" /\ UNCHANGED <<given, asked>>
        /\ \A m \in Messages : state'[m] = "queued" => state[m] = "queued"
    BY <1>1, <1>2, <1>12 DEF Drain
  <2>2. CASE call' = call
    BY <1>3, <2>1, <2>2
  <2>3. ASSUME NEW m \in Messages, state'[m] = "queued", Dispatches(who, m) PROVE HandedInv'
    <3>1. state[m] = "queued" /\ asked[m] > 0 /\ call'.step = "calling" /\ call'.m = m
      BY <2>1, <2>3 DEF Dispatches, HandedInv
    <3>2. \A i \in 1..Len(given) : state[given[i]] # "queued"
      BY <2>1 DEF HandedInv
    <3>3. AtMostOnce'
      BY <2>1 DEF HandedInv, AtMostOnce
    <3>4. QED
      BY <1>2, <2>1, <3>1, <3>2, <3>3 DEF HandedInv
  <2>4. call' = call \/ \E m \in Messages : state'[m] = "queued" /\ Dispatches(who, m)
    BY <1>12 DEF Drain
  <2>5. QED
    BY <2>2, <2>3, <2>4
<1>13. ASSUME NEW t \in Turns, Announce(t) \/ Complete(t) PROVE HandedInv'
  BY <1>4, <1>13 DEF Announce, Complete
<1>14. CASE ClearActive \/ Shut \/ Close \/ ProjectStarted \/ BrakeRead \/ BrakeReadWorker
            \/ PollStep \/ CancelHandoff
  BY <1>4, <1>14
     DEF ClearActive, Shut, Close, ProjectStarted, BrakeRead, BrakeReadWorker,
         PollStep, PollBusy, PollQueue, PollStopped, CancelHandoff
<1>15. CASE ProjectCompleted
  <2>1. UNCHANGED <<given, asked, call>>
    BY <1>15 DEF ProjectCompleted
  <2>2. 1 \in 1..Len(events) /\ Head(events) = events[1] /\ events[1] \in Events
    BY <1>15, EventsShrink, EventTurns DEF ProjectCompleted
  <2>3. Head(events).kind # "queued"
    BY <2>2 DEF Events
  <2>4. \A m \in Messages : state'[m] = state[m] \/ state'[m] = Head(events).kind
    BY <1>15 DEF ProjectCompleted
  <2>5. \A m \in Messages : state'[m] = "queued" => state[m] = "queued"
    BY <2>3, <2>4
  <2>6. QED
    BY <1>3, <2>1, <2>5
<1>16. CASE EndOfStream
  <2>1. UNCHANGED <<given, asked, call>>
    BY <1>16 DEF EndOfStream
  <2>2. \A m \in Messages : state'[m] = "queued" => state[m] = "queued"
    BY <1>16 DEF EndOfStream
  <2>3. QED
    BY <1>3, <2>1, <2>2
<1>17. ASSUME NEW p \in Brakers, BrakeStep(p) PROVE HandedInv'
  BY <1>4, <1>17 DEF BrakeStep, BrakeCut, BrakeAccepted, BrakeRefused, BrakeFails
<1>18. ASSUME NEW policy \in {"drain", "interrupt"}, BeginHandoff(policy) PROVE HandedInv'
  BY <1>4, <1>18 DEF BeginHandoff
<1>19. CASE UNCHANGED vars
  BY <1>4, <1>19 DEF vars
<1>20. QED
  BY <1>5, <1>7, <1>8, <1>9, <1>10, <1>11, <1>12, <1>13, <1>14, <1>15, <1>16, <1>17,
     <1>18, <1>19
     DEF Next, DispatchStep, DrainStep, ProviderStep, ProjectStep

\* A message is handed to the provider at most once (ChatTurns' AtMostOnce, controller.go's
\* dispatch), provided that no eager provider announces a turn before its id is recorded:
\* CT_Duplicate shows what happens without that.
THEOREM HandedOverOnce == LateAnnouncements => (Spec => []AtMostOnce)
<1> SUFFICES ASSUME LateAnnouncements PROVE Spec => []AtMostOnce
  OBVIOUS
<1> DEFINE Inv == TypeInv /\ TurnInv /\ HandedInv
<1>1. Init => Inv
  BY TypeInit, OnceInit
<1>2. Inv /\ [Next]_vars => Inv'
  BY TypeStep, TurnStep, HandedStep
<1>3. Inv => AtMostOnce
  BY DEF HandedInv
<1>4. QED
  BY <1>1, <1>2, <1>3, PTL DEF Spec

-----------------------------------------------------------------------------
(* Whose turn it is                                                        *)

\* A row that is bound to a turn is the row of the message that turn was given for.
AnswersAreTheirs ==
  \A m \in Messages : boundTo[m] # NoTurn => boundTo[m] \in 1..Len(given) /\ given[boundTo[m]] = m

\* And so is the dispatch that is about to bind it.
OwnInv ==
  /\ AnswersAreTheirs
  /\ call.step \in {"binding", "noting", "starting"} =>
       call.turn \in 1..Len(given) /\ given[call.turn] = call.m

\* Only the two steps of a dispatch touch what the invariant is about: the others leave
\* the rows' turns alone, and at most end a dispatch or begin one.
LEMMA OwnFrame ==
  ASSUME TypeInv, OwnInv, boundTo' = boundTo,
         given' = given \/ \E m \in Messages : given' = Append(given, m),
         \/ UNCHANGED call
         \/ call'.step \in {"none", "calling"}
         \/ call' = [call EXCEPT !.step = "starting"] /\ call.step = "noting"
  PROVE  OwnInv'
<1>1. /\ Len(given') \in Nat /\ Len(given) \in Nat /\ Len(given) <= Len(given')
      /\ \A i \in 1..Len(given) : given'[i] = given[i]
  <2>1. CASE given' = given
    BY <2>1, LenProperties DEF TypeInv, TypeOK, ProviderOK
  <2>2. ASSUME NEW m \in Messages, given' = Append(given, m)
        PROVE  /\ Len(given') \in Nat /\ Len(given) \in Nat /\ Len(given) <= Len(given')
               /\ \A i \in 1..Len(given) : given'[i] = given[i]
    BY <2>2, GivenGrows
  <2>. QED BY <2>1, <2>2
<1>2. call \in [step : {"none", "calling", "binding", "noting", "starting"},
               m : Messages \cup {NoMessage}, turn : Turns \cup {NoTurn}]
  BY DEF TypeInv, TypeOK, SendMuOK
<1>3. AnswersAreTheirs'
  BY <1>1 DEF OwnInv, AnswersAreTheirs
<1>4. call'.step \in {"binding", "noting", "starting"} =>
        /\ call.step \in {"binding", "noting", "starting"}
        /\ call'.turn = call.turn /\ call'.m = call.m
  BY <1>2
<1>. QED BY <1>1, <1>3, <1>4 DEF OwnInv

LEMMA OwnDispatch == ASSUME TypeInv, OwnInv, DispatchStep PROVE OwnInv'
<1>0. /\ call \in [step : {"none", "calling", "binding", "noting", "starting"},
                   m : Messages \cup {NoMessage}, turn : Turns \cup {NoTurn}]
      /\ call.m \in Messages /\ boundTo \in [Messages -> Turns \cup {NoTurn}]
  BY DEF DispatchStep, SendTurn, SendTurnFails, Bind, NotePending, StartTurn, TypeInv, TypeOK,
         SendMuOK, CallOK, RowsOK
<1>1. CASE SendTurn
  <2>1. /\ Len(given') = Len(given) + 1 /\ Len(given) \in Nat /\ given'[Len(given) + 1] = call.m
        /\ \A i \in 1..Len(given) : given'[i] = given[i]
    BY <1>0, <1>1, GivenGrows DEF SendTurn
  <2>2. call'.turn = Len(given) + 1 /\ call'.m = call.m /\ boundTo' = boundTo
    BY <1>0, <1>1 DEF SendTurn
  <2>. QED BY <2>1, <2>2 DEF OwnInv, AnswersAreTheirs
<1>2. CASE SendTurnFails
  BY <1>0, <1>2, OwnFrame DEF SendTurnFails, Releases
<1>3. CASE Bind
  <2>1. CASE call.turn \in adopted
    BY <1>3, <2>1, OwnFrame DEF Bind, Releases
  <2>2. CASE call.turn \notin adopted
    <3>1. /\ boundTo' = [boundTo EXCEPT ![call.m] = call.turn] /\ given' = given
          /\ call.step = "binding" /\ call' = [call EXCEPT !.step = "noting"]
      BY <1>3, <2>2 DEF Bind
    <3>2. call'.turn = call.turn /\ call'.m = call.m
      BY <1>0, <3>1
    <3>3. AnswersAreTheirs'
      BY <1>0, <3>1 DEF OwnInv, AnswersAreTheirs
    <3>. QED BY <3>1, <3>2, <3>3 DEF OwnInv
  <2>. QED BY <2>1, <2>2
<1>4. CASE NotePending
  BY <1>4, OwnFrame DEF NotePending, Releases
<1>5. CASE StartTurn
  BY <1>5, OwnFrame DEF StartTurn, Releases
<1>. QED BY <1>1, <1>2, <1>3, <1>4, <1>5 DEF DispatchStep

LEMMA OwnStep == TypeInv /\ OwnInv /\ [Next]_vars => OwnInv'
<1> SUFFICES ASSUME TypeInv, OwnInv, [Next]_vars PROVE OwnInv'
  OBVIOUS
<1>1. ASSUME NEW m \in Messages, Send(m) PROVE OwnInv'
  BY <1>1, OwnFrame DEF Send, Dispatches
<1>2. ASSUME NEW who, Drain(who) PROVE OwnInv'
  <2>1. call' = call \/ call'.step = "calling"
    BY <1>2 DEF Drain, Dispatches
  <2>. QED BY <1>2, <2>1, OwnFrame DEF Drain
<1>3. ASSUME NEW t \in Turns, Announce(t) \/ Complete(t) PROVE OwnInv'
  BY <1>3, OwnFrame DEF Announce, Complete
<1>4. CASE ClearActive \/ Shut \/ Close \/ ProjectStep \/ UNCHANGED vars
  BY <1>4, OwnFrame DEF ClearActive, Shut, Close, ProjectStep, ProjectStarted, ProjectCompleted,
                        EndOfStream, vars
<1>5. ASSUME NEW p \in Brakers, BrakeStep(p) PROVE OwnInv'
  BY <1>5, OwnFrame DEF BrakeStep, BrakeCut, BrakeAccepted, BrakeRefused, BrakeFails
<1>6. CASE BrakeRead \/ BrakeReadWorker \/ PollStep \/ CancelHandoff
  BY <1>6, OwnFrame DEF BrakeRead, BrakeReadWorker, PollStep, PollBusy, PollQueue, PollStopped,
                        CancelHandoff
<1>7. ASSUME NEW policy \in {"drain", "interrupt"}, BeginHandoff(policy) PROVE OwnInv'
  BY <1>7, OwnFrame DEF BeginHandoff
<1>. QED
  BY <1>1, <1>2, <1>3, <1>4, <1>5, <1>6, <1>7, OwnDispatch DEF Next, DrainStep, ProviderStep

\* The answer a row shows is the answer to its own message (BindTurnToProvider), whatever
\* the driver announces early, loses or fails.
THEOREM RowsKeepTheirTurn == Spec => []AnswersAreTheirs
<1>1. Init => OwnInv
  BY DEF Init, OwnInv, AnswersAreTheirs
<1>2. OwnInv => AnswersAreTheirs
  BY DEF OwnInv
<1>. QED BY <1>1, <1>2, TypeInit, TypeStep, OwnStep, PTL DEF Spec
-----------------------------------------------------------------------------
(* What a stop stops                                                       *)

\* One Interrupt at a time.
StopsAlone == \A p, q \in Brakers : brake[p].pc # "idle" /\ brake[q].pc # "idle" => p = q

\* While a cutoff is set, no drain gets sendMu to find the agent busy again.
DrainsInTime ==
  cutoff # 0 /\ pending # NoTurn /\ holder = "none" =>
    \A who \in {"projector", "worker", "reopener"} : ~Waits(who)

\* The messages a stop is to keep from the agent, and the stop that is not answered yet.
Stopped == halted \cup UNION {brake[p].behind : p \in Brakers}

\* No message is numbered beyond those asked, and what was not asked has a blank row;
\* what waits has no turn.
NumberInv ==
  /\ \A m \in Messages : asked[m] <= Asked
  /\ \A m \in Messages : asked[m] = 0 => state[m] = "none" /\ boundTo[m] = NoTurn
  /\ \A m \in Messages : state[m] = "queued" => boundTo[m] = NoTurn
  /\ call.step # "none" => asked[call.m] > 0

\* What a stop found waiting is settled, or waits below the cutoff for the drain that
\* will sweep it; no dispatch has it and no turn answers it.
HaltInv ==
  /\ \A p \in Brakers : brake[p].pc # "calling" => brake[p].behind = {}
  /\ \A m \in Stopped :
       /\ asked[m] > 0 /\ boundTo[m] = NoTurn
       /\ call.step = "none" \/ call.m # m
       /\ state[m] \notin {"running", "completed"}
       /\ state[m] = "queued" => asked[m] <= cutoff

\* The number of messages asked grows by the one that is asked.
LEMMA AskedGrows ==
  ASSUME TypeInv, NEW m \in Messages, asked[m] = 0, asked' = [asked EXCEPT ![m] = Asked + 1]
  PROVE  Asked' = Asked + 1
<1> DEFINE S == {n \in Messages : asked[n] > 0}
           T == {n \in Messages : asked'[n] > 0}
<1>1. asked \in [Messages -> 0..Cardinality(Messages)] /\ Asked \in Nat
  BY AskedType, MessagesAssumption, FS_CardinalityType DEF TypeInv, TypeOK, RowsOK
<1>2. T = S \cup {m} /\ m \notin S
  BY <1>1
<1>3. IsFiniteSet(S)
  BY MessagesAssumption, FS_Subset
<1>4. Cardinality(T) = Cardinality(S) + 1
  BY <1>2, <1>3, FS_AddElement
<1>. QED BY <1>4 DEF Asked

LEMMA NumberSend == ASSUME TypeInv, NumberInv, NEW m \in Messages, Send(m) PROVE NumberInv'
<1>1. /\ asked \in [Messages -> 0..Cardinality(Messages)] /\ Asked \in Nat
      /\ state \in [Messages -> RowStates] /\ Cardinality(Messages) \in Nat
  BY AskedType, MessagesAssumption, FS_CardinalityType DEF TypeInv, TypeOK, RowsOK
<1>2. /\ asked[m] = 0 /\ asked' = [asked EXCEPT ![m] = Asked + 1] /\ boundTo' = boundTo
      /\ state' = [state EXCEPT ![m] = "queued"]
  BY DEF Send, Settles
<1>3. Asked' = Asked + 1
  BY <1>2, AskedGrows
<1>4. \A n \in Messages : asked'[n] <= Asked'
  BY <1>1, <1>2, <1>3 DEF NumberInv
<1>5. call'.step # "none" => asked'[call'.m] > 0
  BY <1>1, <1>2 DEF Send, Dispatches, NumberInv, TypeInv, CallOK
<1>. QED BY <1>1, <1>2, <1>4, <1>5 DEF NumberInv

\* A step that asks nothing and settles only rows that were asked.
LEMMA NumberRests ==
  ASSUME NumberInv, UNCHANGED <<asked, boundTo>>,
         \A m \in Messages : /\ state'[m] # state[m] => asked[m] > 0
                             /\ state'[m] = "queued" => state[m] = "queued",
         call'.step # "none" => asked[call'.m] > 0
  PROVE  NumberInv'
BY DEF NumberInv, Asked

\* A dispatch stays with its message until it is over.
LEMMA SameMessage ==
  ASSUME TypeInv, DispatchStep
  PROVE  call'.step # "none" => call'.m = call.m
<1>1. call \in [step : {"none", "calling", "binding", "noting", "starting"},
               m : Messages \cup {NoMessage}, turn : Turns \cup {NoTurn}]
  BY DEF TypeInv, TypeOK, SendMuOK
<1>2. Releases => call'.step = "none"
  BY DEF Releases
<1>3. CASE SendTurn
  BY <1>1, <1>3 DEF SendTurn
<1>4. CASE Bind
  BY <1>1, <1>2, <1>4 DEF Bind
<1>5. CASE NotePending
  BY <1>1, <1>2, <1>5 DEF NotePending
<1>6. CASE SendTurnFails \/ StartTurn
  BY <1>2, <1>6 DEF SendTurnFails, StartTurn
<1>. QED BY <1>3, <1>4, <1>5, <1>6 DEF DispatchStep

LEMMA NumberDispatch == ASSUME TypeInv, NumberInv, DispatchStep PROVE NumberInv'
<1>1. /\ call.m \in Messages /\ state \in [Messages -> RowStates] /\ asked[call.m] > 0
      /\ boundTo \in [Messages -> Turns \cup {NoTurn}] /\ UNCHANGED asked
      /\ call \in [step : {"none", "calling", "binding", "noting", "starting"},
                   m : Messages \cup {NoMessage}, turn : Turns \cup {NoTurn}]
  BY DEF DispatchStep, SendTurn, SendTurnFails, Bind, NotePending, StartTurn, TypeInv, TypeOK,
         CallOK, RowsOK, SendMuOK, NumberInv
<1>2. call'.step # "none" => call'.m = call.m
  BY SameMessage
<1>3. \A m \in Messages : state'[m] # state[m] => m = call.m /\ state'[m] # "queued"
  BY <1>1 DEF DispatchStep, SendTurn, SendTurnFails, Bind, NotePending, StartTurn, Settles
<1>4. CASE boundTo' = boundTo
  BY <1>1, <1>2, <1>3, <1>4, NumberRests
<1>5. CASE boundTo' # boundTo
  <2>1. boundTo' = [boundTo EXCEPT ![call.m] = call.turn] /\ state'[call.m] = "running"
    BY <1>1, <1>5 DEF DispatchStep, SendTurn, SendTurnFails, Bind, NotePending, StartTurn, Settles
  <2>2. Asked' = Asked
    BY <1>1 DEF Asked
  <2>. QED BY <1>1, <1>2, <1>3, <2>1, <2>2 DEF NumberInv
<1>. QED BY <1>4, <1>5

LEMMA NumberStep == TypeInv /\ NumberInv /\ [Next]_vars => NumberInv'
<1> SUFFICES ASSUME TypeInv, NumberInv, [Next]_vars PROVE NumberInv'
  OBVIOUS
<1>1. asked \in [Messages -> 0..Cardinality(Messages)] /\ Cardinality(Messages) \in Nat
  BY MessagesAssumption, FS_CardinalityType DEF TypeInv, TypeOK, RowsOK
<1>2. ASSUME NEW who, Drain(who) PROVE NumberInv'
  <2>1. /\ \A m \in Messages : state'[m] = state[m] \/ (state[m] = "queued" /\ state'[m] = "interrupted")
        /\ UNCHANGED <<asked, boundTo>>
    BY <1>2 DEF Drain
  <2>2. call' = call \/ (call'.m \in Messages /\ state[call'.m] = "queued")
    BY <1>2 DEF Drain, Dispatches
  <2>. QED BY <1>1, <2>1, <2>2, NumberRests DEF NumberInv
<1>3. CASE ProjectCompleted
  <2>1. Head(events).turn \in Turns /\ Head(events).kind \in {"completed", "interrupted"}
    BY <1>3, EventsType DEF ProjectCompleted, TypeInv, TypeOK, Events
  <2>. QED BY <1>1, <1>3, <2>1, NumberRests DEF ProjectCompleted, NumberInv
<1>4. CASE EndOfStream
  BY <1>1, <1>4, NumberRests DEF EndOfStream, NumberInv
<1>5. ASSUME NEW t \in Turns, Announce(t) \/ Complete(t) PROVE NumberInv'
  BY <1>5, NumberRests DEF Announce, Complete, NumberInv
<1>6. CASE ClearActive \/ Shut \/ Close \/ ProjectStarted \/ UNCHANGED vars
  BY <1>6, NumberRests DEF ClearActive, Shut, Close, ProjectStarted, vars, NumberInv
<1>7. CASE BrakeRead \/ BrakeReadWorker \/ PollStep \/ CancelHandoff
  BY <1>7, NumberRests DEF BrakeRead, BrakeReadWorker, PollStep, PollBusy, PollQueue,
                           PollStopped, CancelHandoff, NumberInv
<1>8. ASSUME NEW p \in Brakers, BrakeStep(p) PROVE NumberInv'
  BY <1>8, NumberRests
     DEF BrakeStep, BrakeCut, BrakeAccepted, BrakeRefused, BrakeFails, NumberInv
<1>9. ASSUME NEW policy \in {"drain", "interrupt"}, BeginHandoff(policy) PROVE NumberInv'
  BY <1>9, NumberRests DEF BeginHandoff, NumberInv
<1>. QED
  BY <1>2, <1>3, <1>4, <1>5, <1>6, <1>7, <1>8, <1>9, NumberSend, NumberDispatch
     DEF Next, DrainStep, ProviderStep, ProjectStep

\* A step that neither stops nor drains: it asks a message for the first time, or settles
\* and binds the message of the dispatch, or fails a row for good.
LEMMA HaltRests ==
  ASSUME HaltInv,
         \A p \in Brakers : /\ brake'[p].pc # "calling" => brake'[p].behind = {}
                            /\ brake'[p].behind = brake[p].behind,
         halted' = halted, cutoff' = cutoff \/ \A m \in Messages : asked[m] <= cutoff',
         \A m \in Stopped : /\ asked'[m] = asked[m] /\ boundTo'[m] = NoTurn
                            /\ state'[m] \in {state[m], "failed"}
                            /\ call'.step = "none" \/ call'.m # m,
         Stopped \subseteq Messages
  PROVE  HaltInv'
<1>1. Stopped' = Stopped
  BY DEF Stopped
<1>. QED BY <1>1 DEF HaltInv

LEMMA HaltStep ==
  TypeInv /\ NumberInv /\ HaltInv /\ StopsAlone /\ DrainsInTime /\ [Next]_vars => HaltInv'
<1> SUFFICES ASSUME TypeInv, NumberInv, HaltInv, StopsAlone, DrainsInTime, [Next]_vars
             PROVE  HaltInv'
  OBVIOUS
<1>0. /\ asked \in [Messages -> 0..Cardinality(Messages)] /\ Cardinality(Messages) \in Nat
      /\ Asked \in Nat /\ cutoff \in Nat /\ Stopped \subseteq Messages
      /\ state \in [Messages -> RowStates] /\ boundTo \in [Messages -> Turns \cup {NoTurn}]
  BY AskedType, MessagesAssumption, FS_CardinalityType
     DEF TypeInv, TypeOK, RowsOK, MemoryOK, BrakesOK, Stopped
<1>1. ASSUME NEW m \in Messages, Send(m) PROVE HaltInv'
  <2>1. \A n \in Stopped : n # m
    BY <1>1 DEF HaltInv, Send
  <2>2. \A n \in Stopped : asked'[n] = asked[n] /\ state'[n] = state[n]
    BY <1>0, <1>1, <2>1 DEF Send, Settles
  <2>3. \A n \in Stopped : call'.step = "none" \/ call'.m # n
    BY <1>1, <2>1 DEF Send, Dispatches, HaltInv
  <2>. QED BY <1>0, <1>1, <2>2, <2>3, HaltRests DEF Send, HaltInv
<1>2. CASE DispatchStep
  <2>1. /\ call.m \in Messages /\ call.step # "none" /\ UNCHANGED <<asked, cutoff, brake, halted>>
        /\ call \in [step : {"none", "calling", "binding", "noting", "starting"},
                     m : Messages \cup {NoMessage}, turn : Turns \cup {NoTurn}]
    BY <1>2 DEF DispatchStep, SendTurn, SendTurnFails, Bind, NotePending, StartTurn, TypeInv,
                TypeOK, CallOK, SendMuOK
  <2>2. \A m \in Stopped : m # call.m
    BY <2>1 DEF HaltInv
  <2>3. call'.step # "none" => call'.m = call.m
    BY <1>2, SameMessage
  <2>4. \A m \in Messages : m # call.m => state'[m] = state[m] /\ boundTo'[m] = boundTo[m]
    BY <1>0, <1>2 DEF DispatchStep, SendTurn, SendTurnFails, Bind, NotePending, StartTurn, Settles
  <2>. QED BY <1>0, <2>1, <2>2, <2>3, <2>4, HaltRests DEF HaltInv
<1>3. ASSUME NEW who \in {"projector", "worker", "reopener"}, Drain(who) PROVE HaltInv'
  <2>1. /\ UNCHANGED <<asked, boundTo, brake, halted>> /\ Stopped' = Stopped
        /\ holder = "none" /\ Waits(who) /\ cutoff' = 0
    BY <1>3 DEF Drain, Stopped
  <2>2. call = NoCall
    BY <2>1 DEF TypeInv, TypeOK, SendMuOK
  <2>3. CASE pending # NoTurn
    <3>1. cutoff = 0
      BY <1>3, <2>1, <2>3 DEF DrainsInTime
    <3>2. UNCHANGED <<state, call>>
      BY <1>3, <2>3 DEF Drain
    <3>. QED BY <2>1, <3>1, <3>2 DEF HaltInv
  <2>4. CASE pending = NoTurn
    <3>1. \A m \in Messages : state'[m] = (IF state[m] = "queued" /\ asked[m] <= cutoff
                                           THEN "interrupted" ELSE state[m])
      BY <1>3, <2>4 DEF Drain
    <3>2. \A m \in Stopped : state'[m] \notin {"queued", "running", "completed"}
      BY <1>0, <3>1 DEF HaltInv
    <3>3. call' = call \/ state'[call'.m] = "queued"
      BY <1>3, <2>4 DEF Drain, Dispatches
    <3>. QED BY <1>0, <2>1, <2>2, <3>2, <3>3 DEF HaltInv
  <2>. QED BY <2>3, <2>4
<1>4. CASE ProjectCompleted
  <2>1. Head(events).turn \in Turns
    BY <1>4, EventsType DEF ProjectCompleted, TypeInv, TypeOK, Events
  <2>2. \A m \in Stopped : state'[m] = state[m]
    BY <1>0, <1>4, <2>1 DEF ProjectCompleted, HaltInv
  <2>. QED BY <1>0, <1>4, <2>2, HaltRests DEF ProjectCompleted, HaltInv
<1>5. CASE EndOfStream
  <2>1. \A m \in Stopped : state'[m] \in {state[m], "failed"}
    BY <1>0, <1>5 DEF EndOfStream
  <2>. QED BY <1>0, <1>5, <2>1, HaltRests DEF EndOfStream, HaltInv
<1>6. ASSUME NEW t \in Turns, Announce(t) \/ Complete(t) PROVE HaltInv'
  BY <1>0, <1>6, HaltRests DEF Announce, Complete, HaltInv
<1>7. CASE ClearActive \/ Shut \/ Close \/ ProjectStarted \/ PollStep \/ CancelHandoff \/ UNCHANGED vars
  BY <1>0, <1>7, HaltRests
     DEF ClearActive, Shut, Close, ProjectStarted, PollStep, PollBusy, PollQueue, PollStopped,
         CancelHandoff, AbortHandoff, vars, HaltInv
<1>8. CASE BrakeRead \/ BrakeReadWorker
  <2>1. \A p \in Brakers : brake'[p] = brake[p] \/ (brake[p].pc = "idle" /\ brake'[p].pc = "cutting"
                                                     /\ brake'[p].behind = {})
    BY <1>8 DEF BrakeRead, BrakeReadWorker, TypeInv, TypeOK, BrakesOK
  <2>. QED BY <1>0, <1>8, <2>1, HaltRests DEF BrakeRead, BrakeReadWorker, HaltInv
<1>9. ASSUME NEW p \in Brakers, BrakeCut(p) PROVE HaltInv'
  <2>1. /\ \A q \in Brakers : q # p => brake'[q] = brake[q]
        /\ brake'[p].pc = "calling" /\ brake'[p].behind = Queued \ {call.m}
        /\ UNCHANGED <<asked, boundTo, state, call, halted>> /\ cutoff' = Asked
    BY <1>9 DEF BrakeCut, TypeInv, TypeOK, BrakesOK
  <2>2. Stopped' \subseteq Stopped \cup (Queued \ {call.m})
    BY <2>1 DEF Stopped
  <2>3. \A m \in Queued : asked[m] > 0 /\ boundTo[m] = NoTurn /\ m \in Messages
    BY <1>0 DEF Queued, NumberInv
  <2>4. \A m \in Stopped' : m \in Messages /\ asked[m] <= cutoff'
    BY <1>0, <2>1, <2>2, <2>3 DEF NumberInv
  <2>. QED BY <2>1, <2>2, <2>3, <2>4 DEF HaltInv, Queued
<1>10. ASSUME NEW p \in Brakers, BrakeAccepted(p) \/ BrakeRefused(p) \/ BrakeFails(p) PROVE HaltInv'
  <2>1. /\ brake[p].pc = "calling" /\ brake'[p] = NoBrake
        /\ \A q \in Brakers : q # p => brake'[q] = brake[q]
        /\ UNCHANGED <<asked, boundTo, state, call>>
    BY <1>10 DEF BrakeAccepted, BrakeRefused, BrakeFails, BrakeReturns, TypeInv, TypeOK, BrakesOK
  <2>2. \A q \in Brakers : q # p => brake[q].behind = {}
    BY <2>1 DEF StopsAlone, HaltInv
  <2>3. \A q \in Brakers : brake'[q].behind = {}
    BY <2>1, <2>2
  <2>4. \/ halted' = halted \cup brake[p].behind /\ cutoff' = cutoff
        \/ halted' = {}
    BY <1>10 DEF BrakeAccepted, BrakeRefused, BrakeFails
  <2>5. Stopped' = halted'
    BY <2>3 DEF Stopped
  <2>6. halted \cup brake[p].behind \subseteq Stopped
    BY DEF Stopped
  <2>. QED BY <2>1, <2>3, <2>4, <2>5, <2>6 DEF HaltInv
<1>11. ASSUME NEW policy \in {"drain", "interrupt"}, BeginHandoff(policy) PROVE HaltInv'
  <2>1. cutoff' = cutoff \/ \A m \in Messages : asked[m] <= cutoff'
    BY <1>11 DEF BeginHandoff, NumberInv
  <2>. QED BY <1>0, <1>11, <2>1, HaltRests DEF BeginHandoff, HaltInv
<1>. QED
  BY <1>1, <1>2, <1>3, <1>4, <1>5, <1>6, <1>7, <1>8, <1>9, <1>10, <1>11
     DEF Next, DrainStep, ProviderStep, ProjectStep, BrakeStep

\* What waited when a stop was accepted is not sent afterwards, whatever the driver
\* announces early, loses or fails, provided that stops do not overlap and that no drain
\* comes late enough to find the agent busy and drop the cutoff (drain, which resets
\* cancelQueuedAt before it looks at pendingTurnID): the two ways to lose it.
THEOREM StopsHold == Spec /\ [](StopsAlone /\ DrainsInTime) => []BrakeHolds
<1>1. Init => NumberInv /\ HaltInv
  <2> SUFFICES ASSUME Init PROVE NumberInv /\ HaltInv
    OBVIOUS
  <2>1. Asked \in Nat
    BY AskedType, MessagesAssumption, FS_CardinalityType
  <2>2. Stopped = {} /\ \A p \in Brakers : brake[p] = NoBrake
    BY DEF Init, Stopped
  <2>. QED BY <2>1, <2>2 DEF Init, NumberInv, HaltInv
<1>2. HaltInv => BrakeHolds
  BY DEF HaltInv, Stopped, BrakeHolds
<1>. QED BY <1>1, <1>2, TypeInit, TypeStep, NumberStep, HaltStep, PTL DEF Spec
=============================================================================
