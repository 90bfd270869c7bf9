-------------------------- MODULE ChangeFeedProofs --------------------------
(***************************************************************************)
(* ChangeFeed stays in its type and implements EventFeed, for every size of *)
(* the pages and the buffer and any number of events, breaks and deaths.    *)
(*                                                                         *)
(* The client may receive the smallest frame because no row of the log lies *)
(* between what it has and that frame.  The gap is closed step by step: the *)
(* poller skips no row (PollInv), a page skips none (PageInv), and once the *)
(* last page is read every published row is in it or in the buffer, unless  *)
(* the buffer overflowed (JoinInv); so the frames written skip none         *)
(* (WireInv).                                                               *)
(*                                                                         *)
(* A page exists whatever the log lost, no row is stranded between the log *)
(* and the client, and the outbox and the feed keep their types side by    *)
(* side.                                                                   *)
(***************************************************************************)
EXTENDS MCDelivery, MessageOutboxProofs, TLAPS

\* No number runs ahead of the log, and a daemon that is down serves nobody.
HeadInv ==
  /\ lastSeq <= head /\ last <= head /\ sent <= head
  /\ \A e \in log \cup hand \cup page \cup buffer \cup wire : e <= head
  /\ ~up => stage = "off" /\ hand = {}

\* What the poller holds is new, and no row is missing before any of it.
PollInv ==
  /\ \A e \in hand : e > lastSeq
  /\ \A e \in hand, f \in log : lastSeq < f /\ f < e => f \in hand

\* A page lacks no unsent row before any of its rows.
PageInv ==
  /\ stage \notin {"page", "rest"} => page = {}
  /\ \A e \in page, f \in log : sent < f /\ f < e => f \in page

\* The join of replay and live: after the last page was read, a published row is sent, in
\* the page or in the buffer; and nothing is missing before a row of the buffer, even if
\* it overflowed.
JoinInv ==
  stage \in {"rest", "live"} =>
    /\ ~lost => \A f \in log : sent < f /\ f <= lastSeq => f \in buffer \cup page
    /\ \A e \in buffer, f \in log : sent < f /\ f < e => f \in buffer \cup page

\* The frames on their way are what the client lacks of what was sent.
WireInv ==
  /\ stage = "off" => wire = {}
  /\ stage # "off" => last <= sent
  /\ \A e \in wire : last < e /\ e <= sent
  /\ stage # "off" => \A f \in log : last < f /\ f <= sent => f \in wire

\* The two halves of the type invariant.
FlagsOK == stage \in Stages /\ up \in BOOLEAN /\ lost \in BOOLEAN
NumbersOK ==
  /\ head \in 0..MaxEvents /\ lastSeq \in 0..MaxEvents /\ sent \in 0..MaxEvents
  /\ last \in 0..MaxEvents
  /\ log \subseteq Events /\ hand \subseteq Events /\ page \subseteq Events
  /\ buffer \subseteq Events /\ wire \subseteq Events
  /\ breaks \in 0..MaxBreaks /\ deaths \in 0..MaxDeaths

FeedInv == FlagsOK /\ NumbersOK /\ HeadInv /\ PollInv /\ PageInv /\ JoinInv /\ WireInv

USE FeedBounds, SizesAssumption

\* Nothing was written and nobody is connected at first.
LEMMA FeedInvInit == ChangeInit => FeedInv
<1> SUFFICES ASSUME ChangeInit PROVE FeedInv
  OBVIOUS
<1>. USE DEF ChangeInit, FeedInv, Events, Stages
<1>1. FlagsOK
  BY DEF FlagsOK
<1>2. NumbersOK
  BY DEF NumbersOK
<1>3. HeadInv
  BY DEF HeadInv
<1>4. PollInv
  BY DEF PollInv
<1>5. PageInv
  BY DEF PageInv
<1>6. JoinInv
  BY DEF JoinInv
<1>7. WireInv
  BY DEF WireInv
<1>. QED BY <1>1, <1>2, <1>3, <1>4, <1>5, <1>6, <1>7

\* A new row is behind everything.
LEMMA AddRowKeeps == FeedInv /\ AddRow => FeedInv'
<1> SUFFICES ASSUME FeedInv /\ AddRow PROVE FeedInv'
  OBVIOUS
<1>. USE DEF AddRow, pollVars, streamVars, FeedInv, Events, Stages
<1>1. FlagsOK'
  BY DEF FlagsOK
<1>2. NumbersOK'
  BY DEF NumbersOK, HeadInv
<1>3. HeadInv'
  BY DEF HeadInv, NumbersOK
<1>4. PollInv'
  BY DEF PollInv, HeadInv, NumbersOK
<1>5. PageInv'
  BY DEF PageInv, HeadInv, NumbersOK
<1>6. JoinInv'
  BY DEF JoinInv, HeadInv, NumbersOK
<1>7. WireInv'
  BY DEF WireInv, HeadInv, NumbersOK
<1>. QED BY <1>1, <1>2, <1>3, <1>4, <1>5, <1>6, <1>7

\* Fewer rows can be missing.
LEMMA DropRowKeeps == ASSUME NEW e, FeedInv, DropRow(e) PROVE FeedInv'
<1>. USE DEF DropRow, pollVars, streamVars, FeedInv, Events, Stages
<1>1. FlagsOK'
  BY DEF FlagsOK
<1>2. NumbersOK'
  BY DEF NumbersOK, HeadInv
<1>3. HeadInv'
  BY DEF HeadInv, NumbersOK
<1>4. PollInv'
  BY DEF PollInv, NumbersOK
<1>5. PageInv'
  BY DEF PageInv, NumbersOK
<1>6. JoinInv'
  BY DEF JoinInv, NumbersOK
<1>7. WireInv'
  BY DEF WireInv, NumbersOK
<1>. QED BY <1>1, <1>2, <1>3, <1>4, <1>5, <1>6, <1>7

\* A poll reads a page: nothing is missing before any of its rows.
LEMMA PollKeeps == FeedInv /\ Poll => FeedInv'
<1> SUFFICES ASSUME FeedInv /\ Poll PROVE FeedInv'
  OBVIOUS
<1>. USE DEF Poll, IsPageAfter, logVars, streamVars, FeedInv, Events, Stages
<1>1. FlagsOK'
  BY DEF FlagsOK
<1>2. NumbersOK'
  BY DEF NumbersOK, HeadInv
<1>3. HeadInv'
  BY DEF HeadInv, NumbersOK
<1>4. PollInv'
  BY DEF PollInv, NumbersOK
<1>5. PageInv'
  BY DEF PageInv, NumbersOK
<1>6. JoinInv'
  BY DEF JoinInv, NumbersOK
<1>7. WireInv'
  BY DEF WireInv, NumbersOK
<1>. QED BY <1>1, <1>2, <1>3, <1>4, <1>5, <1>6, <1>7

\* What is published goes to the buffer or overflows it.
LEMMA PublishKeeps == ASSUME NEW e, FeedInv, Publish(e) PROVE FeedInv'
<1>. USE DEF Publish, IsFirst, logVars, FeedInv, Events, Stages
<1>1. FlagsOK'
  BY DEF FlagsOK
<1>2. NumbersOK'
  <2>1. e \in Events /\ hand' \subseteq hand /\ lastSeq' = e
    BY DEF NumbersOK
  <2>2. buffer' = buffer \/ buffer' = buffer \cup {e}
    OBVIOUS
  <2>3. UNCHANGED <<head, log, page, sent, wire, last, breaks, deaths>>
    OBVIOUS
  <2>4. /\ hand' \subseteq Events /\ buffer' \subseteq Events
        /\ UNCHANGED <<log, page, wire>>
    BY ONLY <2>1, <2>2, <2>3, NumbersOK DEF NumbersOK
  <2>5. lastSeq' \in 0..MaxEvents /\ UNCHANGED sent
    BY ONLY <2>1, <2>2, <2>3, NumbersOK, FeedBounds DEF NumbersOK, Events
  <2>. QED BY ONLY <2>3, <2>4, <2>5, NumbersOK DEF NumbersOK
<1>3. HeadInv'
  BY DEF HeadInv, NumbersOK
<1>4. PollInv'
  BY DEF PollInv, NumbersOK
<1>5. PageInv'
  BY DEF PageInv, NumbersOK
<1>6. JoinInv'
  <2>1. \A f \in log : f <= e => f = e \/ f <= lastSeq
    BY DEF PollInv, NumbersOK
  <2>2. lastSeq' = e /\ log' = log /\ stage' = stage /\ page' = page /\ sent' = sent
    OBVIOUS
  <2>3. CASE stage = "off" \/ lost
    BY <2>1, <2>2, <2>3 DEF JoinInv, NumbersOK
  <2>4. CASE stage # "off" /\ ~lost /\ Cardinality(buffer) < Buffer
    <3>1. buffer' = buffer \cup {e} /\ lost' = lost
      BY <2>4
    <3>. QED BY <2>1, <2>2, <2>4, <3>1 DEF JoinInv, NumbersOK
  <2>5. CASE stage # "off" /\ ~lost /\ ~(Cardinality(buffer) < Buffer)
    <3>1. buffer' = buffer /\ lost'
      BY <2>5
    <3>. QED BY <2>1, <2>2, <2>5, <3>1 DEF JoinInv, NumbersOK
  <2>. QED BY <2>3, <2>4, <2>5
<1>7. WireInv'
  BY DEF WireInv, NumbersOK
<1>. QED BY <1>1, <1>2, <1>3, <1>4, <1>5, <1>6, <1>7

\* A connection starts from what the client has.
LEMMA ConnectKeeps == FeedInv /\ Connect => FeedInv'
<1> SUFFICES ASSUME FeedInv /\ Connect PROVE FeedInv'
  OBVIOUS
<1>. USE DEF Connect, logVars, pollVars, FeedInv, Events, Stages
<1>1. FlagsOK'
  BY DEF FlagsOK
<1>2. NumbersOK'
  BY DEF NumbersOK
<1>3. HeadInv'
  BY DEF HeadInv, NumbersOK
<1>4. PollInv'
  BY DEF PollInv, NumbersOK
<1>5. PageInv'
  BY DEF PageInv, NumbersOK
<1>6. JoinInv'
  BY DEF JoinInv, NumbersOK
<1>7. WireInv'
  BY DEF WireInv, NumbersOK
<1>. QED BY <1>1, <1>2, <1>3, <1>4, <1>5, <1>6, <1>7

\* The last page holds every row that is not sent yet.
LEMMA ReadPageKeeps == FeedInv /\ ReadPage => FeedInv'
<1> SUFFICES ASSUME FeedInv /\ ReadPage PROVE FeedInv'
  OBVIOUS
<1>. USE DEF ReadPage, IsPageAfter, logVars, pollVars, FeedInv, Events, Stages
<1>1. FlagsOK'
  BY DEF FlagsOK
<1>2. NumbersOK'
  BY DEF NumbersOK, HeadInv
<1>3. HeadInv'
  BY DEF HeadInv, NumbersOK
<1>4. PollInv'
  BY DEF PollInv, NumbersOK
<1>5. PageInv'
  BY DEF PageInv, NumbersOK
<1>6. JoinInv'
  BY DEF JoinInv, NumbersOK
<1>7. WireInv'
  BY DEF WireInv, NumbersOK
<1>. QED BY <1>1, <1>2, <1>3, <1>4, <1>5, <1>6, <1>7

\* What is written from a page skips no row.
LEMMA WritePageKeeps == ASSUME NEW e, FeedInv, WritePage(e) PROVE FeedInv'
<1>. USE DEF WritePage, Write, IsFirst, logVars, pollVars, FeedInv, Events, Stages
<1>1. FlagsOK'
  BY DEF FlagsOK
<1>2. NumbersOK'
  <2>1. e \in Events /\ page' \subseteq page /\ UNCHANGED buffer
    BY DEF NumbersOK
  <2>2. \/ UNCHANGED <<sent, wire>>
        \/ sent' = e /\ wire' = wire \cup {e}
    OBVIOUS
  <2>3. UNCHANGED <<head, log, lastSeq, hand, last, breaks, deaths>>
    OBVIOUS
  <2>4. /\ page' \subseteq Events /\ wire' \subseteq Events
        /\ UNCHANGED <<log, hand, buffer>>
    BY ONLY <2>1, <2>2, <2>3, NumbersOK DEF NumbersOK
  <2>5. sent' \in 0..MaxEvents /\ UNCHANGED lastSeq
    BY ONLY <2>1, <2>2, <2>3, NumbersOK, FeedBounds DEF NumbersOK, Events
  <2>. QED BY ONLY <2>3, <2>4, <2>5, NumbersOK DEF NumbersOK
<1>3. HeadInv'
  BY DEF HeadInv, NumbersOK
<1>4. PollInv'
  BY DEF PollInv, NumbersOK
<1>5. PageInv'
  BY DEF PageInv, NumbersOK
<1>6. JoinInv'
  BY DEF JoinInv, PageInv, NumbersOK
<1>7. WireInv'
  <2>1. e \in Nat /\ sent \in Nat /\ last \in Nat /\ \A f \in log : f \in Nat
    BY DEF NumbersOK
  <2>2. \A f \in log : sent < f => e <= f
    BY <2>1 DEF PageInv, NumbersOK
  <2>3. stage # "off" /\ UNCHANGED <<stage, log, last>>
    OBVIOUS
  <2>4. CASE e <= sent
    BY <2>3, <2>4 DEF WireInv
  <2>5. CASE ~(e <= sent)
    <3>1. sent' = e /\ wire' = wire \cup {e}
      BY <2>5
    <3>. QED BY <2>1, <2>2, <2>3, <2>5, <3>1 DEF WireInv, NumbersOK
  <2>. QED BY <2>4, <2>5
<1>. QED BY <1>1, <1>2, <1>3, <1>4, <1>5, <1>6, <1>7

\* After the last page nothing is missing but what the buffer holds.
LEMMA EndPageKeeps == FeedInv /\ EndPage => FeedInv'
<1> SUFFICES ASSUME FeedInv /\ EndPage PROVE FeedInv'
  OBVIOUS
<1>. USE DEF EndPage, logVars, pollVars, FeedInv, Events, Stages
<1>1. FlagsOK'
  BY DEF FlagsOK
<1>2. NumbersOK'
  BY DEF NumbersOK, HeadInv
<1>3. HeadInv'
  BY DEF HeadInv, NumbersOK
<1>4. PollInv'
  BY DEF PollInv, NumbersOK
<1>5. PageInv'
  BY DEF PageInv, NumbersOK
<1>6. JoinInv'
  BY DEF JoinInv, PageInv, NumbersOK
<1>7. WireInv'
  BY DEF WireInv, NumbersOK
<1>. QED BY <1>1, <1>2, <1>3, <1>4, <1>5, <1>6, <1>7

\* What is written from the buffer skips no row.
LEMMA WriteLiveKeeps == ASSUME NEW e, FeedInv, WriteLive(e) PROVE FeedInv'
<1>. USE DEF WriteLive, Write, IsFirst, logVars, pollVars, FeedInv, Events, Stages
<1>1. FlagsOK'
  BY DEF FlagsOK
<1>2. NumbersOK'
  <2>1. e \in Events /\ buffer' \subseteq buffer /\ UNCHANGED page
    BY DEF NumbersOK
  <2>2. \/ UNCHANGED <<sent, wire>>
        \/ sent' = e /\ wire' = wire \cup {e}
    OBVIOUS
  <2>3. UNCHANGED <<head, log, lastSeq, hand, last, breaks, deaths>>
    OBVIOUS
  <2>4. /\ buffer' \subseteq Events /\ wire' \subseteq Events
        /\ UNCHANGED <<log, hand, page>>
    BY ONLY <2>1, <2>2, <2>3, NumbersOK DEF NumbersOK
  <2>5. sent' \in 0..MaxEvents /\ UNCHANGED lastSeq
    BY ONLY <2>1, <2>2, <2>3, NumbersOK, FeedBounds DEF NumbersOK, Events
  <2>. QED BY ONLY <2>3, <2>4, <2>5, NumbersOK DEF NumbersOK
<1>3. HeadInv'
  BY DEF HeadInv, NumbersOK
<1>4. PollInv'
  BY DEF PollInv, NumbersOK
<1>5. PageInv'
  BY DEF PageInv, NumbersOK
<1>6. JoinInv'
  BY DEF JoinInv, PageInv, NumbersOK
<1>7. WireInv'
  <2>1. e \in Nat /\ sent \in Nat /\ last \in Nat /\ \A f \in log : f \in Nat
    BY DEF NumbersOK
  <2>2. \A f \in log : sent < f => e <= f
    BY <2>1 DEF JoinInv, PageInv, NumbersOK
  <2>3. stage # "off" /\ UNCHANGED <<stage, log, last>>
    OBVIOUS
  <2>4. CASE e <= sent
    BY <2>3, <2>4 DEF WireInv
  <2>5. CASE ~(e <= sent)
    <3>1. sent' = e /\ wire' = wire \cup {e}
      BY <2>5
    <3>. QED BY <2>1, <2>2, <2>3, <2>5, <3>1 DEF WireInv, NumbersOK
  <2>. QED BY <2>4, <2>5
<1>. QED BY <1>1, <1>2, <1>3, <1>4, <1>5, <1>6, <1>7

\* Every end of a stream leaves nothing of it.
LEMMA EndsKeep == FeedInv /\ (EndLost \/ Break \/ Rebuild \/ FeedDies) => FeedInv'
<1> SUFFICES ASSUME FeedInv /\ (EndLost \/ Break \/ Rebuild \/ FeedDies) PROVE FeedInv'
  OBVIOUS
<1>. USE DEF EndLost, Break, Rebuild, FeedDies, EndStream, logVars, pollVars, FeedInv, Events, Stages
<1>1. FlagsOK'
  BY DEF FlagsOK
<1>1A. /\ page' = {} /\ buffer' = {} /\ wire' = {}
      /\ UNCHANGED <<head, log, lastSeq, sent>>
      /\ last' \in {last, 0} /\ hand' \in {hand, {}}
  OBVIOUS
<1>1B. breaks' \in 0..MaxBreaks /\ deaths' \in 0..MaxDeaths
  BY DEF NumbersOK
<1>2. NumbersOK'
  BY ONLY <1>1A, <1>1B, NumbersOK, FeedBounds DEF NumbersOK, Events
<1>3. HeadInv'
  <2>1. ~up' => stage' = "off" /\ hand' = {}
    BY DEF HeadInv
  <2>. QED BY ONLY <1>1A, <2>1, NumbersOK, HeadInv, FeedBounds DEF HeadInv, NumbersOK, Events
<1>4. PollInv'
  BY DEF PollInv, NumbersOK
<1>5. PageInv'
  BY DEF PageInv, NumbersOK
<1>6. JoinInv'
  BY DEF JoinInv, NumbersOK
<1>7. WireInv'
  BY DEF WireInv, NumbersOK
<1>. QED BY <1>1, <1>2, <1>3, <1>4, <1>5, <1>6, <1>7

\* The client takes the smallest frame.
LEMMA ReceiveKeeps == ASSUME NEW e, FeedInv, Receive(e) PROVE FeedInv'
<1>. USE DEF Receive, IsFirst, logVars, pollVars, FeedInv, Events, Stages
<1>1. FlagsOK'
  BY DEF FlagsOK
<1>2. NumbersOK'
  BY DEF NumbersOK, HeadInv
<1>3. HeadInv'
  BY DEF HeadInv, NumbersOK
<1>4. PollInv'
  BY DEF PollInv, NumbersOK
<1>5. PageInv'
  BY DEF PageInv, NumbersOK
<1>6. JoinInv'
  BY DEF JoinInv, NumbersOK
<1>7. WireInv'
  BY DEF WireInv, NumbersOK
<1>. QED BY <1>1, <1>2, <1>3, <1>4, <1>5, <1>6, <1>7

\* A daemon that is down has no stream to disturb.
LEMMA RestartKeeps == FeedInv /\ FeedRestarts => FeedInv'
<1> SUFFICES ASSUME FeedInv /\ FeedRestarts PROVE FeedInv'
  OBVIOUS
<1>. USE DEF FeedRestarts, logVars, streamVars, FeedInv, Events, Stages
<1>1. FlagsOK'
  BY DEF FlagsOK
<1>2. NumbersOK'
  BY DEF NumbersOK, HeadInv
<1>3. HeadInv'
  BY DEF HeadInv, NumbersOK
<1>4. PollInv'
  BY DEF PollInv, HeadInv, NumbersOK
<1>5. PageInv'
  BY DEF PageInv, NumbersOK
<1>6. JoinInv'
  BY DEF JoinInv, HeadInv, NumbersOK
<1>7. WireInv'
  BY DEF WireInv, NumbersOK
<1>. QED BY <1>1, <1>2, <1>3, <1>4, <1>5, <1>6, <1>7

\* Every step keeps the invariant.
LEMMA FeedInvStep == FeedInv /\ [ChangeNext]_changeVars => FeedInv'
<1> SUFFICES ASSUME FeedInv, [ChangeNext]_changeVars PROVE FeedInv'
  OBVIOUS
<1>1. CASE LogNext
  BY <1>1, AddRowKeeps, DropRowKeeps DEF LogNext
<1>2. CASE PollNext
  BY <1>2, PollKeeps, PublishKeeps DEF PollNext
<1>3. CASE StreamNext
  BY <1>3, ConnectKeeps, ReadPageKeeps, WritePageKeeps, EndPageKeeps, WriteLiveKeeps, EndsKeep,
     ReceiveKeeps DEF StreamNext
<1>4. CASE FeedDies
  BY <1>4, EndsKeep
<1>5. CASE FeedRestarts
  BY <1>5, RestartKeeps
<1>6. CASE UNCHANGED changeVars
  BY <1>6 DEF changeVars, logVars, pollVars, streamVars, FeedInv, FlagsOK, NumbersOK, HeadInv,
              PollInv, PageInv, JoinInv, WireInv
<1>. QED BY <1>1, <1>2, <1>3, <1>4, <1>5, <1>6 DEF ChangeNext

\* The change feed stays in its type, whatever the sizes of pages and buffer.
THEOREM FeedTypeCorrect == ChangeSpec => []ChangeTypeOK
<1>1. FeedInv => ChangeTypeOK
  BY DEF FeedInv, FlagsOK, NumbersOK, ChangeTypeOK
<1>. QED BY FeedInvInit, FeedInvStep, <1>1, PTL DEF ChangeSpec

\* A frame the client receives is the next event of the log, or one deleted before it.
LEMMA ReceiveDelivers == ASSUME NEW e \in wire, FeedInv, Receive(e) PROVE Feed!Deliver
<1>1. e \in (last + 1)..head
  BY DEF FeedInv, WireInv, HeadInv, NumbersOK, Events
<1>2. \A f \in log : f <= last \/ e <= f
  BY DEF Receive, IsFirst, FeedInv, WireInv, NumbersOK, Events
<1>. QED BY <1>1, <1>2 DEF Receive, Feed!Deliver, logVars

\* Every step is one of EventFeed, or changes nothing it speaks of.
LEMMA FeedStep == FeedInv /\ [ChangeNext]_changeVars => [Feed!FeedNext]_(Feed!feedVars)
<1> SUFFICES ASSUME FeedInv, [ChangeNext]_changeVars PROVE [Feed!FeedNext]_(Feed!feedVars)
  OBVIOUS
<1>. USE DEF Feed!FeedNext, Feed!feedVars, logVars
<1>1. CASE AddRow
  BY <1>1 DEF AddRow, Feed!AddRow
<1>2. ASSUME NEW e \in log, DropRow(e) PROVE Feed!DropRows
  BY <1>2 DEF DropRow, Feed!DropRows
<1>3. CASE PollNext
  BY <1>3 DEF PollNext, Poll, Publish
<1>4. CASE Rebuild
  BY <1>4 DEF Rebuild, Feed!StartOver
<1>5. ASSUME NEW e \in wire, Receive(e) PROVE Feed!Deliver
  BY <1>5, ReceiveDelivers
<1>6. CASE Connect \/ ReadPage \/ EndPage \/ EndLost \/ Break
  BY <1>6 DEF Connect, ReadPage, EndPage, EndLost, Break
<1>7. ASSUME NEW e, WritePage(e) \/ WriteLive(e) PROVE UNCHANGED <<head, log, last>>
  BY <1>7 DEF WritePage, WriteLive
<1>8. CASE FeedDies \/ FeedRestarts
  BY <1>8 DEF FeedDies, FeedRestarts
<1>9. CASE UNCHANGED changeVars
  BY <1>9 DEF changeVars
<1>. QED BY <1>1, <1>2, <1>3, <1>4, <1>5, <1>6, <1>7, <1>8, <1>9 DEF ChangeNext, LogNext, StreamNext

\* The change feed implements its abstract specification: the client sees the events of
\* the log in order, none twice and none left out.
THEOREM FeedIsImplemented == ChangeSpec => ImplementsFeed
<1>1. ChangeInit => Feed!FeedInit
  BY DEF ChangeInit, Feed!FeedInit
<1>. QED BY <1>1, FeedInvInit, FeedInvStep, FeedStep, PTL DEF ChangeSpec, ImplementsFeed, Feed!FeedSpec

-----------------------------------------------------------------------------
(* The pages of the log                                                    *)

\* A finite set of sets has a smallest one in it.
LEMMA SmallestSet ==
  ASSUME NEW A, IsFiniteSet(A), NEW C, C \subseteq SUBSET A, C # {}
  PROVE  \E X \in C : \A Y \in C : Y \subseteq X => Y = X
<1>1. IsWellFoundedOn(StrictSubsetOrdering(A), FiniteSubsetsOf(A))
  BY FS_StrictSubsetOrderingWellFounded
<1>2. C \subseteq FiniteSubsetsOf(A)
  BY FS_FiniteSubsetsOfFinite
<1>3. PICK X \in C : \A Y \in C : ~(<<Y, X>> \in StrictSubsetOrdering(A))
  BY <1>1, <1>2, WFMin
<1>4. ASSUME NEW Y \in C, Y \subseteq X, Y # X PROVE FALSE
  <2>1. <<Y, X>> \in StrictSubsetOrdering(A)
    BY <1>4 DEF StrictSubsetOrdering
  <2>. QED BY <1>3, <2>1
<1>. QED BY <1>4

\* A finite set of numbers has a first one.
LEMMA FirstExists ==
  ASSUME NEW A, A \subseteq Nat, IsFiniteSet(A), A # {}
  PROVE  \E e \in A : IsFirst(e, A)
<1>. DEFINE UpTo(e) == {f \in A : f <= e}
            C == {UpTo(e) : e \in A}
<1>1. PICK e \in A : \A f \in A : UpTo(f) \subseteq UpTo(e) => UpTo(f) = UpTo(e)
  <2>1. C \subseteq SUBSET A /\ C # {}
    OBVIOUS
  <2>2. PICK X \in C : \A Y \in C : Y \subseteq X => Y = X
    <3>1. IsFiniteSet(A)
      OBVIOUS
    <3>. HIDE DEF C
    <3>. QED BY ONLY <2>1, <3>1, SmallestSet
  <2>3. PICK e \in A : X = UpTo(e)
    OBVIOUS
  <2>4. \A f \in A : UpTo(f) \in C
    OBVIOUS
  <2>. HIDE DEF C, UpTo
  <2>. QED BY <2>2, <2>3, <2>4
<1>2. ASSUME NEW f \in A, f < e PROVE FALSE
  <2>1. UpTo(f) \subseteq UpTo(e)
    <3>1. ASSUME NEW g \in A, g <= f PROVE g <= e
      BY <1>2, <3>1
    <3>. QED BY <3>1
  <2>2. e \in UpTo(e) /\ e \notin UpTo(f)
    BY <1>2
  <2>. QED BY <1>1, <2>1, <2>2
<1>. QED BY <1>2 DEF IsFirst

\* There is a page after every number: as long as it is not full, it can take the first
\* of the rows it lacks.
LEMMA PageExists ==
  ASSUME IsFiniteSet(log), log \in SUBSET Nat, NEW seq \in Nat
  PROVE  \E answer \in SUBSET log : IsPageAfter(seq, answer)
<1>. DEFINE After == {f \in log : f > seq}
            Front(S) == /\ Cardinality(S) <= Batch
                        /\ \A e \in S, f \in After \ S : e < f
            C == {R \in SUBSET After : Front(After \ R)}
<1>1. IsFiniteSet(After) /\ After \in SUBSET Nat
  BY FS_Subset
<1>2. After \in C
  BY FS_EmptySet
<1>3. PICK R \in C : \A Y \in C : Y \subseteq R => Y = R
  <2>1. C \subseteq SUBSET After /\ C # {}
    BY <1>2
  <2>2. IsFiniteSet(After)
    BY <1>1
  <2>. HIDE DEF C, After
  <2>. QED BY ONLY <2>1, <2>2, SmallestSet
<1>. DEFINE S == After \ R
<1>4. /\ S \subseteq After /\ R = After \ S /\ Front(S)
      /\ IsFiniteSet(S) /\ Cardinality(S) \in Nat
  BY <1>1, <1>3, FS_Subset, FS_CardinalityType
<1>5. ASSUME S # After, Cardinality(S) # Batch PROVE FALSE
  <2>1. PICK e \in R : IsFirst(e, R)
    <3>1. R \subseteq Nat /\ IsFiniteSet(R) /\ R # {}
      BY <1>1, <1>4, <1>5, FS_Subset
    <3>. QED BY ONLY <3>1, FirstExists
  <2>2. Cardinality(S \cup {e}) = Cardinality(S) + 1
    BY <1>4, <2>1, FS_AddElement
  <2>3. After \ (R \ {e}) = S \cup {e}
    BY <1>4, <2>1
  <2>4. Front(S \cup {e})
    <3>1. Cardinality(S \cup {e}) <= Batch
      BY <1>4, <1>5, <2>2
    <3>2. ASSUME NEW f \in S \cup {e}, NEW g \in After \ (S \cup {e}) PROVE f < g
      BY <1>1, <1>4, <2>1, <3>2 DEF IsFirst
    <3>. QED BY <3>1, <3>2
  <2>5. R \ {e} \in C
    BY <1>3, <2>3, <2>4
  <2>. QED BY <1>3, <2>1, <2>5
<1>6. IsPageAfter(seq, S)
  BY <1>4, <1>5 DEF IsPageAfter
<1>. QED BY <1>4, <1>6

\* And there is only one: a row that one of two pages lacks would lie before and behind
\* what the other lacks.
LEMMA PageIsUnique ==
  ASSUME IsFiniteSet(log), log \in SUBSET Nat, NEW seq \in Nat,
         NEW r \in SUBSET log, NEW s \in SUBSET log, IsPageAfter(seq, r), IsPageAfter(seq, s)
  PROVE  r = s
<1>1. ASSUME NEW a \in SUBSET log, NEW b \in SUBSET log, NEW e \in a \ b,
             IsPageAfter(seq, a), IsPageAfter(seq, b)
      PROVE  \E g \in b \ a : g < e
  <2>1. Cardinality(b) = Batch /\ (\A g \in b : g < e) /\ Cardinality(a) <= Batch
    BY <1>1 DEF IsPageAfter
  <2>2. ASSUME b \subseteq a PROVE FALSE
    <3>1. IsFiniteSet(a) /\ IsFiniteSet(b) /\ Cardinality(b) \in Nat
      BY FS_Subset, FS_CardinalityType
    <3>2. Cardinality(b \cup {e}) = Cardinality(b) + 1
      BY <3>1, FS_AddElement
    <3>3. Cardinality(b \cup {e}) <= Cardinality(a)
      BY <2>2, <3>1, FS_Subset
    <3>4. Cardinality(b) + 1 <= Cardinality(a) /\ Cardinality(a) \in Nat
      BY <3>1, <3>2, <3>3, FS_CardinalityType
    <3>. QED BY <2>1, <3>1, <3>4
  <2>. QED BY <2>1, <2>2
<1>2. ASSUME NEW a \in SUBSET log, NEW b \in SUBSET log, NEW e \in a \ b,
             IsPageAfter(seq, a), IsPageAfter(seq, b)
      PROVE  FALSE
  <2>1. PICK g \in b \ a : g < e
    BY <1>1, <1>2
  <2>2. e \in log /\ g \in log /\ e > seq /\ g > seq
    BY <1>2 DEF IsPageAfter
  <2>3. e < g
    BY <1>2, <2>2 DEF IsPageAfter
  <2>. QED BY <2>1, <2>2, <2>3
<1>. QED BY <1>2

\* After every offset there is one page and no other.
PagesAreTold ==
  \A seq \in 0..MaxEvents :
    \E answer \in SUBSET log :
      /\ IsPageAfter(seq, answer)
      /\ \A other \in SUBSET log : IsPageAfter(seq, other) => other = answer

\* EventsAfter answers every request, and in one way only, whatever was deleted from the
\* log and however many rows a page takes: neither the poller nor a replay is ever left
\* without a page to go on with, so Poll and ReadPage never wait on their guards.
THEOREM EveryPageExists == ChangeSpec => []PagesAreTold
<1>1. FeedInv => PagesAreTold
  <2>. SUFFICES ASSUME FeedInv, NEW seq \in 0..MaxEvents
               PROVE  \E answer \in SUBSET log :
                        /\ IsPageAfter(seq, answer)
                        /\ \A other \in SUBSET log : IsPageAfter(seq, other) => other = answer
    BY DEF PagesAreTold
  <2>1. log \in SUBSET Nat /\ IsFiniteSet(log) /\ seq \in Nat
    <3>1. log \in SUBSET Events /\ MaxEvents \in Nat /\ Events = 1..MaxEvents
      BY DEF FeedInv, NumbersOK, Events
    <3>2. IsFiniteSet(Events)
      BY <3>1, FS_Interval
    <3>3. IsFiniteSet(log)
      BY <3>1, <3>2, FS_Subset
    <3>. QED BY <3>1, <3>3
  <2>. QED BY <2>1, PageExists, PageIsUnique
<1>. QED BY <1>1, FeedInvInit, FeedInvStep, PTL DEF ChangeSpec

-----------------------------------------------------------------------------
(* No row is stranded                                                      *)

\* While a stream is served, each row its client lacks is written, in the page or in the
\* buffer, or still to be published, or still to be read by the replay.
RowsAreUnderWay ==
  stage # "off" /\ ~lost =>
    \A f \in log : last < f =>
      \/ f \in wire \cup page \cup buffer
      \/ f > lastSeq
      \/ stage \in {"replay", "page"} /\ f > sent

\* A stream with nothing left to do has told its client everything.
Settled == stage = "live" /\ ~lost /\ wire = {} /\ buffer = {} /\ \A f \in log : f <= lastSeq
SettledIsComplete == Settled => \A f \in log : f <= last

\* The safety half of FeedCatchesUp: a row is never behind the poller's cursor and the
\* replay and yet in nobody's hands (the subscription is taken before the replay starts,
\* and an event that does not fit in the buffer cancels the stream).
THEOREM NoRowIsStranded == ChangeSpec => [](RowsAreUnderWay /\ SettledIsComplete)
<1>1. FeedInv => RowsAreUnderWay
  BY DEF FeedInv, FlagsOK, NumbersOK, JoinInv, WireInv, RowsAreUnderWay, Stages, Events
<1>2. FeedInv /\ RowsAreUnderWay => SettledIsComplete
  BY DEF FeedInv, NumbersOK, PageInv, RowsAreUnderWay, SettledIsComplete, Settled, Events
<1>. QED BY <1>1, <1>2, FeedInvInit, FeedInvStep, PTL DEF ChangeSpec

-----------------------------------------------------------------------------
(* The two deliveries side by side                                         *)

\* A run of the composition is a run of the outbox and a run of the change feed.
LEMMA DeliveriesAreRuns == DeliverySpec => OutboxSpec /\ ChangeSpec
<1>1. DeliveryInit => OutboxInit /\ ChangeInit
  BY DEF DeliveryInit
<1>2. [OutboxMoves \/ FeedMoves]_deliveryVars => [OutboxNext]_outVars /\ [ChangeNext]_changeVars
  BY DEF OutboxMoves, FeedMoves, deliveryVars
<1>. QED BY <1>1, <1>2, PTL DEF DeliverySpec, OutboxSpec, ChangeSpec

\* The rows of the outbox and the cursors of the feed stay in their types side by side.
THEOREM DeliveryTypeCorrect == DeliverySpec => []DeliveryTypeOK
<1>1. OutboxTypeOK /\ ChangeTypeOK => DeliveryTypeOK
  BY DEF DeliveryTypeOK
<1>. QED BY <1>1, DeliveriesAreRuns, OutboxTypeCorrect, FeedTypeCorrect, PTL
=============================================================================
