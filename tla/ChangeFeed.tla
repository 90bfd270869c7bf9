----------------------------- MODULE ChangeFeed -----------------------------
(***************************************************************************)
(* The change feed: rows that triggers add to change_log, the poller that   *)
(* tails it (cdc/poller.go), the broadcaster, and the SSE stream of one      *)
(* client (httpd/events.go), which subscribes to the broadcaster, replays    *)
(* the log from the client's offset and then goes on with what the          *)
(* subscription buffered.  Rows are read in pages, the poller and the        *)
(* stream run side by side, rows of deleted sessions vanish, the buffer      *)
(* overflows, connections break with frames in flight, and the daemon dies. *)
(*                                                                         *)
(* Every buffer is a set of sequence numbers: all are filled in ascending   *)
(* order and emptied from the smallest.                                     *)
(***************************************************************************)
EXTENDS Naturals, FiniteSets

CONSTANTS
  MaxEvents, \* bound on the events written
  Batch,     \* DefaultBatch and eventsReplayBatch: rows read at once
  Buffer,    \* eventsLiveBuffer: the events a stream holds back
  MaxBreaks, \* bound on broken streams and rebuilt EventSources
  MaxDeaths  \* bound on the deaths of the daemon

ASSUME FeedBounds == MaxEvents \in Nat /\ MaxBreaks \in Nat /\ MaxDeaths \in Nat
ASSUME SizesAssumption == Batch \in Nat \ {0} /\ Buffer \in Nat \ {0}

VARIABLES
  head,    \* the highest sequence number given out (AUTOINCREMENT)
  log,     \* change_log: the rows that are there
  lastSeq, \* the poller's cursor
  hand,    \* the rows of a poll that are not published yet
  up,      \* the daemon runs
  stage,   \* the stream handler: off, replay, page (of several), rest (the last page), live
  page,    \* the replayed rows that are not written yet
  buffer,  \* live: the events the subscription holds
  lost,    \* the buffer overflowed and the stream was cancelled
  sent,    \* sentSeq of the stream
  wire,    \* frames written and not received
  last,    \* the client's Last-Event-ID
  breaks, deaths \* counted against their bounds

logVars    == <<head, log>>
pollVars   == <<lastSeq, hand>>
streamVars == <<stage, page, buffer, lost, sent, wire>>
changeVars == <<logVars, pollVars, up, streamVars, last, breaks, deaths>>

Events == 1..MaxEvents
Stages == {"off", "replay", "page", "rest", "live"}

ChangeTypeOK ==
  /\ head \in 0..MaxEvents /\ lastSeq \in 0..MaxEvents /\ sent \in 0..MaxEvents
  /\ last \in 0..MaxEvents
  /\ log \subseteq Events /\ hand \subseteq Events /\ page \subseteq Events
  /\ buffer \subseteq Events /\ wire \subseteq Events
  /\ stage \in Stages /\ up \in BOOLEAN /\ lost \in BOOLEAN
  /\ breaks \in 0..MaxBreaks /\ deaths \in 0..MaxDeaths

ChangeInit ==
  /\ head = 0 /\ log = {} /\ lastSeq = 0 /\ hand = {} /\ up = TRUE
  /\ stage = "off" /\ page = {} /\ buffer = {} /\ lost = FALSE /\ sent = 0 /\ wire = {}
  /\ last = 0 /\ breaks = 0 /\ deaths = 0

-----------------------------------------------------------------------------
(* The log                                                                 *)

IsFirst(e, set) == e \in set /\ \A f \in set : e <= f

\* EventsAfter: the first Batch rows after a sequence number, one consistent read.
IsPageAfter(seq, rows) ==
  /\ rows \subseteq log /\ Cardinality(rows) <= Batch
  /\ \A e \in rows : e > seq
  /\ \A f \in log \ rows : f > seq => /\ \A e \in rows : e < f
                                      /\ Cardinality(rows) = Batch

AddRow ==
  /\ up /\ head < MaxEvents
  /\ head' = head + 1 /\ log' = log \cup {head'}
  /\ UNCHANGED <<pollVars, up, streamVars, last, breaks, deaths>>

\* DeleteSession drops the rows of a session that never started.
DropRow(e) ==
  /\ up /\ e \in log
  /\ log' = log \ {e}
  /\ UNCHANGED <<head, pollVars, up, streamVars, last, breaks, deaths>>

-----------------------------------------------------------------------------
(* The poller                                                              *)

Poll ==
  /\ up /\ hand = {} /\ \E e \in log : e > lastSeq
  /\ hand' \in SUBSET log /\ IsPageAfter(lastSeq, hand')
  /\ UNCHANGED <<logVars, lastSeq, up, streamVars, last, breaks, deaths>>

\* Fault: a full subscription drops the event and the stream goes on.
PublishOrDrop(e) ==
  /\ up /\ IsFirst(e, hand)
  /\ hand' = hand \ {e} /\ lastSeq' = e
  /\ buffer' = IF stage # "off" /\ Cardinality(buffer) < Buffer THEN buffer \cup {e} ELSE buffer
  /\ UNCHANGED <<logVars, up, stage, page, lost, sent, wire, last, breaks, deaths>>

\* The callback of a full subscription cancels its stream.  The stream may still write
\* what is buffered, never what comes after: Go's select picks the cancellation long
\* before it has emptied a buffer of eventsLiveBuffer events.
Publish(e) ==
  /\ up /\ IsFirst(e, hand)
  /\ hand' = hand \ {e} /\ lastSeq' = e
  /\ IF stage = "off" \/ lost THEN UNCHANGED <<buffer, lost>>
     ELSE IF Cardinality(buffer) < Buffer
          THEN buffer' = buffer \cup {e} /\ UNCHANGED lost
          ELSE lost' = TRUE /\ UNCHANGED buffer
  /\ UNCHANGED <<logVars, up, stage, page, sent, wire, last, breaks, deaths>>

-----------------------------------------------------------------------------
(* The stream of a client                                                  *)

\* Fault: a stream starts from the poller's cursor.
ConnectAtHead ==
  /\ up /\ stage = "off"
  /\ stage' = "replay" /\ sent' = lastSeq
  /\ page' = {} /\ buffer' = {} /\ lost' = FALSE /\ wire' = {}
  /\ UNCHANGED <<logVars, pollVars, up, last, breaks, deaths>>

\* The subscription comes before the replay.
Connect ==
  /\ up /\ stage = "off"
  /\ stage' = "replay" /\ sent' = last
  /\ page' = {} /\ buffer' = {} /\ lost' = FALSE /\ wire' = {}
  /\ UNCHANGED <<logVars, pollVars, up, last, breaks, deaths>>

\* A page that is not full is the last one; a cancelled stream reads no other.
ReadPage ==
  /\ stage = "replay" /\ ~lost
  /\ page' \in SUBSET log /\ IsPageAfter(sent, page')
  /\ stage' = IF Cardinality(page') = Batch THEN "page" ELSE "rest"
  /\ UNCHANGED <<logVars, pollVars, up, buffer, lost, sent, wire, last, breaks, deaths>>

\* writeSSEEvent: what was sent before is left out.
Write(e) ==
  IF e <= sent THEN UNCHANGED <<sent, wire>>
               ELSE sent' = e /\ wire' = wire \cup {e}

WritePage(e) ==
  /\ stage \in {"page", "rest"} /\ IsFirst(e, page)
  /\ page' = page \ {e} /\ Write(e)
  /\ UNCHANGED <<logVars, pollVars, up, stage, buffer, lost, last, breaks, deaths>>

EndPage ==
  /\ stage \in {"page", "rest"} /\ page = {}
  /\ stage' = IF stage = "page" THEN "replay" ELSE "live"
  /\ UNCHANGED <<logVars, pollVars, up, page, buffer, lost, sent, wire, last, breaks, deaths>>

WriteLive(e) ==
  /\ stage = "live" /\ IsFirst(e, buffer)
  /\ buffer' = buffer \ {e} /\ Write(e)
  /\ UNCHANGED <<logVars, pollVars, up, stage, page, lost, last, breaks, deaths>>

EndStream ==
  /\ stage' = "off" /\ page' = {} /\ buffer' = {} /\ lost' = FALSE /\ wire' = {}
  /\ UNCHANGED sent

\* The cancelled stream ends where it looks at its context.
EndLost ==
  /\ lost /\ stage \in {"replay", "live"}
  /\ EndStream
  /\ UNCHANGED <<logVars, pollVars, up, last, breaks, deaths>>

\* The connection breaks or the log cannot be read: frames in flight are lost.
Break ==
  /\ stage # "off" /\ breaks < MaxBreaks /\ breaks' = breaks + 1
  /\ EndStream
  /\ UNCHANGED <<logVars, pollVars, up, last, deaths>>

\* The client received a frame; the EventSource asks for what follows when it reconnects.
Receive(e) ==
  /\ IsFirst(e, wire)
  /\ wire' = wire \ {e} /\ last' = e
  /\ UNCHANGED <<logVars, pollVars, up, stage, page, buffer, lost, sent, breaks, deaths>>

\* A new EventSource (a new port, or the browser gave the old one up) knows no offset.
Rebuild ==
  /\ breaks < MaxBreaks /\ breaks' = breaks + 1
  /\ EndStream /\ last' = 0
  /\ UNCHANGED <<logVars, pollVars, up, deaths>>

-----------------------------------------------------------------------------
(* The daemon                                                              *)

FeedDies ==
  /\ up /\ up' = FALSE
  /\ deaths < MaxDeaths /\ deaths' = deaths + 1
  /\ hand' = {} /\ EndStream
  /\ UNCHANGED <<logVars, lastSeq, last, breaks>>

\* Fault: the poller starts behind the row that will be written next.
SeekPastHead ==
  /\ ~up /\ up' = TRUE
  /\ lastSeq' = head + 1
  /\ UNCHANGED <<logVars, hand, streamVars, last, breaks, deaths>>

\* SeekToHead: the poller starts from the highest row there is.
FeedRestarts ==
  /\ ~up /\ up' = TRUE
  /\ lastSeq' \in log \cup {0} /\ \A e \in log : e <= lastSeq'
  /\ UNCHANGED <<logVars, hand, streamVars, last, breaks, deaths>>

-----------------------------------------------------------------------------
LogNext == AddRow \/ \E e \in log : DropRow(e)
PollNext == Poll \/ \E e \in hand : Publish(e)
StreamNext ==
  \/ Connect \/ ReadPage \/ EndPage \/ EndLost \/ Break \/ Rebuild
  \/ \E e \in page : WritePage(e)
  \/ \E e \in buffer : WriteLive(e)
  \/ \E e \in wire : Receive(e)

ChangeNext == LogNext \/ PollNext \/ StreamNext \/ FeedDies \/ FeedRestarts

\* The poller's ticker, the stream's goroutine, the network and the browser's reconnect
\* go on, a cancelled stream ends and a daemon is started again.
StreamStep ==
  \/ Connect \/ ReadPage \/ EndPage
  \/ \E e \in page : WritePage(e)
  \/ \E e \in buffer : WriteLive(e)

ChangeFairness ==
  /\ WF_changeVars(PollNext) /\ WF_changeVars(StreamStep) /\ WF_changeVars(EndLost)
  /\ WF_changeVars(\E e \in wire : Receive(e)) /\ WF_changeVars(FeedRestarts)

ChangeSpec == ChangeInit /\ [][ChangeNext]_changeVars
LiveChange == ChangeSpec /\ ChangeFairness

-----------------------------------------------------------------------------
(* Properties                                                              *)

Feed == INSTANCE EventFeed

\* The client sees the events of the log in order, none twice and none left out, over
\* every join of replay and live events, overflow, break and restart.
ImplementsFeed == Feed!FeedSpec

\* Every event reaches the client, unless it is deleted first: no overflow, break, death
\* or rebuild leaves the client behind for good.
FeedCatchesUp == \A e \in Events : [](e \in log => <>(e \notin log \/ last >= e))
=============================================================================
