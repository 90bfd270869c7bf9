------------------------------ MODULE EventFeed ------------------------------
(***************************************************************************)
(* What the change feed promises a client: the events of the log, in order, *)
(* none twice and none left out that is still in the log.  ChangeFeed is     *)
(* shown to implement it.                                                   *)
(***************************************************************************)
EXTENDS Naturals

CONSTANT MaxEvents \* bound on the events written

VARIABLES
  head, \* the highest sequence number given out
  log,  \* the events in the log
  last  \* the last event the client has

feedVars == <<head, log, last>>

FeedInit == head = 0 /\ log = {} /\ last = 0

AddRow ==
  /\ head < MaxEvents /\ head' = head + 1
  /\ log' = log \cup {head'}
  /\ UNCHANGED last

\* The events of a deleted session leave the log; some may be delivered all the same.
DropRows == \E gone \in SUBSET log : log' = log \ gone /\ UNCHANGED <<head, last>>

Deliver ==
  \E e \in (last + 1)..head :
    /\ \A f \in log : f <= last \/ e <= f
    /\ last' = e
    /\ UNCHANGED <<head, log>>

\* A client that starts over asks for everything again.
StartOver == last' = 0 /\ UNCHANGED <<head, log>>

FeedNext == AddRow \/ DropRows \/ Deliver \/ StartOver

FeedSpec == FeedInit /\ [][FeedNext]_feedVars
=============================================================================
