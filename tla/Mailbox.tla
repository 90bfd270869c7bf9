------------------------------ MODULE Mailbox ------------------------------
(***************************************************************************)
(* What the outbox promises a sender: a message it was told was sent is     *)
(* kept until the agent has it or a channel that takes a message only once  *)
(* shows what became of it, and reaches the agent a second time only when   *)
(* it is in doubt whether it did the first time, and not through a channel  *)
(* that knows what it has already taken.  MessageOutbox is shown to         *)
(* implement it.                                                           *)
(***************************************************************************)
EXTENDS Sequences

CONSTANTS
  Msgs,     \* the messages
  Channels, \* the ways to the agent
  Deduping  \* the channels that take a message once

VARIABLES
  told,  \* messages whose sender was told that they were sent
  kept,  \* messages that are kept
  got,   \* what the agent got: <<channel, message>>
  doubt, \* messages of which it is not known whether the agent got them
  shown  \* messages a deduping channel shows, as waiting, sent, cancelled or failed

boxVars == <<told, kept, got, doubt, shown>>

HasGot(m) == \E i \in DOMAIN got : got[i][2] = m
TookFrom(c, m) == \E i \in DOMAIN got : got[i] = <<c, m>>

MailboxInit == told = {} /\ kept = {} /\ got = <<>> /\ doubt = {} /\ shown = {}

HandsOver(c, m) ==
  /\ HasGot(m) => m \in doubt
  /\ c \in Deduping => ~TookFrom(c, m)
  /\ got' = Append(got, <<c, m>>)

\* A new message is kept, put into a channel's queue, or handed over on the spot; the
\* hand-over may be reported as failed all the same.
Keep(m) ==
  /\ m \notin told
  /\ told' = told \cup {m} /\ kept' = kept \cup {m}
  /\ UNCHANGED <<got, doubt, shown>>

Queue(m) ==
  /\ m \notin told /\ Deduping # {}
  /\ told' = told \cup {m} /\ shown' = shown \cup {m}
  /\ UNCHANGED <<kept, got, doubt>>

Pass(c, m) ==
  /\ m \notin told
  /\ told' \in {told, told \cup {m}} /\ HandsOver(c, m)
  /\ UNCHANGED <<kept, doubt, shown>>

Deliver(c, m) ==
  /\ m \in kept \/ (c \in Deduping /\ m \in shown)
  /\ HandsOver(c, m)
  /\ doubt' \in {doubt, doubt \cup {m}}
  /\ UNCHANGED <<told, kept, shown>>

\* A deduping channel takes the message and shows it; the agent may have it.
Show(c, m) ==
  /\ m \in kept /\ c \in Deduping
  /\ shown' = shown \cup {m} /\ doubt' \in {doubt, doubt \cup {m}}
  /\ HandsOver(c, m) \/ UNCHANGED got
  /\ UNCHANGED <<told, kept>>

\* Only what the agent has got, or what is shown, is let go.
LetGo(m) ==
  /\ m \in kept /\ (HasGot(m) \/ m \in shown)
  /\ kept' = kept \ {m}
  /\ UNCHANGED <<told, got, doubt, shown>>

\* A message may have been handed over, and is kept or shown all the same.
BecomesDoubtful(m) ==
  /\ m \in kept \cup shown
  /\ doubt' = doubt \cup {m}
  /\ UNCHANGED <<told, kept, got, shown>>

MailboxNext ==
  \E m \in Msgs :
    \/ Keep(m) \/ Queue(m) \/ LetGo(m) \/ BecomesDoubtful(m)
    \/ \E c \in Channels : Pass(c, m) \/ Deliver(c, m) \/ Show(c, m)

MailboxSpec == MailboxInit /\ [][MailboxNext]_boxVars
=============================================================================
