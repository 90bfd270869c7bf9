--------------------------- MODULE SharedTerminal ---------------------------
(***************************************************************************)
(* One terminal watched by several clients (terminal/manager.go and         *)
(* attachment.go).  Every client has an attachment of its own, driven by a   *)
(* goroutine that attaches, flushes what was typed too early, re-attaches    *)
(* and reports the end; the manager keeps one grid for all of them and a    *)
(* gate that a controller handoff closes against keystrokes.  The            *)
(* connection, the attachment and the manager have a lock each, taken one   *)
(* after the other: an exit, a close, a reopen and a drain meet in any order.*)
(***************************************************************************)
EXTENDS Integers, Sequences, FiniteSets

CONSTANTS
  Clients,    \* client connections
  Primaries,  \* the clients that drive the size
  Grids,      \* the grids a client may ask for: <<columns, rows>>, both positive
  Drains,     \* handoffs and deliveries that may hold the input gate
  MaxOpens,   \* bound on the times the terminal is opened
  MaxKeys     \* bound on the keystrokes accepted

ASSUME ClientsAssumption == IsFiniteSet(Clients) /\ Primaries \subseteq Clients
ASSUME GridsAssumption == Grids \subseteq (Nat \ {0}) \X (Nat \ {0})
ASSUME TermBoundsAssumption == MaxOpens \in Nat /\ MaxKeys \in Nat

VARIABLES
  up,      \* the client is connected
  owner,   \* the client of each attachment opened so far
  terms,   \* connState.terms: the client's open attachment
  member,  \* sharedTerm.members: the attachment and the grid the client contributes
  evicted, \* history: clients whose reopened terminal an older attachment's end took off the grid
  auth,    \* sharedTerm.authCols, authRows: the grid of the shared terminal
  att,     \* the attachments
  blocked, \* inputBlocked: how many drains hold the gate
  lastInputAt, \* the last keystroke the gate let through
  snap,    \* the lastInputAt each drain was given
  keys     \* the keystrokes that reached the pane

termVars == <<up, owner, terms, member, evicted, auth, att, blocked, lastInputAt, snap, keys>>
input == <<blocked, lastInputAt, snap, keys>>
sharing == <<up, owner, terms, member, evicted, auth>>

NoGrid == <<0, 0>>
NoAtt == 0
Atts == 1..MaxOpens
NoMember == [att |-> NoAtt, grid |-> NoGrid]
NotHeld == -1

\* run: at the head of its loop; dead: gave up; leave, tell, told: inside onExit.
Stages == {"new", "run", "flush", "live", "stopped", "dead", "exit", "leave", "tell", "told"}
Exited == {"exit", "leave", "tell", "told"}

TermTypeOK ==
  /\ up \in [Clients -> BOOLEAN] /\ owner \in Seq(Clients) /\ Len(owner) <= MaxOpens
  /\ terms \in [Clients -> Atts \cup {NoAtt}]
  /\ \A c \in Clients : /\ member[c].att \in Atts \cup {NoAtt}
                        /\ member[c].grid \in Grids \cup {NoGrid}
  /\ evicted \subseteq Clients /\ auth \in Grids \cup {NoGrid}
  /\ \A a \in Atts : /\ att[a].stage \in Stages /\ att[a].closed \in BOOLEAN
                     /\ att[a].grid \in Grids \cup {NoGrid}
                     /\ att[a].pending \in Seq(1..MaxKeys) /\ att[a].hand \in Seq(1..MaxKeys)
  /\ blocked \in Nat /\ lastInputAt \in 0..MaxKeys
  /\ snap \in [Drains -> (0..MaxKeys) \cup {NotHeld}]
  /\ keys \in Seq(Clients \X (1..MaxKeys))

Fresh == [stage |-> "new", closed |-> FALSE, grid |-> NoGrid, pending |-> <<>>, hand |-> <<>>]

TermInit ==
  /\ up = [c \in Clients |-> TRUE] /\ owner = <<>>
  /\ terms = [c \in Clients |-> NoAtt] /\ member = [c \in Clients |-> NoMember]
  /\ evicted = {} /\ auth = NoGrid
  /\ att = [a \in Atts |-> Fresh]
  /\ blocked = 0 /\ lastInputAt = 0 /\ snap = [d \in Drains |-> NotHeld]
  /\ keys = <<>>

-----------------------------------------------------------------------------
(* The shared grid                                                         *)

Viewers(mem) == {c \in Clients : mem[c].att # NoAtt}
Area(grid) == grid[1] * grid[2]

\* The primaries' grids if one has reported a size, else everybody's.
Candidates(mem) ==
  LET sized == {c \in Viewers(mem) : mem[c].grid # NoGrid}
      leading == sized \cap Primaries
  IN {mem[c].grid : c \in IF leading # {} THEN leading ELSE sized}

\* largestGrid: ties fall to whichever client the map iteration meets first.
LargestGrids(mem) == {g \in Candidates(mem) : \A h \in Candidates(mem) : Area(h) <= Area(g)}

\* Every viewer's attachment is told the grid of the terminal.
Resized(mem, base, grid) ==
  [a \in Atts |-> IF \E c \in Viewers(mem) : mem[c].att = a
                  THEN [base[a] EXCEPT !.grid = grid] ELSE base[a]]

\* reconcileLocked; an entry nobody views is dropped, and with it its grid.
Reconcile(mem, base) ==
  IF Viewers(mem) = {} THEN auth' = NoGrid /\ att' = base
  ELSE \/ Candidates(mem) = {} /\ auth' = auth /\ att' = base
       \/ \E grid \in LargestGrids(mem) : auth' = grid /\ att' = Resized(mem, base, grid)

\* Fault: who leaves does not settle the grid anew.
LeaveQuietly(c, base) ==
  /\ member' = [member EXCEPT ![c] = NoMember]
  /\ UNCHANGED auth /\ att' = base

\* leaveTerminal: the client's membership goes, whichever attachment it stands for.
Leave(c, base) ==
  /\ member' = [member EXCEPT ![c] = NoMember]
  /\ IF member[c].att = NoAtt THEN UNCHANGED auth /\ att' = base
                              ELSE Reconcile(member', base)

-----------------------------------------------------------------------------
(* The client connection                                                   *)

Set(a, stage) == [att EXCEPT ![a].stage = stage]

\* openTerminal: the attachment joins the shared grid before its goroutine starts.
\* A joiner of a sized terminal is resized even if the grid did not change.
Open(c, grid) ==
  /\ up[c] /\ terms[c] = NoAtt /\ Len(owner) < MaxOpens
  /\ LET a == Len(owner) + 1
     IN /\ owner' = Append(owner, c)
        /\ terms' = [terms EXCEPT ![c] = a]
        /\ member' = [member EXCEPT ![c] = [att |-> a, grid |-> grid]]
        /\ evicted' = evicted \ {c}
        /\ Reconcile(member', [att EXCEPT ![a] = [Fresh EXCEPT !.stage = "run", !.grid = auth]])
  /\ UNCHANGED <<up, input>>

\* updateTerminalSize.
Resize(c, grid) ==
  /\ up[c] /\ member[c].att # NoAtt /\ member[c].grid # grid
  /\ member' = [member EXCEPT ![c].grid = grid]
  /\ Reconcile(member', att)
  /\ UNCHANGED <<up, owner, terms, evicted, input>>

\* close() of an attachment drops what was typed and not flushed.
Closed(a) == IF a = NoAtt THEN att
             ELSE [att EXCEPT ![a] = [@ EXCEPT !.closed = TRUE, !.pending = <<>>]]

CloseTerminal(c) ==
  /\ up[c] /\ terms[c] # NoAtt
  /\ terms' = [terms EXCEPT ![c] = NoAtt]
  /\ Leave(c, Closed(terms[c]))
  /\ UNCHANGED <<up, owner, evicted, input>>

\* cleanup: the client is gone, or too slow for its frames.
Disconnect(c) ==
  /\ up[c] /\ up' = [up EXCEPT ![c] = FALSE]
  /\ terms' = [terms EXCEPT ![c] = NoAtt]
  /\ IF terms[c] # NoAtt THEN Leave(c, Closed(terms[c])) ELSE UNCHANGED <<member, auth, att>>
  /\ UNCHANGED <<owner, evicted, input>>

\* Fault: a keystroke overtakes those being flushed.
TypeAround(c) ==
  /\ up[c] /\ terms[c] # NoAtt /\ blocked = 0 /\ lastInputAt < MaxKeys
  /\ att[terms[c]].stage \in {"live", "flush"}
  /\ lastInputAt' = lastInputAt + 1
  /\ \/ keys' = Append(keys, <<c, lastInputAt'>>) /\ UNCHANGED att
     \/ att' = [att EXCEPT ![terms[c]].pending = Append(@, lastInputAt')] /\ UNCHANGED keys
  /\ UNCHANGED <<sharing, blocked, snap>>

\* writeInput: with the gate open a keystroke is stamped and written, or kept until the
\* attachment is ready for it.
Type(c) ==
  /\ up[c] /\ terms[c] # NoAtt /\ blocked = 0 /\ lastInputAt < MaxKeys
  /\ lastInputAt' = lastInputAt + 1
  /\ LET a == terms[c] IN
     \/ att[a].stage = "live" /\ keys' = Append(keys, <<c, lastInputAt'>>) /\ UNCHANGED att
     \/ att[a].stage \in Exited \cup {"live"} /\ UNCHANGED <<keys, att>>
     \/ /\ att[a].stage \notin Exited \cup {"live"}
        /\ att' = [att EXCEPT ![a].pending = Append(@, lastInputAt')]
        /\ UNCHANGED keys
  /\ UNCHANGED <<sharing, blocked, snap>>

-----------------------------------------------------------------------------
(* The attachment's goroutine                                              *)

Step(a, stage) == att' = Set(a, stage) /\ UNCHANGED <<sharing, input>>

\* A live runtime is attached to; a dead one, or one error too many, ends the attachment.
AttachStream(a) ==
  /\ att[a].stage = "run" /\ ~att[a].closed
  /\ Step(a, "flush") \/ Step(a, "dead")

Stop(a) ==
  /\ att[a].stage \in {"run", "live"} /\ att[a].closed
  /\ Step(a, "stopped")

\* setPTY takes the pending input in batches; the attachment is ready once none is left.
TakePending(a) ==
  /\ att[a].stage = "flush" /\ att[a].hand = <<>>
  /\ att' = [att EXCEPT ![a] = [@ EXCEPT !.stage = IF att[a].pending = <<>> THEN "live" ELSE "flush",
                                         !.hand = att[a].pending, !.pending = <<>>]]
  /\ UNCHANGED <<sharing, input>>

FlushKey(a) ==
  /\ att[a].stage = "flush" /\ att[a].hand # <<>> /\ ~att[a].closed
  /\ keys' = Append(keys, <<owner[a], Head(att[a].hand)>>)
  /\ att' = [att EXCEPT ![a].hand = Tail(@)]
  /\ UNCHANGED <<sharing, blocked, lastInputAt, snap>>

\* The stream broke, or the client closed it: the flush fails.
FlushFails(a) ==
  /\ att[a].stage = "flush" /\ att[a].hand # <<>>
  /\ att' = [att EXCEPT ![a] = [@ EXCEPT !.stage = "dead", !.hand = <<>>]]
  /\ UNCHANGED <<sharing, input>>

Dropped(a) ==
  /\ att[a].stage = "live" /\ ~att[a].closed
  /\ Step(a, "run") \/ Step(a, "dead")

\* onExit, fired whether or not the client closed the attachment in between.
MarkExited(a) == att[a].stage = "dead" /\ Step(a, "exit")

ForgetTerm(a) ==
  /\ att[a].stage = "exit"
  /\ terms' = IF terms[owner[a]] = a THEN [terms EXCEPT ![owner[a]] = NoAtt] ELSE terms
  /\ att' = Set(a, "leave")
  /\ UNCHANGED <<up, owner, member, evicted, auth, input>>

\* Fault: an attachment that ended stays a member.
StayOnExit(a) == att[a].stage = "leave" /\ Step(a, "tell")

\* It does not ask whether the membership is still its own: a terminal reopened since
\* ForgetTerm stays open and is no member any more.
LeaveOnExit(a) ==
  /\ att[a].stage = "leave"
  /\ Leave(owner[a], Set(a, "tell"))
  /\ evicted' = IF terms[owner[a]] = NoAtt THEN evicted ELSE evicted \cup {owner[a]}
  /\ UNCHANGED <<up, owner, terms, input>>

TellExited(a) == att[a].stage = "tell" /\ Step(a, "told")

-----------------------------------------------------------------------------
(* The input gate                                                          *)

BeginInputDrain(d) ==
  /\ snap[d] = NotHeld
  /\ blocked' = blocked + 1
  /\ snap' = [snap EXCEPT ![d] = lastInputAt]
  /\ UNCHANGED <<sharing, att, lastInputAt, keys>>

\* Fault: a drain can be released twice.
ReleaseDrainTwice(d) ==
  /\ blocked' = blocked - 1
  /\ snap' = [snap EXCEPT ![d] = NotHeld]
  /\ UNCHANGED <<sharing, att, lastInputAt, keys>>

\* Fault: the first drain to end opens the gate.
ReleaseDrainForAll(d) ==
  /\ snap[d] # NotHeld
  /\ blocked' = 0
  /\ snap' = [snap EXCEPT ![d] = NotHeld]
  /\ UNCHANGED <<sharing, att, lastInputAt, keys>>

ReleaseDrain(d) ==
  /\ snap[d] # NotHeld
  /\ blocked' = IF blocked <= 1 THEN 0 ELSE blocked - 1
  /\ snap' = [snap EXCEPT ![d] = NotHeld]
  /\ UNCHANGED <<sharing, att, lastInputAt, keys>>

-----------------------------------------------------------------------------
ClientNext ==
  \E c \in Clients :
    \/ \E grid \in Grids \cup {NoGrid} : Open(c, grid) \/ Resize(c, grid)
    \/ CloseTerminal(c) \/ Disconnect(c) \/ Type(c)

AttachmentNext ==
  \E a \in Atts :
    \/ AttachStream(a) \/ Stop(a) \/ TakePending(a) \/ FlushKey(a) \/ FlushFails(a)
    \/ Dropped(a) \/ MarkExited(a) \/ ForgetTerm(a) \/ LeaveOnExit(a) \/ TellExited(a)

GateNext == \E d \in Drains : BeginInputDrain(d) \/ ReleaseDrain(d)

TermNext == ClientNext \/ AttachmentNext \/ GateNext
TermSpec == TermInit /\ [][TermNext]_termVars

-----------------------------------------------------------------------------
(* Properties                                                              *)

\* Whatever one client typed reaches the pane in the order it was typed, though part of
\* it waited for the attachment and part of it did not.
KeysStayInOrder ==
  \A i, j \in DOMAIN keys : i < j /\ keys[i][1] = keys[j][1] => keys[i][2] < keys[j][2]

\* As long as a drain holds the gate no keystroke accepted after it began is in the
\* pane or on its way there, however drains overlap and in whatever order they end.
DrainHoldsKeys ==
  \A d \in Drains : snap[d] # NotHeld =>
    /\ \A i \in DOMAIN keys : keys[i][2] <= snap[d]
    /\ \A a \in Atts : \A i \in DOMAIN att[a].pending : att[a].pending[i] <= snap[d]

\* A client that has the terminal open counts for its grid and renders it, and the grid is
\* the largest a leading viewer asked for: in every order of opening, resizing, exiting
\* and leaving, but for the reopened terminal EveryOpenTerminalShares is about.
SharesGrid(c) ==
  member[c].att = terms[c] /\ (auth # NoGrid => att[terms[c]].grid = auth)

GridIsShared ==
  /\ \A c \in Clients \ evicted : terms[c] # NoAtt => SharesGrid(c)
  /\ Candidates(member) # {} => auth \in LargestGrids(member)

\* What the comments on sharedTerm and on onExit say: every client's grid is kept matched
\* to the terminal's, and a fresh attachment is not evicted by the exit of an older one.
EveryOpenTerminalShares == \A c \in Clients : terms[c] # NoAtt => SharesGrid(c)

\* What the comment on inputMu says: once a drain returns, every write that began before
\* it has finished, so nothing reaches the pane until the drain is released.
DrainEndsWrites == [][(\E d \in Drains : snap[d] # NotHeld) => keys' = keys]_termVars

\* A client that was told of the end, or went away, no longer holds the terminal open or
\* has a say in its grid; only an exit under way may still owe its leave.
GoneClientsLetGo ==
  \A c \in Clients :
    /\ terms[c] # NoAtt => up[c] /\ att[terms[c]].stage \notin {"leave", "tell", "told"}
    /\ member[c].att # NoAtt => /\ att[member[c].att].stage \notin {"tell", "told"}
                                /\ up[c] \/ att[member[c].att].stage = "leave"
=============================================================================
