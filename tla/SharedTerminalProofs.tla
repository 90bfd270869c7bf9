------------------------- MODULE SharedTerminalProofs -------------------------
(***************************************************************************)
(* SharedTerminal, for any clients, grids, drains and bounds: its type      *)
(* invariant, the order of keystrokes, the gate a drain holds, the shared   *)
(* grid, and that a client that is gone lets go.                            *)
(*                                                                         *)
(* An attachment's goroutine outlives its use, so every fact is about the   *)
(* attachment a client has open: it is the only one of the client that may  *)
(* write to the pane (OpenInv), and what it still has to flush is newer     *)
(* than anything of the client in the pane (OrderInv).                      *)
(*                                                                         *)
(* A largest grid exists whenever a viewer has a size, and the three       *)
(* services of MCServices keep their types side by side.                   *)
(***************************************************************************)
EXTENDS MCServices, WorkKeepingProofs, LifecycleProofs, SequenceTheorems, FiniteSetTheorems, TLAPS

Keystrokes == 1..MaxKeys
AttRecord == [stage : Stages, closed : BOOLEAN, grid : Grids \cup {NoGrid},
              pending : Seq(Keystrokes), hand : Seq(Keystrokes)]
MemberRecord == [att : Atts \cup {NoAtt}, grid : Grids \cup {NoGrid}]

\* The type invariant in parts.
ConnOK ==
  /\ up \in [Clients -> BOOLEAN] /\ owner \in Seq(Clients) /\ Len(owner) <= MaxOpens
  /\ terms \in [Clients -> Atts \cup {NoAtt}]
GridOK == member \in [Clients -> MemberRecord] /\ auth \in Grids \cup {NoGrid}
AttsOK == att \in [Atts -> AttRecord]
GateOK ==
  /\ blocked \in Nat /\ lastInputAt \in 0..MaxKeys
  /\ snap \in [Drains -> (0..MaxKeys) \cup {NotHeld}]
KeysOK == keys \in Seq(Clients \X Keystrokes)

\* Attachments belong to the clients that opened them.
OwnInv ==
  /\ \A c \in Clients : terms[c] # NoAtt => terms[c] <= Len(owner) /\ owner[terms[c]] = c
  /\ \A c \in Clients : member[c].att # NoAtt =>
       member[c].att <= Len(owner) /\ owner[member[c].att] = c
  /\ \A a \in Atts : att[a].stage = "new" <=> a > Len(owner)

\* A membership without its terminal is about to be given up.
LetGoInv ==
  /\ GoneClientsLetGo
  /\ \A c \in Clients : member[c].att \notin {NoAtt, terms[c]} => att[member[c].att].stage = "leave"

\* All members render one grid, the largest a leading one asked for.
ViewersShare ==
  /\ \A c \in Viewers(member) : auth # NoGrid => att[member[c].att].grid = auth
  /\ Candidates(member) # {} => auth \in LargestGrids(member)

\* Who has the terminal open is a member with that attachment, unless it was evicted.
MembersInv ==
  /\ evicted \subseteq Clients
  /\ \A c \in Clients \ evicted : terms[c] # NoAtt => member[c].att = terms[c]

\* The gate counts the drains that hold it, and lets nothing through meanwhile.
Held == {d \in Drains : snap[d] # NotHeld}
GateInv ==
  /\ IsFiniteSet(Held) /\ blocked = Cardinality(Held)
  /\ \A d \in Held : snap[d] = lastInputAt

\* Nothing is newer than the last keystroke.
SeenInv ==
  /\ \A i \in DOMAIN keys : keys[i][2] <= lastInputAt
  /\ \A a \in Atts : /\ \A i \in DOMAIN att[a].pending : att[a].pending[i] <= lastInputAt
                     /\ \A i \in DOMAIN att[a].hand : att[a].hand[i] <= lastInputAt

\* An attachment that may write to the pane is its client's open one.
OpenInv ==
  /\ \A a \in Atts : att[a].stage \in {"run", "flush", "live", "dead", "exit"} /\ ~att[a].closed
       => terms[owner[a]] = a
  /\ \A a \in Atts : att[a].stage = "run" => att[a].hand = <<>>
  /\ \A a \in Atts : att[a].stage = "live" => att[a].hand = <<>> /\ att[a].pending = <<>>

Ascending(s) == \A i, j \in DOMAIN s : i < j => s[i] < s[j]

\* What is left to flush is in order, and newer than what the client has in the pane.
OrderInv ==
  /\ KeysStayInOrder
  /\ \A a \in Atts : att[a].stage \in {"run", "flush"} /\ ~att[a].closed =>
       LET r == att[a] IN
       /\ Ascending(r.hand) /\ Ascending(r.pending)
       /\ \A i \in DOMAIN r.hand, j \in DOMAIN r.pending : r.hand[i] < r.pending[j]
       /\ \A k \in DOMAIN keys : keys[k][1] = owner[a] =>
            /\ \A i \in DOMAIN r.hand : keys[k][2] < r.hand[i]
            /\ \A j \in DOMAIN r.pending : keys[k][2] < r.pending[j]

TermInv ==
  /\ ConnOK /\ GridOK /\ AttsOK /\ GateOK /\ KeysOK
  /\ OwnInv /\ LetGoInv /\ GateInv /\ SeenInv /\ OpenInv /\ OrderInv /\ ViewersShare

USE ClientsAssumption, GridsAssumption, TermBoundsAssumption

-----------------------------------------------------------------------------
(* What the helpers of the model return                                    *)

\* Set moves one attachment to a stage.
LEMMA SetFrame ==
  ASSUME AttsOK, NEW a \in Atts, NEW s \in Stages
  PROVE  /\ Set(a, s) \in [Atts -> AttRecord]
         /\ Set(a, s)[a].stage = s
         /\ \A b \in Atts : /\ b # a => Set(a, s)[b] = att[b]
                            /\ Set(a, s)[b].closed = att[b].closed
                            /\ Set(a, s)[b].grid = att[b].grid
                            /\ Set(a, s)[b].pending = att[b].pending
                            /\ Set(a, s)[b].hand = att[b].hand
BY DEF AttsOK, AttRecord, Set

\* Closed closes one attachment, or none.
LEMMA ClosedFrame ==
  ASSUME AttsOK, NEW a \in Atts \cup {NoAtt}
  PROVE  /\ Closed(a) \in [Atts -> AttRecord]
         /\ a # NoAtt => Closed(a)[a].closed
         /\ \A b \in Atts : /\ b # a => Closed(a)[b] = att[b]
                            /\ Closed(a)[b].stage = att[b].stage
                            /\ Closed(a)[b].grid = att[b].grid
                            /\ Closed(a)[b].hand = att[b].hand
                            /\ Closed(a)[b].pending \in {att[b].pending, <<>>}
<1>1. CASE a = NoAtt
  BY <1>1 DEF AttsOK, Closed
<1>2. CASE a \in Atts
  <2>1. a # NoAtt
    BY <1>2 DEF Atts, NoAtt
  <2>2. <<>> \in Seq(Keystrokes)
    OBVIOUS
  <2>. QED BY <1>2, <2>1, <2>2 DEF AttsOK, AttRecord, Closed
<1>. QED BY <1>1, <1>2

\* The grids chosen from are those of members.
LEMMA LargestIsGrid ==
  ASSUME NEW mem \in [Clients -> MemberRecord], NEW g \in LargestGrids(mem) PROVE g \in Grids
BY DEF LargestGrids, Candidates, Viewers, MemberRecord

\* Reconcile touches nothing but grids, and leaves all viewers with one that is the largest.
LEMMA ReconcileFrame ==
  ASSUME NEW mem \in [Clients -> MemberRecord], NEW base \in [Atts -> AttRecord],
         auth \in Grids \cup {NoGrid}, Reconcile(mem, base)
  PROVE  /\ auth' \in Grids \cup {NoGrid}
         /\ att' \in [Atts -> AttRecord]
         /\ \A b \in Atts : /\ att'[b].stage = base[b].stage /\ att'[b].closed = base[b].closed
                            /\ att'[b].pending = base[b].pending /\ att'[b].hand = base[b].hand
<1>1. CASE att' = base /\ auth' \in {auth, NoGrid}
  BY <1>1
<1>2. ASSUME NEW grid \in LargestGrids(mem), auth' = grid, att' = Resized(mem, base, grid)
      PROVE  /\ auth' \in Grids \cup {NoGrid}
             /\ att' \in [Atts -> AttRecord]
             /\ \A b \in Atts : /\ att'[b].stage = base[b].stage /\ att'[b].closed = base[b].closed
                                /\ att'[b].pending = base[b].pending /\ att'[b].hand = base[b].hand
  BY <1>2, LargestIsGrid DEF Resized, AttRecord
<1>. QED BY <1>1, <1>2 DEF Reconcile

\* The shared grid after Reconcile, if the viewers' attachments had it before.
LEMMA ReconcileShares ==
  ASSUME NEW mem \in [Clients -> MemberRecord], NEW base \in [Atts -> AttRecord],
         Reconcile(mem, base), member' = mem,
         auth # NoGrid => \A c \in Viewers(mem) : base[mem[c].att].grid = auth
  PROVE  ViewersShare'
<1>1. CASE Viewers(mem) = {}
  <2>1. Candidates(mem) = {}
    BY <1>1 DEF Candidates
  <2>. QED BY <1>1, <2>1 DEF ViewersShare
<1>2. CASE Viewers(mem) # {} /\ Candidates(mem) = {} /\ auth' = auth /\ att' = base
  BY <1>2 DEF ViewersShare
<1>3. ASSUME NEW grid \in LargestGrids(mem), auth' = grid, att' = Resized(mem, base, grid)
      PROVE  ViewersShare'
  <2>1. \A c \in Viewers(mem) : att'[mem[c].att].grid = grid
    <3>1. \A c \in Viewers(mem) : mem[c].att \in Atts
      BY DEF Viewers, MemberRecord
    <3>. QED BY <1>3, <3>1 DEF Resized, AttRecord
  <2>. QED BY <1>3, <2>1 DEF ViewersShare
<1>. QED BY <1>1, <1>2, <1>3 DEF Reconcile

\* What a client holds, fact by fact.
LEMMA Holders ==
  ASSUME ConnOK, GridOK, LetGoInv, NEW d \in Clients
  PROVE  /\ member[d].att \in Atts \cup {NoAtt} /\ terms[d] \in Atts \cup {NoAtt}
         /\ terms[d] # NoAtt => up[d] /\ att[terms[d]].stage \notin {"leave", "tell", "told"}
         /\ member[d].att # NoAtt => att[member[d].att].stage \notin {"tell", "told"}
         /\ member[d].att # NoAtt => up[d] \/ att[member[d].att].stage = "leave"
         /\ member[d].att \notin {NoAtt, terms[d]} => att[member[d].att].stage = "leave"
<1>1. member[d].att \in Atts \cup {NoAtt} /\ terms[d] \in Atts \cup {NoAtt}
  BY DEF GridOK, MemberRecord, ConnOK
<1>2. terms[d] # NoAtt => up[d] /\ att[terms[d]].stage \notin {"leave", "tell", "told"}
  BY DEF LetGoInv, GoneClientsLetGo
<1>3. member[d].att # NoAtt => att[member[d].att].stage \notin {"tell", "told"}
  BY DEF LetGoInv, GoneClientsLetGo
<1>4. member[d].att # NoAtt => up[d] \/ att[member[d].att].stage = "leave"
  BY DEF LetGoInv, GoneClientsLetGo
<1>5. member[d].att \notin {NoAtt, terms[d]} => att[member[d].att].stage = "leave"
  BY DEF LetGoInv
<1>. QED BY <1>1, <1>2, <1>3, <1>4, <1>5

\* Who holds what, when only stages change and none goes back.
LEMMA LetGoFrame ==
  ASSUME ConnOK, GridOK, LetGoInv, UNCHANGED <<up, terms, member>>,
         \A b \in Atts :
           /\ att[b].stage \notin {"leave", "tell", "told"} => att'[b].stage \notin {"leave", "tell", "told"}
           /\ att[b].stage = "leave" => att'[b].stage = "leave"
  PROVE  LetGoInv'
<1>1. \A c \in Clients : terms[c] \in Atts \cup {NoAtt} /\ member[c].att \in Atts \cup {NoAtt}
  BY DEF ConnOK, GridOK, MemberRecord
<1>2. ASSUME NEW c \in Clients, terms[c] # NoAtt
      PROVE  up[c] /\ att'[terms[c]].stage \notin {"leave", "tell", "told"}
  BY <1>1, <1>2 DEF LetGoInv, GoneClientsLetGo
<1>3. ASSUME NEW c \in Clients, member[c].att # NoAtt
      PROVE  /\ att'[member[c].att].stage \notin {"tell", "told"}
             /\ up[c] \/ att'[member[c].att].stage = "leave"
  <2>1. att[member[c].att].stage \notin {"tell", "told"}
    BY <1>3 DEF LetGoInv, GoneClientsLetGo
  <2>2. up[c] \/ att[member[c].att].stage = "leave"
    BY <1>3 DEF LetGoInv, GoneClientsLetGo
  <2>. QED BY <1>1, <1>3, <2>1, <2>2
<1>4. ASSUME NEW c \in Clients, member[c].att \notin {NoAtt, terms[c]}
      PROVE  att'[member[c].att].stage = "leave"
  BY <1>1, <1>4 DEF LetGoInv
<1>5. up' = up /\ terms' = terms /\ member' = member
  OBVIOUS
<1>. QED BY <1>2, <1>3, <1>4, <1>5 DEF LetGoInv, GoneClientsLetGo

-----------------------------------------------------------------------------
(* The attachments' goroutines                                             *)

\* An attachment that moves on without touching keys, terminals or members.
LEMMA MoveKeeps ==
  ASSUME TermInv, NEW a \in Atts, NEW s \in Stages, Step(a, s),
         \/ att[a].stage \in {"run", "live"} /\ s \in {"run", "flush", "dead", "stopped"}
         \/ att[a].stage = "dead" /\ s = "exit"
         \/ att[a].stage = "tell" /\ s = "told"
  PROVE  TermInv'
<1>. USE DEF TermInv, Step, sharing, input
<1>1. /\ att' \in [Atts -> AttRecord] /\ att'[a].stage = s
      /\ \A b \in Atts : /\ b # a => att'[b] = att[b]
                         /\ att'[b].closed = att[b].closed /\ att'[b].grid = att[b].grid
                         /\ att'[b].pending = att[b].pending /\ att'[b].hand = att[b].hand
  BY SetFrame
<1>2. UNCHANGED <<up, owner, terms, member, auth, blocked, lastInputAt, snap, keys>>
  OBVIOUS
<1>3. ConnOK' /\ GridOK' /\ AttsOK' /\ GateOK' /\ KeysOK'
  BY <1>1, <1>2 DEF ConnOK, GridOK, AttsOK, GateOK, KeysOK
<1>4. OwnInv'
  BY <1>1, <1>2 DEF OwnInv, ConnOK
<1>5. LetGoInv'
  BY <1>1, <1>2, LetGoFrame
<1>6. GateInv'
  BY <1>2 DEF GateInv, Held
<1>7. SeenInv'
  BY <1>1, <1>2 DEF SeenInv
<1>8. OpenInv'
  BY <1>1, <1>2 DEF OpenInv
<1>9. OrderInv'
  BY <1>1, <1>2 DEF OrderInv, OpenInv, KeysStayInOrder, Ascending
<1>10. ViewersShare'
  BY <1>1, <1>2 DEF ViewersShare, Viewers, GridOK, MemberRecord, Candidates, LargestGrids
<1>. QED BY <1>3, <1>4, <1>5, <1>6, <1>7, <1>8, <1>9, <1>10

\* Typed input moves on to the hand of its attachment, or is dropped with it.
LEMMA HandKeeps == ASSUME TermInv, NEW a \in Atts, TakePending(a) \/ FlushFails(a) PROVE TermInv'
<1>. USE DEF TermInv, sharing, input
<1>1. UNCHANGED <<up, owner, terms, member, auth, blocked, lastInputAt, snap, keys>>
  BY DEF TakePending, FlushFails
<1>2. /\ att' \in [Atts -> AttRecord]
      /\ att[a].stage = "flush"
      /\ \A b \in Atts : /\ b # a => att'[b] = att[b]
                         /\ att'[b].closed = att[b].closed /\ att'[b].grid = att[b].grid
      /\ \/ att'[a].stage = "dead" /\ att'[a].hand = <<>> /\ att'[a].pending = att[a].pending
         \/ /\ att[a].hand = <<>> /\ att'[a].hand = att[a].pending /\ att'[a].pending = <<>>
            /\ \/ att'[a].stage = "flush"
               \/ att'[a].stage = "live" /\ att[a].pending = <<>>
  <2>1. CASE TakePending(a)
    <3>. DEFINE s == IF att[a].pending = <<>> THEN "live" ELSE "flush"
    <3>1. att' = [att EXCEPT ![a] = [att[a] EXCEPT !.stage = s, !.hand = att[a].pending, !.pending = <<>>]]
      BY <2>1 DEF TakePending
    <3>2. s \in Stages /\ <<>> \in Seq(Keystrokes)
      BY DEF Stages
    <3>3. s = "flush" \/ (s = "live" /\ att[a].pending = <<>>)
      OBVIOUS
    <3>4. att[a] \in AttRecord /\ att[a].stage = "flush" /\ att[a].hand = <<>>
      BY <2>1 DEF TakePending, AttsOK
    <3>. HIDE DEF s
    <3>. DEFINE r == [att[a] EXCEPT !.stage = s, !.hand = att[a].pending, !.pending = <<>>]
    <3>5. /\ r \in AttRecord /\ r.stage = s /\ r.hand = att[a].pending /\ r.pending = <<>>
          /\ r.closed = att[a].closed /\ r.grid = att[a].grid
      BY <3>2, <3>4 DEF AttRecord
    <3>6. att' = [att EXCEPT ![a] = r]
      BY <3>1
    <3>. HIDE DEF r
    <3>. QED BY <3>3, <3>4, <3>5, <3>6 DEF AttsOK
  <2>2. CASE FlushFails(a)
    BY <2>2, EmptySeq DEF FlushFails, AttsOK, AttRecord, Stages
  <2>. QED BY <2>1, <2>2
<1>3. ConnOK' /\ GridOK' /\ AttsOK' /\ GateOK' /\ KeysOK'
  BY <1>1, <1>2 DEF ConnOK, GridOK, AttsOK, GateOK, KeysOK
<1>4. OwnInv'
  BY <1>1, <1>2 DEF OwnInv, ConnOK
<1>5. LetGoInv'
  BY <1>1, <1>2, LetGoFrame
<1>6. GateInv'
  BY <1>1 DEF GateInv, Held
<1>7. SeenInv'
  BY <1>1, <1>2 DEF SeenInv
<1>8. OpenInv'
  BY <1>1, <1>2 DEF OpenInv
<1>9. OrderInv'
  BY <1>1, <1>2 DEF OrderInv, KeysStayInOrder, Ascending
<1>10. ViewersShare'
  BY <1>1, <1>2 DEF ViewersShare, Viewers, GridOK, MemberRecord, Candidates, LargestGrids
<1>. QED BY <1>3, <1>4, <1>5, <1>6, <1>7, <1>8, <1>9, <1>10

\* The oldest flushed key is newer than all the client has in the pane.
LEMMA FlushKeyKeeps == ASSUME TermInv, NEW a \in Atts, FlushKey(a) PROVE TermInv'
<1>. USE DEF TermInv, sharing
<1>. DEFINE hand == att[a].hand
<1>1. UNCHANGED <<up, owner, terms, member, auth, blocked, lastInputAt, snap>>
  BY DEF FlushKey
<1>2. /\ att[a].stage = "flush" /\ ~att[a].closed /\ hand # <<>> /\ hand \in Seq(Keystrokes)
      /\ a <= Len(owner) /\ owner[a] \in Clients
  BY DEF FlushKey, AttsOK, AttRecord, OwnInv, Atts, ConnOK
<1>3. /\ Head(hand) \in Keystrokes /\ Tail(hand) \in Seq(Keystrokes) /\ hand[1] = Head(hand)
      /\ Len(Tail(hand)) = Len(hand) - 1 /\ Len(hand) \in Nat
      /\ \A i \in 1..Len(Tail(hand)) : Tail(hand)[i] = hand[i + 1]
  BY <1>2, HeadTailProperties, LenProperties
<1>4. /\ att' \in [Atts -> AttRecord] /\ att'[a].hand = Tail(hand)
      /\ \A b \in Atts : /\ b # a => att'[b] = att[b]
                         /\ att'[b].closed = att[b].closed /\ att'[b].grid = att[b].grid
                         /\ att'[b].stage = att[b].stage /\ att'[b].pending = att[b].pending
  BY <1>3 DEF FlushKey, AttsOK, AttRecord
<1>5. /\ keys' \in Seq(Clients \X Keystrokes) /\ Len(keys') = Len(keys) + 1 /\ Len(keys) \in Nat
      /\ DOMAIN keys = 1..Len(keys) /\ DOMAIN keys' = 1..Len(keys')
      /\ keys'[Len(keys) + 1] = <<owner[a], Head(hand)>>
      /\ \A i \in DOMAIN keys : keys'[i] = keys[i]
  <2>1. <<owner[a], Head(hand)>> \in Clients \X Keystrokes
    BY <1>2, <1>3
  <2>2. keys' = Append(keys, <<owner[a], Head(hand)>>)
    BY DEF FlushKey
  <2>. QED BY <2>1, <2>2, AppendProperties, LenProperties DEF KeysOK
<1>6. Len(hand) >= 1 /\ DOMAIN hand = 1..Len(hand) /\ DOMAIN Tail(hand) = 1..(Len(hand) - 1)
  BY <1>2, <1>3, EmptySeq, LenProperties
<1>. HIDE DEF hand
<1>7. ConnOK' /\ GridOK' /\ AttsOK' /\ GateOK' /\ KeysOK'
  BY <1>1, <1>4, <1>5 DEF ConnOK, GridOK, AttsOK, GateOK, KeysOK
<1>8. OwnInv'
  BY <1>1, <1>4 DEF OwnInv, ConnOK
<1>9. LetGoInv'
  BY <1>1, <1>4, LetGoFrame
<1>10. GateInv'
  BY <1>1 DEF GateInv, Held
<1>11. SeenInv'
  <2>1. \A i \in DOMAIN Tail(hand) : Tail(hand)[i] <= lastInputAt
    BY <1>3, <1>6 DEF SeenInv, hand
  <2>2. hand[1] <= lastInputAt
    BY <1>6 DEF SeenInv, hand
  <2>3. \A i \in DOMAIN keys' : keys'[i][2] <= lastInputAt
    BY <1>3, <1>5, <2>2 DEF SeenInv
  <2>. QED BY <1>1, <1>4, <2>1, <2>3 DEF SeenInv
<1>12. OpenInv'
  BY <1>1, <1>2, <1>4 DEF OpenInv, hand
<1>13. OrderInv'
  <2>1. \A k \in DOMAIN keys : keys[k][1] = owner[a] => keys[k][2] < hand[1]
    BY <1>2, <1>6 DEF OrderInv, hand
  <2>2. KeysStayInOrder'
    <3>. SUFFICES ASSUME NEW i \in DOMAIN keys', NEW j \in DOMAIN keys', i < j,
                         keys'[i][1] = keys'[j][1]
                  PROVE  keys'[i][2] < keys'[j][2]
      BY DEF KeysStayInOrder
    <3>1. i \in DOMAIN keys
      BY <1>5
    <3>2. CASE j \in DOMAIN keys
      BY <1>5, <3>1, <3>2 DEF OrderInv, KeysStayInOrder
    <3>3. CASE j = Len(keys) + 1
      BY <1>3, <1>5, <2>1, <3>1, <3>3
    <3>. QED BY <1>5, <3>2, <3>3
  <2>3. ASSUME NEW b \in Atts, b # a, att[b].stage \in {"run", "flush"}, ~att[b].closed
        PROVE  b <= Len(owner) /\ owner[b] # owner[a]
    BY <1>2, <2>3 DEF OpenInv, OwnInv, Atts, ConnOK
  <2>4. Ascending(hand)
    BY <1>2 DEF OrderInv, hand
  <2>5. /\ Ascending(Tail(hand))
        /\ \A i \in DOMAIN Tail(hand) : hand[1] < Tail(hand)[i]
    BY <1>3, <1>6, <2>4 DEF Ascending
  <2>6. /\ Ascending(att[a].pending)
        /\ \A i \in DOMAIN hand, j \in DOMAIN att[a].pending : hand[i] < att[a].pending[j]
        /\ \A k \in DOMAIN keys : keys[k][1] = owner[a] =>
             /\ \A i \in DOMAIN hand : keys[k][2] < hand[i]
             /\ \A j \in DOMAIN att[a].pending : keys[k][2] < att[a].pending[j]
    BY <1>2 DEF OrderInv, hand
  <2>7. ASSUME NEW b \in Atts, att'[b].stage \in {"run", "flush"}, ~att'[b].closed
        PROVE  /\ Ascending(att'[b].hand) /\ Ascending(att'[b].pending)
               /\ \A i \in DOMAIN att'[b].hand, j \in DOMAIN att'[b].pending :
                    att'[b].hand[i] < att'[b].pending[j]
               /\ \A k \in DOMAIN keys' : keys'[k][1] = owner'[b] =>
                    /\ \A i \in DOMAIN att'[b].hand : keys'[k][2] < att'[b].hand[i]
                    /\ \A j \in DOMAIN att'[b].pending : keys'[k][2] < att'[b].pending[j]
    <3>1. CASE b = a
      <4>1. /\ \A i \in DOMAIN Tail(hand) : i + 1 \in DOMAIN hand /\ Tail(hand)[i] = hand[i + 1]
            /\ 1 \in DOMAIN hand
        BY <1>3, <1>6
      <4>2. \A k \in DOMAIN keys' : k \in DOMAIN keys \/ keys'[k] = <<owner[a], hand[1]>>
        BY <1>3, <1>5
      <4>3. att'[a].hand = Tail(hand) /\ att'[a].pending = att[a].pending /\ owner' = owner
        BY <1>1, <1>4
      <4>4. /\ Ascending(Tail(hand)) /\ Ascending(att[a].pending)
            /\ \A i \in DOMAIN Tail(hand), j \in DOMAIN att[a].pending : Tail(hand)[i] < att[a].pending[j]
        BY <2>5, <2>6, <4>1
      <4>5. ASSUME NEW k \in DOMAIN keys', keys'[k][1] = owner[a]
            PROVE  /\ \A i \in DOMAIN Tail(hand) : keys'[k][2] < Tail(hand)[i]
                   /\ \A j \in DOMAIN att[a].pending : keys'[k][2] < att[a].pending[j]
        <5>1. CASE k \in DOMAIN keys
          BY <1>5, <2>6, <4>1, <4>5, <5>1
        <5>2. CASE keys'[k] = <<owner[a], hand[1]>>
          BY <2>5, <2>6, <4>1, <5>2
        <5>. QED BY <4>2, <5>1, <5>2
      <4>. QED BY <3>1, <4>3, <4>4, <4>5
    <3>2. CASE b # a
      <4>1. att'[b] = att[b] /\ owner' = owner /\ owner[b] # owner[a]
        BY <1>1, <1>4, <2>3, <2>7, <3>2
      <4>2. \A k \in DOMAIN keys' : keys'[k][1] = owner[b] => k \in DOMAIN keys /\ keys'[k] = keys[k]
        BY <1>5, <4>1
      <4>. QED BY <2>7, <4>1, <4>2 DEF OrderInv
    <3>. QED BY <3>1, <3>2
  <2>. QED BY <2>2, <2>7 DEF OrderInv
<1>14. ViewersShare'
  BY <1>1, <1>4 DEF ViewersShare, Viewers, GridOK, MemberRecord, Candidates, LargestGrids
<1>. QED BY <1>7, <1>8, <1>9, <1>10, <1>11, <1>12, <1>13, <1>14

-----------------------------------------------------------------------------
(* Terminals that are opened, resized, closed and left                     *)

\* A client that leaves takes its membership; the others share a grid again.
LEMMA LeaveFrame ==
  ASSUME GridOK, ViewersShare, NEW c \in Clients, NEW base \in [Atts -> AttRecord],
         \A b \in Atts : base[b].grid = att[b].grid, Leave(c, base)
  PROVE  /\ member' = [member EXCEPT ![c] = NoMember] /\ GridOK' /\ AttsOK' /\ ViewersShare'
         /\ \A b \in Atts : /\ att'[b].stage = base[b].stage /\ att'[b].closed = base[b].closed
                            /\ att'[b].pending = base[b].pending /\ att'[b].hand = base[b].hand
<1>. USE DEF GridOK, AttsOK
<1>1. member' = [member EXCEPT ![c] = NoMember] /\ member' \in [Clients -> MemberRecord]
  BY DEF Leave, NoMember, MemberRecord
<1>2. \A d \in Viewers(member') : d \in Viewers(member) /\ member'[d] = member[d] /\ member[d].att \in Atts
  BY <1>1 DEF Viewers, NoMember, MemberRecord
<1>3. CASE member[c].att = NoAtt
  <2>1. att' = base /\ auth' = auth
    BY <1>3 DEF Leave
  <2>2. Viewers(member') = Viewers(member)
    BY <1>1, <1>2, <1>3 DEF Viewers, NoMember
  <2>3. Candidates(member') = Candidates(member)
    BY <1>2, <2>2 DEF Candidates
  <2>4. LargestGrids(member') = LargestGrids(member)
    BY <2>3 DEF LargestGrids
  <2>5. ViewersShare'
    BY <1>2, <2>1, <2>3, <2>4 DEF ViewersShare
  <2>. QED BY <1>1, <2>1, <2>5
<1>4. CASE member[c].att # NoAtt
  <2>1. Reconcile(member', base)
    BY <1>4 DEF Leave
  <2>2. auth # NoGrid => \A d \in Viewers(member') : base[member'[d].att].grid = auth
    BY <1>2 DEF ViewersShare
  <2>3. ViewersShare'
    BY <1>1, <2>1, <2>2, ReconcileShares
  <2>. QED BY <1>1, <2>1, <2>3, ReconcileFrame
<1>. QED BY <1>3, <1>4

\* Attachments that stay what they were, are no longer active, or have nothing to flush.
LEMMA OrderFrame ==
  ASSUME OrderInv, UNCHANGED keys,
         \A b \in Atts : att'[b].stage \in {"run", "flush"} /\ ~att'[b].closed =>
           \/ /\ att[b].stage \in {"run", "flush"} /\ ~att[b].closed /\ owner'[b] = owner[b]
              /\ att'[b].hand = att[b].hand /\ att'[b].pending = att[b].pending
           \/ att'[b].hand = <<>> /\ att'[b].pending = <<>>
  PROVE  OrderInv'
<1>1. KeysStayInOrder'
  BY DEF OrderInv, KeysStayInOrder
<1>2. ASSUME NEW b \in Atts, att'[b].stage \in {"run", "flush"}, ~att'[b].closed
      PROVE  /\ Ascending(att'[b].hand) /\ Ascending(att'[b].pending)
             /\ \A i \in DOMAIN att'[b].hand, j \in DOMAIN att'[b].pending :
                  att'[b].hand[i] < att'[b].pending[j]
             /\ \A k \in DOMAIN keys' : keys'[k][1] = owner'[b] =>
                  /\ \A i \in DOMAIN att'[b].hand : keys'[k][2] < att'[b].hand[i]
                  /\ \A j \in DOMAIN att'[b].pending : keys'[k][2] < att'[b].pending[j]
  <2>1. CASE att'[b].hand = <<>> /\ att'[b].pending = <<>>
    BY <2>1 DEF Ascending
  <2>2. CASE /\ att[b].stage \in {"run", "flush"} /\ ~att[b].closed /\ owner'[b] = owner[b]
             /\ att'[b].hand = att[b].hand /\ att'[b].pending = att[b].pending
    BY <2>2 DEF OrderInv
  <2>. QED BY <1>2, <2>1, <2>2
<1>. QED BY <1>1, <1>2 DEF OrderInv

\* An exit under way forgets the terminal of its client, unless it has another by now.
LEMMA ForgetTermKeeps == ASSUME TermInv, NEW a \in Atts, ForgetTerm(a) PROVE TermInv'
<1>. USE DEF TermInv, input
<1>1. UNCHANGED <<up, owner, member, auth, blocked, lastInputAt, snap, keys>>
  BY DEF ForgetTerm
<1>2. /\ att' \in [Atts -> AttRecord] /\ att'[a].stage = "leave" /\ att[a].stage = "exit"
      /\ \A b \in Atts : /\ b # a => att'[b] = att[b]
                         /\ att'[b].closed = att[b].closed /\ att'[b].grid = att[b].grid
                         /\ att'[b].pending = att[b].pending /\ att'[b].hand = att[b].hand
  BY SetFrame DEF ForgetTerm, Stages
<1>3. /\ a <= Len(owner) /\ owner[a] \in Clients
      /\ terms' = IF terms[owner[a]] = a THEN [terms EXCEPT ![owner[a]] = NoAtt] ELSE terms
  BY <1>2 DEF ForgetTerm, OwnInv, ConnOK, Atts
<1>4. \A c \in Clients : /\ terms'[c] = terms[c] \/ (terms'[c] = NoAtt /\ terms[c] = a)
                         /\ terms'[c] # a
  BY <1>3 DEF OwnInv, ConnOK, Atts, NoAtt
<1>5. ConnOK'
  BY <1>1, <1>3 DEF ConnOK
<1>6. GridOK' /\ AttsOK' /\ GateOK' /\ KeysOK'
  BY <1>1, <1>2 DEF GridOK, AttsOK, GateOK, KeysOK
<1>7. OwnInv'
  BY <1>1, <1>2, <1>4 DEF OwnInv
<1>8. LetGoInv'
  <2>. SUFFICES ASSUME NEW c \in Clients
                PROVE  /\ terms'[c] # NoAtt => up[c] /\ att'[terms'[c]].stage \notin {"leave", "tell", "told"}
                       /\ member[c].att # NoAtt => /\ att'[member[c].att].stage \notin {"tell", "told"}
                                                   /\ up[c] \/ att'[member[c].att].stage = "leave"
                       /\ member[c].att \notin {NoAtt, terms'[c]} => att'[member[c].att].stage = "leave"
    BY <1>1 DEF LetGoInv, GoneClientsLetGo
  <2>. QED BY <1>2, <1>4, Holders
<1>9. GateInv'
  BY <1>1 DEF GateInv, Held
<1>10. SeenInv'
  BY <1>1, <1>2 DEF SeenInv
<1>11. OpenInv'
  <2>. SUFFICES ASSUME NEW b \in Atts, att'[b].stage \in {"run", "flush", "live", "dead", "exit"},
                       ~att'[b].closed
                PROVE  terms'[owner[b]] = b
    BY <1>1, <1>2 DEF OpenInv
  <2>1. b # a /\ terms[owner[b]] = b
    BY <1>2 DEF OpenInv
  <2>2. b <= Len(owner) /\ owner[b] \in Clients
    BY <1>2, <2>1 DEF OwnInv, ConnOK, Atts
  <2>. QED BY <1>4, <2>1, <2>2
<1>12. OrderInv'
  BY <1>1, <1>2, OrderFrame
<1>13. ViewersShare'
  BY <1>1, <1>2 DEF ViewersShare, Viewers, GridOK, MemberRecord, Candidates, LargestGrids
<1>. QED BY <1>5, <1>6, <1>7, <1>8, <1>9, <1>10, <1>11, <1>12, <1>13

\* The exit gives up the membership before its client is told.
LEMMA LeaveOnExitKeeps == ASSUME TermInv, NEW a \in Atts, LeaveOnExit(a) PROVE TermInv'
<1>. USE DEF TermInv, input
<1>1. UNCHANGED <<up, owner, terms, blocked, lastInputAt, snap, keys>>
  BY DEF LeaveOnExit
<1>2. att[a].stage = "leave" /\ a <= Len(owner) /\ owner[a] \in Clients
  BY DEF LeaveOnExit, OwnInv, ConnOK, Atts
<1>3. /\ Set(a, "tell") \in [Atts -> AttRecord] /\ Set(a, "tell")[a].stage = "tell"
      /\ \A b \in Atts : /\ b # a => Set(a, "tell")[b] = att[b]
                         /\ Set(a, "tell")[b].closed = att[b].closed
                         /\ Set(a, "tell")[b].grid = att[b].grid
                         /\ Set(a, "tell")[b].pending = att[b].pending
                         /\ Set(a, "tell")[b].hand = att[b].hand
  BY SetFrame DEF Stages
<1>4. /\ member' = [member EXCEPT ![owner[a]] = NoMember] /\ GridOK' /\ AttsOK' /\ ViewersShare'
      /\ \A b \in Atts : /\ att'[b].stage = IF b = a THEN "tell" ELSE att[b].stage
                         /\ att'[b].closed = att[b].closed
                         /\ att'[b].pending = att[b].pending /\ att'[b].hand = att[b].hand
  BY <1>2, <1>3, LeaveFrame DEF LeaveOnExit
<1>5. \A c \in Clients : /\ member'[c].att = NoAtt \/ (member'[c] = member[c] /\ c # owner[a])
                         /\ member'[c].att # a
  BY <1>2, <1>4 DEF GridOK, NoMember, OwnInv, Atts, NoAtt
<1>6. ConnOK' /\ GateOK' /\ KeysOK'
  BY <1>1 DEF ConnOK, GateOK, KeysOK
<1>7. OwnInv'
  BY <1>1, <1>2, <1>4, <1>5 DEF OwnInv
<1>8. LetGoInv'
  <2>. SUFFICES ASSUME NEW c \in Clients
                PROVE  /\ terms[c] # NoAtt => up[c] /\ att'[terms[c]].stage \notin {"leave", "tell", "told"}
                       /\ member'[c].att # NoAtt => /\ att'[member'[c].att].stage \notin {"tell", "told"}
                                                    /\ up[c] \/ att'[member'[c].att].stage = "leave"
                       /\ member'[c].att \notin {NoAtt, terms[c]} => att'[member'[c].att].stage = "leave"
    BY <1>1 DEF LetGoInv, GoneClientsLetGo
  <2>. QED BY <1>2, <1>4, <1>5, Holders
<1>9. GateInv'
  BY <1>1 DEF GateInv, Held
<1>10. SeenInv'
  BY <1>1, <1>4 DEF SeenInv
<1>11. OpenInv'
  BY <1>1, <1>2, <1>4 DEF OpenInv
<1>12. OrderInv'
  BY <1>1, <1>2, <1>4, OrderFrame
<1>. QED BY <1>4, <1>6, <1>7, <1>8, <1>9, <1>10, <1>11, <1>12

\* A client gets a new attachment only if it has none open.
LEMMA OpenKeeps ==
  ASSUME TermInv, NEW c \in Clients, NEW grid \in Grids \cup {NoGrid}, Open(c, grid)
  PROVE  TermInv'
<1>. USE DEF TermInv, input
<1>. DEFINE n == Len(owner) + 1
            mem == [member EXCEPT ![c] = [att |-> n, grid |-> grid]]
            fresh == [Fresh EXCEPT !.stage = "run", !.grid = auth]
            base == [att EXCEPT ![n] = fresh]
<1>1. /\ UNCHANGED <<up, blocked, lastInputAt, snap, keys>>
      /\ up[c] /\ terms[c] = NoAtt /\ n \in Atts /\ n # NoAtt
      /\ owner' = Append(owner, c) /\ terms' = [terms EXCEPT ![c] = n]
      /\ member' = mem /\ Reconcile(mem, base)
  <2>1. n \in Atts /\ n # NoAtt
    BY LenProperties DEF Open, ConnOK, Atts, NoAtt
  <2>. QED BY <2>1 DEF Open
<1>2. /\ owner' \in Seq(Clients) /\ Len(owner') = n /\ owner'[n] = c
      /\ \A b \in Atts : b <= Len(owner) => owner'[b] = owner[b]
  BY <1>1, AppendProperties, LenProperties DEF ConnOK, Atts
<1>3. fresh \in AttRecord /\ fresh.stage = "run" /\ ~fresh.closed /\ fresh.grid = auth
      /\ fresh.pending = <<>> /\ fresh.hand = <<>>
  BY EmptySeq DEF Fresh, AttRecord, Stages, GridOK
<1>4. /\ base \in [Atts -> AttRecord] /\ base[n] = fresh
      /\ \A b \in Atts : b # n => base[b] = att[b]
  BY <1>1, <1>3 DEF AttsOK
<1>5. /\ mem \in [Clients -> MemberRecord] /\ mem[c].att = n
      /\ \A d \in Clients : d # c => mem[d] = member[d]
  BY <1>1 DEF GridOK, MemberRecord
<1>6. \A d \in Clients : member[d].att # n /\ terms[d] # n
  BY <1>1, LenProperties DEF OwnInv, Atts, ConnOK
<1>7. ViewersShare'
  <2>1. auth # NoGrid => \A d \in Viewers(mem) : base[mem[d].att].grid = auth
    <3>. SUFFICES ASSUME auth # NoGrid, NEW d \in Viewers(mem) PROVE base[mem[d].att].grid = auth
      OBVIOUS
    <3>1. CASE d = c
      BY <1>3, <1>4, <1>5, <3>1
    <3>2. CASE d # c
      <4>1. d \in Clients /\ mem[d] = member[d] /\ member[d].att \in Atts /\ member[d].att # n
        BY <1>5, <1>6, <3>2 DEF Viewers, MemberRecord
      <4>2. d \in Viewers(member)
        BY <4>1 DEF Viewers, NoAtt, Atts
      <4>. QED BY <1>4, <4>1, <4>2 DEF ViewersShare
    <3>. QED BY <3>1, <3>2
  <2>. HIDE DEF mem, base
  <2>. QED BY <1>1, <1>4, <1>5, <2>1, ReconcileShares
<1>8. /\ auth' \in Grids \cup {NoGrid} /\ att' \in [Atts -> AttRecord]
      /\ \A b \in Atts : /\ att'[b].stage = base[b].stage /\ att'[b].closed = base[b].closed
                         /\ att'[b].pending = base[b].pending /\ att'[b].hand = base[b].hand
  <2>. HIDE DEF mem, base
  <2>. QED BY <1>1, <1>4, <1>5, ReconcileFrame DEF GridOK
<1>9. /\ att'[n].stage = "run" /\ ~att'[n].closed /\ att'[n].pending = <<>> /\ att'[n].hand = <<>>
      /\ \A b \in Atts : b # n => /\ att'[b].stage = att[b].stage /\ att'[b].closed = att[b].closed
                                  /\ att'[b].pending = att[b].pending /\ att'[b].hand = att[b].hand
  BY <1>1, <1>3, <1>4, <1>8
<1>10. /\ terms'[c] = n /\ member'[c].att = n
       /\ \A d \in Clients : d # c => terms'[d] = terms[d] /\ member'[d] = member[d]
  BY <1>1, <1>5 DEF ConnOK
<1>. HIDE DEF mem, base, fresh
<1>11. ConnOK' /\ GridOK' /\ AttsOK' /\ GateOK' /\ KeysOK'
  <2>1. n <= MaxOpens
    BY <1>1 DEF Atts
  <2>2. ConnOK'
    BY <1>1, <1>2, <2>1 DEF ConnOK
  <2>. QED BY <1>1, <1>5, <1>8, <2>2 DEF GridOK, AttsOK, GateOK, KeysOK
<1>. HIDE DEF n
<1>12. \A b \in Atts : b <= Len(owner') <=> b = n \/ b <= Len(owner)
  BY <1>2, LenProperties DEF n, Atts, ConnOK
<1>13. OwnInv'
  <2>1. \A d \in Clients : terms[d] \in Atts \cup {NoAtt} /\ member[d].att \in Atts \cup {NoAtt}
    BY DEF ConnOK, GridOK, MemberRecord
  <2>2. ASSUME NEW d \in Clients, terms'[d] # NoAtt
        PROVE  terms'[d] <= Len(owner') /\ owner'[terms'[d]] = d
    <3>1. CASE d = c
      BY <1>1, <1>2, <1>10, <1>12, <3>1
    <3>2. CASE d # c
      <4>1. terms'[d] = terms[d] /\ terms[d] \in Atts /\ terms[d] <= Len(owner) /\ owner[terms[d]] = d
        BY <1>10, <2>1, <2>2, <3>2 DEF OwnInv
      <4>. QED BY <1>2, <1>12, <4>1
    <3>. QED BY <3>1, <3>2
  <2>3. ASSUME NEW d \in Clients, member'[d].att # NoAtt
        PROVE  member'[d].att <= Len(owner') /\ owner'[member'[d].att] = d
    <3>1. CASE d = c
      BY <1>1, <1>2, <1>10, <1>12, <3>1
    <3>2. CASE d # c
      <4>1. /\ member'[d].att = member[d].att /\ member[d].att \in Atts
            /\ member[d].att <= Len(owner) /\ owner[member[d].att] = d
        BY <1>10, <2>1, <2>3, <3>2 DEF OwnInv
      <4>. QED BY <1>2, <1>12, <4>1
    <3>. QED BY <3>1, <3>2
  <2>4. ASSUME NEW b \in Atts PROVE att'[b].stage = "new" <=> b > Len(owner')
    <3>1. Len(owner) \in Nat /\ Len(owner') \in Nat
      BY <1>2, LenProperties DEF ConnOK
    <3>2. att[b].stage = "new" <=> b > Len(owner)
      BY DEF OwnInv
    <3>. QED BY <1>9, <1>12, <3>1, <3>2 DEF Atts
  <2>. QED BY <2>2, <2>3, <2>4 DEF OwnInv
<1>14. LetGoInv'
  <2>. SUFFICES ASSUME NEW d \in Clients
                PROVE  /\ terms'[d] # NoAtt => up[d] /\ att'[terms'[d]].stage \notin {"leave", "tell", "told"}
                       /\ member'[d].att # NoAtt => /\ att'[member'[d].att].stage \notin {"tell", "told"}
                                                    /\ up[d] \/ att'[member'[d].att].stage = "leave"
                       /\ member'[d].att \notin {NoAtt, terms'[d]} => att'[member'[d].att].stage = "leave"
    BY <1>1 DEF LetGoInv, GoneClientsLetGo
  <2>1. CASE d = c
    BY <1>1, <1>9, <1>10, <2>1
  <2>2. CASE d # c
    <3>. QED BY <1>6, <1>9, <1>10, <2>2, Holders
  <2>. QED BY <2>1, <2>2
<1>15. GateInv'
  BY <1>1 DEF GateInv, Held
<1>16. SeenInv'
  <2>1. ASSUME NEW b \in Atts
        PROVE  /\ \A i \in DOMAIN att'[b].pending : att'[b].pending[i] <= lastInputAt
               /\ \A i \in DOMAIN att'[b].hand : att'[b].hand[i] <= lastInputAt
    BY <1>9 DEF SeenInv
  <2>. QED BY <1>1, <2>1 DEF SeenInv
<1>17. OpenInv'
  <2>1. ASSUME NEW b \in Atts, att'[b].stage \in {"run", "flush", "live", "dead", "exit"}, ~att'[b].closed
        PROVE  terms'[owner'[b]] = b
    <3>1. CASE b = n
      BY <1>2, <1>10, <3>1
    <3>2. CASE b # n
      <4>1. terms[owner[b]] = b
        BY <1>9, <2>1, <3>2 DEF OpenInv
      <4>2. b <= Len(owner) /\ owner[b] \in Clients
        <5>1. att[b].stage # "new"
          BY <1>9, <2>1, <3>2
        <5>2. b <= Len(owner)
          BY <5>1, LenProperties DEF OwnInv, ConnOK, Atts
        <5>. QED BY <5>2, LenProperties DEF ConnOK, Atts
      <4>3. owner[b] # c
        BY <1>1, <4>1 DEF Atts, NoAtt
      <4>. QED BY <1>2, <1>10, <4>1, <4>2, <4>3
    <3>. QED BY <3>1, <3>2
  <2>. QED BY <1>9, <2>1 DEF OpenInv
<1>18. OrderInv'
  <2>1. ASSUME NEW b \in Atts, att'[b].stage \in {"run", "flush"}, b # n PROVE owner'[b] = owner[b]
    BY <1>2, <1>9, <2>1, LenProperties DEF OwnInv, ConnOK, Atts
  <2>. QED BY <1>1, <1>9, <2>1, OrderFrame
<1>. QED BY <1>7, <1>11, <1>13, <1>14, <1>15, <1>16, <1>17, <1>18

\* A new size settles the grid anew.
LEMMA ResizeKeeps ==
  ASSUME TermInv, NEW c \in Clients, NEW grid \in Grids \cup {NoGrid}, Resize(c, grid)
  PROVE  TermInv'
<1>. USE DEF TermInv, input
<1>. DEFINE mem == [member EXCEPT ![c].grid = grid]
<1>1. /\ UNCHANGED <<up, owner, terms, blocked, lastInputAt, snap, keys>>
      /\ member' = mem /\ Reconcile(mem, att)
  BY DEF Resize
<1>2. mem \in [Clients -> MemberRecord] /\ \A d \in Clients : mem[d].att = member[d].att
  BY DEF GridOK, MemberRecord
<1>3. ViewersShare'
  <2>1. auth # NoGrid => \A d \in Viewers(mem) : att[mem[d].att].grid = auth
    BY <1>2 DEF ViewersShare, Viewers
  <2>. HIDE DEF mem
  <2>. QED BY <1>1, <1>2, <2>1, ReconcileShares DEF AttsOK
<1>4. /\ auth' \in Grids \cup {NoGrid} /\ att' \in [Atts -> AttRecord]
      /\ \A b \in Atts : /\ att'[b].stage = att[b].stage /\ att'[b].closed = att[b].closed
                         /\ att'[b].pending = att[b].pending /\ att'[b].hand = att[b].hand
  <2>. HIDE DEF mem
  <2>. QED BY <1>1, <1>2, ReconcileFrame DEF GridOK, AttsOK
<1>5. member' \in [Clients -> MemberRecord] /\ \A d \in Clients : member'[d].att = member[d].att
  BY <1>1, <1>2
<1>. HIDE DEF mem
<1>6. ConnOK' /\ GridOK' /\ AttsOK' /\ GateOK' /\ KeysOK'
  BY <1>1, <1>4, <1>5 DEF ConnOK, GridOK, AttsOK, GateOK, KeysOK
<1>7. OwnInv'
  BY <1>1, <1>4, <1>5 DEF OwnInv
<1>8. LetGoInv'
  <2>. SUFFICES ASSUME NEW d \in Clients
                PROVE  /\ terms[d] # NoAtt => up[d] /\ att'[terms[d]].stage \notin {"leave", "tell", "told"}
                       /\ member[d].att # NoAtt => /\ att'[member[d].att].stage \notin {"tell", "told"}
                                                   /\ up[d] \/ att'[member[d].att].stage = "leave"
                       /\ member[d].att \notin {NoAtt, terms[d]} => att'[member[d].att].stage = "leave"
    BY <1>1, <1>5 DEF LetGoInv, GoneClientsLetGo
  <2>. QED BY <1>4, Holders
<1>9. GateInv'
  BY <1>1 DEF GateInv, Held
<1>10. SeenInv'
  BY <1>1, <1>4 DEF SeenInv
<1>11. OpenInv'
  BY <1>1, <1>4 DEF OpenInv
<1>12. OrderInv'
  BY <1>1, <1>4, OrderFrame
<1>. QED BY <1>3, <1>6, <1>7, <1>8, <1>9, <1>10, <1>11, <1>12

\* A client that closes its terminal, or goes with it open, leaves at once.
LEMMA ClosingKeeps ==
  ASSUME TermInv, NEW c \in Clients, terms[c] # NoAtt, up[c],
         up' = up \/ up' = [up EXCEPT ![c] = FALSE],
         terms' = [terms EXCEPT ![c] = NoAtt], Leave(c, Closed(terms[c])),
         UNCHANGED <<owner, input>>
  PROVE  TermInv'
<1>. USE DEF TermInv, input
<1>1. UNCHANGED <<owner, blocked, lastInputAt, snap, keys>> /\ terms[c] \in Atts
  BY DEF ConnOK
<1>2. /\ Closed(terms[c]) \in [Atts -> AttRecord] /\ Closed(terms[c])[terms[c]].closed
      /\ \A b \in Atts : /\ b # terms[c] => Closed(terms[c])[b] = att[b]
                         /\ Closed(terms[c])[b].stage = att[b].stage
                         /\ Closed(terms[c])[b].grid = att[b].grid
                         /\ Closed(terms[c])[b].hand = att[b].hand
                         /\ Closed(terms[c])[b].pending \in {att[b].pending, <<>>}
  BY <1>1, ClosedFrame
<1>3. /\ member' = [member EXCEPT ![c] = NoMember] /\ GridOK' /\ AttsOK' /\ ViewersShare'
      /\ att'[terms[c]].closed
      /\ \A b \in Atts : /\ b # terms[c] => /\ att'[b].closed = att[b].closed
                                            /\ att'[b].pending = att[b].pending
                         /\ att'[b].stage = att[b].stage /\ att'[b].hand = att[b].hand
                         /\ att'[b].pending \in {att[b].pending, <<>>}
  <2>1. /\ member' = [member EXCEPT ![c] = NoMember] /\ GridOK' /\ AttsOK' /\ ViewersShare'
        /\ \A b \in Atts : /\ att'[b].stage = Closed(terms[c])[b].stage
                           /\ att'[b].closed = Closed(terms[c])[b].closed
                           /\ att'[b].pending = Closed(terms[c])[b].pending
                           /\ att'[b].hand = Closed(terms[c])[b].hand
    BY <1>2, LeaveFrame
  <2>. QED BY <1>1, <1>2, <2>1
<1>4. /\ terms'[c] = NoAtt /\ member'[c].att = NoAtt
      /\ \A d \in Clients : d # c => terms'[d] = terms[d] /\ member'[d] = member[d]
  BY <1>3 DEF ConnOK, GridOK, NoMember
<1>5. \A d \in Clients : d # c => (up'[d] <=> up[d])
  BY DEF ConnOK
<1>6. ConnOK'
  BY <1>1 DEF ConnOK
<1>7. GateOK' /\ KeysOK'
  BY <1>1 DEF GateOK, KeysOK
<1>8. OwnInv'
  BY <1>1, <1>3, <1>4 DEF OwnInv
<1>9. LetGoInv'
  <2>. SUFFICES ASSUME NEW d \in Clients
                PROVE  /\ terms'[d] # NoAtt => up'[d] /\ att'[terms'[d]].stage \notin {"leave", "tell", "told"}
                       /\ member'[d].att # NoAtt => /\ att'[member'[d].att].stage \notin {"tell", "told"}
                                                    /\ up'[d] \/ att'[member'[d].att].stage = "leave"
                       /\ member'[d].att \notin {NoAtt, terms'[d]} => att'[member'[d].att].stage = "leave"
    BY DEF LetGoInv, GoneClientsLetGo
  <2>1. CASE d = c
    BY <1>4, <2>1
  <2>2. CASE d # c
    <3>. QED BY <1>3, <1>4, <1>5, <2>2, Holders
  <2>. QED BY <2>1, <2>2
<1>10. GateInv'
  BY <1>1 DEF GateInv, Held
<1>11. SeenInv'
  <2>1. ASSUME NEW b \in Atts
        PROVE  /\ \A i \in DOMAIN att'[b].pending : att'[b].pending[i] <= lastInputAt
               /\ \A i \in DOMAIN att'[b].hand : att'[b].hand[i] <= lastInputAt
    BY <1>3 DEF SeenInv
  <2>. QED BY <1>1, <2>1 DEF SeenInv
<1>12. OpenInv'
  <2>1. ASSUME NEW b \in Atts, att'[b].stage \in {"run", "flush", "live", "dead", "exit"}, ~att'[b].closed
        PROVE  terms'[owner'[b]] = b
    <3>1. b # terms[c] /\ terms[owner[b]] = b
      BY <1>3, <2>1 DEF OpenInv
    <3>2. owner[b] \in Clients
      BY <1>3, <2>1, LenProperties DEF OwnInv, ConnOK, Atts
    <3>. QED BY <1>1, <1>4, <3>1, <3>2
  <2>2. ASSUME NEW b \in Atts
        PROVE  /\ att'[b].stage = "run" => att'[b].hand = <<>>
               /\ att'[b].stage = "live" => att'[b].hand = <<>> /\ att'[b].pending = <<>>
    BY <1>3 DEF OpenInv
  <2>. QED BY <2>1, <2>2 DEF OpenInv
<1>13. OrderInv'
  BY <1>1, <1>3, OrderFrame
<1>. QED BY <1>3, <1>6, <1>7, <1>8, <1>9, <1>10, <1>11, <1>12, <1>13

\* A client without a terminal just goes.
LEMMA GoingKeeps ==
  ASSUME TermInv, NEW c \in Clients, Disconnect(c), terms[c] = NoAtt
  PROVE  TermInv'
<1>. USE DEF TermInv, input
<1>1. /\ UNCHANGED <<owner, blocked, lastInputAt, snap, keys, member, auth, att>>
      /\ up' = [up EXCEPT ![c] = FALSE] /\ terms' = terms
  BY DEF Disconnect, ConnOK
<1>2. ConnOK'
  BY <1>1 DEF ConnOK
<1>3. LetGoInv'
  <2>1. \A d \in Clients : d # c => (up'[d] <=> up[d])
    BY <1>1 DEF ConnOK
  <2>. SUFFICES ASSUME NEW d \in Clients
                PROVE  /\ terms[d] # NoAtt => up'[d] /\ att[terms[d]].stage \notin {"leave", "tell", "told"}
                       /\ member[d].att # NoAtt => /\ att[member[d].att].stage \notin {"tell", "told"}
                                                   /\ up'[d] \/ att[member[d].att].stage = "leave"
                       /\ member[d].att \notin {NoAtt, terms[d]} => att[member[d].att].stage = "leave"
    BY <1>1 DEF LetGoInv, GoneClientsLetGo
  <2>. QED BY <1>1, <2>1, Holders
<1>4. GridOK' /\ AttsOK' /\ GateOK' /\ KeysOK' /\ OwnInv' /\ SeenInv' /\ OpenInv'
  BY <1>1 DEF GridOK, AttsOK, GateOK, KeysOK, OwnInv, SeenInv, OpenInv
<1>5. GateInv'
  BY <1>1 DEF GateInv, Held
<1>6. OrderInv'
  BY <1>1, OrderFrame
<1>7. ViewersShare'
  BY <1>1 DEF ViewersShare
<1>. QED BY <1>2, <1>3, <1>4, <1>5, <1>6, <1>7

-----------------------------------------------------------------------------
(* Keystrokes and the gate                                                 *)

\* A keystroke the gate lets through is newer than all others.
LEMMA TypeKeeps == ASSUME TermInv, NEW c \in Clients, Type(c) PROVE TermInv'
<1>. USE DEF TermInv, sharing
<1>. DEFINE a == terms[c]
            key == lastInputAt + 1
<1>1. /\ UNCHANGED <<up, owner, terms, member, auth, blocked, snap>>
      /\ lastInputAt' = key /\ blocked = 0 /\ a # NoAtt
  BY DEF Type
<1>2. a \in Atts /\ key \in Keystrokes /\ lastInputAt \in Nat
  BY <1>1 DEF Type, ConnOK, GateOK, Keystrokes
<1>3. /\ Len(keys) \in Nat /\ DOMAIN keys = 1..Len(keys)
      /\ \A i \in DOMAIN keys : keys[i][2] \in Nat
  BY LenProperties, ElementOfSeq DEF KeysOK, Keystrokes
<1>4. \/ keys' = keys
      \/ /\ att[a].stage = "live" /\ keys' \in Seq(Clients \X Keystrokes)
         /\ DOMAIN keys' = 1..(Len(keys) + 1) /\ keys'[Len(keys) + 1] = <<c, key>>
         /\ \A i \in DOMAIN keys : keys'[i] = keys[i]
  <2>1. CASE keys' = Append(keys, <<c, key>>) /\ att[a].stage = "live"
    BY <1>2, <2>1, AppendProperties, LenProperties DEF KeysOK
  <2>. QED BY <1>1, <2>1 DEF Type
<1>. DEFINE pending == att[a].pending
<1>5. /\ pending \in Seq(Keystrokes) /\ Len(pending) \in Nat /\ DOMAIN pending = 1..Len(pending)
      /\ Append(pending, key) \in Seq(Keystrokes)
      /\ DOMAIN Append(pending, key) = 1..(Len(pending) + 1)
      /\ Append(pending, key)[Len(pending) + 1] = key
      /\ \A i \in 1..Len(pending) : Append(pending, key)[i] = pending[i]
  BY <1>2, AppendProperties, LenProperties DEF AttsOK, AttRecord
<1>6. /\ att' \in [Atts -> AttRecord]
      /\ \A b \in Atts : /\ b # a => att'[b] = att[b]
                         /\ att'[b].stage = att[b].stage /\ att'[b].closed = att[b].closed
                         /\ att'[b].grid = att[b].grid /\ att'[b].hand = att[b].hand
      /\ \/ att' = att
         \/ /\ att[a].stage # "live" /\ keys' = keys
            /\ att'[a].pending = Append(pending, key)
  <2>1. CASE att' = att
    BY <2>1 DEF AttsOK
  <2>2. CASE /\ att[a].stage \notin Exited \cup {"live"} /\ keys' = keys
             /\ att' = [att EXCEPT ![a].pending = Append(@, key)]
    BY <1>2, <1>5, <2>2 DEF AttsOK, AttRecord
  <2>. QED BY <1>1, <2>1, <2>2 DEF Type
<1>. DEFINE longer == Append(pending, key)
<1>5A. ASSUME NEW j \in DOMAIN longer
      PROVE  \/ j \in 1..Len(pending) /\ longer[j] = pending[j]
             \/ j = Len(pending) + 1 /\ longer[j] = key
  <2>1. j \in 1..Len(pending) \/ j = Len(pending) + 1
    BY <1>5
  <2>. QED BY <1>5, <2>1
<1>7. \A i \in 1..Len(pending) : pending[i] <= lastInputAt
  BY <1>2, <1>5 DEF SeenInv
<1>8. Held = {}
  BY <1>1, FS_EmptySet DEF GateInv
<1>9. ConnOK' /\ GridOK'
  BY <1>1 DEF ConnOK, GridOK
<1>10. AttsOK' /\ GateOK' /\ KeysOK'
  BY <1>1, <1>2, <1>4, <1>6 DEF AttsOK, GateOK, KeysOK, Keystrokes
<1>11. OwnInv'
  BY <1>1, <1>6 DEF OwnInv
<1>12. LetGoInv'
  BY <1>1, <1>6, LetGoFrame
<1>13. GateInv'
  BY <1>1, <1>8 DEF GateInv, Held
<1>14. SeenInv'
  <2>1. \A i \in DOMAIN keys' : keys'[i][2] <= key
    BY <1>2, <1>3, <1>4 DEF SeenInv
  <2>2. ASSUME NEW b \in Atts
        PROVE  /\ \A i \in DOMAIN att'[b].pending : att'[b].pending[i] <= key
               /\ \A i \in DOMAIN att'[b].hand : att'[b].hand[i] <= key
    <3>1. /\ att[b].pending \in Seq(Keystrokes) /\ att[b].hand \in Seq(Keystrokes)
      BY DEF AttsOK, AttRecord
    <3>2. /\ \A i \in DOMAIN att[b].pending : att[b].pending[i] \in Nat /\ att[b].pending[i] <= key
          /\ \A i \in DOMAIN att[b].hand : att[b].hand[i] \in Nat /\ att[b].hand[i] <= key
      BY <1>2, <3>1, ElementOfSeq, LenProperties DEF SeenInv, Keystrokes
    <3>3. \A i \in DOMAIN longer : longer[i] <= key
      <4>1. \A i \in 1..Len(pending) : pending[i] \in Nat
        BY <1>5, ElementOfSeq DEF Keystrokes
      <4>. HIDE DEF longer, pending
      <4>. QED BY <1>2, <1>5A, <1>7, <4>1
    <3>. QED BY <1>6, <3>2, <3>3
  <2>. QED BY <1>1, <2>1, <2>2 DEF SeenInv
<1>15. OpenInv'
  <2>1. ASSUME NEW b \in Atts, att'[b].stage = "live" PROVE att'[b].pending = <<>>
    BY <1>2, <1>6, <2>1 DEF OpenInv
  <2>. QED BY <1>1, <1>6, <2>1 DEF OpenInv
<1>16. OrderInv'
  <2>1. KeysStayInOrder'
    <3>. SUFFICES ASSUME NEW i \in DOMAIN keys', NEW j \in DOMAIN keys', i < j,
                         keys'[i][1] = keys'[j][1]
                  PROVE  keys'[i][2] < keys'[j][2]
      BY DEF KeysStayInOrder
    <3>1. CASE keys' = keys
      BY <3>1 DEF OrderInv, KeysStayInOrder
    <3>2. CASE keys' # keys /\ j \in DOMAIN keys
      <4>1. i \in DOMAIN keys /\ keys'[i] = keys[i] /\ keys'[j] = keys[j]
        BY <1>3, <1>4, <3>2
      <4>2. keys[i][1] = keys[j][1] /\ i < j /\ j \in DOMAIN keys
        BY <3>2, <4>1
      <4>3. keys[i][2] < keys[j][2]
        BY <4>1, <4>2 DEF OrderInv, KeysStayInOrder
      <4>. QED BY <4>1, <4>3
    <3>3. CASE keys' # keys /\ j = Len(keys) + 1
      <4>1. i \in DOMAIN keys /\ keys'[i] = keys[i] /\ keys'[j] = <<c, key>>
        BY <1>3, <1>4, <3>3
      <4>2. keys[i][2] \in Nat /\ keys[i][2] <= lastInputAt
        BY <1>3, <4>1 DEF SeenInv
      <4>3. keys'[i][2] = keys[i][2] /\ keys'[j][2] = key
        BY <4>1
      <4>. QED BY <1>2, <4>2, <4>3
    <3>. QED BY <1>3, <1>4, <3>1, <3>2, <3>3
  <2>2. ASSUME NEW b \in Atts, att'[b].stage \in {"run", "flush"}, ~att'[b].closed
        PROVE  /\ Ascending(att'[b].hand) /\ Ascending(att'[b].pending)
               /\ \A i \in DOMAIN att'[b].hand, j \in DOMAIN att'[b].pending :
                    att'[b].hand[i] < att'[b].pending[j]
               /\ \A k \in DOMAIN keys' : keys'[k][1] = owner'[b] =>
                    /\ \A i \in DOMAIN att'[b].hand : keys'[k][2] < att'[b].hand[i]
                    /\ \A j \in DOMAIN att'[b].pending : keys'[k][2] < att'[b].pending[j]
    <3>1. /\ att[b].stage \in {"run", "flush"} /\ ~att[b].closed /\ att'[b].hand = att[b].hand
      BY <1>6, <2>2
    <3>2. /\ Ascending(att[b].hand) /\ Ascending(att[b].pending)
          /\ \A i \in DOMAIN att[b].hand, j \in DOMAIN att[b].pending :
               att[b].hand[i] < att[b].pending[j]
          /\ \A k \in DOMAIN keys : keys[k][1] = owner[b] =>
               /\ \A i \in DOMAIN att[b].hand : keys[k][2] < att[b].hand[i]
               /\ \A j \in DOMAIN att[b].pending : keys[k][2] < att[b].pending[j]
      BY <3>1 DEF OrderInv
    <3>3. CASE att' = att
      <4>1. b # a \/ keys' = keys
        BY <1>4, <3>1
      <4>2. keys' # keys => owner[b] # c
        BY <1>1, <3>1, <4>1 DEF OpenInv
      <4>3. \A k \in DOMAIN keys' : keys'[k][1] = owner[b] => k \in DOMAIN keys /\ keys'[k] = keys[k]
        BY <1>3, <1>4, <4>2
      <4>. QED BY <1>1, <3>2, <3>3, <4>3
    <3>4. CASE b = a /\ keys' = keys /\ att'[a].pending = Append(pending, key)
      <4>1. /\ \A i \in DOMAIN att[a].hand : att[a].hand[i] \in Nat /\ att[a].hand[i] < key
            /\ \A i \in 1..Len(pending) : pending[i] \in Nat /\ pending[i] < key
            /\ \A k \in DOMAIN keys : keys[k][2] < key
        <5>1. att[a].hand \in Seq(Keystrokes)
          BY <1>2 DEF AttsOK, AttRecord
        <5>2. \A i \in DOMAIN att[a].hand : att[a].hand[i] \in Nat /\ att[a].hand[i] <= lastInputAt
          BY <1>2, <5>1, ElementOfSeq, LenProperties DEF SeenInv, Keystrokes
        <5>3. \A i \in 1..Len(pending) : pending[i] \in Nat
          BY <1>5, ElementOfSeq DEF Keystrokes
        <5>. QED BY <1>2, <1>3, <1>7, <5>2, <5>3 DEF SeenInv
      <4>2. Ascending(longer)
        <5>1. \A i, j \in 1..Len(pending) : i < j => pending[i] < pending[j]
          BY <1>5, <3>2, <3>4 DEF Ascending
        <5>2. Len(pending) \in Nat
          BY <1>5
        <5>. HIDE DEF longer, pending, key
        <5>. QED BY <1>5A, <4>1, <5>1, <5>2 DEF Ascending
      <4>3. \A i \in DOMAIN att[a].hand, j \in DOMAIN longer : att[a].hand[i] < longer[j]
        <5>1. \A i \in DOMAIN att[a].hand, j \in 1..Len(pending) : att[a].hand[i] < pending[j]
          BY <1>5, <3>2, <3>4
        <5>. HIDE DEF longer, pending, key
        <5>. QED BY <1>5A, <4>1, <5>1
      <4>4. \A k \in DOMAIN keys : keys[k][1] = owner[a] =>
              \A j \in DOMAIN longer : keys[k][2] < longer[j]
        <5>1. \A k \in DOMAIN keys : keys[k][1] = owner[a] =>
                \A j \in 1..Len(pending) : keys[k][2] < pending[j]
          BY <1>5, <3>2, <3>4
        <5>. HIDE DEF longer, pending, key
        <5>. QED BY <1>5A, <4>1, <5>1
      <4>5. att'[a].pending = longer
        BY <3>4
      <4>. HIDE DEF longer, pending, key
      <4>. QED BY <1>1, <3>1, <3>2, <3>4, <4>2, <4>3, <4>4, <4>5
    <3>5. CASE b # a /\ keys' = keys
      BY <1>1, <1>6, <3>2, <3>5
    <3>. QED BY <1>6, <3>3, <3>4, <3>5
  <2>. QED BY <2>1, <2>2 DEF OrderInv
<1>17. ViewersShare'
  BY <1>1, <1>6 DEF ViewersShare, Viewers, GridOK, MemberRecord, Candidates, LargestGrids
<1>. QED BY <1>9, <1>10, <1>11, <1>12, <1>13, <1>14, <1>15, <1>16, <1>17

\* The gate stays closed until the last drain has let go.
LEMMA DrainKeeps ==
  ASSUME TermInv, NEW d \in Drains, BeginInputDrain(d) \/ ReleaseDrain(d)
  PROVE  TermInv'
<1>. USE DEF TermInv
<1>1. UNCHANGED <<up, owner, terms, member, auth, att, lastInputAt, keys>>
  BY DEF BeginInputDrain, ReleaseDrain, sharing
<1>2. GateOK' /\ GateInv'
  <2>1. NotHeld \notin 0..MaxKeys
    BY DEF NotHeld
  <2>2. CASE BeginInputDrain(d)
    <3>1. /\ Held' = Held \cup {d} /\ d \notin Held
      BY <2>1, <2>2 DEF BeginInputDrain, Held, GateOK
    <3>2. IsFiniteSet(Held') /\ Cardinality(Held') = Cardinality(Held) + 1
      BY <3>1, FS_AddElement DEF GateInv
    <3>3. \A e \in Held' : snap'[e] = lastInputAt
      BY <2>2, <3>1 DEF BeginInputDrain, GateInv, GateOK, Held
    <3>4. GateOK'
      BY <1>1, <2>2 DEF BeginInputDrain, GateOK
    <3>. QED BY <1>1, <2>2, <3>2, <3>3, <3>4 DEF BeginInputDrain, GateInv
  <2>3. CASE ReleaseDrain(d)
    <3>1. /\ Held' = Held \ {d} /\ d \in Held
      BY <2>3 DEF ReleaseDrain, Held, GateOK
    <3>2. IsFiniteSet(Held') /\ Cardinality(Held') = Cardinality(Held) - 1
      BY <3>1, FS_RemoveElement DEF GateInv
    <3>3. Cardinality(Held') \in Nat /\ Cardinality(Held) \in Nat
      BY <3>2, FS_CardinalityType DEF GateInv
    <3>4. blocked' = blocked - 1
      BY <2>3, <3>2, <3>3 DEF ReleaseDrain, GateInv
    <3>5. \A e \in Held' : snap'[e] = lastInputAt
      BY <2>3, <3>1 DEF ReleaseDrain, GateInv, GateOK, Held
    <3>6. GateOK'
      BY <1>1, <2>3, <3>2, <3>3, <3>4 DEF ReleaseDrain, GateOK, GateInv
    <3>. QED BY <1>1, <3>2, <3>4, <3>5, <3>6 DEF GateInv
  <2>. QED BY <2>2, <2>3
<1>3. ConnOK' /\ GridOK' /\ AttsOK' /\ KeysOK' /\ OwnInv'
  BY <1>1 DEF ConnOK, GridOK, AttsOK, KeysOK, OwnInv
<1>4. LetGoInv'
  BY <1>1, LetGoFrame
<1>5. SeenInv' /\ OpenInv'
  BY <1>1 DEF SeenInv, OpenInv
<1>6. OrderInv'
  BY <1>1, OrderFrame
<1>7. ViewersShare'
  BY <1>1 DEF ViewersShare
<1>. QED BY <1>2, <1>3, <1>4, <1>5, <1>6, <1>7

-----------------------------------------------------------------------------
(* The invariant and what follows                                          *)

\* Nobody has opened the terminal yet.
LEMMA TermInvInit == TermInit => TermInv
<1> SUFFICES ASSUME TermInit PROVE TermInv
  OBVIOUS
<1>. USE DEF TermInit
<1>1. ConnOK /\ KeysOK
  BY EmptySeq DEF ConnOK, KeysOK
<1>2. GridOK
  BY DEF GridOK, NoMember, MemberRecord
<1>3. AttsOK
  BY EmptySeq DEF AttsOK, AttRecord, Fresh, Stages
<1>4. GateOK
  BY DEF GateOK
<1>5. OwnInv
  BY EmptySeq DEF OwnInv, NoMember, Fresh, Atts
<1>6. LetGoInv
  BY DEF LetGoInv, GoneClientsLetGo, NoMember
<1>7. GateInv
  <2>1. Held = {}
    BY DEF Held
  <2>. QED BY <2>1, FS_EmptySet DEF GateInv
<1>8. SeenInv /\ OpenInv /\ OrderInv
  BY DEF SeenInv, OpenInv, OrderInv, KeysStayInOrder, Ascending, Fresh
<1>9. ViewersShare
  BY DEF ViewersShare, Viewers, Candidates, NoMember
<1>. QED BY <1>1, <1>2, <1>3, <1>4, <1>5, <1>6, <1>7, <1>8, <1>9 DEF TermInv

\* Every step keeps the invariant.
LEMMA TermInvStep == TermInv /\ [TermNext]_termVars => TermInv'
<1> SUFFICES ASSUME TermInv, [TermNext]_termVars PROVE TermInv'
  OBVIOUS
<1>1. ASSUME NEW c \in Clients, CloseTerminal(c) PROVE TermInv'
  BY <1>1, ClosingKeeps DEF CloseTerminal
<1>2. ASSUME NEW c \in Clients, Disconnect(c) PROVE TermInv'
  <2>1. CASE terms[c] = NoAtt
    BY <1>2, <2>1, GoingKeeps
  <2>2. CASE terms[c] # NoAtt
    BY <1>2, <2>2, ClosingKeeps DEF Disconnect
  <2>. QED BY <2>1, <2>2
<1>3. CASE ClientNext
  BY <1>1, <1>2, <1>3, OpenKeeps, ResizeKeeps, TypeKeeps DEF ClientNext
<1>4. ASSUME NEW a \in Atts, AttachStream(a) \/ Stop(a) \/ Dropped(a) \/ MarkExited(a) \/ TellExited(a)
      PROVE  TermInv'
  BY <1>4, MoveKeeps DEF AttachStream, Stop, Dropped, MarkExited, TellExited, Stages
<1>5. CASE AttachmentNext
  BY <1>4, <1>5, HandKeeps, FlushKeyKeeps, ForgetTermKeeps, LeaveOnExitKeeps DEF AttachmentNext
<1>6. CASE GateNext
  BY <1>6, DrainKeeps DEF GateNext
<1>7. CASE UNCHANGED termVars
  <2>1. UNCHANGED <<up, owner, terms, member, auth, att, blocked, lastInputAt, snap, keys>>
    BY <1>7 DEF termVars
  <2>2. ConnOK' /\ GridOK' /\ AttsOK' /\ GateOK' /\ KeysOK' /\ OwnInv' /\ SeenInv' /\ OpenInv'
    BY <2>1 DEF TermInv, ConnOK, GridOK, AttsOK, GateOK, KeysOK, OwnInv, SeenInv, OpenInv
  <2>3. GateInv' /\ ViewersShare'
    BY <2>1 DEF TermInv, GateInv, Held, ViewersShare
  <2>4. LetGoInv' /\ OrderInv'
    BY <2>1, LetGoFrame, OrderFrame DEF TermInv
  <2>. QED BY <2>2, <2>3, <2>4 DEF TermInv
<1>. QED BY <1>3, <1>5, <1>6, <1>7 DEF TermNext

\* Who opens, leaves or loses the terminal: the membership follows, or the client is marked.
LEMMA MembersStep == TermInv /\ MembersInv /\ [TermNext]_termVars => MembersInv'
<1> SUFFICES ASSUME TermInv, MembersInv, [TermNext]_termVars PROVE MembersInv'
  OBVIOUS
<1>. USE DEF MembersInv, TermInv, ConnOK, GridOK
<1>1. ASSUME UNCHANGED <<terms, member, evicted>> PROVE MembersInv'
  BY <1>1
<1>2. ASSUME NEW c \in Clients, NEW grid \in Grids \cup {NoGrid}, Open(c, grid) PROVE MembersInv'
  BY <1>2 DEF Open, Reconcile
<1>3. ASSUME NEW c \in Clients, NEW grid \in Grids \cup {NoGrid}, Resize(c, grid) PROVE MembersInv'
  <2>1. \A d \in Clients : member'[d].att = member[d].att
    BY <1>3 DEF Resize, MemberRecord
  <2>. QED BY <1>3, <2>1 DEF Resize
<1>4. ASSUME NEW c \in Clients, CloseTerminal(c) PROVE MembersInv'
  BY <1>4 DEF CloseTerminal, Leave
<1>5. ASSUME NEW c \in Clients, Disconnect(c) PROVE MembersInv'
  BY <1>5 DEF Disconnect, Leave
<1>6. ASSUME NEW c \in Clients, Type(c) PROVE MembersInv'
  BY <1>1, <1>6 DEF Type, sharing
<1>7. ASSUME NEW a \in Atts, ForgetTerm(a) PROVE MembersInv'
  <2>1. owner[a] \in Clients
    BY <1>7 DEF ForgetTerm, OwnInv, Atts
  <2>. QED BY <1>7, <2>1 DEF ForgetTerm
<1>8. ASSUME NEW a \in Atts, LeaveOnExit(a) PROVE MembersInv'
  <2>1. owner[a] \in Clients
    BY <1>8 DEF LeaveOnExit, OwnInv, Atts
  <2>. QED BY <1>8, <2>1 DEF LeaveOnExit, Leave
<1>9. ASSUME NEW a \in Atts,
             \/ AttachStream(a) \/ Stop(a) \/ TakePending(a) \/ FlushKey(a) \/ FlushFails(a)
             \/ Dropped(a) \/ MarkExited(a) \/ TellExited(a)
      PROVE  MembersInv'
  BY <1>1, <1>9 DEF AttachStream, Stop, TakePending, FlushKey, FlushFails, Dropped, MarkExited,
                    TellExited, Step, sharing
<1>10. ASSUME NEW d \in Drains, BeginInputDrain(d) \/ ReleaseDrain(d) PROVE MembersInv'
  BY <1>1, <1>10 DEF BeginInputDrain, ReleaseDrain, sharing
<1>11. CASE UNCHANGED termVars
  BY <1>1, <1>11 DEF termVars
<1>. QED BY <1>2, <1>3, <1>4, <1>5, <1>6, <1>7, <1>8, <1>9, <1>10, <1>11
         DEF TermNext, ClientNext, AttachmentNext, GateNext

\* Connections, attachments, grid and gate stay in their types.
THEOREM TerminalTypeCorrect == TermSpec => []TermTypeOK
<1>1. TermInit => MembersInv
  BY DEF TermInit, MembersInv
<1>2. TermInv /\ MembersInv => TermTypeOK
  BY DEF TermInv, ConnOK, GridOK, MemberRecord, AttsOK, AttRecord, GateOK, KeysOK, Keystrokes,
         MembersInv, TermTypeOK
<1>. QED BY TermInvInit, TermInvStep, MembersStep, <1>1, <1>2, PTL DEF TermSpec

\* Keys reach the pane in the order they were typed, through flushes, reconnects and reopens.
THEOREM KeysInOrder == TermSpec => []KeysStayInOrder
<1>1. TermInv => KeysStayInOrder
  BY DEF TermInv, OrderInv
<1>. QED BY TermInvInit, TermInvStep, <1>1, PTL DEF TermSpec

\* No key accepted after a drain began is in the pane or on its way while the drain lasts.
THEOREM DrainsHold == TermSpec => []DrainHoldsKeys
<1>1. TermInv => DrainHoldsKeys
  BY DEF TermInv, GateInv, SeenInv, Held, DrainHoldsKeys
<1>. QED BY TermInvInit, TermInvStep, <1>1, PTL DEF TermSpec

\* Every open terminal counts for the grid and renders it, unless the exit of an older
\* attachment of its client took it off the grid.
THEOREM GridStaysShared == TermSpec => []GridIsShared
<1>1. TermInit => MembersInv
  BY DEF TermInit, MembersInv
<1>2. TermInv /\ MembersInv => GridIsShared
  <2> SUFFICES ASSUME TermInv, MembersInv PROVE GridIsShared
    OBVIOUS
  <2>1. ASSUME NEW c \in Clients \ evicted, terms[c] # NoAtt PROVE SharesGrid(c)
    BY <2>1 DEF TermInv, MembersInv, ViewersShare, Viewers, SharesGrid
  <2>. QED BY <2>1 DEF TermInv, ViewersShare, GridIsShared
<1>. QED BY TermInvInit, TermInvStep, MembersStep, <1>1, <1>2, PTL DEF TermSpec

\* A client that is gone, or was told of the end, holds nothing.
THEOREM GoneLetGo == TermSpec => []GoneClientsLetGo
<1>1. TermInv => GoneClientsLetGo
  BY DEF TermInv, LetGoInv
<1>. QED BY TermInvInit, TermInvStep, <1>1, PTL DEF TermSpec

-----------------------------------------------------------------------------
(* The grid can always be settled                                          *)

\* A finite set of sets has a smallest one in it.
LEMMA SmallestSubset ==
  ASSUME NEW A, IsFiniteSet(A), NEW C, C \subseteq SUBSET A, C # {}
  PROVE  \E X \in C : \A Y \in C : Y \subseteq X => Y = X
<1>1. IsWellFoundedOn(StrictSubsetOrdering(A), FiniteSubsetsOf(A))
  BY FS_StrictSubsetOrderingWellFounded
<1>2. C \subseteq FiniteSubsetsOf(A)
  BY FS_FiniteSubsetsOfFinite
<1>3. PICK X \in C : \A Y \in C : ~(<<Y, X>> \in StrictSubsetOrdering(A))
  BY <1>1, <1>2, WFMin
<1>4. ASSUME NEW Y \in C, Y \subseteq X, Y # X PROVE FALSE
  <2>1. <<Y, X>> \in StrictSubsetOrdering(A)
    BY <1>4 DEF StrictSubsetOrdering
  <2>. QED BY <1>3, <2>1
<1>. QED BY <1>4

\* Of finitely many grids one has the largest area.
LEMMA LargestExists ==
  ASSUME NEW S, IsFiniteSet(S), S # {}, \A g \in S : Area(g) \in Nat
  PROVE  \E g \in S : \A h \in S : Area(h) <= Area(g)
<1>. DEFINE From(g) == {h \in S : Area(h) >= Area(g)}
            C == {From(g) : g \in S}
<1>1. PICK g \in S : \A h \in S : From(h) \subseteq From(g) => From(h) = From(g)
  <2>1. C \subseteq SUBSET S /\ C # {}
    OBVIOUS
  <2>2. PICK X \in C : \A Y \in C : Y \subseteq X => Y = X
    <3>1. IsFiniteSet(S)
      OBVIOUS
    <3>. HIDE DEF C
    <3>. QED BY ONLY <2>1, <3>1, SmallestSubset
  <2>3. PICK g \in S : X = From(g)
    OBVIOUS
  <2>4. \A h \in S : From(h) \in C
    OBVIOUS
  <2>. HIDE DEF C, From
  <2>. QED BY <2>2, <2>3, <2>4
<1>2. ASSUME NEW h \in S, Area(h) > Area(g) PROVE FALSE
  <2>1. From(h) \subseteq From(g)
    <3>1. ASSUME NEW k \in S, Area(k) >= Area(h) PROVE Area(k) >= Area(g)
      BY <1>2, <3>1
    <3>. QED BY <3>1
  <2>2. g \in From(g) /\ g \notin From(h)
    BY <1>2
  <2>. QED BY <1>1, <2>1, <2>2
<1>. QED BY <1>2

\* reconcileLocked finds a largest grid whenever a viewer has reported a size, so that no
\* opening, resize, close or exit waits for one: GridIsShared does not hold for want of a step.
THEOREM LargestGridIsFound ==
  ASSUME NEW mem \in [Clients -> MemberRecord], Candidates(mem) # {}
  PROVE  LargestGrids(mem) # {}
<1>. DEFINE sized == {c \in Viewers(mem) : mem[c].grid # NoGrid}
            asked == IF sized \cap Primaries # {} THEN sized \cap Primaries ELSE sized
<1>1. Candidates(mem) = {mem[c].grid : c \in asked}
  BY DEF Candidates
<1>2. asked \subseteq Clients /\ \A c \in asked : mem[c].grid \in Grids
  BY DEF Viewers, MemberRecord
<1>3. IsFiniteSet(asked)
  BY <1>2, FS_Subset
<1>. HIDE DEF asked
<1>4. IsFiniteSet(Candidates(mem))
  <2>. DEFINE f == [c \in asked |-> mem[c].grid]
  <2>1. f \in Surjection(asked, Candidates(mem))
    BY <1>1 DEF Surjection
  <2>. QED BY <1>3, <2>1, FS_Surjection
<1>5. \A g \in Grids : Area(g) \in Nat
  BY DEF Area
<1>6. \A g \in Candidates(mem) : Area(g) \in Nat
  BY <1>1, <1>2, <1>5
<1>7. PICK g \in Candidates(mem) : \A h \in Candidates(mem) : Area(h) <= Area(g)
  BY <1>4, <1>6, LargestExists
<1>. QED BY <1>7 DEF LargestGrids

-----------------------------------------------------------------------------
(* The three services side by side                                         *)

\* A run of the composition is a run of each service: where one of them moves, the
\* others rest, and no bound of the composition lets a service do what it could not.
LEMMA ServicesAreRuns == ServicesSpec => WorkSpec /\ LifeSpec /\ TermSpec
<1>1. ServicesInit => WorkInit /\ LifeInit /\ TermInit
  BY DEF ServicesInit
<1>2. [WorkMoves \/ LifeMoves \/ TermMoves]_servicesVars
        => [WorkNext]_workVars /\ [LifeNext]_lifeVars /\ [TermNext]_termVars
  BY DEF WorkMoves, LifeMoves, TermMoves, servicesVars
<1>. QED BY <1>1, <1>2, PTL DEF ServicesSpec, WorkSpec, LifeSpec, TermSpec

\* The rows, stores and gates of all three services stay in their types side by side.
THEOREM ServicesTypeCorrect == ServicesSpec => []ServicesTypeOK
<1>1. WorkTypeOK /\ LifeTypeOK /\ TermTypeOK => ServicesTypeOK
  BY DEF ServicesTypeOK
<1>. QED BY <1>1, ServicesAreRuns, WorkTypeCorrect, LifeTypeCorrect, TerminalTypeCorrect, PTL
=============================================================================
