----------------------------- MODULE MCServices -----------------------------
(***************************************************************************)
(* Three services of the daemon side by side, for one run of TLC.  None     *)
(* reads a variable of another, so an instance lets one of them move and    *)
(* the others rest, and the states add up.  The terminal moves in two       *)
(* bounded ways: its clients resize and type nothing, or type and ask for   *)
(* no size.                                                                 *)
(***************************************************************************)
EXTENDS WorkKeeping, Lifecycle, SharedTerminal

VARIABLE focus \* the service that moves

MCGrids == {<<2, 1>>, <<1, 2>>}

servicesVars == <<workVars, lifeVars, termVars, focus>>

ServicesInit ==
  /\ WorkInit /\ LifeInit /\ TermInit
  /\ focus \in {"work", "lifecycle", "grid", "keys"}
  /\ focus # "lifecycle" => toolName = [u \in Tools |-> CHOOSE x \in Names : TRUE]

\* Bound on the hooks, probes, terminations and launches under way at once.
MaxUnderWay == 3

UnderWay ==
  Cardinality(wire') + Cardinality({t \in Terminators : ending'[t] # "idle"})
    + Cardinality({probe'} \ {NoProbe}) + Cardinality({spawn'} \ {"idle"}) <= MaxUnderWay

WorkMoves == focus = "work" /\ WorkNext /\ UNCHANGED <<lifeVars, termVars, focus>>
LifeMoves ==
  /\ focus = "lifecycle" /\ LifeNext /\ UnderWay
  /\ UNCHANGED <<workVars, termVars, focus>>
TermMoves ==
  /\ focus \in {"grid", "keys"}
  /\ TermNext
  /\ IF focus = "grid" THEN input' = input ELSE auth' = NoGrid
  /\ UNCHANGED <<workVars, lifeVars, focus>>

ServicesSpec == ServicesInit /\ [][WorkMoves \/ LifeMoves \/ TermMoves]_servicesVars

\* The type invariants of the three services.
ServicesTypeOK == WorkTypeOK /\ LifeTypeOK /\ TermTypeOK
=============================================================================
