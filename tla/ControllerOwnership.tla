------------------------- MODULE ControllerOwnership -------------------------
(***************************************************************************)
(* What the interface handoff promises of one session: docs/architecture.md *)
(* says a session has exactly one controller mode at a time and that both  *)
(* controllers are never live at once.  The session row names an owner;    *)
(* only the owner's controller can be started, only where no controller is *)
(* live, and ownership changes hands only while none is.                   *)
(***************************************************************************)
CONSTANT Owners

VARIABLES owner, writers

OwnershipInit == owner \in Owners /\ writers \in {{}, {owner}}

\* The owner's controller starts.
Acquire ==
  /\ writers = {}
  /\ writers' = {owner}
  /\ UNCHANGED owner

\* The live controller stops, exits or dies with its daemon.
Release ==
  /\ writers # {}
  /\ writers' = {}
  /\ UNCHANGED owner

\* The row names another owner, between two controllers.
Handover ==
  /\ writers = {}
  /\ owner' \in Owners \ {owner}
  /\ UNCHANGED writers

OwnershipNext == Acquire \/ Release \/ Handover

OwnershipSpec == OwnershipInit /\ [][OwnershipNext]_<<owner, writers>>
=============================================================================
