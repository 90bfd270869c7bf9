---------------------------- MODULE MCChatTurns ----------------------------
(* Instances of ChatTurns for TLC: a few messages over one controller, with   *)
(* one of the two kinds of driver.                                            *)
EXTENDS ChatTurns, TLC

CONSTANTS m1, m2, m3

\* Messages are interchangeable wherever no run names one.
MessageSymmetry == Permutations(Messages)
=============================================================================
