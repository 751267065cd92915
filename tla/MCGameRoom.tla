---------------------------- MODULE MCGameRoom ----------------------------
(* GameRoom for TLC.                                                       *)
EXTENDS GameRoom, TLC

CONSTANTS p1, p2, p3

TwoPlayers == {p1, p2}
ThreePlayers == {p1, p2, p3}
Symmetry == Permutations(ThreePlayers)
=============================================================================
