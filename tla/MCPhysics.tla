----------------------------- MODULE MCPhysics -----------------------------
(* Physics for TLC: a closed room of four columns, with a low passage, a   *)
(* floating tile, and a ladder that leads up to another one.               *)
EXTENDS Physics

MCSolid ==
    {<<cx, cy>> : cx \in -2..3, cy \in {-2, 3}} \cup {<<cx, cy>> : cx \in {-2, 3}, cy \in -2..3}
    \cup {<<2, 0>>}
MCLadder == {<<1, -1>>, <<1, 0>>}
MCFloating == {<<0, -1>>, <<1, 0>>}
MCSpots == {0, 7000}
=============================================================================
