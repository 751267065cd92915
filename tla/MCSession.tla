----------------------------- MODULE MCSession -----------------------------
(* Session for TLC.  The thread names are model values.                     *)
EXTENDS Session, TLC

CONSTANTS w1, w2

MCWorkers == {w1, w2}
=============================================================================
