--------------------------- MODULE MCPlayerInput ---------------------------
(* PlayerInput for TLC, with a buffer, a tick and a counter small enough for *)
(* the buffer to overflow, the backlog to outlast a tick and the sequence    *)
(* numbers to wrap.                                                          *)
EXTENDS PlayerInput
=============================================================================
