----------------------------- MODULE MCFraming -----------------------------
(* Framing for TLC: fields of 3 bits, packets of at most 3 units, and        *)
(* payloads whose units can be taken for headers.                            *)
EXTENDS Framing

\* Payloads of every length from none to one too many for a field.
MCMessages ==
    [opcode : {1}, payload : {[i \in 1..n |-> 1 + i] : n \in 0..1}
                             \cup {[i \in 1..n |-> 5] : n \in 2..7}]
=============================================================================
