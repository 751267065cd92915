------------------------------- MODULE Outbox -------------------------------
(***************************************************************************)
(* What a Session promises to the code that sends on it: a message that    *)
(* was accepted goes out once, in the order of acceptance, until the       *)
(* session closes; closing discards what has not gone out, and nothing     *)
(* goes out afterwards.                                                    *)
(***************************************************************************)
EXTENDS Naturals, Sequences

CONSTANT Msg

VARIABLES open, unsent, sent

outboxVars == <<open, unsent, sent>>

Init == open = TRUE /\ unsent = <<>> /\ sent = <<>>

\* The message put is whichever comes last in the new unsent.
Put ==
    /\ open
    /\ unsent' # <<>> /\ unsent'[Len(unsent')] \in Msg
    /\ unsent' = Append(unsent, unsent'[Len(unsent')])
    /\ UNCHANGED <<open, sent>>

Transmit ==
    /\ open /\ unsent # <<>>
    /\ sent' = Append(sent, Head(unsent))
    /\ unsent' = Tail(unsent)
    /\ UNCHANGED open

Discard ==
    /\ open
    /\ open' = FALSE /\ unsent' = <<>>
    /\ UNCHANGED sent

Next == Put \/ Transmit \/ Discard

Spec == Init /\ [][Next]_outboxVars
=============================================================================
