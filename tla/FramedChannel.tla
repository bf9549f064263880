--------------------------- MODULE FramedChannel ---------------------------
(***************************************************************************)
(* What the two ends of the debugger-viewer connection expect of it: whole *)
(* messages, each once, in the order they were sent -- for as long as no   *)
(* message was given up in the middle.  Nothing marks the start of a       *)
(* message on the stream, so after that anything may be read.              *)
(***************************************************************************)
EXTENDS Naturals, Sequences

VARIABLES sent, delivered, broken

channelVars == <<sent, delivered, broken>>

Init == sent = <<>> /\ delivered = <<>> /\ broken = FALSE

Outstanding == Len(delivered) < Len(sent)

\* t is s with one more frame.
Grows(s, t) == Len(t) = Len(s) + 1 /\ SubSeq(t, 1, Len(s)) = s

Send ==
    /\ Grows(sent, sent')
    /\ UNCHANGED <<delivered, broken>>

Deliver ==
    /\ ~broken
    /\ Outstanding
    /\ delivered' = Append(delivered, sent[Len(delivered) + 1])
    /\ UNCHANGED <<sent, broken>>

Break ==
    /\ Outstanding
    /\ broken' = TRUE
    /\ UNCHANGED <<sent, delivered>>

Stray ==
    /\ broken
    /\ Grows(delivered, delivered')
    /\ UNCHANGED <<sent, broken>>

Next == Send \/ Deliver \/ Break \/ Stray

Spec == Init /\ [][Next]_channelVars
=============================================================================
