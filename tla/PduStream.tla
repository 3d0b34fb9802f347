----------------------------- MODULE PduStream -----------------------------
(***************************************************************************)
(* What a channel promises the peer that sends it PDUs 1, 2, 3, ... as a   *)
(* stream of bytes: they are handled in that order, each once, none        *)
(* skipped and none before it was sent.  The promise ends with the         *)
(* connection, or when the peer leaves what the channel supports.          *)
(***************************************************************************)
EXTENDS Naturals, Sequences

VARIABLES complete,   \* the PDUs of which every byte was sent
          delivered,  \* the PDUs handled, in order
          over        \* the promise has ended

streamVars == <<complete, delivered, over>>

Init ==
    /\ complete = {}
    /\ delivered = <<>>
    /\ over = FALSE

Send ==
    /\ ~over /\ ~over'
    /\ complete \subseteq complete'
    /\ UNCHANGED delivered

Deliver ==
    /\ ~over /\ ~over'
    /\ Len(delivered) + 1 \in complete
    /\ delivered' = Append(delivered, Len(delivered) + 1)
    /\ UNCHANGED complete

Next == Send \/ Deliver \/ over'

Spec == Init /\ [][Next]_streamVars
=============================================================================
