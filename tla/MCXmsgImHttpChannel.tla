------------------------ MODULE MCXmsgImHttpChannel ------------------------
(* An instance of XmsgImHttpChannel for TLC. *)
EXTENDS XmsgImHttpChannel

CONSTANTS u1   \* model value

\* A request between two others, and one PDU that is no answer.
ThreeRequests == 3
OnePush == {u1}

\* Each request is answered, and one answer or message more.
FourCalls == 4
=============================================================================
