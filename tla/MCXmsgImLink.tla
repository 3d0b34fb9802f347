---------------------------- MODULE MCXmsgImLink ----------------------------
(* An instance of XmsgImLink for TLC. *)
EXTENDS XmsgImLink, TLC

CONSTANTS h1, h2, h3, n1, n2   \* model values

\* Three transactions are begun: with two ids, the ids of the dialing side go
\* round, and the server begins on two connections with one of the dialing side in
\* between.
ThreeDial == {h1, h2, h3}
TwoAccept == {n1, n2}
LastTid == 1

\* An id of the dialing side is compared with others of that side only, so it makes
\* no difference where its counter starts.
MCInit == Init /\ tidSeq[0] = 0

MCSpec == MCInit /\ [][Next]_vars

Symmetry == Permutations(ThreeDial) \cup Permutations(TwoAccept)
=============================================================================
