------------------------- MODULE MCXmsgImN2HMsgMgr -------------------------
(* Instances of XmsgImN2HMsgMgr for TLC. *)
EXTENDS XmsgImN2HMsgMgr

CONSTANTS m1, m2, i1, i2   \* model values

\* A worker may be ahead of one worker and behind another.
Workers == 3

Msgs == {m1, m2}

\* Two stubs for m1, of which one takes a one-way message as well, and one for
\* m2 that takes nothing else.
Regs == {[begin |-> m1, uni |-> None, auth |-> TRUE],
         [begin |-> m1, uni |-> m2, auth |-> FALSE],
         [begin |-> None, uni |-> m2, auth |-> FALSE]}

\* An interceptor replaces another.
Itcps == {i1, i2}
=============================================================================
