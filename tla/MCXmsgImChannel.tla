-------------------------- MODULE MCXmsgImChannel --------------------------
(* Instances of XmsgImChannel for TLC. *)
EXTENDS XmsgImChannel

CONSTANTS t1, t2, t3, p1, p2, u1   \* model values

OneTrans == {t1}

\* One more than the ids of an instance with LastTid: a slot is overwritten.
ThreeTrans == {t1, t2, t3}
LastTid == 1

\* A raw transaction takes any END, the others end as an exception as well.
OneRaw == {t3}

\* Two answers, one of which may close the channel lazily before the other.
TwoPass == {p1, p2}
OneUni == {u1}
============================================================================
