--------------------------- MODULE MCXmsgImTcpH2N ---------------------------
(* Instances of XmsgImTcpH2N for TLC. *)
EXTENDS XmsgImTcpH2N, TLC

CONSTANTS a1, a2, s1, s2, s3   \* model values

OneApp == {a1}
TwoApps == {a1, a2}

\* One name more than threads there may be at once.
TwoSvcs == {s1, s2}
ThreeSvcs == {s1, s2, s3}

\* The names of threads are interchangeable.  Used by the run without a
\* liveness property.
Symmetry == Permutations(Svc)
=============================================================================
