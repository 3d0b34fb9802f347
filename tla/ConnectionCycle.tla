-------------------------- MODULE ConnectionCycle --------------------------
(***************************************************************************)
(* What a connecting channel promises its application: it is down until    *)
(* somebody asks for a connection, and what was asked for is not dropped.  *)
(* The one way out of connecting is to be up, and the one way to be up is  *)
(* to have been connecting.                                                *)
(***************************************************************************)
VARIABLE phase   \* "down", "connecting" or "up"

cycleVars == <<phase>>

Init == phase = "down"

Ask == phase = "down" /\ phase' = "connecting"

Succeed == phase = "connecting" /\ phase' = "up"

\* When the connection is lost the next may have been asked for already, or be
\* asked for at once.
Lose == phase = "up" /\ phase' \in {"down", "connecting"}

Next == Ask \/ Succeed \/ Lose

Spec == Init /\ [][Next]_cycleVars
=============================================================================
