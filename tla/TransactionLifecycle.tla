----------------------- MODULE TransactionLifecycle -----------------------
(***************************************************************************)
(* What the transaction layer promises the code that calls begin(): a      *)
(* transaction is opened once, and whatever happens to the channel its     *)
(* callback runs at most once, with one of the four outcomes.  Losing a    *)
(* connection or a pass of the timeout check may settle many transactions  *)
(* at once, an END settles one.                                            *)
(***************************************************************************)
EXTENDS Naturals

CONSTANTS Trans,     \* transactions an application may begin
          Outcomes   \* what a callback may be told

VARIABLES status,    \* status[t]: "unborn", "open", or the outcome of t
          calls      \* calls[t]: how often the callback of t has run

lifecycleVars == <<status, calls>>

OpenTrans == {t \in Trans : status[t] = "open"}

Init ==
    /\ status = [t \in Trans |-> "unborn"]
    /\ calls = [t \in Trans |-> 0]

Open(t) ==
    /\ status[t] = "unborn"
    /\ status' = [status EXCEPT ![t] = "open"]
    /\ UNCHANGED calls

Settle(S) ==
    /\ S # {}
    /\ calls' = [t \in Trans |-> IF t \in S THEN calls[t] + 1 ELSE calls[t]]
    /\ \E told \in [S -> Outcomes] :
          status' = [t \in Trans |-> IF t \in S THEN told[t] ELSE status[t]]

Next ==
    \/ \E t \in Trans : Open(t)
    \/ \E S \in SUBSET OpenTrans : Settle(S)

Spec == Init /\ [][Next]_lifecycleVars
===========================================================================
