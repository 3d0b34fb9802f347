----------------------------- MODULE RemoteCall -----------------------------
(***************************************************************************)
(* What two sides that call each other are promised, whatever connections  *)
(* there are between them: a call is served at most once and only if it    *)
(* was made; its caller is told one outcome, once; an answer that was      *)
(* given is told to one caller at most, on the side it is for; and what    *)
(* was not answered, or was failed, no caller takes for answered.          *)
(*                                                                         *)
(* Not promised is that an answer is told to the call it answers, see      *)
(* XmsgImLink for that.                                                    *)
(***************************************************************************)
CONSTANTS Dial,     \* calls of one side
          Accept,   \* calls of the other
          NoTrans   \* no answer

VARIABLES status,   \* of a call, for its caller: "unborn", "open" or the outcome
          service,  \* of a call, on the side that serves it
          answer    \* to which call the answer was that a caller was told

callVars == <<status, service, answer>>

Trans == Dial \cup Accept
Open == {t \in Trans : status[t] = "open"}

Init ==
    /\ status = [t \in Trans |-> "unborn"]
    /\ service = [t \in Trans |-> "absent"]
    /\ answer = [t \in Trans |-> NoTrans]

Begin(t) ==
    /\ status[t] = "unborn"
    /\ status' = [status EXCEPT ![t] = "open"]
    /\ UNCHANGED <<service, answer>>

Serve(t) ==
    /\ status[t] # "unborn"
    /\ service[t] = "absent"
    /\ service' = [service EXCEPT ![t] = "open"]
    /\ UNCHANGED <<status, answer>>

Reply(t) ==
    /\ service[t] = "open"
    /\ service' = [service EXCEPT ![t] = "replied"]
    /\ UNCHANGED <<status, answer>>

GiveUp(S, why) ==
    status' = [t \in Trans |-> IF t \in S THEN why ELSE status[t]]

\* To fail a call may cost the connection, and all that is open on it.
Drop(t) ==
    /\ service[t] = "open"
    /\ service' = [service EXCEPT ![t] = "dropped"]
    /\ \E S \in SUBSET Open : GiveUp(S, "clean")
    /\ UNCHANGED answer

TimeOut(S) == GiveUp(S, "timeout") /\ UNCHANGED <<service, answer>>

Lose(S) == GiveUp(S, "clean") /\ UNCHANGED <<service, answer>>

Answer(t, a) ==
    /\ status[t] = "open"
    /\ service[a] = "replied"
    /\ t \in Dial <=> a \in Dial
    /\ \A u \in Trans : answer[u] # a
    /\ status' = [status EXCEPT ![t] = "answered"]
    /\ answer' = [answer EXCEPT ![t] = a]
    /\ UNCHANGED service

Next ==
    \/ \E t \in Trans : Begin(t) \/ Serve(t) \/ Reply(t) \/ Drop(t)
    \/ \E S \in SUBSET Open : TimeOut(S) \/ Lose(S)
    \/ \E t, a \in Trans : Answer(t, a)

Spec == Init /\ [][Next]_callVars
=============================================================================
