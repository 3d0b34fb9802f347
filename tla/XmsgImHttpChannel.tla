------------------------- MODULE XmsgImHttpChannel -------------------------
(***************************************************************************)
(* One kept-alive HTTP connection.                                         *)
(*                                                                         *)
(* A GET whose headers name a message and carry its data is a BEGIN; the   *)
(* END that answers it is the body of an HTTP answer and carries no id, so *)
(* the client takes the k-th answer for that of its k-th request.          *)
(* Requests are numbered in the order they arrive.  A client may send one  *)
(* before those before it are answered, an application may end them in any *)
(* order and more than once, and an interceptor may answer what it did not *)
(* consume.  The oob and the client token are left out.                    *)
(* The table of the transaction layer plays no part: nothing can end what  *)
(* begin() entered there, as no answer is read and clean() is empty.       *)
(***************************************************************************)
EXTENDS Naturals, Sequences

CONSTANTS Requests,  \* bound: how many requests the client sends
          MaxCalls,  \* bound: how many futures are waiting and answers were sent
          Push       \* messages the application sends with begin(), unidirection()

ASSUME HttpAssumption ==
    /\ Requests \in Nat
    /\ MaxCalls \in Nat
    /\ Push \cap Nat = {}

Request == 1 .. Requests
Life == {"unsent", "ignored", "consumed", "refused", "open", "ending",
         "replied", "dropped"}
Task == [op : {"end"}, of : Request, failure : BOOLEAN, lazyClose : BOOLEAN]
            \cup [op : {"begin", "uni"}, of : Push]

VARIABLES
    est,      \* the connection is established
    lazy,     \* lazyClose() was called on it
    mailbox,  \* futures posted to the worker that concern this channel
    last,     \* number of the last request
    method,   \* its method
    msgName,  \* it has a name that is not empty
    body,     \* its body is still to come
    life,     \* what became of a request
    sent,     \* history: the answers given to sendBin(), by what they answer
    inOrder   \* history: the application and the interceptor kept to the order

request == <<last, method, msgName, body>>
hist == <<sent, inOrder>>
vars == <<est, lazy, mailbox, request, life, hist>>

Init ==
    /\ est = TRUE
    /\ lazy = FALSE
    /\ mailbox = <<>>
    /\ last = 0
    /\ method = "GET"
    /\ msgName = FALSE
    /\ body = FALSE
    /\ life = [r \in Request |-> "unsent"]
    /\ sent = <<>>
    /\ inOrder = TRUE

\* clean() and evnDisc() of an HTTP channel do nothing.
CloseChannel ==
    /\ est' = FALSE
    /\ lazy' = FALSE

-----------------------------------------------------------------------------
(* evnHeader.                                                              *)

\* A request arrives: what the library knows of it, and that it is read only
\* when the body of the one before has been.
Arrive(m, b) ==
    /\ est
    /\ ~body
    /\ last < Requests
    /\ last' = last + 1
    /\ method' = m
    /\ body' = b
    /\ UNCHANGED <<mailbox, hist>>

Becomes(l) == life' = [life EXCEPT ![last + 1] = l]

\* x-msg-name is required.
Nameless(m, b) ==
    /\ Arrive(m, b)
    /\ Becomes("refused")
    /\ CloseChannel
    /\ UNCHANGED msgName

TakeHeaders(m, b, named) ==
    /\ Arrive(m, b)
    /\ msgName' = named

\* Only a GET begins a transaction.
NotGet(b, named) ==
    /\ TakeHeaders("POST", b, named)
    /\ Becomes("ignored")
    /\ UNCHANGED <<est, lazy>>

\* No x-msg-dat, no message manager, an interceptor's EXCEPTION, no stub, data
\* that does not parse, no user where one is required.
GetRefused(b, named) ==
    /\ TakeHeaders("GET", b, named)
    /\ Becomes("refused")
    /\ CloseChannel

\* The interceptor returned SUCCESS or FORBIDDEN.
GetConsumed(b, named) ==
    /\ TakeHeaders("GET", b, named)
    /\ Becomes("consumed")
    /\ UNCHANGED <<est, lazy>>

\* The callback of the stub gets the transaction; no stub has an empty name.
GetHandled(b) ==
    /\ TakeHeaders("GET", b, TRUE)
    /\ Becomes("open")
    /\ UNCHANGED <<est, lazy>>

EvnHeader ==
    \E b, named \in BOOLEAN :
        \/ \E m \in {"GET", "POST"} : Nameless(m, b)
        \/ NotGet(b, named)
        \/ GetRefused(b, named)
        \/ GetConsumed(b, named)
        \/ named /\ GetHandled(b)

\* evnBody: a body is taken of a POST with a name only, and thrown away.
EvnBody ==
    /\ est
    /\ body
    /\ body' = FALSE
    /\ \/ msgName /\ method = "POST" /\ UNCHANGED <<est, lazy>>
       \/ ~(msgName /\ method = "POST") /\ CloseChannel
    /\ UNCHANGED <<mailbox, last, method, msgName, life, hist>>

-----------------------------------------------------------------------------
(* The application and the interceptor.                                    *)

\* Bound.
MayCall == Len(mailbox) + Len(sent) < MaxCalls

\* All requests before r.
Before(r, L) == \A s \in 1 .. r - 1 : life[s] \in L

\* XmsgImTransPassive::end in its eight forms, on any thread.  Nothing in the code
\* keeps the application from ending a transaction twice.
End(r, failure, lz) ==
    /\ MayCall
    /\ life[r] \in {"open", "ending", "replied", "dropped"}
    /\ life' = [life EXCEPT ![r] = IF @ = "open" THEN "ending" ELSE @]
    /\ mailbox' = Append(mailbox,
           [op |-> "end", of |-> r, failure |-> failure, lazyClose |-> lz])
    /\ inOrder' = (/\ inOrder
                   /\ life[r] = "open" /\ Before(r, {"ending", "replied"})
                   /\ ~(failure /\ lz))
    /\ UNCHANGED <<est, lazy, request, sent>>

\* begin() and unidirection() may be called on any channel.
Send(op, u) ==
    /\ MayCall
    /\ \A i \in DOMAIN mailbox : mailbox[i].of # u
    /\ mailbox' = Append(mailbox, [op |-> op, of |-> u])
    /\ UNCHANGED <<est, lazy, request, life, hist>>

\* Mutant: every PDU becomes an HTTP answer.
SendAnyPdu(op, x) == sent' = Append(sent, x)

\* sendXscPdu: only an END becomes an HTTP answer, other PDUs are not sent.
SendXscPdu(op, x) ==
    IF op = "end" THEN sent' = Append(sent, x) ELSE UNCHANGED sent

\* An interceptor may answer what it was shown with sendEnd() of the channel, which
\* posts no future.  Without a connection nothing is sent.
InterceptorEnds(r) ==
    /\ MayCall
    /\ life[r] \in {"consumed", "open", "ending", "replied", "dropped"}
    /\ IF est
       THEN /\ life' = [life EXCEPT ![r] = "replied"]
            /\ SendXscPdu("end", r)
       ELSE UNCHANGED <<life, sent>>
    /\ inOrder' = (inOrder /\ life[r] = "consumed" /\ Before(r, {"replied"}))
    /\ UNCHANGED <<est, lazy, mailbox, request>>

-----------------------------------------------------------------------------
(* Futures, run by the worker.                                             *)

\* futureBegin() and futureUnidirection().
FutureSend(task) ==
    /\ task.op # "end"
    /\ SendXscPdu(task.op, task.of)
    /\ UNCHANGED <<est, lazy, life>>

\* Mutant: only the request read last can be answered.
EndUnsentUnlessLast(task) ==
    /\ ~est \/ task.of # last
    /\ life' = [life EXCEPT ![task.of] = "dropped"]
    /\ UNCHANGED <<est, lazy, sent>>

EndUnsent(task) ==
    /\ ~est
    /\ life' = [life EXCEPT ![task.of] = "dropped"]
    /\ UNCHANGED <<est, lazy, sent>>

\* Mutant: the connection goes on.
EndFailureKeepsConnection(task) ==
    /\ est
    /\ task.failure
    /\ life' = [life EXCEPT ![task.of] = "dropped"]
    /\ UNCHANGED <<est, lazy, sent>>

EndFailure(task) ==
    /\ est
    /\ task.failure
    /\ life' = [life EXCEPT ![task.of] = "dropped"]
    /\ \/ ~task.lazyClose /\ CloseChannel
       \/ task.lazyClose /\ lazy' = TRUE /\ UNCHANGED est
    /\ UNCHANGED sent

EndReply(task) ==
    /\ est
    /\ ~task.failure
    /\ life' = [life EXCEPT ![task.of] = "replied"]
    /\ SendXscPdu("end", task.of)
    /\ lazy' = (lazy \/ task.lazyClose)
    /\ UNCHANGED est

RunFuture ==
    /\ mailbox # <<>>
    /\ mailbox' = Tail(mailbox)
    /\ LET task == Head(mailbox) IN
          \/ FutureSend(task)
          \/ task.op = "end" /\ (EndUnsent(task) \/ EndFailure(task) \/ EndReply(task))
    /\ UNCHANGED <<request, inOrder>>

\* The client or the library closes the connection.
Lost ==
    /\ est
    /\ CloseChannel
    /\ UNCHANGED <<mailbox, request, life, hist>>

-----------------------------------------------------------------------------
Next ==
    \/ EvnHeader
    \/ EvnBody
    \/ \E r \in Request, failure, lz \in BOOLEAN : End(r, failure, lz)
    \/ \E op \in {"begin", "uni"}, u \in Push : Send(op, u)
    \/ \E r \in Request : InterceptorEnds(r)
    \/ RunFuture
    \/ Lost

Spec == Init /\ [][Next]_vars

-----------------------------------------------------------------------------
(* Properties.                                                             *)

\* Every variable has its type.
TypeOK ==
    /\ est \in BOOLEAN
    /\ lazy \in BOOLEAN
    /\ mailbox \in Seq(Task)
    /\ last \in 0 .. Requests
    /\ method \in {"GET", "POST"}
    /\ msgName \in BOOLEAN
    /\ body \in BOOLEAN
    /\ life \in [Request -> Life]
    /\ sent \in Seq(Request)
    /\ inOrder \in BOOLEAN

\* The client, which may send the next request before it has an answer, takes every
\* answer for that of the right request, though the answer names none, as long as
\*   - requests are ended once, in the order they arrived, none with RET_FAILURE and
\*     lazyClose, which answers nothing and lets what is behind it be answered;
\*   - an interceptor answers what it consumed, once, and after all before it are
\*     answered, as it overtakes what is posted.
\* What begin() and unidirection() send in between, an END with RET_FAILURE and the
\* loss of the connection do not disturb it.
AnswersInOrder == inOrder => \A k \in DOMAIN sent : sent[k] = k

\* An answer that is not sent is one of a connection that is closed or about to
\* be: a client waits in vain for a request that was handled on no live one.
AnswerLostOnlyWithConnection ==
    \A r \in Request : life[r] \in {"refused", "dropped"} => ~est \/ lazy
=============================================================================
