----------------------------- MODULE XmsgImLink -----------------------------
(***************************************************************************)
(* An XmsgImTcpH2N and the server it is connected to: two sides that begin *)
(* transactions with each other over a TCP connection that is lost and     *)
(* made again.                                                             *)
(*                                                                         *)
(* The dialing side has one channel object for ever, 0.  The server makes  *)
(* an XmsgImTcpN2H for each connection, 1, 2, ...; the object of a lost    *)
(* connection lives on as long as somebody holds it, and its futures run.  *)
(* A side notices the loss of a connection when it reads or writes, so     *)
(* object 0 may already be on the next one while the server still reads    *)
(* the last.  Here a PDU has its id, so that which transaction an END ends *)
(* is decided by the ids alone.                                            *)
(*                                                                         *)
(* XmsgImChannel has the details of one channel.  Here the timeout check   *)
(* takes any of the pending transactions, a one-way message, which nothing *)
(* answers, is left out, and lazyClose() is a loss of the connection some  *)
(* time after the answer.                                                  *)
(***************************************************************************)
EXTENDS Integers, Sequences, FiniteSets

CONSTANTS Dial,     \* transactions begun on the dialing side
          Accept,   \* transactions begun on the server
          NoTrans,  \* an empty slot of a table, or nothing
          MaxTid,   \* largest value of the unsigned tidSeq
          MaxConn,  \* bound: how many connections are made
          MaxBegun, \* bound: how many transactions are begun
          MaxPosted \* bound: how many futures an object has waiting

ASSUME LinkAssumption ==
    /\ Dial \cap Accept = {}
    /\ NoTrans \notin Dial \cup Accept
    /\ MaxTid \in Nat
    /\ MaxConn \in Nat
    /\ MaxBegun \in Nat
    /\ MaxPosted \in Nat

Trans == Dial \cup Accept
Conn == 1 .. MaxConn
Object == 0 .. MaxConn
Tid == 0 .. MaxTid

\* A future.
Task == [op : {"begin", "end"}, of : Trans]

\* A BEGIN with its stid or an END with its dtid.  In an END, "of" tells which
\* BEGIN it answers; it is not on the wire, and nothing but a history reads it.
Pdu == [op : {"begin", "end"}, of : Trans, tid : Tid]

VARIABLES
    conn,       \* how many connections were made; object 0 is on the last
    est,        \* the object takes its connection to be established
    mailbox,    \* futures posted to the worker of an object
    up,         \* what was sent on a connection to the server and is not read
    down,       \* what was sent on it to the dialing side
    tidSeq,     \* the last id an object generated
    transInit,  \* its table of pending transactions
    outcome,    \* of a transaction where it was begun
    at,         \* the object it was begun on
    pass,       \* its life on the side that handles it
    via,        \* the object that handles it
    dtid,       \* the id its END is to carry
    \* History, read by the properties only:
    issued,     \* how many ids an object has generated
    ord,        \* which of them a transaction got, 0 while it has none
    answer,     \* which BEGIN was answered by the END that ended it
    consumed    \* begun by the dialing side, and its interceptor consumed their END

wires == <<up, down>>
begun == <<outcome, at>>
handled == <<pass, via, dtid>>
hist == <<issued, ord, answer, consumed>>
vars == <<conn, est, mailbox, wires, tidSeq, transInit, begun, handled, hist>>

Init ==
    /\ conn = 0
    /\ est = [o \in Object |-> FALSE]
    /\ mailbox = [o \in Object |-> <<>>]
    /\ up = [c \in Conn |-> <<>>]
    /\ down = [c \in Conn |-> <<>>]
    /\ tidSeq \in [Object -> Tid]
    /\ transInit = [o \in Object |-> [i \in Tid |-> NoTrans]]
    /\ outcome = [t \in Trans |-> "unborn"]
    /\ at = [t \in Trans |-> 0]
    /\ pass = [t \in Trans |-> "absent"]
    /\ via = [t \in Trans |-> 0]
    /\ dtid = [t \in Trans |-> 0]
    /\ issued = [o \in Object |-> 0]
    /\ ord = [t \in Trans |-> 0]
    /\ answer = [t \in Trans |-> NoTrans]
    /\ consumed = {}

-----------------------------------------------------------------------------
(* Applications of both sides, on any thread.                              *)

Post(o, task) ==
    /\ Len(mailbox[o]) < MaxPosted
    /\ mailbox' = [mailbox EXCEPT ![o] = Append(@, task)]

\* The server may begin on the object of any connection, also of a lost one.
Begin(t, o) ==
    /\ outcome[t] = "unborn"
    /\ Cardinality({u \in Trans : outcome[u] # "unborn"}) < MaxBegun
    /\ IF t \in Dial THEN o = 0 ELSE o \in 1 .. conn
    /\ outcome' = [outcome EXCEPT ![t] = "open"]
    /\ at' = [at EXCEPT ![t] = o]
    /\ Post(o, [op |-> "begin", of |-> t])
    /\ UNCHANGED <<conn, est, wires, tidSeq, transInit, handled, hist>>

\* With what ret a transaction is ended shows when the future runs.
End(t) ==
    /\ pass[t] = "open"
    /\ pass' = [pass EXCEPT ![t] = "ending"]
    /\ Post(via[t], [op |-> "end", of |-> t])
    /\ UNCHANGED <<conn, est, wires, tidSeq, transInit, begun, via, dtid, hist>>

-----------------------------------------------------------------------------
(* The steps of a worker.                                                  *)

\* The connection an object is on, and what it has not read of it.
ConnOf(o) == IF o = 0 THEN conn ELSE o
Incoming(o) == IF o = 0 THEN down[ConnOf(o)] ELSE up[ConnOf(o)]

\* What is sent on a lost connection stays in a write buffer that is thrown
\* away: with the object, or when object 0 is established again.  What is sent
\* to a side that has lost the connection is not read.
SendPdu(o, pdu) ==
    \/ /\ est[o] /\ o = 0 /\ est[conn]
       /\ up' = [up EXCEPT ![conn] = Append(@, pdu)]
       /\ UNCHANGED down
    \/ /\ est[o] /\ o > 0 /\ est[0] /\ conn = o
       /\ down' = [down EXCEPT ![o] = Append(@, pdu)]
       /\ UNCHANGED up
    \/ /\ ~(est[o] /\ IF o = 0 THEN est[conn] ELSE est[0] /\ conn = o)
       /\ UNCHANGED wires

\* XmsgImTransInitiative::end for the transactions in S.
Finish(S, told) ==
    outcome' = [t \in Trans |-> IF t \in S THEN told ELSE outcome[t]]

InTable(o) == {transInit[o][i] : i \in Tid} \ {NoTrans}
Without(o, S) ==
    transInit' = [transInit EXCEPT ![o] =
        [i \in Tid |-> IF transInit[o][i] \in S THEN NoTrans ELSE transInit[o][i]]]

Unread(o) ==
    /\ up' = [c \in Conn |-> IF c = o THEN <<>> ELSE up[c]]
    /\ down' = [c \in Conn |-> IF o = 0 THEN <<>> ELSE down[c]]

\* Mutant: the table of the lost connection is kept.
CloseKeepsTable(o) ==
    /\ est' = [est EXCEPT ![o] = FALSE]
    /\ Unread(o)
    /\ UNCHANGED <<transInit, outcome>>

\* The library closes the connection of o, which reads no more of it, and calls
\* clean().
Close(o) ==
    /\ est' = [est EXCEPT ![o] = FALSE]
    /\ Unread(o)
    /\ Finish(InTable(o), "clean")
    /\ Without(o, InTable(o))

\* Mutant: the counter stops at its largest value.
GenTidStops(o) == IF tidSeq[o] = MaxTid THEN MaxTid ELSE tidSeq[o] + 1

\* Mutant: the counter is wider than its ids.
GenTidUnwrapped(o) == tidSeq[o] + 1

GenTid(o) == IF tidSeq[o] = MaxTid THEN 0 ELSE tidSeq[o] + 1

\* Mutant: the transaction is entered before its id is generated.
FutureBeginEntersFirst(o, t) ==
    LET tid == GenTid(o) IN
    /\ tidSeq' = [tidSeq EXCEPT ![o] = tid]
    /\ transInit' = [transInit EXCEPT ![o][tidSeq[o]] = t]
    /\ SendPdu(o, [op |-> "begin", of |-> t, tid |-> tid])
    /\ issued' = [issued EXCEPT ![o] = @ + 1]
    /\ ord' = [ord EXCEPT ![t] = issued[o] + 1]
    /\ UNCHANGED <<conn, est, begun, handled, answer, consumed>>

FutureBegin(o, t) ==
    LET tid == GenTid(o) IN
    /\ tidSeq' = [tidSeq EXCEPT ![o] = tid]
    /\ transInit' = [transInit EXCEPT ![o][tid] = t]
    /\ SendPdu(o, [op |-> "begin", of |-> t, tid |-> tid])
    /\ issued' = [issued EXCEPT ![o] = @ + 1]
    /\ ord' = [ord EXCEPT ![t] = issued[o] + 1]
    /\ UNCHANGED <<conn, est, begun, handled, answer, consumed>>

\* __end__: there is no connection, nobody is answered.
FutureEndUnsent(o, t) ==
    /\ ~est[o]
    /\ pass' = [pass EXCEPT ![t] = "dropped"]
    /\ UNCHANGED <<conn, est, wires, tidSeq, transInit, begun, via, dtid, hist>>

\* __end__ with RET_FAILURE closes the connection the object has now.
FutureEndFailure(o, t) ==
    /\ est[o]
    /\ pass' = [pass EXCEPT ![t] = "dropped"]
    /\ Close(o)
    /\ UNCHANGED <<conn, tidSeq, at, via, dtid, hist>>

\* __end__ with any other code answers on the connection the object has now.
FutureEnd(o, t) ==
    /\ est[o]
    /\ pass' = [pass EXCEPT ![t] = "replied"]
    /\ SendPdu(o, [op |-> "end", of |-> t, tid |-> dtid[t]])
    /\ UNCHANGED <<conn, est, tidSeq, transInit, begun, via, dtid, hist>>

RunFuture(o) ==
    /\ mailbox[o] # <<>>
    /\ mailbox' = [mailbox EXCEPT ![o] = Tail(@)]
    /\ LET task == Head(mailbox[o]) IN
          \/ /\ task.op = "begin"
             /\ FutureBegin(o, task.of)
          \/ /\ task.op = "end"
             /\ \/ FutureEndUnsent(o, task.of)
                \/ FutureEndFailure(o, task.of)
                \/ FutureEnd(o, task.of)

\* evnRecv takes the next PDU off what was read.
Take(o) ==
    /\ est[o]
    /\ Incoming(o) # <<>>
    /\ \/ o = 0 /\ down' = [down EXCEPT ![ConnOf(o)] = Tail(@)] /\ UNCHANGED up
       \/ o > 0 /\ up' = [up EXCEPT ![ConnOf(o)] = Tail(@)] /\ UNCHANGED down

\* evnMsg: an interceptor that returns SUCCESS or FORBIDDEN has consumed the PDU,
\* whatever it is; the connection goes on without it.  After EXCEPTION it does not,
\* see Lost.
Intercepted(o) ==
    /\ Take(o)
    /\ LET pdu == Head(Incoming(o)) IN
          \/ pdu.op = "begin" /\ UNCHANGED consumed
          \/ pdu.op = "end" /\ consumed' = consumed \cup ({pdu.of} \cap Dial)
    /\ UNCHANGED <<conn, est, mailbox, tidSeq, transInit, begun, handled,
                   issued, ord, answer>>

\* A BEGIN the side accepts; one it does not accept makes it close, see Lost.
EvnBegin(o) ==
    /\ Take(o)
    /\ LET pdu == Head(Incoming(o)) IN
          /\ pdu.op = "begin"
          /\ pass' = [pass EXCEPT ![pdu.of] = "open"]
          /\ via' = [via EXCEPT ![pdu.of] = o]
          /\ dtid' = [dtid EXCEPT ![pdu.of] = pdu.tid]
    /\ UNCHANGED <<conn, est, mailbox, tidSeq, transInit, begun, hist>>

\* Mutant: what an END ends stays in the table.
EvnEndKeepsEntry(o) ==
    /\ Take(o)
    /\ LET pdu == Head(Incoming(o))
           t == transInit[o][pdu.tid] IN
          /\ pdu.op = "end"
          /\ t # NoTrans
          /\ Finish({t}, "answered")
          /\ answer' = [answer EXCEPT ![t] = pdu.of]
    /\ UNCHANGED <<conn, est, mailbox, tidSeq, transInit, at, handled, issued, ord, consumed>>

\* An END ends what the table has under its id, whatever it answers.
EvnEnd(o) ==
    /\ Take(o)
    /\ LET pdu == Head(Incoming(o))
           t == transInit[o][pdu.tid] IN
          /\ pdu.op = "end"
          /\ \/ /\ t = NoTrans
                /\ UNCHANGED <<transInit, outcome, answer>>
             \/ /\ t # NoTrans
                /\ transInit' = [transInit EXCEPT ![o][pdu.tid] = NoTrans]
                /\ Finish({t}, "answered")
                /\ answer' = [answer EXCEPT ![t] = pdu.of]
    /\ UNCHANGED <<conn, est, mailbox, tidSeq, at, handled, issued, ord, consumed>>

\* checkTransInit: those that are overdue.
CheckTransInit(o, S) ==
    /\ est[o]
    /\ S # {}
    /\ Finish(S, "timeout")
    /\ Without(o, S)
    /\ UNCHANGED <<conn, est, mailbox, wires, tidSeq, at, handled, hist>>

-----------------------------------------------------------------------------
(* The network and the library.                                            *)

\* An object is told that its connection is lost.
Lost(o) ==
    /\ est[o]
    /\ Close(o)
    /\ UNCHANGED <<conn, mailbox, tidSeq, at, handled, hist>>

\* The dialing side is connected, the server makes an object for it.
Connect ==
    /\ ~est[0]
    /\ conn < MaxConn
    /\ conn' = conn + 1
    /\ est' = [est EXCEPT ![0] = TRUE, ![conn + 1] = TRUE]
    /\ UNCHANGED <<mailbox, wires, tidSeq, transInit, begun, handled, hist>>

-----------------------------------------------------------------------------
Worker(o) ==
    \/ RunFuture(o)
    \/ Intercepted(o)
    \/ EvnBegin(o)
    \/ EvnEnd(o)
    \/ \E S \in SUBSET InTable(o) : CheckTransInit(o, S)
    \/ Lost(o)

Next ==
    \/ \E t \in Trans, o \in Object : Begin(t, o)
    \/ \E t \in Trans : End(t)
    \/ \E o \in Object : Worker(o)
    \/ Connect

Spec == Init /\ [][Next]_vars

-----------------------------------------------------------------------------
(* Properties.                                                             *)

\* Every variable has its type.
TypeOK ==
    /\ conn \in 0 .. MaxConn
    /\ est \in [Object -> BOOLEAN]
    /\ mailbox \in [Object -> Seq(Task)]
    /\ up \in [Conn -> Seq(Pdu)]
    /\ down \in [Conn -> Seq(Pdu)]
    /\ tidSeq \in [Object -> Tid]
    /\ transInit \in [Object -> [Tid -> Trans \cup {NoTrans}]]
    /\ outcome \in [Trans -> {"unborn", "open", "answered", "timeout", "clean"}]
    /\ at \in [Trans -> Object]
    /\ pass \in [Trans -> {"absent", "open", "ending", "replied", "dropped"}]
    /\ via \in [Trans -> Object]
    /\ dtid \in [Trans -> Tid]
    /\ issued \in [Object -> Nat]
    /\ ord \in [Trans -> Nat]
    /\ answer \in [Trans -> Trans \cup {NoTrans}]
    /\ consumed \subseteq Trans

\* a was begun on the object of t a full turn of the id counter before t.
TurnBefore(a, t) == at[a] = at[t] /\ ord[t] - ord[a] > MaxTid

\* Whatever is lost, late or made again, the dialing side takes the answer to a
\* BEGIN for the answer to that one, unless the id counter has gone round since:
\* an answer that is still under way when the connection is lost cannot meet a
\* transaction of the next connection, whose ids go on where those before ended.
DialerGetsOwnAnswer ==
    \A t \in Dial : answer[t] \notin {NoTrans, t} => TurnBefore(answer[t], t)

\* The server too, but its ids start anywhere on each connection, and the dialing
\* side answers on the connection it has now: a transaction may be ended with the
\* answer to a BEGIN of an earlier connection that got the same id, and with no
\* other.
AcceptorGetsOwnOrEarlierAnswer ==
    \A t \in Accept : answer[t] \notin {NoTrans, t} =>
        TurnBefore(answer[t], t) \/ at[answer[t]] < at[t]

\* A callback is told of an answer only if the other side's application ended the
\* transaction whose BEGIN it answers, and with another code than RET_FAILURE.
AnswerWasGiven ==
    \A t \in Trans : answer[t] # NoTrans => pass[answer[t]] = "replied"

\* What the server has answered is settled on the dialing side, or still pending on
\* a live connection, with its answer under way on that, or consumed by an
\* interceptor there, which leaves it to the timeout check: an answer is lost only
\* with a connection whose loss settles the transaction, unless the slot of this was
\* taken after the id counter had gone round.
AnswerSettlesOrIsUnderWay ==
    \A t \in Dial : pass[t] = "replied" /\ outcome[t] = "open" =>
        \/ issued[0] - ord[t] > MaxTid
        \/ /\ est[0] /\ t \in InTable(0)
           /\ \/ t \in consumed
              \/ \E k \in DOMAIN down[conn] :
                     down[conn][k].op = "end" /\ down[conn][k].of = t

\* What the applications of both sides are promised.  That an END was called for
\* shows to nobody before it is sent or dropped.
served == [t \in Trans |-> IF pass[t] = "ending" THEN "open" ELSE pass[t]]

Call == INSTANCE RemoteCall WITH status <- outcome, service <- served

\* Over any number of connections, and whatever is sent on one and read while the
\* next is there: a BEGIN is handled at most once, the callback of a transaction
\* runs at most once, and one END, whatever its id meets, ends at most one
\* transaction, of the side the answer is for.
CallSpec == Call!Spec
=============================================================================
