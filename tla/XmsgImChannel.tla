--------------------------- MODULE XmsgImChannel ---------------------------
(***************************************************************************)
(* One XmsgImChannel: the transaction layer of a connection.               *)
(*                                                                         *)
(* A channel belongs to one xsc worker thread.  Application threads call   *)
(* begin(), unidirection() and XmsgImTransPassive::end() at any time; each *)
(* posts a future to the worker's mailbox.  The worker runs the futures in *)
(* order and, between them, reads PDUs (evnMsg), runs the periodic dida()  *)
(* and is told by the library that the connection is lost.  Every step of  *)
(* the worker is one action: nothing else touches the channel meanwhile.   *)
(* An instance begins when the library has accepted the connection, or     *)
(* when an XmsgImTcpH2N has been made, which is not connected yet.         *)
(*                                                                         *)
(* Time is kept as elapsed ticks that saturate: sinceCheck stands for      *)
(* now - lastCheckTransTs and age[t] for now - trans->gts.  Message data,  *)
(* oob headers, logging and the PING/PONG bytes are abstracted away.       *)
(* XmsgImHttpChannel, which neither calls evnMsg nor sends a BEGIN, has a  *)
(* module of its own; XmsgImLink has the channels of both sides.           *)
(***************************************************************************)
EXTENDS Integers, Sequences

CONSTANTS Proto,        \* the concrete channel class, one of Protocols
          Trans,        \* transactions this side may begin
          Raw,          \* those of them begun with raw = true
          NoTrans,      \* an empty slot of the transInit table
          Pass,         \* transactions the peer may begin
          Uni,          \* one-way messages this side may send
          MaxTid,       \* largest value of the unsigned tidSeq (2^32 - 1)
          TransTimeout, \* n2hTransTimeout() in ticks
          CheckPeriod   \* the 10 seconds of checkTransInit in ticks

Protocols == {"tcp_n2h", "tcp_h2n", "rudp", "websocket", "udp"}

ASSUME ChannelAssumption ==
    /\ Proto \in Protocols
    /\ Raw \subseteq Trans
    /\ NoTrans \notin Trans
    /\ Trans \cap Pass = {}
    /\ MaxTid \in Nat
    /\ TransTimeout \in Nat
    /\ CheckPeriod \in Nat

Tid == 0 .. MaxTid
Outcomes == {"answered", "exception", "timeout", "clean"}
Ret == {"SUCCESS", "FAILURE"}   \* every other code is handled as SUCCESS is
StubKind == {"none", "open", "auth"}

\* A lastCheckTransTs so far ahead of the clock that it is never reached.
Never == -1

Task == [op : {"begin"}, of : Trans] \cup [op : {"uni"}, of : Uni]
            \cup [op : {"end"}, of : Pass]
Pdu == Task

VARIABLES
    est,        \* the connection is established
    lazy,       \* lazyClose() was called on the established connection
    mailbox,    \* futures posted to the worker that concern this channel
    out,        \* the write buffer: PDUs given to send() and not yet written
    tidSeq,     \* the last transaction id generated
    transInit,  \* the table of pending initiative transactions
    sinceCheck, \* ticks since the last timeout check
    stid,       \* trans->stid
    age,        \* ticks since begin() created the transaction
    outcome,    \* "unborn", "open" after begin(), then what the callback got
    pass,       \* life of a passive transaction
    ret,        \* its ret
    lazyClose,  \* its lazyClose flag
    \* History, read by the properties only:
    cbs,        \* how often the callback of a transaction has run
    issued,     \* how many ids have been generated
    ord,        \* which of them a transaction got, 0 while it has none
    carrier     \* the connection a BEGIN travelled on: "none", "current", "gone"

app  == <<ret, lazyClose>>
hist == <<cbs, issued, ord, carrier>>
vars == <<est, lazy, mailbox, out, tidSeq, transInit, sinceCheck, stid, age,
          outcome, pass, app, hist>>

-----------------------------------------------------------------------------
(* Which classes override dida() and clean() with a body.                  *)

\* Mutants: only one of the TCP classes runs the check, or cleans.
ChecksTimeoutN2HOnly == Proto \in {"tcp_n2h", "rudp"}
ChecksTimeoutH2NOnly == Proto \in {"tcp_h2n", "rudp"}
CleansTransN2HOnly   == Proto \in {"tcp_n2h", "rudp"}

ChecksTimeout == Proto \in {"tcp_n2h", "tcp_h2n", "rudp"}
CleansTrans   == Proto \in {"tcp_n2h", "tcp_h2n", "rudp"}

\* The table: what it holds, and the table once some of it is erased.
\* Mutants: the erase is forgotten, or everything is erased.
EraseNothing(i) == transInit
WithoutNothing(S) == transInit
WithoutAll(S) == [i \in Tid |-> NoTrans]

InTable == {transInit[i] : i \in Tid} \ {NoTrans}
Erase(i) == [transInit EXCEPT ![i] = NoTrans]
Without(S) == [i \in Tid |-> IF transInit[i] \in S THEN NoTrans ELSE transInit[i]]

Init ==
    /\ est = (Proto # "tcp_h2n")
    /\ lazy = FALSE
    /\ mailbox = <<>>
    /\ out = <<>>
    /\ tidSeq \in Tid
    /\ transInit = [i \in Tid |-> NoTrans]
    /\ sinceCheck \in IF Proto = "rudp" THEN {Never} \cup 0 .. CheckPeriod ELSE {0}
    /\ stid = [t \in Trans |-> 0]
    /\ age = [t \in Trans |-> 0]
    /\ outcome = [t \in Trans |-> "unborn"]
    /\ pass = [p \in Pass |-> "absent"]
    /\ ret = [p \in Pass |-> "SUCCESS"]
    /\ lazyClose = [p \in Pass |-> FALSE]
    /\ cbs = [t \in Trans |-> 0]
    /\ issued = 0
    /\ ord = [t \in Trans |-> 0]
    /\ carrier = [x \in Trans \cup Pass |-> "none"]

-----------------------------------------------------------------------------
(* Steps of application threads.                                           *)

Post(op, x) == mailbox' = Append(mailbox, [op |-> op, of |-> x])

Begin(t) ==
    /\ outcome[t] = "unborn"
    /\ outcome' = [outcome EXCEPT ![t] = "open"]
    /\ Post("begin", t)
    /\ UNCHANGED <<est, lazy, out, tidSeq, transInit, sinceCheck, stid, age,
                   pass, app, hist>>

\* A future or a PDU of u still under way bounds how often u may be sent.
Unidirection(u) ==
    /\ \A i \in DOMAIN mailbox : mailbox[i] # [op |-> "uni", of |-> u]
    /\ \A i \in DOMAIN out : out[i] # [op |-> "uni", of |-> u]
    /\ Post("uni", u)
    /\ UNCHANGED <<est, lazy, out, tidSeq, transInit, sinceCheck, stid, age,
                   outcome, pass, app, hist>>

\* The eight public end functions differ in ret and lazyClose only.  An
\* application ends a passive transaction once.
End(p, r, lz) ==
    /\ pass[p] = "open"
    /\ pass' = [pass EXCEPT ![p] = "ending"]
    /\ ret' = [ret EXCEPT ![p] = r]
    /\ lazyClose' = [lazyClose EXCEPT ![p] = lz]
    /\ Post("end", p)
    /\ UNCHANGED <<est, lazy, out, tidSeq, transInit, sinceCheck, stid, age,
                   outcome, hist>>

-----------------------------------------------------------------------------
(* What the steps of the worker are made of.                               *)

SendPdu(op, x) == out' = Append(out, [op |-> op, of |-> x])
SendBegin(t) == SendPdu("begin", t)
SendEnd(p) == SendPdu("end", p)
SendUnidirection(u) == SendPdu("uni", u)

\* XmsgImTransInitiative::end for every transaction of S.
Finish(S, told) ==
    /\ outcome' = [t \in Trans |-> IF t \in S THEN told[t] ELSE outcome[t]]
    /\ cbs' = [t \in Trans |-> IF t \in S THEN cbs[t] + 1 ELSE cbs[t]]

\* The library drops the connection and calls clean().  The transactions of
\* E have left the table already, with the outcome "exception".
CloseChannel(E) ==
    LET cleaned == IF CleansTrans THEN InTable \ E ELSE {} IN
    /\ est' = FALSE
    /\ lazy' = FALSE
    /\ transInit' = Without(E \cup cleaned)
    /\ Finish(E \cup cleaned,
              [t \in E \cup cleaned |-> IF t \in E THEN "exception" ELSE "clean"])
    /\ carrier' = [x \in Trans \cup Pass |->
                      IF carrier[x] = "current" THEN "gone" ELSE carrier[x]]

-----------------------------------------------------------------------------
(* Futures, run by the worker.                                             *)

\* Mutant: the counter is wider than the id on the wire.
GenTidUnwrapped == tidSeq + 1

GenTid == IF tidSeq = MaxTid THEN 0 ELSE tidSeq + 1

FutureBegin(t) ==
    /\ tidSeq' = GenTid
    /\ stid' = [stid EXCEPT ![t] = GenTid]
    /\ transInit' = [transInit EXCEPT ![GenTid] = t]
    /\ SendBegin(t)
    /\ issued' = issued + 1
    /\ ord' = [ord EXCEPT ![t] = issued + 1]
    /\ carrier' = [carrier EXCEPT ![t] = IF est THEN "current" ELSE "none"]
    /\ UNCHANGED <<est, lazy, sinceCheck, age, outcome, pass, app, cbs>>

FutureUnidirection(u) ==
    /\ SendUnidirection(u)
    /\ UNCHANGED <<est, lazy, tidSeq, transInit, sinceCheck, stid, age, outcome,
                   pass, app, hist>>

\* Mutant: the answer is also dropped while the channel is closing lazily.
EndUnsentWhileLazy(p) ==
    /\ ~est \/ lazy
    /\ pass' = [pass EXCEPT ![p] = "dropped"]
    /\ UNCHANGED <<est, lazy, out, tidSeq, transInit, sinceCheck, stid, age,
                   outcome, app, hist>>

\* __end__: the connection is gone, so there is nobody to answer.
EndUnsent(p) ==
    /\ ~est
    /\ pass' = [pass EXCEPT ![p] = "dropped"]
    /\ UNCHANGED <<est, lazy, out, tidSeq, transInit, sinceCheck, stid, age,
                   outcome, app, hist>>

\* __end__ with RET_FAILURE: close instead of answering.
EndFailure(p) ==
    /\ est
    /\ ret[p] = "FAILURE"
    /\ pass' = [pass EXCEPT ![p] = "dropped"]
    /\ \/ /\ ~lazyClose[p]
          /\ CloseChannel({})
          /\ UNCHANGED <<issued, ord>>
       \/ /\ lazyClose[p]
          /\ lazy' = TRUE
          /\ UNCHANGED <<est, transInit, outcome, hist>>
    /\ UNCHANGED <<out, tidSeq, sinceCheck, stid, age, app>>

EndReply(p) ==
    /\ est
    /\ ret[p] # "FAILURE"
    /\ pass' = [pass EXCEPT ![p] = "replied"]
    /\ SendEnd(p)
    /\ lazy' = (lazy \/ lazyClose[p])
    /\ UNCHANGED <<est, tidSeq, transInit, sinceCheck, stid, age, outcome, app, hist>>

RunFuture ==
    /\ mailbox # <<>>
    /\ mailbox' = Tail(mailbox)
    /\ LET task == Head(mailbox) IN
          \/ task.op = "begin" /\ FutureBegin(task.of)
          \/ task.op = "uni" /\ FutureUnidirection(task.of)
          \/ /\ task.op = "end"
             /\ EndUnsent(task.of) \/ EndFailure(task.of) \/ EndReply(task.of)

-----------------------------------------------------------------------------
(* PDUs read by the worker.  evnMsg returning false closes the channel.    *)

\* An END whose dtid is not in the table changes nothing.  An END message
\* that cannot be reflected is reported as an exception and closes the channel.
EvnEnd(dtid, reflects) ==
    LET t == transInit[dtid] IN
    /\ est
    /\ t # NoTrans
    /\ reflects \/ t \notin Raw
    /\ \/ /\ reflects
          /\ transInit' = Erase(dtid)
          /\ Finish({t}, [x \in {t} |-> "answered"])
          /\ UNCHANGED <<est, lazy, carrier>>
       \/ /\ ~reflects
          /\ CloseChannel({t})
    /\ UNCHANGED <<mailbox, out, tidSeq, sinceCheck, stid, age, pass, app, issued, ord>>

\* A message is handled if it has a stub, its data parses, and an
\* authenticated user is bound to the channel when the stub asks for one.
Accepts(stub, reflects, usr) ==
    /\ stub # "none"
    /\ reflects
    /\ stub = "auth" => usr

EvnBegin(p, stub, reflects, usr) ==
    /\ est
    /\ pass[p] = "absent"
    /\ Accepts(stub, reflects, usr)
    /\ pass' = [pass EXCEPT ![p] = "open"]
    /\ carrier' = [carrier EXCEPT ![p] = "current"]
    /\ UNCHANGED <<est, lazy, mailbox, out, tidSeq, transInit, sinceCheck, stid,
                   age, outcome, app, cbs, issued, ord>>

\* A BEGIN or one-way message that is not accepted, a PDU without transaction
\* layer or of an unknown kind, no message manager, an interceptor's EXCEPTION.
EvnReject(stub, reflects, usr) ==
    /\ est
    /\ ~Accepts(stub, reflects, usr)
    /\ CloseChannel({})
    /\ UNCHANGED <<mailbox, out, tidSeq, sinceCheck, stid, age, pass, app, issued, ord>>

-----------------------------------------------------------------------------
(* The worker's timer and the library.                                     *)

Overdue == {t \in InTable : age[t] >= TransTimeout}

\* checkTransInit, called by dida() of an established channel.
CheckTransInit ==
    /\ sinceCheck # Never
    /\ sinceCheck >= CheckPeriod
    /\ sinceCheck' = 0
    /\ transInit' = Without(Overdue)
    /\ Finish(Overdue, [t \in Overdue |-> "timeout"])

Dida ==
    /\ ChecksTimeout
    /\ est
    /\ CheckTransInit
    /\ UNCHANGED <<est, lazy, mailbox, out, tidSeq, stid, age, pass, app,
                   issued, ord, carrier>>

\* The peer closed the connection or it broke.
Lost ==
    /\ est
    /\ CloseChannel({})
    /\ UNCHANGED <<mailbox, out, tidSeq, sinceCheck, stid, age, pass, app, issued, ord>>

\* After lazyClose() the library closes once the write buffer is empty.
LazyClosed ==
    /\ est
    /\ lazy
    /\ out = <<>>
    /\ CloseChannel({})
    /\ UNCHANGED <<mailbox, out, tidSeq, sinceCheck, stid, age, pass, app, issued, ord>>

\* The future of XmsgImTcpH2N::svc after a successful connect: the write
\* buffer is replaced, the transactions and the check stamp are not touched.
\* That est is false then is OneConnection of XmsgImTcpH2N, which holds when
\* only evnDisc() calls connect() again.
Establish ==
    /\ Proto = "tcp_h2n"
    /\ ~est
    /\ est' = TRUE
    /\ out' = <<>>
    /\ UNCHANGED <<lazy, mailbox, tidSeq, transInit, sinceCheck, stid, age,
                   outcome, pass, app, hist>>

\* The socket takes the next PDU from the write buffer.
Flush ==
    /\ est
    /\ out # <<>>
    /\ out' = Tail(out)
    /\ UNCHANGED <<est, lazy, mailbox, tidSeq, transInit, sinceCheck, stid, age,
                   outcome, pass, app, hist>>

Older(t) == outcome[t] = "open" /\ age[t] < TransTimeout
Tick ==
    /\ \/ sinceCheck \in 0 .. CheckPeriod - 1
       \/ \E t \in Trans : Older(t)
    /\ sinceCheck' = IF sinceCheck \in 0 .. CheckPeriod - 1 THEN sinceCheck + 1
                     ELSE sinceCheck
    /\ age' = [t \in Trans |-> IF Older(t) THEN age[t] + 1 ELSE age[t]]
    /\ UNCHANGED <<est, lazy, mailbox, out, tidSeq, transInit, stid, outcome,
                   pass, app, hist>>

-----------------------------------------------------------------------------
Application ==
    \/ \E t \in Trans : Begin(t)
    \/ \E u \in Uni : Unidirection(u)
    \/ \E p \in Pass, r \in Ret, lz \in BOOLEAN : End(p, r, lz)

Receive ==
    \/ \E dtid \in Tid, reflects \in BOOLEAN : EvnEnd(dtid, reflects)
    \/ \E stub \in StubKind, reflects, usr \in BOOLEAN :
          \/ \E p \in Pass : EvnBegin(p, stub, reflects, usr)
          \/ EvnReject(stub, reflects, usr)

Next ==
    \/ Application
    \/ RunFuture
    \/ Receive
    \/ Dida
    \/ Lost
    \/ LazyClosed
    \/ Establish
    \/ Flush
    \/ Tick

Spec == Init /\ [][Next]_vars

\* The worker keeps running its futures and its timer, time passes, and an
\* XmsgImTcpH2N keeps connecting until the remote side answers.  Nothing is
\* assumed of the peer, of the network or of the application.
Fairness ==
    /\ WF_vars(RunFuture)
    /\ WF_vars(Dida)
    /\ WF_vars(Tick)
    /\ WF_vars(Establish)

FairSpec == Spec /\ Fairness

-----------------------------------------------------------------------------
(* Properties.                                                             *)

\* Every variable has its type: tids fit the unsigned counter, the table holds
\* transactions, the mailbox and the write buffer hold well-formed entries.
TypeOK ==
    /\ est \in BOOLEAN
    /\ lazy \in BOOLEAN
    /\ mailbox \in Seq(Task)
    /\ out \in Seq(Pdu)
    /\ tidSeq \in Tid
    /\ transInit \in [Tid -> Trans \cup {NoTrans}]
    /\ sinceCheck \in {Never} \cup 0 .. CheckPeriod
    /\ stid \in [Trans -> Tid]
    /\ age \in [Trans -> 0 .. TransTimeout]
    /\ outcome \in [Trans -> {"unborn", "open"} \cup Outcomes]
    /\ pass \in [Pass -> {"absent", "open", "ending", "replied", "dropped"}]
    /\ ret \in [Pass -> Ret]
    /\ lazyClose \in [Pass -> BOOLEAN]
    /\ cbs \in [Trans -> Nat]
    /\ issued \in Nat
    /\ ord \in [Trans -> Nat]
    /\ carrier \in [Trans \cup Pass -> {"none", "current", "gone"}]

\* However an END (late, repeated, unsolicited), the timeout check and the loss
\* of the connection interleave, the callback given to begin() runs at most once.
CallbackAtMostOnce == \A t \in Trans : cbs[t] <= 1

\* A pending transaction is found under its own id only, is open, and its id
\* lies as many steps behind the id counter as ids were generated since: no END
\* can reach another transaction than the one whose BEGIN carried that id, nor
\* a transaction that has ended.
TableFollowsCounter ==
    \A i \in Tid : transInit[i] # NoTrans =>
        LET t == transInit[i]
            since == issued - ord[t] IN
        /\ stid[t] = i
        /\ outcome[t] = "open"
        /\ ord[t] \in 1 .. issued
        /\ since <= MaxTid
        /\ i + since \in {tidSeq, tidSeq + MaxTid + 1}

Queued(t) == \E i \in DOMAIN mailbox : mailbox[i] = [op |-> "begin", of |-> t]

\* A begun transaction whose callback has not run is waiting in the mailbox or
\* in transInit.  futureBegin overwrites its slot of the table only after the
\* id counter has gone once round, that is MaxTid + 1 begins later.
LostOnlyAfterWrap ==
    \A t \in Trans : outcome[t] = "open" =>
        \/ Queued(t)
        \/ transInit[stid[t]] = t
        \/ issued - ord[t] > MaxTid

\* On the classes whose clean() ends the pending transactions, none whose BEGIN
\* was sent on a connection survives that connection: after a reconnect, no
\* answer can still be due from the connection before.
PendingOnCurrentConnection ==
    \A t \in InTable : carrier[t] # "gone"

\* A passive transaction the application ended with anything but RET_FAILURE is
\* left without an END only if the connection its BEGIN came on was lost.
ReplyLostOnlyWithConnection ==
    \A p \in Pass :
        pass[p] = "dropped" /\ ret[p] # "FAILURE" => carrier[p] = "gone"

\* The channel implements what TransactionLifecycle promises of begin().
Lifecycle == INSTANCE TransactionLifecycle WITH status <- outcome, calls <- cbs
LifecycleSpec == Lifecycle!Spec

\* README.md:70, every message begins with a transaction and ends with one:
\* the callback of every begin() runs in the end.
EveryBeginEnds ==
    \A t \in Trans : outcome[t] = "open" ~> cbs[t] > 0

\* So it does on a channel that keeps reconnecting, whatever the peer does, but
\* for a transaction whose slot was taken after the id counter went once round.
EveryBeginEndsUnlessWrapped ==
    \A t \in Trans :
        outcome[t] = "open" ~> cbs[t] > 0 \/ ord[t] \in 1 .. issued - MaxTid - 1

\* A transaction pending on an established connection ends: by its END, by the
\* timeout check, or by the loss of the connection, whatever the peer does.
PendingOnLiveEnds ==
    \A t \in Trans : est /\ t \in InTable ~> cbs[t] > 0
============================================================================
