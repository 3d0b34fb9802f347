---------------------------- MODULE XmsgImTcpH2N ----------------------------
(***************************************************************************)
(* How an XmsgImTcpH2N connects and reconnects to its remote side.         *)
(*                                                                         *)
(* connect() may be called by application threads and by the evnDisc() of  *)
(* an application's subclass, which the worker runs when the connection is *)
(* lost.  It starts a detached thread, svc, which keeps trying until the   *)
(* remote side accepts and then posts a future to the worker; only that    *)
(* future, run later, makes the channel established.  The threads meet in  *)
(* est (written by the worker only), trying (an atomic) and needWait       *)
(* (a plain bool that only svc threads touch).                             *)
(***************************************************************************)
EXTENDS Naturals, Sequences

CONSTANTS App,         \* application threads that call connect()
          Svc,         \* names for the detached threads
          AppConnects  \* bound: how often application threads call connect()

ASSUME H2NAssumption == AppConnects \in Nat

VARIABLES
    est,       \* the channel is established
    trying,    \* some connect() is under way
    needWait,  \* svc waits before its next attempt
    svc,       \* where each detached thread is; "none" if it does not exist
    app,       \* "checked": connect() has read est and not yet taken trying
    mailbox,   \* futures posted to the worker
    h2ns,      \* how often the channel is in the worker's list h2ns
    rcv,       \* the undecoded rest of what was read: whose bytes it holds
    wbuf,      \* the write buffer: whose PDUs it holds
    calls,     \* how often connect() was called by application threads
    refused    \* history: "we are trying" was answered, not established since

bufs == <<rcv, wbuf>>
vars == <<est, trying, needWait, svc, app, mailbox, h2ns, bufs, calls, refused>>

Task == {"register", "establish"}

\* Bytes of the established connection, or of one that was lost.
Bytes == {"empty", "current", "stale"}

Init ==
    /\ est = FALSE
    /\ trying = FALSE
    /\ needWait = FALSE
    /\ svc = [s \in Svc |-> "none"]
    /\ app = [a \in App |-> "idle"]
    /\ mailbox = <<>>
    /\ h2ns = 0
    /\ rcv = "empty"
    /\ wbuf = "empty"
    /\ calls = 0
    /\ refused = FALSE

-----------------------------------------------------------------------------
(* connect().                                                              *)

\* Mutant: trying is read and not taken.
ExchangeReads ==
    \/ /\ trying
       /\ refused' = TRUE
       /\ UNCHANGED <<trying, svc>>
    \/ /\ ~trying
       /\ \E s \in Svc : svc[s] = "none" /\ svc' = [svc EXCEPT ![s] = "start"]
       /\ UNCHANGED <<trying, refused>>

\* trying.exchange(true): refused if somebody has it, else a thread is started.
Exchange ==
    \/ /\ trying
       /\ refused' = TRUE
       /\ UNCHANGED <<trying, svc>>
    \/ /\ ~trying
       /\ trying' = TRUE
       /\ \E s \in Svc : svc[s] = "none" /\ svc' = [svc EXCEPT ![s] = "start"]
       /\ UNCHANGED refused

\* An application thread calls connect() and reads est; it returns at once if
\* the channel is established.
AppConnect(a) ==
    /\ app[a] = "idle"
    /\ calls < AppConnects
    /\ calls' = calls + 1
    /\ app' = [app EXCEPT ![a] = IF est THEN "idle" ELSE "checked"]
    /\ UNCHANGED <<est, trying, needWait, svc, mailbox, h2ns, bufs, refused>>

AppExchange(a) ==
    /\ app[a] = "checked"
    /\ app' = [app EXCEPT ![a] = "idle"]
    /\ Exchange
    /\ UNCHANGED <<est, needWait, mailbox, h2ns, bufs, calls>>

\* The worker loses the connection and runs evnDisc() of the application's
\* subclass, which may call connect().  No other thread writes est, so the
\* worker's own test of it passes.
Lost ==
    /\ est
    /\ est' = FALSE
    /\ rcv' = IF rcv = "current" THEN "stale" ELSE rcv
    /\ wbuf' = IF wbuf = "current" THEN "stale" ELSE wbuf
    /\ Exchange \/ UNCHANGED <<trying, svc, refused>>
    /\ UNCHANGED <<needWait, app, mailbox, h2ns, calls>>

-----------------------------------------------------------------------------
(* svc().                                                                  *)

\* Mutant: a thread that has ended is kept.
GotoKeepsEnded(s, pc) == svc' = [svc EXCEPT ![s] = IF pc = "none" THEN "ended" ELSE pc]

Goto(s, pc) == svc' = [svc EXCEPT ![s] = pc]

\* The channel is put into h2ns by the first thread only.
Start(s) ==
    /\ svc[s] = "start"
    /\ Goto(s, "loop")
    /\ mailbox' = IF needWait THEN mailbox ELSE Append(mailbox, "register")
    /\ UNCHANGED <<est, trying, needWait, app, h2ns, bufs, calls, refused>>

\* Mutant: the first attempt does not ask the later ones to wait.
AttemptNeverWaits(s) ==
    /\ svc[s] = "loop"
    /\ Goto(s, "connect")
    /\ UNCHANGED <<est, trying, needWait, app, mailbox, h2ns, bufs, calls, refused>>

\* Before an attempt: sleep, or remember that the next one has to.
Attempt(s) ==
    /\ svc[s] = "loop"
    /\ Goto(s, "connect")
    /\ needWait' = TRUE
    /\ UNCHANGED <<est, trying, app, mailbox, h2ns, bufs, calls, refused>>

\* Mutant: a thread gives up after a failed attempt.
ConnectFailsForGood(s) ==
    /\ svc[s] = "connect"
    /\ Goto(s, "release")
    /\ UNCHANGED <<est, trying, needWait, app, mailbox, h2ns, bufs, calls, refused>>

ConnectFails(s) ==
    /\ svc[s] = "connect"
    /\ Goto(s, "loop")
    /\ UNCHANGED <<est, trying, needWait, app, mailbox, h2ns, bufs, calls, refused>>

\* Mutant: the break that leaves the loop is missing.
ConnectSucceedsAndLoops(s) ==
    /\ svc[s] = "connect"
    /\ Goto(s, "loop")
    /\ mailbox' = Append(mailbox, "establish")
    /\ Len(mailbox) < 3
    /\ UNCHANGED <<est, trying, needWait, app, h2ns, bufs, calls, refused>>

ConnectSucceeds(s) ==
    /\ svc[s] = "connect"
    /\ Goto(s, "release")
    /\ mailbox' = Append(mailbox, "establish")
    /\ UNCHANGED <<est, trying, needWait, app, h2ns, bufs, calls, refused>>

\* trying is released when the future is posted, not when it has run.
Release(s) ==
    /\ svc[s] = "release"
    /\ Goto(s, "none")
    /\ trying' = FALSE
    /\ UNCHANGED <<est, needWait, app, mailbox, h2ns, bufs, calls, refused>>

-----------------------------------------------------------------------------
(* The worker.                                                             *)

Register ==
    /\ mailbox # <<>>
    /\ Head(mailbox) = "register"
    /\ mailbox' = Tail(mailbox)
    /\ h2ns' = h2ns + 1
    /\ UNCHANGED <<est, trying, needWait, svc, app, bufs, calls, refused>>

\* Mutant: the length of what was read before is kept.
EstablishKeepsRead ==
    /\ mailbox # <<>>
    /\ Head(mailbox) = "establish"
    /\ mailbox' = Tail(mailbox)
    /\ est' = TRUE
    /\ rcv' = rcv
    /\ wbuf' = "empty"
    /\ refused' = FALSE
    /\ UNCHANGED <<trying, needWait, svc, app, h2ns, calls>>

\* The new connection starts with nothing read and nothing to write.
Establish ==
    /\ mailbox # <<>>
    /\ Head(mailbox) = "establish"
    /\ mailbox' = Tail(mailbox)
    /\ est' = TRUE
    /\ rcv' = "empty"
    /\ wbuf' = "empty"
    /\ refused' = FALSE
    /\ UNCHANGED <<trying, needWait, svc, app, h2ns, calls>>

\* What evnRecv leaves undecoded is kept; what send() is given is buffered,
\* also while the channel is not established.
Read ==
    /\ est
    /\ rcv # "stale"
    /\ rcv' \in {"empty", "current"} \ {rcv}
    /\ UNCHANGED <<est, trying, needWait, svc, app, mailbox, h2ns, wbuf, calls, refused>>

Send ==
    /\ wbuf = "empty"
    /\ wbuf' = IF est THEN "current" ELSE "stale"
    /\ UNCHANGED <<est, trying, needWait, svc, app, mailbox, h2ns, rcv, calls, refused>>

\* dida() of an established channel in h2ns, when a heartbeat is due: a PING.
Heartbeat ==
    /\ h2ns > 0
    /\ est
    /\ wbuf = "empty"
    /\ wbuf' = "current"
    /\ UNCHANGED <<est, trying, needWait, svc, app, mailbox, h2ns, rcv, calls, refused>>

Flush ==
    /\ est
    /\ wbuf # "empty"
    /\ wbuf' = "empty"
    /\ UNCHANGED <<est, trying, needWait, svc, app, mailbox, h2ns, rcv, calls, refused>>

-----------------------------------------------------------------------------
Thread(s) ==
    \/ Start(s)
    \/ Attempt(s)
    \/ ConnectFails(s)
    \/ ConnectSucceeds(s)
    \/ Release(s)

Next ==
    \/ \E a \in App : AppConnect(a) \/ AppExchange(a)
    \/ Lost
    \/ \E s \in Svc : Thread(s)
    \/ Register
    \/ Establish
    \/ Read
    \/ Send
    \/ Heartbeat
    \/ Flush

Spec == Init /\ [][Next]_vars

\* Threads are scheduled, the worker runs its futures, and the remote side
\* accepts in the end if it is tried again and again.
FairSpec ==
    /\ Spec
    /\ \A s \in Svc : WF_vars(Thread(s)) /\ SF_vars(ConnectSucceeds(s))
    /\ \A a \in App : WF_vars(AppExchange(a))
    /\ WF_vars(Register \/ Establish)

-----------------------------------------------------------------------------
(* Properties.                                                             *)

\* Every variable has its type.
TypeOK ==
    /\ est \in BOOLEAN
    /\ trying \in BOOLEAN
    /\ needWait \in BOOLEAN
    /\ svc \in [Svc -> {"none", "start", "loop", "connect", "release"}]
    /\ app \in [App -> {"idle", "checked"}]
    /\ mailbox \in Seq(Task)
    /\ h2ns \in Nat
    /\ rcv \in Bytes
    /\ wbuf \in Bytes
    /\ calls \in Nat
    /\ refused \in BOOLEAN

Running(s) == svc[s] # "none"
Queued(task) == {i \in DOMAIN mailbox : mailbox[i] = task}

\* However many threads call connect(), at most one svc thread exists: the
\* unsynchronised needWait has one reader and writer.  It exists exactly as long as
\* trying is set: a trying that was left set would refuse every connect() for good.
AtMostOneSvc ==
    /\ \A s1, s2 \in Svc : Running(s1) /\ Running(s2) => s1 = s2
    /\ trying <=> \E s \in Svc : Running(s)

\* The channel enters the worker's list h2ns once in its life, whatever the
\* number of connections and calls of connect(), so that dida() runs once a period;
\* and it has entered it before it is established, with its timeout check and its
\* heartbeat.
RegisteredOnce ==
    /\ h2ns <= 1
    /\ h2ns = 1 => Queued("register") = {}
    /\ \A i, j \in Queued("register") : i = j
    /\ est => h2ns = 1

\* XmsgImTcpH2N.cpp:42, connect() leaves an established channel alone: no
\* second connection is made while one is established or about to be, whose
\* socket the channel would forget.
OneConnection ==
    /\ est => Queued("establish") = {}
    /\ \A i, j \in Queued("establish") : i = j

\* That holds as long as the application has called connect() once and all
\* later calls are those of evnDisc().
ReconnectsOnce == calls <= 1 => OneConnection

\* Bytes of a lost connection, half a PDU read or a PDU not yet written, never
\* mix with those of the connection that follows it.
ConnectionsDoNotMix == est => rcv # "stale" /\ wbuf # "stale"

\* A thread runs that has not connected yet.
Trying == \E s \in Svc : svc[s] \in {"start", "loop", "connect"}

Cycle == INSTANCE ConnectionCycle WITH
    phase <- IF est THEN "up"
             ELSE IF Trying \/ Queued("establish") # {} THEN "connecting"
             ELSE "down"

\* Whatever the threads do, the channel implements the abstract cycle: a connect()
\* that was accepted is not dropped before the channel is established, and it is not
\* established without one.
CycleSpec == Cycle!Spec

\* A connect() that was not refused ends in an established channel.
AcceptedConnects == \A s \in Svc : svc[s] = "start" ~> est

\* XmsgImTcpH2N.cpp:47, a connect() is refused because "we are trying connect
\* to remote server": the attempt it refers to makes the channel established.
RefusedMeansTrying == refused ~> est
=============================================================================
