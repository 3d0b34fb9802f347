-------------------------- MODULE XmsgImN2HMsgMgr --------------------------
(***************************************************************************)
(* Registration of messages and of the interceptor with a server.          *)
(*                                                                         *)
(* The application holds one XmsgImN2HMsgMgr.  reg() and setItcp() change  *)
(* it, post a copy of the change to every xsc worker, and wait on a join   *)
(* counter until all have run it.  Each worker has a manager of its own,   *)
(* made by the first future that needs it, from which it answers the PDUs  *)
(* of its channels meanwhile.                                              *)
(* The calls are made by one thread at a time, which is not a worker: the  *)
(* map of the manager has no lock.                                         *)
(***************************************************************************)
EXTENDS Naturals, Sequences

CONSTANTS N,       \* number of xsc workers of the server
          Msg,     \* names of messages
          Reg,     \* the calls of reg(): descriptors, and is a user required
          Itcp,    \* interceptors, one per call of setItcp()
          None     \* no stub, no interceptor, no descriptor, the empty name

Name == Msg \cup {None}
Call == Reg \cup Itcp
Worker == 1 .. N

ASSUME MsgMgrAssumption ==
    /\ N \in Nat
    /\ Reg \subseteq [begin : Name, uni : Name, auth : BOOLEAN]
    /\ None \notin Call
    /\ Reg \cap Itcp = {}

VARIABLES
    call,      \* each call: "idle", "posting", "waiting", or what it returned
    next,      \* the worker the loop of the call under way posts to next
    msgs,      \* msgs of the application's manager
    itcpCb,    \* itcpCb of the application's manager
    mailbox,   \* futures posted to each worker
    wmsgMgr,   \* the worker has a manager
    wmsgs,     \* msgs of the worker's manager
    witcpCb,   \* itcpCb of the worker's manager
    joined,    \* the join counter of each call
    \* History, read by the properties only:
    guarded,   \* an interceptor was set before the stub was registered
    handled,   \* the stubs that handled a PDU
    unchecked, \* those that handled one no interceptor had seen
    missed     \* those whose reg() had returned when their message was not known

pdus == <<handled, unchecked, missed>>
vars == <<call, next, msgs, itcpCb, mailbox, wmsgMgr, wmsgs, witcpCb, joined,
          guarded, pdus>>

Init ==
    /\ call = [c \in Call |-> "idle"]
    /\ next = 1
    /\ msgs = [m \in Name |-> None]
    /\ itcpCb = None
    /\ mailbox = [w \in Worker |-> <<>>]
    /\ wmsgMgr = [w \in Worker |-> FALSE]
    /\ wmsgs = [w \in Worker |-> [m \in Name |-> None]]
    /\ witcpCb = [w \in Worker |-> None]
    /\ joined = [c \in Call |-> 0]
    /\ guarded = {}
    /\ handled = {}
    /\ unchecked = {}
    /\ missed = {}

UnderWay(c) == call[c] \in {"posting", "waiting"}
Quiet == \A c \in Call : ~UnderWay(c)

-----------------------------------------------------------------------------
(* The calling thread.                                                     *)

\* XmsgImMsgStub::XmsgImMsgStub: what a stub is registered under.
Named(c) == IF c.begin # None THEN c.begin ELSE c.uni

\* Mutant: a second stub for a message replaces the first.
DuplicateNever(c) == FALSE

Duplicate(c) == msgs[Named(c)] # None

\* reg() of a message that is registered already.
RegDuplicate(c) ==
    /\ Quiet
    /\ call[c] = "idle"
    /\ Duplicate(c)
    /\ call' = [call EXCEPT ![c] = "false"]
    /\ UNCHANGED <<next, msgs, itcpCb, mailbox, wmsgMgr, wmsgs, witcpCb, joined, guarded, pdus>>

RegStart(c) ==
    /\ Quiet
    /\ call[c] = "idle"
    /\ ~Duplicate(c)
    /\ msgs' = [msgs EXCEPT ![Named(c)] = c]
    /\ call' = [call EXCEPT ![c] = "posting"]
    /\ next' = 1
    /\ guarded' = IF itcpCb # None THEN guarded \cup {c} ELSE guarded
    /\ UNCHANGED <<itcpCb, mailbox, wmsgMgr, wmsgs, witcpCb, joined, pdus>>

SetItcpStart(c) ==
    /\ Quiet
    /\ call[c] = "idle"
    /\ itcpCb' = c
    /\ call' = [call EXCEPT ![c] = "posting"]
    /\ next' = 1
    /\ UNCHANGED <<msgs, mailbox, wmsgMgr, wmsgs, witcpCb, joined, guarded, pdus>>

\* Mutants: the loop stops one worker short, or runs one too far.
PostedAllButOne == next >= N
PostedOneTooMany == next > N + 1

PostedAll == next > N

Post(c) ==
    /\ call[c] = "posting"
    /\ ~PostedAll
    /\ mailbox' = [mailbox EXCEPT ![next] = Append(@, c)]
    /\ next' = next + 1
    /\ UNCHANGED <<call, msgs, itcpCb, wmsgMgr, wmsgs, witcpCb, joined, guarded, pdus>>

Wait(c) ==
    /\ call[c] = "posting"
    /\ PostedAll
    /\ call' = [call EXCEPT ![c] = "waiting"]
    /\ UNCHANGED <<next, msgs, itcpCb, mailbox, wmsgMgr, wmsgs, witcpCb, joined, guarded, pdus>>

\* Mutant: the counter is made for one worker less.
JoinedAllButOne(c) == joined[c] + 1 >= N

JoinedAll(c) == joined[c] >= N

Return(c) ==
    /\ call[c] = "waiting"
    /\ JoinedAll(c)
    /\ call' = [call EXCEPT ![c] = "true"]
    /\ UNCHANGED <<next, msgs, itcpCb, mailbox, wmsgMgr, wmsgs, witcpCb, joined, guarded, pdus>>

-----------------------------------------------------------------------------
(* A worker.                                                               *)

\* The future of setItcp.  Mutant: the new manager is left without it.
CopyItcpForgets(w, c) == UNCHANGED <<witcpCb, wmsgs>>

CopyItcp(w, c) ==
    /\ witcpCb' = [witcpCb EXCEPT ![w] = c]
    /\ UNCHANGED wmsgs

\* The future of copyMsg2allXscWorker.
CopyMsg(w, c) ==
    /\ wmsgs' = [wmsgs EXCEPT ![w][Named(c)] = c]
    /\ UNCHANGED witcpCb

RunFuture(w) ==
    /\ mailbox[w] # <<>>
    /\ mailbox' = [mailbox EXCEPT ![w] = Tail(@)]
    /\ wmsgMgr' = [wmsgMgr EXCEPT ![w] = TRUE]
    /\ LET c == Head(mailbox[w]) IN
          /\ joined' = [joined EXCEPT ![c] = @ + 1]
          /\ \/ c \in Reg /\ CopyMsg(w, c)
             \/ c \in Itcp /\ CopyItcp(w, c)
    /\ UNCHANGED <<call, next, msgs, itcpCb, guarded, pdus>>

-----------------------------------------------------------------------------
(* A PDU that a channel of the worker has read, a BEGIN or one-way message. *)

\* getMsgStub()
MsgStub(w, m) == wmsgs[w][m]

\* newBegin(), newUnidirection(): what the stub makes of the PDU's data.
Descriptor(c, op) == IF op = "begin" THEN c.begin ELSE c.uni

\* A PDU refused for want of a manager or of a stub.
PduUnknown(w, m) ==
    /\ ~wmsgMgr[w] \/ MsgStub(w, m) = None
    /\ missed' = missed \cup {c \in Reg : Named(c) = m /\ call[c] = "true"}
    /\ UNCHANGED <<call, next, msgs, itcpCb, mailbox, wmsgMgr, wmsgs, witcpCb,
                   joined, guarded, handled, unchecked>>

\* One the interceptor, if there is any, does not keep for itself, and that the
\* stub can handle: it has a descriptor for it, a user where it needs one.
PduHandled(w, m, op, usr) ==
    /\ wmsgMgr[w]
    /\ LET c == MsgStub(w, m) IN
          /\ c # None
          /\ Descriptor(c, op) # None
          /\ c.auth => usr
          /\ handled' = handled \cup {c}
          /\ unchecked' = IF witcpCb[w] = None THEN unchecked \cup {c} ELSE unchecked
    /\ UNCHANGED <<call, next, msgs, itcpCb, mailbox, wmsgMgr, wmsgs, witcpCb,
                   joined, guarded, missed>>

\* One the interceptor consumes or forbids, one without a descriptor, a user, or
\* data that parses changes nothing here.
EvnPdu(w) ==
    \E m \in Name :
        \/ PduUnknown(w, m)
        \/ \E op \in {"begin", "uni"}, usr \in BOOLEAN : PduHandled(w, m, op, usr)

-----------------------------------------------------------------------------
Caller(c) == Post(c) \/ Wait(c) \/ Return(c)

Next ==
    \/ \E c \in Reg : RegDuplicate(c) \/ RegStart(c)
    \/ \E c \in Itcp : SetItcpStart(c)
    \/ \E c \in Call : Caller(c)
    \/ \E w \in Worker : RunFuture(w) \/ EvnPdu(w)

Spec == Init /\ [][Next]_vars

\* The calling thread is scheduled and every worker runs its futures.
FairSpec ==
    /\ Spec
    /\ \A c \in Call : WF_vars(Caller(c))
    /\ \A w \in Worker : WF_vars(RunFuture(w))

-----------------------------------------------------------------------------
(* Properties.                                                             *)

\* Every variable has its type; the loop of copyMsg2allXscWorker stays inside the
\* vector of workers.
TypeOK ==
    /\ call \in [Call -> {"idle", "posting", "waiting", "true", "false"}]
    /\ next \in 1 .. N + 1
    /\ msgs \in [Name -> Reg \cup {None}]
    /\ itcpCb \in Itcp \cup {None}
    /\ mailbox \in [Worker -> Seq(Call)]
    /\ wmsgMgr \in [Worker -> BOOLEAN]
    /\ wmsgs \in [Worker -> [Name -> Reg \cup {None}]]
    /\ witcpCb \in [Worker -> Itcp \cup {None}]
    /\ joined \in [Call -> Nat]
    /\ guarded \in SUBSET Reg
    /\ handled \in SUBSET Reg
    /\ unchecked \in SUBSET Reg
    /\ missed \in SUBSET Reg

\* When no call is under way, reg() and setItcp() having returned, every worker
\* handles PDUs exactly as the application's manager says.
WorkersCopyWhenQuiet ==
    Quiet => \A w \in Worker : wmsgs[w] = msgs /\ witcpCb[w] = itcpCb

\* While calls are under way a worker may not know a message yet, but all PDUs
\* of a message are handled with one stub, on whatever worker and at whatever time.
HandledAlike ==
    \A c, d \in handled : Named(c) = Named(d) => c = d

\* Once reg() has returned true, no worker refuses a PDU for not knowing its
\* message, whatever calls follow.
RegisteredIsKnown == missed = {}

\* A stub registered after an interceptor was set never handles a PDU that no
\* interceptor has seen, though setItcp() and reg() reach the workers one by one.
InterceptedFromTheStart == guarded \cap unchecked = {}

\* The stub a worker handles a message with is never replaced.
StubStays ==
    [][\A w \in Worker, m \in Name :
          wmsgs[w][m] # None => wmsgs'[w][m] = wmsgs[w][m]]_vars

\* reg() and setItcp() return.
CallsReturn == \A c \in Call : UnderWay(c) ~> ~UnderWay(c)
=============================================================================
