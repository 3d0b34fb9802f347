----------------------- MODULE XmsgImN2HMsgMgrProofs -----------------------
(***************************************************************************)
(* Theorems about XmsgImN2HMsgMgr, for any number of workers, messages and *)
(* calls.                                                                  *)
(***************************************************************************)
EXTENDS XmsgImN2HMsgMgr, FiniteSetTheorems, SequenceTheorems, TLAPS

\* A stub is registered under a name, and is not mistaken for None.
LEMMA RegFacts ==
    ASSUME NEW c \in Reg
    PROVE  /\ Named(c) \in Name /\ c # None /\ c \in Call /\ c \notin Itcp
           /\ None \in Name
  BY MsgMgrAssumption DEF MsgMgrAssumption, Named, Call, Name

-----------------------------------------------------------------------------
(* Type correctness.                                                       *)

\* The initial state has the types.
LEMMA InitTypeOK == Init => TypeOK
  <1> SUFFICES ASSUME Init PROVE TypeOK
    OBVIOUS
  <1>1. 1 \in 1 .. N + 1
    BY MsgMgrAssumption DEF MsgMgrAssumption
  <1>2. mailbox \in [Worker -> Seq(Call)]
    BY DEF Init
  <1> QED BY <1>1, <1>2 DEF Init, TypeOK

\* A PDU is handled with a stub, and reads no other part of the state.
LEMMA PduTypeOK ==
    ASSUME TypeOK, NEW w \in Worker, EvnPdu(w)
    PROVE  TypeOK'
  <1> USE DEF TypeOK
  <1>1. CASE \E m \in Name : PduUnknown(w, m)
    BY <1>1 DEF PduUnknown
  <1>2. ASSUME NEW m \in Name, NEW op \in {"begin", "uni"}, NEW usr \in BOOLEAN,
               PduHandled(w, m, op, usr)
        PROVE  TypeOK'
    <2>1. MsgStub(w, m) \in Reg
      BY <1>2 DEF PduHandled, MsgStub
    <2>2. handled' \in SUBSET Reg /\ unchecked' \in SUBSET Reg
      BY <1>2, <2>1 DEF PduHandled
    <2> QED BY <1>2, <2>2 DEF PduHandled
  <1> QED BY <1>1, <1>2 DEF EvnPdu

\* Every step keeps the types: an index the loop posts to is a worker, a future
\* taken from a mailbox is a call.
LEMMA NextTypeOK ==
    ASSUME TypeOK, [Next]_vars
    PROVE  TypeOK'
  <1> USE DEF TypeOK
  <1>0. 1 \in 1 .. N + 1 /\ \A c \in Reg : Named(c) \in Name
    BY MsgMgrAssumption, RegFacts DEF MsgMgrAssumption
  <1>1. ASSUME NEW c \in Reg, RegDuplicate(c) \/ RegStart(c)
        PROVE  TypeOK'
    <2>1. CASE RegDuplicate(c)
      BY <2>1 DEF RegDuplicate, Call, pdus
    <2>2. CASE RegStart(c)
      <3>1. /\ msgs' \in [Name -> Reg \cup {None}]
            /\ call' \in [Call -> {"idle", "posting", "waiting", "true", "false"}]
        BY <1>0, <2>2 DEF RegStart, Call
      <3>2. guarded' \in SUBSET Reg /\ next' \in 1 .. N + 1
        BY <1>0, <2>2 DEF RegStart
      <3> QED BY <2>2, <3>1, <3>2 DEF RegStart, pdus
    <2> QED BY <1>1, <2>1, <2>2
  <1>2. ASSUME NEW c \in Itcp, SetItcpStart(c)
        PROVE  TypeOK'
    BY <1>0, <1>2 DEF SetItcpStart, Call, pdus
  <1>3. ASSUME NEW c \in Call, Caller(c)
        PROVE  TypeOK'
    <2>1. CASE Post(c)
      <3>1. next \in Worker /\ next + 1 \in 1 .. N + 1
        BY <2>1, MsgMgrAssumption DEF MsgMgrAssumption, Post, PostedAll, Worker
      <3>2. Append(mailbox[next], c) \in Seq(Call)
        BY <3>1, AppendProperties
      <3>3. mailbox' \in [Worker -> Seq(Call)]
        BY <2>1, <3>1, <3>2 DEF Post
      <3> QED BY <2>1, <3>1, <3>3 DEF Post, pdus
    <2>2. CASE Wait(c) \/ Return(c)
      BY <2>2 DEF Wait, Return, pdus
    <2> QED BY <1>3, <2>1, <2>2 DEF Caller
  <1>4. ASSUME NEW w \in Worker, RunFuture(w)
        PROVE  TypeOK'
    <2> DEFINE c == Head(mailbox[w])
    <2>1. /\ mailbox[w] \in Seq(Call) /\ mailbox[w] # <<>>
      BY <1>4 DEF RunFuture
    <2>2. c \in Call /\ Tail(mailbox[w]) \in Seq(Call)
      BY <2>1, HeadTailProperties
    <2>3. mailbox' \in [Worker -> Seq(Call)]
      BY <1>4, <2>2 DEF RunFuture
    <2> HIDE DEF c
    <2>4. /\ wmsgs' \in [Worker -> [Name -> Reg \cup {None}]]
          /\ witcpCb' \in [Worker -> Itcp \cup {None}]
      <3>1. CASE c \in Reg /\ CopyMsg(w, c)
        BY <1>0, <3>1 DEF CopyMsg
      <3>2. CASE c \in Itcp /\ CopyItcp(w, c)
        BY <3>2 DEF CopyItcp
      <3> QED BY <1>4, <3>1, <3>2 DEF RunFuture, c
    <2>5. joined' \in [Call -> Nat]
      BY <1>4, <2>2 DEF RunFuture, c
    <2> QED BY <1>4, <2>3, <2>4, <2>5 DEF RunFuture, pdus
  <1>5. CASE UNCHANGED vars
    BY <1>5 DEF vars, pdus
  <1> QED BY <1>1, <1>2, <1>3, <1>4, <1>5, PduTypeOK DEF Next

\* Type correctness, for any number of workers, messages and calls.
THEOREM TypeCorrect == Spec => []TypeOK
  BY InitTypeOK, NextTypeOK, PTL DEF Spec

-----------------------------------------------------------------------------
(* The inductive invariant.                                                *)

\* The workers that have run the future of the call under way.
Ran == {w \in Worker : w < next /\ mailbox[w] = <<>>}

\* One call is under way, and nothing but its future is.
CallInv ==
    /\ \A c, d \in Call : UnderWay(c) /\ UnderWay(d) => c = d
    /\ \A c \in Call : call[c] = "waiting" => next > N
    /\ \A w \in Worker :
          \/ mailbox[w] = <<>>
          \/ w < next /\ \E c \in Call : UnderWay(c) /\ mailbox[w] = <<c>>

\* The join counter counts the workers that have run it.
JoinInv ==
    \A c \in Call :
        /\ call[c] = "idle" => joined[c] = 0
        /\ UnderWay(c) => joined[c] = Cardinality(Ran)

\* The worker's manager is a copy of the application's, or lacks but the change
\* of the call c.
Synced(w) == wmsgs[w] = msgs /\ witcpCb[w] = itcpCb
Behind(w, c) ==
    \/ /\ c \in Reg
       /\ wmsgs[w] = [msgs EXCEPT ![Named(c)] = None]
       /\ witcpCb[w] = itcpCb
    \/ c \in Itcp /\ wmsgs[w] = msgs

SyncInv ==
    \A w \in Worker :
        /\ Quiet => Synced(w)
        /\ \A c \in Call : UnderWay(c) =>
              IF w \in Ran THEN Synced(w) /\ wmsgMgr[w] ELSE Behind(w, c)
        /\ (\E c \in Call : call[c] = "true") => wmsgMgr[w]

\* A stub stays where it was registered; an interceptor, once set, stays set.
StubInv ==
    /\ \A m \in Name : msgs[m] # None => Named(msgs[m]) = m
    /\ \A c \in Reg : UnderWay(c) \/ call[c] = "true" => msgs[Named(c)] = c
    /\ \A c \in Itcp : UnderWay(c) => itcpCb = c
    /\ \A c \in handled : msgs[Named(c)] = c
    /\ unchecked \subseteq handled
    /\ guarded # {} => itcpCb # None /\ \A w \in Worker : witcpCb[w] # None

Core == TypeOK /\ CallInv /\ JoinInv /\ SyncInv /\ StubInv
IInv == Core /\ RegisteredIsKnown /\ InterceptedFromTheStart

\* What StubStays asks of a step.
StubsKept ==
    \A w \in Worker, m \in Name : wmsgs[w][m] # None => wmsgs'[w][m] = wmsgs[w][m]

\* What only the application's calls and the workers' futures change.
core == <<call, next, msgs, itcpCb, mailbox, wmsgMgr, wmsgs, witcpCb, joined>>

\* The workers that have run the future are finitely many.
LEMMA RanFinite ==
    ASSUME TypeOK
    PROVE  /\ IsFiniteSet(Ran) /\ Cardinality(Ran) \in Nat
           /\ Ran \subseteq Worker
           /\ IsFiniteSet(Worker) /\ Cardinality(Worker) = N
  <1>1. IsFiniteSet(Worker) /\ Cardinality(Worker) = N
    BY FS_Interval, MsgMgrAssumption DEF MsgMgrAssumption, Worker
  <1>2. Ran \subseteq Worker
    BY DEF Ran
  <1> QED BY <1>1, <1>2, FS_Subset, FS_CardinalityType

\* No call has been made initially.
LEMMA InitIInv == Init => IInv
  <1> SUFFICES ASSUME Init PROVE IInv
    OBVIOUS
  <1>1. CallInv
    BY DEF Init, CallInv, UnderWay
  <1>2. JoinInv
    BY DEF Init, JoinInv, UnderWay
  <1>3. SyncInv
    BY DEF Init, SyncInv, Synced, UnderWay
  <1>4. StubInv
    BY RegFacts DEF Init, StubInv, UnderWay, Call
  <1>5. RegisteredIsKnown /\ InterceptedFromTheStart
    BY DEF Init, RegisteredIsKnown, InterceptedFromTheStart
  <1> QED BY <1>1, <1>2, <1>3, <1>4, <1>5, InitTypeOK DEF IInv, Core

-----------------------------------------------------------------------------
(* Starting a call.                                                        *)

\* A call that starts finds no other, every mailbox empty and every worker a
\* copy of the manager.
LEMMA StartKeeps ==
    ASSUME Core, NEW c \in Call, Quiet, call[c] = "idle",
           call' = [call EXCEPT ![c] = "posting"], next' = 1,
           UNCHANGED <<mailbox, wmsgMgr, wmsgs, witcpCb, joined>>,
           TypeOK', \A w \in Worker : Behind(w, c)'
    PROVE  CallInv' /\ JoinInv' /\ SyncInv'
  <1> USE DEF Core
  <1>1. /\ call'[c] = "posting"
        /\ \A d \in Call : d # c => call'[d] = call[d] /\ ~UnderWay(d)
    BY DEF TypeOK, Quiet
  <1>2. \A d \in Call : UnderWay(d)' <=> d = c
    BY <1>1 DEF UnderWay
  <1>3. Ran' = {} /\ Cardinality(Ran') = 0
    <2>1. Ran' = {}
      BY DEF Ran, Worker
    <2> QED BY <2>1, FS_EmptySet
  <1>4. CallInv'
    <2>1. \A w \in Worker : mailbox'[w] = <<>>
      BY DEF CallInv, Quiet
    <2>2. \A d \in Call : call'[d] # "waiting"
      BY <1>1 DEF UnderWay
    <2> QED BY <1>2, <2>1, <2>2 DEF CallInv
  <1>5. JoinInv'
    <2> SUFFICES ASSUME NEW d \in Call
                 PROVE  /\ call'[d] = "idle" => joined'[d] = 0
                        /\ UnderWay(d)' => joined'[d] = Cardinality(Ran')
      BY DEF JoinInv
    <2>1. CASE d = c
      BY <2>1, <1>1, <1>3 DEF JoinInv
    <2>2. CASE d # c
      BY <2>2, <1>1, <1>2 DEF JoinInv
    <2> QED BY <2>1, <2>2
  <1>6. SyncInv'
    <2>1. ~Quiet'
      BY <1>2 DEF Quiet
    <2>2. \A d \in Call : call'[d] = "true" => call[d] = "true"
      BY <1>1
    <2> QED BY <1>2, <1>3, <2>1, <2>2 DEF SyncInv
  <1> QED BY <1>4, <1>5, <1>6

\* reg() changes the manager's map where it had nothing.
LEMMA RegStartKeeps ==
    ASSUME IInv, NEW c \in Reg, RegStart(c), TypeOK'
    PROVE  IInv' /\ StubsKept
  <1> USE DEF IInv, Core
  <1>1. /\ c \in Call /\ Named(c) \in Name /\ c # None
        /\ Quiet /\ call[c] = "idle"
        /\ msgs[Named(c)] = None
        /\ msgs' = [msgs EXCEPT ![Named(c)] = c]
        /\ call' = [call EXCEPT ![c] = "posting"]
        /\ next' = 1
        /\ UNCHANGED <<itcpCb, mailbox, wmsgMgr, wmsgs, witcpCb, joined>>
        /\ UNCHANGED <<handled, unchecked, missed>>
    BY RegFacts DEF RegStart, Duplicate, pdus
  <1>2. msgs'[Named(c)] = c
    BY <1>1 DEF TypeOK
  <1>3. \A m \in Name : m # Named(c) => msgs'[m] = msgs[m]
    BY <1>1 DEF TypeOK
  <1>4. ASSUME NEW w \in Worker PROVE Behind(w, c)'
    <2>1. wmsgs[w] = msgs /\ witcpCb[w] = itcpCb
      BY <1>1 DEF SyncInv, Synced
    <2>2. msgs = [msgs' EXCEPT ![Named(c)] = None]
      BY <1>1 DEF TypeOK
    <2> QED BY <1>1, <2>1, <2>2 DEF Behind
  <1>5. CallInv' /\ JoinInv' /\ SyncInv'
    BY <1>1, <1>4, StartKeeps
  <1>6. StubInv'
    <2>1. \A m \in Name : msgs'[m] # None => Named(msgs'[m]) = m
      BY <1>2, <1>3 DEF StubInv
    <2>2. \A d \in Reg : msgs[Named(d)] = d => msgs'[Named(d)] = d
      BY <1>1, <1>3, RegFacts
    <2>3. \A d \in Reg : UnderWay(d)' \/ call'[d] = "true" =>
                           d = c \/ UnderWay(d) \/ call[d] = "true"
      BY <1>1, RegFacts DEF UnderWay, TypeOK
    <2>4. \A d \in handled' : msgs'[Named(d)] = d
      BY <1>1, <2>2 DEF StubInv, TypeOK
    <2>5. \A d \in Itcp : ~UnderWay(d)'
      BY <1>1, RegFacts DEF UnderWay, TypeOK, Quiet, Call
    <2>6. guarded' # {} => itcpCb' # None /\ \A w \in Worker : witcpCb'[w] # None
      BY <1>1 DEF RegStart, StubInv, SyncInv, Synced
    <2> QED BY <1>1, <1>2, <2>1, <2>2, <2>3, <2>4, <2>5, <2>6 DEF StubInv
  <1>7. InterceptedFromTheStart'
    <2>1. c \notin unchecked
      BY <1>1 DEF StubInv
    <2>2. guarded' \subseteq guarded \cup {c}
      BY DEF RegStart
    <2> QED BY <1>1, <2>1, <2>2 DEF InterceptedFromTheStart
  <1> QED BY <1>1, <1>5, <1>6, <1>7 DEF StubsKept, RegisteredIsKnown

\* setItcp() changes the manager's interceptor.
LEMMA SetItcpStartKeeps ==
    ASSUME IInv, NEW c \in Itcp, SetItcpStart(c), TypeOK'
    PROVE  IInv' /\ StubsKept
  <1> USE DEF IInv, Core
  <1>1. /\ c \in Call /\ c \notin Reg /\ c # None
        /\ Quiet /\ call[c] = "idle"
        /\ itcpCb' = c
        /\ call' = [call EXCEPT ![c] = "posting"]
        /\ next' = 1
        /\ UNCHANGED <<msgs, mailbox, wmsgMgr, wmsgs, witcpCb, joined>>
        /\ UNCHANGED <<guarded, handled, unchecked, missed>>
    BY MsgMgrAssumption, RegFacts DEF MsgMgrAssumption, SetItcpStart, Call, pdus
  <1>2. \A w \in Worker : Behind(w, c)'
    BY <1>1 DEF SyncInv, Synced, Behind
  <1>3. CallInv' /\ JoinInv' /\ SyncInv'
    BY <1>1, <1>2, StartKeeps
  <1>4. StubInv'
    <2>1. \A d \in Reg : UnderWay(d)' \/ call'[d] = "true" =>
                           UnderWay(d) \/ call[d] = "true"
      BY <1>1, RegFacts DEF UnderWay, TypeOK
    <2>2. \A d \in Itcp : UnderWay(d)' => d = c
      BY <1>1 DEF UnderWay, TypeOK, Quiet, Call
    <2> QED BY <1>1, <2>1, <2>2 DEF StubInv
  <1> QED BY <1>1, <1>3, <1>4
        DEF StubsKept, RegisteredIsKnown, InterceptedFromTheStart

-----------------------------------------------------------------------------
(* The call under way.                                                     *)

\* The futures of the application and the PDUs do not meet.
LEMMA CallsKeepStubInv ==
    ASSUME IInv, UNCHANGED <<msgs, itcpCb, witcpCb, guarded, pdus>>,
           \A d \in Call : UnderWay(d)' => UnderWay(d),
           \A d \in Call : call'[d] = "true" => UnderWay(d) \/ call[d] = "true"
    PROVE  StubInv' /\ RegisteredIsKnown' /\ InterceptedFromTheStart'
  <1>1. StubInv'
    BY RegFacts DEF IInv, Core, StubInv, pdus, Call
  <1> QED BY <1>1 DEF IInv, RegisteredIsKnown, InterceptedFromTheStart, pdus

\* The loop posts to a worker that has not run the future of the call.
LEMMA PostKeeps ==
    ASSUME IInv, NEW c \in Call, Post(c), TypeOK'
    PROVE  IInv' /\ StubsKept
  <1> USE DEF IInv, Core
  <1>1. /\ call[c] = "posting"
        /\ next \in Worker /\ next \in Nat /\ N \in Nat
        /\ mailbox' = [mailbox EXCEPT ![next] = Append(mailbox[next], c)]
        /\ next' = next + 1
        /\ UNCHANGED <<call, msgs, itcpCb, wmsgMgr, wmsgs, witcpCb, joined>>
        /\ UNCHANGED <<guarded, pdus>>
    BY MsgMgrAssumption DEF MsgMgrAssumption, Post, PostedAll, Worker, TypeOK
  <1>2. UnderWay(c) /\ \A d \in Call : UnderWay(d)' <=> UnderWay(d)
    BY <1>1 DEF UnderWay
  <1>3. mailbox[next] = <<>>
    BY <1>1 DEF CallInv
  <1>4. mailbox'[next] = <<c>>
    BY <1>1, <1>3 DEF TypeOK
  <1>5. \A w \in Worker : w # next => mailbox'[w] = mailbox[w]
    BY <1>1 DEF TypeOK
  <1>6. \A w \in Worker : w < next' <=> w < next \/ w = next
    BY <1>1 DEF Worker
  <1>7. CallInv'
    <2>1. \A d \in Call : call'[d] = "waiting" => next' > N
      BY <1>1, <1>2 DEF CallInv, UnderWay
    <2>2. ASSUME NEW w \in Worker
          PROVE  \/ mailbox'[w] = <<>>
                 \/ w < next' /\ \E d \in Call : UnderWay(d)' /\ mailbox'[w] = <<d>>
      BY <1>2, <1>4, <1>5, <1>6 DEF CallInv
    <2> QED BY <1>2, <2>1, <2>2 DEF CallInv
  <1>8. Ran' = Ran
    <2>1. <<c>> # <<>>
      OBVIOUS
    <2>2. mailbox'[next] # <<>> /\ \A w \in Worker : w = next => ~(w < next)
      BY <1>1, <1>4, <2>1 DEF Worker
    <2>3. ASSUME NEW w \in Worker
          PROVE  w < next' /\ mailbox'[w] = <<>> <=> w < next /\ mailbox[w] = <<>>
      <3>1. CASE w = next
        BY <2>2, <3>1
      <3>2. CASE w # next
        BY <1>5, <1>6, <3>2
      <3> QED BY <3>1, <3>2
    <2> QED BY <2>3 DEF Ran
  <1>9. JoinInv'
    BY <1>1, <1>2, <1>8 DEF JoinInv
  <1>10. SyncInv'
    <2>1. ~Quiet'
      BY <1>2 DEF Quiet
    <2> QED BY <1>1, <1>2, <1>8, <2>1 DEF SyncInv, Synced, Behind
  <1>11. StubInv' /\ RegisteredIsKnown' /\ InterceptedFromTheStart'
    BY <1>1, <1>2, CallsKeepStubInv
  <1> QED BY <1>1, <1>7, <1>9, <1>10, <1>11 DEF StubsKept

\* The loop is left.
LEMMA WaitKeeps ==
    ASSUME IInv, NEW c \in Call, Wait(c), TypeOK'
    PROVE  IInv' /\ StubsKept
  <1> USE DEF IInv, Core
  <1>1. /\ call[c] = "posting" /\ next > N
        /\ call' = [call EXCEPT ![c] = "waiting"]
        /\ UNCHANGED <<next, msgs, itcpCb, mailbox, wmsgMgr, wmsgs, witcpCb, joined>>
        /\ UNCHANGED <<guarded, pdus>>
    BY DEF Wait, PostedAll
  <1>2. call'[c] = "waiting" /\ \A d \in Call : d # c => call'[d] = call[d]
    BY <1>1 DEF TypeOK
  <1>3. UnderWay(c) /\ \A d \in Call : UnderWay(d)' <=> UnderWay(d)
    BY <1>1, <1>2 DEF UnderWay
  <1>4. Ran' = Ran
    BY <1>1 DEF Ran
  <1>5. CallInv'
    BY <1>1, <1>2, <1>3 DEF CallInv
  <1>6. JoinInv'
    BY <1>1, <1>2, <1>3, <1>4 DEF JoinInv
  <1>7. SyncInv'
    <2>1. ~Quiet'
      BY <1>3 DEF Quiet
    <2>2. \A d \in Call : call'[d] = "true" => call[d] = "true"
      BY <1>2
    <2> QED BY <1>1, <1>3, <1>4, <2>1, <2>2 DEF SyncInv, Synced, Behind
  <1>8. /\ \A d \in Call : UnderWay(d)' => UnderWay(d)
        /\ \A d \in Call : call'[d] = "true" => UnderWay(d) \/ call[d] = "true"
    BY <1>2, <1>3
  <1>9. StubInv' /\ RegisteredIsKnown' /\ InterceptedFromTheStart'
    BY <1>1, <1>8, CallsKeepStubInv
  <1> QED BY <1>1, <1>5, <1>6, <1>7, <1>9 DEF StubsKept

\* A call that returns has been joined by all workers, so all have run it.
LEMMA ReturnKeeps ==
    ASSUME IInv, NEW c \in Call, Return(c), TypeOK'
    PROVE  IInv' /\ StubsKept
  <1> USE DEF IInv, Core
  <1>1. /\ call[c] = "waiting" /\ joined[c] >= N /\ N \in Nat
        /\ call' = [call EXCEPT ![c] = "true"]
        /\ UNCHANGED <<next, msgs, itcpCb, mailbox, wmsgMgr, wmsgs, witcpCb, joined>>
        /\ UNCHANGED <<guarded, pdus>>
    BY MsgMgrAssumption DEF MsgMgrAssumption, Return, JoinedAll
  <1>2. call'[c] = "true" /\ \A d \in Call : d # c => call'[d] = call[d]
    BY <1>1 DEF TypeOK
  <1>3. UnderWay(c) /\ \A d \in Call : d # c => ~UnderWay(d)
    BY <1>1 DEF UnderWay, CallInv
  <1>4. \A d \in Call : ~UnderWay(d)'
    BY <1>2, <1>3 DEF UnderWay
  <1>5. Ran = Worker
    <2>1. joined[c] = Cardinality(Ran) /\ Cardinality(Ran) <= N
      BY <1>3, RanFinite, FS_Subset DEF JoinInv
    <2>2. Cardinality(Ran) = Cardinality(Worker)
      BY <1>1, <2>1, RanFinite
    <2> QED BY <2>2, RanFinite, FS_Subset
  <1>6. \A w \in Worker : mailbox[w] = <<>> /\ Synced(w) /\ wmsgMgr[w]
    BY <1>3, <1>5 DEF Ran, SyncInv
  <1>7. CallInv'
    <2>1. \A d \in Call : call'[d] # "waiting"
      BY <1>4 DEF UnderWay
    <2> QED BY <1>1, <1>4, <1>6, <2>1 DEF CallInv
  <1>8. JoinInv'
    BY <1>1, <1>2, <1>4 DEF JoinInv
  <1>9. SyncInv'
    <2>1. \A w \in Worker : Synced(w)'
      BY <1>1, <1>6 DEF Synced
    <2> QED BY <1>1, <1>4, <1>6, <2>1 DEF SyncInv
  <1>10. /\ \A d \in Call : UnderWay(d)' => UnderWay(d)
         /\ \A d \in Call : call'[d] = "true" => UnderWay(d) \/ call[d] = "true"
    BY <1>2, <1>3, <1>4
  <1>11. StubInv' /\ RegisteredIsKnown' /\ InterceptedFromTheStart'
    BY <1>1, <1>10, CallsKeepStubInv
  <1> QED BY <1>1, <1>7, <1>8, <1>9, <1>11 DEF StubsKept

\* A call that is turned down changes nothing else.
LEMMA RegDuplicateKeeps ==
    ASSUME IInv, NEW c \in Reg, RegDuplicate(c), TypeOK'
    PROVE  IInv' /\ StubsKept
  <1> USE DEF IInv, Core
  <1>1. /\ c \in Call /\ call[c] = "idle" /\ Quiet
        /\ call' = [call EXCEPT ![c] = "false"]
        /\ UNCHANGED <<next, msgs, itcpCb, mailbox, wmsgMgr, wmsgs, witcpCb, joined>>
        /\ UNCHANGED <<guarded, pdus>>
    BY RegFacts DEF RegDuplicate
  <1>2. call'[c] = "false" /\ \A d \in Call : d # c => call'[d] = call[d]
    BY <1>1 DEF TypeOK
  <1>3. \A d \in Call : ~UnderWay(d) /\ ~UnderWay(d)'
    BY <1>1, <1>2 DEF UnderWay, Quiet
  <1>4. CallInv'
    <2>1. \A d \in Call : call'[d] # "waiting"
      BY <1>3 DEF UnderWay
    <2> QED BY <1>1, <1>3, <2>1 DEF CallInv
  <1>5. JoinInv'
    BY <1>1, <1>2, <1>3 DEF JoinInv
  <1>6. SyncInv'
    <2>1. \A w \in Worker : Synced(w)'
      BY <1>1 DEF SyncInv, Synced
    <2>2. \A d \in Call : call'[d] = "true" => call[d] = "true"
      BY <1>2
    <2> QED BY <1>1, <1>3, <2>1, <2>2 DEF SyncInv
  <1>7. /\ \A d \in Call : UnderWay(d)' => UnderWay(d)
        /\ \A d \in Call : call'[d] = "true" => UnderWay(d) \/ call[d] = "true"
    BY <1>2, <1>3
  <1>8. StubInv' /\ RegisteredIsKnown' /\ InterceptedFromTheStart'
    BY <1>1, <1>7, CallsKeepStubInv
  <1> QED BY <1>1, <1>4, <1>5, <1>6, <1>8 DEF StubsKept

-----------------------------------------------------------------------------
(* The workers.                                                            *)

\* A worker that runs the future of the call under way catches up with the
\* manager, and is counted.
LEMMA RunFutureKeeps ==
    ASSUME IInv, NEW w \in Worker, RunFuture(w), TypeOK'
    PROVE  IInv' /\ StubsKept
  <1> USE DEF IInv, Core
  <1>0. PICK c \in Call : UnderWay(c) /\ w < next /\ mailbox[w] = <<c>>
    BY DEF RunFuture, CallInv
  <1>1. Head(mailbox[w]) = c /\ Tail(mailbox[w]) = <<>> /\ mailbox[w] # <<>>
    BY <1>0
  <1>2. /\ mailbox' = [mailbox EXCEPT ![w] = <<>>]
        /\ wmsgMgr' = [wmsgMgr EXCEPT ![w] = TRUE]
        /\ joined' = [joined EXCEPT ![c] = @ + 1]
        /\ (c \in Reg /\ CopyMsg(w, c)) \/ (c \in Itcp /\ CopyItcp(w, c))
        /\ UNCHANGED <<call, next, msgs, itcpCb>>
        /\ UNCHANGED <<guarded, pdus>>
    BY <1>1 DEF RunFuture
  <1>3. /\ \A d \in Call : UnderWay(d)' <=> UnderWay(d)
        /\ \A d \in Call : UnderWay(d) => d = c
    BY <1>0, <1>2 DEF UnderWay, CallInv
  <1>4. /\ mailbox'[w] = <<>> /\ wmsgMgr'[w]
        /\ \A v \in Worker : v # w =>
              mailbox'[v] = mailbox[v] /\ wmsgMgr'[v] = wmsgMgr[v]
    BY <1>2 DEF TypeOK
  <1>5. w \notin Ran /\ Ran' = Ran \cup {w}
    <2>1. mailbox[w] # <<>>
      BY <1>1
    <2> QED BY <1>0, <1>2, <1>4, <2>1 DEF Ran
  <1>6. Behind(w, c)
    BY <1>0, <1>5 DEF SyncInv
  <1>7. /\ Synced(w)'
        /\ \A v \in Worker : v # w => wmsgs'[v] = wmsgs[v] /\ witcpCb'[v] = witcpCb[v]
        /\ \A m \in Name : wmsgs[w][m] # None => wmsgs'[w][m] = wmsgs[w][m]
        /\ witcpCb[w] # None => witcpCb'[w] # None
    <2>1. CASE c \in Reg /\ CopyMsg(w, c)
      <3>1. /\ wmsgs[w] = [msgs EXCEPT ![Named(c)] = None] /\ witcpCb[w] = itcpCb
            /\ msgs[Named(c)] = c /\ Named(c) \in Name
        BY <1>0, <1>6, <2>1, RegFacts DEF Behind, StubInv
      <3>2. /\ wmsgs' = [wmsgs EXCEPT ![w] = [wmsgs[w] EXCEPT ![Named(c)] = c]]
            /\ witcpCb' = witcpCb
        BY <2>1 DEF CopyMsg
      <3>3. wmsgs'[w] = [wmsgs[w] EXCEPT ![Named(c)] = c]
        BY <3>2 DEF TypeOK
      <3>4. wmsgs'[w] = msgs
        BY <3>1, <3>3 DEF TypeOK
      <3>5. \A m \in Name : wmsgs[w][m] # None => wmsgs'[w][m] = wmsgs[w][m]
        BY <3>1, <3>4 DEF TypeOK
      <3> QED BY <1>2, <3>1, <3>2, <3>4, <3>5 DEF Synced, TypeOK
    <2>2. CASE c \in Itcp /\ CopyItcp(w, c)
      <3>1. wmsgs[w] = msgs /\ itcpCb = c /\ c # None
        <4>1. wmsgs[w] = msgs
          BY <1>6, <2>2, RegFacts DEF Behind
        <4> QED BY <4>1, <2>2, <1>0, MsgMgrAssumption DEF MsgMgrAssumption, StubInv, Call
      <3> QED BY <1>2, <2>2, <3>1 DEF CopyItcp, Synced, TypeOK
    <2> QED BY <1>2, <2>1, <2>2
  <1>8. CallInv'
    BY <1>2, <1>3, <1>4 DEF CallInv
  <1>9. JoinInv'
    <2>1. Cardinality(Ran') = Cardinality(Ran) + 1
      BY <1>5, RanFinite, FS_AddElement
    <2>2. joined'[c] = joined[c] + 1 /\ \A d \in Call : d # c => joined'[d] = joined[d]
      BY <1>2 DEF TypeOK
    <2>3. call[c] # "idle"
      BY <1>0 DEF UnderWay
    <2> QED BY <1>0, <1>2, <1>3, <2>1, <2>2, <2>3 DEF JoinInv
  <1>10. SyncInv'
    <2>1. \A v \in Worker : v # w => (v \in Ran' <=> v \in Ran)
      BY <1>5
    <2>2. \A v \in Worker : v # w => /\ Behind(v, c)' <=> Behind(v, c)
                                     /\ Synced(v)' <=> Synced(v)
      BY <1>2, <1>7 DEF Behind, Synced
    <2>3. ~Quiet'
      BY <1>0, <1>3 DEF Quiet
    <2> QED BY <1>2, <1>3, <1>4, <1>5, <1>7, <2>1, <2>2, <2>3 DEF SyncInv
  <1>11. StubInv' /\ RegisteredIsKnown' /\ InterceptedFromTheStart'
    <2>1. (\A v \in Worker : witcpCb[v] # None) => \A v \in Worker : witcpCb'[v] # None
      BY <1>7
    <2>2. StubInv'
      BY <1>2, <1>3, <2>1, RegFacts DEF StubInv, pdus, Call
    <2> QED BY <1>2, <2>2 DEF RegisteredIsKnown, InterceptedFromTheStart, pdus
  <1>12. StubsKept
    BY <1>7 DEF StubsKept
  <1> QED BY <1>8, <1>9, <1>10, <1>11, <1>12

\* A PDU is handled with the stub the manager has for its name, and is not known
\* only where no call that registered one has returned.
LEMMA PduKeeps ==
    ASSUME IInv, NEW w \in Worker, EvnPdu(w), TypeOK'
    PROVE  IInv' /\ StubsKept
  <1> USE DEF IInv, Core
  <1>1. UNCHANGED core /\ UNCHANGED guarded
    BY DEF EvnPdu, PduUnknown, PduHandled, core
  <1>2. CallInv' /\ JoinInv' /\ SyncInv'
    <2>1. Ran' = Ran
      BY <1>1 DEF Ran, core
    <2>2. \A c \in Call : UnderWay(c)' <=> UnderWay(c)
      BY <1>1 DEF UnderWay, core
    <2>3. CallInv' /\ JoinInv'
      BY <1>1, <2>1, <2>2 DEF CallInv, JoinInv, core
    <2>4. Quiet' <=> Quiet
      BY <2>2 DEF Quiet
    <2> QED BY <1>1, <2>1, <2>2, <2>3, <2>4 DEF SyncInv, Synced, Behind, core
  <1>3. \A m \in Name : \/ wmsgs[w][m] = msgs[m]
                       \/ /\ wmsgs[w][m] = None
                          /\ \A c \in Reg : Named(c) = m => call[c] # "true"
    <2> SUFFICES ASSUME NEW m \in Name, wmsgs[w][m] # msgs[m]
                 PROVE  /\ wmsgs[w][m] = None
                        /\ \A c \in Reg : Named(c) = m => call[c] # "true"
      OBVIOUS
    <2>1. PICK d \in Call : UnderWay(d) /\ Behind(w, d)
      BY DEF SyncInv, Quiet, Synced
    <2>2. d \in Reg /\ wmsgs[w] = [msgs EXCEPT ![Named(d)] = None]
      BY <2>1 DEF Behind
    <2>3. m = Named(d) /\ wmsgs[w][m] = None /\ msgs[m] = d
      BY <2>1, <2>2 DEF StubInv, TypeOK
    <2>4. call[d] # "true"
      BY <2>1 DEF UnderWay
    <2> QED BY <2>3, <2>4 DEF StubInv
  <1>4. CASE \E m \in Name : PduUnknown(w, m)
    <2>1. PICK m \in Name : PduUnknown(w, m)
      BY <1>4
    <2>2. \A c \in Reg : Named(c) = m => call[c] # "true"
      <3>1. CASE ~wmsgMgr[w]
        BY <3>1, RegFacts DEF SyncInv
      <3>2. CASE MsgStub(w, m) = None
        BY <3>2, <1>3, RegFacts DEF MsgStub, StubInv
      <3> QED BY <2>1, <3>1, <3>2 DEF PduUnknown
    <2>3. UNCHANGED <<handled, unchecked, missed>>
      BY <2>1, <2>2 DEF PduUnknown, RegisteredIsKnown
    <2>4. StubInv'
      BY <1>1, <2>3 DEF StubInv, UnderWay, core
    <2> QED BY <1>1, <1>2, <2>3, <2>4
            DEF RegisteredIsKnown, InterceptedFromTheStart, StubsKept, core
  <1>5. CASE \E m \in Name, op \in {"begin", "uni"}, usr \in BOOLEAN :
                PduHandled(w, m, op, usr)
    <2>1. PICK m \in Name, op \in {"begin", "uni"}, usr \in BOOLEAN :
              PduHandled(w, m, op, usr)
      BY <1>5
    <2> DEFINE c == MsgStub(w, m)
    <2>2. /\ c # None /\ handled' = handled \cup {c}
          /\ unchecked' = IF witcpCb[w] = None THEN unchecked \cup {c} ELSE unchecked
          /\ missed' = missed
      BY <2>1 DEF PduHandled
    <2>3. c = msgs[m] /\ Named(c) = m /\ msgs[Named(c)] = c
      BY <1>3, <2>2 DEF MsgStub, StubInv
    <2> HIDE DEF c
    <2>4. StubInv'
      <3>1. \A d \in handled' : msgs'[Named(d)] = d
        BY <1>1, <2>2, <2>3 DEF StubInv, core
      <3>2. unchecked' \subseteq handled'
        BY <2>2 DEF StubInv
      <3>3. \A d \in Call : UnderWay(d)' <=> UnderWay(d)
        BY <1>1 DEF UnderWay, core
      <3> QED BY <1>1, <3>1, <3>2, <3>3, RegFacts DEF StubInv, core, Call
    <2>5. InterceptedFromTheStart'
      BY <1>1, <2>2 DEF InterceptedFromTheStart, StubInv
    <2> QED BY <1>1, <1>2, <2>2, <2>4, <2>5 DEF RegisteredIsKnown, StubsKept, core
  <1> QED BY <1>4, <1>5 DEF EvnPdu

-----------------------------------------------------------------------------
\* Every step keeps the inductive invariant and every stub a worker has.
LEMMA NextKeeps ==
    ASSUME IInv, [Next]_vars
    PROVE  IInv' /\ StubsKept
  <1>1. TypeOK'
    BY NextTypeOK DEF IInv, Core
  <1>2. CASE \E c \in Reg : RegDuplicate(c) \/ RegStart(c)
    BY <1>1, <1>2, RegDuplicateKeeps, RegStartKeeps
  <1>3. CASE \E c \in Itcp : SetItcpStart(c)
    BY <1>1, <1>3, SetItcpStartKeeps
  <1>4. CASE \E c \in Call : Caller(c)
    BY <1>1, <1>4, PostKeeps, WaitKeeps, ReturnKeeps DEF Caller
  <1>5. CASE \E w \in Worker : RunFuture(w) \/ EvnPdu(w)
    BY <1>1, <1>5, RunFutureKeeps, PduKeeps
  <1>6. CASE UNCHANGED vars
    <2>1. Ran' = Ran
      BY <1>6 DEF Ran, vars
    <2>2. CallInv' /\ JoinInv'
      BY <1>6, <2>1 DEF IInv, Core, CallInv, JoinInv, UnderWay, vars
    <2>3. SyncInv'
      BY <1>6, <2>1 DEF IInv, Core, SyncInv, Synced, Behind, Quiet, UnderWay, vars
    <2>4. StubInv' /\ RegisteredIsKnown' /\ InterceptedFromTheStart'
      BY <1>6 DEF IInv, Core, StubInv, UnderWay, RegisteredIsKnown,
                  InterceptedFromTheStart, vars, pdus
    <2>5. StubsKept
      BY <1>6 DEF StubsKept, vars
    <2> QED BY <1>1, <2>2, <2>3, <2>4, <2>5 DEF IInv, Core
  <1> QED BY <1>2, <1>3, <1>4, <1>5, <1>6 DEF Next

\* In every reachable state the workers' managers are copies of the application's
\* but for the change of the call under way, which the join counter counts.
THEOREM Invariance == Spec => []IInv
  <1>1. IInv /\ [Next]_vars => IInv'
    BY NextKeeps
  <1> QED BY <1>1, InitIInv, PTL DEF Spec

\* Once reg() and setItcp() have returned, all workers have what was set.
THEOREM Copied == Spec => []WorkersCopyWhenQuiet
  <1>1. IInv => WorkersCopyWhenQuiet
    BY DEF IInv, Core, SyncInv, Synced, WorkersCopyWhenQuiet
  <1> QED BY <1>1, Invariance, PTL

\* No two PDUs of a message are ever handled with different stubs.
THEOREM Alike == Spec => []HandledAlike
  <1>1. IInv => HandledAlike
    BY DEF IInv, Core, StubInv, HandledAlike
  <1> QED BY <1>1, Invariance, PTL

\* No PDU of a message whose registration has returned is refused as unknown.
THEOREM Known == Spec => []RegisteredIsKnown
  <1>1. IInv => RegisteredIsKnown
    BY DEF IInv
  <1> QED BY <1>1, Invariance, PTL

\* No stub registered after an interceptor handles a PDU none has seen.
THEOREM Intercepted == Spec => []InterceptedFromTheStart
  <1>1. IInv => InterceptedFromTheStart
    BY DEF IInv
  <1> QED BY <1>1, Invariance, PTL

\* A worker's stub for a message is never replaced.
THEOREM StubsStay == Spec => StubStays
  <1>1. IInv /\ [Next]_vars => [StubsKept]_vars
    BY NextKeeps
  <1> QED BY <1>1, Invariance, PTL DEF Spec, StubStays, StubsKept
=============================================================================
