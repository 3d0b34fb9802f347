----------------------- MODULE XmsgImChannelProofs -----------------------
(***************************************************************************)
(* Theorems about XmsgImChannel, for every channel class, every number of  *)
(* transactions, every size of the id counter and every timeout.           *)
(***************************************************************************)
EXTENDS XmsgImChannel, SequenceTheorems, TLAPS

-----------------------------------------------------------------------------
(* Helpers of the model.                                                   *)

\* GenTid stays in the range of the unsigned counter.
LEMMA GenTidInRange ==
    ASSUME tidSeq \in Tid
    PROVE  GenTid \in Tid
  BY ChannelAssumption DEF ChannelAssumption, GenTid, Tid

\* What is in the table is a transaction, and not the empty slot.
LEMMA InTableTrans ==
    ASSUME transInit \in [Tid -> Trans \cup {NoTrans}]
    PROVE  /\ InTable \subseteq Trans
           /\ \A i \in Tid : transInit[i] # NoTrans => transInit[i] \in InTable
  BY DEF InTable

\* Erasing from the table leaves a table.
LEMMA WithoutType ==
    ASSUME transInit \in [Tid -> Trans \cup {NoTrans}], NEW S
    PROVE  Without(S) \in [Tid -> Trans \cup {NoTrans}]
  BY DEF Without

\* Ending the transactions of S keeps outcomes and callback counts well typed.
LEMMA FinishType ==
    ASSUME outcome \in [Trans -> {"unborn", "open"} \cup Outcomes],
           cbs \in [Trans -> Nat],
           NEW S, NEW told, \A t \in S : told[t] \in Outcomes,
           Finish(S, told)
    PROVE  /\ outcome' \in [Trans -> {"unborn", "open"} \cup Outcomes]
           /\ cbs' \in [Trans -> Nat]
  BY DEF Finish

\* Closing the channel keeps what it touches well typed.
LEMMA CloseType ==
    ASSUME TypeOK, NEW E \in SUBSET Trans, CloseChannel(E)
    PROVE  /\ est' \in BOOLEAN
           /\ lazy' \in BOOLEAN
           /\ transInit' \in [Tid -> Trans \cup {NoTrans}]
           /\ outcome' \in [Trans -> {"unborn", "open"} \cup Outcomes]
           /\ cbs' \in [Trans -> Nat]
           /\ carrier' \in [Trans \cup Pass -> {"none", "current", "gone"}]
  <1> DEFINE cleaned == IF CleansTrans THEN InTable \ E ELSE {}
             told == [t \in E \cup cleaned |-> IF t \in E THEN "exception" ELSE "clean"]
  <1>1. /\ est' = FALSE
        /\ lazy' = FALSE
        /\ transInit' = Without(E \cup cleaned)
        /\ Finish(E \cup cleaned, told)
        /\ carrier' = [x \in Trans \cup Pass |->
                          IF carrier[x] = "current" THEN "gone" ELSE carrier[x]]
    BY DEF CloseChannel
  <1>2. \A t \in E \cup cleaned : told[t] \in Outcomes
    BY DEF Outcomes
  <1> HIDE DEF cleaned, told
  <1>3. transInit' \in [Tid -> Trans \cup {NoTrans}]
    BY <1>1, WithoutType DEF TypeOK
  <1>4. /\ outcome' \in [Trans -> {"unborn", "open"} \cup Outcomes]
        /\ cbs' \in [Trans -> Nat]
    BY <1>1, <1>2, FinishType DEF TypeOK
  <1>5. carrier' \in [Trans \cup Pass -> {"none", "current", "gone"}]
    BY <1>1 DEF TypeOK
  <1> QED BY <1>1, <1>3, <1>4, <1>5

\* A PDU put into the write buffer keeps it well typed.
LEMMA SendType ==
    ASSUME out \in Seq(Pdu), NEW op, NEW x, [op |-> op, of |-> x] \in Task,
           SendPdu(op, x)
    PROVE  out' \in Seq(Pdu)
  BY AppendProperties DEF SendPdu, Pdu

-----------------------------------------------------------------------------
(* Type correctness.                                                       *)

\* The initial state has the types.
LEMMA InitTypeOK == Init => TypeOK
  <1> SUFFICES ASSUME Init PROVE TypeOK
    OBVIOUS
  <1> USE ChannelAssumption DEF ChannelAssumption, Init
  <1>1. 0 \in Tid /\ 0 \in 0 .. TransTimeout /\ 0 \in 0 .. CheckPeriod
    BY DEF Tid
  <1>2. mailbox \in Seq(Task) /\ out \in Seq(Pdu)
    OBVIOUS
  <1>3. sinceCheck \in {Never} \cup 0 .. CheckPeriod
    BY <1>1
  <1> QED BY <1>1, <1>2, <1>3 DEF TypeOK, Ret

\* The steps of application threads.
LEMMA ApplicationTypeOK ==
    ASSUME TypeOK, Application
    PROVE  TypeOK'
  <1>1. ASSUME NEW t \in Trans, Begin(t)
        PROVE  TypeOK'
    <2>1. [op |-> "begin", of |-> t] \in Task
      BY DEF Task
    <2>2. mailbox' \in Seq(Task)
      BY <1>1, <2>1, AppendProperties DEF Begin, Post, TypeOK
    <2> QED BY <1>1, <2>2 DEF Begin, TypeOK, app, hist
  <1>2. ASSUME NEW u \in Uni, Unidirection(u)
        PROVE  TypeOK'
    <2>1. [op |-> "uni", of |-> u] \in Task
      BY DEF Task
    <2>2. mailbox' \in Seq(Task)
      BY <1>2, <2>1, AppendProperties DEF Unidirection, Post, TypeOK
    <2> QED BY <1>2, <2>2 DEF Unidirection, TypeOK, app, hist
  <1>3. ASSUME NEW p \in Pass, NEW r \in Ret, NEW lz \in BOOLEAN, End(p, r, lz)
        PROVE  TypeOK'
    <2>1. [op |-> "end", of |-> p] \in Task
      BY DEF Task
    <2>2. mailbox' \in Seq(Task)
      BY <1>3, <2>1, AppendProperties DEF End, Post, TypeOK
    <2> QED BY <1>3, <2>2 DEF End, TypeOK, app, hist
  <1> QED BY <1>1, <1>2, <1>3 DEF Application

\* The futures.
LEMMA RunFutureTypeOK ==
    ASSUME TypeOK, RunFuture
    PROVE  TypeOK'
  <1> DEFINE task == Head(mailbox)
  <1>1. /\ task \in Task
        /\ mailbox' \in Seq(Task)
    BY HeadTailProperties DEF RunFuture, TypeOK
  <1>2. CASE task.op = "begin" /\ FutureBegin(task.of)
    <2>1. task.of \in Trans /\ [op |-> "begin", of |-> task.of] \in Task
      BY <1>1, <1>2 DEF Task
    <2>2. out' \in Seq(Pdu)
      BY <1>2, <2>1, SendType DEF FutureBegin, SendBegin, TypeOK
    <2>3. GenTid \in Tid
      BY GenTidInRange DEF TypeOK
    <2> HIDE DEF task
    <2> QED BY <1>1, <1>2, <2>1, <2>2, <2>3 DEF FutureBegin, TypeOK, app
  <1>3. CASE task.op = "uni" /\ FutureUnidirection(task.of)
    <2>1. [op |-> "uni", of |-> task.of] \in Task
      BY <1>1, <1>3 DEF Task
    <2>2. out' \in Seq(Pdu)
      BY <1>3, <2>1, SendType DEF FutureUnidirection, SendUnidirection, TypeOK
    <2> HIDE DEF task
    <2> QED BY <1>1, <1>3, <2>2 DEF FutureUnidirection, TypeOK, app, hist
  <1>4. CASE /\ task.op = "end"
             /\ EndUnsent(task.of) \/ EndFailure(task.of) \/ EndReply(task.of)
    <2>1. task.of \in Pass /\ [op |-> "end", of |-> task.of] \in Task
      BY <1>1, <1>4 DEF Task
    <2> HIDE DEF task
    <2>2. CASE EndUnsent(task.of)
      BY <1>1, <2>1, <2>2 DEF EndUnsent, TypeOK, app, hist
    <2>3. CASE EndFailure(task.of) /\ ~lazyClose[task.of]
      <3>1. CloseChannel({}) /\ UNCHANGED <<issued, ord>>
        BY <2>3 DEF EndFailure
      <3>2. {} \in SUBSET Trans
        OBVIOUS
      <3> QED BY <1>1, <2>1, <2>3, <3>1, <3>2, CloseType DEF EndFailure, TypeOK, app
    <2>4. CASE EndFailure(task.of) /\ lazyClose[task.of]
      BY <1>1, <2>1, <2>4 DEF EndFailure, TypeOK, app, hist
    <2>5. CASE EndReply(task.of)
      <3>1. out' \in Seq(Pdu)
        BY <2>1, <2>5, SendType DEF EndReply, SendEnd, TypeOK
      <3> QED BY <1>1, <2>1, <2>5, <3>1 DEF EndReply, TypeOK, app, hist
    <2> QED BY <1>4, <2>2, <2>3, <2>4, <2>5
  <1> QED BY <1>2, <1>3, <1>4 DEF RunFuture

\* What the peer sends.
LEMMA ReceiveTypeOK ==
    ASSUME TypeOK, Receive
    PROVE  TypeOK'
  <1>1. ASSUME NEW dtid \in Tid, NEW reflects \in BOOLEAN, EvnEnd(dtid, reflects)
        PROVE  TypeOK'
    <2> DEFINE t == transInit[dtid]
    <2>1. t \in Trans
      BY <1>1 DEF EvnEnd, TypeOK
    <2>2. CASE reflects
      <3> DEFINE told == [x \in {t} |-> "answered"]
      <3>1. transInit' = Erase(dtid) /\ Finish({t}, told) /\ UNCHANGED <<est, lazy, carrier>>
        BY <1>1, <2>2 DEF EvnEnd
      <3>2. \A x \in {t} : told[x] \in Outcomes
        BY DEF Outcomes
      <3>3. transInit' \in [Tid -> Trans \cup {NoTrans}]
        BY <3>1 DEF Erase, TypeOK
      <3> HIDE DEF t, told
      <3>4. /\ outcome' \in [Trans -> {"unborn", "open"} \cup Outcomes]
            /\ cbs' \in [Trans -> Nat]
        BY <3>1, <3>2, FinishType DEF TypeOK
      <3> QED BY <1>1, <3>1, <3>3, <3>4 DEF EvnEnd, TypeOK, app
    <2>3. CASE ~reflects
      <3>1. CloseChannel({t}) /\ {t} \in SUBSET Trans
        BY <1>1, <2>1, <2>3 DEF EvnEnd
      <3> HIDE DEF t
      <3> QED BY <1>1, <3>1, CloseType DEF EvnEnd, TypeOK, app
    <2> QED BY <2>2, <2>3
  <1>2. ASSUME NEW p \in Pass, NEW stub, NEW reflects, NEW usr,
               EvnBegin(p, stub, reflects, usr)
        PROVE  TypeOK'
    BY <1>2 DEF EvnBegin, TypeOK, app
  <1>3. ASSUME NEW stub, NEW reflects, NEW usr, EvnReject(stub, reflects, usr)
        PROVE  TypeOK'
    <2>1. CloseChannel({}) /\ {} \in SUBSET Trans
      BY <1>3 DEF EvnReject
    <2> QED BY <1>3, <2>1, CloseType DEF EvnReject, TypeOK, app
  <1> QED BY <1>1, <1>2, <1>3 DEF Receive

\* The timer and the library.
LEMMA WorkerTypeOK ==
    ASSUME TypeOK, Dida \/ Lost \/ LazyClosed \/ Establish \/ Flush \/ Tick
    PROVE  TypeOK'
  <1>1. CASE Dida
    <2> DEFINE told == [t \in Overdue |-> "timeout"]
    <2>1. /\ sinceCheck' = 0
          /\ transInit' = Without(Overdue)
          /\ Finish(Overdue, told)
      BY <1>1 DEF Dida, CheckTransInit
    <2>2. \A t \in Overdue : told[t] \in Outcomes
      BY DEF Outcomes
    <2>3. transInit' \in [Tid -> Trans \cup {NoTrans}]
      BY <2>1, WithoutType DEF TypeOK
    <2> HIDE DEF told
    <2>4. /\ outcome' \in [Trans -> {"unborn", "open"} \cup Outcomes]
          /\ cbs' \in [Trans -> Nat]
      BY <2>1, <2>2, FinishType DEF TypeOK
    <2> QED BY <1>1, <2>1, <2>3, <2>4, ChannelAssumption DEF ChannelAssumption, Dida, TypeOK, app
  <1>2. CASE Lost \/ LazyClosed
    <2>1. CloseChannel({}) /\ {} \in SUBSET Trans
      BY <1>2 DEF Lost, LazyClosed
    <2> QED BY <1>2, <2>1, CloseType DEF Lost, LazyClosed, TypeOK, app
  <1>3. CASE Establish
    BY <1>3 DEF Establish, TypeOK, app, hist
  <1>4. CASE Flush
    <2>1. out' \in Seq(Pdu)
      BY <1>4, HeadTailProperties DEF Flush, TypeOK
    <2> QED BY <1>4, <2>1 DEF Flush, TypeOK, app, hist
  <1>5. CASE Tick
    <2>1. sinceCheck' \in {Never} \cup 0 .. CheckPeriod
      BY <1>5, ChannelAssumption DEF ChannelAssumption, Tick, TypeOK, Never
    <2>2. age' \in [Trans -> 0 .. TransTimeout]
      BY <1>5, ChannelAssumption DEF ChannelAssumption, Tick, Older, TypeOK
    <2> QED BY <1>5, <2>1, <2>2 DEF Tick, TypeOK, app, hist
  <1> QED BY <1>1, <1>2, <1>3, <1>4, <1>5

\* Every step keeps the types.
LEMMA NextTypeOK ==
    ASSUME TypeOK, [Next]_vars
    PROVE  TypeOK'
  <1>1. CASE UNCHANGED vars
    BY <1>1 DEF vars, app, hist, TypeOK
  <1> QED BY <1>1, ApplicationTypeOK, RunFutureTypeOK, ReceiveTypeOK, WorkerTypeOK
          DEF Next

\* Whatever its class and however many transactions it carries, a channel keeps
\* its ids inside the unsigned counter and its tables well formed.
THEOREM TypeCorrect == Spec => []TypeOK
  BY InitTypeOK, NextTypeOK, PTL DEF Spec

-----------------------------------------------------------------------------
(* The inductive invariant.  A begun transaction goes from the mailbox to   *)
(* the table and from there to its callback, and is never in two places.    *)

QueueInv ==
    \A i \in DOMAIN mailbox : mailbox[i].op = "begin" =>
        /\ outcome[mailbox[i].of] = "open"
        /\ mailbox[i].of \notin InTable
        /\ \A j \in DOMAIN mailbox : mailbox[j] = mailbox[i] => j = i

CallInv == \A t \in Trans : cbs[t] = IF outcome[t] \in Outcomes THEN 1 ELSE 0

IInv ==
    /\ TypeOK
    /\ QueueInv
    /\ TableFollowsCounter
    /\ CallInv
    /\ LostOnlyAfterWrap

\* The mailbox is left alone, or loses a future that is not a begin.
NoBeginTaken ==
    \/ mailbox' = mailbox
    \/ /\ mailbox # <<>>
       /\ Head(mailbox).op # "begin"
       /\ mailbox' = Tail(mailbox)

\* What is in the mailbox after an append was there before, or is what was appended.
LEMMA AppendKeeps ==
    ASSUME mailbox \in Seq(Task), NEW task \in Task, mailbox' = Append(mailbox, task)
    PROVE  \A i \in DOMAIN mailbox' : \/ i \in DOMAIN mailbox /\ mailbox'[i] = mailbox[i]
                                     \/ mailbox'[i] = task
  <1> DEFINE n == Len(mailbox)
  <1>1. /\ n \in Nat
        /\ DOMAIN mailbox = 1 .. n
        /\ DOMAIN mailbox' = 1 .. n + 1
        /\ mailbox'[n + 1] = task
        /\ \A i \in 1 .. n : mailbox'[i] = mailbox[i]
    BY AppendProperties
  <1> HIDE DEF n
  <1>2. \A i \in 1 .. n + 1 : i \in 1 .. n \/ i = n + 1
    BY <1>1
  <1> QED BY <1>1, <1>2

\* Taking the head of the mailbox shifts the rest by one place.
LEMMA TailShift ==
    ASSUME mailbox \in Seq(Task), mailbox # <<>>, mailbox' = Tail(mailbox)
    PROVE  /\ \A i \in DOMAIN mailbox' : i + 1 \in DOMAIN mailbox
                                         /\ mailbox'[i] = mailbox[i + 1]
           /\ \A i \in DOMAIN mailbox : i # 1 => i - 1 \in DOMAIN mailbox'
                                                 /\ mailbox'[i - 1] = mailbox[i]
           /\ 1 \in DOMAIN mailbox
           /\ Head(mailbox) = mailbox[1]
  <1>1. /\ Len(Tail(mailbox)) = Len(mailbox) - 1
        /\ \A i \in 1 .. Len(Tail(mailbox)) : Tail(mailbox)[i] = mailbox[i + 1]
        /\ Tail(mailbox) \in Seq(Task)
    BY HeadTailProperties
  <1>2. Len(mailbox) \in Nat /\ Len(mailbox) # 0
    OBVIOUS
  <1>3. DOMAIN mailbox = 1 .. Len(mailbox) /\ DOMAIN mailbox' = 1 .. (Len(mailbox) - 1)
    BY <1>1
  <1> QED BY <1>1, <1>2, <1>3

\* What the queue promises survives a step that takes no begin from it, puts
\* nothing new into the table and ends only what the table held.
LEMMA QueueKept ==
    ASSUME TypeOK, QueueInv, NoBeginTaken,
           InTable' \subseteq InTable,
           \A t \in Trans : t \notin InTable => outcome'[t] = outcome[t]
    PROVE  /\ QueueInv'
           /\ \A t \in Trans : Queued(t) => Queued(t)'
  <1>1. CASE mailbox' = mailbox
    <2>1. \A i \in DOMAIN mailbox : mailbox[i].op = "begin" => mailbox[i].of \in Trans
      BY DEF TypeOK, Task
    <2> QED BY <1>1, <2>1 DEF QueueInv, Queued
  <1>2. CASE /\ mailbox # <<>>
             /\ Head(mailbox).op # "begin"
             /\ mailbox' = Tail(mailbox)
    <2>1. mailbox \in Seq(Task)
      BY DEF TypeOK
    <2>2. \A i \in DOMAIN mailbox : mailbox[i].op = "begin" => mailbox[i].of \in Trans
      BY <2>1 DEF Task
    <2>3. QueueInv'
      <3> SUFFICES ASSUME NEW i \in DOMAIN mailbox', mailbox'[i].op = "begin"
                   PROVE  /\ outcome'[mailbox'[i].of] = "open"
                          /\ mailbox'[i].of \notin InTable'
                          /\ \A j \in DOMAIN mailbox' : mailbox'[j] = mailbox'[i] => j = i
        BY DEF QueueInv
      <3>1. i \in Int /\ i + 1 \in DOMAIN mailbox /\ mailbox'[i] = mailbox[i + 1]
        BY <1>2, <2>1, TailShift
      <3>2. \A j \in DOMAIN mailbox' :
               j \in Int /\ j + 1 \in DOMAIN mailbox /\ mailbox'[j] = mailbox[j + 1]
        BY <1>2, <2>1, TailShift
      <3> QED BY <2>2, <3>1, <3>2 DEF QueueInv
    <2>4. ASSUME NEW t \in Trans, Queued(t)
          PROVE  Queued(t)'
      <3>1. PICK i \in DOMAIN mailbox : mailbox[i] = [op |-> "begin", of |-> t]
        BY <2>4 DEF Queued
      <3>2. i # 1
        BY <1>2, <2>1, <3>1, TailShift
      <3>3. i - 1 \in DOMAIN mailbox' /\ mailbox'[i - 1] = mailbox[i]
        BY <1>2, <2>1, <3>2, TailShift
      <3> QED BY <3>1, <3>3 DEF Queued
    <2> QED BY <2>3, <2>4
  <1> QED BY <1>1, <1>2 DEF NoBeginTaken

\* Taking transactions out of the table and running their callbacks, which is
\* all an END, the timeout check and clean() do, keeps the invariant.
LEMMA SettleKeeps ==
    ASSUME IInv, TypeOK', NoBeginTaken,
           NEW S \in SUBSET InTable, NEW told, \A t \in S : told[t] \in Outcomes,
           transInit' = Without(S), Finish(S, told),
           UNCHANGED <<tidSeq, stid, issued, ord>>
    PROVE  IInv'
  <1> USE DEF IInv
  <1>1. \A t \in S : t \in Trans /\ outcome[t] = "open"
    BY InTableTrans DEF TableFollowsCounter, InTable, TypeOK
  <1>2. \A i \in Tid : transInit'[i] = IF transInit[i] \in S THEN NoTrans ELSE transInit[i]
    BY DEF Without
  <1>3. InTable' \subseteq InTable
    BY <1>2 DEF InTable
  <1>4. \A t \in Trans : t \notin S => outcome'[t] = outcome[t] /\ cbs'[t] = cbs[t]
    BY DEF Finish
  <1>5. \A t \in S : outcome'[t] \in Outcomes /\ cbs'[t] = cbs[t] + 1
    BY <1>1 DEF Finish
  <1>6. QueueInv' /\ \A t \in Trans : Queued(t) => Queued(t)'
    BY <1>3, <1>4, QueueKept
  <1>7. TableFollowsCounter'
    <2> SUFFICES ASSUME NEW i \in Tid, transInit'[i] # NoTrans
                 PROVE  /\ transInit'[i] = transInit[i]
                        /\ transInit[i] \notin S
                        /\ transInit[i] \in Trans
      BY <1>4 DEF TableFollowsCounter
    <2> QED BY <1>2 DEF TypeOK
  <1>8. CallInv'
    <2> SUFFICES ASSUME NEW t \in Trans
                 PROVE  cbs'[t] = IF outcome'[t] \in Outcomes THEN 1 ELSE 0
      BY DEF CallInv
    <2>1. CASE t \in S
      <3>1. cbs[t] = 0
        BY <1>1, <2>1 DEF CallInv, Outcomes
      <3> QED BY <1>5, <2>1, <3>1
    <2>2. CASE t \notin S
      BY <1>4, <2>2 DEF CallInv
    <2> QED BY <2>1, <2>2
  <1>9. LostOnlyAfterWrap'
    <2> SUFFICES ASSUME NEW t \in Trans, outcome'[t] = "open"
                 PROVE  Queued(t)' \/ transInit'[stid[t]] = t \/ issued - ord[t] > MaxTid
      BY DEF LostOnlyAfterWrap
    <2>1. t \notin S /\ outcome[t] = "open"
      BY <1>4, <1>5 DEF Outcomes
    <2>2. stid[t] \in Tid
      BY DEF TypeOK
    <2> QED BY <1>2, <1>6, <2>1, <2>2 DEF LostOnlyAfterWrap
  <1> QED BY <1>6, <1>7, <1>8, <1>9

\* A step that changes neither the queue, except for a future that is no begin,
\* nor what the transaction layer keeps of initiative transactions.
LEMMA StutterKeeps ==
    ASSUME IInv, TypeOK', NoBeginTaken,
           UNCHANGED <<tidSeq, transInit, stid, outcome, cbs, issued, ord>>
    PROVE  IInv'
  <1> USE DEF IInv
  <1>1. InTable' = InTable
    BY DEF InTable
  <1>2. QueueInv' /\ \A t \in Trans : Queued(t) => Queued(t)'
    BY <1>1, QueueKept
  <1>3. TableFollowsCounter' /\ CallInv'
    BY DEF TableFollowsCounter, CallInv
  <1>4. LostOnlyAfterWrap'
    BY <1>2 DEF LostOnlyAfterWrap
  <1> QED BY <1>2, <1>3, <1>4

\* Closing the channel settles what E took from the table and, on the classes
\* that clean, everything else in it.
LEMMA CloseKeeps ==
    ASSUME IInv, TypeOK', NoBeginTaken, NEW E \in SUBSET InTable, CloseChannel(E),
           UNCHANGED <<tidSeq, stid, issued, ord>>
    PROVE  IInv'
  <1> DEFINE cleaned == IF CleansTrans THEN InTable \ E ELSE {}
             S == E \cup cleaned
             told == [t \in S |-> IF t \in E THEN "exception" ELSE "clean"]
  <1>1. transInit' = Without(S) /\ Finish(S, told)
    BY DEF CloseChannel
  <1>2. S \in SUBSET InTable
    OBVIOUS
  <1>3. \A t \in S : told[t] \in Outcomes
    BY DEF Outcomes
  <1> HIDE DEF S, told
  <1> QED BY <1>1, <1>2, <1>3, SettleKeeps

\* Nothing is begun, queued or pending initially.
LEMMA InitIInv == Init => IInv
  <1> SUFFICES ASSUME Init PROVE IInv
    OBVIOUS
  <1>1. TypeOK
    BY InitTypeOK
  <1>2. QueueInv
    BY DEF Init, QueueInv
  <1>3. TableFollowsCounter /\ LostOnlyAfterWrap
    BY DEF Init, TableFollowsCounter, LostOnlyAfterWrap
  <1>4. CallInv
    BY DEF Init, CallInv, Outcomes
  <1> QED BY <1>1, <1>2, <1>3, <1>4 DEF IInv

\* begin() puts its transaction into the mailbox and nowhere else.
LEMMA BeginKeeps ==
    ASSUME IInv, TypeOK', NEW t \in Trans, Begin(t)
    PROVE  IInv'
  <1> DEFINE task == [op |-> "begin", of |-> t]
  <1> USE DEF IInv
  <1>1. /\ outcome[t] = "unborn"
        /\ outcome' = [outcome EXCEPT ![t] = "open"]
        /\ mailbox' = Append(mailbox, task)
        /\ UNCHANGED <<tidSeq, transInit, stid, cbs, issued, ord>>
    BY DEF Begin, Post, hist
  <1>2. InTable' = InTable
    BY <1>1 DEF InTable
  <1>3. mailbox \in Seq(Task) /\ task \in Task
    BY DEF TypeOK, Task
  <1>4. /\ DOMAIN mailbox = 1 .. Len(mailbox) /\ Len(mailbox) \in Nat
        /\ DOMAIN mailbox' = 1 .. Len(mailbox) + 1
        /\ \A i \in DOMAIN mailbox : mailbox'[i] = mailbox[i]
        /\ mailbox'[Len(mailbox) + 1] = task
    BY <1>1, <1>3, AppendProperties
  <1>5. t \notin InTable
    BY <1>1, InTableTrans DEF TableFollowsCounter, InTable, TypeOK
  <1>6. \A i \in DOMAIN mailbox : mailbox[i].op = "begin" =>
           mailbox[i].of # t /\ mailbox[i].of \in Trans
    BY <1>1, <1>3 DEF QueueInv, Task
  <1> HIDE DEF task
  <1>7. task.op = "begin" /\ task.of = t
    BY DEF task
  <1>8. QueueInv'
    <2> SUFFICES ASSUME NEW i \in DOMAIN mailbox', mailbox'[i].op = "begin"
                 PROVE  /\ outcome'[mailbox'[i].of] = "open"
                        /\ mailbox'[i].of \notin InTable
                        /\ \A j \in DOMAIN mailbox' : mailbox'[j] = mailbox'[i] => j = i
      BY <1>2 DEF QueueInv
    <2>1. CASE i \in DOMAIN mailbox
      BY <1>1, <1>4, <1>6, <1>7, <2>1 DEF QueueInv, TypeOK
    <2>2. CASE i = Len(mailbox) + 1
      BY <1>1, <1>4, <1>5, <1>6, <1>7, <2>2 DEF TypeOK
    <2> QED BY <1>4, <2>1, <2>2
  <1>9. TableFollowsCounter'
    BY <1>1, <1>5, InTableTrans DEF TableFollowsCounter, InTable, TypeOK
  <1>10. CallInv'
    BY <1>1 DEF CallInv, TypeOK, Outcomes
  <1>11. LostOnlyAfterWrap'
    <2> SUFFICES ASSUME NEW x \in Trans, outcome'[x] = "open"
                 PROVE  Queued(x)' \/ transInit[stid[x]] = x \/ issued - ord[x] > MaxTid
      BY <1>1 DEF LostOnlyAfterWrap
    <2>1. CASE x = t
      BY <1>4, <2>1 DEF Queued, task
    <2>2. CASE x # t
      <3>1. Queued(x) => Queued(x)'
        BY <1>4 DEF Queued
      <3> QED BY <1>1, <2>2, <3>1 DEF LostOnlyAfterWrap, TypeOK
    <2> QED BY <2>1, <2>2
  <1> QED BY <1>8, <1>9, <1>10, <1>11

\* unidirection() and end() post a future that is no begin.
LEMMA OtherPostKeeps ==
    ASSUME IInv, TypeOK', NEW op, NEW x, op # "begin", [op |-> op, of |-> x] \in Task,
           Post(op, x),
           UNCHANGED <<tidSeq, transInit, stid, outcome, cbs, issued, ord>>
    PROVE  IInv'
  <1> DEFINE task == [op |-> op, of |-> x]
  <1> USE DEF IInv
  <1>1. InTable' = InTable
    BY DEF InTable
  <1>2. /\ DOMAIN mailbox = 1 .. Len(mailbox) /\ Len(mailbox) \in Nat
        /\ DOMAIN mailbox' = 1 .. Len(mailbox) + 1
        /\ \A i \in DOMAIN mailbox : mailbox'[i] = mailbox[i]
        /\ mailbox'[Len(mailbox) + 1] = task
    BY AppendProperties DEF Post, TypeOK
  <1>3. task.op # "begin"
    OBVIOUS
  <1> HIDE DEF task
  <1>4. \A i \in DOMAIN mailbox' : mailbox'[i].op = "begin" => i \in DOMAIN mailbox
    BY <1>2, <1>3
  <1>5. QueueInv'
    BY <1>1, <1>2, <1>4 DEF QueueInv
  <1>6. \A t \in Trans : Queued(t) => Queued(t)'
    BY <1>2 DEF Queued
  <1>7. TableFollowsCounter' /\ CallInv'
    BY DEF TableFollowsCounter, CallInv
  <1>8. LostOnlyAfterWrap'
    BY <1>6 DEF LostOnlyAfterWrap
  <1> QED BY <1>5, <1>7, <1>8

\* The arithmetic of the unsigned counter: a slot whose id was generated k ids
\* ago is the next to be taken exactly when k = MaxTid, and otherwise lies k + 1
\* ids behind once the counter has moved.
LEMMA CounterStep ==
    ASSUME tidSeq \in Tid, NEW i \in Tid, NEW k \in 0 .. MaxTid,
           i + k \in {tidSeq, tidSeq + MaxTid + 1}
    PROVE  /\ i = GenTid => k = MaxTid
           /\ i # GenTid => /\ k + 1 <= MaxTid
                            /\ i + (k + 1) \in {GenTid, GenTid + MaxTid + 1}
  BY ChannelAssumption DEF ChannelAssumption, GenTid, Tid

\* futureBegin moves its transaction from the mailbox to the table; whatever
\* the slot held was begun MaxTid + 1 ids earlier.
LEMMA FutureBeginKeeps ==
    ASSUME IInv, TypeOK', mailbox # <<>>, mailbox' = Tail(mailbox),
           NEW t \in Trans, Head(mailbox) = [op |-> "begin", of |-> t],
           FutureBegin(t)
    PROVE  IInv'
  <1> USE DEF IInv
  <1>1. /\ tidSeq' = GenTid
        /\ stid' = [stid EXCEPT ![t] = GenTid]
        /\ transInit' = [transInit EXCEPT ![GenTid] = t]
        /\ issued' = issued + 1
        /\ ord' = [ord EXCEPT ![t] = issued + 1]
        /\ UNCHANGED <<outcome, cbs>>
    BY DEF FutureBegin
  <1>2. GenTid \in Tid
    BY GenTidInRange DEF TypeOK
  <1>3. mailbox \in Seq(Task)
    BY DEF TypeOK
  <1>4. 1 \in DOMAIN mailbox /\ mailbox[1] = [op |-> "begin", of |-> t]
    BY <1>3, TailShift
  <1>5. /\ outcome[t] = "open"
        /\ t \notin InTable
        /\ \A j \in DOMAIN mailbox : mailbox[j] = mailbox[1] => j = 1
    BY <1>4 DEF QueueInv
  <1>6. \A j \in DOMAIN mailbox :
           mailbox[j].op = "begin" /\ mailbox[j].of = t => j = 1
    <2> SUFFICES ASSUME NEW j \in DOMAIN mailbox,
                        mailbox[j].op = "begin", mailbox[j].of = t
                 PROVE  mailbox[j] = mailbox[1]
      BY <1>5
    <2>1. mailbox[j] \in Task
      BY <1>3
    <2> QED BY <1>4, <2>1 DEF Task
  <1>7. \A i \in Tid : transInit'[i] = IF i = GenTid THEN t ELSE transInit[i]
    BY <1>1, <1>2 DEF TypeOK
  <1>8. InTable' \subseteq InTable \cup {t}
    BY <1>7 DEF InTable
  <1>9. \A i \in Tid : transInit[i] # NoTrans => transInit[i] # t /\ transInit[i] \in Trans
    BY <1>5, InTableTrans DEF TypeOK
  <1>10. QueueInv'
    <2> SUFFICES ASSUME NEW i \in DOMAIN mailbox', mailbox'[i].op = "begin"
                 PROVE  /\ outcome[mailbox'[i].of] = "open"
                        /\ mailbox'[i].of \notin InTable'
                        /\ \A j \in DOMAIN mailbox' : mailbox'[j] = mailbox'[i] => j = i
      BY <1>1 DEF QueueInv
    <2>1. \A j \in DOMAIN mailbox' :
             j \in Nat /\ j # 0 /\ j + 1 \in DOMAIN mailbox /\ mailbox'[j] = mailbox[j + 1]
      <3>1. mailbox' \in Seq(Task)
        BY DEF TypeOK
      <3>2. DOMAIN mailbox' = 1 .. Len(mailbox') /\ Len(mailbox') \in Nat
        BY <3>1
      <3> QED BY <1>3, <3>2, TailShift
    <2>2. mailbox'[i].of # t
      BY <1>6, <2>1
    <2> QED BY <1>8, <2>1, <2>2 DEF QueueInv
  <1>11. ASSUME NEW i \in Tid, transInit[i] # NoTrans
         PROVE  /\ i = GenTid => issued - ord[transInit[i]] = MaxTid
                /\ i # GenTid =>
                      /\ issued + 1 - ord[transInit[i]] <= MaxTid
                      /\ i + (issued + 1 - ord[transInit[i]])
                            \in {GenTid, GenTid + MaxTid + 1}
    <2> DEFINE k == issued - ord[transInit[i]]
    <2>1. /\ issued \in Nat /\ MaxTid \in Nat
          /\ ord[transInit[i]] \in 1 .. issued
          /\ issued - ord[transInit[i]] <= MaxTid
          /\ i + (issued - ord[transInit[i]]) \in {tidSeq, tidSeq + MaxTid + 1}
      BY <1>11, ChannelAssumption DEF ChannelAssumption, TableFollowsCounter, TypeOK
    <2>2. /\ k \in 0 .. MaxTid
          /\ i + k \in {tidSeq, tidSeq + MaxTid + 1}
          /\ k + 1 = issued + 1 - ord[transInit[i]]
      BY <2>1
    <2>3. tidSeq \in Tid
      BY DEF TypeOK
    <2> HIDE DEF k
    <2>4. /\ i = GenTid => k = MaxTid
          /\ i # GenTid => /\ k + 1 <= MaxTid
                           /\ i + (k + 1) \in {GenTid, GenTid + MaxTid + 1}
      BY <2>2, <2>3, CounterStep
    <2> QED BY <2>2, <2>4 DEF k
  <1>12. TableFollowsCounter'
    <2> SUFFICES ASSUME NEW i \in Tid, transInit'[i] # NoTrans
                 PROVE  /\ stid'[transInit'[i]] = i
                        /\ outcome'[transInit'[i]] = "open"
                        /\ ord'[transInit'[i]] \in 1 .. issued'
                        /\ issued' - ord'[transInit'[i]] <= MaxTid
                        /\ i + (issued' - ord'[transInit'[i]])
                              \in {tidSeq', tidSeq' + MaxTid + 1}
      BY DEF TableFollowsCounter
    <2>0. issued' = issued + 1 /\ tidSeq' = GenTid /\ outcome' = outcome
      BY <1>1
    <2>1. issued \in Nat /\ MaxTid \in Nat /\ GenTid \in Nat
      BY <1>2, ChannelAssumption DEF ChannelAssumption, TypeOK, Tid
    <2>2. CASE i = GenTid
      <3>1. /\ transInit'[i] = t
            /\ stid'[t] = i
            /\ ord'[t] = issued + 1
        BY <1>1, <1>7, <2>2 DEF TypeOK
      <3> QED BY <1>5, <2>0, <2>1, <2>2, <3>1
    <2>3. CASE i # GenTid
      <3> DEFINE x == transInit[i]
      <3>1. transInit'[i] = x /\ x # NoTrans /\ x # t /\ x \in Trans
        BY <1>7, <1>9, <2>3
      <3>2. stid'[x] = stid[x] /\ ord'[x] = ord[x]
        BY <1>1, <3>1 DEF TypeOK
      <3>3. stid[x] = i /\ outcome[x] = "open" /\ ord[x] \in 1 .. issued
        BY <3>1 DEF TableFollowsCounter
      <3>4. /\ issued + 1 - ord[x] <= MaxTid
            /\ i + (issued + 1 - ord[x]) \in {GenTid, GenTid + MaxTid + 1}
        BY <1>11, <2>3, <3>1
      <3> HIDE DEF x
      <3>5. ord[x] \in 1 .. issued + 1
        BY <2>1, <3>3
      <3>6. ord'[transInit'[i]] = ord[x] /\ stid'[transInit'[i]] = stid[x]
        BY <3>1, <3>2
      <3>7. issued' - ord'[transInit'[i]] = issued + 1 - ord[x]
        BY <2>0, <2>1, <3>5, <3>6
      <3>8. i + (issued' - ord'[transInit'[i]]) \in {tidSeq', tidSeq' + MaxTid + 1}
        BY <2>0, <3>4, <3>7
      <3> QED BY <2>0, <3>1, <3>3, <3>4, <3>5, <3>6, <3>7, <3>8
    <2> QED BY <2>2, <2>3
  <1>13. CallInv'
    BY <1>1 DEF CallInv
  <1>14. LostOnlyAfterWrap'
    <2> SUFFICES ASSUME NEW x \in Trans, outcome'[x] = "open"
                 PROVE  Queued(x)' \/ transInit'[stid'[x]] = x \/ issued' - ord'[x] > MaxTid
      BY DEF LostOnlyAfterWrap
    <2>0. issued' = issued + 1 /\ outcome' = outcome
      BY <1>1
    <2>1. CASE x = t
      BY <1>1, <1>2, <2>1 DEF TypeOK
    <2>2. CASE x # t
      <3>1. stid'[x] = stid[x] /\ ord'[x] = ord[x] /\ stid[x] \in Tid
            /\ ord[x] \in Nat /\ issued \in Nat /\ MaxTid \in Nat
        BY <1>1, <2>2, ChannelAssumption DEF ChannelAssumption, TypeOK
      <3>2. CASE Queued(x)
        <4>1. PICK j \in DOMAIN mailbox : mailbox[j] = [op |-> "begin", of |-> x]
          BY <3>2 DEF Queued
        <4>2. j # 1
          BY <1>4, <2>2, <4>1
        <4>3. j - 1 \in DOMAIN mailbox' /\ mailbox'[j - 1] = mailbox[j]
          BY <1>3, <4>2, TailShift
        <4> QED BY <4>1, <4>3 DEF Queued
      <3>3. CASE transInit[stid[x]] = x
        <4>1. CASE stid[x] = GenTid
          <5>1. issued - ord[x] = MaxTid
            BY <1>11, <3>1, <3>3, <4>1, ChannelAssumption DEF ChannelAssumption
          <5> QED BY <2>0, <3>1, <5>1
        <4>2. CASE stid[x] # GenTid
          BY <1>7, <3>1, <3>3, <4>2
        <4> QED BY <4>1, <4>2
      <3>4. CASE issued - ord[x] > MaxTid
        BY <2>0, <3>1, <3>4
      <3> QED BY <2>0, <3>2, <3>3, <3>4 DEF LostOnlyAfterWrap
    <2> QED BY <2>1, <2>2
  <1> QED BY <1>10, <1>12, <1>13, <1>14

\* Every step keeps the invariant.
LEMMA ApplicationKeeps ==
    ASSUME IInv, TypeOK', Application
    PROVE  IInv'
  <1>1. ASSUME NEW t \in Trans, Begin(t)
        PROVE  IInv'
    BY <1>1, BeginKeeps
  <1>2. ASSUME NEW u \in Uni, Unidirection(u)
        PROVE  IInv'
    <2>1. [op |-> "uni", of |-> u] \in Task
      BY DEF Task
    <2> QED BY <1>2, <2>1, OtherPostKeeps DEF Unidirection, hist
  <1>3. ASSUME NEW p \in Pass, NEW r \in Ret, NEW lz \in BOOLEAN, End(p, r, lz)
        PROVE  IInv'
    <2>1. [op |-> "end", of |-> p] \in Task
      BY DEF Task
    <2> QED BY <1>3, <2>1, OtherPostKeeps DEF End, hist
  <1> QED BY <1>1, <1>2, <1>3 DEF Application

\* A future keeps the invariant: futureBegin by FutureBeginKeeps, a one-way
\* message and __end__ because they take no begin from the queue.
LEMMA RunFutureKeeps ==
    ASSUME IInv, TypeOK', RunFuture
    PROVE  IInv'
  <1> DEFINE task == Head(mailbox)
  <1>1. mailbox # <<>> /\ mailbox' = Tail(mailbox)
    BY DEF RunFuture
  <1>2. task \in Task
    BY <1>1, HeadTailProperties DEF IInv, TypeOK
  <1>3. CASE task.op = "begin" /\ FutureBegin(task.of)
    <2>1. task.of \in Trans /\ task = [op |-> "begin", of |-> task.of]
      BY <1>2, <1>3 DEF Task
    <2> QED BY <1>1, <1>3, <2>1, FutureBeginKeeps
  <1>4. CASE task.op = "uni" /\ FutureUnidirection(task.of)
    <2>1. NoBeginTaken
      BY <1>1, <1>4 DEF NoBeginTaken
    <2> QED BY <1>4, <2>1, StutterKeeps DEF FutureUnidirection, hist
  <1>5. CASE /\ task.op = "end"
             /\ EndUnsent(task.of) \/ EndFailure(task.of) \/ EndReply(task.of)
    <2>1. NoBeginTaken
      BY <1>1, <1>5 DEF NoBeginTaken
    <2> HIDE DEF task
    <2>2. CASE EndUnsent(task.of)
      BY <2>1, <2>2, StutterKeeps DEF EndUnsent, hist
    <2>3. CASE EndFailure(task.of) /\ ~lazyClose[task.of]
      <3>1. CloseChannel({}) /\ UNCHANGED <<tidSeq, stid, issued, ord>>
        BY <2>3 DEF EndFailure
      <3> QED BY <2>1, <3>1, CloseKeeps
    <2>4. CASE EndFailure(task.of) /\ lazyClose[task.of]
      BY <2>1, <2>4, StutterKeeps DEF EndFailure, hist
    <2>5. CASE EndReply(task.of)
      BY <2>1, <2>5, StutterKeeps DEF EndReply, hist
    <2> QED BY <1>5, <2>2, <2>3, <2>4, <2>5
  <1> QED BY <1>3, <1>4, <1>5 DEF RunFuture

\* A PDU keeps the invariant: an END settles what it erased from the table.
LEMMA ReceiveKeeps ==
    ASSUME IInv, TypeOK', Receive
    PROVE  IInv'
  <1>1. ASSUME NEW dtid \in Tid, NEW reflects \in BOOLEAN, EvnEnd(dtid, reflects)
        PROVE  IInv'
    <2> DEFINE t == transInit[dtid]
               told == [x \in {t} |-> "answered"]
    <2>1. /\ NoBeginTaken
          /\ UNCHANGED <<tidSeq, stid, issued, ord>>
      BY <1>1 DEF EvnEnd, NoBeginTaken
    <2>2. t # NoTrans /\ t \in InTable /\ {t} \in SUBSET InTable
      BY <1>1, InTableTrans DEF EvnEnd, IInv, TypeOK
    <2>3. CASE reflects
      <3>1. transInit' = Erase(dtid) /\ Finish({t}, told)
        BY <1>1, <2>3 DEF EvnEnd
      <3>2. \A i \in Tid : transInit[i] = t => i = dtid
        BY <2>2 DEF IInv, TableFollowsCounter
      <3>3. Erase(dtid) = Without({t})
        BY <3>2 DEF Erase, Without, IInv, TypeOK
      <3>4. \A x \in {t} : told[x] \in Outcomes
        BY DEF Outcomes
      <3> HIDE DEF t, told
      <3> QED BY <2>1, <2>2, <3>1, <3>3, <3>4, SettleKeeps
    <2>4. CASE ~reflects
      <3>1. CloseChannel({t})
        BY <1>1, <2>4 DEF EvnEnd
      <3> QED BY <2>1, <2>2, <3>1, CloseKeeps
    <2> QED BY <2>3, <2>4
  <1>2. ASSUME NEW p \in Pass, NEW stub, NEW reflects, NEW usr,
               EvnBegin(p, stub, reflects, usr)
        PROVE  IInv'
    BY <1>2, StutterKeeps DEF EvnBegin, NoBeginTaken
  <1>3. ASSUME NEW stub, NEW reflects, NEW usr, EvnReject(stub, reflects, usr)
        PROVE  IInv'
    BY <1>3, CloseKeeps DEF EvnReject, NoBeginTaken
  <1> QED BY <1>1, <1>2, <1>3 DEF Receive

\* The timer and the library keep the invariant.
LEMMA WorkerKeeps ==
    ASSUME IInv, TypeOK', Dida \/ Lost \/ LazyClosed \/ Establish \/ Flush \/ Tick
    PROVE  IInv'
  <1>1. CASE Dida
    <2> DEFINE told == [t \in Overdue |-> "timeout"]
    <2>1. /\ transInit' = Without(Overdue)
          /\ Finish(Overdue, told)
          /\ NoBeginTaken
          /\ UNCHANGED <<tidSeq, stid, issued, ord>>
      BY <1>1 DEF Dida, CheckTransInit, NoBeginTaken
    <2>2. Overdue \in SUBSET InTable
      BY DEF Overdue
    <2>3. \A t \in Overdue : told[t] \in Outcomes
      BY DEF Outcomes
    <2> HIDE DEF told
    <2> QED BY <2>1, <2>2, <2>3, SettleKeeps
  <1>2. CASE Lost \/ LazyClosed
    BY <1>2, CloseKeeps DEF Lost, LazyClosed, NoBeginTaken
  <1>3. CASE Establish \/ Flush \/ Tick
    BY <1>3, StutterKeeps DEF Establish, Flush, Tick, NoBeginTaken, hist
  <1> QED BY <1>1, <1>2, <1>3

\* The invariant is inductive.
LEMMA NextIInv ==
    ASSUME IInv, [Next]_vars
    PROVE  IInv'
  <1>1. TypeOK'
    BY NextTypeOK DEF IInv
  <1>2. CASE UNCHANGED vars
    BY <1>1, <1>2, StutterKeeps DEF vars, hist, NoBeginTaken
  <1> QED BY <1>1, <1>2, ApplicationKeeps, RunFutureKeeps, ReceiveKeeps, WorkerKeeps
          DEF Next

\* In every reachable state each open transaction is queued, pending under its own
\* id, or overwritten after the id counter went round, and its callback has not run.
THEOREM Invariance == Spec => []IInv
  BY InitIInv, NextIInv, PTL DEF Spec

-----------------------------------------------------------------------------
(* What follows.                                                           *)

\* The callback of a begin() runs at most once, in whatever order its END, the
\* timeout check and the loss of the connection come.
THEOREM CallbackOnce == Spec => []CallbackAtMostOnce
  <1>1. IInv => CallbackAtMostOnce
    BY DEF IInv, CallInv, CallbackAtMostOnce
  <1> QED BY <1>1, Invariance, PTL

\* An END can only reach the transaction whose BEGIN carried its id.
THEOREM SlotsFollowCounter == Spec => []TableFollowsCounter
  <1>1. IInv => TableFollowsCounter
    BY DEF IInv
  <1> QED BY <1>1, Invariance, PTL

\* No begun transaction disappears from the mailbox and the table without its
\* callback until the id counter has gone round, whatever its width.
THEOREM NoSilentLoss == Spec => []LostOnlyAfterWrap
  <1>1. IInv => LostOnlyAfterWrap
    BY DEF IInv
  <1> QED BY <1>1, Invariance, PTL

-----------------------------------------------------------------------------
(* The channel implements TransactionLifecycle.                            *)

LifecycleStep == [Lifecycle!Next]_Lifecycle!lifecycleVars

\* Ending some of the transactions in the table is one Settle, or nothing.
LEMMA SettleRefines ==
    ASSUME IInv, NEW S \in SUBSET InTable, NEW told \in [S -> Outcomes],
           Finish(S, told)
    PROVE  LifecycleStep
  <1>1. /\ outcome' = [t \in Trans |-> IF t \in S THEN told[t] ELSE outcome[t]]
        /\ cbs' = [t \in Trans |-> IF t \in S THEN cbs[t] + 1 ELSE cbs[t]]
    BY DEF Finish
  <1>2. S \subseteq Lifecycle!OpenTrans
    BY InTableTrans DEF IInv, TypeOK, TableFollowsCounter, InTable, Lifecycle!OpenTrans
  <1>3. CASE S = {}
    <2>1. outcome' = outcome /\ cbs' = cbs
      BY <1>1, <1>3 DEF IInv, TypeOK
    <2> QED BY <2>1 DEF LifecycleStep, Lifecycle!lifecycleVars
  <1>4. CASE S # {}
    <2>1. Lifecycle!Settle(S)
      BY <1>1, <1>4 DEF Lifecycle!Settle
    <2> QED BY <1>2, <2>1 DEF LifecycleStep, Lifecycle!Next
  <1> QED BY <1>3, <1>4

\* Closing the channel is one Settle, or nothing.
LEMMA CloseRefines ==
    ASSUME IInv, NEW E \in SUBSET InTable, CloseChannel(E)
    PROVE  LifecycleStep
  <1> DEFINE cleaned == IF CleansTrans THEN InTable \ E ELSE {}
             S == E \cup cleaned
             told == [t \in S |-> IF t \in E THEN "exception" ELSE "clean"]
  <1>1. Finish(S, told)
    BY DEF CloseChannel
  <1>2. S \in SUBSET InTable
    OBVIOUS
  <1>3. told \in [S -> Outcomes]
    BY DEF Outcomes
  <1> HIDE DEF S, told
  <1> QED BY <1>1, <1>2, <1>3, SettleRefines

\* A step that runs no callback and begins nothing is a stutter.
LEMMA IdleRefines ==
    ASSUME UNCHANGED <<outcome, cbs>>
    PROVE  LifecycleStep
  BY DEF LifecycleStep, Lifecycle!lifecycleVars

\* Every step of the channel is a step of the life cycle, or a stutter.
LEMMA NextRefines ==
    ASSUME IInv, [Next]_vars
    PROVE  LifecycleStep
  <1>1. CASE UNCHANGED vars
    BY <1>1, IdleRefines DEF vars, hist
  <1>2. CASE Application
    <2>1. ASSUME NEW t \in Trans, Begin(t)
          PROVE  LifecycleStep
      BY <2>1 DEF Begin, hist, LifecycleStep, Lifecycle!Next, Lifecycle!Open
    <2>2. ASSUME NEW u \in Uni, Unidirection(u)
          PROVE  LifecycleStep
      BY <2>2, IdleRefines DEF Unidirection, hist
    <2>3. ASSUME NEW p \in Pass, NEW r \in Ret, NEW lz \in BOOLEAN, End(p, r, lz)
          PROVE  LifecycleStep
      BY <2>3, IdleRefines DEF End, hist
    <2> QED BY <1>2, <2>1, <2>2, <2>3 DEF Application
  <1>3. CASE RunFuture
    <2> DEFINE task == Head(mailbox)
    <2>1. CASE FutureBegin(task.of) \/ FutureUnidirection(task.of)
      BY <2>1, IdleRefines DEF FutureBegin, FutureUnidirection, hist
    <2>2. CASE EndUnsent(task.of) \/ EndReply(task.of)
      BY <2>2, IdleRefines DEF EndUnsent, EndReply, hist
    <2>3. CASE EndFailure(task.of)
      BY <2>3, IdleRefines, CloseRefines DEF EndFailure, hist
    <2> QED BY <1>3, <2>1, <2>2, <2>3 DEF RunFuture
  <1>4. CASE Receive
    <2>1. ASSUME NEW dtid \in Tid, NEW reflects \in BOOLEAN, EvnEnd(dtid, reflects)
          PROVE  LifecycleStep
      <3> DEFINE t == transInit[dtid]
                 told == [x \in {t} |-> "answered"]
      <3>1. {t} \in SUBSET InTable
        BY <2>1, InTableTrans DEF EvnEnd, IInv, TypeOK
      <3>2. told \in [{t} -> Outcomes]
        BY DEF Outcomes
      <3>3. Finish({t}, told) \/ CloseChannel({t})
        BY <2>1 DEF EvnEnd
      <3> HIDE DEF t, told
      <3> QED BY <3>1, <3>2, <3>3, SettleRefines, CloseRefines
    <2>2. ASSUME NEW p \in Pass, NEW stub, NEW reflects, NEW usr,
                 EvnBegin(p, stub, reflects, usr)
          PROVE  LifecycleStep
      BY <2>2, IdleRefines DEF EvnBegin
    <2>3. ASSUME NEW stub, NEW reflects, NEW usr, EvnReject(stub, reflects, usr)
          PROVE  LifecycleStep
      BY <2>3, CloseRefines DEF EvnReject
    <2> QED BY <1>4, <2>1, <2>2, <2>3 DEF Receive
  <1>5. CASE Dida
    <2> DEFINE told == [t \in Overdue |-> "timeout"]
    <2>1. Finish(Overdue, told)
      BY <1>5 DEF Dida, CheckTransInit
    <2>2. told \in [Overdue -> Outcomes] /\ Overdue \in SUBSET InTable
      BY DEF Outcomes, Overdue
    <2> HIDE DEF told
    <2> QED BY <2>1, <2>2, SettleRefines
  <1>6. CASE Lost \/ LazyClosed
    BY <1>6, CloseRefines DEF Lost, LazyClosed
  <1>7. CASE Establish \/ Flush \/ Tick
    BY <1>7, IdleRefines DEF Establish, Flush, Tick, hist
  <1> QED BY <1>1, <1>2, <1>3, <1>4, <1>5, <1>6, <1>7 DEF Next

\* A channel of any class implements the abstract transaction life cycle: each
\* begin() is opened once and settled at most once, with one of the outcomes.
THEOREM ImplementsLifecycle == Spec => LifecycleSpec
  <1>1. Init => Lifecycle!Init
    BY DEF Init, Lifecycle!Init
  <1>2. IInv /\ [Next]_vars => [Lifecycle!Next]_Lifecycle!lifecycleVars
    BY NextRefines DEF LifecycleStep
  <1> QED BY <1>1, <1>2, Invariance, PTL DEF Spec, LifecycleSpec, Lifecycle!Spec

-----------------------------------------------------------------------------
(* Connections: what is pending, and what is answered, after a loss.       *)

\* Nothing pending travelled on a lost connection, if the class cleans.
LEMMA PendingKept ==
    ASSUME TypeOK, PendingOnCurrentConnection,
           InTable' \subseteq InTable,
           \A t \in Trans : carrier'[t] = carrier[t]
    PROVE  PendingOnCurrentConnection'
  BY InTableTrans DEF PendingOnCurrentConnection, TypeOK

\* clean() leaves the table empty.
LEMMA CloseEmpties ==
    ASSUME TypeOK, CleansTrans, NEW E, CloseChannel(E)
    PROVE  InTable' = {}
  <1>1. transInit' = Without(E \cup (InTable \ E))
    BY DEF CloseChannel
  <1>2. \A i \in Tid : transInit'[i] = NoTrans
    BY <1>1, InTableTrans DEF Without, TypeOK
  <1> QED BY <1>2 DEF InTable

\* A connection the class cleans up after leaves no transaction pending whose
\* BEGIN it carried, so a reconnected channel waits for no answer from before.
THEOREM NothingPendingFromBefore ==
    ASSUME CleansTrans
    PROVE  Spec => []PendingOnCurrentConnection
  <1> DEFINE P == TypeOK /\ PendingOnCurrentConnection
  <1>1. Init => PendingOnCurrentConnection
    BY DEF Init, PendingOnCurrentConnection, InTable
  <1>2. ASSUME TypeOK, PendingOnCurrentConnection, [Next]_vars
        PROVE  PendingOnCurrentConnection'
    <2> USE <1>2
    <2>0. ASSUME NEW E, CloseChannel(E)
          PROVE  PendingOnCurrentConnection'
      BY <2>0, CloseEmpties DEF PendingOnCurrentConnection
    <2>1. CASE UNCHANGED <<transInit, carrier>>
      BY <2>1, PendingKept DEF InTable
    <2>2. CASE Application
      BY <2>1, <2>2 DEF Application, Begin, Unidirection, End, hist
    <2>3. CASE RunFuture
      <3> DEFINE task == Head(mailbox)
      <3>1. CASE task.op = "begin" /\ FutureBegin(task.of)
        <4> DEFINE t == task.of
        <4>0. task \in Task
          BY <2>3, HeadTailProperties DEF RunFuture, TypeOK
        <4>1. t \in Trans
          BY <3>1, <4>0 DEF Task
        <4>2. \A i \in Tid : transInit'[i] = transInit[i] \/ transInit'[i] = t
          BY <3>1 DEF FutureBegin, TypeOK
        <4>3. InTable' \subseteq InTable \cup {t}
          BY <4>2 DEF InTable
        <4>4. carrier'[t] # "gone" /\ \A x \in Trans : x # t => carrier'[x] = carrier[x]
          BY <3>1, <4>1 DEF FutureBegin, TypeOK
        <4> HIDE DEF t
        <4> QED BY <4>3, <4>4, InTableTrans DEF PendingOnCurrentConnection, TypeOK
      <3>2. CASE FutureUnidirection(task.of) \/ EndUnsent(task.of) \/ EndReply(task.of)
        BY <2>1, <3>2 DEF FutureUnidirection, EndUnsent, EndReply, hist
      <3>3. CASE EndFailure(task.of)
        BY <2>0, <2>1, <3>3 DEF EndFailure, hist
      <3> QED BY <2>3, <3>1, <3>2, <3>3 DEF RunFuture
    <2>4. CASE Receive
      <3>1. ASSUME NEW dtid \in Tid, NEW reflects \in BOOLEAN, EvnEnd(dtid, reflects)
            PROVE  PendingOnCurrentConnection'
        <4>1. CASE UNCHANGED carrier /\ transInit' = Erase(dtid)
          <5>1. \A i \in Tid : transInit'[i] = transInit[i] \/ transInit'[i] = NoTrans
            BY <4>1 DEF Erase, TypeOK
          <5>2. InTable' \subseteq InTable
            BY <5>1 DEF InTable
          <5> QED BY <4>1, <5>2, PendingKept
        <4> QED BY <2>0, <3>1, <4>1 DEF EvnEnd
      <3>2. ASSUME NEW p \in Pass, NEW stub, NEW reflects, NEW usr,
                   EvnBegin(p, stub, reflects, usr)
            PROVE  PendingOnCurrentConnection'
        <4>1. p \notin Trans
          BY ChannelAssumption DEF ChannelAssumption
        <4>2. \A t \in Trans : carrier'[t] = carrier[t]
          BY <3>2, <4>1 DEF EvnBegin, TypeOK
        <4>3. InTable' = InTable
          BY <3>2 DEF EvnBegin, InTable
        <4> QED BY <4>2, <4>3, PendingKept
      <3>3. ASSUME NEW stub, NEW reflects, NEW usr, EvnReject(stub, reflects, usr)
            PROVE  PendingOnCurrentConnection'
        BY <2>0, <3>3 DEF EvnReject
      <3> QED BY <2>4, <3>1, <3>2, <3>3 DEF Receive
    <2>5. CASE Dida
      <3>1. InTable' \subseteq InTable
        BY <2>5 DEF Dida, CheckTransInit, Without, InTable
      <3> QED BY <2>5, <3>1, PendingKept DEF Dida
    <2>6. CASE Lost \/ LazyClosed
      BY <2>0, <2>6 DEF Lost, LazyClosed
    <2>7. CASE Establish \/ Flush \/ Tick
      BY <2>1, <2>7 DEF Establish, Flush, Tick, hist
    <2>8. CASE UNCHANGED vars
      BY <2>1, <2>8 DEF vars, hist
    <2> QED BY <1>2, <2>2, <2>3, <2>4, <2>5, <2>6, <2>7, <2>8 DEF Next
  <1> QED BY <1>1, <1>2, TypeCorrect, PTL DEF Spec

\* An end in the mailbox is of a transaction the peer has begun; a connection is
\* "current" only while it lasts, and what the peer began has one.
EndsBegun ==
    \A i \in DOMAIN mailbox : mailbox[i].op = "end" => pass[mailbox[i].of] # "absent"

CarrierInv ==
    /\ \A x \in Trans \cup Pass : carrier[x] = "current" => est
    /\ \A p \in Pass : pass[p] # "absent" => carrier[p] # "none"

PassInv ==
    /\ TypeOK
    /\ EndsBegun
    /\ CarrierInv
    /\ ReplyLostOnlyWithConnection

\* A step after which the mailbox holds nothing new, or an end that was begun.
LEMMA EndsKept ==
    ASSUME TypeOK, EndsBegun,
           \A p \in Pass : pass[p] # "absent" => pass'[p] # "absent",
           \/ mailbox' = mailbox
           \/ mailbox # <<>> /\ mailbox' = Tail(mailbox)
           \/ \E task \in Task : /\ mailbox' = Append(mailbox, task)
                                 /\ task.op = "end" => pass'[task.of] # "absent"
    PROVE  EndsBegun'
  <1>1. mailbox \in Seq(Task)
    BY DEF TypeOK
  <1>2. \A i \in DOMAIN mailbox : mailbox[i].op = "end" => mailbox[i].of \in Pass
    BY <1>1 DEF Task
  <1>3. CASE mailbox' = mailbox
    BY <1>2, <1>3 DEF EndsBegun
  <1>4. CASE mailbox # <<>> /\ mailbox' = Tail(mailbox)
    BY <1>1, <1>2, <1>4, TailShift DEF EndsBegun
  <1>5. ASSUME NEW task \in Task, mailbox' = Append(mailbox, task),
               task.op = "end" => pass'[task.of] # "absent"
        PROVE  EndsBegun'
    <2>1. mailbox' = Append(mailbox, task)
      BY <1>5
    <2>2. \A i \in DOMAIN mailbox' : \/ i \in DOMAIN mailbox /\ mailbox'[i] = mailbox[i]
                                   \/ mailbox'[i] = task
      BY ONLY <1>1, <2>1, AppendKeeps, task \in Task
    <2>3. ASSUME NEW i \in DOMAIN mailbox', mailbox'[i].op = "end"
          PROVE  pass'[mailbox'[i].of] # "absent"
      <3>1. CASE mailbox'[i] = task
        BY <1>5, <2>3, <3>1
      <3>2. CASE i \in DOMAIN mailbox /\ mailbox'[i] = mailbox[i]
        <4>1. mailbox[i].op = "end" /\ mailbox[i].of \in Pass
          BY <1>2, <2>3, <3>2
        <4>2. pass[mailbox[i].of] # "absent"
          BY <3>2, <4>1 DEF EndsBegun
        <4> QED BY <3>2, <4>1, <4>2
      <3> QED BY <2>2, <2>3, <3>1, <3>2
    <2> QED BY <2>3 DEF EndsBegun
  <1> QED BY <1>3, <1>4, <1>5

\* A step that loses no connection and drops no passive transaction.
LEMMA ReplyKept ==
    ASSUME CarrierInv, ReplyLostOnlyWithConnection,
           UNCHANGED <<pass, ret, carrier>>, est => est'
    PROVE  CarrierInv' /\ ReplyLostOnlyWithConnection'
  BY DEF CarrierInv, ReplyLostOnlyWithConnection

\* A step that loses the connection, and drops only what ended with RET_FAILURE.
LEMMA ReplyClosed ==
    ASSUME TypeOK, CarrierInv, ReplyLostOnlyWithConnection,
           NEW E, CloseChannel(E), UNCHANGED ret,
           \A p \in Pass : \/ pass'[p] = pass[p]
                           \/ /\ pass'[p] = "dropped"
                              /\ ret[p] = "FAILURE"
                              /\ pass[p] # "absent"
    PROVE  CarrierInv' /\ ReplyLostOnlyWithConnection'
  <1>1. \A x \in Trans \cup Pass :
           carrier'[x] = IF carrier[x] = "current" THEN "gone" ELSE carrier[x]
    BY DEF CloseChannel
  <1> QED BY <1>1 DEF CarrierInv, ReplyLostOnlyWithConnection, TypeOK

\* What is known of passive transactions is inductive.
LEMMA NextPassInv ==
    ASSUME PassInv, [Next]_vars
    PROVE  PassInv'
  <1> USE DEF PassInv
  <1>0. TypeOK'
    BY NextTypeOK
  <1>1. ASSUME UNCHANGED <<mailbox, pass, ret, carrier>>, est => est'
        PROVE  PassInv'
    BY <1>0, <1>1, EndsKept, ReplyKept
  <1>2. ASSUME NEW E, CloseChannel(E), UNCHANGED <<mailbox, pass, ret>>
        PROVE  PassInv'
    BY <1>0, <1>2, EndsKept, ReplyClosed
  <1>3. CASE Application
    <2>1. ASSUME NEW t \in Trans, Begin(t)
          PROVE  PassInv'
      <3>1. [op |-> "begin", of |-> t] \in Task /\ [op |-> "begin", of |-> t].op # "end"
        BY DEF Task
      <3>2. EndsBegun'
        BY <2>1, <3>1, EndsKept DEF Begin, Post
      <3> QED BY <1>0, <2>1, <3>2, ReplyKept DEF Begin, app, hist
    <2>2. ASSUME NEW u \in Uni, Unidirection(u)
          PROVE  PassInv'
      <3>1. [op |-> "uni", of |-> u] \in Task /\ [op |-> "uni", of |-> u].op # "end"
        BY DEF Task
      <3>2. EndsBegun'
        BY <2>2, <3>1, EndsKept DEF Unidirection, Post
      <3> QED BY <1>0, <2>2, <3>2, ReplyKept DEF Unidirection, app, hist
    <2>3. ASSUME NEW p \in Pass, NEW r \in Ret, NEW lz \in BOOLEAN, End(p, r, lz)
          PROVE  PassInv'
      <3>1. /\ [op |-> "end", of |-> p] \in Task
            /\ [op |-> "end", of |-> p].of = p
            /\ pass[p] = "open"
            /\ pass' = [pass EXCEPT ![p] = "ending"]
        BY <2>3 DEF End, Task
      <3>2. EndsBegun'
        BY <2>3, <3>1, EndsKept DEF End, Post, TypeOK
      <3>3. CarrierInv' /\ ReplyLostOnlyWithConnection'
        BY <2>3, <3>1 DEF End, hist, TypeOK, CarrierInv, ReplyLostOnlyWithConnection
      <3> QED BY <1>0, <3>2, <3>3
    <2> QED BY <1>3, <2>1, <2>2, <2>3 DEF Application
  <1>4. CASE RunFuture
    <2> DEFINE task == Head(mailbox)
    <2>1. mailbox # <<>> /\ mailbox' = Tail(mailbox) /\ task \in Task
      BY <1>4, HeadTailProperties DEF RunFuture, TypeOK
    <2>2. ASSUME UNCHANGED <<pass, ret, carrier>>, est => est'
          PROVE  PassInv'
      BY <1>0, <2>1, <2>2, EndsKept, ReplyKept
    <2>3. CASE task.op = "begin" /\ FutureBegin(task.of)
      <3> DEFINE t == task.of
      <3>1. t \in Trans /\ t \notin Pass
        BY <2>1, <2>3, ChannelAssumption DEF ChannelAssumption, Task
      <3>2. /\ UNCHANGED <<est, pass, ret>>
            /\ carrier' = [carrier EXCEPT ![t] = IF est THEN "current" ELSE "none"]
        BY <2>3 DEF FutureBegin, app
      <3> HIDE DEF t
      <3>3. CarrierInv' /\ ReplyLostOnlyWithConnection'
        BY <3>1, <3>2 DEF TypeOK, CarrierInv, ReplyLostOnlyWithConnection
      <3> QED BY <1>0, <2>1, <3>2, <3>3, EndsKept
    <2>4. CASE task.op = "uni" /\ FutureUnidirection(task.of)
      BY <2>2, <2>4 DEF FutureUnidirection, app, hist
    <2>5. CASE /\ task.op = "end"
               /\ EndUnsent(task.of) \/ EndFailure(task.of) \/ EndReply(task.of)
      <3> DEFINE p == task.of
      <3>1. p \in Pass
        BY <2>1, <2>5 DEF Task
      <3>2. pass[p] # "absent"
        BY <2>1, <2>5, TailShift DEF EndsBegun, TypeOK
      <3>3. /\ UNCHANGED ret
            /\ pass' = [pass EXCEPT ![p] = pass'[p]]
            /\ pass'[p] \in {"dropped", "replied"}
        BY <2>5, <3>1 DEF EndUnsent, EndFailure, EndReply, app, TypeOK
      <3>4. EndsBegun'
        BY <2>1, <3>1, <3>3, EndsKept DEF TypeOK
      <3> HIDE DEF p
      <3>5. CASE EndUnsent(p)
        <4>1. carrier[p] = "gone"
          BY <3>1, <3>2, <3>5 DEF EndUnsent, CarrierInv, TypeOK
        <4> QED BY <1>0, <3>1, <3>2, <3>4, <3>5, <4>1
                DEF EndUnsent, app, hist, TypeOK, CarrierInv, ReplyLostOnlyWithConnection
      <3>6. CASE EndFailure(p) /\ ~lazyClose[p]
        <4>1. CloseChannel({}) /\ ret[p] = "FAILURE" /\ pass' = [pass EXCEPT ![p] = "dropped"]
          BY <3>6 DEF EndFailure
        <4>2. \A q \in Pass : \/ pass'[q] = pass[q]
                              \/ /\ pass'[q] = "dropped"
                                 /\ ret[q] = "FAILURE"
                                 /\ pass[q] # "absent"
          BY <3>1, <3>2, <4>1 DEF TypeOK
        <4> QED BY <1>0, <3>3, <3>4, <4>1, <4>2, ReplyClosed
      <3>7. CASE EndFailure(p) /\ lazyClose[p]
        BY <1>0, <3>1, <3>2, <3>4, <3>7
           DEF EndFailure, app, hist, TypeOK, CarrierInv, ReplyLostOnlyWithConnection
      <3>8. CASE EndReply(p)
        BY <1>0, <3>1, <3>2, <3>4, <3>8
           DEF EndReply, app, hist, TypeOK, CarrierInv, ReplyLostOnlyWithConnection
      <3> QED BY <2>5, <3>5, <3>6, <3>7, <3>8 DEF p
    <2> QED BY <1>4, <2>3, <2>4, <2>5 DEF RunFuture
  <1>5. CASE Receive
    <2>1. ASSUME NEW dtid \in Tid, NEW reflects \in BOOLEAN, EvnEnd(dtid, reflects)
          PROVE  PassInv'
      BY <1>1, <1>2, <2>1 DEF EvnEnd, app
    <2>2. ASSUME NEW p \in Pass, NEW stub, NEW reflects, NEW usr,
                 EvnBegin(p, stub, reflects, usr)
          PROVE  PassInv'
      <3>1. EndsBegun'
        BY <2>2, EndsKept DEF EvnBegin, TypeOK
      <3>2. CarrierInv' /\ ReplyLostOnlyWithConnection'
        BY <2>2 DEF EvnBegin, app, TypeOK, CarrierInv, ReplyLostOnlyWithConnection
      <3> QED BY <1>0, <3>1, <3>2
    <2>3. ASSUME NEW stub, NEW reflects, NEW usr, EvnReject(stub, reflects, usr)
          PROVE  PassInv'
      BY <1>2, <2>3 DEF EvnReject, app
    <2> QED BY <1>5, <2>1, <2>2, <2>3 DEF Receive
  <1>6. CASE Dida
    BY <1>1, <1>6 DEF Dida, app
  <1>7. CASE Lost \/ LazyClosed
    BY <1>2, <1>7 DEF Lost, LazyClosed, app
  <1>8. CASE Establish \/ Flush \/ Tick
    BY <1>1, <1>8 DEF Establish, Flush, Tick, app, hist
  <1>9. CASE UNCHANGED vars
    BY <1>1, <1>9 DEF vars, app, hist
  <1> QED BY <1>3, <1>4, <1>5, <1>6, <1>7, <1>8, <1>9 DEF Next

\* A passive transaction ended with anything but RET_FAILURE goes unanswered
\* only if the connection its BEGIN came on was lost.
THEOREM RepliesReachLiveConnections == Spec => []ReplyLostOnlyWithConnection
  <1>1. Init => PassInv
    BY InitTypeOK DEF Init, PassInv, EndsBegun, CarrierInv, ReplyLostOnlyWithConnection
  <1>2. PassInv => ReplyLostOnlyWithConnection
    BY DEF PassInv
  <1> QED BY <1>1, <1>2, NextPassInv, PTL DEF Spec
===========================================================================
