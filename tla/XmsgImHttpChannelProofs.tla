---------------------- MODULE XmsgImHttpChannelProofs ----------------------
(***************************************************************************)
(* Theorems about XmsgImHttpChannel, for any number of requests and        *)
(* messages.                                                               *)
(***************************************************************************)
EXTENDS XmsgImHttpChannel, SequenceTheorems, TLAPS

\* The elements of a queue to which one is added.
LEMMA AppendFacts ==
    ASSUME NEW S, NEW q \in Seq(S), NEW e \in S
    PROVE  /\ Append(q, e) \in Seq(S)
           /\ Len(q) \in Nat /\ DOMAIN q = 1 .. Len(q)
           /\ Len(Append(q, e)) = Len(q) + 1
           /\ \A i \in DOMAIN q : i \in DOMAIN Append(q, e) /\ Append(q, e)[i] = q[i]
           /\ \A i \in DOMAIN Append(q, e) :
                 \/ i \in DOMAIN q
                 \/ i = Len(q) + 1 /\ i \notin DOMAIN q /\ Append(q, e)[i] = e
  <1>1. /\ Append(q, e) \in Seq(S) /\ Len(q) \in Nat /\ DOMAIN q = 1 .. Len(q)
        /\ Len(Append(q, e)) = Len(q) + 1
        /\ \A i \in 1 .. Len(q) : Append(q, e)[i] = q[i]
        /\ Append(q, e)[Len(q) + 1] = e
    BY AppendProperties
  <1> DEFINE n == Len(q)
  <1>2. DOMAIN Append(q, e) = 1 .. n + 1
    BY <1>1
  <1> HIDE DEF n
  <1>3. n \in Nat /\ \A i \in 1 .. n + 1 : i \in 1 .. n \/ (i = n + 1 /\ i \notin 1 .. n)
    BY <1>1 DEF n
  <1>4. \A i \in 1 .. n : i \in 1 .. n + 1
    BY <1>3
  <1> QED BY <1>1, <1>2, <1>3, <1>4 DEF n

\* The elements of a queue whose head is taken.
LEMMA TailFacts ==
    ASSUME NEW S, NEW q \in Seq(S), q # <<>>
    PROVE  /\ Head(q) \in S /\ Tail(q) \in Seq(S)
           /\ 1 \in DOMAIN q /\ q[1] = Head(q)
           /\ \A i \in DOMAIN Tail(q) :
                 /\ i + 1 \in DOMAIN q /\ Tail(q)[i] = q[i + 1] /\ i \in Nat /\ i # 0
           /\ \A i \in DOMAIN q : i # 1 =>
                 i - 1 \in DOMAIN Tail(q) /\ Tail(q)[i - 1] = q[i]
  <1>1. /\ Head(q) \in S /\ Tail(q) \in Seq(S)
        /\ Len(Tail(q)) = Len(q) - 1
        /\ \A i \in 1 .. Len(Tail(q)) : Tail(q)[i] = q[i + 1]
    BY HeadTailProperties
  <1>2. Len(q) \in Nat /\ Len(q) # 0 /\ DOMAIN q = 1 .. Len(q) /\ Head(q) = q[1]
    OBVIOUS
  <1>3. DOMAIN Tail(q) = 1 .. Len(q) - 1
    BY <1>1
  <1> QED BY <1>1, <1>2, <1>3

-----------------------------------------------------------------------------
(* Type correctness.                                                       *)

\* The initial state has the types.
LEMMA InitTypeOK == Init => TypeOK
  <1> SUFFICES ASSUME Init PROVE TypeOK
    OBVIOUS
  <1>1. 0 \in 0 .. Requests
    BY HttpAssumption DEF HttpAssumption
  <1>2. mailbox \in Seq(Task) /\ sent \in Seq(Request)
    BY DEF Init
  <1> QED BY <1>1, <1>2 DEF Init, TypeOK, Life

\* A request gets the next number and one of these lives.
LEMMA HeaderTypeOK ==
    ASSUME TypeOK, EvnHeader
    PROVE  TypeOK'
  <1> USE DEF TypeOK
  <1>1. PICK b \in BOOLEAN, named \in BOOLEAN :
            \/ \E m \in {"GET", "POST"} : Nameless(m, b)
            \/ NotGet(b, named)
            \/ GetRefused(b, named)
            \/ GetConsumed(b, named)
            \/ named /\ GetHandled(b)
    BY DEF EvnHeader
  <1>2. PICK m \in {"GET", "POST"} : Arrive(m, b)
    BY <1>1 DEF Nameless, NotGet, GetRefused, GetConsumed, GetHandled, TakeHeaders
  <1>3. last + 1 \in Request /\ last + 1 \in 0 .. Requests
    BY <1>2, HttpAssumption DEF HttpAssumption, Arrive, Request
  <1>4. last' \in 0 .. Requests /\ UNCHANGED <<mailbox, sent, inOrder>>
    BY <1>2, <1>3 DEF Arrive, hist
  <1>5. method' \in {"GET", "POST"} /\ body' \in BOOLEAN
    BY <1>2 DEF Arrive
  <1>6. life' \in [Request -> Life]
    <2>1. PICK l \in Life : Becomes(l)
      BY <1>1 DEF Nameless, NotGet, GetRefused, GetConsumed, GetHandled, Life
    <2> QED BY <1>3, <2>1 DEF Becomes
  <1>7. est' \in BOOLEAN /\ lazy' \in BOOLEAN /\ msgName' \in BOOLEAN
    BY <1>1 DEF Nameless, NotGet, GetRefused, GetConsumed, GetHandled, TakeHeaders,
                CloseChannel
  <1> QED BY <1>4, <1>5, <1>6, <1>7

\* What is queued is a task.
LEMMA PostTypeOK ==
    ASSUME TypeOK,
           \/ \E r \in Request, failure, lz \in BOOLEAN : End(r, failure, lz)
           \/ \E op \in {"begin", "uni"}, u \in Push : Send(op, u)
    PROVE  TypeOK'
  <1> USE DEF TypeOK
  <1>1. ASSUME NEW r \in Request, NEW failure \in BOOLEAN, NEW lz \in BOOLEAN,
               End(r, failure, lz)
        PROVE  TypeOK'
    <2> DEFINE e == [op |-> "end", of |-> r, failure |-> failure, lazyClose |-> lz]
    <2>1. e \in Task
      BY DEF Task
    <2>2. mailbox' = Append(mailbox, e)
      BY <1>1 DEF End
    <2> HIDE DEF e
    <2>3. mailbox' \in Seq(Task)
      BY <2>1, <2>2, AppendFacts
    <2>4. life' \in [Request -> Life]
      BY <1>1 DEF End, Life
    <2>5. inOrder' \in BOOLEAN
      BY <1>1 DEF End
    <2> QED BY <1>1, <2>3, <2>4, <2>5 DEF End, request
  <1>2. ASSUME NEW op \in {"begin", "uni"}, NEW u \in Push, Send(op, u)
        PROVE  TypeOK'
    <2> DEFINE e == [op |-> op, of |-> u]
    <2>1. e \in Task
      BY DEF Task
    <2>2. mailbox' = Append(mailbox, e)
      BY <1>2 DEF Send
    <2> HIDE DEF e
    <2>3. mailbox' \in Seq(Task)
      BY <2>1, <2>2, AppendFacts
    <2> QED BY <1>2, <2>3 DEF Send, request, hist
  <1> QED BY <1>1, <1>2

\* What a future or the interceptor answers is a request.
LEMMA AnswerTypeOK ==
    ASSUME TypeOK, RunFuture \/ \E r \in Request : InterceptorEnds(r)
    PROVE  TypeOK'
  <1> USE DEF TypeOK
  <1>1. ASSUME NEW r \in Request, InterceptorEnds(r)
        PROVE  TypeOK'
    <2>1. sent' \in Seq(Request)
      <3>1. sent' = sent \/ sent' = Append(sent, r)
        BY <1>1 DEF InterceptorEnds, SendXscPdu
      <3>2. Append(sent, r) \in Seq(Request)
        BY AppendFacts
      <3> QED BY <3>1, <3>2
    <2>2. life' \in [Request -> Life]
      BY <1>1 DEF InterceptorEnds, Life
    <2>3. inOrder' \in BOOLEAN
      BY <1>1 DEF InterceptorEnds
    <2> QED BY <1>1, <2>1, <2>2, <2>3 DEF InterceptorEnds, request
  <1>2. ASSUME RunFuture
        PROVE  TypeOK'
    <2> DEFINE task == Head(mailbox)
    <2>1. task \in Task /\ mailbox' \in Seq(Task)
      BY <1>2, TailFacts DEF RunFuture
    <2>2. /\ \/ FutureSend(task)
             \/ task.op = "end" /\ (EndUnsent(task) \/ EndFailure(task) \/ EndReply(task))
          /\ UNCHANGED <<last, method, msgName, body, inOrder>>
      BY <1>2 DEF RunFuture, request
    <2> HIDE DEF task
    <2>3. CASE FutureSend(task)
      <3>1. UNCHANGED <<est, lazy, life, sent>>
        BY <2>1, <2>3 DEF FutureSend, SendXscPdu
      <3> QED BY <2>1, <2>2, <3>1
    <2>4. CASE task.op = "end" /\ (EndUnsent(task) \/ EndFailure(task) \/ EndReply(task))
      <3>1. task.of \in Request /\ task.lazyClose \in BOOLEAN
        BY <2>1, <2>4 DEF Task
      <3>2. life' \in [Request -> Life]
        BY <2>4, <3>1 DEF EndUnsent, EndFailure, EndReply, Life
      <3>3. sent' \in Seq(Request)
        <4>1. sent' = sent \/ sent' = Append(sent, task.of)
          BY <2>4 DEF EndUnsent, EndFailure, EndReply, SendXscPdu
        <4>2. Append(sent, task.of) \in Seq(Request)
          BY <3>1, AppendFacts
        <4> QED BY <4>1, <4>2
      <3>4. est' \in BOOLEAN /\ lazy' \in BOOLEAN
        BY <2>4, <3>1 DEF EndUnsent, EndFailure, EndReply, CloseChannel
      <3> QED BY <2>1, <2>2, <3>2, <3>3, <3>4
    <2> QED BY <2>2, <2>3, <2>4
  <1> QED BY <1>1, <1>2

\* Every step keeps the types.
LEMMA NextTypeOK ==
    ASSUME TypeOK, [Next]_vars
    PROVE  TypeOK'
  <1>1. CASE EvnBody
    BY <1>1 DEF EvnBody, TypeOK, CloseChannel, hist
  <1>2. CASE Lost
    BY <1>2 DEF Lost, TypeOK, CloseChannel, request, hist
  <1>3. CASE UNCHANGED vars
    BY <1>3 DEF vars, TypeOK, request, hist
  <1> QED BY <1>1, <1>2, <1>3, HeaderTypeOK, PostTypeOK, AnswerTypeOK DEF Next

\* Type correctness, for any number of requests and messages.
THEOREM TypeCorrect == Spec => []TypeOK
  BY InitTypeOK, NextTypeOK, PTL DEF Spec

-----------------------------------------------------------------------------
(* The inductive invariant.                                                *)

\* The i-th future answers a request.
IsEnd(i) == mailbox[i].op = "end"

\* Requests that have not arrived are unsent, the others are not; an END is queued
\* for one that has.
LifeInv ==
    /\ \A r \in Request : life[r] = "unsent" <=> r > last
    /\ \A i \in DOMAIN mailbox : IsEnd(i) => mailbox[i].of <= last

\* While the connection lasts the answers are those to the first requests, ENDs are
\* queued once each and in the order of their requests, and behind no request that
\* waits for its END.
QueueInv ==
    /\ Len(sent) <= last
    /\ \A r \in Request : life[r] = "replied" <=> r <= Len(sent)
    /\ \A r \in Request : life[r] = "ending" =>
          /\ \A s \in Request : s < r => life[s] \in {"ending", "replied"}
          /\ \E i \in DOMAIN mailbox : IsEnd(i) /\ mailbox[i].of = r
    /\ \A i \in DOMAIN mailbox : IsEnd(i) =>
          /\ life[mailbox[i].of] = "ending"
          /\ ~(mailbox[i].failure /\ mailbox[i].lazyClose)
    /\ \A i, j \in DOMAIN mailbox :
          IsEnd(i) /\ IsEnd(j) /\ i < j => mailbox[i].of < mailbox[j].of

OrderInv == inOrder => AnswersInOrder /\ (est => QueueInv)

IInv == TypeOK /\ LifeInv /\ OrderInv /\ AnswerLostOnlyWithConnection

\* What the parts speak of.
LEMMA Kinds ==
    ASSUME TypeOK
    PROVE  /\ Request \subseteq Nat /\ last \in Nat /\ Len(sent) \in Nat
           /\ \A r \in Request : r > 0 /\ \A n \in 1 .. r : n \in Request
           /\ DOMAIN sent = 1 .. Len(sent)
           /\ \A i \in DOMAIN mailbox : i \in Nat
           /\ \A i \in DOMAIN mailbox : IsEnd(i) => mailbox[i].of \in Request
  <1>1. \A i \in DOMAIN mailbox : mailbox[i] \in Task /\ i \in Nat
    BY DEF TypeOK
  <1>2. \A i \in DOMAIN mailbox : IsEnd(i) => mailbox[i].of \in Request
    BY <1>1 DEF Task, IsEnd
  <1>3. sent \in Seq(Request) /\ last \in Nat
    BY DEF TypeOK
  <1>4. /\ Request \subseteq Nat
        /\ \A r \in Request : r > 0 /\ \A n \in 1 .. r : n \in Request
    BY HttpAssumption DEF HttpAssumption, Request
  <1> QED BY <1>1, <1>2, <1>3, <1>4

\* No request has arrived initially.
LEMMA InitIInv == Init => IInv
  <1> SUFFICES ASSUME Init PROVE IInv
    OBVIOUS
  <1>1. TypeOK
    BY InitTypeOK
  <1>2. \A r \in Request : r \in Nat /\ r > 0
    BY <1>1, Kinds
  <1>3. LifeInv
    BY <1>1, Kinds DEF Init, LifeInv
  <1>4. sent = <<>> /\ mailbox = <<>> /\ last = 0
    BY DEF Init
  <1>5. QueueInv
    BY <1>2, <1>4 DEF Init, QueueInv
  <1>6. AnswersInOrder
    BY <1>4 DEF AnswersInOrder
  <1>7. AnswerLostOnlyWithConnection
    BY DEF Init, AnswerLostOnlyWithConnection
  <1> QED BY <1>1, <1>3, <1>5, <1>6, <1>7 DEF IInv, OrderInv

-----------------------------------------------------------------------------
(* The arrival of a request.                                               *)

\* What the five outcomes have in common, l being what becomes of the request.
Arrives(l) ==
    /\ est
    /\ last + 1 \in Request /\ last \in Nat
    /\ last' = last + 1
    /\ life' = [life EXCEPT ![last + 1] = l]
    /\ UNCHANGED <<mailbox, sent, inOrder>>
    /\ IF l = "refused" THEN ~est' ELSE est' /\ lazy' = lazy

LEMMA HeaderShape ==
    ASSUME TypeOK, EvnHeader
    PROVE  \E l \in {"ignored", "consumed", "refused", "open"} : Arrives(l)
  <1>1. PICK b \in BOOLEAN, named \in BOOLEAN :
            \/ \E m \in {"GET", "POST"} : Nameless(m, b)
            \/ NotGet(b, named)
            \/ GetRefused(b, named)
            \/ GetConsumed(b, named)
            \/ named /\ GetHandled(b)
    BY DEF EvnHeader
  <1>2. PICK m \in {"GET", "POST"} : Arrive(m, b)
    BY <1>1 DEF Nameless, NotGet, GetRefused, GetConsumed, GetHandled, TakeHeaders
  <1>3. last + 1 \in Request /\ last \in Nat
    BY <1>2, HttpAssumption DEF HttpAssumption, Arrive, Request, TypeOK
  <1>4. est /\ last' = last + 1 /\ UNCHANGED <<mailbox, sent, inOrder>>
    BY <1>2 DEF Arrive, hist
  <1>5. CASE GetRefused(b, named) \/ \E n \in {"GET", "POST"} : Nameless(n, b)
    <2>1. Becomes("refused") /\ ~est'
      BY <1>5 DEF Nameless, GetRefused, CloseChannel
    <2> QED BY <1>3, <1>4, <2>1 DEF Becomes, Arrives
  <1>6. CASE NotGet(b, named)
    <2>1. Becomes("ignored") /\ est' = est /\ lazy' = lazy
      BY <1>6 DEF NotGet
    <2> QED BY <1>3, <1>4, <2>1 DEF Becomes, Arrives
  <1>7. CASE GetConsumed(b, named)
    <2>1. Becomes("consumed") /\ est' = est /\ lazy' = lazy
      BY <1>7 DEF GetConsumed
    <2> QED BY <1>3, <1>4, <2>1 DEF Becomes, Arrives
  <1>8. CASE GetHandled(b)
    <2>1. Becomes("open") /\ est' = est /\ lazy' = lazy
      BY <1>8 DEF GetHandled
    <2> QED BY <1>3, <1>4, <2>1 DEF Becomes, Arrives
  <1> QED BY <1>1, <1>5, <1>6, <1>7, <1>8

LEMMA HeaderKeeps ==
    ASSUME IInv, EvnHeader, TypeOK'
    PROVE  IInv'
  <1> USE DEF IInv
  <1>1. PICK l \in {"ignored", "consumed", "refused", "open"} : Arrives(l)
    BY HeaderShape
  <1> DEFINE n == last + 1
  <1>2. /\ n \in Request /\ last' = n /\ n = last + 1
        /\ mailbox' = mailbox /\ sent' = sent /\ inOrder' = inOrder
        /\ est /\ IF l = "refused" THEN ~est' ELSE est' /\ lazy' = lazy
    BY <1>1 DEF Arrives
  <1>3. \A r \in Request : life'[r] = IF r = n THEN l ELSE life[r]
    BY <1>1 DEF Arrives, TypeOK
  <1> HIDE DEF n
  <1>4. l \notin {"unsent", "ending", "replied", "dropped"}
    BY <1>1
  <1>5. life[n] = "unsent"
    BY <1>2, Kinds DEF LifeInv
  <1>6. LifeInv'
    <2>1. \A r \in Request : life'[r] = "unsent" <=> r > n
      BY <1>2, <1>3, <1>4, Kinds DEF LifeInv
    <2>2. ASSUME NEW i \in DOMAIN mailbox, IsEnd(i) PROVE mailbox[i].of <= n
      <3>1. mailbox[i].of \in Request /\ mailbox[i].of <= last
        BY <2>2, Kinds DEF LifeInv
      <3>2. mailbox[i].of \in Nat /\ last \in Nat
        BY <3>1, Kinds
      <3>3. n = last + 1
        BY <1>2
      <3> QED BY <3>1, <3>2, <3>3
    <2> QED BY <1>2, <2>1, <2>2 DEF LifeInv, IsEnd
  <1>7. ASSUME QueueInv PROVE QueueInv'
    <2>1. Len(sent) <= n /\ ~(n <= Len(sent))
      BY <1>2, <1>7, Kinds DEF QueueInv
    <2>2. \A r \in Request :
             /\ life'[r] = "replied" <=> life[r] = "replied"
             /\ life'[r] = "ending" <=> life[r] = "ending"
      BY <1>3, <1>4, <1>5
    <2>3. \A r \in Request : life[r] \in {"ending", "replied"} =>
                             life'[r] \in {"ending", "replied"}
      BY <2>2
    <2>4. \A i \in DOMAIN mailbox : IsEnd(i) => life'[mailbox[i].of] = "ending"
      BY <1>7, <2>2, Kinds DEF QueueInv
    <2> QED BY <1>2, <1>7, <2>1, <2>2, <2>3, <2>4 DEF QueueInv, IsEnd
  <1>8. OrderInv'
    BY <1>2, <1>7 DEF OrderInv, AnswersInOrder
  <1>9. AnswerLostOnlyWithConnection'
    BY <1>2, <1>3, <1>4 DEF AnswerLostOnlyWithConnection
  <1> QED BY <1>6, <1>8, <1>9

-----------------------------------------------------------------------------
(* The calls of the application.                                           *)

\* What is posted behind the queue.
LEMMA Posted ==
    ASSUME TypeOK, NEW e \in Task, mailbox' = Append(mailbox, e)
    PROVE  /\ \A i \in DOMAIN mailbox :
                 i \in DOMAIN mailbox' /\ mailbox'[i] = mailbox[i]
           /\ \A i \in DOMAIN mailbox' :
                 \/ i \in DOMAIN mailbox /\ mailbox'[i] = mailbox[i]
                 \/ mailbox'[i] = e /\ \A j \in DOMAIN mailbox : j < i
           /\ \E i \in DOMAIN mailbox' : mailbox'[i] = e
           /\ \A i, j \in DOMAIN mailbox' :
                 i < j => i \in DOMAIN mailbox /\ mailbox'[i] = mailbox[i]
  <1>1. mailbox \in Seq(Task)
    BY DEF TypeOK
  <1>2. /\ Len(mailbox) \in Nat /\ DOMAIN mailbox = 1 .. Len(mailbox)
        /\ mailbox' \in Seq(Task) /\ Len(mailbox') = Len(mailbox) + 1
        /\ \A i \in DOMAIN mailbox : mailbox'[i] = mailbox[i]
    BY <1>1, AppendFacts
  <1>3. mailbox'[Len(mailbox) + 1] = e
    BY <1>1, AppendProperties
  <1>4. DOMAIN mailbox' = 1 .. Len(mailbox) + 1
    BY <1>2
  <1> QED BY <1>2, <1>3, <1>4

LEMMA EndKeeps ==
    ASSUME IInv, NEW r \in Request, NEW failure \in BOOLEAN, NEW lz \in BOOLEAN,
           End(r, failure, lz), TypeOK'
    PROVE  IInv'
  <1> USE DEF IInv
  <1> DEFINE e == [op |-> "end", of |-> r, failure |-> failure, lazyClose |-> lz]
  <1>1. /\ life[r] \in {"open", "ending", "replied", "dropped"}
        /\ life' = [life EXCEPT ![r] = IF life[r] = "open" THEN "ending" ELSE life[r]]
        /\ mailbox' = Append(mailbox, e)
        /\ inOrder' => /\ inOrder /\ life[r] = "open"
                       /\ Before(r, {"ending", "replied"}) /\ ~(failure /\ lz)
        /\ UNCHANGED <<est, lazy, last, sent>>
    BY DEF End, request
  <1>2. e \in Task /\ e.op = "end" /\ e.of = r /\ e.failure = failure /\ e.lazyClose = lz
    BY DEF Task
  <1> HIDE DEF e
  <1>3. \A q \in Request :
           life'[q] = IF q = r /\ life[r] = "open" THEN "ending" ELSE life[q]
    BY <1>1 DEF TypeOK
  <1>4. LifeInv'
    <2>1. r <= last
      BY <1>1, Kinds DEF LifeInv
    <2>2. \A i \in DOMAIN mailbox' : mailbox'[i].op = "end" => mailbox'[i].of <= last
      BY <1>1, <1>2, <2>1, Posted DEF LifeInv, IsEnd
    <2>3. \A q \in Request : life'[q] = "unsent" <=> life[q] = "unsent"
      BY <1>3
    <2> QED BY <1>1, <2>2, <2>3 DEF LifeInv, IsEnd
  <1>5. ASSUME inOrder', est PROVE QueueInv'
    <2>1. QueueInv /\ life[r] = "open" /\ Before(r, {"ending", "replied"})
      BY <1>1, <1>5 DEF OrderInv
    <2>2. \A q \in Request : life'[q] = IF q = r THEN "ending" ELSE life[q]
      BY <1>3, <2>1
    <2>3. \A q \in Request : life'[q] = "replied" <=> q <= Len(sent)
      BY <2>1, <2>2 DEF QueueInv
    <2>4. \A q \in Request : q < r => life[q] \in {"ending", "replied"}
      <3>1. \A q \in Request : q < r => q \in 1 .. r - 1
        BY Kinds
      <3> QED BY <2>1, <3>1 DEF Before
    <2>5. ASSUME NEW q \in Request, life'[q] = "ending"
          PROVE  /\ \A s \in Request : s < q => life'[s] \in {"ending", "replied"}
                 /\ \E i \in DOMAIN mailbox' :
                       mailbox'[i].op = "end" /\ mailbox'[i].of = q
      <3>1. \A s \in Request : s < q => life[s] \in {"ending", "replied"}
        BY <2>1, <2>2, <2>4, <2>5 DEF QueueInv
      <3>2. \E i \in DOMAIN mailbox' : mailbox'[i].op = "end" /\ mailbox'[i].of = q
        BY <1>1, <1>2, <2>1, <2>2, <2>5, Posted DEF QueueInv, IsEnd
      <3> QED BY <2>2, <3>1, <3>2
    <2>6. \A i \in DOMAIN mailbox : IsEnd(i) => mailbox[i].of < r
      <3> SUFFICES ASSUME NEW i \in DOMAIN mailbox, IsEnd(i) PROVE mailbox[i].of < r
        OBVIOUS
      <3>1. mailbox[i].of \in Request /\ life[mailbox[i].of] = "ending"
        BY <2>1, Kinds DEF QueueInv
      <3>2. ~(r < mailbox[i].of) /\ mailbox[i].of # r
        BY <2>1, <3>1 DEF QueueInv
      <3> QED BY <3>1, <3>2, Kinds
    <2>7. ASSUME NEW i \in DOMAIN mailbox', mailbox'[i].op = "end"
          PROVE  /\ life'[mailbox'[i].of] = "ending"
                 /\ ~(mailbox'[i].failure /\ mailbox'[i].lazyClose)
      <3>1. CASE i \in DOMAIN mailbox /\ mailbox'[i] = mailbox[i]
        BY <2>1, <2>2, <2>7, <3>1, Kinds DEF QueueInv, IsEnd
      <3>2. CASE mailbox'[i] = e
        BY <1>1, <1>2, <1>5, <2>2, <3>2
      <3> QED BY <1>1, <1>2, <3>1, <3>2, Posted
    <2>8. ASSUME NEW i \in DOMAIN mailbox', NEW j \in DOMAIN mailbox',
                 mailbox'[i].op = "end", mailbox'[j].op = "end", i < j
          PROVE  mailbox'[i].of < mailbox'[j].of
      <3>1. i \in DOMAIN mailbox /\ mailbox'[i] = mailbox[i]
        BY <1>1, <1>2, <2>8, Posted
      <3>2. CASE j \in DOMAIN mailbox /\ mailbox'[j] = mailbox[j]
        BY <2>1, <2>8, <3>1, <3>2 DEF QueueInv, IsEnd
      <3>3. CASE mailbox'[j] = e
        BY <1>2, <2>6, <2>8, <3>1, <3>3 DEF IsEnd
      <3> QED BY <1>1, <1>2, <3>2, <3>3, Posted
    <2>9. sent' = sent /\ last' = last /\ Len(sent) <= last
      BY <1>1, <2>1 DEF QueueInv
    <2> QED BY <2>3, <2>5, <2>7, <2>8, <2>9 DEF QueueInv, IsEnd
  <1>6. OrderInv'
    BY <1>1, <1>5 DEF OrderInv, AnswersInOrder
  <1>7. AnswerLostOnlyWithConnection'
    BY <1>1, <1>3 DEF AnswerLostOnlyWithConnection
  <1> QED BY <1>4, <1>6, <1>7

\* A BEGIN or one-way message is posted.
LEMMA SendKeeps ==
    ASSUME IInv, NEW op \in {"begin", "uni"}, NEW u \in Push, Send(op, u), TypeOK'
    PROVE  IInv'
  <1> USE DEF IInv
  <1> DEFINE e == [op |-> op, of |-> u]
  <1>1. /\ mailbox' = Append(mailbox, e)
        /\ UNCHANGED <<est, lazy, last, sent, inOrder, life>>
    BY DEF Send, request, hist
  <1>2. e \in Task /\ e.op # "end"
    BY DEF Task
  <1> HIDE DEF e
  <1>3. /\ \A i \in DOMAIN mailbox : i \in DOMAIN mailbox' /\ mailbox'[i] = mailbox[i]
        /\ \A i \in DOMAIN mailbox' :
              mailbox'[i].op = "end" => i \in DOMAIN mailbox /\ mailbox'[i] = mailbox[i]
    BY <1>1, <1>2, Posted
  <1>4. ASSUME QueueInv PROVE QueueInv'
    BY <1>1, <1>3, <1>4 DEF QueueInv, IsEnd
  <1>5. LifeInv'
    BY <1>1, <1>3 DEF LifeInv, IsEnd
  <1> QED BY <1>1, <1>4, <1>5 DEF OrderInv, AnswersInOrder, AnswerLostOnlyWithConnection

-----------------------------------------------------------------------------
(* The answers.                                                            *)

\* One more answer, to the next request.
LEMMA AnswersAppend ==
    ASSUME TypeOK, NEW r \in Request, sent' = Append(sent, r)
    PROVE  /\ Len(sent') = Len(sent) + 1
           /\ r = Len(sent) + 1 /\ (\A k \in DOMAIN sent : sent[k] = k) =>
                 \A k \in DOMAIN sent' : sent'[k] = k
  <1>1. sent \in Seq(Request)
    BY DEF TypeOK
  <1> QED BY <1>1, AppendFacts

LEMMA InterceptorKeeps ==
    ASSUME IInv, NEW r \in Request, InterceptorEnds(r), TypeOK'
    PROVE  IInv'
  <1> USE DEF IInv
  <1>1. /\ life[r] \in {"consumed", "open", "ending", "replied", "dropped"}
        /\ inOrder' => inOrder /\ life[r] = "consumed" /\ Before(r, {"replied"})
        /\ UNCHANGED <<est, lazy, mailbox, last>>
    BY DEF InterceptorEnds, request
  <1>2. CASE ~est
    <2>1. UNCHANGED <<life, sent>>
      BY <1>2 DEF InterceptorEnds
    <2> QED BY <1>1, <1>2, <2>1
            DEF LifeInv, IsEnd, OrderInv, AnswersInOrder, AnswerLostOnlyWithConnection
  <1>3. CASE est
    <2>1. life' = [life EXCEPT ![r] = "replied"] /\ sent' = Append(sent, r)
      BY <1>3 DEF InterceptorEnds, SendXscPdu
    <2>2. \A q \in Request : life'[q] = IF q = r THEN "replied" ELSE life[q]
      BY <2>1 DEF TypeOK
    <2>3. LifeInv'
      BY <1>1, <2>2 DEF LifeInv, IsEnd
    <2>4. ASSUME inOrder' PROVE AnswersInOrder' /\ QueueInv'
      <3>1. QueueInv /\ life[r] = "consumed" /\ \A k \in DOMAIN sent : sent[k] = k
        BY <1>1, <1>3, <2>4 DEF OrderInv, AnswersInOrder
      <3>2. r = Len(sent) + 1
        <4>1. ~(r <= Len(sent))
          BY <3>1 DEF QueueInv
        <4>2. ASSUME Len(sent) + 1 < r PROVE FALSE
          <5>1. Len(sent) + 1 \in 1 .. r - 1 /\ Len(sent) + 1 \in 1 .. r
            BY <4>2, Kinds
          <5>4. Len(sent) + 1 \in Request
            BY <5>1, Kinds
          <5>2. life[Len(sent) + 1] = "replied"
            BY <1>1, <2>4, <5>1 DEF Before
          <5>3. Len(sent) + 1 <= Len(sent)
            BY <3>1, <5>4, <5>2 DEF QueueInv
          <5> QED BY <5>3, Kinds
        <4> QED BY <4>1, <4>2, Kinds
      <3>3. AnswersInOrder'
        BY <2>1, <3>1, <3>2, AnswersAppend DEF AnswersInOrder
      <3>4. Len(sent') = Len(sent) + 1
        BY <2>1, AnswersAppend
      <3>5. Len(sent') <= last'
        <4>1. r <= last
          BY <3>1, Kinds DEF LifeInv
        <4> QED BY <1>1, <3>2, <3>4, <4>1
      <3>6. \A q \in Request : life'[q] = "replied" <=> q <= Len(sent')
        BY <2>2, <3>1, <3>2, <3>4, Kinds DEF QueueInv
      <3>7. \A q \in Request : life'[q] = "ending" <=> life[q] = "ending"
        BY <2>2, <3>1
      <3>8. \A q \in Request : life[q] \in {"ending", "replied"} =>
                               life'[q] \in {"ending", "replied"}
        BY <2>2
      <3>9. \A i \in DOMAIN mailbox : IsEnd(i) => life'[mailbox[i].of] = "ending"
        BY <3>1, <3>7, Kinds DEF QueueInv
      <3>10. QueueInv'
        BY <1>1, <3>1, <3>5, <3>6, <3>7, <3>8, <3>9 DEF QueueInv, IsEnd
      <3> QED BY <3>3, <3>10
    <2>5. AnswerLostOnlyWithConnection'
      BY <1>1, <2>2 DEF AnswerLostOnlyWithConnection
    <2> QED BY <2>3, <2>4, <2>5 DEF OrderInv
  <1> QED BY <1>2, <1>3

\* The END at the head of the queue is that of the next request.
LEMMA HeadIsNext ==
    ASSUME TypeOK, QueueInv, 1 \in DOMAIN mailbox, IsEnd(1)
    PROVE  mailbox[1].of = Len(sent) + 1
  <1> DEFINE r == mailbox[1].of
  <1>1. r \in Request /\ life[r] = "ending"
    BY Kinds DEF QueueInv
  <1>2. r = mailbox[1].of
    OBVIOUS
  <1> HIDE DEF r
  <1>3. ~(r <= Len(sent))
    BY <1>1 DEF QueueInv
  <1>4. ASSUME Len(sent) + 1 < r PROVE FALSE
    <2>1. Len(sent) + 1 \in Request
      <3>1. Len(sent) + 1 \in 1 .. r
        BY <1>1, <1>4, Kinds
      <3> QED BY <1>1, <3>1, Kinds
    <2>2. life[Len(sent) + 1] # "replied"
      BY <2>1, Kinds DEF QueueInv
    <2>3. life[Len(sent) + 1] = "ending"
      BY <1>1, <1>4, <2>1, <2>2 DEF QueueInv
    <2>4. PICK i \in DOMAIN mailbox : IsEnd(i) /\ mailbox[i].of = Len(sent) + 1
      BY <2>1, <2>3 DEF QueueInv
    <2>5. i # 1 /\ i \in DOMAIN mailbox
      BY <1>1, <1>2, <1>4, <2>4, Kinds
    <2>6. 1 < i
      <3>1. mailbox \in Seq(Task)
        BY DEF TypeOK
      <3> QED BY <2>5, <3>1
    <2>7. r < Len(sent) + 1
      BY <1>2, <2>4, <2>6 DEF QueueInv
    <2> QED BY <1>1, <1>4, <2>7, Kinds
  <1> QED BY <1>1, <1>2, <1>3, <1>4, Kinds

\* What is left of the queue when its head is no END, or was answered.
LEMMA QueueTail ==
    ASSUME TypeOK, LifeInv, QueueInv,
           mailbox # <<>>, mailbox' = Tail(mailbox), last' = last,
           \/ mailbox[1].op # "end" /\ UNCHANGED <<life, sent>>
           \/ /\ mailbox[1].op = "end" /\ mailbox[1].of = Len(sent) + 1
              /\ Len(sent') = Len(sent) + 1
              /\ \A q \in Request :
                    life'[q] = IF q = mailbox[1].of THEN "replied" ELSE life[q]
    PROVE  QueueInv'
  <1>1. /\ 1 \in DOMAIN mailbox
        /\ \A i \in DOMAIN mailbox' :
              i + 1 \in DOMAIN mailbox /\ mailbox'[i] = mailbox[i + 1] /\ i \in Nat /\ i # 0
        /\ \A i \in DOMAIN mailbox : i # 1 =>
              i - 1 \in DOMAIN mailbox' /\ mailbox'[i - 1] = mailbox[i]
    <2>1. mailbox \in Seq(Task)
      BY DEF TypeOK
    <2> QED BY <2>1, TailFacts
  <1>2. \A i \in DOMAIN mailbox' : mailbox'[i].op = "end" => IsEnd(i + 1)
    BY <1>1 DEF IsEnd
  <1>3. \A i, j \in DOMAIN mailbox' :
           mailbox'[i].op = "end" /\ mailbox'[j].op = "end" /\ i < j =>
              mailbox'[i].of < mailbox'[j].of
    <2> SUFFICES ASSUME NEW i \in DOMAIN mailbox', NEW j \in DOMAIN mailbox',
                        mailbox'[i].op = "end", mailbox'[j].op = "end", i < j
                 PROVE  mailbox'[i].of < mailbox'[j].of
      OBVIOUS
    <2>1. i + 1 < j + 1
      BY <1>1
    <2> QED BY <1>1, <1>2, <2>1 DEF QueueInv
  <1>4. \A i \in DOMAIN mailbox' : mailbox'[i].op = "end" =>
           ~(mailbox'[i].failure /\ mailbox'[i].lazyClose)
    BY <1>1, <1>2 DEF QueueInv
  <1>5. CASE mailbox[1].op # "end" /\ UNCHANGED <<life, sent>>
    <2>1. ASSUME NEW q \in Request, life[q] = "ending"
          PROVE  \E i \in DOMAIN mailbox' : mailbox'[i].op = "end" /\ mailbox'[i].of = q
      <3>1. PICK i \in DOMAIN mailbox : IsEnd(i) /\ mailbox[i].of = q
        BY <2>1 DEF QueueInv
      <3>2. i # 1
        BY <1>5, <3>1 DEF IsEnd
      <3>3. i - 1 \in DOMAIN mailbox' /\ mailbox'[i - 1] = mailbox[i]
        BY <1>1, <3>2
      <3> QED BY <3>1, <3>3 DEF IsEnd
    <2>2. \A i \in DOMAIN mailbox' : mailbox'[i].op = "end" =>
             life[mailbox'[i].of] = "ending"
      BY <1>1, <1>2 DEF QueueInv
    <2> QED BY <1>3, <1>4, <1>5, <2>1, <2>2 DEF QueueInv, IsEnd
  <1>6. CASE /\ mailbox[1].op = "end" /\ mailbox[1].of = Len(sent) + 1
             /\ Len(sent') = Len(sent) + 1
             /\ \A q \in Request :
                   life'[q] = IF q = mailbox[1].of THEN "replied" ELSE life[q]
    <2> DEFINE r == mailbox[1].of
    <2>1. /\ r \in Request /\ life[r] = "ending"
          /\ r = Len(sent) + 1 /\ Len(sent') = r
          /\ \A q \in Request : life'[q] = IF q = r THEN "replied" ELSE life[q]
      BY <1>1, <1>6, Kinds DEF QueueInv, IsEnd
    <2>2. \A i \in DOMAIN mailbox : IsEnd(i) /\ i # 1 => r < mailbox[i].of
      <3>1. \A i \in DOMAIN mailbox : i # 1 => 1 < i
        BY DEF TypeOK
      <3> QED BY <1>1, <1>6, <3>1 DEF QueueInv, IsEnd
    <2> HIDE DEF r
    <2>3. \A q \in Request : life'[q] = "replied" <=> q <= Len(sent')
      BY <2>1, Kinds DEF QueueInv
    <2>4. Len(sent') <= last'
      <3>1. r <= last
        BY <2>1, Kinds DEF LifeInv
      <3> QED BY <2>1, <3>1
    <2>5. ASSUME NEW q \in Request, life'[q] = "ending"
          PROVE  /\ \A s \in Request : s < q => life'[s] \in {"ending", "replied"}
                 /\ \E i \in DOMAIN mailbox' :
                       mailbox'[i].op = "end" /\ mailbox'[i].of = q
      <3>1. q # r /\ life[q] = "ending"
        BY <2>1, <2>5
      <3>2. \A s \in Request : s < q => life'[s] \in {"ending", "replied"}
        BY <2>1, <3>1 DEF QueueInv
      <3>3. PICK i \in DOMAIN mailbox : IsEnd(i) /\ mailbox[i].of = q
        BY <3>1 DEF QueueInv
      <3>4. i # 1
        BY <3>1, <3>3 DEF r
      <3>5. i - 1 \in DOMAIN mailbox' /\ mailbox'[i - 1] = mailbox[i]
        BY <1>1, <3>4
      <3> QED BY <3>2, <3>3, <3>5 DEF IsEnd
    <2>6. ASSUME NEW i \in DOMAIN mailbox', mailbox'[i].op = "end"
          PROVE  life'[mailbox'[i].of] = "ending"
      <3>1. i + 1 \in DOMAIN mailbox /\ mailbox'[i] = mailbox[i + 1] /\ i + 1 # 1
            /\ IsEnd(i + 1)
        BY <1>1, <1>2, <2>6
      <3>2. mailbox[i + 1].of \in Request /\ life[mailbox[i + 1].of] = "ending"
        BY <3>1, Kinds DEF QueueInv
      <3>3. mailbox[i + 1].of # r
        BY <2>1, <2>2, <3>1, <3>2, Kinds
      <3> QED BY <2>1, <3>1, <3>2, <3>3
    <2> QED BY <1>3, <1>4, <2>3, <2>4, <2>5, <2>6 DEF QueueInv, IsEnd
  <1> QED BY <1>5, <1>6

\* A future that is run: as long as the order is kept, it answers the next request,
\* or closes the connection.
LEMMA RunFutureKeeps ==
    ASSUME IInv, RunFuture, TypeOK'
    PROVE  IInv'
  <1> USE DEF IInv
  <1> DEFINE task == Head(mailbox)
  <1>1. /\ mailbox # <<>> /\ mailbox' = Tail(mailbox)
        /\ \/ FutureSend(task)
           \/ task.op = "end" /\ (EndUnsent(task) \/ EndFailure(task) \/ EndReply(task))
        /\ UNCHANGED <<last, inOrder>>
    BY DEF RunFuture, request
  <1>2. task \in Task /\ 1 \in DOMAIN mailbox /\ mailbox[1] = task
    <2>1. mailbox \in Seq(Task)
      BY DEF TypeOK
    <2> QED BY <1>1, <2>1, TailFacts
  <1> HIDE DEF task
  <1>8. \A i \in DOMAIN mailbox' : mailbox'[i].op = "end" => mailbox'[i].of <= last
    <2>1. mailbox \in Seq(Task)
      BY DEF TypeOK
    <2>2. \A i \in DOMAIN mailbox' :
             i + 1 \in DOMAIN mailbox /\ mailbox'[i] = mailbox[i + 1]
      BY <1>1, <2>1, TailFacts
    <2> QED BY <2>2 DEF LifeInv, IsEnd
  <1>3. CASE FutureSend(task)
    <2>1. task.op # "end" /\ UNCHANGED <<est, lazy, life, sent>>
      BY <1>3 DEF FutureSend, SendXscPdu
    <2>2. QueueInv => QueueInv'
      BY <1>1, <1>2, <2>1, QueueTail
    <2> QED BY <1>1, <1>8, <2>1, <2>2
            DEF LifeInv, IsEnd, OrderInv, AnswersInOrder, AnswerLostOnlyWithConnection
  <1>4. ASSUME task.op = "end"
        PROVE  /\ task.of \in Request /\ IsEnd(1)
               /\ task.lazyClose \in BOOLEAN /\ task.failure \in BOOLEAN
    BY <1>2, <1>4 DEF Task, IsEnd
  <1>5. ASSUME task.op = "end", EndUnsent(task) \/ EndFailure(task) \/ EndReply(task)
        PROVE  LifeInv'
    <2>1. task.of \in Request
      BY <1>4, <1>5
    <2>2. \E l \in {"dropped", "replied"} : life' = [life EXCEPT ![task.of] = l]
      BY <1>5 DEF EndUnsent, EndFailure, EndReply
    <2>3. PICK l \in {"dropped", "replied"} :
             \A q \in Request : life'[q] = IF q = task.of THEN l ELSE life[q]
      BY <2>1, <2>2 DEF TypeOK
    <2>4. task.of <= last
      BY <1>2, <1>4, <1>5 DEF LifeInv
    <2> QED BY <1>1, <1>8, <2>1, <2>3, <2>4, Kinds DEF LifeInv, IsEnd
  <1>6. CASE task.op = "end" /\ (EndUnsent(task) \/ EndFailure(task))
    <2>1. task.of \in Request /\ IsEnd(1)
      BY <1>4, <1>6
    <2>2. \A q \in Request : life'[q] = IF q = task.of THEN "dropped" ELSE life[q]
      BY <1>6, <2>1 DEF EndUnsent, EndFailure, TypeOK
    <2>3. sent' = sent /\ (est' => est /\ lazy')
      BY <1>6 DEF EndUnsent, EndFailure, CloseChannel
    <2>4. ASSUME inOrder, est' PROVE FALSE
      <3>1. QueueInv
        BY <2>3, <2>4 DEF OrderInv
      <3>2. ~(task.failure /\ task.lazyClose)
        BY <1>2, <2>1, <3>1 DEF QueueInv
      <3> QED BY <1>6, <2>3, <2>4, <3>2 DEF EndUnsent, EndFailure, CloseChannel
    <2>5. OrderInv'
      BY <1>1, <2>3, <2>4 DEF OrderInv, AnswersInOrder
    <2>6. AnswerLostOnlyWithConnection'
      BY <2>3 DEF AnswerLostOnlyWithConnection
    <2> QED BY <1>5, <1>6, <2>5, <2>6
  <1>7. CASE task.op = "end" /\ EndReply(task)
    <2>1. task.of \in Request /\ IsEnd(1)
      BY <1>4, <1>7
    <2>2. /\ est /\ est' = est /\ (lazy => lazy')
          /\ life' = [life EXCEPT ![task.of] = "replied"]
          /\ sent' = Append(sent, task.of)
      BY <1>7 DEF EndReply, SendXscPdu
    <2>3. \A q \in Request : life'[q] = IF q = task.of THEN "replied" ELSE life[q]
      BY <2>1, <2>2 DEF TypeOK
    <2>4. ASSUME inOrder PROVE AnswersInOrder' /\ QueueInv'
      <3>1. QueueInv /\ \A k \in DOMAIN sent : sent[k] = k
        BY <2>2, <2>4 DEF OrderInv, AnswersInOrder
      <3>2. task.of = Len(sent) + 1
        BY <1>2, <2>1, <3>1, HeadIsNext
      <3>3. Len(sent') = Len(sent) + 1 /\ AnswersInOrder'
        BY <2>1, <2>2, <3>1, <3>2, AnswersAppend DEF AnswersInOrder
      <3>4. QueueInv'
        BY <1>1, <1>2, <1>7, <2>3, <3>1, <3>2, <3>3, QueueTail
      <3> QED BY <3>3, <3>4
    <2>5. OrderInv'
      BY <1>1, <2>4 DEF OrderInv
    <2>6. AnswerLostOnlyWithConnection'
      BY <2>2, <2>3 DEF AnswerLostOnlyWithConnection
    <2> QED BY <1>5, <1>7, <2>5, <2>6
  <1> QED BY <1>1, <1>3, <1>6, <1>7

-----------------------------------------------------------------------------
\* Every step keeps the inductive invariant.
LEMMA NextKeeps ==
    ASSUME IInv, [Next]_vars
    PROVE  IInv'
  <1> USE DEF IInv
  <1>1. TypeOK'
    BY NextTypeOK
  <1>2. CASE EvnBody \/ Lost \/ UNCHANGED vars
    <2>1. /\ UNCHANGED <<mailbox, last, sent, inOrder, life>>
          /\ ~est' \/ UNCHANGED <<est, lazy>>
      BY <1>2 DEF EvnBody, Lost, CloseChannel, vars, request, hist
    <2>2. QueueInv => QueueInv'
      BY <2>1 DEF QueueInv, IsEnd
    <2> QED BY <1>1, <2>1, <2>2
            DEF LifeInv, IsEnd, OrderInv, AnswersInOrder, AnswerLostOnlyWithConnection
  <1> QED BY <1>1, <1>2, HeaderKeeps, EndKeeps, SendKeeps, InterceptorKeeps,
             RunFutureKeeps DEF Next

\* In every reachable state of a connection the queue and the answers follow the
\* requests, as long as the application and the interceptor keep to their order.
THEOREM Invariance == Spec => []IInv
  <1>1. IInv /\ [Next]_vars => IInv'
    BY NextKeeps
  <1> QED BY <1>1, InitIInv, PTL DEF Spec

\* Answers without an id reach their requests, for any number of requests, pipelined
\* or not, as long as the application and the interceptor keep to their order.
THEOREM InOrder == Spec => []AnswersInOrder
  <1>1. IInv => AnswersInOrder
    BY DEF IInv, OrderInv, AnswersInOrder
  <1> QED BY <1>1, Invariance, PTL

\* An answer is dropped only with its connection.
THEOREM LostWithConnection == Spec => []AnswerLostOnlyWithConnection
  <1>1. IInv => AnswerLostOnlyWithConnection
    BY DEF IInv
  <1> QED BY <1>1, Invariance, PTL
=============================================================================
