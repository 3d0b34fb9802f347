------------------------ MODULE XmsgImTcpH2NProofs ------------------------
(***************************************************************************)
(* Theorems about XmsgImTcpH2N, for any number of threads and of calls of  *)
(* connect().                                                              *)
(***************************************************************************)
EXTENDS XmsgImTcpH2N, SequenceTheorems, TLAPS

-----------------------------------------------------------------------------
(* The mailbox.                                                            *)

\* Taking the head of the mailbox shifts the rest by one place.
LEMMA TailShift ==
    ASSUME mailbox \in Seq(Task), mailbox # <<>>, mailbox' = Tail(mailbox)
    PROVE  /\ mailbox' \in Seq(Task)
           /\ \A i \in DOMAIN mailbox' : /\ i \in Nat \ {0}
                                         /\ i + 1 \in DOMAIN mailbox
                                         /\ mailbox'[i] = mailbox[i + 1]
           /\ \A i \in DOMAIN mailbox : /\ i \in Nat \ {0}
                                        /\ i # 1 => /\ i - 1 \in DOMAIN mailbox'
                                                    /\ mailbox'[i - 1] = mailbox[i]
           /\ 1 \in DOMAIN mailbox
           /\ Head(mailbox) = mailbox[1]
  <1>1. /\ Len(Tail(mailbox)) = Len(mailbox) - 1
        /\ \A i \in 1 .. Len(Tail(mailbox)) : Tail(mailbox)[i] = mailbox[i + 1]
        /\ Tail(mailbox) \in Seq(Task)
    BY HeadTailProperties
  <1>2. Len(mailbox) \in Nat /\ Len(mailbox) # 0
    OBVIOUS
  <1>3. DOMAIN mailbox = 1 .. Len(mailbox) /\ DOMAIN mailbox' = 1 .. (Len(mailbox) - 1)
    BY <1>1
  <1> QED BY <1>1, <1>2, <1>3

\* Appending to the mailbox leaves the other places as they were.
LEMMA AppendKeeps ==
    ASSUME mailbox \in Seq(Task), NEW task \in Task, mailbox' = Append(mailbox, task)
    PROVE  /\ mailbox' \in Seq(Task)
           /\ Len(mailbox) + 1 \in DOMAIN mailbox'
           /\ mailbox'[Len(mailbox) + 1] = task
           /\ \A i \in DOMAIN mailbox : /\ i \in DOMAIN mailbox'
                                        /\ mailbox'[i] = mailbox[i]
                                        /\ i < Len(mailbox) + 1
           /\ \A i \in DOMAIN mailbox' : i \in DOMAIN mailbox \/ i = Len(mailbox) + 1
  <1> DEFINE n == Len(mailbox)
  <1>1. /\ n \in Nat
        /\ DOMAIN mailbox = 1 .. n
        /\ DOMAIN mailbox' = 1 .. n + 1
        /\ mailbox' \in Seq(Task)
        /\ mailbox'[n + 1] = task
        /\ \A i \in 1 .. n : mailbox'[i] = mailbox[i]
    BY AppendProperties
  <1> HIDE DEF n
  <1>2. /\ n + 1 \in 1 .. n + 1
        /\ \A i \in 1 .. n : i \in 1 .. n + 1 /\ i < n + 1
        /\ \A i \in 1 .. n + 1 : i \in 1 .. n \/ i = n + 1
    BY <1>1
  <1> QED BY <1>1, <1>2 DEF n

-----------------------------------------------------------------------------
(* The invariant.  Once needWait is set, or a thread is past its start, the *)
(* channel is registered: in h2ns, or in the mailbox and ahead of whatever  *)
(* will establish it.                                                       *)

Registered == h2ns = 1 \/ Queued("register") # {}
PastStart == needWait \/ \E s \in Svc : svc[s] = "loop"

PhaseInv ==
    /\ \A s \in Svc : svc[s] \in {"connect", "release"} => needWait
    /\ PastStart => Registered
    /\ ~PastStart => h2ns = 0 /\ Queued("register") = {}

OrderInv ==
    \A i \in Queued("establish") :
        h2ns = 1 \/ \E j \in Queued("register") : j < i

SvcInv == \A s \in Svc : Running(s) => trying /\ \A r \in Svc : Running(r) => r = s

IInv ==
    /\ TypeOK
    /\ SvcInv
    /\ PhaseInv
    /\ OrderInv
    /\ RegisteredOnce

\* The initial state has the types.
LEMMA InitTypeOK == Init => TypeOK
  <1> SUFFICES ASSUME Init PROVE TypeOK
    OBVIOUS
  <1>1. mailbox \in Seq(Task)
    BY DEF Init
  <1>2. /\ svc \in [Svc -> {"none", "start", "loop", "connect", "release"}]
        /\ app \in [App -> {"idle", "checked"}]
    BY DEF Init
  <1> QED BY <1>1, <1>2 DEF Init, TypeOK, Bytes

\* No thread runs and nothing is registered initially.
LEMMA InitIInv == Init => IInv
  <1> SUFFICES ASSUME Init PROVE IInv
    OBVIOUS
  <1>1. TypeOK
    BY InitTypeOK
  <1>2. Queued("register") = {} /\ Queued("establish") = {}
    BY DEF Init, Queued
  <1> QED BY <1>1, <1>2 DEF Init, IInv, SvcInv, Running, PhaseInv, PastStart,
              OrderInv, RegisteredOnce

\* A step that leaves the mailbox, h2ns and needWait alone, establishes nothing
\* and starts no thread, or one only by taking trying.
LEMMA QuietStep ==
    ASSUME IInv, TypeOK', UNCHANGED <<mailbox, h2ns, needWait>>, est' => est,
           \/ UNCHANGED <<svc, trying>>
           \/ Exchange
    PROVE  IInv'
  <1> USE DEF IInv
  <1>1. Queued("register")' = Queued("register") /\ Queued("establish")' = Queued("establish")
    BY DEF Queued
  <1>2. CASE UNCHANGED <<svc, trying>>
    BY <1>1, <1>2 DEF SvcInv, Running, PhaseInv, PastStart, Registered, OrderInv,
                      RegisteredOnce
  <1>3. ASSUME ~trying, trying', NEW s \in Svc, svc[s] = "none",
               svc' = [svc EXCEPT ![s] = "start"]
        PROVE  IInv'
    <2>1. \A r \in Svc : svc[r] = "none"
      BY <1>3 DEF SvcInv, Running
    <2>2. \A r \in Svc : svc'[r] = IF r = s THEN "start" ELSE "none"
      BY <1>3, <2>1 DEF TypeOK
    <2>3. SvcInv'
      BY <1>3, <2>2 DEF SvcInv, Running
    <2>4. PastStart' = PastStart
      BY <2>1, <2>2 DEF PastStart
    <2>5. PhaseInv'
      BY <1>1, <2>2, <2>4 DEF PhaseInv, Registered
    <2> QED BY <1>1, <2>3, <2>5 DEF OrderInv, RegisteredOnce
  <1> QED BY <1>2, <1>3 DEF Exchange

\* A thread's step inside svc(): it alone runs, before and after.
LEMMA SvcMoves ==
    ASSUME TypeOK, SvcInv, NEW s \in Svc, NEW pc, Running(s),
           svc' = [svc EXCEPT ![s] = pc], pc # "none", trying' = trying
    PROVE  /\ SvcInv'
           /\ \A r \in Svc : svc'[r] = IF r = s THEN pc ELSE "none"
           /\ \A r \in Svc : r # s => svc[r] = "none"
  BY DEF TypeOK, SvcInv, Running

\* The steps of svc() keep the invariant: the only thread there is posts a
\* registration exactly when none was posted before.
LEMMA ThreadKeeps ==
    ASSUME IInv, TypeOK', NEW s \in Svc, Thread(s)
    PROVE  IInv'
  <1> USE DEF IInv
  <1>1. CASE Start(s)
    <2>1. svc[s] = "start" /\ Running(s) /\ svc' = [svc EXCEPT ![s] = "loop"]
          /\ trying' = trying
      BY <1>1 DEF Start, Goto, Running
    <2>2. SvcInv' /\ \A r \in Svc : svc'[r] = IF r = s THEN "loop" ELSE "none"
      BY <2>1, SvcMoves
    <2>3. \A r \in Svc : r # s => svc[r] = "none"
      BY <2>1, SvcMoves
    <2>4. PastStart' /\ (PastStart <=> needWait)
      BY <2>1, <2>2, <2>3 DEF PastStart
    <2>5. CASE needWait
      <3>1. Queued("register")' = Queued("register") /\ Queued("establish")' = Queued("establish")
        BY <1>1, <2>5 DEF Start, Queued
      <3> QED BY <1>1, <2>2, <2>4, <2>5, <3>1
              DEF Start, PhaseInv, Registered, OrderInv, RegisteredOnce
    <2>6. CASE ~needWait
      <3>1. /\ mailbox \in Seq(Task) /\ "register" \in Task
            /\ mailbox' = Append(mailbox, "register")
            /\ UNCHANGED <<est, needWait, h2ns>>
        BY <1>1, <2>6 DEF Start, TypeOK, Task
      <3>2. h2ns = 0 /\ Queued("register") = {}
        BY <2>4, <2>6 DEF PhaseInv
      <3>3. Queued("register")' = {Len(mailbox) + 1}
        BY <3>1, <3>2, AppendKeeps DEF Queued
      <3>4. Queued("establish") = {}
        BY <3>2 DEF OrderInv
      <3>5. Queued("establish")' = {}
        BY <3>1, <3>4, AppendKeeps DEF Queued
      <3>6. RegisteredOnce'
        <4>1. ~est
          BY <3>2 DEF RegisteredOnce
        <4> QED BY <3>1, <3>2, <3>3, <4>1 DEF RegisteredOnce
      <3>7. PhaseInv'
        BY <2>2, <2>4, <3>3 DEF PhaseInv, Registered
      <3>8. OrderInv'
        BY <3>5 DEF OrderInv
      <3> QED BY <2>2, <3>6, <3>7, <3>8
    <2> QED BY <2>5, <2>6
  <1>2. CASE Attempt(s) \/ ConnectFails(s)
    <2> DEFINE pc == IF svc[s] = "loop" THEN "connect" ELSE "loop"
    <2>1. /\ Running(s) /\ svc' = [svc EXCEPT ![s] = pc] /\ trying' = trying
          /\ svc[s] = "loop" => needWait'
          /\ svc[s] # "loop" => svc[s] = "connect" /\ needWait' = needWait
          /\ UNCHANGED <<est, mailbox, h2ns>>
      <3>1. CASE Attempt(s)
        BY ONLY <3>1 DEF Attempt, Goto, Running
      <3>2. CASE ConnectFails(s)
        BY ONLY <3>2 DEF ConnectFails, Goto, Running
      <3> QED BY <1>2, <3>1, <3>2
    <2>2. SvcInv' /\ \A r \in Svc : svc'[r] = IF r = s THEN pc ELSE "none"
      BY <2>1, SvcMoves
    <2>3. PastStart /\ needWait'
      BY <2>1 DEF PastStart, PhaseInv
    <2>4. Queued("register")' = Queued("register") /\ Queued("establish")' = Queued("establish")
      BY <2>1 DEF Queued
    <2> QED BY <2>1, <2>2, <2>3, <2>4
            DEF PhaseInv, PastStart, Registered, OrderInv, RegisteredOnce
  <1>3. CASE ConnectSucceeds(s)
    <2>1. /\ Running(s) /\ svc' = [svc EXCEPT ![s] = "release"]
          /\ needWait /\ UNCHANGED <<est, trying, needWait, h2ns>>
          /\ mailbox' = Append(mailbox, "establish")
          /\ mailbox \in Seq(Task) /\ "establish" \in Task
      BY <1>3 DEF ConnectSucceeds, Goto, Running, PhaseInv, TypeOK, Task
    <2>2. SvcInv'
      BY <2>1, SvcMoves
    <2>3. PastStart /\ PastStart'
      BY <2>1 DEF PastStart
    <2>4. Queued("register")' = Queued("register")
      BY <2>1, AppendKeeps DEF Queued
    <2>5. PhaseInv' /\ RegisteredOnce'
      BY <2>1, <2>3, <2>4
         DEF PhaseInv, Registered, RegisteredOnce
    <2>6. OrderInv'
      <3> SUFFICES ASSUME NEW i \in Queued("establish")', h2ns # 1
                   PROVE  \E j \in Queued("register") : j < i
        BY <2>1, <2>4 DEF OrderInv
      <3>1. CASE i \in DOMAIN mailbox
        <4>1. i \in Queued("establish")
          BY <2>1, <3>1, AppendKeeps DEF Queued
        <4> QED BY <4>1 DEF OrderInv
      <3>2. CASE i = Len(mailbox) + 1
        <4>1. PICK j \in DOMAIN mailbox : mailbox[j] = "register"
          BY <2>3 DEF PhaseInv, Registered, Queued
        <4>2. j < i
          BY <2>1, <3>2, <4>1, AppendKeeps
        <4> QED BY <4>1, <4>2 DEF Queued
      <3>3. i \in DOMAIN mailbox'
        BY DEF Queued
      <3> QED BY <2>1, <3>1, <3>2, <3>3, AppendKeeps
    <2> QED BY <2>2, <2>5, <2>6
  <1>4. CASE Release(s)
    <2>1. /\ svc' = [svc EXCEPT ![s] = "none"] /\ svc[s] = "release"
          /\ UNCHANGED <<est, needWait, mailbox, h2ns>>
      BY <1>4 DEF Release, Goto
    <2>2. needWait /\ \A r \in Svc : svc'[r] = "none"
      BY <2>1 DEF PhaseInv, SvcInv, Running, TypeOK
    <2>3. Queued("register")' = Queued("register") /\ Queued("establish")' = Queued("establish")
      BY <2>1 DEF Queued
    <2> QED BY <2>1, <2>2, <2>3
            DEF SvcInv, Running, PhaseInv, PastStart, Registered, OrderInv,
                RegisteredOnce
  <1> QED BY <1>1, <1>2, <1>3, <1>4 DEF Thread

\* The registration leaves the mailbox when it is made.
LEMMA RegisterKeeps ==
    ASSUME IInv, TypeOK', Register
    PROVE  IInv'
  <1> USE DEF IInv
  <1>1. /\ mailbox \in Seq(Task) /\ mailbox # <<>> /\ mailbox' = Tail(mailbox)
        /\ Head(mailbox) = "register"
        /\ h2ns' = h2ns + 1
        /\ UNCHANGED <<est, trying, needWait, svc>>
    BY DEF Register, TypeOK
  <1>2. 1 \in Queued("register")
    BY <1>1, TailShift DEF Queued
  <1>3. h2ns = 0
    BY <1>2 DEF RegisteredOnce, TypeOK
  <1>4. Queued("register")' = {}
    <2> SUFFICES ASSUME NEW i \in DOMAIN mailbox', mailbox'[i] = "register"
                 PROVE  FALSE
      BY DEF Queued
    <2>1. i \in Nat \ {0} /\ i + 1 \in Queued("register")
      BY <1>1, TailShift DEF Queued
    <2>2. i + 1 = 1
      BY <1>2, <2>1 DEF RegisteredOnce
    <2> QED BY <2>1, <2>2
  <1>5. PastStart /\ PastStart'
    BY <1>1, <1>2 DEF PhaseInv, PastStart
  <1> QED BY <1>1, <1>3, <1>4, <1>5
          DEF SvcInv, Running, PhaseInv, Registered, OrderInv, RegisteredOnce

\* An establishing future comes after the registration in the mailbox.
LEMMA EstablishKeeps ==
    ASSUME IInv, TypeOK', Establish
    PROVE  IInv'
  <1> USE DEF IInv
  <1>1. /\ mailbox \in Seq(Task) /\ mailbox # <<>> /\ mailbox' = Tail(mailbox)
        /\ Head(mailbox) = "establish"
        /\ UNCHANGED <<trying, needWait, svc, h2ns>>
    BY DEF Establish, TypeOK
  <1>2. 1 \in Queued("establish")
    BY <1>1, TailShift DEF Queued
  <1>3. h2ns = 1
    <2> SUFFICES ASSUME h2ns # 1 PROVE FALSE
      OBVIOUS
    <2>1. PICK j \in Queued("register") : j < 1
      BY <1>2 DEF OrderInv
    <2> QED BY <1>1, <2>1, TailShift DEF Queued
  <1>4. Queued("register") = {}
    BY <1>3 DEF RegisteredOnce
  <1>5. Queued("register")' = {}
    BY <1>1, <1>4, TailShift DEF Queued
  <1>6. PastStart' = PastStart
    BY <1>1 DEF PastStart
  <1> QED BY <1>1, <1>3, <1>4, <1>5, <1>6
          DEF SvcInv, Running, PhaseInv, Registered, OrderInv, RegisteredOnce

-----------------------------------------------------------------------------
(* Type correctness and invariance.                                        *)

\* Every step keeps the types.
LEMMA NextTypeOK ==
    ASSUME TypeOK, [Next]_vars
    PROVE  TypeOK'
  <1> USE DEF TypeOK
  <1>0. ASSUME Exchange
        PROVE  /\ trying' \in BOOLEAN /\ refused' \in BOOLEAN
               /\ svc' \in [Svc -> {"none", "start", "loop", "connect", "release"}]
    BY <1>0 DEF Exchange
  <1>1. ASSUME NEW a \in App, AppConnect(a) \/ AppExchange(a)
        PROVE  TypeOK'
    BY <1>0, <1>1 DEF AppConnect, AppExchange, bufs
  <1>2. CASE Lost
    BY <1>0, <1>2 DEF Lost, Bytes
  <1>3. ASSUME NEW s \in Svc, Thread(s)
        PROVE  TypeOK'
    <2>1. CASE Start(s)
      <3>1. mailbox' \in Seq(Task)
        BY <2>1, AppendProperties DEF Start, Task
      <3> QED BY <2>1, <3>1 DEF Start, Goto, bufs
    <2>2. CASE Attempt(s) \/ ConnectFails(s) \/ Release(s)
      BY <2>2 DEF Attempt, ConnectFails, Release, Goto, bufs
    <2>3. CASE ConnectSucceeds(s)
      <3>1. mailbox' \in Seq(Task)
        BY <2>3, AppendProperties DEF ConnectSucceeds, Task
      <3> QED BY <2>3, <3>1 DEF ConnectSucceeds, Goto, bufs
    <2> QED BY <1>3, <2>1, <2>2, <2>3 DEF Thread
  <1>4. CASE Register \/ Establish
    <2>1. mailbox' \in Seq(Task)
      BY <1>4, HeadTailProperties DEF Register, Establish
    <2>2. CASE Register
      BY <2>1, <2>2 DEF Register, bufs
    <2>3. CASE Establish
      BY <2>1, <2>3 DEF Establish, Bytes
    <2> QED BY <1>4, <2>2, <2>3
  <1>5. CASE Read \/ Send \/ Heartbeat \/ Flush
    BY <1>5 DEF Read, Send, Heartbeat, Flush, Bytes
  <1>6. CASE UNCHANGED vars
    BY <1>6 DEF vars, bufs
  <1> QED BY <1>1, <1>2, <1>3, <1>4, <1>5, <1>6 DEF Next

\* The invariant is inductive.
LEMMA NextIInv ==
    ASSUME IInv, [Next]_vars
    PROVE  IInv'
  <1>1. TypeOK'
    BY NextTypeOK DEF IInv
  <1>2. ASSUME NEW a \in App, AppConnect(a) \/ AppExchange(a)
        PROVE  IInv'
    BY <1>1, <1>2, QuietStep DEF AppConnect, AppExchange
  <1>3. CASE Lost
    BY <1>1, <1>3, QuietStep DEF Lost
  <1>4. CASE Read \/ Send \/ Heartbeat \/ Flush \/ UNCHANGED vars
    BY <1>1, <1>4, QuietStep DEF Read, Send, Heartbeat, Flush, vars
  <1> QED BY <1>1, <1>2, <1>3, <1>4, ThreadKeeps, RegisterKeeps, EstablishKeeps DEF Next

\* Type correctness, for any number of threads and calls.
THEOREM TypeCorrect == Spec => []TypeOK
  BY InitTypeOK, NextTypeOK, PTL DEF Spec

\* In every reachable state one svc thread at most holds trying, and the channel
\* is registered, or queued for it, once needWait is set and not before.
THEOREM Invariance == Spec => []IInv
  BY InitIInv, NextIInv, PTL DEF Spec

TryingIsHeld == trying => \E s \in Svc : Running(s)

\* Taking trying starts a thread, and the thread that gives it up is the only one.
LEMMA NextHeld ==
    ASSUME IInv, TryingIsHeld, [Next]_vars
    PROVE  TryingIsHeld'
  <1> USE DEF TryingIsHeld, Running
  <1>1. svc \in [Svc -> {"none", "start", "loop", "connect", "release"}]
    BY DEF IInv, TypeOK
  <1>2. ASSUME Exchange PROVE TryingIsHeld'
    BY <1>1, <1>2 DEF Exchange
  <1>3. ASSUME UNCHANGED <<trying, svc>> PROVE TryingIsHeld'
    BY <1>3
  <1>4. ASSUME NEW s \in Svc, Thread(s) PROVE TryingIsHeld'
    <2>1. CASE Release(s)
      BY <2>1 DEF Release
    <2>2. CASE ~Release(s)
      <3>1. \E pc \in {"loop", "connect", "release"} : svc' = [svc EXCEPT ![s] = pc]
        BY <1>4, <2>2 DEF Thread, Start, Attempt, ConnectFails, ConnectSucceeds, Goto
      <3>2. svc'[s] # "none"
        BY <1>1, <3>1
      <3> QED BY <3>2
    <2> QED BY <2>1, <2>2
  <1>5. ASSUME NEW a \in App, AppConnect(a) \/ AppExchange(a) PROVE TryingIsHeld'
    BY <1>2, <1>3, <1>5 DEF AppConnect, AppExchange
  <1>6. CASE Lost
    BY <1>2, <1>3, <1>6 DEF Lost
  <1>7. CASE Register \/ Establish \/ Read \/ Send \/ Heartbeat \/ Flush \/ UNCHANGED vars
    BY <1>3, <1>7 DEF Register, Establish, Read, Send, Heartbeat, Flush, vars
  <1> QED BY <1>4, <1>5, <1>6, <1>7 DEF Next

(* At most one svc thread exists, and trying is set exactly as long as it does: as long
   as connect() is refused for it, somebody runs who will release it. *)
THEOREM SingleSvc == Spec => []AtMostOneSvc
  <1>1. Init => TryingIsHeld
    BY DEF Init, TryingIsHeld
  <1>2. IInv /\ TryingIsHeld => AtMostOneSvc
    BY DEF IInv, SvcInv, TryingIsHeld, AtMostOneSvc
  <1> QED BY <1>1, <1>2, NextHeld, Invariance, PTL DEF Spec

\* The channel is put into the worker's list h2ns at most once, and an established
\* channel is in it, so its dida() runs.
THEOREM SingleRegistration == Spec => []RegisteredOnce
  <1>1. IInv => RegisteredOnce
    BY DEF IInv, RegisteredOnce
  <1> QED BY <1>1, Invariance, PTL

-----------------------------------------------------------------------------
(* Connections do not mix.                                                 *)

\* Only a connection that is lost leaves stale bytes, and the next starts empty.
LEMMA NextDoesNotMix ==
    ASSUME ConnectionsDoNotMix, [Next]_vars
    PROVE  ConnectionsDoNotMix'
  <1> USE DEF ConnectionsDoNotMix
  <1>1. CASE Read \/ Send \/ Heartbeat \/ Flush \/ Establish \/ Lost
    BY <1>1 DEF Read, Send, Heartbeat, Flush, Establish, Lost
  <1>2. ASSUME UNCHANGED <<est, bufs>> PROVE ConnectionsDoNotMix'
    BY <1>2 DEF bufs
  <1>3. CASE Register \/ UNCHANGED vars
    BY <1>2, <1>3 DEF Register, vars
  <1>4. ASSUME NEW a \in App, AppConnect(a) \/ AppExchange(a)
        PROVE  ConnectionsDoNotMix'
    BY <1>2, <1>4 DEF AppConnect, AppExchange
  <1>5. ASSUME NEW s \in Svc, Thread(s)
        PROVE  ConnectionsDoNotMix'
    BY <1>2, <1>5 DEF Thread, Start, Attempt, ConnectFails, ConnectSucceeds, Release
  <1> QED BY <1>1, <1>3, <1>4, <1>5 DEF Next

\* Bytes of a lost connection never meet those of the next.
THEOREM NoMixing == Spec => []ConnectionsDoNotMix
  <1>1. Init => ConnectionsDoNotMix
    BY DEF Init, ConnectionsDoNotMix
  <1> QED BY <1>1, NextDoesNotMix, PTL DEF Spec

-----------------------------------------------------------------------------
(* One connection.  While the application has called connect() once, a     *)
(* thread that is still to connect, a future that establishes and an       *)
(* established channel exclude each other.                                 *)

Checked(a) == app[a] = "checked"

Untouched ==
    /\ ~est
    /\ Queued("establish") = {}
    /\ \A s \in Svc : ~Running(s)

OneInv ==
    calls <= 1 =>
        /\ calls = 0 => \A a \in App : ~Checked(a)
        /\ \A a, b \in App : Checked(a) /\ Checked(b) => a = b
        /\ calls = 0 \/ (\E a \in App : Checked(a)) => Untouched
        /\ Trying => ~est /\ Queued("establish") = {}
        /\ OneConnection

\* The first call of connect() finds nothing done.
LEMMA AppConnectOne ==
    ASSUME TypeOK, OneInv, NEW a \in App, AppConnect(a)
    PROVE  OneInv'
  <1> SUFFICES ASSUME calls' <= 1
               PROVE  OneInv'
    BY DEF OneInv
  <1>1. /\ calls \in Nat /\ calls' = calls + 1
        /\ app' = [app EXCEPT ![a] = IF est THEN "idle" ELSE "checked"]
        /\ UNCHANGED <<est, svc, mailbox>>
    BY DEF AppConnect, TypeOK
  <1>2. calls = 0 /\ calls' = 1
    BY <1>1
  <1>3. Untouched /\ \A b \in App : ~Checked(b)
    BY <1>2 DEF OneInv
  <1>4. \A b \in App : Checked(b)' => b = a
    BY <1>1, <1>3 DEF Checked, TypeOK
  <1>5. /\ Untouched'
        /\ OneConnection'
    BY <1>1, <1>3 DEF Untouched, OneConnection, Queued, Running
  <1> QED BY <1>2, <1>4, <1>5 DEF OneInv, Untouched

\* A thread is started only when nothing is established or about to be.
LEMMA ExchangeOne ==
    ASSUME IInv, OneInv,
           \/ \E a \in App : AppExchange(a)
           \/ Lost
    PROVE  OneInv'
  <1> SUFFICES ASSUME calls <= 1
               PROVE  OneInv'
    BY DEF OneInv, AppExchange, Lost
  <1>1. /\ Exchange \/ UNCHANGED <<trying, svc, refused>>
        /\ UNCHANGED <<mailbox, calls>> /\ ~est'
    BY DEF AppExchange, Lost, OneInv, Checked, Untouched
  <1>2. Queued("establish") = {} /\ Queued("establish")' = {}
    BY <1>1 DEF AppExchange, Lost, OneInv, Checked, Untouched, Queued, OneConnection
  <1>3. \A a \in App : ~Checked(a)'
    <2>1. ASSUME NEW a \in App, AppExchange(a), NEW b \in App
          PROVE  ~Checked(b)'
      <3>1. Checked(a) /\ app' = [app EXCEPT ![a] = "idle"]
        BY <2>1 DEF AppExchange, Checked
      <3>2. Checked(b) => b = a
        BY <3>1 DEF OneInv
      <3> QED BY <3>1, <3>2 DEF Checked, IInv, TypeOK
    <2>2. ASSUME Lost, NEW b \in App
          PROVE  ~Checked(b)'
      BY <2>2 DEF Lost, OneInv, Untouched, Checked
    <2> QED BY <2>1, <2>2
  <1>4. calls # 0
    <2>1. ASSUME NEW a \in App, AppExchange(a) PROVE calls # 0
      BY <2>1 DEF AppExchange, OneInv, Checked
    <2>2. ASSUME Lost PROVE calls # 0
      BY <2>2 DEF Lost, OneInv, Untouched
    <2> QED BY <2>1, <2>2
  <1>5. OneConnection'
    BY <1>1, <1>2 DEF OneConnection
  <1> QED BY <1>1, <1>2, <1>3, <1>4, <1>5 DEF OneInv

\* A thread that posts the establishing future is past connecting.
LEMMA ThreadOne ==
    ASSUME IInv, OneInv, NEW s \in Svc, Thread(s)
    PROVE  OneInv'
  <1>0. UNCHANGED <<calls, app, est>> /\ Running(s)
    BY DEF Thread, Start, Attempt, ConnectFails, ConnectSucceeds, Release, Running
  <1> SUFFICES ASSUME calls <= 1
               PROVE  OneInv'
    BY <1>0 DEF OneInv
  <1>1. calls # 0 /\ \A a \in App : ~Checked(a) /\ ~Checked(a)'
    BY <1>0 DEF OneInv, Untouched, Checked
  <1>2. /\ Trying => ~est /\ Queued("establish") = {}
        /\ OneConnection
    BY DEF OneInv
  <1>3. CASE Start(s)
    <2>1. Trying
      BY <1>3 DEF Start, Trying
    <2>2. Queued("establish")' = {}
      <3>1. CASE mailbox' = mailbox
        BY <1>2, <2>1, <3>1 DEF Queued
      <3>2. CASE mailbox' = Append(mailbox, "register")
        <4>1. mailbox \in Seq(Task) /\ "register" \in Task
          BY DEF IInv, TypeOK, Task
        <4> QED BY <1>2, <2>1, <3>2, <4>1, AppendKeeps DEF Queued
      <3> QED BY <1>3, <3>1, <3>2 DEF Start
    <2>3. ~est'
      BY <1>0, <1>2, <2>1
    <2> QED BY <1>0, <1>1, <2>2, <2>3 DEF OneInv, OneConnection
  <1>4. CASE Attempt(s) \/ ConnectFails(s)
    <2>1. Trying /\ mailbox' = mailbox
      BY <1>4 DEF Attempt, ConnectFails, Trying
    <2>2. Queued("establish")' = {} /\ ~est'
      BY <1>0, <1>2, <2>1 DEF Queued
    <2> QED BY <1>0, <1>1, <2>2 DEF OneInv, OneConnection
  <1>5. CASE ConnectSucceeds(s)
    <2>1. /\ Trying /\ svc' = [svc EXCEPT ![s] = "release"]
          /\ mailbox' = Append(mailbox, "establish")
          /\ mailbox \in Seq(Task) /\ "establish" \in Task
      BY <1>5 DEF ConnectSucceeds, Goto, Trying, IInv, TypeOK, Task
    <2>2. Queued("establish")' = {Len(mailbox) + 1}
      BY <1>2, <2>1, AppendKeeps DEF Queued
    <2>3. ~Trying'
      <3>1. \A r \in Svc : r # s => svc[r] = "none"
        BY <1>0 DEF IInv, SvcInv, Running
      <3>2. \A r \in Svc : svc'[r] = IF r = s THEN "release" ELSE "none"
        BY <2>1, <3>1 DEF IInv, TypeOK
      <3> QED BY <3>2 DEF Trying
    <2>4. ~est'
      BY <1>0, <1>2, <2>1
    <2> QED BY <1>0, <1>1, <2>2, <2>3, <2>4 DEF OneInv, OneConnection
  <1>6. CASE Release(s)
    <2>1. mailbox' = mailbox /\ svc' = [svc EXCEPT ![s] = "none"]
      BY <1>6 DEF Release, Goto
    <2>2. Trying' => Trying
      BY <2>1 DEF Trying, IInv, TypeOK
    <2>3. Queued("establish")' = Queued("establish")
      BY <2>1 DEF Queued
    <2> QED BY <1>0, <1>1, <1>2, <2>2, <2>3 DEF OneInv, OneConnection
  <1> QED BY <1>3, <1>4, <1>5, <1>6 DEF Thread

\* The worker establishes the channel with the only future there is for it.
LEMMA WorkerOne ==
    ASSUME IInv, OneInv, Register \/ Establish
    PROVE  OneInv'
  <1>0. /\ UNCHANGED <<calls, app, svc>>
        /\ mailbox \in Seq(Task) /\ mailbox # <<>> /\ mailbox' = Tail(mailbox)
    BY DEF Register, Establish, IInv, TypeOK
  <1> SUFFICES ASSUME calls <= 1
               PROVE  OneInv'
    BY <1>0 DEF OneInv
  <1>1. \A i \in Queued("establish")' : i \in Nat /\ i # 0 /\ i + 1 \in Queued("establish")
    BY <1>0, TailShift DEF Queued
  <1>2. Trying' <=> Trying
    BY <1>0 DEF Trying
  <1>3. \A i, j \in Queued("establish") : i = j
    BY DEF OneInv, OneConnection
  <1>4. CASE Register
    <2>1. est' = est
      BY <1>4 DEF Register
    <2>2. Queued("establish") = {} => Queued("establish")' = {}
      BY <1>1
    <2>3. \A i, j \in Queued("establish")' : i = j
      <3> SUFFICES ASSUME NEW i \in Queued("establish")', NEW j \in Queued("establish")'
                   PROVE  i = j
        OBVIOUS
      <3>1. i + 1 = j + 1
        BY <1>1, <1>3
      <3> QED BY <1>1, <3>1
    <2>4. OneConnection'
      BY <2>1, <2>2, <2>3 DEF OneConnection, OneInv
    <2>5. Untouched => Untouched'
      BY <1>0, <2>1, <2>2 DEF Untouched, Running
    <2> QED BY <1>0, <1>2, <2>1, <2>2, <2>4, <2>5 DEF OneInv, Checked
  <1>5. CASE Establish
    <2>1. 1 \in Queued("establish")
      BY <1>0, <1>5, TailShift DEF Establish, Queued
    <2>2. Queued("establish")' = {}
      <3> SUFFICES ASSUME NEW i \in Queued("establish")' PROVE FALSE
        OBVIOUS
      <3>1. i + 1 = 1
        BY <1>1, <1>3, <2>1
      <3> QED BY <1>1, <3>1
    <2>3. ~Trying' /\ ~Untouched
      BY <1>2, <2>1 DEF OneInv, Untouched
    <2>4. calls # 0 /\ \A a \in App : ~Checked(a)
      BY <2>3 DEF OneInv
    <2>5. OneConnection'
      BY <2>2 DEF OneConnection
    <2> QED BY <1>0, <2>3, <2>4, <2>5 DEF OneInv, Checked
  <1> QED BY <1>4, <1>5

\* Every step keeps the invariant.
LEMMA NextOne ==
    ASSUME IInv, OneInv, [Next]_vars
    PROVE  OneInv'
  <1>1. CASE Read \/ Send \/ Heartbeat \/ Flush \/ UNCHANGED vars
    <2>1. UNCHANGED <<est, svc, app, mailbox, calls>>
      BY <1>1 DEF Read, Send, Heartbeat, Flush, vars
    <2> QED BY <2>1 DEF OneInv, Checked, Untouched, Trying, OneConnection, Queued, Running
  <1>2. TypeOK
    BY DEF IInv
  <1> QED BY <1>1, <1>2, AppConnectOne, ExchangeOne, ThreadOne, WorkerOne DEF Next

\* If the application calls connect() once, the channel has one connection at a
\* time, however often it is lost and whatever evnDisc() does.
THEOREM OneAtATime == Spec => []ReconnectsOnce
  <1>1. Init => OneInv
    BY DEF Init, OneInv, Checked, Untouched, Trying, OneConnection, Queued, Running
  <1>2. IInv /\ OneInv /\ [Next]_vars => OneInv'
    BY NextOne
  <1>3. OneInv => ReconnectsOnce
    BY DEF OneInv, ReconnectsOnce
  <1> QED BY <1>1, <1>2, <1>3, Invariance, PTL DEF Spec

-----------------------------------------------------------------------------
(* No accepted connect() is dropped.                                       *)

Pending == Queued("establish") # {}

\* A thread that connects posts the future before it is past connecting, and only
\* the worker takes the future, with which it establishes the channel.
LEMMA CycleStep ==
    ASSUME IInv, [Next]_vars
    PROVE  [Cycle!Next]_(Cycle!cycleVars)
  <1> USE DEF Cycle!Next, Cycle!Ask, Cycle!Succeed, Cycle!Lose, Cycle!cycleVars
  <1>1. svc \in [Svc -> {"none", "start", "loop", "connect", "release"}] /\ est \in BOOLEAN
        /\ mailbox \in Seq(Task) /\ "register" \in Task /\ "establish" \in Task
    BY DEF IInv, TypeOK, Task
  <1>2. ASSUME est' = est, Trying' <=> Trying, Pending' <=> Pending
        PROVE  UNCHANGED Cycle!cycleVars
    BY <1>2 DEF Pending
  <1>3. ASSUME est' = est, Pending' <=> Pending, Trying => Trying'
        PROVE  [Cycle!Next]_(Cycle!cycleVars)
    BY <1>1, <1>3 DEF Pending
  <1>4. ASSUME mailbox' = mailbox
        PROVE  Pending' <=> Pending
    BY <1>4 DEF Pending, Queued
  <1>5. ASSUME Exchange
        PROVE  Trying => Trying'
    BY <1>1, <1>5 DEF Exchange, Trying
  <1>6. ASSUME NEW s \in Svc, Thread(s)
        PROVE  [Cycle!Next]_(Cycle!cycleVars)
    <2>1. est' = est
      BY <1>6 DEF Thread, Start, Attempt, ConnectFails, ConnectSucceeds, Release
    <2>2. CASE Start(s) \/ Attempt(s) \/ ConnectFails(s)
      <3>1. Trying'
        <4>1. \E pc \in {"loop", "connect"} : svc' = [svc EXCEPT ![s] = pc]
          BY <2>2 DEF Start, Attempt, ConnectFails, Goto
        <4>2. svc'[s] \in {"start", "loop", "connect"}
          BY <1>1, <4>1
        <4> QED BY <4>2 DEF Trying
      <3>2. Trying
        BY <2>2 DEF Start, Attempt, ConnectFails, Trying
      <3> QED BY <2>1, <3>1, <3>2
    <2>3. CASE ConnectSucceeds(s)
      <3>1. Trying
        BY <2>3 DEF ConnectSucceeds, Trying
      <3>2. Pending'
        BY <1>1, <2>3, AppendKeeps DEF ConnectSucceeds, Pending, Queued
      <3> QED BY <2>1, <3>1, <3>2 DEF Pending
    <2>4. CASE Release(s)
      <3>1. Trying' <=> Trying
        BY <1>1, <2>4 DEF Release, Goto, Trying
      <3>2. Pending' <=> Pending
        BY <1>4, <2>4 DEF Release
      <3> QED BY <1>2, <2>1, <3>1, <3>2
    <2> QED BY <1>6, <2>2, <2>3, <2>4 DEF Thread
  <1>7. ASSUME NEW a \in App, AppConnect(a) \/ AppExchange(a)
        PROVE  [Cycle!Next]_(Cycle!cycleVars)
    <2>1. est' = est /\ (Exchange \/ svc' = svc) /\ (Pending' <=> Pending)
      BY <1>4, <1>7 DEF AppConnect, AppExchange
    <2>2. Trying => Trying'
      BY <1>5, <2>1 DEF Trying
    <2> QED BY <1>3, <2>1, <2>2
  <1>8. CASE Lost
    <2>1. est /\ ~est'
      BY <1>8 DEF Lost
    <2> QED BY <2>1
  <1>9. CASE Register
    <2>1. est' = est /\ svc' = svc /\ mailbox' = Tail(mailbox) /\ mailbox # <<>>
          /\ Head(mailbox) = "register"
      BY <1>9 DEF Register
    <2>2. Pending' <=> Pending
      <3>1. ASSUME NEW i \in DOMAIN mailbox, mailbox[i] = "establish"
            PROVE  i - 1 \in DOMAIN mailbox' /\ mailbox'[i - 1] = "establish"
        <4>1. i # 1
          BY <1>1, <2>1, <3>1, TailShift
        <4> QED BY <1>1, <2>1, <3>1, <4>1, TailShift
      <3>2. \A i \in DOMAIN mailbox' : i + 1 \in DOMAIN mailbox /\ mailbox'[i] = mailbox[i + 1]
        BY <1>1, <2>1, TailShift
      <3> QED BY <3>1, <3>2 DEF Pending, Queued
    <2>3. Trying' <=> Trying
      BY <2>1 DEF Trying
    <2> QED BY <1>2, <2>1, <2>2, <2>3
  <1>10. CASE Establish
    <2>1. Pending
      BY <1>1, <1>10, TailShift DEF Establish, Pending, Queued
    <2>2. est' = TRUE
      BY <1>10 DEF Establish
    <2> QED BY <2>1, <2>2 DEF Pending
  <1>11. CASE Read \/ Send \/ Heartbeat \/ Flush \/ UNCHANGED vars
    <2>1. est' = est /\ svc' = svc /\ mailbox' = mailbox
      BY <1>11 DEF Read, Send, Heartbeat, Flush, vars
    <2>2. Trying' <=> Trying
      BY <2>1 DEF Trying
    <2> QED BY <1>2, <1>4, <2>1, <2>2
  <1> QED BY <1>6, <1>7, <1>8, <1>9, <1>10, <1>11 DEF Next

(* For any number of threads and calls, the channel goes round the abstract cycle: an
   accepted connect() is pending, in a thread or in the mailbox, until it has made the
   channel established. *)
THEOREM ImplementsConnectionCycle == Spec => CycleSpec
  <1>1. Init => Cycle!Init
    BY DEF Init, Cycle!Init, Trying, Queued
  <1>2. IInv /\ [Next]_vars => [Cycle!Next]_(Cycle!cycleVars)
    BY CycleStep
  <1> QED BY <1>1, <1>2, Invariance, PTL DEF Spec, CycleSpec, Cycle!Spec
===========================================================================
