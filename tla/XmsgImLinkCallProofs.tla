------------------------ MODULE XmsgImLinkCallProofs ------------------------
(* XmsgImLink implements RemoteCall. *)
EXTENDS XmsgImLinkProofs

-----------------------------------------------------------------------------
(* What the refinement needs beside IInv.                                  *)

\* Nothing is pending, or waits to be, that is settled.
OpenInv ==
    /\ \A o \in Object, i \in Tid :
          transInit[o][i] # NoTrans => outcome[transInit[o][i]] = "open"
    /\ \A o \in Object : \A e \in Held(mailbox[o]) :
          e.op = "begin" => outcome[e.of] = "open"

\* An END of a is under way.
EndAt(w, a) == \E c \in Conn : \E p \in Held(w[c]) : p.op = "end" /\ p.of = a

\* There is one END of a transaction, on one connection.
EndsOnce(w) ==
    /\ \A c \in Conn : OnceIn(w[c], "end")
    /\ \A c, d \in Conn : \A p \in Held(w[c]), q \in Held(w[d]) :
          p.op = "end" /\ q.op = "end" /\ p.of = q.of => c = d

\* The answer a callback was told of is off the wire, and no other was told of it.
UsedInv ==
    \A t \in Trans : answer[t] # NoTrans =>
        /\ ~EndAt(up, answer[t])
        /\ ~EndAt(down, answer[t])
        /\ \A u \in Trans : answer[u] = answer[t] => u = t

CInv == IInv /\ OpenInv /\ EndsOnce(up) /\ EndsOnce(down) /\ UsedInv

LEMMA EndsIs ==
    /\ EndsOnce(up') => EndsOnce(up)'
    /\ EndsOnce(down') => EndsOnce(down)'
  BY DEF EndsOnce, OnceIn, Held

\* Connections v are those of w, with a PDU more on connection b.
Appended(w, v, b, pdu) ==
    /\ w \in [Conn -> Seq(Pdu)] /\ b \in Conn /\ pdu \in Pdu
    /\ v = [w EXCEPT ![b] = Append(w[b], pdu)]

\* Connections v are those of w, without the first PDU of connection b.
Taken(w, v, b) ==
    /\ w \in [Conn -> Seq(Pdu)] /\ b \in Conn /\ w[b] # <<>>
    /\ v = [w EXCEPT ![b] = Tail(w[b])]

\* A PDU more on one connection.
LEMMA EndsAppend ==
    ASSUME NEW w, NEW v, NEW b, NEW pdu, Appended(w, v, b, pdu),
           EndsOnce(w), ~(pdu.op = "end" /\ EndAt(w, pdu.of))
    PROVE  /\ EndsOnce(v)
           /\ \A a : EndAt(v, a) => EndAt(w, a) \/ (pdu.op = "end" /\ a = pdu.of)
  <1>0. /\ w \in [Conn -> Seq(Pdu)] /\ b \in Conn /\ pdu \in Pdu
        /\ v = [w EXCEPT ![b] = Append(w[b], pdu)]
    BY DEF Appended
  <1>1. \A c \in Conn : IF c = b THEN v[c] = Append(w[b], pdu) ELSE v[c] = w[c]
    BY <1>0
  <1>2. /\ Held(Append(w[b], pdu)) = Held(w[b]) \cup {pdu}
        /\ \A op : /\ OnceIn(w[b], op)
                   /\ pdu.op # op \/ \A h \in Held(w[b]) : h.op = op => h.of # pdu.of
                   => OnceIn(Append(w[b], pdu), op)
    <2>1. w[b] \in Seq(Pdu)
      BY <1>0
    <2> QED BY <1>0, <2>1, HeldAppend
  <1>3. \A c \in Conn : \A p \in Held(v[c]) : p \in Held(w[c]) \/ (c = b /\ p = pdu)
    BY <1>1, <1>2
  <1>4. pdu.op = "end" =>
           \A c \in Conn : \A h \in Held(w[c]) : h.op = "end" => h.of # pdu.of
    BY DEF EndAt
  <1>5. \A c \in Conn : OnceIn(v[c], "end")
    <2> SUFFICES ASSUME NEW c \in Conn PROVE OnceIn(v[c], "end")
      OBVIOUS
    <2>1. OnceIn(w[c], "end")
      BY DEF EndsOnce
    <2>2. CASE c = b
      BY <1>1, <1>2, <1>4, <2>1, <2>2
    <2>3. CASE c # b
      BY <1>1, <2>1, <2>3
    <2> QED BY <2>2, <2>3
  <1>6. \A c, d \in Conn : \A p \in Held(v[c]), q \in Held(v[d]) :
           p.op = "end" /\ q.op = "end" /\ p.of = q.of => c = d
    <2> SUFFICES ASSUME NEW c \in Conn, NEW d \in Conn,
                        NEW p \in Held(v[c]), NEW q \in Held(v[d]),
                        p.op = "end", q.op = "end", p.of = q.of
                 PROVE  c = d
      OBVIOUS
    <2>1. CASE p \in Held(w[c]) /\ q \in Held(w[d])
      BY <2>1 DEF EndsOnce
    <2>2. CASE p \in Held(w[c]) /\ d = b /\ q = pdu
      BY <1>4, <2>2
    <2>3. CASE c = b /\ p = pdu /\ q \in Held(w[d])
      BY <1>4, <2>3
    <2> QED BY <1>3, <2>1, <2>2, <2>3
  <1>7. \A a : EndAt(v, a) => EndAt(w, a) \/ (pdu.op = "end" /\ a = pdu.of)
    BY <1>3 DEF EndAt
  <1> QED BY <1>5, <1>6, <1>7 DEF EndsOnce

\* The first PDU of one connection is taken.
LEMMA EndsTake ==
    ASSUME NEW w, NEW v, NEW b, Taken(w, v, b), EndsOnce(w)
    PROVE  /\ EndsOnce(v)
           /\ \A a : EndAt(v, a) => EndAt(w, a)
           /\ Head(w[b]).op = "end" =>
                 EndAt(w, Head(w[b]).of) /\ ~EndAt(v, Head(w[b]).of)
  <1> DEFINE h == Head(w[b])
  <1>0. /\ w \in [Conn -> Seq(Pdu)] /\ b \in Conn /\ w[b] # <<>>
        /\ v = [w EXCEPT ![b] = Tail(w[b])]
    BY DEF Taken
  <1>1. \A c \in Conn : IF c = b THEN v[c] = Tail(w[b]) ELSE v[c] = w[c]
    BY <1>0
  <1>2. /\ h \in Held(w[b])
        /\ Held(Tail(w[b])) \subseteq Held(w[b])
        /\ \A op : OnceIn(w[b], op) =>
              /\ OnceIn(Tail(w[b]), op)
              /\ \A p \in Held(Tail(w[b])) : p.op = op /\ h.op = op => p.of # h.of
    <2>1. w[b] \in Seq(Pdu)
      BY <1>0
    <2> QED BY <1>0, <2>1, HeldTail
  <1> HIDE DEF h
  <1>3. \A c \in Conn : OnceIn(w[c], "end")
    BY DEF EndsOnce
  <1>4. \A c \in Conn : Held(v[c]) \subseteq Held(w[c]) /\ OnceIn(v[c], "end")
    BY <1>1, <1>2, <1>3
  <1>5. \A c, d \in Conn : \A p \in Held(v[c]), q \in Held(v[d]) :
           p.op = "end" /\ q.op = "end" /\ p.of = q.of => c = d
    BY <1>4 DEF EndsOnce
  <1>6. \A a : EndAt(v, a) => EndAt(w, a)
    BY <1>4 DEF EndAt
  <1>7. ASSUME h.op = "end" PROVE EndAt(w, h.of) /\ ~EndAt(v, h.of)
    <2>1. EndAt(w, h.of)
      BY <1>0, <1>2, <1>7 DEF EndAt
    <2>2. ASSUME NEW c \in Conn, NEW p \in Held(v[c]), p.op = "end", p.of = h.of
          PROVE  FALSE
      <3>1. c = b
        BY <1>0, <1>2, <1>4, <1>7, <2>2 DEF EndsOnce
      <3> QED BY <1>1, <1>2, <1>3, <1>7, <2>2, <3>1
    <2> QED BY <2>1, <2>2 DEF EndAt
  <1> QED BY <1>4, <1>5, <1>6, <1>7 DEF EndsOnce, h

\* Some connections are emptied.
LEMMA EndsUnread ==
    ASSUME NEW w, NEW v, EndsOnce(w), \A c \in Conn : v[c] \in {<<>>, w[c]}
    PROVE  EndsOnce(v) /\ \A a : EndAt(v, a) => EndAt(w, a)
  <1>1. \A c \in Conn : OnceIn(w[c], "end")
    BY DEF EndsOnce
  <1>2. \A c \in Conn : Held(v[c]) \subseteq Held(w[c]) /\ OnceIn(v[c], "end")
    BY <1>1, HeldEmpty
  <1>3. \A c, d \in Conn : \A p \in Held(v[c]), q \in Held(v[d]) :
           p.op = "end" /\ q.op = "end" /\ p.of = q.of => c = d
    BY <1>2 DEF EndsOnce
  <1> QED BY <1>2, <1>3 DEF EndsOnce, EndAt

-----------------------------------------------------------------------------
(* What the steps do to the ENDs under way.                                *)

\* No END is put on a wire.
NoNewEnds ==
    /\ EndsOnce(up') /\ EndsOnce(down')
    /\ \A a : EndAt(up', a) => EndAt(up, a)
    /\ \A a : EndAt(down', a) => EndAt(down, a)

LEMMA SendEnds ==
    ASSUME CInv, NEW o \in Object, NEW pdu \in Pdu, SendPdu(o, pdu),
           ~(pdu.op = "end" /\ EndAt(up, pdu.of)),
           ~(pdu.op = "end" /\ EndAt(down, pdu.of))
    PROVE  /\ EndsOnce(up') /\ EndsOnce(down')
           /\ \A a : EndAt(up', a) => EndAt(up, a) \/ (pdu.op = "end" /\ a = pdu.of)
           /\ \A a : EndAt(down', a) => EndAt(down, a) \/ (pdu.op = "end" /\ a = pdu.of)
  <1>1. TypeOK /\ BornInv /\ EndsOnce(up) /\ EndsOnce(down)
    BY DEF CInv, IInv
  <1>2. up \in [Conn -> Seq(Pdu)] /\ down \in [Conn -> Seq(Pdu)]
    BY <1>1 DEF TypeOK
  <1>3. CASE est[o] /\ o = 0 /\ est[conn] /\ up' = [up EXCEPT ![conn] = Append(@, pdu)]
             /\ UNCHANGED down
    <2>1. conn \in Conn
      BY <1>1, <1>3 DEF TypeOK, BornInv, Conn
    <2>2. up' = [up EXCEPT ![conn] = Append(up[conn], pdu)] /\ down' = down
      BY <1>3
    <2>3. /\ EndsOnce(up')
          /\ \A a : EndAt(up', a) => EndAt(up, a) \/ (pdu.op = "end" /\ a = pdu.of)
      <3>1. Appended(up, up', conn, pdu)
        BY <1>2, <2>1, <2>2 DEF Appended
      <3> QED BY <1>1, <3>1, EndsAppend
    <2> QED BY <1>1, <2>2, <2>3
  <1>4. CASE est[o] /\ o > 0 /\ est[0] /\ conn = o
             /\ down' = [down EXCEPT ![o] = Append(@, pdu)] /\ UNCHANGED up
    <2>1. o \in Conn
      BY <1>4, Types
    <2>2. down' = [down EXCEPT ![o] = Append(down[o], pdu)] /\ up' = up
      BY <1>4
    <2>3. /\ EndsOnce(down')
          /\ \A a : EndAt(down', a) => EndAt(down, a) \/ (pdu.op = "end" /\ a = pdu.of)
      <3>1. Appended(down, down', o, pdu)
        BY <1>2, <2>1, <2>2 DEF Appended
      <3> QED BY <1>1, <3>1, EndsAppend
    <2> QED BY <1>1, <2>2, <2>3
  <1>5. CASE UNCHANGED wires
    <2>1. up' = up /\ down' = down
      BY <1>5 DEF wires
    <2> QED BY <1>1, <2>1
  <1> QED BY <1>3, <1>4, <1>5 DEF SendPdu

LEMMA TakeEnds ==
    ASSUME CInv, NEW o \in Object, Take(o)
    PROVE  /\ NoNewEnds
           /\ Head(Incoming(o)).op = "end" =>
                 /\ EndAt(up, Head(Incoming(o)).of) \/ EndAt(down, Head(Incoming(o)).of)
                 /\ ~EndAt(up', Head(Incoming(o)).of)
                 /\ ~EndAt(down', Head(Incoming(o)).of)
  <1>1. /\ TypeOK /\ BornInv /\ EndsOnce(up) /\ EndsOnce(down)
        /\ WireInv(up, Accept, Dial) /\ WireInv(down, Dial, Accept)
    BY DEF CInv, IInv
  <1>2. up \in [Conn -> Seq(Pdu)] /\ down \in [Conn -> Seq(Pdu)]
    BY <1>1 DEF TypeOK
  \* An END is on its way to the side where its transaction was begun.
  <1>3. \A a : ~(EndAt(up, a) /\ EndAt(down, a))
    <2>1. \A a : EndAt(up, a) => a \in Accept
      BY <1>1 DEF WireInv, EndAt
    <2>2. \A a : EndAt(down, a) => a \in Dial
      BY <1>1 DEF WireInv, EndAt
    <2> QED BY <2>1, <2>2, Types
  <1>4. CASE o = 0 /\ down' = [down EXCEPT ![ConnOf(o)] = Tail(@)] /\ UNCHANGED up
    <2>1. /\ conn \in Conn /\ ConnOf(o) = conn
          /\ Incoming(o) = down[conn] /\ down[conn] # <<>>
      BY <1>1, <1>4 DEF TypeOK, BornInv, Conn, Take, ConnOf, Incoming
    <2>2. down' = [down EXCEPT ![conn] = Tail(down[conn])] /\ up' = up
      BY <1>4, <2>1
    <2>3. /\ EndsOnce(down')
          /\ \A a : EndAt(down', a) => EndAt(down, a)
          /\ Head(down[conn]).op = "end" =>
                EndAt(down, Head(down[conn]).of) /\ ~EndAt(down', Head(down[conn]).of)
      <3>1. Taken(down, down', conn)
        BY <1>2, <2>1, <2>2 DEF Taken
      <3> QED BY <1>1, <3>1, EndsTake
    <2> QED BY <1>1, <1>3, <2>1, <2>2, <2>3 DEF NoNewEnds
  <1>5. CASE o > 0 /\ up' = [up EXCEPT ![ConnOf(o)] = Tail(@)] /\ UNCHANGED down
    <2>1. /\ o \in Conn /\ ConnOf(o) = o
          /\ Incoming(o) = up[o] /\ up[o] # <<>>
      BY <1>5, Types DEF Take, ConnOf, Incoming
    <2>2. up' = [up EXCEPT ![o] = Tail(up[o])] /\ down' = down
      BY <1>5, <2>1
    <2>3. /\ EndsOnce(up')
          /\ \A a : EndAt(up', a) => EndAt(up, a)
          /\ Head(up[o]).op = "end" =>
                EndAt(up, Head(up[o]).of) /\ ~EndAt(up', Head(up[o]).of)
      <3>1. Taken(up, up', o)
        BY <1>2, <2>1, <2>2 DEF Taken
      <3> QED BY <1>1, <3>1, EndsTake
    <2> QED BY <1>1, <1>3, <2>1, <2>2, <2>3 DEF NoNewEnds
  <1> QED BY <1>4, <1>5 DEF Take

LEMMA UnreadEnds ==
    ASSUME CInv, NEW o \in Object, Unread(o) PROVE NoNewEnds
  <1>1. /\ \A c \in Conn : up'[c] \in {<<>>, up[c]}
        /\ \A c \in Conn : down'[c] \in {<<>>, down[c]}
    BY DEF Unread
  <1>2. EndsOnce(up') /\ \A a : EndAt(up', a) => EndAt(up, a)
    BY <1>1, EndsUnread DEF CInv
  <1>3. EndsOnce(down') /\ \A a : EndAt(down', a) => EndAt(down, a)
    BY <1>1, EndsUnread DEF CInv
  <1> QED BY <1>2, <1>3 DEF NoNewEnds

LEMMA SameEnds ==
    ASSUME CInv, UNCHANGED wires PROVE NoNewEnds
  BY DEF CInv, NoNewEnds, wires

-----------------------------------------------------------------------------
(* Nothing settled is pending.                                             *)

\* OpenInv after a step.
OpenNext ==
    /\ \A o \in Object, i \in Tid :
          transInit'[o][i] # NoTrans => outcome'[transInit'[o][i]] = "open"
    /\ \A o \in Object : \A e \in Held(mailbox'[o]) :
          e.op = "begin" => outcome'[e.of] = "open"

LEMMA OpenNextIs == OpenNext => OpenInv'
  BY DEF OpenNext, OpenInv, Held

\* A transaction is in one slot of one table.
LEMMA OneSlot ==
    ASSUME SlotInv, NEW o \in Object, NEW b \in Object, NEW i \in Tid, NEW j \in Tid,
           transInit[o][i] # NoTrans, transInit[o][i] = transInit[b][j]
    PROVE  o = b /\ i = j
  BY DEF SlotInv

\* No new BEGIN is queued.
NoNewBegins ==
    \A o \in Object : \A e \in Held(mailbox'[o]) :
        e.op = "begin" => e \in Held(mailbox[o])

\* S leaves the tables and is settled, the rest stays as it is.
LEMMA SettleOpen ==
    ASSUME CInv, NEW S, \A t \in S : t \in Trans /\ ord[t] > 0,
           \A t \in Trans : t \notin S => outcome'[t] = outcome[t],
           \A b \in Object, i \in Tid : transInit'[b][i] # NoTrans =>
              transInit'[b][i] = transInit[b][i] /\ transInit[b][i] \notin S,
           NoNewBegins
    PROVE  OpenNext
  <1>1. TypeOK /\ TaskInv /\ OpenInv
    BY DEF CInv, IInv
  <1>2. ASSUME NEW b \in Object, NEW i \in Tid, transInit'[b][i] # NoTrans
        PROVE  outcome'[transInit'[b][i]] = "open"
    <2>1. transInit'[b][i] = transInit[b][i] /\ transInit[b][i] \notin S
      BY <1>2
    <2>2. transInit[b][i] \in Trans
      BY <1>1, <1>2, <2>1 DEF TypeOK
    <2> QED BY <1>1, <1>2, <2>1, <2>2 DEF OpenInv
  <1>3. ASSUME NEW b \in Object, NEW e \in Held(mailbox'[b]), e.op = "begin"
        PROVE  outcome'[e.of] = "open"
    <2>1. e \in Held(mailbox[b])
      BY <1>3 DEF NoNewBegins
    <2>2. e.of \in Trans
      BY <1>1, <2>1, TaskOf
    <2>3. ord[e.of] = 0
      BY <1>1, <1>3, <2>1 DEF TaskInv
    <2>4. outcome[e.of] = "open"
      BY <1>1, <1>3, <2>1 DEF OpenInv
    <2>5. e.of \notin S
      BY <2>3
    <2> QED BY <2>2, <2>4, <2>5
  <1> QED BY <1>2, <1>3 DEF OpenNext

LEMMA SameOpen ==
    ASSUME CInv, UNCHANGED <<transInit, outcome>>, NoNewBegins PROVE OpenNext
  <1>1. transInit' = transInit /\ outcome' = outcome
    OBVIOUS
  <1>2. OpenInv
    BY DEF CInv
  <1> QED BY <1>1, <1>2 DEF OpenNext, OpenInv, NoNewBegins

LEMMA TableOf ==
    ASSUME CInv, NEW o \in Object, NEW t \in InTable(o)
    PROVE  t \in Trans /\ at[t] = o /\ ord[t] > 0 /\ outcome[t] = "open"
  <1>1. PICK i \in Tid : t = transInit[o][i] /\ t # NoTrans
    BY DEF InTable
  <1>2. t \in Trans
    BY <1>1 DEF CInv, IInv, TypeOK
  <1>3. at[t] = o /\ ord[t] > 0
    BY <1>1 DEF CInv, IInv, SlotInv
  <1>4. outcome[t] = "open"
    BY <1>1 DEF CInv, OpenInv
  <1> QED BY <1>2, <1>3, <1>4

\* XmsgImTransInitiative::end for what is taken out of a table.
LEMMA FinishOpen ==
    ASSUME CInv, NEW o \in Object, NEW S \in SUBSET InTable(o), NEW told,
           Finish(S, told), Without(o, S), NoNewBegins
    PROVE  OpenNext /\ S \in SUBSET Call!Open
  <1>1. \A t \in S : t \in Trans /\ at[t] = o /\ ord[t] > 0 /\ outcome[t] = "open"
    BY TableOf
  <1>2. \A t \in Trans : t \notin S => outcome'[t] = outcome[t]
    BY DEF Finish
  <1>3. ASSUME NEW b \in Object, NEW i \in Tid, transInit'[b][i] # NoTrans
        PROVE  transInit'[b][i] = transInit[b][i] /\ transInit[b][i] \notin S
    <2>1. transInit \in [Object -> [Tid -> Trans \cup {NoTrans}]]
      BY DEF CInv, IInv, TypeOK
    <2>2. transInit' = [transInit EXCEPT ![o] =
             [j \in Tid |-> IF transInit[o][j] \in S THEN NoTrans ELSE transInit[o][j]]]
      BY DEF Without
    <2>3. CASE b = o
      BY <1>3, <2>1, <2>2, <2>3
    <2>4. CASE b # o
      <3>1. transInit'[b][i] = transInit[b][i]
        BY <2>1, <2>2, <2>4
      <3>2. at[transInit[b][i]] = b
        BY <1>3, <3>1 DEF CInv, IInv, SlotInv
      <3> QED BY <1>1, <2>4, <3>1, <3>2
    <2> QED BY <2>3, <2>4
  <1>4. OpenNext
    BY <1>1, <1>2, <1>3, SettleOpen
  <1>5. S \in SUBSET Call!Open
    BY <1>1 DEF Call!Open, Call!Trans, Trans
  <1> QED BY <1>4, <1>5

\* A future is taken off a mailbox.
LEMMA TailNoNewBegins ==
    ASSUME CInv, NEW o \in Object, mailbox[o] # <<>>,
           mailbox' = [mailbox EXCEPT ![o] = Tail(@)]
    PROVE  NoNewBegins
  <1>1. \A b \in Object : Held(mailbox'[b]) \subseteq Held(mailbox[b])
    <2>1. TypeOK /\ TaskInv
      BY DEF CInv, IInv
    <2> QED BY <2>1, RunFacts
  <1> QED BY <1>1 DEF NoNewBegins

LEMMA SameNoNewBegins == UNCHANGED mailbox => NoNewBegins
  BY DEF NoNewBegins

-----------------------------------------------------------------------------
(* What the invariant needs of a step that tells no answer.                *)

LEMMA QuietKeeps ==
    ASSUME CInv, IInv', OpenNext, UNCHANGED answer,
           EndsOnce(up'), EndsOnce(down'),
           \A t \in Trans : answer[t] # NoTrans =>
              ~EndAt(up', answer[t]) /\ ~EndAt(down', answer[t])
    PROVE  CInv'
  <1>1. OpenInv'
    BY OpenNextIs
  <1>2. EndsOnce(up)' /\ EndsOnce(down)'
    BY EndsIs
  <1>3. UsedInv'
    <2>1. \A t \in Trans : answer'[t] # NoTrans =>
             /\ ~EndAt(up', answer'[t])
             /\ ~EndAt(down', answer'[t])
             /\ \A u \in Trans : answer'[u] = answer'[t] => u = t
      BY DEF CInv, UsedInv
    <2> QED BY <2>1 DEF UsedInv, EndAt, Held
  <1> QED BY <1>1, <1>2, <1>3 DEF CInv

LEMMA NoEndKeeps ==
    ASSUME CInv, IInv', OpenNext, UNCHANGED answer, NoNewEnds
    PROVE  CInv'
  <1>1. \A t \in Trans : answer[t] # NoTrans =>
           ~EndAt(up', answer[t]) /\ ~EndAt(down', answer[t])
    BY DEF CInv, UsedInv, NoNewEnds
  <1> QED BY <1>1, QuietKeeps DEF NoNewEnds

\* The step is one of RemoteCall, or none.
Simulates == [Call!Next]_(Call!callVars)

LEMMA StutterSimulates ==
    UNCHANGED <<outcome, served, answer>> => Simulates
  BY DEF Simulates, Call!callVars

LEMMA ServedSame == UNCHANGED pass => UNCHANGED served
  BY DEF served

\* served follows pass.
LEMMA ServedSets ==
    ASSUME TypeOK, NEW t \in Trans, NEW p \in {"open", "ending", "replied", "dropped"},
           pass' = [pass EXCEPT ![t] = p]
    PROVE  served' = [served EXCEPT ![t] = IF p = "ending" THEN "open" ELSE p]
  <1>1. \A u \in Trans : pass'[u] = IF u = t THEN p ELSE pass[u]
    BY DEF TypeOK
  <1>2. served' = [u \in Trans |-> IF pass'[u] = "ending" THEN "open" ELSE pass'[u]]
    BY DEF served
  <1>3. [served EXCEPT ![t] = IF p = "ending" THEN "open" ELSE p] =
           [u \in Trans |-> IF u = t THEN IF p = "ending" THEN "open" ELSE p
                            ELSE IF pass[u] = "ending" THEN "open" ELSE pass[u]]
    BY DEF served
  <1> QED BY <1>1, <1>2, <1>3

-----------------------------------------------------------------------------
(* One lemma for each action.                                              *)

LEMMA BeginCalls ==
    ASSUME CInv, IInv', NEW t \in Trans, NEW o \in Object, Begin(t, o)
    PROVE  CInv' /\ Simulates
  <1>1. /\ outcome[t] = "unborn"
        /\ outcome' = [outcome EXCEPT ![t] = "open"]
        /\ Post(o, [op |-> "begin", of |-> t])
        /\ UNCHANGED <<wires, transInit, pass, answer>>
    BY DEF Begin, handled, hist
  <1>2. TypeOK /\ BornInv /\ SlotInv /\ OpenInv
    BY DEF CInv, IInv
  <1> DEFINE task == [op |-> "begin", of |-> t]
  <1>3. \A b \in Object : \A e \in Held(mailbox'[b]) : e \in Held(mailbox[b]) \/ e = task
    <2>1. task \in Task
      BY DEF Task
    <2> HIDE DEF task
    <2>2. Post(o, task)
      BY <1>1 DEF task
    <2>3. /\ \A b \in Object : b # o => mailbox'[b] = mailbox[b]
          /\ Held(mailbox'[o]) = Held(mailbox[o]) \cup {task}
      BY <1>2, <2>1, <2>2, PostFacts
    <2> QED BY <2>3
  <1>4. \A u \in Trans : outcome'[u] = IF u = t THEN "open" ELSE outcome[u]
    BY <1>1, <1>2 DEF TypeOK
  <1>5. OpenNext
    <2>1. ASSUME NEW b \in Object, NEW i \in Tid, transInit'[b][i] # NoTrans
          PROVE  outcome'[transInit'[b][i]] = "open"
      <3>1. transInit[b][i] \in Trans /\ transInit[b][i] # NoTrans
        BY <1>1, <1>2, <2>1 DEF TypeOK
      <3> QED BY <1>1, <1>2, <1>4, <3>1 DEF OpenInv
    <2>2. ASSUME NEW b \in Object, NEW e \in Held(mailbox'[b]), e.op = "begin"
          PROVE  outcome'[e.of] = "open"
      <3>1. CASE e \in Held(mailbox[b])
        <4>1. e.of \in Trans /\ outcome[e.of] = "open"
          BY <1>2, <2>2, <3>1, TaskOf DEF OpenInv
        <4> QED BY <1>4, <4>1
      <3>2. CASE e = task
        BY <1>4, <3>2
      <3> QED BY <1>3, <3>1, <3>2
    <2> QED BY <2>1, <2>2 DEF OpenNext
  <1>6. CInv'
    BY <1>1, <1>5, SameEnds, NoEndKeeps
  <1>7. Call!Begin(t)
    BY <1>1, ServedSame DEF Call!Begin
  <1> QED BY <1>6, <1>7 DEF Simulates, Call!Next, Call!Trans, Trans

LEMMA EndCalls ==
    ASSUME CInv, IInv', NEW t \in Trans, End(t) PROVE CInv' /\ Simulates
  <1>1. /\ pass[t] = "open"
        /\ pass' = [pass EXCEPT ![t] = "ending"]
        /\ Post(via[t], [op |-> "end", of |-> t])
        /\ UNCHANGED <<wires, transInit, outcome, answer>>
    BY DEF End, begun, hist
  <1>2. TypeOK
    BY DEF CInv, IInv
  <1> DEFINE task == [op |-> "end", of |-> t]
  <1>3. \A b \in Object : \A e \in Held(mailbox'[b]) : e \in Held(mailbox[b]) \/ e = task
    <2>1. task \in Task /\ via[t] \in Object
      BY <1>2 DEF Task, TypeOK
    <2> HIDE DEF task
    <2>2. Post(via[t], task)
      BY <1>1 DEF task
    <2>3. /\ \A b \in Object : b # via[t] => mailbox'[b] = mailbox[b]
          /\ Held(mailbox'[via[t]]) = Held(mailbox[via[t]]) \cup {task}
      BY <1>2, <2>1, <2>2, PostFacts
    <2> QED BY <2>3
  <1>4. NoNewBegins
    BY <1>3 DEF NoNewBegins
  <1>5. OpenNext
    BY <1>1, <1>4, SameOpen
  <1>6. CInv'
    BY <1>1, <1>5, SameEnds, NoEndKeeps
  <1>7. UNCHANGED served
    <2>1. served' = [served EXCEPT ![t] = "open"]
      BY <1>1, <1>2, ServedSets
    <2>2. served[t] = "open"
      BY <1>1 DEF served
    <2> QED BY <2>1, <2>2 DEF served
  <1> QED BY <1>1, <1>6, <1>7, StutterSimulates

LEMMA FutureBeginCalls ==
    ASSUME CInv, IInv', NEW o \in Object, mailbox[o] # <<>>,
           mailbox' = [mailbox EXCEPT ![o] = Tail(@)],
           Head(mailbox[o]).op = "begin", FutureBegin(o, Head(mailbox[o]).of)
    PROVE  CInv' /\ Simulates
  <1> DEFINE t == Head(mailbox[o]).of
             g == GenTid(o)
             pdu == [op |-> "begin", of |-> t, tid |-> g]
  <1>1. /\ transInit' = [transInit EXCEPT ![o][g] = t]
        /\ SendPdu(o, pdu)
        /\ UNCHANGED <<outcome, pass, answer>>
    BY DEF FutureBegin, begun, handled
  <1>2. TypeOK /\ TaskInv /\ SlotInv /\ OpenInv
    BY DEF CInv, IInv
  <1>3. /\ t \in Trans
        /\ ord[t] = 0
        /\ \A b \in Object : Held(mailbox'[b]) \subseteq Held(mailbox[b])
    <2>1. Head(mailbox[o]) \in Task
      BY <1>2, RunFacts
    <2> QED BY <1>2, <2>1, RunFacts DEF Task
  <1>4. outcome[t] = "open"
    <2>1. mailbox[o] \in Seq(Task)
      BY <1>2 DEF TypeOK
    <2>2. Head(mailbox[o]) \in Held(mailbox[o])
      BY <2>1, HeldTail
    <2> QED BY <1>2, <2>2 DEF OpenInv
  <1>5. g \in Tid
    BY <1>2, BackFacts DEF TypeOK
  <1>6. pdu \in Pdu /\ pdu.op # "end"
    BY <1>3, <1>5 DEF Pdu
  <1> HIDE DEF t, g, pdu
  <1>7. \A b \in Object, i \in Tid :
           transInit'[b][i] = IF b = o /\ i = g THEN t ELSE transInit[b][i]
    BY <1>1, <1>2, <1>5 DEF TypeOK
  <1>8. OpenNext
    <2>1. outcome' = outcome
      BY <1>1
    <2>2. \A b \in Object, i \in Tid :
             transInit'[b][i] # NoTrans => outcome[transInit'[b][i]] = "open"
      BY <1>2, <1>4, <1>7 DEF OpenInv
    <2>3. \A b \in Object : \A e \in Held(mailbox'[b]) :
             e.op = "begin" => outcome[e.of] = "open"
      BY <1>2, <1>3 DEF OpenInv
    <2> QED BY <2>1, <2>2, <2>3 DEF OpenNext
  <1>9. NoNewEnds
    BY <1>1, <1>6, SendEnds DEF NoNewEnds
  <1>10. CInv'
    BY <1>1, <1>8, <1>9, NoEndKeeps
  <1> QED BY <1>1, <1>10, ServedSame, StutterSimulates

LEMMA FutureEndUnsentCalls ==
    ASSUME CInv, IInv', NEW o \in Object, mailbox[o] # <<>>,
           mailbox' = [mailbox EXCEPT ![o] = Tail(@)],
           Head(mailbox[o]).op = "end", FutureEndUnsent(o, Head(mailbox[o]).of)
    PROVE  CInv' /\ Simulates
  <1> DEFINE t == Head(mailbox[o]).of
  <1>1. /\ pass' = [pass EXCEPT ![t] = "dropped"]
        /\ UNCHANGED <<wires, transInit, outcome, answer>>
    BY DEF FutureEndUnsent, begun, hist
  <1>2. TypeOK /\ TaskInv
    BY DEF CInv, IInv
  <1>3. t \in Trans /\ pass[t] = "ending"
    <2>1. Head(mailbox[o]) \in Task
      BY <1>2, RunFacts
    <2> QED BY <1>2, <2>1, RunFacts DEF Task
  <1> HIDE DEF t
  <1>4. OpenNext
    BY <1>1, TailNoNewBegins, SameOpen
  <1>5. CInv'
    BY <1>1, <1>4, SameEnds, NoEndKeeps
  <1>6. Call!Drop(t)
    <2>1. served[t] = "open"
      BY <1>3 DEF served
    <2>2. served' = [served EXCEPT ![t] = "dropped"]
      BY <1>1, <1>2, <1>3, ServedSets
    <2>3. Call!GiveUp({}, "clean")
      BY <1>1, <1>2 DEF Call!GiveUp, Call!Trans, Trans, TypeOK
    <2> QED BY <1>1, <2>1, <2>2, <2>3 DEF Call!Drop
  <1> QED BY <1>3, <1>5, <1>6 DEF Simulates, Call!Next, Call!Trans, Trans

LEMMA FutureEndFailureCalls ==
    ASSUME CInv, IInv', NEW o \in Object, mailbox[o] # <<>>,
           mailbox' = [mailbox EXCEPT ![o] = Tail(@)],
           Head(mailbox[o]).op = "end", FutureEndFailure(o, Head(mailbox[o]).of)
    PROVE  CInv' /\ Simulates
  <1> DEFINE t == Head(mailbox[o]).of
  <1>1. /\ pass' = [pass EXCEPT ![t] = "dropped"]
        /\ Unread(o)
        /\ Finish(InTable(o), "clean")
        /\ Without(o, InTable(o))
        /\ UNCHANGED answer
    BY DEF FutureEndFailure, Close, hist
  <1>2. TypeOK /\ TaskInv
    BY DEF CInv, IInv
  <1>3. t \in Trans /\ pass[t] = "ending"
    <2>1. Head(mailbox[o]) \in Task
      BY <1>2, RunFacts
    <2> QED BY <1>2, <2>1, RunFacts DEF Task
  <1> HIDE DEF t
  <1>4. OpenNext /\ InTable(o) \in SUBSET Call!Open
    BY <1>1, TailNoNewBegins, FinishOpen
  <1>5. CInv'
    BY <1>1, <1>4, UnreadEnds, NoEndKeeps
  <1>6. Call!Drop(t)
    <2>1. served[t] = "open"
      BY <1>3 DEF served
    <2>2. served' = [served EXCEPT ![t] = "dropped"]
      BY <1>1, <1>2, <1>3, ServedSets
    <2>3. Call!GiveUp(InTable(o), "clean")
      BY <1>1 DEF Finish, Call!GiveUp, Call!Trans, Trans
    <2> QED BY <1>1, <1>4, <2>1, <2>2, <2>3 DEF Call!Drop
  <1> QED BY <1>3, <1>5, <1>6 DEF Simulates, Call!Next, Call!Trans, Trans

\* The END that is sent is the first of its transaction, and nobody was told of it.
LEMMA FutureEndCalls ==
    ASSUME CInv, IInv', NEW o \in Object, mailbox[o] # <<>>,
           mailbox' = [mailbox EXCEPT ![o] = Tail(@)],
           Head(mailbox[o]).op = "end", FutureEnd(o, Head(mailbox[o]).of)
    PROVE  CInv' /\ Simulates
  <1> DEFINE t == Head(mailbox[o]).of
             pdu == [op |-> "end", of |-> t, tid |-> dtid[t]]
  <1>1. /\ pass' = [pass EXCEPT ![t] = "replied"]
        /\ SendPdu(o, pdu)
        /\ UNCHANGED <<transInit, outcome, answer>>
    BY DEF FutureEnd, begun, hist
  <1>2. /\ TypeOK /\ TaskInv /\ AnswerInv
        /\ WireInv(up, Accept, Dial) /\ WireInv(down, Dial, Accept)
    BY DEF CInv, IInv
  <1>3. t \in Trans /\ pass[t] = "ending"
    <2>1. Head(mailbox[o]) \in Task
      BY <1>2, RunFacts
    <2> QED BY <1>2, <2>1, RunFacts DEF Task
  <1>4. pdu \in Pdu /\ pdu.of = t
    BY <1>2, <1>3 DEF Pdu, TypeOK
  <1> HIDE DEF t, pdu
  <1>5. OpenNext
    BY <1>1, TailNoNewBegins, SameOpen
  <1>6. ~EndAt(up, t) /\ ~EndAt(down, t)
    BY <1>2, <1>3 DEF WireInv, EndAt
  <1>7. \A u \in Trans : answer[u] # t
    BY <1>2, <1>3, Types DEF AnswerInv
  <1>8. /\ EndsOnce(up') /\ EndsOnce(down')
        /\ \A a : EndAt(up', a) => EndAt(up, a) \/ a = t
        /\ \A a : EndAt(down', a) => EndAt(down, a) \/ a = t
    BY <1>1, <1>4, <1>6, SendEnds
  <1>9. \A u \in Trans : answer[u] # NoTrans =>
           ~EndAt(up', answer[u]) /\ ~EndAt(down', answer[u])
    BY <1>7, <1>8 DEF CInv, UsedInv
  <1>10. CInv'
    BY <1>1, <1>5, <1>8, <1>9, QuietKeeps
  <1>11. Call!Reply(t)
    <2>1. served[t] = "open"
      BY <1>3 DEF served
    <2>2. served' = [served EXCEPT ![t] = "replied"]
      BY <1>1, <1>2, <1>3, ServedSets
    <2> QED BY <1>1, <2>1, <2>2 DEF Call!Reply
  <1> QED BY <1>3, <1>10, <1>11 DEF Simulates, Call!Next, Call!Trans, Trans

LEMMA RunFutureCalls ==
    ASSUME CInv, IInv', NEW o \in Object, RunFuture(o) PROVE CInv' /\ Simulates
  <1>1. mailbox[o] # <<>> /\ mailbox' = [mailbox EXCEPT ![o] = Tail(@)]
    BY DEF RunFuture
  <1>2. CASE Head(mailbox[o]).op = "begin" /\ FutureBegin(o, Head(mailbox[o]).of)
    BY <1>1, <1>2, FutureBeginCalls
  <1>3. CASE Head(mailbox[o]).op = "end" /\ FutureEndUnsent(o, Head(mailbox[o]).of)
    BY <1>1, <1>3, FutureEndUnsentCalls
  <1>4. CASE Head(mailbox[o]).op = "end" /\ FutureEndFailure(o, Head(mailbox[o]).of)
    BY <1>1, <1>4, FutureEndFailureCalls
  <1>5. CASE Head(mailbox[o]).op = "end" /\ FutureEnd(o, Head(mailbox[o]).of)
    BY <1>1, <1>5, FutureEndCalls
  <1> QED BY <1>2, <1>3, <1>4, <1>5 DEF RunFuture

\* A BEGIN is read once, and before it was read its transaction is not handled.
LEMMA EvnBeginCalls ==
    ASSUME CInv, IInv', NEW o \in Object, EvnBegin(o) PROVE CInv' /\ Simulates
  <1> DEFINE p == Head(Incoming(o))
             t == p.of
  <1>1. /\ Take(o) /\ p.op = "begin"
        /\ pass' = [pass EXCEPT ![t] = "open"]
        /\ UNCHANGED <<mailbox, transInit, outcome, answer>>
    BY DEF EvnBegin, begun, hist
  <1>2. /\ TypeOK /\ BornInv
        /\ WireInv(up, Accept, Dial) /\ WireInv(down, Dial, Accept)
    BY DEF CInv, IInv
  <1>3. /\ p \in Pdu
        /\ o = 0 => conn \in Conn /\ p \in Held(down[conn])
        /\ o > 0 => o \in Conn /\ p \in Held(up[o])
    BY <1>1, <1>2, TakeFacts
  <1>4. t \in Trans
    BY <1>3 DEF Pdu
  <1>5. pass[t] = "absent" /\ p.tid \in Ids[t]
    <2>1. CASE o = 0
      BY <1>1, <1>2, <1>3, <2>1 DEF WireInv
    <2>2. CASE o > 0
      BY <1>1, <1>2, <1>3, <2>2 DEF WireInv
    <2> QED BY <2>1, <2>2, Types
  <1>6. outcome[t] # "unborn"
    <2>1. ord[t] > 0
      BY <1>2, <1>4, <1>5, IdsFacts
    <2>2. outcome[t] = "unborn" => ord[t] = 0
      BY <1>2, <1>4 DEF BornInv
    <2> QED BY <2>1, <2>2
  <1> HIDE DEF p, t
  <1>7. OpenNext
    BY <1>1, SameNoNewBegins, SameOpen
  <1>8. CInv'
    BY <1>1, <1>7, TakeEnds, NoEndKeeps
  <1>9. Call!Serve(t)
    <2>1. served[t] = "absent"
      BY <1>4, <1>5 DEF served
    <2>2. served' = [served EXCEPT ![t] = "open"]
      BY <1>1, <1>2, <1>4, ServedSets
    <2> QED BY <1>1, <1>6, <2>1, <2>2 DEF Call!Serve
  <1> QED BY <1>4, <1>8, <1>9 DEF Simulates, Call!Next, Call!Trans, Trans

\* The END that is read was under way, so that nobody was told of it, and is not
\* any more.
LEMMA EvnEndCalls ==
    ASSUME CInv, IInv', NEW o \in Object, EvnEnd(o) PROVE CInv' /\ Simulates
  <1> DEFINE p == Head(Incoming(o))
             a == p.of
             t == transInit[o][p.tid]
  <1>1. /\ Take(o) /\ p.op = "end"
        /\ UNCHANGED <<mailbox, pass>>
        /\ \/ t = NoTrans /\ UNCHANGED <<transInit, outcome, answer>>
           \/ /\ t # NoTrans
              /\ transInit' = [transInit EXCEPT ![o][p.tid] = NoTrans]
              /\ outcome' = [u \in Trans |-> IF u \in {t} THEN "answered" ELSE outcome[u]]
              /\ answer' = [answer EXCEPT ![t] = a]
    BY DEF EvnEnd, Finish, handled
  <1>2. /\ TypeOK /\ BornInv /\ SlotInv /\ OpenInv
        /\ WireInv(up, Accept, Dial) /\ WireInv(down, Dial, Accept)
    BY DEF CInv, IInv
  <1>3. /\ p \in Pdu
        /\ o = 0 => conn \in Conn /\ p \in Held(down[conn])
        /\ o > 0 => o \in Conn /\ p \in Held(up[o])
    BY <1>1, <1>2, TakeFacts
  <1>4. a \in Trans /\ p.tid \in Tid
    BY <1>3 DEF Pdu
  <1>5. pass[a] = "replied" /\ (o = 0 <=> a \in Dial)
    BY <1>1, <1>2, <1>3, <1>4, Types DEF WireInv
  <1>6. /\ NoNewEnds
        /\ EndAt(up, a) \/ EndAt(down, a)
        /\ ~EndAt(up', a) /\ ~EndAt(down', a)
    BY <1>1, TakeEnds
  <1>7. CASE t = NoTrans /\ UNCHANGED <<transInit, outcome, answer>>
    <2>1. OpenNext
      BY <1>1, <1>7, SameNoNewBegins, SameOpen
    <2>2. CInv'
      BY <1>6, <1>7, <2>1, NoEndKeeps
    <2> QED BY <1>1, <1>7, <2>2, ServedSame, StutterSimulates
  <1>8. CASE /\ t # NoTrans
             /\ transInit' = [transInit EXCEPT ![o][p.tid] = NoTrans]
             /\ outcome' = [u \in Trans |-> IF u \in {t} THEN "answered" ELSE outcome[u]]
             /\ answer' = [answer EXCEPT ![t] = a]
    <2>1. t \in Trans /\ at[t] = o /\ ord[t] > 0 /\ outcome[t] = "open"
      BY <1>2, <1>4, <1>8 DEF TypeOK, SlotInv, OpenInv
    <2>2. t \in Dial <=> a \in Dial
      BY <1>2, <1>5, <2>1, Types DEF BornInv
    <2>3. t = transInit[o][p.tid]
      OBVIOUS
    <2> HIDE DEF p, a, t
    <2>4. \A b \in Object, i \in Tid :
             transInit'[b][i] = IF b = o /\ i = p.tid THEN NoTrans ELSE transInit[b][i]
      BY <1>2, <1>4, <1>8 DEF TypeOK
    <2>5. ASSUME NEW b \in Object, NEW i \in Tid, transInit'[b][i] # NoTrans
          PROVE  transInit'[b][i] = transInit[b][i] /\ transInit[b][i] \notin {t}
      BY <1>2, <1>4, <1>8, <2>3, <2>4, <2>5, OneSlot
    <2>6. OpenNext
      <3>1. \A u \in {t} : u \in Trans /\ ord[u] > 0
        BY <2>1
      <3>2. \A u \in Trans : u \notin {t} => outcome'[u] = outcome[u]
        BY <1>8
      <3> QED BY <1>1, <2>5, <3>1, <3>2, SameNoNewBegins, SettleOpen
    <2>7. \A u \in Trans : answer[u] # a
      <3>1. a # NoTrans
        BY <1>4, Types
      <3> QED BY <1>6, <3>1 DEF CInv, UsedInv
    <2>8. \A u \in Trans : answer'[u] = IF u = t THEN a ELSE answer[u]
      BY <1>2, <1>8 DEF TypeOK
    <2>9. UsedInv'
      <3>1. \A u \in Trans : answer'[u] # NoTrans =>
               /\ ~EndAt(up', answer'[u])
               /\ ~EndAt(down', answer'[u])
        BY <1>6, <2>8 DEF CInv, UsedInv, NoNewEnds
      <3>2. \A u, v \in Trans : answer'[u] # NoTrans /\ answer'[v] = answer'[u] => v = u
        BY <2>7, <2>8 DEF CInv, UsedInv
      <3> QED BY <3>1, <3>2 DEF UsedInv, EndAt, Held
    <2>10. CInv'
      BY <1>6, <2>6, <2>9, OpenNextIs, EndsIs DEF CInv, NoNewEnds
    <2>11. Call!Answer(t, a)
      <3>1. served[a] = "replied"
        BY <1>4, <1>5 DEF served
      <3>2. outcome' = [outcome EXCEPT ![t] = "answered"]
        BY <1>2, <1>8 DEF TypeOK
      <3> QED BY <1>1, <1>8, <2>1, <2>2, <2>7, <3>1, <3>2, ServedSame
              DEF Call!Answer, Call!Trans, Trans
    <2> QED BY <1>4, <2>1, <2>10, <2>11 DEF Simulates, Call!Next, Call!Trans, Trans
  <1> QED BY <1>1, <1>7, <1>8

\* What an interceptor consumes is read, and nobody is told of it.
LEMMA InterceptedCalls ==
    ASSUME CInv, IInv', NEW o \in Object, Intercepted(o) PROVE CInv' /\ Simulates
  <1>1. /\ Take(o)
        /\ UNCHANGED <<mailbox, transInit, outcome, pass, answer>>
    BY DEF Intercepted, begun, handled
  <1>2. OpenNext
    BY <1>1, SameNoNewBegins, SameOpen
  <1>3. CInv'
    BY <1>1, <1>2, TakeEnds, NoEndKeeps
  <1> QED BY <1>1, <1>3, ServedSame, StutterSimulates

LEMMA CheckTransInitCalls ==
    ASSUME CInv, IInv', NEW o \in Object, NEW S \in SUBSET InTable(o), CheckTransInit(o, S)
    PROVE  CInv' /\ Simulates
  <1>1. /\ Finish(S, "timeout") /\ Without(o, S)
        /\ UNCHANGED <<mailbox, wires, pass, answer>>
    BY DEF CheckTransInit, handled, hist
  <1>2. OpenNext /\ S \in SUBSET Call!Open
    BY <1>1, SameNoNewBegins, FinishOpen
  <1>3. CInv'
    BY <1>1, <1>2, SameEnds, NoEndKeeps
  <1>4. Call!TimeOut(S)
    BY <1>1, ServedSame DEF Finish, Call!TimeOut, Call!GiveUp, Call!Trans, Trans
  <1> QED BY <1>2, <1>3, <1>4 DEF Simulates, Call!Next

LEMMA LostCalls ==
    ASSUME CInv, IInv', NEW o \in Object, Lost(o) PROVE CInv' /\ Simulates
  <1>1. /\ Unread(o)
        /\ Finish(InTable(o), "clean") /\ Without(o, InTable(o))
        /\ UNCHANGED <<mailbox, pass, answer>>
    BY DEF Lost, Close, handled, hist
  <1>2. OpenNext /\ InTable(o) \in SUBSET Call!Open
    BY <1>1, SameNoNewBegins, FinishOpen
  <1>3. CInv'
    BY <1>1, <1>2, UnreadEnds, NoEndKeeps
  <1>4. Call!Lose(InTable(o))
    BY <1>1, ServedSame DEF Finish, Call!Lose, Call!GiveUp, Call!Trans, Trans
  <1> QED BY <1>2, <1>3, <1>4 DEF Simulates, Call!Next

\* A connection that is made, or nothing at all, is no step of a call.
LEMMA ConnectCalls ==
    ASSUME CInv, IInv', Connect \/ UNCHANGED vars PROVE CInv' /\ Simulates
  <1>1. UNCHANGED <<mailbox, wires, transInit, outcome, pass, answer>>
    BY DEF Connect, vars, begun, handled, hist
  <1>2. OpenNext
    BY <1>1, SameNoNewBegins, SameOpen
  <1>3. CInv'
    BY <1>1, <1>2, SameEnds, NoEndKeeps
  <1> QED BY <1>1, <1>3, ServedSame, StutterSimulates

-----------------------------------------------------------------------------
(* The theorems.                                                           *)

LEMMA InitCInv == Init => CInv /\ Call!Init
  <1> SUFFICES ASSUME Init PROVE CInv /\ Call!Init
    OBVIOUS
  <1>1. IInv
    BY InitIInv
  <1>2. /\ \A o \in Object : mailbox[o] = <<>>
        /\ \A c \in Conn : up[c] = <<>> /\ down[c] = <<>>
    BY DEF Init
  <1>3. OpenInv
    BY <1>2, HeldEmpty DEF Init, OpenInv
  <1>4. EndsOnce(up) /\ EndsOnce(down)
    BY <1>2, HeldEmpty DEF EndsOnce
  <1>5. UsedInv
    BY DEF Init, UsedInv
  <1>6. Call!Init
    BY DEF Init, served, Call!Init, Call!Trans, Trans
  <1> QED BY <1>1, <1>3, <1>4, <1>5, <1>6 DEF CInv

LEMMA NextCInv ==
    CInv /\ [Next]_vars => CInv' /\ Simulates
  <1> SUFFICES ASSUME CInv, [Next]_vars PROVE CInv' /\ Simulates
    OBVIOUS
  <1>1. IInv'
    BY NextIInv DEF CInv
  <1>2. CASE \E t \in Trans, o \in Object : Begin(t, o)
    BY <1>1, <1>2, BeginCalls
  <1>3. CASE \E t \in Trans : End(t)
    BY <1>1, <1>3, EndCalls
  <1>4. ASSUME NEW o \in Object, Worker(o) PROVE CInv' /\ Simulates
    <2>1. CASE RunFuture(o)
      BY <1>1, <2>1, RunFutureCalls
    <2>2. CASE EvnBegin(o)
      BY <1>1, <2>2, EvnBeginCalls
    <2>3. CASE EvnEnd(o)
      BY <1>1, <2>3, EvnEndCalls
    <2>4. CASE \E S \in SUBSET InTable(o) : CheckTransInit(o, S)
      BY <1>1, <2>4, CheckTransInitCalls
    <2>5. CASE Lost(o)
      BY <1>1, <2>5, LostCalls
    <2>6. CASE Intercepted(o)
      BY <1>1, <2>6, InterceptedCalls
    <2> QED BY <1>4, <2>1, <2>2, <2>3, <2>4, <2>5, <2>6 DEF Worker
  <1>5. CASE Connect \/ UNCHANGED vars
    BY <1>1, <1>5, ConnectCalls
  <1> QED BY <1>2, <1>3, <1>4, <1>5 DEF Next

\* Two sides that call begin() and end() over any number of connections keep what
\* RemoteCall promises: evnBegin hands each BEGIN to a handler once, each callback
\* runs once, and an END, whatever its id meets in transInit, ends one transaction
\* of the side it was sent to.
THEOREM ImplementsRemoteCall ==
    Spec => CallSpec
  <1>1. Spec => []CInv
    BY InitCInv, NextCInv, PTL DEF Spec
  <1>2. Spec => Call!Init
    BY InitCInv, PTL DEF Spec
  <1>3. CInv /\ [Next]_vars => [Call!Next]_(Call!callVars)
    BY NextCInv DEF Simulates
  <1> QED BY <1>1, <1>2, <1>3, PTL DEF Spec, CallSpec, Call!Spec
=============================================================================
