-------------------------- MODULE XmsgImLinkProofs --------------------------
(* Theorems about XmsgImLink. *)
EXTENDS XmsgImLink, TLAPS, SequenceTheorems

-----------------------------------------------------------------------------
(* The inductive invariant.                                                *)

\* What a sequence holds.
Held(q) == {q[i] : i \in DOMAIN q}

\* At most one of its elements is an op of a transaction.
OnceIn(q, op) ==
    \A i, j \in DOMAIN q :
        q[i].op = op /\ q[j].op = op /\ q[i].of = q[j].of => i = j

\* A BEGIN is queued once, where the transaction was begun, before it has an id;
\* an END is queued once, where the transaction is handled.
TaskInv ==
    \A o \in Object :
        /\ OnceIn(mailbox[o], "begin")
        /\ OnceIn(mailbox[o], "end")
        /\ \A e \in Held(mailbox[o]) :
              /\ e.op = "begin" =>
                    ord[e.of] = 0 /\ at[e.of] = o /\ outcome[e.of] # "unborn"
              /\ e.op = "end" => pass[e.of] = "ending" /\ via[e.of] = o

\* Where transactions are begun and handled.
BornInv ==
    /\ est[0] => conn > 0
    /\ \A t \in Trans :
          /\ at[t] <= conn
          /\ t \in Dial => at[t] = 0
          /\ t \in Accept /\ outcome[t] # "unborn" => at[t] > 0
          /\ outcome[t] = "unborn" => ord[t] = 0
          /\ ord[t] <= issued[at[t]]
          /\ pass[t] # "absent" => ord[t] > 0 /\ (via[t] = 0 <=> t \in Accept)

\* The id that was generated d ids before the last.
Back(last, d) == IF last >= d THEN last - d ELSE last - d + MaxTid + 1

\* How many ids were generated on its object after that of t.
Lag(t) == issued[at[t]] - ord[t]

\* What a table holds is under its id, and not older than one turn.
SlotInv ==
    \A o \in Object, i \in Tid :
        transInit[o][i] # NoTrans =>
            /\ at[transInit[o][i]] = o
            /\ ord[transInit[o][i]] > 0
            /\ Lag(transInit[o][i]) <= MaxTid
            /\ i = Back(tidSeq[o], Lag(transInit[o][i]))

\* The ids a PDU about t may carry: the one it got; after a turn of the counter
\* that is forgotten, but under it there is no other that is less than a turn
\* younger.
Ids ==
    [t \in Trans |-> {i \in Tid :
        /\ ord[t] > 0
        /\ Lag(t) <= MaxTid => i = Back(tidSeq[at[t]], Lag(t))
        /\ transInit[at[t]][i] \notin {NoTrans, t} =>
              ord[transInit[at[t]][i]] - ord[t] > MaxTid}]

\* What is on the wires to the side where Home is begun, from that of Away.
WireInv(wire, Home, Away) ==
    /\ \A c \in Conn : OnceIn(wire[c], "begin")
    /\ \A c, d \in Conn : \A p \in Held(wire[c]), q \in Held(wire[d]) :
          p.op = "begin" /\ q.op = "begin" /\ p.of = q.of => c = d
    /\ \A c \in Conn : \A p \in Held(wire[c]) :
          /\ p.tid \in Ids[p.of]
          /\ p.op = "begin" => p.of \in Away /\ pass[p.of] = "absent"
          /\ p.op = "end" =>
                p.of \in Home /\ pass[p.of] = "replied" /\ at[p.of] <= c

HandledInv ==
    \A t \in Trans : pass[t] # "absent" => dtid[t] \in Ids[t]

AnswerInv ==
    \A t \in Trans : answer[t] # NoTrans =>
        /\ ord[t] > 0
        /\ ord[answer[t]] > 0
        /\ pass[answer[t]] = "replied"
        /\ answer[t] # t =>
              TurnBefore(answer[t], t) \/ (t \in Accept /\ at[answer[t]] < at[t])

\* An open transaction of the dialing side is in its table, for a turn.
TableInv ==
    \A t \in Dial :
        outcome[t] = "open" /\ ord[t] > 0 /\ Lag(t) <= MaxTid => t \in InTable(0)

\* The answer to t is under way on the connection there is now, or consumed.
Answered(t) ==
    \/ t \in consumed
    \/ \E p \in Held(down[conn]) : p.op = "end" /\ p.of = t

\* What is in that table travelled on the connection there is now, or not at all.
HereInv ==
    \A t \in InTable(0) :
        /\ \A c \in Conn : \A p \in Held(up[c]) :
              p.op = "begin" /\ p.of = t => est[0] /\ c = conn
        /\ pass[t] # "absent" => est[0] /\ via[t] = conn
        /\ pass[t] = "replied" => Answered(t)

IInv ==
    /\ TypeOK /\ TaskInv /\ BornInv /\ SlotInv /\ HandledInv /\ AnswerInv
    /\ WireInv(up, Accept, Dial) /\ WireInv(down, Dial, Accept)
    /\ TableInv /\ HereInv

-----------------------------------------------------------------------------
(* Sequences.                                                              *)

LEMMA HeldAppend ==
    ASSUME NEW S, NEW q \in Seq(S), NEW e \in S
    PROVE  /\ Append(q, e) \in Seq(S)
           /\ Held(Append(q, e)) = Held(q) \cup {e}
           /\ \A op : /\ OnceIn(q, op)
                      /\ e.op # op \/ \A h \in Held(q) : h.op = op => h.of # e.of
                      => OnceIn(Append(q, e), op)
  <1> DEFINE a == Append(q, e)
  <1>1. /\ a \in Seq(S)
        /\ Len(a) = Len(q) + 1
        /\ \A i \in 1 .. Len(q) : a[i] = q[i]
        /\ a[Len(q) + 1] = e
    BY AppendProperties
  <1>2. Len(q) \in Nat /\ DOMAIN q = 1 .. Len(q) /\ DOMAIN a = 1 .. Len(q) + 1
    BY <1>1, LenProperties
  <1>3. DOMAIN a = DOMAIN q \cup {Len(q) + 1}
    BY <1>2
  <1> HIDE DEF a
  <1>4. Held(a) = Held(q) \cup {e}
    BY <1>1, <1>2, <1>3 DEF Held
  <1>5. ASSUME NEW op, OnceIn(q, op),
               e.op # op \/ \A h \in Held(q) : h.op = op => h.of # e.of
        PROVE  OnceIn(a, op)
    <2> SUFFICES ASSUME NEW i \in DOMAIN a, NEW j \in DOMAIN a,
                        a[i].op = op, a[j].op = op, a[i].of = a[j].of
                 PROVE  i = j
      BY DEF OnceIn
    <2>1. CASE i \in DOMAIN q /\ j \in DOMAIN q
      BY <1>1, <1>2, <1>5, <2>1 DEF OnceIn
    <2>2. CASE i = Len(q) + 1 /\ j \in DOMAIN q
      BY <1>1, <1>2, <1>5, <2>2 DEF Held
    <2>3. CASE i \in DOMAIN q /\ j = Len(q) + 1
      BY <1>1, <1>2, <1>5, <2>3 DEF Held
    <2> QED BY <1>3, <2>1, <2>2, <2>3
  <1> QED BY <1>1, <1>4, <1>5 DEF a

LEMMA HeldTail ==
    ASSUME NEW S, NEW q \in Seq(S), q # <<>>
    PROVE  /\ Tail(q) \in Seq(S)
           /\ Head(q) \in Held(q)
           /\ Head(q) \in S
           /\ Held(Tail(q)) \subseteq Held(q)
           /\ \A h \in Held(q) : h # Head(q) => h \in Held(Tail(q))
           /\ \A op : OnceIn(q, op) =>
                 /\ OnceIn(Tail(q), op)
                 /\ \A h \in Held(Tail(q)) :
                       h.op = op /\ Head(q).op = op => h.of # Head(q).of
  <1> DEFINE r == Tail(q)
  <1>1. /\ r \in Seq(S)
        /\ Len(r) = Len(q) - 1
        /\ \A i \in 1 .. Len(r) : r[i] = q[i + 1]
        /\ Head(q) = q[1]
        /\ Head(q) \in S
    BY HeadTailProperties
  <1>2. /\ Len(q) \in Nat /\ Len(q) > 0
        /\ DOMAIN q = 1 .. Len(q)
        /\ DOMAIN r = 1 .. Len(q) - 1
    BY <1>1, LenProperties, EmptySeq
  <1> HIDE DEF r
  <1>3. \A i \in DOMAIN r : i + 1 \in DOMAIN q /\ r[i] = q[i + 1] /\ i + 1 # 1
    BY <1>1, <1>2
  <1>4. \A i \in DOMAIN q : i = 1 \/ (i - 1 \in DOMAIN r /\ q[i] = r[i - 1])
    BY <1>1, <1>2
  <1>5. 1 \in DOMAIN q
    BY <1>2
  <1>6. Head(q) \in Held(q) /\ Held(r) \subseteq Held(q)
    BY <1>1, <1>3, <1>5 DEF Held
  <1>7. ASSUME NEW h \in Held(q), h # Head(q) PROVE h \in Held(r)
    <2>1. PICK i \in DOMAIN q : h = q[i]
      BY DEF Held
    <2>2. i - 1 \in DOMAIN r /\ h = r[i - 1]
      BY <1>1, <1>4, <1>7, <2>1
    <2> QED BY <2>2 DEF Held
  <1>8. ASSUME NEW op, OnceIn(q, op)
        PROVE  /\ OnceIn(r, op)
               /\ \A h \in Held(r) : h.op = op /\ Head(q).op = op => h.of # Head(q).of
    <2>1. ASSUME NEW i \in DOMAIN r, NEW j \in DOMAIN r,
                 r[i].op = op, r[j].op = op, r[i].of = r[j].of
          PROVE  i = j
      <3>1. i + 1 = j + 1
        BY <1>3, <1>8, <2>1 DEF OnceIn
      <3> QED BY <1>2, <2>1, <3>1
    <2>2. ASSUME NEW i \in DOMAIN r, r[i].op = op, Head(q).op = op
          PROVE  r[i].of # Head(q).of
      BY <1>1, <1>3, <1>5, <1>8, <2>2 DEF OnceIn
    <2> QED BY <2>1, <2>2 DEF OnceIn, Held
  <1> QED BY <1>1, <1>6, <1>7, <1>8 DEF r

LEMMA HeldEmpty == Held(<<>>) = {} /\ \A op : OnceIn(<<>>, op)
  BY EmptySeq DEF Held, OnceIn

LEMMA HeldIn ==
    ASSUME NEW S, NEW q \in Seq(S), NEW h \in Held(q)
    PROVE  h \in S
  BY ElementOfSeq, LenProperties DEF Held

-----------------------------------------------------------------------------
(* What the operators of the steps do to the wires.                        *)

\* Nothing new is on the wires.
Shrinks(w, v) ==
    \A c \in Conn :
        /\ Held(v[c]) \subseteq Held(w[c])
        /\ OnceIn(w[c], "begin") => OnceIn(v[c], "begin")

\* Nothing new but pdu on the wire of connection b.
Grows(w, v, b, pdu) ==
    \A c \in Conn :
        \/ v[c] = w[c]
        \/ /\ c = b
           /\ Held(v[c]) = Held(w[c]) \cup {pdu}
           /\ /\ OnceIn(w[c], "begin")
              /\ pdu.op # "begin" \/ \A h \in Held(w[c]) : h.op = "begin" => h.of # pdu.of
              => OnceIn(v[c], "begin")

LEMMA Types ==
    /\ Conn \subseteq Object /\ 0 \in Object /\ 0 \notin Conn
    /\ Object \subseteq Nat /\ Tid \subseteq Nat /\ 0 \in Tid
    /\ \A o \in Object : o = 0 \/ o \in Conn
    /\ NoTrans \notin Trans /\ Dial \cap Accept = {} /\ Trans = Dial \cup Accept
    /\ MaxTid \in Nat /\ MaxConn \in Nat
  BY LinkAssumption DEF Conn, Object, Tid, Trans

LEMMA SendFacts ==
    ASSUME TypeOK, NEW o \in Object, NEW pdu \in Pdu, SendPdu(o, pdu)
    PROVE  /\ up' \in [Conn -> Seq(Pdu)]
           /\ down' \in [Conn -> Seq(Pdu)]
           /\ IF o = 0 /\ est[0] THEN Grows(up, up', conn, pdu) ELSE up' = up
           /\ IF o > 0 /\ est[0] /\ conn = o
              THEN Grows(down, down', o, pdu) ELSE down' = down
           /\ o > 0 /\ est[o] /\ est[0] /\ conn = o => pdu \in Held(down'[o])
  <1>1. CASE est[o] /\ o = 0 /\ est[conn] /\ up' = [up EXCEPT ![conn] = Append(@, pdu)]
             /\ UNCHANGED down
    <2>1. \A c \in Conn : IF c = conn THEN up'[c] = Append(up[c], pdu) ELSE up'[c] = up[c]
      BY <1>1 DEF TypeOK
    <2>2. ASSUME NEW c \in Conn, c = conn
          PROVE  /\ Append(up[c], pdu) \in Seq(Pdu)
                 /\ Held(Append(up[c], pdu)) = Held(up[c]) \cup {pdu}
                 /\ /\ OnceIn(up[c], "begin")
                    /\ \/ pdu.op # "begin"
                       \/ \A h \in Held(up[c]) : h.op = "begin" => h.of # pdu.of
                    => OnceIn(Append(up[c], pdu), "begin")
      BY HeldAppend DEF TypeOK
    <2>3. up' \in [Conn -> Seq(Pdu)]
      BY <1>1, <2>1, <2>2 DEF TypeOK
    <2>4. Grows(up, up', conn, pdu)
      BY <2>1, <2>2 DEF Grows
    <2> QED BY <1>1, <2>3, <2>4 DEF TypeOK
  <1>2. CASE est[o] /\ o > 0 /\ est[0] /\ conn = o
             /\ down' = [down EXCEPT ![o] = Append(@, pdu)] /\ UNCHANGED up
    <2>1. o \in Conn /\ o # 0
      BY <1>2, Types
    <2>2. \A c \in Conn : IF c = o THEN down'[c] = Append(down[c], pdu)
                          ELSE down'[c] = down[c]
      BY <1>2 DEF TypeOK
    <2>3. /\ Append(down[o], pdu) \in Seq(Pdu)
          /\ Held(Append(down[o], pdu)) = Held(down[o]) \cup {pdu}
          /\ /\ OnceIn(down[o], "begin")
             /\ \/ pdu.op # "begin"
                \/ \A h \in Held(down[o]) : h.op = "begin" => h.of # pdu.of
             => OnceIn(Append(down[o], pdu), "begin")
      BY <2>1, HeldAppend DEF TypeOK
    <2>4. down' \in [Conn -> Seq(Pdu)]
      BY <1>2, <2>1, <2>3 DEF TypeOK
    <2>5. Grows(down, down', o, pdu)
      BY <2>1, <2>2, <2>3 DEF Grows
    <2>6. pdu \in Held(down'[o])
      BY <2>1, <2>2, <2>3
    <2> QED BY <1>2, <2>1, <2>4, <2>5, <2>6 DEF TypeOK
  <1>3. CASE ~(est[o] /\ IF o = 0 THEN est[conn] ELSE est[0] /\ conn = o)
             /\ UNCHANGED wires
    <2>1. up' = up /\ down' = down
      BY <1>3 DEF wires
    <2>2. Grows(up, up', conn, pdu)
      BY <2>1 DEF Grows
    <2>3. ~(o > 0 /\ est[o] /\ est[0] /\ conn = o)
      BY <1>3, Types
    <2>4. Grows(down, down', o, pdu)
      BY <2>1 DEF Grows
    <2> QED BY <2>1, <2>2, <2>3, <2>4 DEF TypeOK
  <1> QED BY <1>1, <1>2, <1>3 DEF SendPdu

\* What o reads, and what is left of the wire it is read from.
LEMMA TakeFacts ==
    ASSUME TypeOK, BornInv, NEW o \in Object, Take(o)
    PROVE  /\ up' \in [Conn -> Seq(Pdu)]
           /\ down' \in [Conn -> Seq(Pdu)]
           /\ Shrinks(up, up') /\ Shrinks(down, down')
           /\ Head(Incoming(o)) \in Pdu
           /\ o = 0 =>
                 /\ conn \in Conn
                 /\ Head(Incoming(o)) \in Held(down[conn])
                 /\ up' = up
                 /\ \A h \in Held(down[conn]) :
                       h # Head(Incoming(o)) => h \in Held(down'[conn])
                 /\ \A c \in Conn : c # conn => down'[c] = down[c]
                 /\ OnceIn(down[conn], "begin") /\ Head(Incoming(o)).op = "begin" =>
                       \A h \in Held(down'[conn]) :
                          h.op = "begin" => h.of # Head(Incoming(o)).of
           /\ o > 0 =>
                 /\ o \in Conn
                 /\ Head(Incoming(o)) \in Held(up[o])
                 /\ down' = down
                 /\ \A c \in Conn : c # o => up'[c] = up[c]
                 /\ OnceIn(up[o], "begin") /\ Head(Incoming(o)).op = "begin" =>
                       \A h \in Held(up'[o]) :
                          h.op = "begin" => h.of # Head(Incoming(o)).of
  <1>1. CASE o = 0
    <2>1. conn \in Conn /\ ~(o > 0)
      BY <1>1 DEF BornInv, TypeOK, Take, Conn
    <2> DEFINE q == down[conn]
    <2>2. q \in Seq(Pdu) /\ q # <<>> /\ Incoming(o) = q
      BY <1>1, <2>1 DEF TypeOK, Take, Incoming, ConnOf
    <2>3. up' = up /\ down' = [down EXCEPT ![conn] = Tail(q)]
      BY <1>1 DEF Take, ConnOf
    <2>4. /\ down'[conn] = Tail(q)
          /\ \A c \in Conn : c # conn => down'[c] = down[c]
      BY <2>1, <2>3 DEF TypeOK
    <2> HIDE DEF q
    <2>5. /\ Tail(q) \in Seq(Pdu)
          /\ Head(q) \in Held(q)
          /\ Head(q) \in Pdu
          /\ Held(Tail(q)) \subseteq Held(q)
          /\ \A h \in Held(q) : h # Head(q) => h \in Held(Tail(q))
          /\ OnceIn(q, "begin") => OnceIn(Tail(q), "begin")
          /\ OnceIn(q, "begin") /\ Head(q).op = "begin" =>
                \A h \in Held(Tail(q)) : h.op = "begin" => h.of # Head(q).of
      BY <2>2, HeldTail
    <2>6. down' \in [Conn -> Seq(Pdu)] /\ up' \in [Conn -> Seq(Pdu)]
      BY <2>3, <2>5 DEF TypeOK
    <2>7. q = down[conn]
      BY DEF q
    <2>8. Shrinks(down, down')
      BY <2>4, <2>5, <2>7 DEF Shrinks
    <2>9. Shrinks(up, up')
      BY <2>3 DEF Shrinks
    <2> QED BY <1>1, <2>1, <2>2, <2>3, <2>4, <2>5, <2>6, <2>7, <2>8, <2>9
  <1>2. CASE o > 0
    <2>1. o \in Conn /\ o # 0
      BY <1>2, Types
    <2> DEFINE q == up[o]
    <2>2. q \in Seq(Pdu) /\ q # <<>> /\ Incoming(o) = q
      BY <2>1 DEF TypeOK, Take, Incoming, ConnOf
    <2>3. down' = down /\ up' = [up EXCEPT ![o] = Tail(q)]
      BY <2>1 DEF Take, ConnOf
    <2>4. up'[o] = Tail(q) /\ \A c \in Conn : c # o => up'[c] = up[c]
      BY <2>1, <2>3 DEF TypeOK
    <2> HIDE DEF q
    <2>5. /\ Tail(q) \in Seq(Pdu)
          /\ Head(q) \in Held(q)
          /\ Head(q) \in Pdu
          /\ Held(Tail(q)) \subseteq Held(q)
          /\ OnceIn(q, "begin") => OnceIn(Tail(q), "begin")
          /\ OnceIn(q, "begin") /\ Head(q).op = "begin" =>
                \A h \in Held(Tail(q)) : h.op = "begin" => h.of # Head(q).of
      BY <2>2, HeldTail
    <2>6. down' \in [Conn -> Seq(Pdu)] /\ up' \in [Conn -> Seq(Pdu)]
      BY <2>3, <2>5 DEF TypeOK
    <2>7. q = up[o]
      BY DEF q
    <2>8. Shrinks(up, up')
      BY <2>4, <2>5, <2>7 DEF Shrinks
    <2>9. Shrinks(down, down')
      BY <2>3 DEF Shrinks
    <2> QED BY <2>1, <2>2, <2>3, <2>4, <2>5, <2>6, <2>7, <2>8, <2>9
  <1> QED BY <1>1, <1>2, Types

LEMMA UnreadFacts ==
    ASSUME TypeOK, NEW o \in Object, Unread(o)
    PROVE  /\ up' \in [Conn -> Seq(Pdu)]
           /\ down' \in [Conn -> Seq(Pdu)]
           /\ Shrinks(up, up') /\ Shrinks(down, down')
           /\ o > 0 => down' = down
  <1>1. /\ up' = [c \in Conn |-> IF c = o THEN <<>> ELSE up[c]]
        /\ down' = [c \in Conn |-> IF o = 0 THEN <<>> ELSE down[c]]
    BY DEF Unread
  <1>2. <<>> \in Seq(Pdu)
    BY EmptySeq
  <1>3. up' \in [Conn -> Seq(Pdu)] /\ down' \in [Conn -> Seq(Pdu)]
    BY <1>1, <1>2 DEF TypeOK
  <1>4. /\ \A c \in Conn : up'[c] \in {<<>>, up[c]}
        /\ \A c \in Conn : down'[c] \in {<<>>, down[c]}
    BY <1>1
  <1>5. Shrinks(up, up') /\ Shrinks(down, down')
    BY <1>4, HeldEmpty DEF Shrinks
  <1>6. o > 0 => down' = down
    BY <1>1, Types DEF TypeOK
  <1> QED BY <1>3, <1>5, <1>6

-----------------------------------------------------------------------------
(* Ids and tables.                                                         *)

LEMMA BackFacts ==
    ASSUME NEW o \in Object, tidSeq \in [Object -> Tid]
    PROVE  /\ GenTid(o) \in Tid
           /\ Back(GenTid(o), 0) = GenTid(o)
           /\ \A d \in 0 .. MaxTid : d # 0 => Back(GenTid(o), d) # GenTid(o)
           /\ \A d \in 0 .. MaxTid :
                 d < MaxTid => Back(GenTid(o), d + 1) = Back(tidSeq[o], d)
           /\ Back(tidSeq[o], MaxTid) = GenTid(o)
  <1> DEFINE s == tidSeq[o]
  <1>1. s \in 0 .. MaxTid /\ MaxTid \in Nat
    BY Types DEF Tid
  <1>2. GenTid(o) = IF s = MaxTid THEN 0 ELSE s + 1
    BY DEF GenTid
  <1> HIDE DEF s
  <1>3. GenTid(o) \in Tid
    BY <1>1, <1>2 DEF Tid
  <1>4. \A d \in 0 .. MaxTid : d # 0 => Back(GenTid(o), d) # GenTid(o)
    BY <1>1, <1>2 DEF Back
  <1>5. \A d \in 0 .. MaxTid : d < MaxTid => Back(GenTid(o), d + 1) = Back(s, d)
    BY <1>1, <1>2 DEF Back
  <1>6. Back(GenTid(o), 0) = GenTid(o)
    BY <1>1, <1>2 DEF Back
  <1>7. Back(s, MaxTid) = GenTid(o)
    BY <1>1, <1>2 DEF Back
  <1> QED BY <1>3, <1>4, <1>5, <1>6, <1>7 DEF s

LEMMA IdsFacts ==
    ASSUME TypeOK, NEW t \in Trans, NEW i
    PROVE  i \in Ids[t] <=>
              /\ i \in Tid
              /\ ord[t] > 0
              /\ Lag(t) <= MaxTid => i = Back(tidSeq[at[t]], Lag(t))
              /\ transInit[at[t]][i] \notin {NoTrans, t} =>
                    ord[transInit[at[t]][i]] - ord[t] > MaxTid
  BY DEF Ids

\* Slots are emptied only.
Erases ==
    \A o \in Object, i \in Tid : transInit'[o][i] \in {NoTrans, transInit[o][i]}

\* What has an id keeps it.
IdsStay ==
    /\ UNCHANGED <<issued, tidSeq>>
    /\ \A t \in Trans : ord[t] > 0 => ord'[t] = ord[t] /\ at'[t] = at[t]

LEMMA IdsKept ==
    ASSUME TypeOK, TypeOK', SlotInv, Erases, IdsStay
    PROVE  \A t \in Trans : Ids[t] \subseteq Ids'[t]
  <1> SUFFICES ASSUME NEW t \in Trans, NEW i \in Ids[t]
               PROVE  i \in Ids'[t]
    OBVIOUS
  <1>1. /\ i \in Tid
        /\ ord[t] > 0
        /\ Lag(t) <= MaxTid => i = Back(tidSeq[at[t]], Lag(t))
        /\ transInit[at[t]][i] \notin {NoTrans, t} =>
              ord[transInit[at[t]][i]] - ord[t] > MaxTid
    BY IdsFacts
  <1>2. /\ ord'[t] = ord[t] /\ at'[t] = at[t]
        /\ issued' = issued /\ tidSeq' = tidSeq
        /\ at[t] \in Object
    BY <1>1 DEF IdsStay, TypeOK
  <1>3. Lag(t)' = Lag(t)
    BY <1>2 DEF Lag
  <1>4. transInit'[at[t]][i] \in {NoTrans, transInit[at[t]][i]}
    BY <1>1, <1>2 DEF Erases
  <1>5. transInit[at[t]][i] # NoTrans =>
           ord'[transInit[at[t]][i]] = ord[transInit[at[t]][i]]
    BY <1>1, <1>2 DEF SlotInv, IdsStay, TypeOK
  <1>6. /\ i \in Tid
        /\ ord'[t] > 0
        /\ Lag(t)' <= MaxTid => i = Back(tidSeq'[at'[t]], Lag(t)')
        /\ transInit'[at'[t]][i] \notin {NoTrans, t} =>
              ord'[transInit'[at'[t]][i]] - ord'[t] > MaxTid
    BY <1>1, <1>2, <1>3, <1>4, <1>5
  <1> QED BY <1>6 DEF Ids

LEMMA SlotsKept ==
    ASSUME TypeOK, TypeOK', SlotInv, Erases, IdsStay
    PROVE  SlotInv'
  <1> SUFFICES ASSUME NEW o \in Object, NEW i \in Tid, transInit'[o][i] # NoTrans
               PROVE  /\ at'[transInit'[o][i]] = o
                      /\ ord'[transInit'[o][i]] > 0
                      /\ issued'[at'[transInit'[o][i]]] - ord'[transInit'[o][i]] <= MaxTid
                      /\ i = Back(tidSeq'[o],
                                issued'[at'[transInit'[o][i]]] - ord'[transInit'[o][i]])
    BY DEF SlotInv, Lag
  <1> DEFINE t == transInit[o][i]
  <1>1. transInit'[o][i] = t /\ t # NoTrans
    BY DEF Erases
  <1>2. t \in Trans
    BY <1>1 DEF TypeOK
  <1>3. /\ at[t] = o
        /\ ord[t] > 0
        /\ issued[at[t]] - ord[t] <= MaxTid
        /\ i = Back(tidSeq[o], issued[at[t]] - ord[t])
    BY <1>1 DEF SlotInv, Lag
  <1>4. ord'[t] = ord[t] /\ at'[t] = at[t] /\ issued' = issued /\ tidSeq' = tidSeq
    BY <1>2, <1>3 DEF IdsStay
  <1> HIDE DEF t
  <1> QED BY <1>1, <1>3, <1>4

\* A new id is the one that was not generated for longest.
LEMMA FutureBeginIds ==
    ASSUME TypeOK, TypeOK', SlotInv, BornInv,
           NEW o \in Object, NEW u \in Trans, ord[u] = 0, at[u] = o, FutureBegin(o, u)
    PROVE  /\ \A t \in Trans : Ids[t] \subseteq Ids'[t]
           /\ GenTid(o) \in Ids'[u]
           /\ SlotInv'
  <1> DEFINE g == GenTid(o)
  <1>1. /\ tidSeq' = [tidSeq EXCEPT ![o] = g]
        /\ transInit' = [transInit EXCEPT ![o][g] = u]
        /\ issued' = [issued EXCEPT ![o] = @ + 1]
        /\ ord' = [ord EXCEPT ![u] = issued[o] + 1]
        /\ at' = at
    BY DEF FutureBegin, begun
  <1>2. /\ g \in Tid
        /\ Back(g, 0) = g
        /\ \A d \in 0 .. MaxTid : d # 0 => Back(g, d) # g
        /\ \A d \in 0 .. MaxTid : d < MaxTid => Back(g, d + 1) = Back(tidSeq[o], d)
        /\ Back(tidSeq[o], MaxTid) = g
    BY BackFacts DEF TypeOK
  <1> HIDE DEF g
  <1>3. /\ tidSeq'[o] = g
        /\ issued'[o] = issued[o] + 1
        /\ ord'[u] = issued[o] + 1
        /\ \A t \in Trans : t # u => ord'[t] = ord[t]
        /\ \A b \in Object : b # o => tidSeq'[b] = tidSeq[b] /\ issued'[b] = issued[b]
    BY <1>1 DEF TypeOK
  <1>4. \A b \in Object, i \in Tid :
           transInit'[b][i] = IF b = o /\ i = g THEN u ELSE transInit[b][i]
    BY <1>1 DEF TypeOK
  <1>5. \A t \in Trans : /\ at[t] \in Object
                         /\ ord[t] \in Nat /\ issued[at[t]] \in Nat
                         /\ ord[t] <= issued[at[t]]
    BY DEF TypeOK, BornInv
  <1>6. MaxTid \in Nat /\ NoTrans \notin Trans /\ issued[o] \in Nat
    BY Types DEF TypeOK
  <1>7. Lag(u)' = 0
    BY <1>1, <1>3, <1>6 DEF Lag
  <1>8. ASSUME NEW t \in Trans, t # u
        PROVE  Lag(t)' = IF at[t] = o THEN Lag(t) + 1 ELSE Lag(t)
    BY <1>1, <1>3, <1>5, <1>8 DEF Lag
  <1>9. \A t \in Trans : Lag(t) \in Nat
    BY <1>5 DEF Lag
  \* An id behind the last is another, and is passed on.
  <1>10. \A d \in Nat : d + 1 <= MaxTid =>
            Back(g, d + 1) = Back(tidSeq[o], d) /\ Back(g, d + 1) # g
    BY <1>2, <1>6
  <1>11. ASSUME NEW t \in Trans, NEW i \in Ids[t]
         PROVE  i \in Ids'[t]
    <2>1. /\ i \in Tid
          /\ ord[t] > 0
          /\ Lag(t) <= MaxTid => i = Back(tidSeq[at[t]], Lag(t))
          /\ transInit[at[t]][i] \notin {NoTrans, t} =>
                ord[transInit[at[t]][i]] - ord[t] > MaxTid
      BY <1>11, IdsFacts
    <2>2. t # u /\ ord'[t] = ord[t] /\ at'[t] = at[t]
      BY <1>1, <1>3, <2>1
    <2>3. Lag(t)' <= MaxTid => i = Back(tidSeq'[at'[t]], Lag(t)')
      <3>1. CASE at[t] = o
        BY <1>3, <1>6, <1>8, <1>9, <1>10, <2>1, <2>2, <3>1
      <3>2. CASE at[t] # o
        BY <1>3, <1>5, <1>8, <2>1, <2>2, <3>2
      <3> QED BY <3>1, <3>2
    <2>4. transInit'[at[t]][i] \notin {NoTrans, t} =>
             ord'[transInit'[at[t]][i]] - ord[t] > MaxTid
      <3>1. CASE at[t] = o /\ i = g
        <4>1. transInit'[at[t]][i] = u
          BY <1>4, <1>5, <2>1, <3>1
        <4>2. ~(Lag(t) + 1 <= MaxTid)
          BY <1>6, <1>9, <1>10, <2>1, <3>1
        <4>3. ord'[u] - ord[t] = Lag(t) + 1
          BY <1>3, <1>5, <3>1 DEF Lag
        <4> QED BY <1>6, <1>9, <4>1, <4>2, <4>3
      <3>2. CASE ~(at[t] = o /\ i = g)
        <4>1. transInit'[at[t]][i] = transInit[at[t]][i]
          BY <1>4, <1>5, <2>1, <3>2
        <4>2. transInit[at[t]][i] # NoTrans =>
                 transInit[at[t]][i] \in Trans /\ ord[transInit[at[t]][i]] > 0
          BY <1>5, <2>1 DEF SlotInv, TypeOK
        <4>3. transInit[at[t]][i] # NoTrans =>
                 ord'[transInit[at[t]][i]] = ord[transInit[at[t]][i]]
          BY <1>3, <4>2
        <4> QED BY <2>1, <4>1, <4>3
      <3> QED BY <3>1, <3>2
    <2> QED BY <2>1, <2>2, <2>3, <2>4 DEF Ids
  <1>12. g \in Ids'[u]
    <2>1. Lag(u)' <= MaxTid => g = Back(tidSeq'[at'[u]], Lag(u)')
      BY <1>1, <1>2, <1>3, <1>7
    <2>2. transInit'[at'[u]][g] = u
      BY <1>1, <1>2, <1>4
    <2>3. ord'[u] > 0
      BY <1>3, <1>6
    <2> QED BY <1>2, <2>1, <2>2, <2>3 DEF Ids
  <1>13. ASSUME NEW b \in Object, NEW i \in Tid, transInit'[b][i] # NoTrans
         PROVE  /\ at'[transInit'[b][i]] = b
                /\ ord'[transInit'[b][i]] > 0
                /\ issued'[at'[transInit'[b][i]]] - ord'[transInit'[b][i]] <= MaxTid
                /\ i = Back(tidSeq'[b],
                          issued'[at'[transInit'[b][i]]] - ord'[transInit'[b][i]])
    <2>1. CASE b = o /\ i = g
      <3>1. transInit'[b][i] = u
        BY <1>4, <2>1
      <3>2. issued'[at'[u]] - ord'[u] = 0
        BY <1>7 DEF Lag
      <3> QED BY <1>1, <1>2, <1>3, <1>6, <2>1, <3>1, <3>2
    <2>2. CASE ~(b = o /\ i = g)
      <3> DEFINE t == transInit[b][i]
      <3>1. transInit'[b][i] = t /\ t # NoTrans
        BY <1>4, <1>13, <2>2
      <3>2. /\ t \in Trans /\ at[t] = b /\ ord[t] > 0
            /\ Lag(t) <= MaxTid /\ i = Back(tidSeq[b], Lag(t))
        BY <3>1 DEF SlotInv, TypeOK
      <3> HIDE DEF t
      <3>3. t # u /\ ord'[t] = ord[t] /\ at'[t] = at[t]
        BY <1>1, <1>3, <3>2
      <3>4. issued'[at'[t]] - ord'[t] = IF b = o THEN Lag(t) + 1 ELSE Lag(t)
        BY <1>8, <3>2, <3>3 DEF Lag
      <3>5. CASE b = o
        <4>1. Lag(t) # MaxTid
          BY <1>2, <2>2, <3>2, <3>5
        <4>2. Lag(t) + 1 <= MaxTid
          BY <1>6, <1>9, <3>2, <4>1
        <4> QED BY <1>3, <1>9, <1>10, <3>1, <3>2, <3>3, <3>4, <3>5, <4>2
      <3>6. CASE b # o
        BY <1>3, <3>1, <3>2, <3>3, <3>4, <3>6
      <3> QED BY <3>5, <3>6
    <2> QED BY <2>1, <2>2
  <1>14. SlotInv'
    BY <1>13 DEF SlotInv, Lag
  <1> QED BY <1>11, <1>12, <1>14 DEF g


-----------------------------------------------------------------------------
(* What keeps the parts of the invariant.                                  *)

\* What has an id keeps it, and where it was begun.
OrdStays == \A t \in Trans : ord[t] > 0 => ord'[t] = ord[t] /\ at'[t] = at[t]

\* WireInv after a step that leaves v on the wire.
WireNext(v, Home, Away) ==
    /\ \A c \in Conn : OnceIn(v[c], "begin")
    /\ \A c, d \in Conn : \A p \in Held(v[c]), q \in Held(v[d]) :
          p.op = "begin" /\ q.op = "begin" /\ p.of = q.of => c = d
    /\ \A c \in Conn : \A p \in Held(v[c]) :
          /\ p.tid \in Ids'[p.of]
          /\ p.op = "begin" => p.of \in Away /\ pass'[p.of] = "absent"
          /\ p.op = "end" =>
                p.of \in Home /\ pass'[p.of] = "replied" /\ at'[p.of] <= c

LEMMA WireNextIs ==
    /\ WireNext(up', Accept, Dial) => WireInv(up, Accept, Dial)'
    /\ WireNext(down', Dial, Accept) => WireInv(down, Dial, Accept)'
  BY DEF WireNext, WireInv, Held

LEMMA WiresShrink ==
    ASSUME NEW w \in [Conn -> Seq(Pdu)], NEW v \in [Conn -> Seq(Pdu)],
           NEW Home, NEW Away, WireInv(w, Home, Away), Shrinks(w, v),
           \A t \in Trans : Ids[t] \subseteq Ids'[t], OrdStays,
           \A t \in Trans : pass[t] = "replied" => pass'[t] = "replied",
           \A c \in Conn : \A p \in Held(v[c]) :
              p.op = "begin" /\ pass[p.of] = "absent" => pass'[p.of] = "absent"
    PROVE  WireNext(v, Home, Away)
  <1>1. \A c \in Conn : \A p \in Held(v[c]) : p \in Held(w[c]) /\ p.of \in Trans
    <2> SUFFICES ASSUME NEW c \in Conn, NEW p \in Held(v[c])
                 PROVE  p \in Held(w[c]) /\ p.of \in Trans
      OBVIOUS
    <2>1. p \in Pdu
      BY HeldIn
    <2> QED BY <2>1 DEF Shrinks, Pdu
  <1>2. \A t \in Trans : \A i \in Ids[t] : ord[t] > 0
    BY DEF Ids
  <1>3. \A c \in Conn : OnceIn(v[c], "begin")
    BY DEF Shrinks, WireInv
  <1>4. \A c, d \in Conn : \A p \in Held(v[c]), q \in Held(v[d]) :
           p.op = "begin" /\ q.op = "begin" /\ p.of = q.of => c = d
    BY <1>1 DEF WireInv
  <1>5. ASSUME NEW c \in Conn, NEW p \in Held(v[c])
        PROVE  /\ p.tid \in Ids'[p.of]
               /\ p.op = "begin" => p.of \in Away /\ pass'[p.of] = "absent"
               /\ p.op = "end" =>
                     p.of \in Home /\ pass'[p.of] = "replied" /\ at'[p.of] <= c
    <2>1. /\ p.tid \in Ids[p.of]
          /\ p.op = "begin" => p.of \in Away /\ pass[p.of] = "absent"
          /\ p.op = "end" =>
                p.of \in Home /\ pass[p.of] = "replied" /\ at[p.of] <= c
      BY <1>1 DEF WireInv
    <2>2. p.of \in Trans /\ ord[p.of] > 0
      BY <1>1, <1>2, <2>1
    <2> QED BY <2>1, <2>2 DEF OrdStays
  <1> QED BY <1>3, <1>4, <1>5 DEF WireNext

LEMMA WiresGrow ==
    ASSUME NEW w \in [Conn -> Seq(Pdu)], NEW v \in [Conn -> Seq(Pdu)],
           NEW Home, NEW Away, WireInv(w, Home, Away),
           NEW b \in Conn, NEW pdu \in Pdu, Grows(w, v, b, pdu),
           \A t \in Trans : Ids[t] \subseteq Ids'[t], OrdStays,
           \A t \in Trans : pass[t] = "replied" => pass'[t] = "replied",
           \A t \in Trans : pass[t] = "absent" => pass'[t] = "absent",
           pdu.tid \in Ids'[pdu.of],
           pdu.op = "begin" =>
              /\ pdu.of \in Away /\ pass'[pdu.of] = "absent"
              /\ ord[pdu.of] = 0,
           pdu.op = "end" =>
              pdu.of \in Home /\ pass'[pdu.of] = "replied" /\ at'[pdu.of] <= b
    PROVE  WireNext(v, Home, Away)
  <1>1. \A t \in Trans : \A i \in Ids[t] : ord[t] > 0
    BY DEF Ids
  <1>2. \A c \in Conn : \A p \in Held(w[c]) : p.of \in Trans /\ ord[p.of] > 0
    <2> SUFFICES ASSUME NEW c \in Conn, NEW p \in Held(w[c])
                 PROVE  p.of \in Trans /\ ord[p.of] > 0
      OBVIOUS
    <2>1. p \in Pdu
      BY HeldIn
    <2>2. p.of \in Trans
      BY <2>1 DEF Pdu
    <2> QED BY <1>1, <2>2 DEF WireInv
  <1>3. \A c \in Conn : \A p \in Held(v[c]) : p \in Held(w[c]) \/ (c = b /\ p = pdu)
    BY DEF Grows
  <1>4. pdu.op = "begin" => \A c \in Conn : \A p \in Held(w[c]) : p.of # pdu.of
    BY <1>2
  <1>5. \A c \in Conn : OnceIn(v[c], "begin")
    <2> SUFFICES ASSUME NEW c \in Conn PROVE OnceIn(v[c], "begin")
      OBVIOUS
    <2>1. OnceIn(w[c], "begin")
      BY DEF WireInv
    <2>2. pdu.op # "begin" \/ \A h \in Held(w[c]) : h.op = "begin" => h.of # pdu.of
      BY <1>4
    <2>3. CASE v[c] = w[c]
      BY <2>1, <2>3
    <2>4. CASE v[c] # w[c]
      BY <2>1, <2>2, <2>4 DEF Grows
    <2> QED BY <2>3, <2>4
  <1>6. \A c, d \in Conn : \A p \in Held(v[c]), q \in Held(v[d]) :
           p.op = "begin" /\ q.op = "begin" /\ p.of = q.of => c = d
    <2> SUFFICES ASSUME NEW c \in Conn, NEW d \in Conn,
                        NEW p \in Held(v[c]), NEW q \in Held(v[d]),
                        p.op = "begin", q.op = "begin", p.of = q.of
                 PROVE  c = d
      OBVIOUS
    <2>1. CASE p \in Held(w[c]) /\ q \in Held(w[d])
      BY <2>1 DEF WireInv
    <2>2. CASE p \in Held(w[c]) /\ d = b /\ q = pdu
      BY <1>4, <2>2
    <2>3. CASE c = b /\ p = pdu /\ q \in Held(w[d])
      BY <1>4, <2>3
    <2> QED BY <1>3, <2>1, <2>2, <2>3
  <1>7. ASSUME NEW c \in Conn, NEW p \in Held(v[c])
        PROVE  /\ p.tid \in Ids'[p.of]
               /\ p.op = "begin" => p.of \in Away /\ pass'[p.of] = "absent"
               /\ p.op = "end" =>
                     p.of \in Home /\ pass'[p.of] = "replied" /\ at'[p.of] <= c
    <2>1. CASE p \in Held(w[c])
      <3>1. /\ p.tid \in Ids[p.of]
            /\ p.op = "begin" => p.of \in Away /\ pass[p.of] = "absent"
            /\ p.op = "end" =>
                  p.of \in Home /\ pass[p.of] = "replied" /\ at[p.of] <= c
        BY <2>1 DEF WireInv
      <3> QED BY <1>2, <2>1, <3>1 DEF OrdStays
    <2>2. CASE c = b /\ p = pdu
      BY <2>2
    <2> QED BY <1>3, <2>1, <2>2
  <1> QED BY <1>5, <1>6, <1>7 DEF WireNext

\* The mailboxes lose, and what is left is about transactions that are left alone.
LEMMA TasksKept ==
    ASSUME TaskInv,
           \A o \in Object :
              /\ Held(mailbox'[o]) \subseteq Held(mailbox[o])
              /\ OnceIn(mailbox[o], "begin") => OnceIn(mailbox'[o], "begin")
              /\ OnceIn(mailbox[o], "end") => OnceIn(mailbox'[o], "end")
              /\ \A e \in Held(mailbox'[o]) :
                    /\ e.op = "begin" =>
                          /\ ord'[e.of] = ord[e.of] /\ at'[e.of] = at[e.of]
                          /\ outcome[e.of] # "unborn" => outcome'[e.of] # "unborn"
                    /\ e.op = "end" /\ pass[e.of] = "ending" =>
                          pass'[e.of] = "ending" /\ via'[e.of] = via[e.of]
    PROVE  TaskInv'
  <1>1. ASSUME NEW o \in Object
        PROVE  /\ OnceIn(mailbox'[o], "begin")
               /\ OnceIn(mailbox'[o], "end")
               /\ \A e \in Held(mailbox'[o]) :
                     /\ e.op = "begin" =>
                           ord'[e.of] = 0 /\ at'[e.of] = o /\ outcome'[e.of] # "unborn"
                     /\ e.op = "end" => pass'[e.of] = "ending" /\ via'[e.of] = o
    <2>1. OnceIn(mailbox'[o], "begin") /\ OnceIn(mailbox'[o], "end")
      BY <1>1 DEF TaskInv
    <2>2. ASSUME NEW e \in Held(mailbox'[o])
          PROVE  /\ e.op = "begin" =>
                       ord'[e.of] = 0 /\ at'[e.of] = o /\ outcome'[e.of] # "unborn"
                 /\ e.op = "end" => pass'[e.of] = "ending" /\ via'[e.of] = o
      <3>1. /\ e.op = "begin" =>
                  ord[e.of] = 0 /\ at[e.of] = o /\ outcome[e.of] # "unborn"
            /\ e.op = "end" => pass[e.of] = "ending" /\ via[e.of] = o
        BY <1>1, <2>2 DEF TaskInv
      <3> QED BY <1>1, <2>2, <3>1
    <2> QED BY <2>1, <2>2
  <1> QED BY <1>1 DEF TaskInv, Held, OnceIn

LEMMA HandledKept ==
    ASSUME HandledInv, \A t \in Trans : Ids[t] \subseteq Ids'[t],
           \A t \in Trans : pass'[t] # "absent" => pass[t] # "absent" /\ dtid'[t] = dtid[t]
    PROVE  HandledInv'
  <1>1. \A t \in Trans : pass'[t] # "absent" => dtid'[t] \in Ids'[t]
    BY DEF HandledInv
  <1> QED BY <1>1 DEF HandledInv

LEMMA AnswersKept ==
    ASSUME TypeOK, AnswerInv, OrdStays, UNCHANGED answer,
           \A t \in Trans : pass[t] = "replied" => pass'[t] = "replied"
    PROVE  AnswerInv'
  <1> SUFFICES ASSUME NEW t \in Trans, answer'[t] # NoTrans
               PROVE  /\ ord'[t] > 0
                      /\ ord'[answer'[t]] > 0
                      /\ pass'[answer'[t]] = "replied"
                      /\ answer'[t] # t =>
                            \/ /\ at'[answer'[t]] = at'[t]
                               /\ ord'[t] - ord'[answer'[t]] > MaxTid
                            \/ t \in Accept /\ at'[answer'[t]] < at'[t]
    BY DEF AnswerInv, TurnBefore
  <1> DEFINE a == answer[t]
  <1>1. answer'[t] = a /\ a # NoTrans
    OBVIOUS
  <1>2. a \in Trans
    BY <1>1 DEF TypeOK
  <1>3. /\ ord[t] > 0 /\ ord[a] > 0 /\ pass[a] = "replied"
        /\ a # t => \/ at[a] = at[t] /\ ord[t] - ord[a] > MaxTid
                    \/ t \in Accept /\ at[a] < at[t]
    BY <1>1 DEF AnswerInv, TurnBefore
  <1> HIDE DEF a
  <1>4. ord'[t] = ord[t] /\ at'[t] = at[t] /\ ord'[a] = ord[a] /\ at'[a] = at[a]
    BY <1>2, <1>3 DEF OrdStays
  <1> QED BY <1>1, <1>2, <1>3, <1>4

LEMMA TableKept ==
    ASSUME TypeOK, TableInv, OrdStays, UNCHANGED issued,
           \A t \in Dial : outcome'[t] = "open" /\ ord'[t] > 0 =>
              outcome[t] = "open" /\ ord[t] > 0,
           \A t \in InTable(0) : outcome'[t] = "open" => t \in InTable(0)'
    PROVE  TableInv'
  <1> SUFFICES ASSUME NEW t \in Dial, outcome'[t] = "open", ord'[t] > 0,
                      issued'[at'[t]] - ord'[t] <= MaxTid
               PROVE  t \in InTable(0)'
    BY DEF TableInv, Lag
  <1>1. t \in Trans /\ outcome[t] = "open" /\ ord[t] > 0
    BY Types
  <1>2. Lag(t) <= MaxTid
    BY <1>1 DEF OrdStays, Lag
  <1> QED BY <1>1, <1>2 DEF TableInv

LEMMA HereKept ==
    ASSUME HereInv, TypeOK, Shrinks(up, up'),
           InTable(0)' \subseteq InTable(0),
           est'[0] = est[0], conn' = conn, consumed \subseteq consumed',
           \A t \in InTable(0)' :
              /\ pass'[t] # "absent" => pass[t] # "absent" /\ via'[t] = via[t]
              /\ pass'[t] = "replied" => pass[t] = "replied"
              /\ \A p \in Held(down[conn]) :
                    p.op = "end" /\ p.of = t =>
                       t \in consumed' \/ p \in Held(down'[conn])
    PROVE  HereInv'
  <1> SUFFICES ASSUME NEW t \in InTable(0)'
               PROVE  /\ \A c \in Conn : \A p \in Held(up'[c]) :
                            p.op = "begin" /\ p.of = t => est'[0] /\ c = conn'
                      /\ pass'[t] # "absent" => est'[0] /\ via'[t] = conn'
                      /\ pass'[t] = "replied" =>
                            \/ t \in consumed'
                            \/ \E p \in Held(down'[conn']) : p.op = "end" /\ p.of = t
    BY DEF HereInv, Answered, Held
  <1>1. t \in InTable(0)
    OBVIOUS
  <1>2. \A c \in Conn : \A p \in Held(up'[c]) :
           p.op = "begin" /\ p.of = t => est'[0] /\ c = conn'
    BY <1>1 DEF HereInv, Shrinks
  <1>3. pass'[t] # "absent" => est'[0] /\ via'[t] = conn'
    BY <1>1 DEF HereInv
  <1>4. pass'[t] = "replied" =>
           \/ t \in consumed'
           \/ \E p \in Held(down'[conn']) : p.op = "end" /\ p.of = t
    BY <1>1 DEF HereInv, Answered
  <1> QED BY <1>2, <1>3, <1>4

\* A step that sends nothing, generates no id and begins nothing.
Calm ==
    /\ Erases
    /\ UNCHANGED <<issued, tidSeq, ord, at, via, dtid>>
    /\ Shrinks(up, up')
    /\ Shrinks(down, down')
    /\ \A t \in Trans :
          /\ pass'[t] = "absent" <=> pass[t] = "absent"
          /\ pass'[t] = "replied" <=> pass[t] = "replied"
          /\ outcome'[t] = "unborn" <=> outcome[t] = "unborn"
          /\ outcome'[t] = "open" => outcome[t] = "open"
    /\ \A t \in InTable(0) : outcome'[t] = "open" => t \in InTable(0)'
    /\ conn' \in Nat /\ conn <= conn'
    /\ est'[0] => conn' > 0

LEMMA CalmIds ==
    ASSUME Calm PROVE IdsStay /\ OrdStays
  BY DEF Calm, IdsStay, OrdStays

LEMMA CalmKeeps ==
    ASSUME IInv, TypeOK', Calm
    PROVE  /\ SlotInv' /\ HandledInv' /\ BornInv' /\ TableInv'
           /\ WireInv(up, Accept, Dial)' /\ WireInv(down, Dial, Accept)'
           /\ UNCHANGED answer => AnswerInv'
  <1>1. \A t \in Trans : Ids[t] \subseteq Ids'[t]
    BY CalmIds, IdsKept DEF IInv, Calm
  <1>2. SlotInv'
    BY CalmIds, SlotsKept DEF IInv, Calm
  <1>3. HandledInv'
    BY <1>1, HandledKept DEF IInv, Calm
  <1>4. TableInv'
    BY CalmIds, TableKept, Types DEF IInv, Calm
  <1>5. UNCHANGED answer => AnswerInv'
    BY CalmIds, AnswersKept DEF IInv, Calm
  <1>6. \A t \in Trans : pass[t] = "replied" => pass'[t] = "replied"
    BY DEF Calm
  <1>7. \A p \in Pdu : p.of \in Trans
    BY DEF Pdu
  <1>8. up \in [Conn -> Seq(Pdu)] /\ up' \in [Conn -> Seq(Pdu)]
    BY DEF IInv, TypeOK
  <1>9. down \in [Conn -> Seq(Pdu)] /\ down' \in [Conn -> Seq(Pdu)]
    BY DEF IInv, TypeOK
  <1>10. \A c \in Conn : \A p \in Held(up'[c]) :
            p.op = "begin" /\ pass[p.of] = "absent" => pass'[p.of] = "absent"
    BY <1>7, <1>8, HeldIn DEF Calm
  <1>11. \A c \in Conn : \A p \in Held(down'[c]) :
            p.op = "begin" /\ pass[p.of] = "absent" => pass'[p.of] = "absent"
    BY <1>7, <1>9, HeldIn DEF Calm
  <1>12. WireNext(up', Accept, Dial)
    BY <1>1, <1>6, <1>8, <1>10, CalmIds, WiresShrink DEF IInv, Calm
  <1>13. WireNext(down', Dial, Accept)
    BY <1>1, <1>6, <1>9, <1>11, CalmIds, WiresShrink DEF IInv, Calm
  <1>14. BornInv'
    <2>1. at' = at /\ ord' = ord /\ via' = via /\ issued' = issued /\ est'[0] => conn' > 0
      BY DEF Calm
    <2>2. ASSUME NEW t \in Trans
          PROVE  /\ at'[t] <= conn'
                 /\ t \in Dial => at'[t] = 0
                 /\ t \in Accept /\ outcome'[t] # "unborn" => at'[t] > 0
                 /\ outcome'[t] = "unborn" => ord'[t] = 0
                 /\ ord'[t] <= issued'[at'[t]]
                 /\ pass'[t] # "absent" => ord'[t] > 0 /\ (via'[t] = 0 <=> t \in Accept)
      <3>1. at[t] <= conn'
        <4>1. at[t] \in Nat
          BY Types DEF IInv, TypeOK
        <4>2. conn \in Nat
          BY Types DEF IInv, TypeOK
        <4>3. conn' \in Nat /\ conn <= conn'
          BY DEF Calm
        <4>4. at[t] <= conn
          BY DEF IInv, BornInv
        <4> QED BY <4>1, <4>2, <4>3, <4>4
      <3>2. /\ outcome'[t] = "unborn" <=> outcome[t] = "unborn"
            /\ pass'[t] = "absent" <=> pass[t] = "absent"
        BY DEF Calm
      <3>3. /\ t \in Dial => at[t] = 0
            /\ t \in Accept /\ outcome[t] # "unborn" => at[t] > 0
            /\ outcome[t] = "unborn" => ord[t] = 0
            /\ ord[t] <= issued[at[t]]
            /\ pass[t] # "absent" => ord[t] > 0 /\ (via[t] = 0 <=> t \in Accept)
        BY DEF IInv, BornInv
      <3>4. at' = at /\ ord' = ord /\ via' = via /\ issued' = issued
        BY DEF Calm
      <3> QED BY <3>1, <3>2, <3>3, <3>4
    <2>3. est'[0] => conn' > 0
      BY DEF Calm
    <2> QED BY <2>2, <2>3 DEF BornInv
  <1> QED BY <1>2, <1>3, <1>4, <1>5, <1>12, <1>13, <1>14, WireNextIs

\* What finishes a part of a table.
LEMMA FinishFacts ==
    ASSUME IInv, NEW o \in Object, NEW S \in SUBSET InTable(o),
           NEW told \in {"answered", "timeout", "clean"},
           Finish(S, told), Without(o, S)
    PROVE  /\ transInit' \in [Object -> [Tid -> Trans \cup {NoTrans}]]
           /\ outcome' \in [Trans -> {"unborn", "open", "answered", "timeout", "clean"}]
           /\ Erases
           /\ \A t \in Trans :
                 /\ outcome'[t] = "unborn" <=> outcome[t] = "unborn"
                 /\ outcome'[t] = "open" => outcome[t] = "open"
           /\ \A t \in InTable(0) : outcome'[t] = "open" => t \in InTable(0)'
           /\ o = 0 => \A t \in S : t \notin InTable(0)'
  <1>1. S \subseteq Trans /\ \A t \in S : outcome[t] # "unborn"
    <2> SUFFICES ASSUME NEW t \in S PROVE t \in Trans /\ outcome[t] # "unborn"
      OBVIOUS
    <2>1. t \in InTable(o)
      OBVIOUS
    <2>2. PICK i \in Tid : t = transInit[o][i] /\ t # NoTrans
      BY <2>1 DEF InTable
    <2>3. t \in Trans /\ ord[t] > 0
      BY <2>2 DEF IInv, SlotInv, TypeOK
    <2> QED BY <2>3 DEF IInv, BornInv, TypeOK
  <1>2. outcome' = [t \in Trans |-> IF t \in S THEN told ELSE outcome[t]]
    BY DEF Finish
  <1>3. \A b \in Object, i \in Tid : transInit'[b][i] =
           IF b = o /\ transInit[b][i] \in S THEN NoTrans ELSE transInit[b][i]
    BY DEF Without, IInv, TypeOK
  <1>4. transInit' \in [Object -> [Tid -> Trans \cup {NoTrans}]]
    BY DEF Without, IInv, TypeOK
  <1>5. outcome' \in [Trans -> {"unborn", "open", "answered", "timeout", "clean"}]
    BY <1>2 DEF IInv, TypeOK
  <1>6. Erases
    BY <1>3 DEF Erases
  <1>7. \A t \in Trans : /\ outcome'[t] = "unborn" <=> outcome[t] = "unborn"
                         /\ outcome'[t] = "open" => outcome[t] = "open"
    BY <1>1, <1>2
  <1>8. ASSUME NEW t \in InTable(0), outcome'[t] = "open" PROVE t \in InTable(0)'
    <2>1. PICK i \in Tid : t = transInit[0][i] /\ t # NoTrans
      BY DEF InTable
    <2>2. t \notin S
      BY <1>1, <1>2, <1>8
    <2>3. transInit'[0][i] = t
      BY <1>3, <2>1, <2>2, Types
    <2> QED BY <2>1, <2>3 DEF InTable
  <1>9. ASSUME o = 0, NEW t \in S PROVE t \notin InTable(0)'
    <2>1. t # NoTrans
      BY <1>1, Types
    <2>2. \A i \in Tid : transInit'[0][i] # t
      BY <1>3, <1>9, <2>1, Types
    <2> QED BY <2>2 DEF InTable
  <1> QED BY <1>4, <1>5, <1>6, <1>7, <1>8, <1>9

LEMMA ErasesTable ==
    ASSUME Erases PROVE InTable(0)' \subseteq InTable(0)
  BY Types DEF Erases, InTable

LEMMA CloseFacts ==
    ASSUME IInv, NEW o \in Object, Close(o)
    PROVE  /\ est' \in [Object -> BOOLEAN]
           /\ up' \in [Conn -> Seq(Pdu)] /\ down' \in [Conn -> Seq(Pdu)]
           /\ transInit' \in [Object -> [Tid -> Trans \cup {NoTrans}]]
           /\ outcome' \in [Trans -> {"unborn", "open", "answered", "timeout", "clean"}]
           /\ Erases
           /\ Shrinks(up, up') /\ Shrinks(down, down')
           /\ \A t \in Trans :
                 /\ outcome'[t] = "unborn" <=> outcome[t] = "unborn"
                 /\ outcome'[t] = "open" => outcome[t] = "open"
           /\ \A t \in InTable(0) : outcome'[t] = "open" => t \in InTable(0)'
           /\ est'[0] => est[0]
           /\ o = 0 => InTable(0)' = {}
           /\ o > 0 => down' = down /\ est'[0] = est[0]
  <1>1. est' = [est EXCEPT ![o] = FALSE]
    BY DEF Close
  <1>2. est' \in [Object -> BOOLEAN] /\ (est'[0] => est[0]) /\ (o > 0 => est'[0] = est[0])
    <2>1. est \in [Object -> BOOLEAN]
      BY DEF IInv, TypeOK
    <2>2. /\ est' \in [Object -> BOOLEAN]
          /\ o = 0 => est'[0] = FALSE
          /\ o # 0 => est'[0] = est[0]
      BY <1>1, <2>1, Types
    <2> QED BY <2>2, Types
  <1>3. /\ transInit' \in [Object -> [Tid -> Trans \cup {NoTrans}]]
        /\ outcome' \in [Trans -> {"unborn", "open", "answered", "timeout", "clean"}]
        /\ Erases
        /\ \A t \in Trans :
              /\ outcome'[t] = "unborn" <=> outcome[t] = "unborn"
              /\ outcome'[t] = "open" => outcome[t] = "open"
        /\ \A t \in InTable(0) : outcome'[t] = "open" => t \in InTable(0)'
        /\ o = 0 => \A t \in InTable(o) : t \notin InTable(0)'
    BY FinishFacts DEF Close
  <1>4. o = 0 => InTable(0)' = {}
    BY <1>3, ErasesTable
  <1>5. /\ up' \in [Conn -> Seq(Pdu)] /\ down' \in [Conn -> Seq(Pdu)]
        /\ Shrinks(up, up') /\ Shrinks(down, down')
        /\ o > 0 => down' = down
    BY UnreadFacts DEF Close, IInv
  <1> QED BY <1>2, <1>3, <1>4, <1>5

-----------------------------------------------------------------------------
(* The mailboxes.                                                          *)

LEMMA PostFacts ==
    ASSUME TypeOK, NEW o \in Object, NEW task \in Task, Post(o, task)
    PROVE  /\ mailbox' \in [Object -> Seq(Task)]
           /\ \A b \in Object : b # o => mailbox'[b] = mailbox[b]
           /\ Held(mailbox'[o]) = Held(mailbox[o]) \cup {task}
           /\ \A op : /\ OnceIn(mailbox[o], op)
                      /\ \/ task.op # op
                         \/ \A h \in Held(mailbox[o]) : h.op = op => h.of # task.of
                      => OnceIn(mailbox'[o], op)
  <1>1. mailbox' = [mailbox EXCEPT ![o] = Append(mailbox[o], task)]
    BY DEF Post
  <1>2. mailbox \in [Object -> Seq(Task)] /\ mailbox[o] \in Seq(Task)
    BY DEF TypeOK
  <1>3. /\ mailbox'[o] = Append(mailbox[o], task)
        /\ \A b \in Object : b # o => mailbox'[b] = mailbox[b]
    BY <1>1, <1>2
  <1> DEFINE q == mailbox[o]
  <1>4. q \in Seq(Task)
    BY <1>2
  <1> HIDE DEF q
  <1>5. /\ Append(q, task) \in Seq(Task)
        /\ Held(Append(q, task)) = Held(q) \cup {task}
        /\ \A op : /\ OnceIn(q, op)
                   /\ task.op # op \/ \A h \in Held(q) : h.op = op => h.of # task.of
                   => OnceIn(Append(q, task), op)
    BY <1>4, HeldAppend
  <1>6. q = mailbox[o]
    BY DEF q
  <1>7. mailbox' \in [Object -> Seq(Task)]
    BY <1>1, <1>2, <1>5, <1>6
  <1> QED BY <1>3, <1>5, <1>6, <1>7

\* The future that runs is queued nowhere else.
LEMMA RunFacts ==
    ASSUME TypeOK, TaskInv, NEW o \in Object, mailbox[o] # <<>>,
           mailbox' = [mailbox EXCEPT ![o] = Tail(@)]
    PROVE  /\ mailbox' \in [Object -> Seq(Task)]
           /\ Head(mailbox[o]) \in Task
           /\ Head(mailbox[o]).op = "begin" =>
                 /\ ord[Head(mailbox[o]).of] = 0
                 /\ at[Head(mailbox[o]).of] = o
                 /\ outcome[Head(mailbox[o]).of] # "unborn"
           /\ Head(mailbox[o]).op = "end" =>
                 pass[Head(mailbox[o]).of] = "ending" /\ via[Head(mailbox[o]).of] = o
           /\ \A b \in Object :
                 /\ Held(mailbox'[b]) \subseteq Held(mailbox[b])
                 /\ OnceIn(mailbox[b], "begin") => OnceIn(mailbox'[b], "begin")
                 /\ OnceIn(mailbox[b], "end") => OnceIn(mailbox'[b], "end")
                 /\ \A e \in Held(mailbox'[b]) :
                       e.op = Head(mailbox[o]).op /\ e.op \in {"begin", "end"} =>
                          e.of # Head(mailbox[o]).of
  <1> DEFINE q == mailbox[o]
  <1>1. mailbox \in [Object -> Seq(Task)] /\ q \in Seq(Task) /\ q # <<>>
    BY DEF TypeOK
  <1>2. /\ mailbox'[o] = Tail(q)
        /\ \A b \in Object : b # o => mailbox'[b] = mailbox[b]
    BY <1>1
  <1>3. q = mailbox[o] /\ mailbox' = [mailbox EXCEPT ![o] = Tail(q)]
    OBVIOUS
  <1> HIDE DEF q
  <1>4. /\ Tail(q) \in Seq(Task)
        /\ Head(q) \in Held(q)
        /\ Head(q) \in Task
        /\ Held(Tail(q)) \subseteq Held(q)
        /\ \A op : OnceIn(q, op) =>
              /\ OnceIn(Tail(q), op)
              /\ \A h \in Held(Tail(q)) :
                    h.op = op /\ Head(q).op = op => h.of # Head(q).of
    BY <1>1, HeldTail
  <1>5. mailbox' \in [Object -> Seq(Task)]
    BY <1>1, <1>3, <1>4
  <1>6. /\ Head(q).op = "begin" =>
              ord[Head(q).of] = 0 /\ at[Head(q).of] = o /\ outcome[Head(q).of] # "unborn"
        /\ Head(q).op = "end" => pass[Head(q).of] = "ending" /\ via[Head(q).of] = o
    BY <1>3, <1>4 DEF TaskInv
  <1>7. ASSUME NEW b \in Object
        PROVE  /\ Held(mailbox'[b]) \subseteq Held(mailbox[b])
               /\ OnceIn(mailbox[b], "begin") => OnceIn(mailbox'[b], "begin")
               /\ OnceIn(mailbox[b], "end") => OnceIn(mailbox'[b], "end")
               /\ \A e \in Held(mailbox'[b]) :
                     e.op = Head(q).op /\ e.op \in {"begin", "end"} =>
                        e.of # Head(q).of
    <2>1. CASE b = o
      <3>1. OnceIn(q, "begin") /\ OnceIn(q, "end")
        BY <1>3 DEF TaskInv
      <3> QED BY <1>2, <1>3, <1>4, <2>1, <3>1
    <2>2. CASE b # o
      <3>1. mailbox'[b] = mailbox[b]
        BY <1>2, <2>2
      <3>2. \A e \in Held(mailbox[b]) :
               /\ e.op = "begin" => at[e.of] = b
               /\ e.op = "end" => via[e.of] = b
        BY DEF TaskInv
      <3> QED BY <1>6, <2>2, <3>1, <3>2
    <2> QED BY <2>1, <2>2
  <1> QED BY <1>3, <1>4, <1>5, <1>6, <1>7

-----------------------------------------------------------------------------
(* The steps that send nothing.                                            *)

LEMMA StutterKeeps ==
    ASSUME IInv, UNCHANGED vars PROVE IInv'
  <1>1. /\ UNCHANGED <<conn, est, mailbox, up, down, tidSeq, transInit, outcome, at>>
        /\ UNCHANGED <<pass, via, dtid, issued, ord, answer, consumed>>
    BY DEF vars, wires, begun, handled, hist
  <1>2. InTable(0)' = InTable(0)
    BY <1>1 DEF InTable
  <1>3. Ids' = Ids
    BY <1>1 DEF Ids, Lag
  <1>4. TypeOK' /\ TaskInv' /\ BornInv' /\ HandledInv' /\ AnswerInv'
    BY <1>1, <1>3 DEF IInv, TypeOK, TaskInv, BornInv, HandledInv, AnswerInv, TurnBefore
  <1>5. SlotInv' /\ TableInv' /\ HereInv'
    BY <1>1, <1>2 DEF IInv, SlotInv, TableInv, HereInv, Answered, Lag
  <1>6. WireInv(up, Accept, Dial)' /\ WireInv(down, Dial, Accept)'
    BY <1>1, <1>3 DEF IInv, WireInv
  <1> QED BY <1>4, <1>5, <1>6 DEF IInv

LEMMA TaskOf ==
    ASSUME TypeOK, NEW o \in Object, NEW e \in Held(mailbox[o]) PROVE e.of \in Trans
  <1>1. mailbox[o] \in Seq(Task)
    BY DEF TypeOK
  <1>2. e \in Task
    BY <1>1, HeldIn
  <1> QED BY <1>2 DEF Task

LEMMA TasksUntouched ==
    ASSUME IInv, Calm, UNCHANGED <<mailbox, pass>> PROVE TaskInv'
  <1>1. \A o \in Object : \A e \in Held(mailbox[o]) : e.of \in Trans
    BY TaskOf DEF IInv
  <1>2. mailbox' = mailbox /\ ord' = ord /\ at' = at /\ pass' = pass /\ via' = via
    BY DEF Calm
  <1>3. \A t \in Trans : outcome[t] # "unborn" => outcome'[t] # "unborn"
    BY DEF Calm
  <1> QED BY <1>1, <1>2, <1>3, TasksKept DEF IInv

LEMMA LostKeeps ==
    ASSUME IInv, NEW o \in Object, Lost(o) PROVE IInv'
  <1>1. /\ est[o] /\ Close(o)
        /\ UNCHANGED <<conn, mailbox, tidSeq, at, pass, via, dtid, issued, ord, answer, consumed>>
    BY DEF Lost, handled, hist
  <1>2. /\ est' \in [Object -> BOOLEAN]
        /\ up' \in [Conn -> Seq(Pdu)] /\ down' \in [Conn -> Seq(Pdu)]
        /\ transInit' \in [Object -> [Tid -> Trans \cup {NoTrans}]]
        /\ outcome' \in [Trans -> {"unborn", "open", "answered", "timeout", "clean"}]
        /\ Erases
        /\ Shrinks(up, up') /\ Shrinks(down, down')
        /\ \A t \in Trans :
              /\ outcome'[t] = "unborn" <=> outcome[t] = "unborn"
              /\ outcome'[t] = "open" => outcome[t] = "open"
        /\ \A t \in InTable(0) : outcome'[t] = "open" => t \in InTable(0)'
        /\ est'[0] => est[0]
        /\ o = 0 => InTable(0)' = {}
        /\ o > 0 => down' = down /\ est'[0] = est[0]
    BY <1>1, CloseFacts
  <1>3. TypeOK'
    BY <1>1, <1>2 DEF IInv, TypeOK
  <1>4. Calm
    <2>1. conn' \in Nat /\ conn <= conn'
      BY <1>1, Types DEF IInv, TypeOK
    <2>2. est'[0] => conn' > 0
      BY <1>1, <1>2 DEF IInv, BornInv
    <2> QED BY <1>1, <1>2, <2>1, <2>2 DEF Calm
  <1>5. TaskInv'
    BY <1>1, <1>4, TasksUntouched
  <1>6. HereInv'
    <2>1. CASE o = 0
      BY <1>2, <2>1 DEF HereInv
    <2>2. CASE o > 0
      BY <1>1, <1>2, <2>2, ErasesTable, HereKept DEF IInv
    <2> QED BY <2>1, <2>2, Types
  <1> QED BY <1>1, <1>3, <1>4, <1>5, <1>6, CalmKeeps DEF IInv

LEMMA CheckTransInitKeeps ==
    ASSUME IInv, NEW o \in Object, NEW S \in SUBSET InTable(o), CheckTransInit(o, S)
    PROVE  IInv'
  <1>1. /\ Finish(S, "timeout") /\ Without(o, S)
        /\ UNCHANGED <<conn, est, mailbox, up, down, tidSeq, at, pass, via, dtid>>
        /\ UNCHANGED <<issued, ord, answer, consumed>>
    BY DEF CheckTransInit, handled, hist, wires
  <1>2. /\ transInit' \in [Object -> [Tid -> Trans \cup {NoTrans}]]
        /\ outcome' \in [Trans -> {"unborn", "open", "answered", "timeout", "clean"}]
        /\ Erases
        /\ \A t \in Trans :
              /\ outcome'[t] = "unborn" <=> outcome[t] = "unborn"
              /\ outcome'[t] = "open" => outcome[t] = "open"
        /\ \A t \in InTable(0) : outcome'[t] = "open" => t \in InTable(0)'
    BY <1>1, FinishFacts
  <1>3. TypeOK'
    BY <1>1, <1>2 DEF IInv, TypeOK
  <1>4. Shrinks(up, up') /\ Shrinks(down, down')
    BY <1>1 DEF Shrinks
  <1>5. Calm
    <2>1. conn' \in Nat /\ conn <= conn'
      BY <1>1, Types DEF IInv, TypeOK
    <2>2. est'[0] => conn' > 0
      BY <1>1 DEF IInv, BornInv
    <2> QED BY <1>1, <1>2, <1>4, <2>1, <2>2 DEF Calm
  <1>6. TaskInv'
    BY <1>1, <1>5, TasksUntouched
  <1>7. HereInv'
    BY <1>1, <1>2, <1>4, ErasesTable, HereKept DEF IInv
  <1> QED BY <1>1, <1>3, <1>5, <1>6, <1>7, CalmKeeps DEF IInv

LEMMA ConnectKeeps ==
    ASSUME IInv, Connect PROVE IInv'
  <1>1. /\ ~est[0] /\ conn < MaxConn
        /\ conn' = conn + 1
        /\ est' = [est EXCEPT ![0] = TRUE, ![conn + 1] = TRUE]
        /\ UNCHANGED <<mailbox, up, down, tidSeq, transInit, outcome, at, pass, via, dtid>>
        /\ UNCHANGED <<issued, ord, answer, consumed>>
    BY DEF Connect, begun, handled, hist, wires
  <1>2. conn \in Nat /\ conn' \in 0 .. MaxConn /\ conn <= conn' /\ conn' > 0
    BY <1>1, Types DEF IInv, TypeOK
  <1>3. est' \in [Object -> BOOLEAN]
    BY <1>1 DEF IInv, TypeOK
  <1>4. TypeOK'
    BY <1>1, <1>2, <1>3 DEF IInv, TypeOK
  <1>5. Shrinks(up, up') /\ Shrinks(down, down') /\ Erases
    BY <1>1 DEF Shrinks, Erases
  <1>6. InTable(0)' = InTable(0)
    BY <1>1 DEF InTable
  <1>7. Calm
    BY <1>1, <1>2, <1>5, <1>6, Types DEF Calm
  <1>8. TaskInv'
    BY <1>1, <1>7, TasksUntouched
  \* What is in the table was begun since the connection was lost.
  <1>9. HereInv'
    BY <1>1, <1>6 DEF HereInv, Answered, IInv
  <1> QED BY <1>1, <1>4, <1>7, <1>8, <1>9, CalmKeeps DEF IInv

LEMMA EndKeeps ==
    ASSUME IInv, NEW t \in Trans, End(t) PROVE IInv'
  <1>1. /\ pass[t] = "open"
        /\ pass' = [pass EXCEPT ![t] = "ending"]
        /\ Post(via[t], [op |-> "end", of |-> t])
        /\ UNCHANGED <<conn, est, up, down, tidSeq, transInit, outcome, at, via, dtid>>
        /\ UNCHANGED <<issued, ord, answer, consumed>>
    BY DEF End, begun, hist, wires
  <1> DEFINE task == [op |-> "end", of |-> t]
             o == via[t]
  <1>2. task \in Task /\ task.op = "end" /\ task.of = t /\ o \in Object
    BY DEF Task, IInv, TypeOK
  <1>3. Post(o, task)
    BY <1>1
  <1> HIDE DEF task
  <1>4. /\ mailbox' \in [Object -> Seq(Task)]
        /\ \A b \in Object : b # o => mailbox'[b] = mailbox[b]
        /\ Held(mailbox'[o]) = Held(mailbox[o]) \cup {task}
        /\ \A op : /\ OnceIn(mailbox[o], op)
                   /\ \/ task.op # op
                      \/ \A h \in Held(mailbox[o]) : h.op = op => h.of # task.of
                   => OnceIn(mailbox'[o], op)
    BY <1>2, <1>3, PostFacts DEF IInv
  <1>5. \A u \in Trans : pass'[u] = IF u = t THEN "ending" ELSE pass[u]
    BY <1>1 DEF IInv, TypeOK
  <1>6. TypeOK'
    BY <1>1, <1>4 DEF IInv, TypeOK
  <1>7. Shrinks(up, up') /\ Shrinks(down, down') /\ Erases
    BY <1>1 DEF Shrinks, Erases
  <1>8. InTable(0)' = InTable(0)
    BY <1>1 DEF InTable
  <1>9. Calm
    <2>1. conn' \in Nat /\ conn <= conn'
      BY <1>1, Types DEF IInv, TypeOK
    <2>2. est'[0] => conn' > 0
      BY <1>1 DEF IInv, BornInv
    <2> QED BY <1>1, <1>5, <1>7, <1>8, <2>1, <2>2 DEF Calm
  <1>10. TaskInv'
    <2>1. \A h \in Held(mailbox[o]) : h.op = "end" => h.of # t
      BY <1>1, <1>2 DEF IInv, TaskInv
    <2>2. OnceIn(mailbox'[o], "begin") /\ OnceIn(mailbox'[o], "end")
      <3>1. OnceIn(mailbox[o], "begin") /\ OnceIn(mailbox[o], "end")
        BY <1>2 DEF IInv, TaskInv
      <3> QED BY <1>2, <1>4, <2>1, <3>1
    <2>3. ASSUME NEW b \in Object
          PROVE  /\ OnceIn(mailbox'[b], "begin")
                 /\ OnceIn(mailbox'[b], "end")
                 /\ \A e \in Held(mailbox'[b]) :
                       /\ e.op = "begin" =>
                             ord[e.of] = 0 /\ at[e.of] = b /\ outcome[e.of] # "unborn"
                       /\ e.op = "end" => pass'[e.of] = "ending" /\ via[e.of] = b
      <3>1. \A e \in Held(mailbox[b]) :
               /\ e.of \in Trans
               /\ e.op = "begin" =>
                     ord[e.of] = 0 /\ at[e.of] = b /\ outcome[e.of] # "unborn"
               /\ e.op = "end" => pass[e.of] = "ending" /\ via[e.of] = b
        BY TaskOf DEF IInv, TaskInv
      <3>2. \A e \in Held(mailbox'[b]) : e \in Held(mailbox[b]) \/ (b = o /\ e = task)
        BY <1>4
      <3>3. \A e \in Held(mailbox'[b]) :
               /\ e.op = "begin" =>
                     ord[e.of] = 0 /\ at[e.of] = b /\ outcome[e.of] # "unborn"
               /\ e.op = "end" => pass'[e.of] = "ending" /\ via[e.of] = b
        BY <1>2, <1>5, <3>1, <3>2
      <3>4. OnceIn(mailbox'[b], "begin") /\ OnceIn(mailbox'[b], "end")
        BY <1>4, <2>2 DEF IInv, TaskInv
      <3> QED BY <3>3, <3>4
    <2> QED BY <1>1, <2>3 DEF TaskInv, Held, OnceIn
  <1>11. HereInv'
    <2>1. InTable(0) \subseteq Trans
      BY Types DEF InTable, IInv, TypeOK
    <2> QED BY <1>1, <1>5, <1>7, <1>8, <2>1, HereKept DEF IInv
  <1> QED BY <1>1, <1>6, <1>9, <1>10, <1>11, CalmKeeps DEF IInv

\* The future that ends t has run: what is left in the mailboxes is not about it.
LEMMA TasksAfterEnd ==
    ASSUME IInv, NEW o \in Object, mailbox[o] # <<>>,
           mailbox' = [mailbox EXCEPT ![o] = Tail(@)],
           Head(mailbox[o]).op = "end",
           UNCHANGED <<ord, at, via>>,
           \A u \in Trans : /\ outcome[u] # "unborn" => outcome'[u] # "unborn"
                            /\ u # Head(mailbox[o]).of => pass'[u] = pass[u]
    PROVE  TaskInv'
  <1> DEFINE t == Head(mailbox[o]).of
  <1>1. \A b \in Object :
           /\ Held(mailbox'[b]) \subseteq Held(mailbox[b])
           /\ OnceIn(mailbox[b], "begin") => OnceIn(mailbox'[b], "begin")
           /\ OnceIn(mailbox[b], "end") => OnceIn(mailbox'[b], "end")
           /\ \A e \in Held(mailbox'[b]) : e.op = "end" => e.of # t
    <2>1. TypeOK /\ TaskInv
      BY DEF IInv
    <2>2. \A b \in Object :
             /\ Held(mailbox'[b]) \subseteq Held(mailbox[b])
             /\ OnceIn(mailbox[b], "begin") => OnceIn(mailbox'[b], "begin")
             /\ OnceIn(mailbox[b], "end") => OnceIn(mailbox'[b], "end")
             /\ \A e \in Held(mailbox'[b]) :
                   e.op = Head(mailbox[o]).op /\ e.op \in {"begin", "end"} =>
                      e.of # Head(mailbox[o]).of
      BY <2>1, RunFacts
    <2> QED BY <2>2
  <1>2. \A b \in Object : \A e \in Held(mailbox'[b]) : e.of \in Trans
    BY <1>1, TaskOf DEF IInv
  <1>3. \A u \in Trans : /\ outcome[u] # "unborn" => outcome'[u] # "unborn"
                         /\ u # t => pass'[u] = pass[u]
    OBVIOUS
  <1> HIDE DEF t
  <1>4. \A b \in Object : \A e \in Held(mailbox'[b]) :
           /\ e.op = "begin" =>
                 /\ ord'[e.of] = ord[e.of] /\ at'[e.of] = at[e.of]
                 /\ outcome[e.of] # "unborn" => outcome'[e.of] # "unborn"
           /\ e.op = "end" /\ pass[e.of] = "ending" =>
                 pass'[e.of] = "ending" /\ via'[e.of] = via[e.of]
    BY <1>1, <1>2, <1>3
  <1> QED BY <1>1, <1>4, TasksKept DEF IInv

LEMMA FutureEndUnsentKeeps ==
    ASSUME IInv, NEW o \in Object, mailbox[o] # <<>>,
           mailbox' = [mailbox EXCEPT ![o] = Tail(@)],
           Head(mailbox[o]).op = "end", FutureEndUnsent(o, Head(mailbox[o]).of)
    PROVE  IInv'
  <1> DEFINE t == Head(mailbox[o]).of
  <1>1. /\ pass' = [pass EXCEPT ![t] = "dropped"]
        /\ UNCHANGED <<conn, est, up, down, tidSeq, transInit, outcome, at, via, dtid>>
        /\ UNCHANGED <<issued, ord, answer, consumed>>
    BY DEF FutureEndUnsent, begun, hist, wires
  <1>2. /\ mailbox' \in [Object -> Seq(Task)]
        /\ Head(mailbox[o]) \in Task /\ pass[t] = "ending"
    BY RunFacts DEF IInv
  <1>3. t \in Trans
    BY <1>2 DEF Task
  <1>4. TaskInv'
    BY <1>1, TasksAfterEnd DEF IInv, TypeOK
  <1> HIDE DEF t
  <1>5. \A u \in Trans : pass'[u] = IF u = t THEN "dropped" ELSE pass[u]
    BY <1>1 DEF IInv, TypeOK
  <1>6. TypeOK'
    BY <1>1, <1>2 DEF IInv, TypeOK
  <1>7. Shrinks(up, up') /\ Shrinks(down, down') /\ Erases
    BY <1>1 DEF Shrinks, Erases
  <1>8. InTable(0)' = InTable(0)
    BY <1>1 DEF InTable
  <1>9. Calm
    <2>1. conn' \in Nat /\ conn <= conn'
      BY <1>1, Types DEF IInv, TypeOK
    <2>2. est'[0] => conn' > 0
      BY <1>1 DEF IInv, BornInv
    <2> QED BY <1>1, <1>2, <1>5, <1>7, <1>8, <2>1, <2>2 DEF Calm
  <1>10. HereInv'
    <2>1. InTable(0) \subseteq Trans
      BY Types DEF InTable, IInv, TypeOK
    <2> QED BY <1>1, <1>2, <1>5, <1>7, <1>8, <2>1, HereKept DEF IInv
  <1> QED BY <1>1, <1>4, <1>6, <1>9, <1>10, CalmKeeps DEF IInv

LEMMA FutureEndFailureKeeps ==
    ASSUME IInv, NEW o \in Object, mailbox[o] # <<>>,
           mailbox' = [mailbox EXCEPT ![o] = Tail(@)],
           Head(mailbox[o]).op = "end", FutureEndFailure(o, Head(mailbox[o]).of)
    PROVE  IInv'
  <1> DEFINE t == Head(mailbox[o]).of
  <1>1. /\ est[o] /\ Close(o)
        /\ pass' = [pass EXCEPT ![t] = "dropped"]
        /\ UNCHANGED <<conn, tidSeq, at, via, dtid, issued, ord, answer, consumed>>
    BY DEF FutureEndFailure, hist
  <1>2. /\ mailbox' \in [Object -> Seq(Task)]
        /\ Head(mailbox[o]) \in Task /\ pass[t] = "ending"
    BY RunFacts DEF IInv
  <1>3. t \in Trans
    BY <1>2 DEF Task
  <1>4. /\ est' \in [Object -> BOOLEAN]
        /\ up' \in [Conn -> Seq(Pdu)] /\ down' \in [Conn -> Seq(Pdu)]
        /\ transInit' \in [Object -> [Tid -> Trans \cup {NoTrans}]]
        /\ outcome' \in [Trans -> {"unborn", "open", "answered", "timeout", "clean"}]
        /\ Erases
        /\ Shrinks(up, up') /\ Shrinks(down, down')
        /\ \A u \in Trans :
              /\ outcome'[u] = "unborn" <=> outcome[u] = "unborn"
              /\ outcome'[u] = "open" => outcome[u] = "open"
        /\ \A u \in InTable(0) : outcome'[u] = "open" => u \in InTable(0)'
        /\ est'[0] => est[0]
        /\ o = 0 => InTable(0)' = {}
        /\ o > 0 => down' = down /\ est'[0] = est[0]
    BY <1>1, CloseFacts
  <1>5. \A u \in Trans : pass'[u] = IF u = t THEN "dropped" ELSE pass[u]
    BY <1>1 DEF IInv, TypeOK
  <1>6. TaskInv'
    <2>1. \A u \in Trans : /\ outcome[u] # "unborn" => outcome'[u] # "unborn"
                           /\ u # Head(mailbox[o]).of => pass'[u] = pass[u]
      BY <1>4, <1>5
    <2>2. UNCHANGED <<ord, at, via>>
      BY <1>1
    <2> QED BY <2>1, <2>2, TasksAfterEnd
  <1> HIDE DEF t
  <1>7. TypeOK'
    BY <1>1, <1>2, <1>4 DEF IInv, TypeOK
  <1>8. Calm
    <2>1. conn' \in Nat /\ conn <= conn'
      BY <1>1, Types DEF IInv, TypeOK
    <2>2. est'[0] => conn' > 0
      BY <1>1, <1>4 DEF IInv, BornInv
    <2> QED BY <1>1, <1>2, <1>4, <1>5, <2>1, <2>2 DEF Calm
  <1>9. HereInv'
    <2>1. CASE o = 0
      BY <1>4, <2>1 DEF HereInv
    <2>2. CASE o > 0
      <3>1. InTable(0)' \subseteq InTable(0)
        BY <1>4, ErasesTable
      <3>2. InTable(0) \subseteq Trans
        BY Types DEF InTable, IInv, TypeOK
      <3> QED BY <1>1, <1>2, <1>4, <1>5, <2>2, <3>1, <3>2, HereKept DEF IInv
    <2> QED BY <2>1, <2>2, Types
  <1> QED BY <1>1, <1>6, <1>7, <1>8, <1>9, CalmKeeps DEF IInv

LEMMA InterceptedKeeps ==
    ASSUME IInv, NEW o \in Object, Intercepted(o) PROVE IInv'
  <1> DEFINE p == Head(Incoming(o))
  <1>1. /\ Take(o)
        /\ UNCHANGED <<conn, est, mailbox, tidSeq, transInit, outcome, at>>
        /\ UNCHANGED <<pass, via, dtid, issued, ord, answer>>
        /\ \/ p.op = "begin" /\ consumed' = consumed
           \/ p.op = "end" /\ consumed' = consumed \cup ({p.of} \cap Dial)
    BY DEF Intercepted, begun, handled
  <1>2. /\ up' \in [Conn -> Seq(Pdu)] /\ down' \in [Conn -> Seq(Pdu)]
        /\ Shrinks(up, up') /\ Shrinks(down, down')
        /\ p \in Pdu
        /\ o = 0 =>
              /\ conn \in Conn
              /\ p \in Held(down[conn])
              /\ \A h \in Held(down[conn]) : h # p => h \in Held(down'[conn])
        /\ o > 0 => o \in Conn /\ p \in Held(up[o]) /\ down' = down
    BY <1>1, TakeFacts DEF IInv
  <1>3. consumed \subseteq consumed' /\ consumed' \subseteq Trans
    <2>1. p.of \in Trans
      BY <1>2 DEF Pdu
    <2> QED BY <1>1, <2>1 DEF IInv, TypeOK
  <1>4. o = 0 /\ p.op = "end" => p.of \in consumed'
    BY <1>1, <1>2 DEF IInv, WireInv
  <1> HIDE DEF p
  <1>5. TypeOK'
    BY <1>1, <1>2, <1>3 DEF IInv, TypeOK
  <1>6. Erases
    BY <1>1 DEF Erases
  <1>7. InTable(0)' = InTable(0)
    BY <1>1 DEF InTable
  <1>8. Calm
    <2>1. conn' \in Nat /\ conn <= conn'
      BY <1>1, Types DEF IInv, TypeOK
    <2>2. est'[0] => conn' > 0
      BY <1>1 DEF IInv, BornInv
    <2> QED BY <1>1, <1>2, <1>6, <1>7, <2>1, <2>2 DEF Calm
  <1>9. TaskInv'
    BY <1>1, <1>8, TasksUntouched
  <1>10. HereInv'
    <2>1. \A t \in InTable(0)' : \A h \in Held(down[conn]) :
             h.op = "end" /\ h.of = t => t \in consumed' \/ h \in Held(down'[conn])
      <3>1. CASE o = 0
        BY <1>2, <1>4, <3>1
      <3>2. CASE o > 0
        BY <1>2, <3>2
      <3> QED BY <3>1, <3>2, Types
    <2> QED BY <1>1, <1>2, <1>3, <1>7, <2>1, HereKept DEF IInv
  <1> QED BY <1>1, <1>5, <1>8, <1>9, <1>10, CalmKeeps DEF IInv

LEMMA EvnEndKeeps ==
    ASSUME IInv, NEW o \in Object, EvnEnd(o) PROVE IInv'
  <1> DEFINE p == Head(Incoming(o))
             t == transInit[o][p.tid]
  <1>1. /\ Take(o) /\ p.op = "end"
        /\ UNCHANGED <<conn, est, mailbox, tidSeq, at, pass, via, dtid, issued, ord, consumed>>
        /\ \/ t = NoTrans /\ UNCHANGED <<transInit, outcome, answer>>
           \/ /\ t # NoTrans
              /\ transInit' = [transInit EXCEPT ![o][p.tid] = NoTrans]
              /\ outcome' = [u \in Trans |-> IF u \in {t} THEN "answered" ELSE outcome[u]]
              /\ answer' = [answer EXCEPT ![t] = p.of]
    BY DEF EvnEnd, Finish, handled
  <1>2. /\ up' \in [Conn -> Seq(Pdu)] /\ down' \in [Conn -> Seq(Pdu)]
        /\ Shrinks(up, up') /\ Shrinks(down, down')
        /\ p \in Pdu
        /\ o = 0 =>
              /\ conn \in Conn
              /\ p \in Held(down[conn])
              /\ \A h \in Held(down[conn]) : h # p => h \in Held(down'[conn])
        /\ o > 0 => o \in Conn /\ p \in Held(up[o]) /\ down' = down
    BY <1>1, TakeFacts DEF IInv
  <1>3. p.of \in Trans /\ p.tid \in Tid
    BY <1>2 DEF Pdu
  <1>4. t \in Trans \cup {NoTrans}
    BY <1>3 DEF IInv, TypeOK
  <1>5. t # NoTrans =>
           /\ t \in Trans /\ at[t] = o /\ ord[t] > 0
           /\ outcome[t] # "unborn"
    BY <1>3, <1>4 DEF IInv, SlotInv, BornInv
  <1>6. /\ p.tid \in Ids[p.of] /\ pass[p.of] = "replied"
        /\ o = 0 => p.of \in Dial
        /\ o > 0 => p.of \in Accept /\ at[p.of] <= o
    BY <1>1, <1>2, Types DEF IInv, WireInv
  <1>7. /\ ord[p.of] > 0
        /\ Lag(p.of) <= MaxTid => p.tid = Back(tidSeq[at[p.of]], Lag(p.of))
        /\ transInit[at[p.of]][p.tid] \notin {NoTrans, p.of} =>
              ord[transInit[at[p.of]][p.tid]] - ord[p.of] > MaxTid
    BY <1>3, <1>6, IdsFacts DEF IInv
  <1>8. t = transInit[o][p.tid]
    OBVIOUS
  <1> HIDE DEF p, t
  <1>9. \A b \in Object, i \in Tid :
           /\ transInit'[b][i] \in {NoTrans, transInit[b][i]}
           /\ transInit'[b][i] # transInit[b][i] => transInit[b][i] = t /\ t # NoTrans
    <2>1. transInit \in [Object -> [Tid -> Trans \cup {NoTrans}]]
      BY DEF IInv, TypeOK
    <2>2. CASE t = NoTrans /\ UNCHANGED <<transInit, outcome, answer>>
      BY <2>2
    <2>3. CASE t # NoTrans /\ transInit' = [transInit EXCEPT ![o][p.tid] = NoTrans]
      <3>1. \A b \in Object, i \in Tid :
               transInit'[b][i] = IF b = o /\ i = p.tid THEN NoTrans ELSE transInit[b][i]
        BY <1>3, <2>1, <2>3
      <3> QED BY <1>8, <2>3, <3>1
    <2> QED BY <1>1, <2>2, <2>3
  <1>10. Erases
    BY <1>9 DEF Erases
  <1>11. transInit' \in [Object -> [Tid -> Trans \cup {NoTrans}]]
    <2>1. transInit \in [Object -> [Tid -> Trans \cup {NoTrans}]]
      BY DEF IInv, TypeOK
    <2>2. CASE UNCHANGED transInit
      BY <2>1, <2>2
    <2>3. CASE transInit' = [transInit EXCEPT ![o][p.tid] = NoTrans]
      BY <1>3, <2>1, <2>3
    <2> QED BY <1>1, <2>2, <2>3
  <1>12. \A u \in Trans : outcome'[u] \in {outcome[u], "answered"}
    BY <1>1 DEF IInv, TypeOK
  <1>13. outcome' \in [Trans -> {"unborn", "open", "answered", "timeout", "clean"}]
    BY <1>1 DEF IInv, TypeOK
  <1>14. answer' \in [Trans -> Trans \cup {NoTrans}]
    BY <1>1, <1>3 DEF IInv, TypeOK
  <1>15. TypeOK'
    BY <1>1, <1>2, <1>11, <1>13, <1>14 DEF IInv, TypeOK
  <1>16. ASSUME NEW u \in Trans
         PROVE  /\ outcome'[u] = "unborn" <=> outcome[u] = "unborn"
                /\ outcome'[u] = "open" => outcome[u] = "open" /\ (t # NoTrans => u # t)
    BY <1>1, <1>5 DEF IInv, TypeOK
  <1>17. ASSUME NEW u \in InTable(0), outcome'[u] = "open" PROVE u \in InTable(0)'
    <2>1. PICK i \in Tid : u = transInit[0][i] /\ u # NoTrans
      BY DEF InTable
    <2>2. u \in Trans
      BY <2>1, Types DEF IInv, TypeOK
    <2>3. transInit'[0][i] = u
      BY <1>9, <1>16, <1>17, <2>1, <2>2, Types
    <2> QED BY <2>1, <2>3 DEF InTable
  <1>18. Calm
    <2>1. conn' \in Nat /\ conn <= conn'
      BY <1>1, Types DEF IInv, TypeOK
    <2>2. est'[0] => conn' > 0
      BY <1>1 DEF IInv, BornInv
    <2> QED BY <1>1, <1>2, <1>10, <1>16, <1>17, <2>1, <2>2 DEF Calm
  <1>19. TaskInv'
    BY <1>1, <1>18, TasksUntouched
  <1>20. AnswerInv'
    <2>1. CASE t = NoTrans
      BY <1>1, <1>15, <1>18, <2>1, CalmKeeps
    <2>2. CASE t # NoTrans
      <3>1. p.of # t => TurnBefore(p.of, t) \/ (t \in Accept /\ at[p.of] < at[t])
        <4> SUFFICES ASSUME p.of # t
                     PROVE  TurnBefore(p.of, t) \/ (t \in Accept /\ at[p.of] < at[t])
          OBVIOUS
        <4>1. CASE at[p.of] = o
          BY <1>5, <1>7, <1>8, <2>2, <4>1 DEF TurnBefore
        <4>2. CASE at[p.of] # o
          <5>1. o # 0
            BY <1>3, <1>6, <4>2 DEF IInv, BornInv
          <5>2. o > 0 /\ o \in Nat /\ at[p.of] \in Nat
            <6>1. at[p.of] \in Object
              BY <1>3 DEF IInv, TypeOK
            <6>2. \A b \in Object : b \in Nat
              BY Types
            <6>3. o \in Nat /\ at[p.of] \in Nat
              BY <6>1, <6>2
            <6> QED BY <5>1, <6>3
          <5>3. at[p.of] < at[t]
            BY <1>5, <1>6, <2>2, <4>2, <5>2
          <5>4. t \in Accept
            BY <1>5, <2>2, <5>1, Types DEF IInv, BornInv
          <5> QED BY <5>3, <5>4
        <4> QED BY <4>1, <4>2
      <3>2. answer'[t] = p.of /\ \A u \in Trans : u # t => answer'[u] = answer[u]
        BY <1>1, <1>5, <2>2 DEF IInv, TypeOK
      <3>3. \A u \in Trans : answer[u] # NoTrans =>
               /\ ord[u] > 0
               /\ ord[answer[u]] > 0
               /\ pass[answer[u]] = "replied"
               /\ answer[u] # u =>
                     TurnBefore(answer[u], u) \/ (u \in Accept /\ at[answer[u]] < at[u])
        BY DEF IInv, AnswerInv
      <3>4. ASSUME NEW u \in Trans, answer'[u] # NoTrans
            PROVE  /\ ord[u] > 0
                   /\ ord[answer'[u]] > 0
                   /\ pass[answer'[u]] = "replied"
                   /\ answer'[u] # u => \/ TurnBefore(answer'[u], u)
                                        \/ u \in Accept /\ at[answer'[u]] < at[u]
        <4>1. CASE u = t
          BY <1>5, <1>6, <1>7, <2>2, <3>1, <3>2, <4>1
        <4>2. CASE u # t
          BY <3>2, <3>3, <3>4, <4>2
        <4> QED BY <4>1, <4>2
      <3> QED BY <1>1, <3>4 DEF AnswerInv, TurnBefore
    <2> QED BY <2>1, <2>2
  \* The END of a transaction that is in the table takes it off the table.
  <1>21. HereInv'
    <2>1. InTable(0)' \subseteq InTable(0)
      BY <1>10, ErasesTable
    <2>2. ASSUME o = 0, NEW u \in InTable(0)' PROVE p.of # u
      <3> SUFFICES ASSUME p.of = u PROVE FALSE
        OBVIOUS
      <3>1. PICK i \in Tid : u = transInit'[0][i] /\ u # NoTrans
        BY <2>2 DEF InTable
      <3>2. u = transInit[0][i]
        BY <1>9, <3>1, Types
      <3>3. at[u] = 0 /\ Lag(u) <= MaxTid /\ i = Back(tidSeq[0], Lag(u))
        BY <3>1, <3>2, Types DEF IInv, SlotInv
      <3>4. p.tid = i
        BY <1>7, <3>3
      <3>5. t = u
        BY <1>8, <2>2, <3>2, <3>4
      <3>6. transInit'[0][i] = NoTrans
        BY <1>1, <2>2, <3>1, <3>4, <3>5, Types DEF IInv, TypeOK
      <3> QED BY <3>1, <3>6
    <2>3. \A u \in InTable(0)' : \A h \in Held(down[conn]) :
             h.op = "end" /\ h.of = u => h \in Held(down'[conn])
      <3>1. CASE o = 0
        BY <1>2, <2>2, <3>1
      <3>2. CASE o > 0
        BY <1>2, <3>2
      <3> QED BY <3>1, <3>2, Types
    <2> QED BY <1>1, <1>2, <2>1, <2>3, HereKept DEF IInv
  <1> QED BY <1>15, <1>18, <1>19, <1>20, <1>21, CalmKeeps DEF IInv

LEMMA BeginKeeps ==
    ASSUME IInv, NEW t \in Trans, NEW o \in Object, Begin(t, o) PROVE IInv'
  <1>1. /\ outcome[t] = "unborn"
        /\ IF t \in Dial THEN o = 0 ELSE o \in 1 .. conn
        /\ outcome' = [outcome EXCEPT ![t] = "open"]
        /\ at' = [at EXCEPT ![t] = o]
        /\ Post(o, [op |-> "begin", of |-> t])
        /\ UNCHANGED <<conn, est, up, down, tidSeq, transInit, pass, via, dtid>>
        /\ UNCHANGED <<issued, ord, answer, consumed>>
    BY DEF Begin, handled, hist, wires
  <1> DEFINE task == [op |-> "begin", of |-> t]
  <1>2. task \in Task /\ task.op = "begin" /\ task.of = t
    BY DEF Task
  <1>3. Post(o, task)
    BY <1>1
  <1> HIDE DEF task
  <1>4. /\ mailbox' \in [Object -> Seq(Task)]
        /\ \A b \in Object : b # o => mailbox'[b] = mailbox[b]
        /\ Held(mailbox'[o]) = Held(mailbox[o]) \cup {task}
        /\ \A op : /\ OnceIn(mailbox[o], op)
                   /\ \/ task.op # op
                      \/ \A h \in Held(mailbox[o]) : h.op = op => h.of # task.of
                   => OnceIn(mailbox'[o], op)
    BY <1>2, <1>3, PostFacts DEF IInv
  <1>5. /\ outcome'[t] = "open" /\ at'[t] = o
        /\ \A u \in Trans : u # t => outcome'[u] = outcome[u] /\ at'[u] = at[u]
    BY <1>1 DEF IInv, TypeOK
  <1>6. ord[t] = 0
    BY <1>1 DEF IInv, BornInv
  <1>7. TypeOK'
    BY <1>1, <1>4 DEF IInv, TypeOK
  <1>8. Shrinks(up, up') /\ Shrinks(down, down') /\ Erases
    BY <1>1 DEF Shrinks, Erases
  <1>9. OrdStays
    BY <1>1, <1>5, <1>6 DEF OrdStays
  <1>10. IdsStay
    BY <1>1, <1>9 DEF IdsStay, OrdStays
  <1>11. InTable(0)' = InTable(0)
    BY <1>1 DEF InTable
  <1>12. \A u \in Trans : Ids[u] \subseteq Ids'[u]
    BY <1>7, <1>8, <1>10, IdsKept DEF IInv
  <1>13. SlotInv'
    BY <1>7, <1>8, <1>10, SlotsKept DEF IInv
  <1>14. HandledInv'
    BY <1>1, <1>12, HandledKept DEF IInv
  <1>15. AnswerInv'
    BY <1>1, <1>9, AnswersKept DEF IInv
  <1>16. TableInv'
    <2>1. \A u \in Dial : outcome'[u] = "open" /\ ord'[u] > 0 =>
             outcome[u] = "open" /\ ord[u] > 0
      BY <1>1, <1>5, <1>6, Types
    <2> QED BY <1>1, <1>9, <1>11, <2>1, TableKept DEF IInv
  <1>17. WireNext(up', Accept, Dial) /\ WireNext(down', Dial, Accept)
    <2>1. /\ up \in [Conn -> Seq(Pdu)] /\ up' \in [Conn -> Seq(Pdu)]
          /\ down \in [Conn -> Seq(Pdu)] /\ down' \in [Conn -> Seq(Pdu)]
      BY <1>7 DEF IInv, TypeOK
    <2>2. pass' = pass
      BY <1>1
    <2>3. WireNext(up', Accept, Dial)
      BY <1>8, <1>9, <1>12, <2>1, <2>2, WiresShrink DEF IInv
    <2>4. WireNext(down', Dial, Accept)
      BY <1>8, <1>9, <1>12, <2>1, <2>2, WiresShrink DEF IInv
    <2> QED BY <2>3, <2>4
  <1>18. HereInv'
    BY <1>1, <1>8, <1>11, HereKept DEF IInv
  <1>19. BornInv'
    <2>1. est'[0] => conn' > 0
      BY <1>1 DEF IInv, BornInv
    <2>2. ASSUME NEW u \in Trans
          PROVE  /\ at'[u] <= conn
                 /\ u \in Dial => at'[u] = 0
                 /\ u \in Accept /\ outcome'[u] # "unborn" => at'[u] > 0
                 /\ outcome'[u] = "unborn" => ord[u] = 0
                 /\ ord[u] <= issued[at'[u]]
                 /\ pass[u] # "absent" => ord[u] > 0 /\ (via[u] = 0 <=> u \in Accept)
      <3>1. CASE u = t
        <4>1. pass[u] = "absent"
          BY <1>6, <3>1 DEF IInv, BornInv
        <4>2. issued[o] \in Nat /\ conn \in Nat
          BY Types DEF IInv, TypeOK
        <4>3. o <= conn /\ (u \in Dial => o = 0) /\ (u \in Accept => o > 0)
          BY <1>1, <3>1, <4>2, Types
        <4> QED BY <1>5, <1>6, <3>1, <4>1, <4>2, <4>3
      <3>2. CASE u # t
        BY <1>5, <3>2 DEF IInv, BornInv
      <3> QED BY <3>1, <3>2
    <2> QED BY <1>1, <2>1, <2>2 DEF BornInv
  <1>20. TaskInv'
    <2>1. \A h \in Held(mailbox[o]) : h.op = "begin" => h.of # t
      BY <1>1 DEF IInv, TaskInv
    <2>2. OnceIn(mailbox'[o], "begin") /\ OnceIn(mailbox'[o], "end")
      <3>1. OnceIn(mailbox[o], "begin") /\ OnceIn(mailbox[o], "end")
        BY DEF IInv, TaskInv
      <3> QED BY <1>2, <1>4, <2>1, <3>1
    <2>3. ASSUME NEW b \in Object
          PROVE  /\ OnceIn(mailbox'[b], "begin")
                 /\ OnceIn(mailbox'[b], "end")
                 /\ \A e \in Held(mailbox'[b]) :
                       /\ e.op = "begin" =>
                             ord[e.of] = 0 /\ at'[e.of] = b /\ outcome'[e.of] # "unborn"
                       /\ e.op = "end" => pass[e.of] = "ending" /\ via[e.of] = b
      <3>1. \A e \in Held(mailbox[b]) :
               /\ e.of \in Trans
               /\ e.op = "begin" =>
                     ord[e.of] = 0 /\ at[e.of] = b /\ outcome[e.of] # "unborn"
               /\ e.op = "end" => pass[e.of] = "ending" /\ via[e.of] = b
        BY TaskOf DEF IInv, TaskInv
      <3>2. \A e \in Held(mailbox'[b]) : e \in Held(mailbox[b]) \/ (b = o /\ e = task)
        BY <1>4
      <3>3. \A e \in Held(mailbox'[b]) :
               /\ e.op = "begin" =>
                     ord[e.of] = 0 /\ at'[e.of] = b /\ outcome'[e.of] # "unborn"
               /\ e.op = "end" => pass[e.of] = "ending" /\ via[e.of] = b
        BY <1>1, <1>2, <1>5, <1>6, <3>1, <3>2
      <3>4. OnceIn(mailbox'[b], "begin") /\ OnceIn(mailbox'[b], "end")
        BY <1>4, <2>2 DEF IInv, TaskInv
      <3> QED BY <3>3, <3>4
    <2> QED BY <1>1, <2>3 DEF TaskInv, Held, OnceIn
  <1> QED BY <1>7, <1>13, <1>14, <1>15, <1>16, <1>17, <1>18, <1>19, <1>20, WireNextIs
          DEF IInv

-----------------------------------------------------------------------------
(* The steps that send or accept a PDU.                                    *)

LEMMA EvnBeginKeeps ==
    ASSUME IInv, NEW o \in Object, EvnBegin(o) PROVE IInv'
  <1> DEFINE p == Head(Incoming(o))
             t == p.of
  <1>1. /\ Take(o) /\ p.op = "begin"
        /\ pass' = [pass EXCEPT ![t] = "open"]
        /\ via' = [via EXCEPT ![t] = o]
        /\ dtid' = [dtid EXCEPT ![t] = p.tid]
        /\ UNCHANGED <<conn, est, mailbox, tidSeq, transInit, outcome, at>>
        /\ UNCHANGED <<issued, ord, answer, consumed>>
    BY DEF EvnBegin, begun, hist
  <1>2. /\ up' \in [Conn -> Seq(Pdu)] /\ down' \in [Conn -> Seq(Pdu)]
        /\ Shrinks(up, up') /\ Shrinks(down, down')
        /\ p \in Pdu
        /\ o = 0 =>
              /\ conn \in Conn
              /\ p \in Held(down[conn])
              /\ up' = up
              /\ \A h \in Held(down[conn]) : h # p => h \in Held(down'[conn])
              /\ \A c \in Conn : c # conn => down'[c] = down[c]
              /\ OnceIn(down[conn], "begin") /\ p.op = "begin" =>
                    \A h \in Held(down'[conn]) : h.op = "begin" => h.of # p.of
        /\ o > 0 =>
              /\ o \in Conn /\ p \in Held(up[o]) /\ down' = down
              /\ \A c \in Conn : c # o => up'[c] = up[c]
              /\ OnceIn(up[o], "begin") /\ p.op = "begin" =>
                    \A h \in Held(up'[o]) : h.op = "begin" => h.of # p.of
    BY <1>1, TakeFacts DEF IInv
  <1>3. t \in Trans /\ p.tid \in Tid
    BY <1>2 DEF Pdu
  <1>4. t = p.of
    OBVIOUS
  <1> HIDE DEF p, t
  <1>5. /\ p.tid \in Ids[t] /\ pass[t] = "absent"
        /\ o = 0 => t \in Accept
        /\ o > 0 => t \in Dial
    <2>1. p.op = "begin" /\ o \in Object /\ (o = 0 \/ o > 0)
      BY <1>1, Types
    <2>2. CASE o = 0
      <3>1. conn \in Conn /\ p \in Held(down[conn])
        BY <1>2, <2>2
      <3> QED BY <1>4, <2>1, <2>2, <3>1 DEF IInv, WireInv
    <2>3. CASE o > 0
      <3>1. o \in Conn /\ p \in Held(up[o])
        BY <1>2, <2>3
      <3> QED BY <1>4, <2>1, <2>3, <3>1 DEF IInv, WireInv
    <2> QED BY <2>1, <2>2, <2>3
  <1>6. ord[t] > 0
    BY <1>3, <1>5 DEF Ids
  <1>7. /\ pass'[t] = "open" /\ via'[t] = o /\ dtid'[t] = p.tid
        /\ \A u \in Trans : u # t =>
              pass'[u] = pass[u] /\ via'[u] = via[u] /\ dtid'[u] = dtid[u]
    BY <1>1, <1>3 DEF IInv, TypeOK
  <1>8. TypeOK'
    BY <1>1, <1>2, <1>3 DEF IInv, TypeOK
  <1>9. Erases /\ OrdStays /\ IdsStay
    BY <1>1 DEF Erases, OrdStays, IdsStay
  <1>10. InTable(0)' = InTable(0)
    BY <1>1 DEF InTable
  <1>11. \A u \in Trans : Ids[u] \subseteq Ids'[u]
    BY <1>8, <1>9, IdsKept DEF IInv
  <1>12. SlotInv'
    BY <1>8, <1>9, SlotsKept DEF IInv
  <1>13. HandledInv'
    <2>1. \A u \in Trans : pass'[u] # "absent" => dtid'[u] \in Ids'[u]
      BY <1>5, <1>7, <1>11 DEF IInv, HandledInv
    <2> QED BY <2>1 DEF HandledInv
  <1>14. \A u \in Trans : pass[u] = "replied" => pass'[u] = "replied"
    BY <1>5, <1>7
  <1>15. AnswerInv'
    BY <1>1, <1>9, <1>14, AnswersKept DEF IInv
  <1>16. TableInv'
    BY <1>1, <1>9, <1>10, TableKept DEF IInv
  <1>17. TaskInv'
    <2>1. \A b \in Object : \A e \in Held(mailbox[b]) : e.of \in Trans
      BY TaskOf DEF IInv
    <2> QED BY <1>1, <1>5, <1>7, <2>1, TasksKept DEF IInv
  <1>18. BornInv'
    <2>1. est'[0] => conn' > 0
      BY <1>1 DEF IInv, BornInv
    <2>2. \A u \in Trans : pass'[u] # "absent" =>
             ord[u] > 0 /\ (via'[u] = 0 <=> u \in Accept)
      BY <1>5, <1>6, <1>7, Types DEF IInv, BornInv
    <2> QED BY <1>1, <2>1, <2>2 DEF IInv, BornInv
  \* No other BEGIN of t is on a wire.
  <1>19. \A c \in Conn : \A h \in Held(up'[c]) : h.of \in Trans
    <2> SUFFICES ASSUME NEW c \in Conn, NEW h \in Held(up'[c]) PROVE h.of \in Trans
      OBVIOUS
    <2>1. up'[c] \in Seq(Pdu)
      BY <1>2
    <2>2. h \in Pdu
      BY <2>1, HeldIn
    <2> QED BY <2>2 DEF Pdu
  <1>20. \A c \in Conn : \A h \in Held(down'[c]) : h.of \in Trans
    <2> SUFFICES ASSUME NEW c \in Conn, NEW h \in Held(down'[c]) PROVE h.of \in Trans
      OBVIOUS
    <2>1. down'[c] \in Seq(Pdu)
      BY <1>2
    <2>2. h \in Pdu
      BY <2>1, HeldIn
    <2> QED BY <2>2 DEF Pdu
  <1>21. ASSUME NEW c \in Conn, NEW h \in Held(up'[c]), h.op = "begin"
         PROVE  h.of # t
    <2>1. h \in Held(up[c])
      BY <1>2 DEF Shrinks
    <2>2. h.of \in Dial
      BY <1>21, <2>1 DEF IInv, WireInv
    <2>3. CASE o = 0
      BY <1>5, <2>2, <2>3, Types
    <2>4. CASE o > 0 /\ c = o
      BY <1>1, <1>2, <1>4, <1>21, <2>4 DEF IInv, WireInv
    <2>5. CASE o > 0 /\ c # o
      BY <1>1, <1>2, <1>4, <1>21, <2>1, <2>5 DEF IInv, WireInv
    <2> QED BY <2>3, <2>4, <2>5, Types
  <1>22. ASSUME NEW c \in Conn, NEW h \in Held(down'[c]), h.op = "begin"
         PROVE  h.of # t
    <2>1. h \in Held(down[c])
      BY <1>2 DEF Shrinks
    <2>2. h.of \in Accept
      BY <1>22, <2>1 DEF IInv, WireInv
    <2>3. CASE o > 0
      BY <1>5, <2>2, <2>3, Types
    <2>4. CASE o = 0 /\ c = conn
      BY <1>1, <1>2, <1>4, <1>22, <2>4 DEF IInv, WireInv
    <2>5. CASE o = 0 /\ c # conn
      BY <1>1, <1>2, <1>4, <1>22, <2>1, <2>5 DEF IInv, WireInv
    <2> QED BY <2>3, <2>4, <2>5, Types
  <1>23. WireNext(up', Accept, Dial) /\ WireNext(down', Dial, Accept)
    <2>1. up \in [Conn -> Seq(Pdu)] /\ down \in [Conn -> Seq(Pdu)]
      BY DEF IInv, TypeOK
    <2>2. \A c \in Conn : \A h \in Held(up'[c]) :
             h.op = "begin" /\ pass[h.of] = "absent" => pass'[h.of] = "absent"
      BY <1>7, <1>19, <1>21
    <2>3. \A c \in Conn : \A h \in Held(down'[c]) :
             h.op = "begin" /\ pass[h.of] = "absent" => pass'[h.of] = "absent"
      BY <1>7, <1>20, <1>22
    <2>4. WireNext(up', Accept, Dial)
      BY <1>2, <1>9, <1>11, <1>14, <2>1, <2>2, WiresShrink DEF IInv
    <2>5. WireNext(down', Dial, Accept)
      BY <1>2, <1>9, <1>11, <1>14, <2>1, <2>3, WiresShrink DEF IInv
    <2> QED BY <2>4, <2>5
  <1>24. HereInv'
    <2> SUFFICES ASSUME NEW u \in InTable(0)
                 PROVE  /\ \A c \in Conn : \A h \in Held(up'[c]) :
                              h.op = "begin" /\ h.of = u => est[0] /\ c = conn
                        /\ pass'[u] # "absent" => est[0] /\ via'[u] = conn
                        /\ pass'[u] = "replied" =>
                              \/ u \in consumed
                              \/ \E h \in Held(down'[conn]) : h.op = "end" /\ h.of = u
      BY <1>1, <1>10 DEF HereInv, Answered, Held
    <2>1. \A c \in Conn : \A h \in Held(up'[c]) :
             h.op = "begin" /\ h.of = u => est[0] /\ c = conn
      BY <1>2 DEF Shrinks, IInv, HereInv
    <2>2. u \in Trans /\ at[u] = 0 /\ ord[u] > 0
      <3>1. PICK i \in Tid : u = transInit[0][i] /\ u # NoTrans
        BY DEF InTable
      <3> QED BY <3>1, Types DEF IInv, SlotInv, TypeOK
    <2>3. u \in Dial
      BY <2>2, Types DEF IInv, BornInv
    <2>4. CASE u = t
      <3>1. o > 0
        BY <1>5, <2>3, <2>4, Types
      <3>2. est[0] /\ o = conn
        BY <1>1, <1>2, <1>4, <2>4, <3>1 DEF IInv, HereInv
      <3> QED BY <1>7, <2>1, <2>4, <3>2
    <2>5. CASE u # t
      <3>1. pass'[u] = pass[u] /\ via'[u] = via[u]
        BY <1>7, <2>2, <2>5
      <3>2. \A h \in Held(down[conn]) : h.op = "end" => h \in Held(down'[conn])
        <4>1. CASE o = 0
          BY <1>1, <1>2, <4>1
        <4>2. CASE o > 0
          BY <1>2, <4>2
        <4> QED BY <4>1, <4>2, Types
      <3> QED BY <2>1, <3>1, <3>2 DEF IInv, HereInv, Answered
    <2> QED BY <2>4, <2>5
  <1> QED BY <1>8, <1>12, <1>13, <1>15, <1>16, <1>17, <1>18, <1>23, <1>24, WireNextIs
          DEF IInv

LEMMA FutureBeginKeeps ==
    ASSUME IInv, NEW o \in Object, mailbox[o] # <<>>,
           mailbox' = [mailbox EXCEPT ![o] = Tail(@)],
           Head(mailbox[o]).op = "begin", FutureBegin(o, Head(mailbox[o]).of)
    PROVE  IInv'
  <1> DEFINE t == Head(mailbox[o]).of
             g == GenTid(o)
             pdu == [op |-> "begin", of |-> t, tid |-> g]
  <1>1. /\ tidSeq' = [tidSeq EXCEPT ![o] = g]
        /\ transInit' = [transInit EXCEPT ![o][g] = t]
        /\ SendPdu(o, pdu)
        /\ issued' = [issued EXCEPT ![o] = @ + 1]
        /\ ord' = [ord EXCEPT ![t] = issued[o] + 1]
        /\ UNCHANGED <<conn, est, outcome, at, pass, via, dtid, answer, consumed>>
    BY DEF FutureBegin, begun, handled
  <1>2. TypeOK /\ TaskInv
    BY DEF IInv
  <1>3. /\ mailbox' \in [Object -> Seq(Task)]
        /\ Head(mailbox[o]) \in Task
        /\ ord[t] = 0 /\ at[t] = o /\ outcome[t] # "unborn"
        /\ \A b \in Object :
              /\ Held(mailbox'[b]) \subseteq Held(mailbox[b])
              /\ OnceIn(mailbox[b], "begin") => OnceIn(mailbox'[b], "begin")
              /\ OnceIn(mailbox[b], "end") => OnceIn(mailbox'[b], "end")
              /\ \A e \in Held(mailbox'[b]) : e.op = "begin" => e.of # t
    <2>1. \A b \in Object :
             /\ Held(mailbox'[b]) \subseteq Held(mailbox[b])
             /\ OnceIn(mailbox[b], "begin") => OnceIn(mailbox'[b], "begin")
             /\ OnceIn(mailbox[b], "end") => OnceIn(mailbox'[b], "end")
             /\ \A e \in Held(mailbox'[b]) :
                   e.op = Head(mailbox[o]).op /\ e.op \in {"begin", "end"} =>
                      e.of # Head(mailbox[o]).of
      BY <1>2, RunFacts
    <2>2. /\ mailbox' \in [Object -> Seq(Task)]
          /\ Head(mailbox[o]) \in Task
          /\ ord[t] = 0 /\ at[t] = o /\ outcome[t] # "unborn"
      BY <1>2, RunFacts
    <2> QED BY <2>1, <2>2
  <1>4. t \in Trans
    BY <1>3 DEF Task
  <1>5. g \in Tid
    BY BackFacts DEF IInv, TypeOK
  <1>6. FutureBegin(o, t) /\ g = GenTid(o)
    OBVIOUS
  <1>7. pdu \in Pdu /\ pdu.op = "begin" /\ pdu.of = t /\ pdu.tid = g
    BY <1>4, <1>5 DEF Pdu
  <1> HIDE DEF t, g, pdu
  <1>8. /\ up' \in [Conn -> Seq(Pdu)]
        /\ down' \in [Conn -> Seq(Pdu)]
        /\ IF o = 0 /\ est[0] THEN Grows(up, up', conn, pdu) ELSE up' = up
        /\ IF o > 0 /\ est[0] /\ conn = o
           THEN Grows(down, down', o, pdu) ELSE down' = down
    BY <1>1, <1>2, <1>7, SendFacts
  <1>9. TypeOK'
    <2>1. tidSeq' \in [Object -> Tid]
      BY <1>1, <1>5 DEF IInv, TypeOK
    <2>2. transInit' \in [Object -> [Tid -> Trans \cup {NoTrans}]]
      BY <1>1, <1>4, <1>5 DEF IInv, TypeOK
    <2>3. issued' \in [Object -> Nat] /\ ord' \in [Trans -> Nat]
      <3>1. /\ issued \in [Object -> Nat] /\ ord \in [Trans -> Nat]
            /\ issued[o] + 1 \in Nat
        BY DEF IInv, TypeOK
      <3>2. issued' = [issued EXCEPT ![o] = issued[o] + 1]
        BY <1>1
      <3> QED BY <1>1, <3>1, <3>2
    <2> QED BY <1>1, <1>3, <1>8, <2>1, <2>2, <2>3 DEF IInv, TypeOK
  <1>10. /\ ord'[t] = issued[o] + 1 /\ issued[o] \in Nat
         /\ \A u \in Trans : u # t => ord'[u] = ord[u]
    BY <1>1, <1>4 DEF IInv, TypeOK
  <1>11. OrdStays
    BY <1>1, <1>3, <1>10 DEF OrdStays
  <1>12. /\ \A u \in Trans : Ids[u] \subseteq Ids'[u]
         /\ g \in Ids'[t]
         /\ SlotInv'
    <2>1. SlotInv /\ BornInv
      BY DEF IInv
    <2> QED BY <1>2, <1>3, <1>4, <1>6, <1>9, <2>1, FutureBeginIds
  <1>13. HandledInv'
    BY <1>1, <1>12, HandledKept DEF IInv
  <1>14. AnswerInv'
    BY <1>1, <1>11, AnswersKept DEF IInv
  <1>15. TaskInv'
    <2>1. \A b \in Object : \A e \in Held(mailbox'[b]) : e.of \in Trans
      BY <1>2, <1>3, TaskOf
    <2>2. \A b \in Object : \A e \in Held(mailbox'[b]) :
             /\ e.op = "begin" =>
                   /\ ord'[e.of] = ord[e.of] /\ at'[e.of] = at[e.of]
                   /\ outcome[e.of] # "unborn" => outcome'[e.of] # "unborn"
             /\ e.op = "end" /\ pass[e.of] = "ending" =>
                   pass'[e.of] = "ending" /\ via'[e.of] = via[e.of]
      BY <1>1, <1>3, <1>10, <2>1
    <2> QED BY <1>2, <1>3, <2>2, TasksKept
  <1>16. pass[t] = "absent"
    BY <1>3, <1>4 DEF IInv, BornInv
  <1>17. BornInv'
    <2>1. est'[0] => conn' > 0
      BY <1>1 DEF IInv, BornInv
    <2>2. \A b \in Object : issued[b] \in Nat /\ issued'[b] \in Nat /\ issued[b] <= issued'[b]
      BY <1>1 DEF IInv, TypeOK
    <2>3. issued'[o] = issued[o] + 1
      BY <1>1 DEF IInv, TypeOK
    <2>4. ASSUME NEW u \in Trans
          PROVE  /\ outcome[u] = "unborn" => ord'[u] = 0
                 /\ ord'[u] <= issued'[at[u]]
                 /\ pass[u] # "absent" => ord'[u] > 0 /\ (via[u] = 0 <=> u \in Accept)
      <3>1. CASE u = t
        BY <1>3, <1>10, <1>16, <2>3, <3>1
      <3>2. CASE u # t
        <4>1. at[u] \in Object /\ ord[u] \in Nat
          BY DEF IInv, TypeOK
        <4>2. ord[u] <= issued[at[u]]
          BY DEF IInv, BornInv
        <4>3. ord'[u] = ord[u]
          BY <1>10, <3>2
        <4>4. ord'[u] <= issued'[at[u]]
          BY <2>2, <4>1, <4>2, <4>3
        <4> QED BY <4>3, <4>4 DEF IInv, BornInv
      <3> QED BY <3>1, <3>2
    <2> QED BY <1>1, <2>1, <2>4 DEF IInv, BornInv
  <1>18. WireNext(up', Accept, Dial) /\ WireNext(down', Dial, Accept)
    <2>1. up \in [Conn -> Seq(Pdu)] /\ down \in [Conn -> Seq(Pdu)]
      BY DEF IInv, TypeOK
    <2>2. pass' = pass
      BY <1>1
    <2>3. pdu.tid \in Ids'[pdu.of] /\ pass'[pdu.of] = "absent" /\ ord[pdu.of] = 0
      BY <1>3, <1>7, <1>12, <1>16, <2>2
    <2>4. pdu.op # "end"
      BY <1>7
    <2>5. WireNext(up', Accept, Dial)
      <3>1. CASE o = 0 /\ est[0]
        <4>1. conn \in Conn
          BY <3>1 DEF IInv, TypeOK, BornInv, Conn
        <4>2. Grows(up, up', conn, pdu)
          BY <1>8, <3>1
        <4>3. pdu.of \in Dial
          BY <1>3, <1>4, <1>7, <3>1, Types DEF IInv, BornInv
        <4> QED BY <1>7, <1>8, <1>11, <1>12, <2>1, <2>2, <2>3, <2>4, <4>1, <4>2, <4>3,
                   WiresGrow DEF IInv
      <3>2. CASE up' = up
        <4>1. Shrinks(up, up')
          BY <3>2 DEF Shrinks
        <4> QED BY <1>8, <1>11, <1>12, <2>1, <2>2, <4>1, WiresShrink DEF IInv
      <3> QED BY <1>8, <3>1, <3>2
    <2>6. WireNext(down', Dial, Accept)
      <3>1. CASE o > 0 /\ est[0] /\ conn = o
        <4>1. o \in Conn
          BY <3>1, Types
        <4>2. Grows(down, down', o, pdu)
          BY <1>8, <3>1
        <4>3. pdu.of \in Accept
          BY <1>3, <1>4, <1>7, <3>1, Types DEF IInv, BornInv
        <4> QED BY <1>7, <1>8, <1>11, <1>12, <2>1, <2>2, <2>3, <2>4, <4>1, <4>2, <4>3,
                   WiresGrow DEF IInv
      <3>2. CASE down' = down
        <4>1. Shrinks(down, down')
          BY <3>2 DEF Shrinks
        <4> QED BY <1>8, <1>11, <1>12, <2>1, <2>2, <4>1, WiresShrink DEF IInv
      <3> QED BY <1>8, <3>1, <3>2
    <2> QED BY <2>5, <2>6
  <1>19. \A b \in Object, i \in Tid :
            transInit'[b][i] = IF b = o /\ i = g THEN t ELSE transInit[b][i]
    BY <1>1, <1>5 DEF IInv, TypeOK
  <1>20. TableInv'
    <2> SUFFICES ASSUME NEW u \in Dial, outcome'[u] = "open", ord'[u] > 0,
                        issued'[at'[u]] - ord'[u] <= MaxTid
                 PROVE  \E i \in Tid : transInit'[0][i] = u
      BY Types DEF TableInv, Lag, InTable
    <2>1. u \in Trans /\ at[u] = 0
      BY Types DEF IInv, BornInv
    <2>2. CASE u = t
      BY <1>3, <1>5, <1>19, <2>1, <2>2
    <2>3. CASE u # t
      <3>1. ord'[u] = ord[u] /\ at' = at /\ outcome' = outcome
        BY <1>1, <1>10, <2>1, <2>3
      <3>2. /\ ord[u] \in Nat /\ issued[0] \in Nat /\ MaxTid \in Nat
            /\ ord[u] <= issued[0]
            /\ issued'[0] = IF o = 0 THEN issued[0] + 1 ELSE issued[0]
        BY <1>1, <2>1, Types DEF IInv, TypeOK, BornInv
      <3>3. Lag(u) \in Nat /\ Lag(u) <= MaxTid /\ (o = 0 => Lag(u) + 1 <= MaxTid)
        BY <2>1, <3>1, <3>2 DEF Lag
      <3>4. u \in InTable(0)
        BY <3>1, <3>3 DEF IInv, TableInv
      <3>5. PICK i \in Tid : transInit[0][i] = u /\ u # NoTrans
        BY <3>4 DEF InTable
      <3>6. i = Back(tidSeq[0], Lag(u))
        BY <3>5, Types DEF IInv, SlotInv
      <3>7. ~(o = 0 /\ i = g)
        <4> SUFFICES ASSUME o = 0, i = g PROVE FALSE
          OBVIOUS
        <4>1. \A d \in 0 .. MaxTid : d < MaxTid => Back(g, d + 1) = Back(tidSeq[o], d)
          BY <1>6, BackFacts DEF IInv, TypeOK
        <4>2. \A d \in 0 .. MaxTid : d # 0 => Back(g, d) # g
          BY <1>6, BackFacts DEF IInv, TypeOK
        <4>3. Lag(u) < MaxTid /\ Lag(u) \in 0 .. MaxTid /\ Lag(u) + 1 \in 0 .. MaxTid
              /\ Lag(u) + 1 # 0
          BY <3>2, <3>3
        <4> QED BY <3>6, <4>1, <4>2, <4>3
      <3> QED BY <1>19, <3>5, <3>7, Types
    <2> QED BY <2>2, <2>3
  <1>21. HereInv'
    <2> SUFFICES ASSUME NEW u \in InTable(0)'
                 PROVE  /\ \A c \in Conn : \A h \in Held(up'[c]) :
                              h.op = "begin" /\ h.of = u => est[0] /\ c = conn
                        /\ pass[u] # "absent" => est[0] /\ via[u] = conn
                        /\ pass[u] = "replied" =>
                              \/ u \in consumed
                              \/ \E h \in Held(down'[conn]) : h.op = "end" /\ h.of = u
      BY <1>1 DEF HereInv, Answered, Held
    <2>1. u \in InTable(0) \/ (o = 0 /\ u = t)
      <3>1. PICK i \in Tid : u = transInit'[0][i] /\ u # NoTrans
        BY DEF InTable
      <3> QED BY <1>19, <3>1, Types DEF InTable
    <2>2. CASE o = 0 /\ u = t
      <3>1. \A c \in Conn : \A h \in Held(up[c]) : h.of # t
        <4> SUFFICES ASSUME NEW c \in Conn, NEW h \in Held(up[c]), h.of = t PROVE FALSE
          OBVIOUS
        <4>1. h.tid \in Ids[t]
          BY DEF IInv, WireInv
        <4> QED BY <1>3, <1>4, <4>1 DEF Ids
      <3>2. \A c \in Conn : \A h \in Held(up'[c]) :
               h.op = "begin" /\ h.of = u => est[0] /\ c = conn
        <4>1. CASE est[0]
          BY <1>8, <2>2, <3>1, <4>1 DEF Grows
        <4>2. CASE ~est[0]
          BY <1>8, <2>2, <3>1, <4>2
        <4> QED BY <4>1, <4>2
      <3> QED BY <1>16, <2>2, <3>2
    <2>3. CASE u \in InTable(0) /\ u # t
      <3>1. /\ \A c \in Conn : \A h \in Held(up[c]) :
                  h.op = "begin" /\ h.of = u => est[0] /\ c = conn
            /\ pass[u] # "absent" => est[0] /\ via[u] = conn
            /\ pass[u] = "replied" =>
                  u \in consumed \/ \E h \in Held(down[conn]) : h.op = "end" /\ h.of = u
        BY <2>3 DEF IInv, HereInv, Answered
      <3>2. \A c \in Conn : \A h \in Held(up'[c]) : h \in Held(up[c]) \/ h = pdu
        BY <1>8 DEF Grows
      <3>3. \A h \in Held(down[conn]) : h \in Held(down'[conn])
        <4>1. CASE o > 0 /\ est[0] /\ conn = o
          <5>1. conn \in Conn
            BY <4>1, Types
          <5> QED BY <1>8, <4>1, <5>1 DEF Grows
        <4>2. CASE down' = down
          BY <4>2
        <4> QED BY <1>8, <4>1, <4>2
      <3> QED BY <1>7, <2>3, <3>1, <3>2, <3>3
    <2>4. t \notin InTable(0)
      <3> SUFFICES ASSUME t \in InTable(0) PROVE FALSE
        OBVIOUS
      <3>1. PICK i \in Tid : t = transInit[0][i] /\ t # NoTrans
        BY DEF InTable
      <3> QED BY <1>3, <3>1, Types DEF IInv, SlotInv
    <2> QED BY <2>1, <2>2, <2>3, <2>4
  <1> QED BY <1>9, <1>12, <1>13, <1>14, <1>15, <1>17, <1>18, <1>20, <1>21, WireNextIs
          DEF IInv

LEMMA FutureEndKeeps ==
    ASSUME IInv, NEW o \in Object, mailbox[o] # <<>>,
           mailbox' = [mailbox EXCEPT ![o] = Tail(@)],
           Head(mailbox[o]).op = "end", FutureEnd(o, Head(mailbox[o]).of)
    PROVE  IInv'
  <1> DEFINE t == Head(mailbox[o]).of
             pdu == [op |-> "end", of |-> t, tid |-> dtid[t]]
  <1>1. /\ est[o]
        /\ pass' = [pass EXCEPT ![t] = "replied"]
        /\ SendPdu(o, pdu)
        /\ UNCHANGED <<conn, est, tidSeq, transInit, outcome, at, via, dtid>>
        /\ UNCHANGED <<issued, ord, answer, consumed>>
    BY DEF FutureEnd, begun, hist
  <1>2. TypeOK /\ TaskInv
    BY DEF IInv
  <1>3. /\ mailbox' \in [Object -> Seq(Task)]
        /\ Head(mailbox[o]) \in Task
        /\ pass[t] = "ending" /\ via[t] = o
    BY <1>2, RunFacts
  <1>4. t \in Trans
    BY <1>3 DEF Task
  <1>5. pdu \in Pdu /\ pdu.op = "end" /\ pdu.of = t /\ pdu.tid = dtid[t]
    BY <1>4 DEF Pdu, IInv, TypeOK
  <1>6. \A u \in Trans : pass'[u] = IF u = t THEN "replied" ELSE pass[u]
    BY <1>1 DEF IInv, TypeOK
  <1>7. TaskInv'
    <2>1. \A u \in Trans : /\ outcome[u] # "unborn" => outcome'[u] # "unborn"
                           /\ u # Head(mailbox[o]).of => pass'[u] = pass[u]
      BY <1>1, <1>6
    <2>2. UNCHANGED <<ord, at, via>>
      BY <1>1
    <2> QED BY <2>1, <2>2, TasksAfterEnd
  <1> HIDE DEF t, pdu
  <1>8. /\ up' \in [Conn -> Seq(Pdu)]
        /\ down' \in [Conn -> Seq(Pdu)]
        /\ IF o = 0 /\ est[0] THEN Grows(up, up', conn, pdu) ELSE up' = up
        /\ IF o > 0 /\ est[0] /\ conn = o
           THEN Grows(down, down', o, pdu) ELSE down' = down
        /\ o > 0 /\ est[o] /\ est[0] /\ conn = o => pdu \in Held(down'[o])
    BY <1>1, <1>2, <1>5, SendFacts
  <1>9. TypeOK'
    <2>1. pass' \in [Trans -> {"absent", "open", "ending", "replied", "dropped"}]
      BY <1>1 DEF IInv, TypeOK
    <2> QED BY <1>1, <1>3, <1>8, <2>1 DEF IInv, TypeOK
  <1>10. Erases /\ OrdStays /\ IdsStay
    BY <1>1 DEF Erases, OrdStays, IdsStay
  <1>11. InTable(0)' = InTable(0)
    BY <1>1 DEF InTable
  <1>12. \A u \in Trans : Ids[u] \subseteq Ids'[u]
    BY <1>9, <1>10, IdsKept DEF IInv
  <1>13. SlotInv'
    BY <1>9, <1>10, SlotsKept DEF IInv
  <1>14. HandledInv'
    BY <1>1, <1>3, <1>6, <1>12, HandledKept DEF IInv
  <1>15. \A u \in Trans : /\ pass[u] = "replied" => pass'[u] = "replied"
                          /\ pass[u] = "absent" => pass'[u] = "absent"
    BY <1>3, <1>6
  <1>16. AnswerInv'
    BY <1>1, <1>10, <1>15, AnswersKept DEF IInv
  <1>17. TableInv'
    BY <1>1, <1>10, <1>11, TableKept DEF IInv
  <1>18. BornInv'
    <2>1. est'[0] => conn' > 0
      BY <1>1 DEF IInv, BornInv
    <2>2. \A u \in Trans : pass'[u] # "absent" => pass[u] # "absent"
      BY <1>3, <1>6
    <2> QED BY <1>1, <2>1, <2>2 DEF IInv, BornInv
  <1>19. ord[t] > 0 /\ (o = 0 <=> t \in Accept) /\ at[t] <= conn
    BY <1>3, <1>4 DEF IInv, BornInv
  <1>20. pdu.tid \in Ids'[pdu.of] /\ pass'[pdu.of] = "replied"
    BY <1>3, <1>4, <1>5, <1>6, <1>12 DEF IInv, HandledInv
  <1>21. WireNext(up', Accept, Dial) /\ WireNext(down', Dial, Accept)
    <2>1. up \in [Conn -> Seq(Pdu)] /\ down \in [Conn -> Seq(Pdu)]
      BY DEF IInv, TypeOK
    <2>2. /\ \A u \in Trans : pass[u] = "replied" => pass'[u] = "replied"
          /\ \A u \in Trans : pass[u] = "absent" => pass'[u] = "absent"
      BY <1>15
    <2>3. pdu.op # "begin"
      BY <1>5
    <2>4. \A p \in Pdu : p.of \in Trans
      BY DEF Pdu
    <2>5. WireNext(up', Accept, Dial)
      <3>1. CASE o = 0 /\ est[0]
        <4>1. conn \in Conn
          BY <3>1 DEF IInv, TypeOK, BornInv, Conn
        <4>2. Grows(up, up', conn, pdu)
          BY <1>8, <3>1
        <4>3. pdu.of \in Accept /\ at'[pdu.of] <= conn
          BY <1>1, <1>5, <1>19, <3>1
        <4> QED BY <1>5, <1>8, <1>10, <1>12, <1>20, <2>1, <2>2, <2>3, <4>1, <4>2, <4>3,
                   WiresGrow DEF IInv
      <3>2. CASE up' = up
        <4>1. Shrinks(up, up')
          BY <3>2 DEF Shrinks
        <4>2. \A c \in Conn : \A p \in Held(up'[c]) :
                 p.op = "begin" /\ pass[p.of] = "absent" => pass'[p.of] = "absent"
          <5> SUFFICES ASSUME NEW c \in Conn, NEW p \in Held(up'[c])
                       PROVE  pass[p.of] = "absent" => pass'[p.of] = "absent"
            OBVIOUS
          <5>1. up'[c] \in Seq(Pdu)
            BY <1>8
          <5> QED BY <2>2, <2>4, <5>1, HeldIn
        <4> QED BY <1>8, <1>10, <1>12, <2>1, <2>2, <4>1, <4>2, WiresShrink DEF IInv
      <3> QED BY <1>8, <3>1, <3>2
    <2>6. WireNext(down', Dial, Accept)
      <3>1. CASE o > 0 /\ est[0] /\ conn = o
        <4>1. o \in Conn
          BY <3>1, Types
        <4>2. Grows(down, down', o, pdu)
          BY <1>8, <3>1
        <4>3. pdu.of \in Dial /\ at'[pdu.of] <= o
          BY <1>1, <1>4, <1>5, <1>19, <3>1, Types
        <4> QED BY <1>5, <1>8, <1>10, <1>12, <1>20, <2>1, <2>2, <2>3, <4>1, <4>2, <4>3,
                   WiresGrow DEF IInv
      <3>2. CASE down' = down
        <4>1. Shrinks(down, down')
          BY <3>2 DEF Shrinks
        <4>2. \A c \in Conn : \A p \in Held(down'[c]) :
                 p.op = "begin" /\ pass[p.of] = "absent" => pass'[p.of] = "absent"
          <5> SUFFICES ASSUME NEW c \in Conn, NEW p \in Held(down'[c])
                       PROVE  pass[p.of] = "absent" => pass'[p.of] = "absent"
            OBVIOUS
          <5>1. down'[c] \in Seq(Pdu)
            BY <1>8
          <5> QED BY <2>2, <2>4, <5>1, HeldIn
        <4> QED BY <1>8, <1>10, <1>12, <2>1, <2>2, <4>1, <4>2, WiresShrink DEF IInv
      <3> QED BY <1>8, <3>1, <3>2
    <2> QED BY <2>5, <2>6
  \* A server that answers what is in the table still has the connection.
  <1>22. HereInv'
    <2> SUFFICES ASSUME NEW u \in InTable(0)
                 PROVE  /\ \A c \in Conn : \A h \in Held(up'[c]) :
                              h.op = "begin" /\ h.of = u => est[0] /\ c = conn
                        /\ pass'[u] # "absent" => est[0] /\ via[u] = conn
                        /\ pass'[u] = "replied" =>
                              \/ u \in consumed
                              \/ \E h \in Held(down'[conn]) : h.op = "end" /\ h.of = u
      BY <1>1, <1>11 DEF HereInv, Answered, Held
    <2>1. /\ \A c \in Conn : \A h \in Held(up[c]) :
                h.op = "begin" /\ h.of = u => est[0] /\ c = conn
          /\ pass[u] # "absent" => est[0] /\ via[u] = conn
          /\ pass[u] = "replied" =>
                u \in consumed \/ \E h \in Held(down[conn]) : h.op = "end" /\ h.of = u
      BY DEF IInv, HereInv, Answered
    <2>2. u \in Trans /\ at[u] = 0 /\ ord[u] > 0
      <3>1. PICK i \in Tid : u = transInit[0][i] /\ u # NoTrans
        BY DEF InTable
      <3> QED BY <3>1, Types DEF IInv, SlotInv, TypeOK
    <2>3. u \in Dial
      BY <2>2, Types DEF IInv, BornInv
    <2>4. \A c \in Conn : \A h \in Held(up'[c]) : h \in Held(up[c]) \/ h = pdu
      BY <1>8 DEF Grows
    <2>5. \A c \in Conn : \A h \in Held(up'[c]) :
             h.op = "begin" /\ h.of = u => est[0] /\ c = conn
      BY <1>5, <2>1, <2>4
    <2>6. CASE u = t
      <3>1. o > 0 /\ est[0] /\ o = conn
        BY <1>3, <1>19, <2>1, <2>3, <2>6, Types
      <3>2. pdu \in Held(down'[conn])
        BY <1>1, <1>8, <3>1
      <3> QED BY <1>3, <1>5, <2>5, <2>6, <3>1, <3>2
    <2>7. CASE u # t
      <3>1. pass'[u] = pass[u]
        BY <1>6, <2>2, <2>7
      <3>2. \A h \in Held(down[conn]) : h \in Held(down'[conn])
        <4>1. CASE o > 0 /\ est[0] /\ conn = o
          <5>1. conn \in Conn
            BY <4>1, Types
          <5> QED BY <1>8, <4>1, <5>1 DEF Grows
        <4>2. CASE down' = down
          BY <4>2
        <4> QED BY <1>8, <4>1, <4>2
      <3> QED BY <2>1, <2>5, <3>1, <3>2
    <2> QED BY <2>6, <2>7
  <1> QED BY <1>7, <1>9, <1>13, <1>14, <1>16, <1>17, <1>18, <1>21, <1>22, WireNextIs
          DEF IInv

LEMMA RunFutureKeeps ==
    ASSUME IInv, NEW o \in Object, RunFuture(o) PROVE IInv'
  <1>1. mailbox[o] # <<>> /\ mailbox' = [mailbox EXCEPT ![o] = Tail(@)]
    BY DEF RunFuture
  <1>2. CASE Head(mailbox[o]).op = "begin" /\ FutureBegin(o, Head(mailbox[o]).of)
    BY <1>1, <1>2, FutureBeginKeeps
  <1>3. CASE Head(mailbox[o]).op = "end" /\ FutureEndUnsent(o, Head(mailbox[o]).of)
    BY <1>1, <1>3, FutureEndUnsentKeeps
  <1>4. CASE Head(mailbox[o]).op = "end" /\ FutureEndFailure(o, Head(mailbox[o]).of)
    BY <1>1, <1>4, FutureEndFailureKeeps
  <1>5. CASE Head(mailbox[o]).op = "end" /\ FutureEnd(o, Head(mailbox[o]).of)
    BY <1>1, <1>5, FutureEndKeeps
  <1> QED BY <1>2, <1>3, <1>4, <1>5 DEF RunFuture

-----------------------------------------------------------------------------
(* The theorems.                                                           *)

LEMMA InitIInv ==
    Init => IInv
  <1> SUFFICES ASSUME Init PROVE IInv
    OBVIOUS
  <1>1. <<>> \in Seq(Pdu) /\ <<>> \in Seq(Task)
    BY EmptySeq
  <1>2. TypeOK
    BY <1>1, Types DEF Init, TypeOK
  <1>3. /\ \A o \in Object : mailbox[o] = <<>>
        /\ \A c \in Conn : up[c] = <<>> /\ down[c] = <<>>
    BY DEF Init
  <1>4. \A o \in Object : OnceIn(mailbox[o], "begin") /\ OnceIn(mailbox[o], "end")
                          /\ Held(mailbox[o]) = {}
    BY <1>3, HeldEmpty
  <1>5. \A c \in Conn : /\ OnceIn(up[c], "begin") /\ Held(up[c]) = {}
                        /\ OnceIn(down[c], "begin") /\ Held(down[c]) = {}
    BY <1>3, HeldEmpty
  <1>6. TaskInv
    BY <1>4 DEF TaskInv
  <1>7. BornInv
    BY Types DEF Init, BornInv
  <1>8. SlotInv
    BY DEF Init, SlotInv
  <1>9. HandledInv
    BY DEF Init, HandledInv
  <1>10. AnswerInv
    BY DEF Init, AnswerInv
  <1>11. WireInv(up, Accept, Dial)
    BY <1>5 DEF WireInv
  <1>12. WireInv(down, Dial, Accept)
    BY <1>5 DEF WireInv
  <1>13. TableInv
    BY Types DEF Init, TableInv
  <1>14. InTable(0) = {}
    BY Types DEF Init, InTable
  <1>15. HereInv
    BY <1>14 DEF HereInv
  <1> QED BY <1>2, <1>6, <1>7, <1>8, <1>9, <1>10, <1>11, <1>12, <1>13, <1>15 DEF IInv

LEMMA NextIInv ==
    IInv /\ [Next]_vars => IInv'
  <1> SUFFICES ASSUME IInv, [Next]_vars PROVE IInv'
    OBVIOUS
  <1>1. CASE UNCHANGED vars
    BY <1>1, StutterKeeps
  <1>2. CASE \E t \in Trans, o \in Object : Begin(t, o)
    BY <1>2, BeginKeeps
  <1>3. CASE \E t \in Trans : End(t)
    BY <1>3, EndKeeps
  <1>4. ASSUME NEW o \in Object, Worker(o) PROVE IInv'
    <2>1. CASE RunFuture(o)
      BY <2>1, RunFutureKeeps
    <2>2. CASE EvnBegin(o)
      BY <2>2, EvnBeginKeeps
    <2>3. CASE EvnEnd(o)
      BY <2>3, EvnEndKeeps
    <2>4. CASE \E S \in SUBSET InTable(o) : CheckTransInit(o, S)
      BY <2>4, CheckTransInitKeeps
    <2>5. CASE Lost(o)
      BY <2>5, LostKeeps
    <2>6. CASE Intercepted(o)
      BY <2>6, InterceptedKeeps
    <2> QED BY <1>4, <2>1, <2>2, <2>3, <2>4, <2>5, <2>6 DEF Worker
  <1>5. CASE Connect
    BY <1>5, ConnectKeeps
  <1> QED BY <1>1, <1>2, <1>3, <1>4, <1>5 DEF Next

\* The invariant is one: it holds of every state the two sides, the network and the
\* applications can reach.
THEOREM Invariance ==
    Spec => []IInv
  BY InitIInv, NextIInv, PTL DEF Spec

\* Every variable has its type: an object, an id and a PDU are what they are taken
\* for wherever they are used as an index.
THEOREM TypeCorrect ==
    Spec => []TypeOK
  <1>1. IInv => TypeOK
    BY DEF IInv
  <1> QED BY <1>1, Invariance, PTL

\* The callback of a transaction that XmsgImTcpH2N began is told of the answer to
\* it, or, after a turn of tidSeq, of that to one begun a turn before: whatever is
\* lost, late or made again.
THEOREM DialerOwnAnswer ==
    Spec => []DialerGetsOwnAnswer
  <1>1. IInv => DialerGetsOwnAnswer
    BY Types DEF IInv, AnswerInv, DialerGetsOwnAnswer
  <1> QED BY <1>1, Invariance, PTL

\* The callback of a transaction that the server began may be told of the answer to
\* one of an earlier connection, which the dialing side gave on this one, and of no
\* other strange answer.
THEOREM AcceptorOwnOrEarlierAnswer ==
    Spec => []AcceptorGetsOwnOrEarlierAnswer
  <1>1. IInv => AcceptorGetsOwnOrEarlierAnswer
    BY Types DEF IInv, AnswerInv, AcceptorGetsOwnOrEarlierAnswer
  <1> QED BY <1>1, Invariance, PTL

\* Every answer a callback is told of was given by the application of the other
\* side, with another code than RET_FAILURE.
THEOREM AnswersWereGiven ==
    Spec => []AnswerWasGiven
  <1>1. IInv => AnswerWasGiven
    BY DEF IInv, AnswerInv, AnswerWasGiven
  <1> QED BY <1>1, Invariance, PTL

\* What the server answered and the dialing side has not settled is still in its
\* table, so that its connection is the one the answer was sent on, and the END is
\* not read yet or was consumed by an interceptor.
THEOREM AnswersSettleOrAreUnderWay ==
    Spec => []AnswerSettlesOrIsUnderWay
  <1>1. IInv => AnswerSettlesOrIsUnderWay
    <2> SUFFICES ASSUME IInv, NEW t \in Dial, pass[t] = "replied", outcome[t] = "open",
                        ~(issued[0] - ord[t] > MaxTid)
                 PROVE  /\ est[0] /\ t \in InTable(0)
                        /\ \/ t \in consumed
                           \/ \E k \in DOMAIN down[conn] :
                                 down[conn][k].op = "end" /\ down[conn][k].of = t
      BY DEF AnswerSettlesOrIsUnderWay
    <2>1. t \in Trans /\ at[t] = 0 /\ ord[t] > 0
      BY Types DEF IInv, BornInv
    <2>2. Lag(t) <= MaxTid
      <3>1. issued[0] \in Nat /\ ord[t] \in Nat /\ MaxTid \in Nat
        BY <2>1, Types DEF IInv, TypeOK
      <3> QED BY <2>1, <3>1 DEF Lag
    <2>3. t \in InTable(0)
      BY <2>1, <2>2 DEF IInv, TableInv
    <2>4. est[0] /\ Answered(t)
      BY <2>3 DEF IInv, HereInv
    <2> QED BY <2>3, <2>4 DEF Answered, Held
  <1> QED BY <1>1, Invariance, PTL
===========================================================================
