---------------------- MODULE XmsgImTcpChannelProofs ----------------------
(***************************************************************************)
(* Proofs about XmsgImTcpChannel, for any PDUs and any reads.              *)
(***************************************************************************)
EXTENDS XmsgImTcpChannel, SequenceTheorems, TLAPS

-----------------------------------------------------------------------------
(* The invariant.                                                          *)

\* Between two reads nothing is used; in the loop something is left.
PhaseInv ==
    open => /\ pc = "idle" => used = 0
            /\ pc = "recv" => used < len

\* What was handled are the first PDUs, and evnRecv() is at the end of the last.
OnTrack ==
    /\ \A j \in DOMAIN handled : handled[j] = j
    /\ At = IF handled = <<>> THEN 0 ELSE Ends[Len(handled)]

\* evnRecv() is behind the stream, and every PDU of it was handled.
OffTrack ==
    /\ junk > 0
    /\ At > sent
    /\ \A i \in Pdu : Ends[i] <= sent => i <= Len(handled)

\* While the worker waits, what is in the read buffer is no whole PDU.
RestInv == open /\ pc = "idle" => \A i \in Pdu : ~Here(i)

IInv ==
    /\ TypeOK
    /\ PhaseInv
    /\ HandledInOrder
    /\ OnTrack \/ OffTrack
    /\ RestInv

-----------------------------------------------------------------------------
(* The stream.                                                             *)

\* A PDU ends behind its beginning; the one that begins where another ends is the
\* next; and behind the end of one that is not the last there is a next.
LEMMA Boundaries ==
    /\ \A i \in Pdu : i \in Nat \ {0} /\ Ends[i] \in Nat \ {0} /\ Begin(i) \in Nat /\ Begin(i) < Ends[i]
    /\ \A i, k \in Pdu : Begin(i) = Ends[k] => i = k + 1
    /\ \A i \in Pdu : Begin(i) = 0 => i = 1
    /\ \A i \in Pdu : 1 \in Pdu /\ Begin(1) = 0 /\ Ends[1] <= Ends[i]
    /\ \A i, k \in Pdu : k < i => k + 1 \in Pdu /\ Begin(k + 1) = Ends[k] /\ Ends[k + 1] <= Ends[i]
  <1>1. /\ Len(Ends) \in Nat
        /\ Pdu = 1..Len(Ends)
        /\ \A i \in Pdu : Ends[i] \in Nat \ {0}
        /\ \A i, j \in Pdu : i < j => Ends[i] < Ends[j]
    BY TcpChannelAssumption DEF Pdu
  <1>2. \A i \in Pdu : i \in Nat \ {0} /\ (i # 1 => i - 1 \in Pdu /\ Ends[i - 1] < Ends[i])
    BY <1>1
  <1>3. \A i \in Pdu : Begin(i) \in Nat /\ Begin(i) < Ends[i]
    BY <1>1, <1>2 DEF Begin
  <1>4. \A i, k \in Pdu : Begin(i) = Ends[k] => i = k + 1
    <2>1. SUFFICES ASSUME NEW i \in Pdu, NEW k \in Pdu, Begin(i) = Ends[k]
                   PROVE  i = k + 1
      OBVIOUS
    <2>2. i # 1 /\ i - 1 \in Pdu /\ Ends[i - 1] = Ends[k]
      BY <1>1, <1>2, <2>1 DEF Begin
    <2>3. ~(i - 1 < k) /\ ~(k < i - 1)
      BY <1>1, <2>2
    <2> QED BY <1>2, <2>2, <2>3
  <1>5. \A i \in Pdu : Begin(i) = 0 => i = 1
    BY <1>1, <1>2 DEF Begin
  <1>6. \A i \in Pdu : 1 \in Pdu /\ Begin(1) = 0 /\ Ends[1] <= Ends[i]
    <2>1. SUFFICES ASSUME NEW i \in Pdu
                   PROVE  1 \in Pdu /\ Begin(1) = 0 /\ Ends[1] <= Ends[i]
      OBVIOUS
    <2>2. 1 \in Pdu /\ (1 = i \/ 1 < i)
      BY <1>1
    <2> QED BY <1>1, <2>2 DEF Begin
  <1>7. \A i, k \in Pdu : k < i => k + 1 \in Pdu /\ Begin(k + 1) = Ends[k] /\ Ends[k + 1] <= Ends[i]
    <2>1. SUFFICES ASSUME NEW i \in Pdu, NEW k \in Pdu, k < i
                   PROVE  k + 1 \in Pdu /\ Begin(k + 1) = Ends[k] /\ Ends[k + 1] <= Ends[i]
      OBVIOUS
    <2>2. k + 1 \in Pdu /\ k + 1 # 1 /\ k + 1 - 1 = k /\ (k + 1 = i \/ k + 1 < i)
      BY <1>1, <2>1
    <2> QED BY <1>1, <2>2 DEF Begin
  <1> QED BY <1>1, <1>2, <1>3, <1>4, <1>5, <1>6, <1>7

\* On track, the number of PDUs handled, and which PDU is next: the one that begins
\* here, and it ends no later than any that was not handled.
LEMMA NextPdu ==
    ASSUME TypeOK, OnTrack
    PROVE  /\ AtPdu(At)
           /\ Len(handled) \in Nat
           /\ \A i \in Pdu : Begin(i) = At => i = Len(handled) + 1
           /\ \A i \in Pdu : ~(i <= Len(handled)) =>
                  \E k \in Pdu : Begin(k) = At /\ Ends[k] <= Ends[i]
           /\ \A i \in Pdu : i <= Len(handled) => \E j \in DOMAIN handled : handled[j] = i
  <1>1. Len(handled) \in Nat /\ DOMAIN handled = 1..Len(handled) /\ (handled = <<>> <=> Len(handled) = 0)
    BY EmptySeq DEF TypeOK
  <1>2. \A i \in Pdu : i \in Nat \ {0}
    BY Boundaries
  <1>3. \A i \in Pdu : i <= Len(handled) => \E j \in DOMAIN handled : handled[j] = i
    BY <1>1, <1>2 DEF OnTrack
  <1>4. CASE handled = <<>>
    <2>1. At = 0 /\ Len(handled) = 0
      BY <1>1, <1>4 DEF OnTrack
    <2> QED BY <1>1, <1>3, <2>1, Boundaries DEF AtPdu
  <1>5. CASE handled # <<>>
    <2>1. Len(handled) \in DOMAIN handled /\ Len(handled) # 0
      BY <1>1, <1>5
    <2>2. handled[Len(handled)] \in Pdu \cup {0}
      BY <2>1 DEF TypeOK, Garbage
    <2>3. Len(handled) \in Pdu
      BY <2>1, <2>2 DEF OnTrack
    <2>4. At = Ends[Len(handled)]
      BY <1>5 DEF OnTrack
    <2>5. \A i \in Pdu : ~(i <= Len(handled)) => Len(handled) < i
      BY <1>1, <1>2
    <2> QED BY <1>1, <1>3, <2>3, <2>4, <2>5, Boundaries DEF AtPdu
  <1> QED BY <1>4, <1>5

\* If no PDU begins here and has arrived, every one that has arrived was handled.
LEMMA NoneLeft ==
    ASSUME TypeOK, OnTrack, \A i \in Pdu : ~Here(i)
    PROVE  \A i \in Pdu : Ends[i] <= sent /\ Ends[i] <= Upto => i <= Len(handled)
  <1>1. SUFFICES ASSUME NEW i \in Pdu, Ends[i] <= sent, Ends[i] <= Upto, ~(i <= Len(handled))
                 PROVE  FALSE
    OBVIOUS
  <1>2. PICK k \in Pdu : Begin(k) = At /\ Ends[k] <= Ends[i]
    BY <1>1, NextPdu
  <1>3. Ends[i] \in Nat /\ Ends[k] \in Nat /\ sent \in Nat /\ Upto \in Nat
    BY Boundaries DEF TypeOK, Upto
  <1>4. Ends[k] <= sent /\ Ends[k] <= Upto
    BY <1>1, <1>2, <1>3
  <1> QED BY <1>2, <1>4 DEF Here

-----------------------------------------------------------------------------
(* The steps.                                                              *)

\* evnRecv() uses the bytes up to b for a PDU.
LEMMA Consume ==
    ASSUME TypeOK, PhaseInv, open, pc = "recv", UNCHANGED peer,
           NEW p \in Pdu \cup {Garbage}, NEW b \in Nat, At < b, b <= Upto, EvnMsg(p, b)
    PROVE  /\ TypeOK' /\ PhaseInv'
           /\ At' = b
           /\ open' /\ pc' = "idle" => Upto' = b
           /\ handled' = Append(handled, p)
           /\ sent' = sent /\ junk' = junk
  <1> DEFINE u == b - base
  <1>1. /\ base \in Nat /\ len \in Nat /\ used \in Nat /\ sent \in Nat /\ junk \in Nat
        /\ base + len <= sent + junk
    BY DEF TypeOK
  <1>2. u \in Nat /\ u <= len /\ len - u \in Nat /\ base + u = b
    BY <1>1 DEF At, Upto
  <1>3. handled' = Append(handled, p) /\ handled' \in Seq(Pdu \cup {Garbage})
    BY AppendProperties DEF EvnMsg, TypeOK
  <1>4. sent' = sent /\ junk' = junk
    BY DEF peer
  <1>5. Close(u) \/ (u = len /\ Return(u)) \/ (u < len /\ Continue(u))
    BY DEF EvnMsg
  <1> HIDE DEF u
  <1>6. CASE Close(u)
    <2>1. open' = FALSE /\ pc' = "idle" /\ used' = u /\ base' = base /\ len' = len
      BY <1>6 DEF Close
    <2> QED BY <1>1, <1>2, <1>3, <1>4, <2>1 DEF TypeOK, PhaseInv, At
  <1>7. CASE u = len /\ Return(u)
    <2>1. open' = open /\ pc' = "idle" /\ base' = b /\ len' = 0 /\ used' = 0
      BY <1>1, <1>2, <1>7 DEF Return
    <2>2. b + 0 <= sent + junk /\ b + 0 = b
      BY <1>1, <1>2
    <2> QED BY <1>1, <1>2, <1>3, <1>4, <2>1, <2>2 DEF TypeOK, PhaseInv, At, Upto
  <1>8. CASE u < len /\ Continue(u)
    <2>1. open' = open /\ pc' = pc /\ used' = u /\ base' = base /\ len' = len
      BY <1>8 DEF Continue
    <2> QED BY <1>1, <1>2, <1>3, <1>4, <1>8, <2>1 DEF TypeOK, PhaseInv, At
  <1> QED BY <1>5, <1>6, <1>7, <1>8

\* A PDU of the stream is handled.
LEMMA DecodePduStep ==
    ASSUME IInv, EvnRecv, NEW i \in Pdu, Here(i), EvnMsg(i, Ends[i])
    PROVE  /\ IInv'
           /\ OnTrack
           /\ i = Len(handled) + 1
           /\ handled' = Append(handled, i)
           /\ sent' = sent
  <1>1. TypeOK /\ PhaseInv /\ HandledInOrder /\ (OnTrack \/ OffTrack)
    BY DEF IInv
  <1>2. open /\ pc = "recv" /\ UNCHANGED peer
    BY DEF EvnRecv
  <1>3. /\ Begin(i) = At /\ Ends[i] <= Upto /\ Ends[i] <= sent
        /\ Ends[i] \in Nat /\ Begin(i) < Ends[i] /\ Begin(i) \in Nat
    BY Boundaries DEF Here
  <1>4. OnTrack
    <2>1. ~(At > sent)
      BY <1>1, <1>3 DEF TypeOK
    <2> QED BY <1>1, <2>1 DEF OffTrack
  <1>5. i = Len(handled) + 1 /\ Len(handled) \in Nat
    BY <1>1, <1>3, <1>4, NextPdu
  <1>6. /\ TypeOK' /\ PhaseInv' /\ At' = Ends[i]
        /\ open' /\ pc' = "idle" => Upto' = Ends[i]
        /\ handled' = Append(handled, i)
        /\ sent' = sent /\ junk' = junk
    BY <1>1, <1>2, <1>3, Consume
  <1>7. /\ Len(handled') = Len(handled) + 1
        /\ DOMAIN handled = 1..Len(handled) /\ DOMAIN handled' = 1..Len(handled')
        /\ \A j \in 1..Len(handled) : handled'[j] = handled[j]
        /\ handled'[Len(handled) + 1] = i
        /\ handled' # <<>>
    BY <1>1, <1>6, AppendProperties, EmptySeq DEF TypeOK
  <1>8. OnTrack'
    <2>1. \A j \in DOMAIN handled' : j \in DOMAIN handled \/ j = i
      BY <1>5, <1>7
    <2>2. \A j \in DOMAIN handled' : handled'[j] = j
      BY <1>4, <1>5, <1>7, <2>1 DEF OnTrack
    <2> QED BY <1>5, <1>6, <1>7, <2>2 DEF OnTrack
  <1>9. HandledInOrder'
    BY <1>8 DEF OnTrack, HandledInOrder
  <1>10. RestInv'
    <2>1. ASSUME open', pc' = "idle"
          PROVE  (\A k \in Pdu : ~Here(k))'
      <3>1. At' \in Nat /\ Upto' = At'
        BY <1>3, <1>6, <2>1
      <3>2. \A k \in Pdu : Begin(k) = At' => ~(Ends[k] <= Upto')
        BY <3>1, Boundaries
      <3> QED BY <3>2 DEF Here, Begin, Pdu
    <2> QED BY <2>1 DEF RestInv
  <1> QED BY <1>4, <1>5, <1>6, <1>8, <1>9, <1>10 DEF IInv

\* Something nobody sent is handled.
LEMMA DecodeGarbageStep ==
    ASSUME IInv, EvnRecv, \A i \in Pdu : ~Here(i), DecodeGarbage
    PROVE  IInv' /\ \E j \in DOMAIN handled' : handled'[j] = Garbage
  <1>1. TypeOK /\ PhaseInv /\ HandledInOrder /\ (OnTrack \/ OffTrack)
    BY DEF IInv
  <1>2. open /\ pc = "recv" /\ UNCHANGED peer
    BY DEF EvnRecv
  <1> PICK b \in At + 1..Upto : (AtPdu(At) => b > sent) /\ EvnMsg(Garbage, b)
    BY DEF DecodeGarbage
  <1>3. /\ At \in Nat /\ Upto \in Nat /\ sent \in Nat /\ junk \in Nat
        /\ b \in Nat /\ At < b /\ b <= Upto /\ Upto <= sent + junk
    BY <1>1 DEF TypeOK, At, Upto
  <1>4. /\ b > sent
        /\ Len(handled) \in Nat
        /\ \A i \in Pdu : Ends[i] <= sent => i <= Len(handled)
    <2>1. Len(handled) \in Nat
      BY <1>1 DEF TypeOK
    <2>2. CASE OnTrack
      <3>1. b > sent
        BY <1>1, <2>2, NextPdu
      <3>2. \A i \in Pdu : Ends[i] <= sent => Ends[i] <= Upto
        BY <1>3, <3>1, Boundaries
      <3> QED BY <1>1, <2>1, <2>2, <3>1, <3>2, NoneLeft
    <2>3. CASE OffTrack
      BY <1>3, <2>1, <2>3 DEF OffTrack
    <2> QED BY <1>1, <2>2, <2>3
  <1>5. junk > 0
    BY <1>3, <1>4
  <1>6. /\ TypeOK' /\ PhaseInv' /\ At' = b
        /\ open' /\ pc' = "idle" => Upto' = b
        /\ handled' = Append(handled, Garbage)
        /\ sent' = sent /\ junk' = junk
    BY <1>1, <1>2, <1>3, Consume
  <1>7. /\ Len(handled') = Len(handled) + 1
        /\ DOMAIN handled = 1..Len(handled) /\ DOMAIN handled' = 1..Len(handled')
        /\ \A j \in 1..Len(handled) : handled'[j] = handled[j]
        /\ handled'[Len(handled) + 1] = Garbage
    BY <1>1, <1>6, AppendProperties DEF TypeOK
  <1>8. OffTrack'
    <2>1. \A i \in Pdu : Ends[i] <= sent => i <= Len(handled')
      BY <1>4, <1>7, Boundaries
    <2> QED BY <1>4, <1>5, <1>6, <2>1 DEF OffTrack, Pdu
  <1>9. HandledInOrder'
    <2>1. \A j \in DOMAIN handled' : j \in DOMAIN handled \/ j = Len(handled) + 1
      BY <1>4, <1>7
    <2>2. \A i \in Pdu : Ends[i] <= sent => i < Len(handled) + 1
      BY <1>4, Boundaries
    <2>3. \A j \in DOMAIN handled' :
             handled'[j] # j =>
                 handled'[j] = Garbage /\ \A i \in Pdu : Ends[i] <= sent => i < j
      BY <1>1, <1>7, <2>1, <2>2 DEF HandledInOrder
    <2> QED BY <1>5, <1>6, <2>3 DEF HandledInOrder, Pdu
  <1>10. RestInv'
    <2>1. ASSUME open', pc' = "idle"
          PROVE  (\A k \in Pdu : ~Here(k))'
      <3>1. At' \in Nat /\ Upto' = At'
        BY <1>3, <1>6, <2>1
      <3>2. \A k \in Pdu : Begin(k) = At' => ~(Ends[k] <= Upto')
        BY <3>1, Boundaries
      <3> QED BY <3>2 DEF Here, Begin, Pdu
    <2> QED BY <2>1 DEF RestInv
  <1>11. Len(handled) + 1 \in DOMAIN handled'
    BY <1>4, <1>7
  <1> QED BY <1>6, <1>7, <1>8, <1>9, <1>10, <1>11 DEF IInv

\* evnRecv() ends with nothing more decoded.
LEMMA ReturnStep ==
    ASSUME IInv, EvnRecv, \A i \in Pdu : ~Here(i), Malformed \/ Incomplete
    PROVE  IInv' /\ UNCHANGED <<sent, handled>>
  <1>1. TypeOK /\ PhaseInv /\ HandledInOrder /\ (OnTrack \/ OffTrack)
    BY DEF IInv
  <1>2. open /\ pc = "recv" /\ sent' = sent /\ junk' = junk
    BY DEF EvnRecv, peer
  <1>3. /\ base \in Nat /\ len \in Nat /\ used \in Nat /\ base + len <= sent + junk
        /\ used < len
    BY <1>1, <1>2 DEF TypeOK, PhaseInv
  <1>4. /\ handled' = handled /\ pc' = "idle"
        /\ open' \in BOOLEAN
        /\ base' \in Nat /\ len' \in Nat /\ used' \in Nat
        /\ base' + len' = base + len /\ base' + used' = base + used
        /\ used' <= len'
        /\ open' => used' = 0
    <2>1. CASE Malformed
      <3>1. /\ base' = base /\ len' = len /\ used' = used
            /\ open' = FALSE /\ pc' = "idle" /\ handled' = handled
        BY <2>1 DEF Malformed, Close
      <3>2. /\ base' \in Nat /\ len' \in Nat /\ used' \in Nat
            /\ base' + len' = base + len /\ base' + used' = base + used
            /\ used' <= len'
        <4>1. base' = base /\ len' = len /\ used' = used
          BY <3>1
        <4> QED BY <1>3, <4>1
      <3> QED BY <3>1, <3>2
    <2>2. CASE Incomplete
      <3>1. /\ base' = base + used /\ len' = len - used /\ used' = 0
            /\ open' = open /\ pc' = "idle" /\ handled' = handled
        BY <2>2 DEF Incomplete, Return
      <3> QED BY <1>2, <1>3, <3>1
    <2> QED BY <2>1, <2>2
  <1>5. At' = At /\ Upto' = Upto
    BY <1>4 DEF At, Upto
  <1>6. TypeOK'
    BY <1>1, <1>2, <1>3, <1>4 DEF TypeOK
  <1>7. PhaseInv'
    BY <1>4 DEF PhaseInv
  <1>8. HandledInOrder'
    BY <1>1, <1>2, <1>4 DEF HandledInOrder
  <1>9. OnTrack' \/ OffTrack'
    BY <1>1, <1>2, <1>4, <1>5 DEF OnTrack, OffTrack
  <1>10. RestInv'
    BY <1>2, <1>5 DEF RestInv, Here
  <1> QED BY <1>2, <1>4, <1>6, <1>7, <1>8, <1>9, <1>10 DEF IInv

\* What the peer sends leaves the read buffer within what was sent.
LEMMA SentMore ==
    ASSUME NEW a \in Nat, NEW b \in Nat, NEW c \in Nat, NEW d \in Nat, NEW e \in Nat,
           a + b <= c + d
    PROVE  /\ c < e => a + b <= e + d
           /\ d < e => a + b <= c + e
  OBVIOUS

LEMMA OtherSteps ==
    ASSUME IInv, Send \/ SendJunk \/ Recv \/ Lost \/ UNCHANGED vars
    PROVE  /\ IInv'
           /\ handled' = handled
           /\ sent' \in Nat /\ sent <= sent'
           /\ open' => open
  <1>1. TypeOK /\ PhaseInv /\ HandledInOrder /\ (OnTrack \/ OffTrack) /\ RestInv
    BY DEF IInv
  <1>2. CASE Send
    <2> PICK i \in Pdu : sent' \in sent + 1..Ends[i]
      BY <1>2 DEF Send
    <2>1. Ends[i] \in Nat /\ sent \in Nat /\ junk \in Nat
      BY <1>1, Boundaries DEF TypeOK
    <2>2. sent' \in Nat /\ sent < sent' /\ UNCHANGED <<open, pc, base, len, used, handled, junk>> /\ junk = 0
      BY <1>2, <2>1 DEF Send
    <2>3. TypeOK'
      <3>1. base + len <= sent + junk /\ base \in Nat /\ len \in Nat
        BY <1>1 DEF TypeOK
      <3>2. sent' \in Nat /\ sent < sent'
        BY <2>2
      <3>3. base + len <= sent' + junk
        BY <2>1, <3>1, <3>2, SentMore
      <3> QED BY <1>1, <2>2, <3>3 DEF TypeOK
    <2>4. PhaseInv'
      BY <1>1, <2>2 DEF PhaseInv
    <2>5. HandledInOrder'
      BY <1>1, <2>2 DEF HandledInOrder
    <2>6. OnTrack'
      BY <1>1, <2>2 DEF OnTrack, OffTrack, At
    <2>7. RestInv'
      <3>1. Upto <= sent /\ Upto \in Nat /\ Upto' = Upto /\ At' = At
        BY <1>1, <2>1, <2>2 DEF TypeOK, Upto, At
      <3>2. \A k \in Pdu : Ends[k] <= Upto => Ends[k] <= sent
        BY <2>1, <3>1, Boundaries
      <3> QED BY <1>1, <2>2, <3>1, <3>2 DEF RestInv, Here, Begin, Pdu
    <2> QED BY <2>1, <2>2, <2>3, <2>4, <2>5, <2>6, <2>7 DEF IInv
  <1>3. CASE SendJunk
    <2>1. /\ junk' \in junk + 1..MaxJunk /\ junk \in Nat /\ sent \in Nat
          /\ UNCHANGED <<open, pc, base, len, used, handled, sent>>
      BY <1>1, <1>3 DEF SendJunk, TypeOK
    <2>2. junk' \in Nat /\ junk < junk'
      BY <2>1, TcpChannelAssumption
    <2>3. TypeOK'
      <3>1. base + len <= sent + junk /\ base \in Nat /\ len \in Nat
        BY <1>1 DEF TypeOK
      <3>2. junk \in Nat /\ sent \in Nat
        BY <2>1
      <3>3. base + len <= sent + junk'
        BY <2>2, <3>1, <3>2, SentMore
      <3> QED BY <1>1, <2>1, <2>2, <3>3 DEF TypeOK
    <2>4. PhaseInv'
      BY <1>1, <2>1 DEF PhaseInv
    <2>5. HandledInOrder'
      BY <1>1, <2>1, <2>2 DEF HandledInOrder
    <2>6. OnTrack' \/ OffTrack'
      BY <1>1, <2>1, <2>2 DEF OnTrack, OffTrack, At
    <2>7. RestInv'
      BY <1>1, <2>1 DEF RestInv, Here, At, Upto
    <2> QED BY <2>1, <2>3, <2>4, <2>5, <2>6, <2>7 DEF IInv
  <1>4. CASE Recv
    <2>1. /\ len' \in len + 1..sent + junk - base
          /\ len \in Nat /\ base \in Nat /\ used \in Nat /\ sent \in Nat /\ junk \in Nat
          /\ open /\ pc = "idle" /\ pc' = "recv"
          /\ UNCHANGED <<open, base, used, handled, sent, junk>>
      BY <1>1, <1>4 DEF Recv, TypeOK, peer
    <2>2. len' \in Nat /\ len < len' /\ base + len' <= sent + junk
      <3>1. \A k \in len + 1..sent + junk - base : k \in Nat /\ len < k /\ base + k <= sent + junk
        BY <2>1
      <3> QED BY <2>1, <3>1
    <2>3. used <= len /\ used < len'
      <3>1. used <= len
        BY <1>1 DEF TypeOK
      <3>2. used \in Nat /\ len \in Nat /\ len' \in Nat /\ len < len'
        BY <2>1, <2>2
      <3> QED BY <3>1, <3>2
    <2>4. TypeOK'
      <3>1. used' = used /\ base' = base /\ sent' = sent /\ junk' = junk
        BY <2>1
      <3>2. used' \in Nat /\ used' <= len'
        BY <2>1, <2>3, <3>1
      <3>3. base' + len' <= sent' + junk'
        BY <2>2, <3>1
      <3> QED BY <1>1, <2>1, <2>2, <3>2, <3>3 DEF TypeOK
    <2>5. PhaseInv'
      BY <1>1, <2>1, <2>3 DEF PhaseInv
    <2>6. HandledInOrder'
      BY <1>1, <2>1 DEF HandledInOrder
    <2>7. OnTrack' \/ OffTrack'
      BY <1>1, <2>1 DEF OnTrack, OffTrack, At
    <2>8. RestInv'
      BY <2>1 DEF RestInv
    <2> QED BY <2>1, <2>4, <2>5, <2>6, <2>7, <2>8 DEF IInv
  <1>5. CASE Lost
    <2>1. ~open' /\ open' \in BOOLEAN /\ UNCHANGED <<pc, base, len, used, handled, sent, junk>>
      BY <1>5 DEF Lost, peer
    <2>2. sent \in Nat
      BY <1>1 DEF TypeOK
    <2> QED BY <1>1, <2>1, <2>2
        DEF IInv, TypeOK, PhaseInv, HandledInOrder, OnTrack, OffTrack, RestInv, At
  <1>6. CASE UNCHANGED vars
    <2>1. sent \in Nat
      BY <1>1 DEF TypeOK
    <2> QED BY <1>1, <1>6, <2>1
        DEF IInv, TypeOK, PhaseInv, HandledInOrder, OnTrack, OffTrack, RestInv,
            Here, At, Upto, vars, peer
  <1> QED BY <1>2, <1>3, <1>4, <1>5, <1>6

\* A call of evnRecv() takes one of three ways.
LEMMA Ways ==
    ASSUME EvnRecv
    PROVE  \/ \E i \in Pdu : Here(i) /\ EvnMsg(i, Ends[i])
           \/ (\A i \in Pdu : ~Here(i)) /\ (DecodeGarbage \/ Malformed \/ Incomplete)
  BY DEF EvnRecv, DecodePdu

-----------------------------------------------------------------------------
(* The theorems.                                                           *)

LEMMA Initially == Init => IInv
  <1> SUFFICES ASSUME Init PROVE IInv
    OBVIOUS
  <1>1. /\ open = TRUE /\ pc = "idle" /\ base = 0 /\ len = 0 /\ used = 0
        /\ sent = 0 /\ junk = 0 /\ handled = <<>>
    BY DEF Init
  <1>2. At = 0 /\ Upto = 0
    BY <1>1 DEF At, Upto
  <1>3. RestInv
    <2>1. \A i \in Pdu : ~(Ends[i] <= 0)
      BY Boundaries
    <2> QED BY <1>2, <2>1 DEF RestInv, Here
  <1>4. handled \in Seq(Pdu \cup {Garbage}) /\ DOMAIN handled = {}
    BY <1>1
  <1> QED BY <1>1, <1>2, <1>3, <1>4
      DEF IInv, TypeOK, PhaseInv, HandledInOrder, OnTrack

\* IInv holds in every state.
LEMMA Inductive == Spec => []IInv
  <1>1. IInv /\ [Next]_vars => IInv'
    <2> SUFFICES ASSUME IInv, [Next]_vars PROVE IInv'
      OBVIOUS
    <2>1. CASE EvnRecv
      BY <2>1, Ways, DecodePduStep, DecodeGarbageStep, ReturnStep
    <2>2. CASE Send \/ SendJunk \/ Recv \/ Lost \/ UNCHANGED vars
      BY <2>2, OtherSteps
    <2> QED BY <2>1, <2>2 DEF Next
  <1> QED BY <1>1, Initially, PTL DEF Spec

(* The state is well typed for any PDUs and reads: what evnRecv() uses is never more
   than it was given, so that the branch that logs "it`s a bug" is never taken, and what
   it keeps is what was sent and not used. *)
THEOREM TypeCorrect == Spec => []TypeOK
  <1>1. IInv => TypeOK
    BY DEF IInv
  <1> QED BY <1>1, Inductive, PTL

(* However the stream is cut into reads, PDUs are handled in order, each once, none
   skipped, and nothing else before all of them. *)
THEOREM InOrder == Spec => []HandledInOrder
  <1>1. IInv => HandledInOrder
    BY DEF IInv
  <1> QED BY <1>1, Inductive, PTL

(* Between two calls of evnRecv() no PDU that has arrived waits in the read buffer. *)
THEOREM NothingWaits == Spec => []NoneKept
  <1>1. IInv => NoneKept
    <2> SUFFICES ASSUME IInv, open, pc = "idle", NEW i \in Pdu, Ends[i] <= sent, Ends[i] <= Upto
                 PROVE  \E j \in DOMAIN handled : handled[j] = i
      BY DEF NoneKept
    <2>1. TypeOK /\ HandledInOrder /\ (OnTrack \/ OffTrack) /\ \A k \in Pdu : ~Here(k)
      BY DEF IInv, RestInv
    <2>2. CASE OnTrack
      BY <2>1, <2>2, NoneLeft, NextPdu
    <2>3. CASE OffTrack
      <3>1. i <= Len(handled) /\ i \in Nat \ {0} /\ Len(handled) \in Nat
        BY <2>1, <2>3, Boundaries DEF OffTrack, TypeOK
      <3>2. i \in DOMAIN handled
        BY <2>1, <3>1 DEF TypeOK
      <3>3. handled[i] = i
        BY <2>1, <3>1, <3>2 DEF HandledInOrder
      <3> QED BY <3>2, <3>3
    <2> QED BY <2>1, <2>2, <2>3
  <1> QED BY <1>1, Inductive, PTL

\* A step of the channel is a step of the abstract stream, or none.
LEMMA StreamStep ==
    ASSUME IInv, [Next]_vars
    PROVE  [Stream!Next]_(Stream!streamVars)
  <1> DEFINE complete == {i \in Pdu : Ends[i] <= sent}
             over == ~open \/ \E j \in DOMAIN handled : handled[j] = Garbage
  <1>1. SUFFICES ASSUME ~over'
                 PROVE  [Stream!Next]_(Stream!streamVars)
    BY DEF Stream!Next
  <1>2. sent \in Nat /\ handled \in Seq(Pdu \cup {Garbage}) /\ \A i \in Pdu : Ends[i] \in Nat
    BY Boundaries DEF IInv, TypeOK
  <1>3. CASE Send \/ SendJunk \/ Recv \/ Lost \/ UNCHANGED vars
    <2>1. handled' = handled /\ sent' \in Nat /\ sent <= sent' /\ (open' => open)
      BY <1>3, OtherSteps
    <2>2. complete \subseteq complete'
      BY <1>2, <2>1
    <2>3. ~over
      BY <1>1, <2>1
    <2> QED BY <1>1, <2>1, <2>2, <2>3 DEF Stream!Next, Stream!Send
  <1>4. ASSUME EvnRecv, NEW i \in Pdu, Here(i), EvnMsg(i, Ends[i])
        PROVE  Stream!Deliver
    <2>1. i = Len(handled) + 1 /\ handled' = Append(handled, i) /\ sent' = sent
      BY <1>4, DecodePduStep
    <2>2. /\ DOMAIN handled = 1..Len(handled) /\ DOMAIN handled' = 1..Len(handled')
          /\ Len(handled) \in Nat /\ Len(handled') = Len(handled) + 1
          /\ \A j \in 1..Len(handled) : handled'[j] = handled[j]
      BY <1>2, <2>1, AppendProperties
    <2>3. ~over
      <3>1. open
        BY <1>4 DEF EvnRecv
      <3>2. \A j \in DOMAIN handled : j \in DOMAIN handled' /\ handled'[j] = handled[j]
        BY <2>2
      <3> QED BY <1>1, <3>1, <3>2
    <2>4. i \in complete /\ complete' = complete
      BY <1>4, <2>1 DEF Here
    <2> QED BY <1>1, <2>1, <2>3, <2>4 DEF Stream!Deliver
  <1>5. CASE EvnRecv
    <2>1. CASE \E i \in Pdu : Here(i) /\ EvnMsg(i, Ends[i])
      BY <1>4, <1>5, <2>1 DEF Stream!Next
    <2>2. CASE (\A i \in Pdu : ~Here(i)) /\ DecodeGarbage
      BY <1>1, <1>5, <2>2, DecodeGarbageStep
    <2>3. CASE (\A i \in Pdu : ~Here(i)) /\ (Malformed \/ Incomplete)
      <3>1. UNCHANGED <<sent, handled>> /\ open
        BY <1>5, <2>3, ReturnStep DEF EvnRecv
      <3> QED BY <1>1, <3>1 DEF Stream!streamVars
    <2> QED BY <1>5, <2>1, <2>2, <2>3, Ways
  <1> QED BY <1>3, <1>5 DEF Next

(* For any PDUs and any reads evnRecv() implements the abstract stream, until the
   connection is closed or the peer has sent what is no PDU. *)
THEOREM ImplementsStream == Spec => StreamSpec
  <1>1. Init => Stream!Init
    <2> SUFFICES ASSUME Init PROVE Stream!Init
      OBVIOUS
    <2>1. {i \in Pdu : Ends[i] <= sent} = {}
      BY Boundaries DEF Init
    <2>2. ~\E j \in DOMAIN handled : handled[j] = Garbage
      BY DEF Init
    <2> QED BY <2>1, <2>2 DEF Init, Stream!Init
  <1>2. IInv /\ [Next]_vars => [Stream!Next]_(Stream!streamVars)
    BY StreamStep
  <1> QED BY <1>1, <1>2, Inductive, PTL DEF Spec, StreamSpec, Stream!Spec
=============================================================================
