-------------------- MODULE XmsgImWebSocketChannelProofs --------------------
(***************************************************************************)
(* Proofs about XmsgImWebSocketChannel, for any PDUs, frames and reads.    *)
(***************************************************************************)
EXTENDS XmsgImWebSocketChannel, SequenceTheorems, TLAPS

-----------------------------------------------------------------------------
(* The invariant.                                                          *)

\* Every frame under way begins where the one before it ended.
WireInv ==
    /\ \A j \in 1..Len(wire) : wire[j].from + wire[j].n <= sent
    /\ \A j \in 1..Len(wire) - 1 : wire[j + 1].from = wire[j].from + wire[j].n
    /\ wire # <<>> => wire[Len(wire)].from + wire[Len(wire)].n = sent

\* Until the handshake is done it is all that is under way.
HandshakeInv ==
    ~hs =>
        /\ sync /\ pc # "pdu"
        /\ sent = 0 /\ at = 0 /\ cached = 0 /\ handled = <<>>
        /\ Len(wire) = 1 /\ wire[1].from = 0 /\ wire[1].n = 0

\* decodeXscPdu() works on a frame that has arrived, and goes forward from the
\* first cached byte at the earliest to the end of the frame at the latest.
PhaseInv ==
    /\ pc = "pdu" =>
          /\ sync /\ hs
          /\ wire # <<>> /\ wire[1].op = "data"
          /\ arrived >= Size(wire[1])
          /\ wire[1].from <= at + cached
          /\ at <= wire[1].from + wire[1].n
    /\ cached <= NextByte
    /\ pc # "pdu" /\ open => at + cached <= NextByte

\* What was handled is behind the decoder.
BehindInv ==
    open => \A j \in DOMAIN handled :
                handled[j] # Garbage => Ends[handled[j]] <= at

TidyFrame(f) ==
    f.op = "data" /\ f.n <= MaxPayload /\ (AtPdu(f.from) \/ AtPdu(f.from + f.n))

\* While the peer is tidy, a frame is cached only up to the middle of a PDU, so
\* the frame that follows ends one and nothing is left of it.
TidyInv ==
    open /\ tidy =>
        /\ hs => \A j \in 1..Len(wire) : TidyFrame(wire[j])
        /\ cached > 0 => ~AtPdu(NextByte)

Basic == TypeOK /\ WireInv /\ HandshakeInv /\ PhaseInv

Order == BehindInv /\ HandledInOrder

Tidiness == TidyInv /\ Accounted

IInv == Basic /\ Order /\ Tidiness

-----------------------------------------------------------------------------
(* The stream and the frames under way.                                    *)

\* A PDU ends behind its beginning, and begins where the one before it ends.
LEMMA Boundaries ==
    /\ \A i \in Pdu : i \in Nat \ {0} /\ Ends[i] \in Nat \ {0} /\ Begin(i) \in Nat /\ Begin(i) < Ends[i]
    /\ \A i, k \in Pdu : Begin(i) = Ends[k] => i = k + 1
    /\ \A i \in Pdu : Begin(i) = 0 => i = 1
    /\ \A i \in Pdu : AtPdu(Begin(i))
    /\ \A k, m \in Pdu : Ends[k] < Ends[m] => k + 1 \in Pdu /\ Ends[k + 1] <= Ends[m]
    /\ \A m \in Pdu : 1 \in Pdu /\ Ends[1] <= Ends[m]
    /\ \A k, m \in Pdu : Ends[k] < Ends[m] => k < m
  <1>1. /\ Len(Ends) \in Nat
        /\ Pdu = 1..Len(Ends)
        /\ \A i \in 1..Len(Ends) : Ends[i] \in Nat \ {0}
        /\ \A i, j \in 1..Len(Ends) : i < j => Ends[i] < Ends[j]
    BY WebSocketAssumption DEF Pdu
  <1>2. \A i \in Pdu : /\ i \in Nat \ {0}
                       /\ i # 1 => i - 1 \in Pdu /\ Ends[i - 1] < Ends[i]
    BY <1>1
  <1>3. \A i \in Pdu : Ends[i] \in Nat \ {0} /\ Begin(i) \in Nat /\ Begin(i) < Ends[i]
    BY <1>1, <1>2 DEF Begin
  <1>4. \A i, k \in Pdu : Begin(i) = Ends[k] => i = k + 1
    <2>1. SUFFICES ASSUME NEW i \in Pdu, NEW k \in Pdu, Begin(i) = Ends[k]
                   PROVE  i = k + 1
      OBVIOUS
    <2>2. i # 1 /\ Ends[i - 1] = Ends[k] /\ i - 1 \in Pdu
      BY <1>1, <1>2, <2>1 DEF Begin
    <2>3. ~(i - 1 < k) /\ ~(k < i - 1)
      BY <1>1, <2>2
    <2> QED BY <1>1, <2>2, <2>3
  <1>5. \A i \in Pdu : Begin(i) = 0 => i = 1
    BY <1>1, <1>2 DEF Begin
  <1>6. \A i \in Pdu : AtPdu(Begin(i))
    BY <1>2 DEF Begin, AtPdu
  <1>7. \A k, m \in Pdu : Ends[k] < Ends[m] => k < m /\ k + 1 \in Pdu /\ Ends[k + 1] <= Ends[m]
    <2>1. SUFFICES ASSUME NEW k \in Pdu, NEW m \in Pdu, Ends[k] < Ends[m]
                   PROVE  k < m /\ k + 1 \in Pdu /\ Ends[k + 1] <= Ends[m]
      OBVIOUS
    <2>2. k < m
      BY <1>1, <2>1
    <2>3. k + 1 \in Pdu /\ (k + 1 = m \/ k + 1 < m)
      BY <1>1, <2>2
    <2>4. Ends[k + 1] <= Ends[m]
      BY <1>1, <2>3
    <2> QED BY <2>2, <2>3, <2>4
  <1>8. \A m \in Pdu : 1 \in Pdu /\ Ends[1] <= Ends[m]
    <2>1. SUFFICES ASSUME NEW m \in Pdu
                   PROVE  1 \in Pdu /\ Ends[1] <= Ends[m]
      OBVIOUS
    <2>2. 1 \in Pdu /\ (m = 1 \/ 1 < m)
      BY <1>1
    <2> QED BY <1>1, <2>2
  <1> QED BY <1>2, <1>3, <1>4, <1>5, <1>6, <1>7, <1>8

\* The first frame under way begins at the next byte.
LEMMA First ==
    ASSUME TypeOK, wire # <<>>
    PROVE  /\ Head(wire) = wire[1] /\ wire[1] \in Frame /\ Len(wire) \in Nat \ {0}
           /\ NextByte = wire[1].from /\ wire[1].from \in Nat /\ wire[1].n \in Nat
           /\ Upto = wire[1].from + wire[1].n
           /\ Size(wire[1]) \in Nat
  <1>1. wire \in Seq(Frame) /\ Head(wire) = wire[1] /\ wire[1] \in Frame /\ Len(wire) \in Nat \ {0}
    BY HeadTailProperties, EmptySeq DEF TypeOK
  <1>2. wire[1].from \in Nat /\ wire[1].n \in Nat
    BY <1>1 DEF Frame
  <1> QED BY <1>1, <1>2 DEF NextByte, Upto, Size, HeaderSize, Long

\* Taking the first frame moves the next byte to its end.
LEMMA TakeFrame ==
    ASSUME TypeOK, WireInv, wire # <<>>, wire' = Tail(wire), UNCHANGED sent
    PROVE  /\ wire' \in Seq(Frame)
           /\ WireInv'
           /\ NextByte' = wire[1].from + wire[1].n
           /\ \A j \in 1..Len(wire') : j + 1 \in 1..Len(wire) /\ wire'[j] = wire[j + 1]
  <1>1. /\ wire' \in Seq(Frame) /\ Len(wire') = Len(wire) - 1
        /\ \A j \in 1..Len(wire') : wire'[j] = wire[j + 1]
        /\ Len(wire) \in Nat \ {0}
    BY HeadTailProperties, EmptySeq DEF TypeOK
  <1>2. wire' = <<>> <=> Len(wire') = 0
    BY <1>1, EmptySeq
  <1>3. \A j \in 1..Len(wire') : j + 1 \in 1..Len(wire) /\ wire'[j] = wire[j + 1]
    BY <1>1
  <1>4. NextByte' = wire[1].from + wire[1].n
    <2>1. CASE Len(wire') = 0
      BY <1>1, <1>2, <2>1 DEF NextByte, WireInv
    <2>2. CASE Len(wire') # 0
      <3>1. 1 \in 1..Len(wire) - 1 /\ 1 \in 1..Len(wire') /\ wire' # <<>>
        BY <1>1, <1>2, <2>2
      <3>2. Head(wire') = wire'[1]
        BY <1>1, <3>1, HeadTailProperties
      <3> QED BY <1>3, <3>1, <3>2 DEF NextByte, WireInv
    <2> QED BY <2>1, <2>2
  <1>5. \A j \in 1..Len(wire') : wire'[j].from + wire'[j].n <= sent
    BY <1>3 DEF WireInv
  <1>6. \A j \in 1..Len(wire') - 1 : wire'[j + 1].from = wire'[j].from + wire'[j].n
    <2>1. \A j \in 1..Len(wire') - 1 : /\ j \in 1..Len(wire') /\ j + 1 \in 1..Len(wire')
                                       /\ j + 1 \in 1..Len(wire) - 1
      BY <1>1
    <2> QED BY <1>3, <2>1 DEF WireInv
  <1>7. wire' # <<>> => wire'[Len(wire')].from + wire'[Len(wire')].n = sent
    <2>1. wire' # <<>> => Len(wire') \in 1..Len(wire') /\ Len(wire') + 1 = Len(wire)
      BY <1>1, <1>2
    <2> QED BY <1>3, <2>1 DEF WireInv
  <1> QED BY <1>1, <1>3, <1>4, <1>5, <1>6, <1>7 DEF WireInv

\* Sending a frame moves the next byte nowhere.
LEMMA PutFrame ==
    ASSUME TypeOK, WireInv, NEW f \in Frame, f.from = sent,
           wire' = Append(wire, f), sent' = sent + f.n
    PROVE  /\ wire' \in Seq(Frame)
           /\ WireInv'
           /\ NextByte' = NextByte
           /\ wire' # <<>>
           /\ wire # <<>> => wire'[1] = wire[1]
           /\ \A j \in 1..Len(wire') : IF j \in 1..Len(wire) THEN wire'[j] = wire[j] ELSE wire'[j] = f
  <1>1. /\ wire' \in Seq(Frame) /\ Len(wire') = Len(wire) + 1 /\ Len(wire) \in Nat
        /\ wire'[Len(wire) + 1] = f
        /\ \A j \in 1..Len(wire) : wire'[j] = wire[j]
    BY AppendProperties DEF TypeOK
  <1>2. /\ wire' # <<>> /\ Head(wire') = wire'[1]
        /\ wire = <<>> <=> Len(wire) = 0
        /\ wire # <<>> => Head(wire) = wire[1]
    BY <1>1, EmptySeq, HeadTailProperties DEF TypeOK
  <1>3. /\ \A j \in 1..Len(wire') : j \in 1..Len(wire) \/ j = Len(wire) + 1
        /\ wire # <<>> => 1 \in 1..Len(wire) /\ Len(wire) \in 1..Len(wire)
        /\ \A j \in 1..Len(wire') - 1 : 
              /\ j \in 1..Len(wire)
              /\ \/ j + 1 \in 1..Len(wire) /\ j \in 1..Len(wire) - 1
                 \/ j = Len(wire) /\ wire # <<>>
    BY <1>1, <1>2
  <1>4. sent \in Nat /\ f.n \in Nat /\ \A j \in 1..Len(wire) : wire[j].from \in Nat /\ wire[j].n \in Nat
    <2>1. \A j \in 1..Len(wire) : wire[j] \in Frame
      BY DEF TypeOK
    <2> QED BY <2>1 DEF TypeOK, Frame
  <1>5. NextByte' = NextByte
    BY <1>1, <1>2, <1>3 DEF NextByte
  <1>6. \A j \in 1..Len(wire') : wire'[j].from + wire'[j].n <= sent'
    BY <1>1, <1>3, <1>4 DEF WireInv
  <1>7. \A j \in 1..Len(wire') - 1 : wire'[j + 1].from = wire'[j].from + wire'[j].n
    BY <1>1, <1>3, <1>4 DEF WireInv
  <1>8. wire'[Len(wire')].from + wire'[Len(wire')].n = sent'
    BY <1>1, <1>4
  <1>9. WireInv'
    BY <1>6, <1>7, <1>8 DEF WireInv
  <1> QED BY <1>1, <1>2, <1>3, <1>5, <1>9

-----------------------------------------------------------------------------
(* The kinds of step.                                                      *)

Answer ==
    /\ open /\ pc = "frame" /\ ~hs
    /\ hs' = TRUE
    /\ pc' = "idle"
    /\ wire' = Tail(wire)
    /\ arrived' = 0
    /\ UNCHANGED <<open, sync, at, cached, handled, Peer>>

GarbagePdu ==
    /\ DecodingPdu
    /\ ~AtPdu(at)
    /\ \E b \in at + 1..Upto : EvnMsg(Garbage, b)
    /\ UNCHANGED <<open, pc>>

AstrayPdu ==
    /\ open /\ ~sync /\ pc = "frame"
    /\ EvnMsg(Garbage, at)
    /\ UNCHANGED <<open, pc>>

\* Many actions only close the connection or wait for more.
LEMMA Kinds ==
    ASSUME Next
    PROVE  \/ SendData
           \/ \E op \in {"control", "refused"} : SendOther(op)
           \/ Recv \/ Close \/ (pc = "frame" /\ Wait) \/ Answer \/ SkipControl
           \/ DecodeFrame \/ DecodePdu \/ GarbagePdu \/ EndFrame \/ AstrayPdu
  <1>1. CASE CheckHandShake
    BY <1>1 DEF CheckHandShake, Answer
  <1>2. CASE NoHead
    BY <1>2 DEF NoHead
  <1>3. CASE Refuse \/ LengthNotThere \/ Oversize \/ Incomplete
    BY <1>3 DEF Refuse, LengthNotThere, Oversize, Incomplete, Fits, Decoding
  <1>4. CASE DecodeGarbage
    BY <1>4 DEF DecodeGarbage, GarbagePdu
  <1>5. CASE Astray
    BY <1>5 DEF Astray, AstrayPdu
  <1> QED BY <1>1, <1>2, <1>3, <1>4, <1>5 DEF Next, Decode

\* The frame that is sent, its type, and its size.
LEMMA SentFrame ==
    ASSUME TypeOK, NEW op \in {"data", "control", "refused"}, NEW n \in Nat, Send(op, n)
    PROVE  \E f \in Frame : /\ f = [op |-> op, from |-> sent, n |-> n]
                            /\ f.from = sent /\ f.n = n /\ f.op = op
                            /\ wire' = Append(wire, f) /\ sent' = sent + f.n
                            /\ inflight' \in Nat /\ sent' \in Nat
  <1> DEFINE f == [op |-> op, from |-> sent, n |-> n]
  <1>1. f \in Frame /\ f.from = sent /\ f.n = n /\ f.op = op
    BY DEF Frame, TypeOK
  <1>2. Size(f) \in Nat
    BY <1>1 DEF Size, HeaderSize
  <1>3. wire' = Append(wire, f) /\ sent' = sent + n /\ inflight' = inflight + Size(f)
    BY DEF Send
  <1>4. inflight' \in Nat /\ sent' \in Nat
    BY <1>2, <1>3 DEF TypeOK
  <1> HIDE DEF f
  <1> QED BY <1>1, <1>3, <1>4 DEF f

-----------------------------------------------------------------------------
(* Types, frames and phases.                                               *)

LEMMA BasicInit == ASSUME Init PROVE Basic
  <1> PICK o \in {"request", "refused"} : wire = <<[op |-> o, from |-> 0, n |-> 0]>>
    BY DEF Init
  <1> DEFINE f == [op |-> o, from |-> 0, n |-> 0]
  <1>1. f \in Frame /\ f.from = 0 /\ f.n = 0
    BY DEF Frame
  <1>2. wire = <<f>>
    OBVIOUS
  <1> HIDE DEF f
  <1>3. wire \in Seq(Frame) /\ Len(wire) = 1 /\ wire[1] = f /\ wire # <<>> /\ Head(wire) = f
    BY <1>1, <1>2
  <1>4. handled \in Seq(Pdu \cup {Garbage})
    BY DEF Init
  <1>5. TypeOK
    BY <1>3, <1>4 DEF Init, TypeOK
  <1>6. WireInv
    BY <1>1, <1>3 DEF Init, WireInv
  <1>7. HandshakeInv
    BY <1>1, <1>3 DEF Init, HandshakeInv
  <1>8. PhaseInv
    BY <1>1, <1>3 DEF Init, PhaseInv, NextByte
  <1> QED BY <1>5, <1>6, <1>7, <1>8 DEF Basic

\* A frame is sent.
LEMMA BasicSend ==
    ASSUME Basic, NEW op \in {"data", "control", "refused"}, NEW n \in Nat, Send(op, n),
           tidy' \in BOOLEAN
    PROVE  Basic'
  <1> USE DEF Basic
  <1> PICK f \in Frame : /\ f.from = sent
                         /\ wire' = Append(wire, f) /\ sent' = sent + f.n
                         /\ inflight' \in Nat /\ sent' \in Nat
    BY SentFrame
  <1>1. /\ wire' \in Seq(Frame) /\ WireInv' /\ NextByte' = NextByte /\ wire' # <<>>
        /\ wire # <<>> => wire'[1] = wire[1]
    BY PutFrame
  <1>2. hs /\ hs' /\ UNCHANGED <<open, hs, sync, pc, at, cached, arrived, handled>>
    BY DEF Send
  <1>3. TypeOK'
    BY <1>1, <1>2 DEF TypeOK
  <1>4. HandshakeInv'
    BY <1>2 DEF HandshakeInv
  <1>5. PhaseInv'
    BY <1>1, <1>2 DEF PhaseInv, Size, HeaderSize, Long
  <1> QED BY <1>1, <1>3, <1>4, <1>5

\* The connection is closed, or more is awaited.
LEMMA BasicStay ==
    ASSUME Basic, Close \/ (pc = "frame" /\ Wait)
    PROVE  Basic'
  <1> USE DEF Basic
  <1>1. UNCHANGED <<hs, sync, at, cached, wire, arrived, handled, Peer>> /\ pc' = "idle"
    BY DEF Close, Wait
  <1>2. open' \in BOOLEAN /\ (open' => open /\ pc = "frame")
    <2>1. CASE Close
      BY <2>1 DEF Close
    <2>2. CASE pc = "frame" /\ Wait
      BY <2>2 DEF Wait, TypeOK
    <2> QED BY <2>1, <2>2
  <1>3. NextByte' = NextByte
    BY <1>1 DEF NextByte, Peer
  <1>4. TypeOK'
    BY <1>1, <1>2 DEF TypeOK, Peer
  <1>5. WireInv' /\ HandshakeInv'
    BY <1>1 DEF WireInv, HandshakeInv, Peer
  <1>6. PhaseInv'
    BY <1>1, <1>2, <1>3 DEF PhaseInv
  <1> QED BY <1>4, <1>5, <1>6

\* evnMsg() is given what the bytes before `used` were decoded to.
LEMMA BasicMsg ==
    ASSUME Basic, NEW p \in Pdu \cup {Garbage}, NEW used \in Nat, EvnMsg(p, used),
           open' \in BOOLEAN, pc' \in {pc, "idle"}, open' => open /\ pc' = pc, hs,
           at <= used,
           pc = "pdu" => used <= wire[1].from + wire[1].n,
           pc # "pdu" => used = at
    PROVE  Basic'
  <1> USE DEF Basic
  <1>1. /\ handled' = Append(handled, p) /\ at' = used
        /\ UNCHANGED <<hs, sync, cached, wire, arrived, Peer>>
    BY DEF EvnMsg
  <1>2. handled' \in Seq(Pdu \cup {Garbage})
    BY <1>1, AppendProperties DEF TypeOK
  <1>3. NextByte' = NextByte
    BY <1>1 DEF NextByte, Peer
  <1>4. TypeOK'
    BY <1>1, <1>2 DEF TypeOK, Peer
  <1>5. WireInv' /\ HandshakeInv'
    BY <1>1 DEF WireInv, HandshakeInv, Peer
  <1>6. PhaseInv'
    <2>1. CASE pc' = "pdu"
      <3>1. pc = "pdu" /\ wire # <<>>
        BY <2>1 DEF PhaseInv
      <3>2. wire[1].from \in Nat
        BY <3>1, First
      <3>3. wire[1].from <= used + cached
        BY <3>1, <3>2 DEF PhaseInv, TypeOK
      <3> QED BY <1>1, <1>3, <2>1, <3>1, <3>3 DEF PhaseInv, Size, HeaderSize, Long
    <2>2. CASE pc' # "pdu"
      BY <1>1, <1>3, <2>2 DEF PhaseInv
    <2> QED BY <2>1, <2>2
  <1> QED BY <1>4, <1>5, <1>6

\* decodeFrameBinary() is done with a frame and caches the last n bytes, at most
\* those it has not used.
LEMMA BasicNextFrame ==
    ASSUME Basic, DecodingPdu, NEW n \in Nat, NextFrame(n), at + n <= Upto,
           open' \in BOOLEAN, sync' \in BOOLEAN
    PROVE  Basic' /\ NextByte' = Upto
  <1> USE DEF Basic
  <1>1. pc = "pdu" /\ open /\ hs /\ wire # <<>> /\ arrived >= Size(wire[1])
    BY DEF DecodingPdu, PhaseInv
  <1>2. /\ Head(wire) = wire[1] /\ Size(wire[1]) \in Nat
        /\ Upto = wire[1].from + wire[1].n /\ Upto \in Nat
    BY <1>1, First
  <1>3. /\ cached' = n /\ pc' = "frame" /\ wire' = Tail(wire)
        /\ arrived' = arrived - Size(wire[1])
        /\ UNCHANGED <<hs, at, handled, Peer>>
    BY <1>2 DEF NextFrame, Consumed
  <1>4. sent' = sent
    BY <1>3 DEF Peer
  <1>5. wire' \in Seq(Frame) /\ WireInv' /\ NextByte' = Upto
    BY <1>1, <1>2, <1>3, <1>4, TakeFrame
  <1>6. arrived' \in Nat
    BY <1>1, <1>2, <1>3 DEF TypeOK
  <1>7. TypeOK'
    BY <1>3, <1>5, <1>6 DEF TypeOK, Peer
  <1>8. HandshakeInv'
    BY <1>1, <1>3 DEF HandshakeInv
  <1>9. PhaseInv'
    BY <1>2, <1>3, <1>5 DEF PhaseInv, TypeOK
  <1> QED BY <1>5, <1>7, <1>8, <1>9

LEMMA BasicStep == ASSUME Basic, [Next]_vars PROVE Basic'
  <1>1. CASE SendData
    <2> PICK n \in 1..MaxFrame : /\ Send("data", n)
                                 /\ tidy' = (tidy /\ n <= MaxPayload /\ (AtPdu(sent) \/ AtPdu(sent + n)))
      BY <1>1 DEF SendData
    <2>1. n \in Nat
      BY WebSocketAssumption
    <2> QED BY <2>1, BasicSend
  <1>2. ASSUME NEW op \in {"control", "refused"}, SendOther(op)
        PROVE  Basic'
    BY <1>2, BasicSend DEF SendOther
  <1>3. CASE Recv
    <2> PICK k \in 1..inflight : inflight' = inflight - k /\ arrived' = arrived + k
      BY <1>3 DEF Recv
    <2>1. inflight' \in Nat /\ arrived' \in Nat
      BY DEF Basic, TypeOK
    <2>2. /\ pc = "idle" /\ pc' = "frame"
          /\ UNCHANGED <<open, hs, sync, at, cached, wire, sent, handled, tidy>>
      BY <1>3 DEF Recv
    <2>3. NextByte' = NextByte
      BY <2>2 DEF NextByte
    <2> QED BY <2>1, <2>2, <2>3 DEF Basic, TypeOK, WireInv, HandshakeInv, PhaseInv
  <1>4. CASE Close \/ (pc = "frame" /\ Wait)
    BY <1>4, BasicStay
  <1>5. CASE Answer
    <2> USE DEF Basic
    <2>1. wire # <<>> /\ sent = 0 /\ at = 0 /\ cached = 0 /\ wire[1].from = 0 /\ wire[1].n = 0
      BY <1>5 DEF Answer, HandshakeInv
    <2>2. wire' = Tail(wire) /\ hs' /\ pc' = "idle" /\ arrived' = 0
          /\ UNCHANGED <<open, sync, at, cached, handled, inflight, sent, tidy>>
      BY <1>5 DEF Answer, Peer
    <2>3. wire' \in Seq(Frame) /\ WireInv' /\ NextByte' = 0
      BY <2>1, <2>2, TakeFrame
    <2>4. TypeOK'
      BY <1>5, <2>2, <2>3 DEF TypeOK, Answer
    <2>5. HandshakeInv' /\ PhaseInv'
      BY <2>1, <2>2, <2>3 DEF HandshakeInv, PhaseInv
    <2> QED BY <2>3, <2>4, <2>5
  <1>6. CASE SkipControl
    <2> USE DEF Basic
    <2>1. hs /\ pc = "frame" /\ wire # <<>> /\ arrived > 0
      BY <1>6 DEF SkipControl, Decoding
    <2>2. wire' = Tail(wire) /\ sync' = FALSE /\ arrived' = arrived - 1
          /\ UNCHANGED <<open, hs, pc, at, cached, handled, inflight, sent, tidy>>
      BY <1>6 DEF SkipControl, Peer
    <2>3. wire' \in Seq(Frame) /\ WireInv' /\ NextByte' = wire[1].from + wire[1].n
      BY <2>1, <2>2, TakeFrame
    <2>4. NextByte = wire[1].from /\ wire[1].from \in Nat /\ wire[1].n \in Nat
      BY <2>1, First
    <2>5. TypeOK'
      <3>1. arrived' \in Nat
        BY <2>1, <2>2 DEF TypeOK
      <3>2. sync' \in BOOLEAN
        BY <2>2
      <3> QED BY <2>2, <2>3, <3>1, <3>2 DEF TypeOK
    <2>6. HandshakeInv'
      BY <2>1, <2>2 DEF HandshakeInv
    <2>7. cached' <= NextByte' /\ (open' => at' + cached' <= NextByte')
      BY <2>1, <2>2, <2>3, <2>4 DEF PhaseInv, TypeOK
    <2>8. PhaseInv'
      BY <2>1, <2>2, <2>7 DEF PhaseInv
    <2> QED BY <2>3, <2>5, <2>6, <2>8
  <1>7. CASE DecodeFrame
    <2> USE DEF Basic
    <2>1. /\ open /\ hs /\ sync /\ pc = "frame" /\ wire # <<>>
          /\ Head(wire).op = "data" /\ arrived >= Size(Head(wire))
      BY <1>7 DEF DecodeFrame, Fits, Decoding, Complete
    <2>2. Head(wire) = wire[1] /\ NextByte = wire[1].from /\ wire[1].from \in Nat /\ wire[1].n \in Nat
      BY <2>1, First
    <2>3. /\ at' = wire[1].from - cached /\ pc' = "pdu"
          /\ UNCHANGED <<open, hs, sync, cached, wire, arrived, handled, inflight, sent, tidy>>
      BY <1>7, <2>2 DEF DecodeFrame, Peer
    <2>4. at' \in Nat /\ at' + cached = wire[1].from /\ at' <= wire[1].from + wire[1].n
      BY <2>2, <2>3 DEF PhaseInv, TypeOK
    <2>5. TypeOK'
      BY <2>3, <2>4 DEF TypeOK
    <2>6. WireInv' /\ HandshakeInv' /\ NextByte' = NextByte
      BY <2>1, <2>3 DEF WireInv, HandshakeInv, NextByte
    <2>7. wire[1].op = "data" /\ arrived >= Size(wire[1])
      BY <2>1, <2>2
    <2>8. PhaseInv'
      BY <2>1, <2>2, <2>3, <2>4, <2>6, <2>7 DEF PhaseInv
    <2> QED BY <2>5, <2>6, <2>8
  <1>8. CASE DecodePdu
    <2> PICK i \in Pdu : /\ Here(i)
                         /\ EvnMsg(i, Ends[i])
                         /\ \/ UNCHANGED <<open, pc>>
                            \/ open' = FALSE /\ pc' = "idle"
      BY <1>8 DEF DecodePdu
    <2>1. pc = "pdu" /\ open /\ hs /\ wire # <<>>
      BY <1>8 DEF DecodePdu, DecodingPdu, Basic, PhaseInv
    <2>2. Upto = wire[1].from + wire[1].n
      BY <2>1, First DEF Basic
    <2>3. Ends[i] \in Nat /\ at <= Ends[i] /\ Ends[i] <= wire[1].from + wire[1].n
      BY <2>2, Boundaries DEF Here
    <2>4. open' \in BOOLEAN /\ pc' \in {pc, "idle"} /\ (open' => open /\ pc' = pc)
      BY <2>1
    <2> QED BY <2>1, <2>3, <2>4, BasicMsg
  <1>9. CASE GarbagePdu
    <2> PICK b \in at + 1..Upto : EvnMsg(Garbage, b)
      BY <1>9 DEF GarbagePdu
    <2>1. pc = "pdu" /\ open /\ hs /\ wire # <<>> /\ UNCHANGED <<open, pc>>
      BY <1>9 DEF GarbagePdu, DecodingPdu, Basic, PhaseInv
    <2>2. Upto = wire[1].from + wire[1].n /\ wire[1].from \in Nat /\ wire[1].n \in Nat
      BY <2>1, First DEF Basic
    <2>3. b \in Nat /\ at <= b /\ b <= wire[1].from + wire[1].n
      BY <2>2 DEF Basic, TypeOK
    <2> QED BY <2>1, <2>3, BasicMsg
  <1>10. CASE EndFrame
    <2>1. DecodingPdu /\ (NothingLeft \/ CacheRest \/ EraseRest)
      BY <1>10 DEF EndFrame
    <2>2. Upto \in Nat /\ at \in Nat /\ open \in BOOLEAN /\ sync \in BOOLEAN
      BY <2>1, First DEF DecodingPdu, Basic, PhaseInv, TypeOK
    <2>3. CASE NothingLeft
      <3>1. NextFrame(0) /\ at + 0 <= Upto /\ open' \in BOOLEAN /\ sync' \in BOOLEAN
        BY <2>2, <2>3 DEF NothingLeft
      <3> QED BY <2>1, <3>1, BasicNextFrame
    <2>4. CASE CacheRest
      <3>1. /\ NextFrame(Upto - at) /\ Upto - at \in Nat /\ at + (Upto - at) <= Upto
            /\ open' \in BOOLEAN /\ sync' \in BOOLEAN
        BY <2>2, <2>4 DEF CacheRest
      <3> QED BY <2>1, <3>1, BasicNextFrame
    <2>5. CASE EraseRest
      <3>1. NextFrame(0) /\ at < Upto
        BY <2>5 DEF EraseRest
      <3>2. at + 0 <= Upto
        BY <2>2, <3>1
      <3>3. open' \in BOOLEAN /\ sync' \in BOOLEAN
        BY <2>2, <2>5 DEF EraseRest
      <3> QED BY <2>1, <3>1, <3>2, <3>3, BasicNextFrame
    <2> QED BY <2>1, <2>3, <2>4, <2>5
  <1>11. CASE AstrayPdu
    <2>1. /\ pc = "frame" /\ UNCHANGED <<open, pc>> /\ EvnMsg(Garbage, at)
          /\ at \in Nat /\ open \in BOOLEAN
      BY <1>11 DEF AstrayPdu, Basic, TypeOK
    <2>2. CASE hs
      BY <2>1, <2>2, BasicMsg
    <2>3. CASE ~hs
      BY <1>11, <2>3 DEF AstrayPdu, Basic, HandshakeInv
    <2> QED BY <2>2, <2>3
  <1>12. CASE UNCHANGED vars
    BY <1>12 DEF vars, worker, Basic, TypeOK, WireInv, HandshakeInv, PhaseInv, NextByte
  <1> QED
    BY <1>1, <1>2, <1>3, <1>4, <1>5, <1>6, <1>7, <1>8, <1>9, <1>10, <1>11, <1>12, Kinds

-----------------------------------------------------------------------------
(* The order in which PDUs are handled.                                    *)

\* Nothing is handled, and the decoder does not go back.
LEMMA OrderKept ==
    ASSUME Basic, Order, UNCHANGED handled, sent' \in Nat, sent' >= sent,
           open' => open /\ at' \in Nat /\ at' >= at
    PROVE  Order'
  <1>1. \A j \in DOMAIN handled : handled[j] # Garbage => handled[j] \in Pdu
    BY DEF Basic, TypeOK
  <1>2. \A i \in Pdu : Ends[i] \in Nat
    BY Boundaries
  <1>3. at \in Nat /\ sent \in Nat
    BY DEF Basic, TypeOK
  <1>4. BehindInv'
    BY <1>1, <1>2, <1>3 DEF Order, BehindInv
  <1>5. HandledInOrder'
    BY <1>1, <1>2, <1>3 DEF Order, HandledInOrder
  <1> QED BY <1>4, <1>5 DEF Order

\* p is given to evnMsg(): garbage, or the PDU that begins at the decoder.
LEMMA OrderMsg ==
    ASSUME Basic, Order, open, NEW p \in Pdu \cup {Garbage}, NEW used \in Nat,
           EvnMsg(p, used), at <= used,
           p # Garbage => Begin(p) = at /\ Ends[p] = used /\ used <= sent
    PROVE  Order'
  <1>1. /\ handled' = Append(handled, p) /\ at' = used /\ sent' = sent
    BY DEF EvnMsg, Peer
  <1> DEFINE n == Len(handled)
  <1>2. /\ n \in Nat /\ DOMAIN handled = 1..n /\ DOMAIN handled' = 1..n + 1
        /\ handled'[n + 1] = p
        /\ \A j \in 1..n : handled'[j] = handled[j]
    BY <1>1, AppendProperties DEF Basic, TypeOK
  <1>3. \A j \in 1..n : handled[j] \in Pdu \cup {Garbage}
    BY DEF Basic, TypeOK
  <1> HIDE DEF n
  <1>4. \A i \in Pdu : Ends[i] \in Nat /\ i \in Nat \ {0} /\ Begin(i) < Ends[i]
    BY Boundaries
  <1>5. at \in Nat /\ sent \in Nat
    BY DEF Basic, TypeOK
  <1>6. \A j \in 1..n : handled[j] # Garbage => Ends[handled[j]] <= at
    BY <1>2 DEF Order, BehindInv
  <1>7. \A j \in 1..n + 1 : handled'[j] # Garbage => Ends[handled'[j]] <= used
    <2>1. SUFFICES ASSUME NEW j \in 1..n + 1, handled'[j] # Garbage
                   PROVE  Ends[handled'[j]] <= used
      OBVIOUS
    <2>2. CASE j = n + 1
      BY <1>2, <1>4, <2>1, <2>2
    <2>3. CASE j \in 1..n
      BY <1>2, <1>3, <1>4, <1>5, <1>6, <2>1, <2>3
    <2> QED BY <1>2, <2>2, <2>3
  <1>8. BehindInv'
    BY <1>1, <1>2, <1>7 DEF BehindInv
  <1>9. p # Garbage => \A k \in 1..n : handled[k] < p
    <2>1. SUFFICES ASSUME p # Garbage, NEW k \in 1..n
                   PROVE  handled[k] < p
      OBVIOUS
    <2>2. CASE handled[k] = Garbage
      BY <1>4, <2>1, <2>2 DEF Garbage
    <2>3. CASE handled[k] # Garbage
      <3>1. handled[k] \in Pdu /\ p \in Pdu /\ Ends[handled[k]] < Ends[p]
        BY <1>3, <1>4, <1>5, <1>6, <2>1, <2>3
      <3> QED BY <3>1, Boundaries
    <2> QED BY <2>2, <2>3
  <1>10. HandledInOrder'
    <2>1. SUFFICES ASSUME NEW j \in 1..n + 1, handled'[j] # Garbage
                   PROVE  /\ Ends[handled'[j]] <= sent
                          /\ \A k \in 1..n + 1 : k < j => handled'[k] < handled'[j]
      BY <1>1, <1>2 DEF HandledInOrder
    <2>2. CASE j = n + 1
      <3>1. \A k \in 1..n + 1 : k < j => k \in 1..n
        BY <1>2, <2>2
      <3> QED BY <1>2, <1>9, <2>1, <2>2, <3>1
    <2>3. CASE j \in 1..n
      <3>1. \A k \in 1..n + 1 : k < j => k \in 1..n
        BY <1>2, <2>3
      <3> QED BY <1>2, <2>1, <2>3, <3>1 DEF Order, HandledInOrder
    <2> QED BY <1>2, <2>2, <2>3
  <1> QED BY <1>8, <1>10 DEF Order

\* The frame decodeXscPdu() works on was sent.
LEMMA UptoSent ==
    ASSUME Basic, DecodingPdu
    PROVE  /\ wire # <<>> /\ Head(wire) = wire[1]
           /\ Upto = wire[1].from + wire[1].n /\ Upto \in Nat /\ Upto <= sent
           /\ NextByte = wire[1].from /\ wire[1].from \in Nat
           /\ wire[1].from <= at + cached /\ at <= Upto /\ hs /\ sync
  <1>1. wire # <<>> /\ hs /\ sync /\ wire[1].from <= at + cached /\ at <= wire[1].from + wire[1].n
    BY DEF Basic, PhaseInv, DecodingPdu
  <1>2. /\ Head(wire) = wire[1] /\ 1 \in 1..Len(wire) /\ NextByte = wire[1].from
        /\ wire[1].from \in Nat /\ wire[1].n \in Nat
        /\ Upto = wire[1].from + wire[1].n
    BY <1>1, First DEF Basic
  <1>3. wire[1].from + wire[1].n <= sent
    BY <1>2 DEF Basic, WireInv
  <1> QED BY <1>1, <1>2, <1>3

LEMMA OrderStep == ASSUME Basic, Order, [Next]_vars PROVE Order'
  <1> at \in Nat /\ sent \in Nat /\ cached \in Nat
    BY DEF Basic, TypeOK
  <1>1. CASE SendData
    <2> PICK n \in 1..MaxFrame : Send("data", n)
      BY <1>1 DEF SendData
    <2>1. n \in Nat
      BY WebSocketAssumption
    <2> QED BY <2>1, OrderKept DEF Send
  <1>2. ASSUME NEW op \in {"control", "refused"}, SendOther(op)
        PROVE  Order'
    BY <1>2, OrderKept DEF SendOther, Send
  <1>3. CASE Recv \/ Answer \/ SkipControl \/ Close \/ (pc = "frame" /\ Wait)
    BY <1>3, OrderKept DEF Recv, Answer, SkipControl, Decoding, Close, Wait, Peer
  <1>4. CASE DecodeFrame
    <2>1. wire # <<>> /\ open /\ pc = "frame"
      BY <1>4 DEF DecodeFrame, Fits, Decoding
    <2>2. NextByte = Head(wire).from /\ Head(wire).from \in Nat
      BY <2>1, First DEF Basic
    <2>3. at + cached <= Head(wire).from /\ cached <= Head(wire).from
      BY <2>1, <2>2 DEF Basic, PhaseInv
    <2>4. at' = Head(wire).from - cached /\ UNCHANGED <<handled, sent, open>>
      BY <1>4 DEF DecodeFrame, Peer
    <2>5. at' \in Nat /\ at' >= at
      BY <2>2, <2>3, <2>4
    <2> QED BY <2>1, <2>4, <2>5, OrderKept
  <1>5. CASE DecodePdu
    <2> PICK i \in Pdu : Here(i) /\ EvnMsg(i, Ends[i])
      BY <1>5 DEF DecodePdu
    <2>1. open /\ Upto <= sent /\ Upto \in Nat
      BY <1>5, UptoSent DEF DecodePdu, DecodingPdu
    <2>2. Ends[i] \in Nat /\ Begin(i) = at /\ at <= Ends[i] /\ Ends[i] <= sent
      BY <2>1, Boundaries DEF Here
    <2> QED BY <2>1, <2>2, OrderMsg
  <1>6. CASE GarbagePdu
    <2> PICK b \in at + 1..Upto : EvnMsg(Garbage, b)
      BY <1>6 DEF GarbagePdu
    <2>1. open /\ Upto \in Nat
      BY <1>6, UptoSent DEF GarbagePdu, DecodingPdu
    <2>2. b \in Nat /\ at <= b
      BY <2>1
    <2> QED BY <2>1, <2>2, OrderMsg
  <1>7. CASE EndFrame
    <2>1. open /\ UNCHANGED <<at, handled, sent>>
      BY <1>7 DEF EndFrame, DecodingPdu, NothingLeft, CacheRest, EraseRest, NextFrame, Peer
    <2> QED BY <2>1, OrderKept
  <1>8. CASE AstrayPdu
    BY <1>8, OrderMsg DEF AstrayPdu
  <1>9. CASE UNCHANGED vars
    BY <1>9, OrderKept DEF vars, worker
  <1> QED BY <1>1, <1>2, <1>3, <1>4, <1>5, <1>6, <1>7, <1>8, <1>9, Kinds

-----------------------------------------------------------------------------
(* A tidy peer loses nothing.                                              *)

\* The decoder is at the end of the last PDU handled; the next one begins there.
LEMMA NextPdu ==
    ASSUME Basic, Accounted, open, tidy
    PROVE  /\ AtPdu(at)
           /\ \A i \in Pdu : Begin(i) = at => i = Len(handled) + 1
           /\ \A m \in Pdu : at < Ends[m] => \E i \in Pdu : Begin(i) = at /\ Ends[i] <= Ends[m]
  <1>1. Len(handled) \in Nat /\ (handled = <<>> <=> Len(handled) = 0)
    BY EmptySeq DEF Basic, TypeOK
  <1>2. CASE handled = <<>>
    <2>1. at = 0
      BY <1>2 DEF Accounted
    <2>2. Begin(1) = 0
      BY DEF Begin
    <2> QED BY <1>1, <1>2, <2>1, <2>2, Boundaries DEF AtPdu
  <1>3. CASE handled # <<>>
    <2> DEFINE k == Len(handled)
    <2>1. k \in 1..k /\ k \in DOMAIN handled /\ handled[k] \in Pdu \cup {Garbage}
      BY <1>1, <1>3 DEF Basic, TypeOK
    <2>2. handled[k] = k /\ at = Ends[k]
      BY <1>3, <2>1 DEF Accounted
    <2>3. k \in Pdu
      BY <1>1, <1>3, <2>1, <2>2 DEF Garbage
    <2> HIDE DEF k
    <2>4. Begin(k + 1) = Ends[k]
      BY <2>3, Boundaries DEF Begin
    <2> QED BY <2>2, <2>3, <2>4, Boundaries DEF AtPdu, k
  <1> QED BY <1>2, <1>3

\* If no PDU is there as a whole, none ends in what is left of the frame.
LEMMA NoneEnds ==
    ASSUME Basic, Accounted, open, tidy, at \in Nat, Upto \in Nat, at < Upto,
           \A i \in Pdu : ~Here(i)
    PROVE  ~AtPdu(Upto)
  <1>1. SUFFICES ASSUME AtPdu(Upto)
                 PROVE  FALSE
    OBVIOUS
  <1>2. PICK m \in Pdu : Ends[m] = Upto
    BY <1>1 DEF AtPdu
  <1>3. PICK i \in Pdu : Begin(i) = at /\ Ends[i] <= Ends[m]
    BY <1>2, NextPdu
  <1> QED BY <1>2, <1>3 DEF Here

\* Nothing is handled, cached or taken.
LEMMA TidyKept ==
    ASSUME Tidiness, open' => open, tidy' => tidy,
           open' => UNCHANGED <<hs, sync, at, cached, wire, handled, sent>>,
           open' /\ pc' # "pdu" => pc # "pdu"
    PROVE  Tidiness'
  <1>1. SUFFICES ASSUME open', tidy'
                 PROVE  Tidiness'
    BY DEF Tidiness, TidyInv, Accounted
  <1>2. open /\ tidy /\ UNCHANGED <<hs, sync, at, cached, wire, handled, sent>>
    BY <1>1
  <1>3. NextByte' = NextByte
    BY <1>2 DEF NextByte
  <1>4. TidyInv'
    BY <1>2, <1>3 DEF Tidiness, TidyInv
  <1>5. Accounted'
    BY <1>1, <1>2, <1>3 DEF Tidiness, Accounted
  <1> QED BY <1>4, <1>5 DEF Tidiness

LEMMA TidyStep == ASSUME IInv, [Next]_vars PROVE Tidiness'
  <1> USE DEF IInv
  <1>0. at \in Nat /\ sent \in Nat /\ cached \in Nat
    BY DEF Basic, TypeOK
  <1>1. CASE SendData
    <2> PICK n \in 1..MaxFrame : /\ Send("data", n)
                                 /\ tidy' = (tidy /\ n <= MaxPayload /\ (AtPdu(sent) \/ AtPdu(sent + n)))
      BY <1>1 DEF SendData
    <2>1. n \in Nat
      BY WebSocketAssumption
    <2>2. PICK f \in Frame : /\ f.from = sent /\ f.n = n /\ f.op = "data"
                             /\ wire' = Append(wire, f) /\ sent' = sent + f.n
      BY <2>1, SentFrame DEF Basic
    <2>3. /\ NextByte' = NextByte
          /\ \A j \in 1..Len(wire') :
                IF j \in 1..Len(wire) THEN wire'[j] = wire[j] ELSE wire'[j] = f
      BY <2>2, PutFrame DEF Basic
    <2>4. UNCHANGED <<open, hs, sync, pc, at, cached, arrived, handled>> /\ hs
      BY DEF Send
    <2>5. SUFFICES ASSUME open', tidy'
                   PROVE  Tidiness'
      BY DEF Tidiness, TidyInv, Accounted
    <2>6. tidy /\ TidyFrame(f)
      BY <2>2, <2>5 DEF TidyFrame
    <2>7. \A j \in 1..Len(wire') : TidyFrame(wire'[j])
      BY <2>3, <2>4, <2>5, <2>6 DEF Tidiness, TidyInv
    <2>8. TidyInv'
      BY <2>3, <2>4, <2>5, <2>6, <2>7 DEF Tidiness, TidyInv, TidyFrame, AtPdu
    <2>9. Accounted'
      BY <2>3, <2>4, <2>5, <2>6 DEF Tidiness, Accounted
    <2> QED BY <2>8, <2>9 DEF Tidiness
  <1>2. ASSUME NEW op \in {"control", "refused"}, SendOther(op)
        PROVE  Tidiness'
    BY <1>2 DEF SendOther, Tidiness, TidyInv, Accounted
  <1>3. CASE Recv \/ Close \/ (pc = "frame" /\ Wait)
    BY <1>3, TidyKept DEF Recv, Close, Wait, Peer
  <1>4. CASE Answer
    <2>1. SUFFICES ASSUME open', tidy'
                   PROVE  Tidiness'
      BY DEF Tidiness, TidyInv, Accounted
    <2>2. /\ open /\ tidy /\ wire' = Tail(wire)
          /\ UNCHANGED <<sync, at, cached, handled, sent>>
      BY <1>4, <2>1 DEF Answer, Peer
    <2>3. /\ sync /\ sent = 0 /\ at = 0 /\ cached = 0 /\ handled = <<>>
          /\ Len(wire) = 1 /\ wire[1].from = 0 /\ wire[1].n = 0
      BY <1>4 DEF Answer, Basic, HandshakeInv
    <2>4. wire # <<>>
      <3>1. Len(<<>>) = 0
        OBVIOUS
      <3>2. wire = <<>> => Len(wire) = 0
        BY <3>1
      <3> QED BY <2>3, <3>2
    <2>5. NextByte' = 0 /\ \A j \in 1..Len(wire') : j + 1 \in 1..Len(wire)
      BY <2>2, <2>3, <2>4, TakeFrame DEF Basic
    <2>6. (\A j \in 1..Len(wire) : TidyFrame(wire[j]))'
      <3>1. \A j \in 1..Len(wire') : FALSE
        BY <2>3, <2>5
      <3> QED BY <3>1
    <2>7. TidyInv'
      <3>1. ~(cached' > 0)
        BY <2>2, <2>3
      <3> QED BY <2>6, <3>1 DEF TidyInv
    <2>8. Accounted'
      BY <2>2, <2>3, <2>5 DEF Accounted
    <2> QED BY <2>7, <2>8 DEF Tidiness
  <1>5. CASE SkipControl
    <2>1. hs /\ open /\ wire # <<>> /\ Head(wire).op = "control" /\ tidy' = tidy
      BY <1>5 DEF SkipControl, Decoding, Peer
    <2>2. Head(wire) = wire[1] /\ 1 \in 1..Len(wire)
      BY <2>1, First DEF Basic
    <2>3. ~tidy
      BY <2>1, <2>2 DEF Tidiness, TidyInv, TidyFrame
    <2> QED BY <2>1, <2>3 DEF Tidiness, TidyInv, Accounted
  <1>6. CASE DecodeFrame
    <2>1. SUFFICES ASSUME open', tidy'
                   PROVE  Tidiness'
      BY DEF Tidiness, TidyInv, Accounted
    <2>2. /\ open /\ tidy /\ pc = "frame" /\ pc' = "pdu" /\ wire # <<>>
          /\ at' = Head(wire).from - cached
          /\ UNCHANGED <<hs, sync, cached, wire, handled, sent>>
      BY <1>6, <2>1 DEF DecodeFrame, Fits, Decoding, Peer
    <2>3. NextByte = Head(wire).from /\ NextByte' = NextByte
      BY <2>2 DEF NextByte
    <2>4. at + cached = NextByte
      BY <2>2 DEF Tidiness, Accounted
    <2>5. at' = at
      BY <1>0, <2>2, <2>3, <2>4
    <2>6. TidyInv'
      BY <2>2, <2>3 DEF Tidiness, TidyInv, TidyFrame, AtPdu
    <2>7. Accounted'
      BY <2>2, <2>5 DEF Tidiness, Accounted
    <2> QED BY <2>6, <2>7 DEF Tidiness
  <1>7. CASE DecodePdu
    <2> PICK i \in Pdu : /\ Here(i)
                         /\ EvnMsg(i, Ends[i])
                         /\ \/ UNCHANGED <<open, pc>>
                            \/ open' = FALSE /\ pc' = "idle"
      BY <1>7 DEF DecodePdu
    <2>1. SUFFICES ASSUME open', tidy'
                   PROVE  Tidiness'
      BY DEF Tidiness, TidyInv, Accounted
    <2>2. /\ open /\ tidy /\ pc = "pdu" /\ pc' = "pdu"
          /\ handled' = Append(handled, i) /\ at' = Ends[i]
          /\ UNCHANGED <<hs, sync, cached, wire, sent>>
      BY <1>7, <2>1 DEF EvnMsg, Peer, DecodePdu, DecodingPdu
    <2>3. Accounted
      BY DEF Tidiness
    <2>4. i = Len(handled) + 1
      BY <2>2, <2>3, NextPdu DEF Here
    <2>5. /\ Len(handled) \in Nat /\ handled' # <<>> /\ Len(handled') = i
          /\ DOMAIN handled = 1..Len(handled) /\ DOMAIN handled' = 1..Len(handled) + 1
          /\ handled'[i] = i
          /\ \A j \in 1..Len(handled) : handled'[j] = handled[j]
      BY <2>2, <2>4, AppendProperties DEF Basic, TypeOK
    <2>6. \A j \in DOMAIN handled' : handled'[j] = j
      <3>1. \A j \in DOMAIN handled' : j \in DOMAIN handled \/ j = i
        BY <2>4, <2>5
      <3> QED BY <2>2, <2>3, <2>5, <3>1 DEF Accounted
    <2>7. NextByte' = NextByte
      BY <2>2 DEF NextByte
    <2>8. TidyInv'
      BY <2>2, <2>7 DEF Tidiness, TidyInv, TidyFrame, AtPdu
    <2>9. Accounted'
      BY <2>2, <2>3, <2>5, <2>6 DEF Accounted
    <2> QED BY <2>8, <2>9 DEF Tidiness
  <1>8. CASE GarbagePdu
    <2>1. open /\ open' = open /\ tidy' = tidy /\ ~AtPdu(at)
      BY <1>8 DEF GarbagePdu, DecodingPdu, EvnMsg, Peer
    <2>2. ~tidy
      BY <2>1, NextPdu DEF Tidiness
    <2> QED BY <2>1, <2>2 DEF Tidiness, TidyInv, Accounted
  <1>9. CASE EndFrame
    <2>1. SUFFICES ASSUME open', tidy'
                   PROVE  Tidiness'
      BY DEF Tidiness, TidyInv, Accounted
    <2>2. /\ DecodingPdu /\ open /\ tidy /\ pc = "pdu" /\ \A i \in Pdu : ~Here(i)
          /\ pc' = "frame" /\ wire' = Tail(wire)
          /\ UNCHANGED <<hs, at, handled, sent>>
      BY <1>9, <2>1 DEF EndFrame, DecodingPdu, NothingLeft, CacheRest, EraseRest, NextFrame, Peer
    <2>3. /\ wire # <<>> /\ Head(wire) = wire[1] /\ hs /\ sync
          /\ Upto = wire[1].from + wire[1].n /\ Upto \in Nat
          /\ NextByte = wire[1].from /\ at <= Upto
      BY <2>2, UptoSent
    <2>4. /\ NextByte' = Upto
          /\ \A j \in 1..Len(wire') : j + 1 \in 1..Len(wire) /\ wire'[j] = wire[j + 1]
      BY <2>2, <2>3, TakeFrame DEF Basic
    <2>5. \A j \in 1..Len(wire') : TidyFrame(wire'[j])
      BY <2>2, <2>3, <2>4 DEF Tidiness, TidyInv
    <2>6. at < Upto => ~AtPdu(Upto)
      BY <1>0, <2>2, <2>3, NoneEnds DEF Tidiness
    <2>7. at < Upto => ~(cached > 0)
      <3>1. SUFFICES ASSUME at < Upto, cached > 0
                     PROVE  FALSE
        OBVIOUS
      <3>2. TidyFrame(wire[1]) /\ ~AtPdu(wire[1].from)
        <4>1. 1 \in 1..Len(wire)
          BY <2>3, First DEF Basic
        <4> QED BY <2>2, <2>3, <3>1, <4>1 DEF Tidiness, TidyInv
      <3>3. AtPdu(Upto)
        BY <2>3, <3>2 DEF TidyFrame
      <3> QED BY <2>6, <3>1, <3>3
    <2>8. sync' /\ at + cached' = Upto /\ (cached' > 0 => ~AtPdu(Upto))
      <3>1. CASE NothingLeft
        <4>1. cached' = 0 /\ sync' = sync /\ at = Upto
          BY <3>1 DEF NothingLeft, NextFrame
        <4>2. ~(cached' > 0) /\ at + cached' = Upto
          BY <1>0, <4>1
        <4> QED BY <2>3, <4>1, <4>2
      <3>2. CASE CacheRest
        <4>1. cached' = Upto - at /\ sync' = sync /\ at < Upto
          BY <3>2 DEF CacheRest, NextFrame
        <4>2. at + cached' = Upto
          BY <1>0, <2>3, <4>1
        <4> QED BY <2>3, <2>6, <4>1, <4>2
      <3>3. CASE EraseRest
        BY <2>7, <3>3 DEF EraseRest
      <3> QED BY <1>9, <3>1, <3>2, <3>3 DEF EndFrame
    <2>9. TidyInv'
      <3>1. (~AtPdu(NextByte))' <=> ~AtPdu(Upto)
        BY <2>4 DEF AtPdu
      <3>2. (\A j \in 1..Len(wire) : TidyFrame(wire[j]))'
        BY <2>5 DEF TidyFrame, AtPdu
      <3> QED BY <2>8, <3>1, <3>2 DEF TidyInv
    <2>10. Accounted'
      BY <2>2, <2>4, <2>8 DEF Tidiness, Accounted
    <2> QED BY <2>9, <2>10 DEF Tidiness
  <1>10. CASE AstrayPdu
    <2>1. open /\ ~sync /\ open' = open /\ tidy' = tidy
      BY <1>10 DEF AstrayPdu, EvnMsg, Peer
    <2>2. ~tidy
      BY <2>1 DEF Tidiness, Accounted
    <2> QED BY <2>1, <2>2 DEF Tidiness, TidyInv, Accounted
  <1>11. CASE UNCHANGED vars
    BY <1>11, TidyKept DEF vars, worker
  <1> QED
    BY <1>1, <1>2, <1>3, <1>4, <1>5, <1>6, <1>7, <1>8, <1>9, <1>10, <1>11, Kinds

-----------------------------------------------------------------------------
(* The theorems.                                                           *)

LEMMA Initially == Init => IInv
  <1> SUFFICES ASSUME Init PROVE IInv
    OBVIOUS
  <1>1. Basic
    BY BasicInit
  <1>2. ~hs /\ at = 0 /\ cached = 0 /\ sent = 0 /\ handled = <<>> /\ sync
    BY DEF Init
  <1>3. NextByte = 0
    BY <1>2 DEF NextByte, Init
  <1>4. Order
    BY <1>2 DEF Order, BehindInv, HandledInOrder
  <1>5. TidyInv
    BY <1>2 DEF TidyInv
  <1>6. Accounted
    BY <1>2, <1>3 DEF Accounted
  <1> QED BY <1>1, <1>4, <1>5, <1>6 DEF IInv, Tidiness

\* IInv holds in every state.
LEMMA Inductive == Spec => []IInv
  <1>1. IInv /\ [Next]_vars => IInv'
    BY BasicStep, OrderStep, TidyStep DEF IInv
  <1> QED BY <1>1, Initially, PTL DEF Spec

(* The state is well typed for any PDUs, frames and reads; in particular decode()
   never uses more bytes than have arrived, so its `len` does not become negative. *)
THEOREM TypeCorrect == Spec => []TypeOK
  <1>1. IInv => TypeOK
    BY DEF IInv, Basic
  <1> QED BY <1>1, Inductive, PTL

(* Whatever the peer sends, a PDU is given to evnMsg() at most once, after those
   before it, and not before its last byte was sent. *)
THEOREM InOrder == Spec => []HandledInOrder
  <1>1. IInv => HandledInOrder
    BY DEF IInv, Order
  <1> QED BY <1>1, Inductive, PTL

(* While the peer is tidy every byte is either used or cached: decodeFrameBinary()
   never gets to the erase() of line 239. *)
THEOREM BytesAccounted == Spec => []Accounted
  <1>1. IInv => Accounted
    BY DEF IInv, Tidiness
  <1> QED BY <1>1, Inductive, PTL

(* A step of the decoder is a step of the abstract stream, or none. *)
LEMMA StreamStep ==
    ASSUME IInv, [Next]_vars
    PROVE  [Stream!Next]_(Stream!streamVars)
  <1> USE DEF IInv
  <1> DEFINE complete == {i \in Pdu : Ends[i] <= sent}
  <1>1. SUFFICES ASSUME open', tidy'
                 PROVE  [Stream!Next]_(Stream!streamVars)
    BY DEF Stream!Next
  <1>2. sent \in Nat /\ at \in Nat /\ \A i \in Pdu : Ends[i] \in Nat
    BY Boundaries DEF Basic, TypeOK
  <1>3. ASSUME open, tidy, UNCHANGED <<sent, handled>>
        PROVE  UNCHANGED Stream!streamVars
    BY <1>1, <1>3 DEF Stream!streamVars
  <1>4. ASSUME open, tidy, NEW n \in Nat, sent' = sent + n, UNCHANGED handled
        PROVE  Stream!Next
    <2>1. complete \subseteq complete'
      BY <1>2, <1>4
    <2> QED BY <1>1, <1>4, <2>1 DEF Stream!Next, Stream!Send
  <1>5. CASE SendData
    <2> PICK n \in 1..MaxFrame : Send("data", n) /\ (tidy' => tidy)
      BY <1>5 DEF SendData
    <2>1. n \in Nat
      BY WebSocketAssumption
    <2> QED BY <1>1, <1>4, <2>1 DEF Send
  <1>6. ASSUME NEW op \in {"control", "refused"}, SendOther(op)
        PROVE  FALSE
    BY <1>1, <1>6 DEF SendOther
  <1>7. CASE Recv \/ Close \/ (pc = "frame" /\ Wait) \/ Answer \/ SkipControl \/ DecodeFrame
    BY <1>1, <1>3, <1>7
    DEF Recv, Close, Wait, Answer, SkipControl, Decoding, DecodeFrame, Fits, Peer
  <1>8. CASE DecodePdu
    <2> PICK i \in Pdu : Here(i) /\ EvnMsg(i, Ends[i])
      BY <1>8 DEF DecodePdu
    <2>1. DecodingPdu /\ open /\ tidy /\ handled' = Append(handled, i) /\ sent' = sent
      BY <1>1, <1>8 DEF DecodePdu, DecodingPdu, EvnMsg, Peer
    <2>2. i = Len(handled) + 1
      BY <2>1, NextPdu DEF Here, Tidiness
    <2>3. Ends[i] <= sent
      <3>1. Upto <= sent /\ Upto \in Nat
        BY <2>1, UptoSent
      <3> QED BY <1>2, <3>1 DEF Here
    <2>4. Stream!Deliver
      BY <1>1, <2>1, <2>2, <2>3 DEF Stream!Deliver
    <2> QED BY <2>4 DEF Stream!Next
  <1>9. CASE GarbagePdu
    <2>1. open /\ tidy /\ ~AtPdu(at)
      BY <1>1, <1>9 DEF GarbagePdu, DecodingPdu, EvnMsg, Peer
    <2> QED BY <2>1, NextPdu DEF Tidiness
  <1>10. CASE EndFrame
    BY <1>1, <1>3, <1>10
    DEF EndFrame, DecodingPdu, NothingLeft, CacheRest, EraseRest, NextFrame, Peer
  <1>11. CASE AstrayPdu
    <2>1. open /\ tidy /\ ~sync
      BY <1>1, <1>11 DEF AstrayPdu, EvnMsg, Peer
    <2> QED BY <2>1 DEF Tidiness, Accounted
  <1>12. CASE UNCHANGED vars
    BY <1>1, <1>3, <1>12 DEF vars, worker
  <1> QED
    BY <1>5, <1>6, <1>7, <1>8, <1>9, <1>10, <1>11, <1>12, Kinds

(* For a tidy peer the decoder implements the abstract stream of PDUs, whatever
   the frames and the reads. *)
THEOREM ImplementsStream == Spec => StreamSpec
  <1>1. Init => Stream!Init
    <2> SUFFICES ASSUME Init PROVE Stream!Init
      OBVIOUS
    <2>1. {i \in Pdu : Ends[i] <= sent} = {}
      BY Boundaries DEF Init
    <2> QED BY <2>1 DEF Init, Stream!Init
  <1>2. IInv /\ [Next]_vars => [Stream!Next]_(Stream!streamVars)
    BY StreamStep
  <1> QED BY <1>1, <1>2, Inductive, PTL DEF Spec, StreamSpec, Stream!Spec
=============================================================================
