---------------------- MODULE XmsgImWebSocketChannel ----------------------
(***************************************************************************)
(* How an XmsgImWebSocketChannel turns the bytes it reads into PDUs: the   *)
(* handshake, the frames, and the PDUs that may span frames.               *)
(*                                                                         *)
(* The peer has a stream of PDUs to send, PDU i ending at byte Ends[i],    *)
(* and cuts it into frames as it likes.  A byte is its position in the     *)
(* stream, so a frame is the range of bytes it carries.  What is sent      *)
(* arrives in pieces of any size; each piece is one call of evnRecv(),     *)
(* and the worker takes the steps of its loops one by one.                 *)
(*                                                                         *)
(* Arrival is counted in units: one for the two bytes every frame begins   *)
(* with, one for the two bytes of a 16 bit length, one for each byte of    *)
(* payload (the first together with the mask before it), and two for       *)
(* anything that is no data frame.                                         *)
(***************************************************************************)
EXTENDS Naturals, Sequences

CONSTANTS Ends,        \* Ends[i]: the byte of the stream PDU i ends with
          Short,       \* longest payload whose length fits the second byte
          MaxPayload,  \* longest payload that fits the mtu of the worker
          MaxFrame,    \* bound: longest payload the peer sends
          MaxWire      \* bound: frames under way at once

ASSUME WebSocketAssumption ==
    /\ Ends \in Seq(Nat \ {0})
    /\ \A i, j \in DOMAIN Ends : i < j => Ends[i] < Ends[j]
    /\ Short \in Nat /\ MaxPayload \in Nat /\ MaxFrame \in Nat /\ MaxWire \in Nat

VARIABLES
    open,      \* the connection is there
    hs,        \* the handshake is done
    sync,      \* frames and PDUs are read where they begin
    pc,        \* "idle": no evnRecv(); in decode(): "frame"; in decodeXscPdu(): "pdu"
    at,        \* first byte of the stream decodeXscPdu() has not used
    cached,    \* number of bytes in cachedXscPdu, the last before the next frame
    wire,      \* what was sent and is not yet decoded
    inflight,  \* units of it that have not arrived
    arrived,   \* units of it in the read buffer
    sent,      \* number of bytes of the stream the peer has sent
    handled,   \* history: PDUs given to evnMsg()
    tidy       \* history: the peer kept to what the decoder supports

worker == <<open, hs, sync, pc, at, cached, wire, arrived, handled>>
vars == <<worker, inflight, sent, tidy>>

Pdu == DOMAIN Ends

\* A PDU decoded from bytes that are none.
Garbage == 0

Begin(i) == IF i = 1 THEN 0 ELSE Ends[i - 1]

AtPdu(b) == b = 0 \/ \E i \in Pdu : Ends[i] = b

\* "refused" stands for what its first two bytes condemn: a fragment, a frame
\* without mask, CLOSE, an unknown opcode, no payload or a 64 bit length; and
\* for a handshake without a key.
Frame == [op : {"request", "data", "control", "refused"}, from : Nat, n : Nat]

Long(f) == f.n > Short

HeaderSize(f) == IF Long(f) THEN 2 ELSE 1

Size(f) == IF f.op = "data" THEN HeaderSize(f) + f.n ELSE 2

Init ==
    /\ open = TRUE
    /\ hs = FALSE
    /\ sync = TRUE
    /\ pc = "idle"
    /\ at = 0
    /\ cached = 0
    /\ wire \in {<<[op |-> o, from |-> 0, n |-> 0]>> : o \in {"request", "refused"}}
    /\ inflight = 2
    /\ arrived = 0
    /\ sent = 0
    /\ handled = <<>>
    /\ tidy = TRUE

-----------------------------------------------------------------------------
(* The peer, once it has been answered with 101.                           *)

Send(op, n) ==
    LET f == [op |-> op, from |-> sent, n |-> n]
    IN  /\ open /\ hs
        /\ Len(wire) < MaxWire
        /\ wire' = Append(wire, f)
        /\ inflight' = inflight + Size(f)
        /\ sent' = sent + n
        /\ UNCHANGED <<open, hs, sync, pc, at, cached, arrived, handled>>

\* Tidy is a frame the mtu admits that, if it continues a PDU, ends one.
SendData ==
    \E n \in 1..MaxFrame :
        /\ \E i \in Pdu : sent + n <= Ends[i]
        /\ Send("data", n)
        /\ tidy' = (tidy /\ n <= MaxPayload /\ (AtPdu(sent) \/ AtPdu(sent + n)))

SendOther(op) ==
    /\ Send(op, 0)
    /\ tidy' = FALSE

\* Some more of what was sent arrives, and the worker calls evnRecv().
Recv ==
    /\ open /\ pc = "idle"
    /\ \E k \in 1..inflight :
          /\ inflight' = inflight - k
          /\ arrived' = arrived + k
    /\ pc' = "frame"
    /\ UNCHANGED <<open, hs, sync, at, cached, wire, sent, handled, tidy>>

-----------------------------------------------------------------------------
(* evnRecv().                                                              *)

Peer == <<inflight, sent, tidy>>

\* return -1: the library closes the connection.
Close ==
    /\ open' = FALSE
    /\ pc' = "idle"
    /\ UNCHANGED <<hs, sync, at, cached, wire, arrived, handled, Peer>>

\* return used: what was not used stays in the read buffer.
Wait ==
    /\ pc' = "idle"
    /\ UNCHANGED <<open, hs, sync, at, cached, wire, arrived, handled, Peer>>

\* checkHandShake(): nothing is used until the blank line has arrived.
CheckHandShake ==
    /\ open /\ pc = "frame" /\ ~hs
    /\ \/ /\ arrived < Size(Head(wire))
          /\ Wait
       \/ /\ arrived = Size(Head(wire)) /\ Head(wire).op = "refused"
          /\ Close
       \/ /\ arrived = Size(Head(wire)) /\ Head(wire).op = "request"
          /\ hs' = TRUE
          /\ pc' = "idle"
          /\ wire' = Tail(wire)
          /\ arrived' = 0
          /\ UNCHANGED <<open, sync, at, cached, handled, Peer>>

\* decode() is at the head of a frame, of which two bytes have arrived.
Decoding(op) ==
    /\ open /\ hs /\ sync /\ pc = "frame"
    /\ wire # <<>> /\ arrived > 0
    /\ Head(wire).op = op

NoHead ==
    /\ open /\ hs /\ pc = "frame"
    /\ arrived = 0
    /\ Wait

Refuse == Decoding("refused") /\ Close

\* Two bytes are skipped.  The mask and the payload of the control frame are
\* next, and are read as heads of frames.
SkipControl ==
    /\ Decoding("control")
    /\ sync' = FALSE
    /\ wire' = Tail(wire)
    /\ arrived' = arrived - 1
    /\ UNCHANGED <<open, hs, pc, at, cached, handled, Peer>>

\* A 16 bit length is read before it has arrived: what the read buffer holds
\* from before decides whether it is over the mtu.
LengthNotThere ==
    /\ Decoding("data")
    /\ arrived < HeaderSize(Head(wire))
    /\ Close \/ Wait

Oversize ==
    /\ Decoding("data")
    /\ arrived >= HeaderSize(Head(wire))
    /\ Head(wire).n > MaxPayload
    /\ Close

\* Mutant: len <= size.
CompleteNeedsMore(f) == arrived > Size(f)

Complete(f) == arrived >= Size(f)

Fits(f) ==
    /\ Decoding("data")
    /\ arrived >= HeaderSize(f)
    /\ f.n <= MaxPayload

Incomplete ==
    /\ Fits(Head(wire))
    /\ ~Complete(Head(wire))
    /\ Wait

\* decodeFrameBinary() hands decodeXscPdu() the cached bytes and the new ones.
DecodeFrame ==
    /\ Fits(Head(wire))
    /\ Complete(Head(wire))
    /\ at' = Head(wire).from - cached
    /\ pc' = "pdu"
    /\ UNCHANGED <<open, hs, sync, cached, wire, arrived, handled, Peer>>

-----------------------------------------------------------------------------
(* decodeXscPdu() and the end of decodeFrameBinary().                      *)

DecodingPdu == open /\ pc = "pdu"

\* One past the last byte of the frame.
Upto == Head(wire).from + Head(wire).n

\* A PDU that begins here is there as a whole.
Here(i) == Begin(i) = at /\ Ends[i] <= Upto

EvnMsg(p, used) ==
    /\ handled' = Append(handled, p)
    /\ at' = used
    /\ UNCHANGED <<hs, sync, cached, wire, arrived, Peer>>

\* evnMsg() handles it, or says no and the connection is closed.
DecodePdu ==
    /\ DecodingPdu
    /\ \E i \in Pdu :
          /\ Here(i)
          /\ EvnMsg(i, Ends[i])
          /\ \/ UNCHANGED <<open, pc>>
             \/ open' = FALSE /\ pc' = "idle"

\* What is next begins in the middle of a PDU: it is no PDU, or one nobody sent.
\* (That it looks like the beginning of one is EndFrame.)
DecodeGarbage ==
    /\ DecodingPdu
    /\ ~AtPdu(at)
    /\ \/ Close
       \/ \E b \in at + 1..Upto :
             /\ EvnMsg(Garbage, b)
             /\ UNCHANGED <<open, pc>>

\* Mutant: the extended length is counted twice.
ConsumedTooMuch(f) == Size(f) + 1

Consumed(f) == Size(f)

\* decode() goes on with the next frame, cachedXscPdu holding n bytes.
NextFrame(n) ==
    /\ cached' = n
    /\ pc' = "frame"
    /\ wire' = Tail(wire)
    /\ arrived' = arrived - Consumed(Head(wire))
    /\ UNCHANGED <<hs, at, handled, Peer>>

\* Mutant: the cache is not cleared when everything was used.
NothingLeftKeeps ==
    /\ at = Upto
    /\ NextFrame(IF cached = 0 THEN 0 ELSE cached + Head(wire).n)
    /\ UNCHANGED <<open, sync>>

NothingLeft ==
    /\ at = Upto
    /\ NextFrame(0)
    /\ UNCHANGED <<open, sync>>

\* Mutant: what was used is cached as well.
CacheRestAll ==
    /\ at < Upto /\ cached = 0
    /\ NextFrame(Head(wire).n)
    /\ UNCHANGED <<open, sync>>

CacheRest ==
    /\ at < Upto /\ cached = 0
    /\ NextFrame(Upto - at)
    /\ UNCHANGED <<open, sync>>

\* erase(begin() + 0, end() + used), used being the number of bytes used: with
\* none used all that was cached is erased; otherwise the range ends behind the
\* end, which crashes the process or leaves a corrupted vector.
EraseRest ==
    /\ at < Upto /\ cached > 0
    /\ NextFrame(0)
    /\ \/ at = Head(wire).from - cached /\ UNCHANGED <<open, sync>>
       \/ at > Head(wire).from - cached /\ sync' = FALSE /\ open' \in BOOLEAN

EndFrame ==
    /\ DecodingPdu
    /\ \A i \in Pdu : ~Here(i)
    /\ NothingLeft \/ CacheRest \/ EraseRest

\* Reading from the middle of a frame, or with a corrupted cache: the connection
\* is closed, more is awaited, or something nobody sent is handled.
Astray ==
    /\ open /\ ~sync /\ pc = "frame" /\ arrived > 0
    /\ \/ Close
       \/ Wait
       \/ /\ Len(handled) < Len(Ends)
          /\ EvnMsg(Garbage, at)
          /\ UNCHANGED <<open, pc>>

-----------------------------------------------------------------------------
Decode ==
    \/ CheckHandShake
    \/ NoHead \/ Refuse \/ SkipControl \/ LengthNotThere \/ Oversize \/ Incomplete
    \/ DecodeFrame \/ DecodePdu \/ DecodeGarbage \/ EndFrame \/ Astray

Next ==
    \/ SendData
    \/ \E op \in {"control", "refused"} : SendOther(op)
    \/ Recv
    \/ Decode

Spec == Init /\ [][Next]_vars

\* What was sent arrives, and the worker runs.
FairSpec == Spec /\ WF_vars(Recv) /\ WF_vars(Decode)

-----------------------------------------------------------------------------
(* Every variable has its type; in particular no more bytes are used than have
   arrived (the `used` of decode()). *)
TypeOK ==
    /\ open \in BOOLEAN /\ hs \in BOOLEAN /\ sync \in BOOLEAN /\ tidy \in BOOLEAN
    /\ pc \in {"idle", "frame", "pdu"}
    /\ at \in Nat /\ cached \in Nat /\ inflight \in Nat /\ arrived \in Nat /\ sent \in Nat
    /\ wire \in Seq(Frame)
    /\ handled \in Seq(Pdu \cup {Garbage})

(* Whatever the peer sends and however it is cut and delayed, a PDU it sent is
   handled at most once, after those before it, and not before its last byte was
   sent (decodeXscPdu(), and what cachedXscPdu keeps). *)
HandledInOrder ==
    \A j \in DOMAIN handled :
        handled[j] # Garbage =>
            /\ Ends[handled[j]] <= sent
            /\ \A k \in DOMAIN handled : k < j => handled[k] < handled[j]

\* The first byte that decode() has not passed on.
NextByte == IF wire = <<>> THEN sent ELSE Head(wire).from

(* While the peer is tidy no byte is lost or counted twice: what was handled are
   the first PDUs, and what follows them is cached, up to the next frame
   (decodeFrameBinary()). *)
Accounted ==
    open /\ tidy =>
        /\ sync
        /\ \A j \in DOMAIN handled : handled[j] = j
        /\ at = IF handled = <<>> THEN 0 ELSE Ends[Len(handled)]
        /\ pc # "pdu" => at + cached = NextByte

Stream == INSTANCE PduStream WITH
    complete <- {i \in Pdu : Ends[i] <= sent},
    delivered <- handled,
    over <- ~open \/ ~tidy

(* For a tidy peer the channel implements the abstract stream: all PDUs, in order,
   whatever the frames and the reads. *)
StreamSpec == Stream!Spec

Handled(i) == \E j \in DOMAIN handled : handled[j] = i

(* A PDU that was sent as a whole, in whatever data frames the mtu admits, is
   handled, or the connection is closed: decodeFrameBinary() must lose nothing as
   long as frames are read where they begin. *)
SentIsHandled ==
    \A i \in Pdu : Ends[i] <= sent ~> Handled(i) \/ ~open \/ ~sync

(* The same of a peer that stays tidy: decode() waits for more only when more is
   under way. *)
TidySentIsHandled ==
    \A i \in Pdu : Ends[i] <= sent ~> Handled(i) \/ ~open \/ ~tidy
=============================================================================
