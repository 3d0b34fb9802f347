------------------------- MODULE XmsgImTcpChannel -------------------------
(***************************************************************************)
(* evnRecv() of an XmsgImTcpChannel, and of an XmsgImRudpChannel, which    *)
(* has the same: how the bytes of a connection become PDUs.                *)
(*                                                                         *)
(* The peer sends a stream of PDUs, PDU i ending with byte Ends[i], and    *)
(* from some point on it may send bytes that are none.  A byte is its      *)
(* position in what is sent.  A read may end anywhere.  What evnRecv()     *)
(* has not used stays in the read buffer, before what is read next.        *)
(***************************************************************************)
EXTENDS Naturals, Sequences

CONSTANTS Ends,     \* Ends[i]: the bytes up to the end of PDU i
          MaxJunk   \* bound: bytes of the peer that are no PDU

ASSUME TcpChannelAssumption ==
    /\ Ends \in Seq(Nat \ {0})
    /\ \A i, j \in DOMAIN Ends : i < j => Ends[i] < Ends[j]
    /\ MaxJunk \in Nat

VARIABLES
    open,     \* the connection is there
    pc,       \* "idle", or "recv": at the head of the loop of evnRecv()
    base,     \* the first byte in the read buffer: dat
    len,      \* number of bytes in it
    used,     \* number of them that evnRecv() has used
    sent,     \* number of bytes of the stream the peer has sent
    junk,     \* number of bytes it has sent after them
    handled   \* history: PDUs given to evnMsg()

peer == <<sent, junk>>
vars == <<open, pc, base, len, used, handled, peer>>

Pdu == DOMAIN Ends

\* A PDU decoded from bytes that are none.
Garbage == 0

Begin(i) == IF i = 1 THEN 0 ELSE Ends[i - 1]

AtPdu(b) == b = 0 \/ \E i \in Pdu : Ends[i] = b

Init ==
    /\ open = TRUE
    /\ pc = "idle"
    /\ base = 0 /\ len = 0 /\ used = 0
    /\ sent = 0 /\ junk = 0
    /\ handled = <<>>

-----------------------------------------------------------------------------
(* The peer and the network.                                               *)

Send ==
    /\ open /\ junk = 0
    /\ \E i \in Pdu : sent' \in sent + 1..Ends[i]
    /\ UNCHANGED <<open, pc, base, len, used, handled, junk>>

SendJunk ==
    /\ open
    /\ junk' \in junk + 1..MaxJunk
    /\ UNCHANGED <<open, pc, base, len, used, handled, sent>>

\* Some of what is under way arrives, and the worker calls evnRecv().
Recv ==
    /\ open /\ pc = "idle"
    /\ len' \in len + 1..sent + junk - base
    /\ pc' = "recv"
    /\ UNCHANGED <<open, base, used, handled, peer>>

Lost ==
    /\ open /\ pc = "idle"
    /\ open' = FALSE
    /\ UNCHANGED <<pc, base, len, used, handled, peer>>

-----------------------------------------------------------------------------
(* decode(dat + used, len - used, &exp) reads from At up to Upto.          *)

\* Mutant: decode(dat, ...).
AtIgnoresUsed == base

At == base + used

\* Mutant: decode(dat + used, len, ...).
UptoOverreads == base + used + len

Upto == base + len

\* A PDU begins here and all of it has arrived.
Here(i) == Begin(i) = At /\ Ends[i] <= Upto /\ Ends[i] <= sent

\* Not the head of a PDU, or one with something else behind it.
Astray == ~AtPdu(At) \/ Upto > sent

\* Mutant: return len.
ReturnLen(u) ==
    /\ base' = base + len
    /\ len' = 0
    /\ used' = 0
    /\ pc' = "idle"
    /\ UNCHANGED open

\* return used: the library keeps what is behind it.
Return(u) ==
    /\ base' = base + u
    /\ len' = len - u
    /\ used' = 0
    /\ pc' = "idle"
    /\ UNCHANGED open

\* return -1: the library closes the connection.
Close(u) ==
    /\ open' = FALSE
    /\ pc' = "idle"
    /\ used' = u
    /\ UNCHANGED <<base, len>>

Continue(u) ==
    /\ used' = u
    /\ UNCHANGED <<open, pc, base, len>>

\* Mutant: no loop.
EvnMsgOnce(p, b) ==
    LET u == b - base
    IN  /\ handled' = Append(handled, p)
        /\ \/ Close(u)
           \/ u <= len /\ Return(u)

\* PDU p, which ends before byte b, is handled, and evnMsg() may say no.  What
\* is left is decoded next; more used than there is would be a bug, says the code.
EvnMsg(p, b) ==
    LET u == b - base
    IN  /\ handled' = Append(handled, p)
        /\ \/ Close(u)
           \/ u = len /\ Return(u)
           \/ u < len /\ Continue(u)

DecodePdu == \E i \in Pdu : Here(i) /\ EvnMsg(i, Ends[i])

\* What is no PDU may look like one, of any size.
DecodeGarbage ==
    /\ Astray
    /\ \E b \in At + 1..Upto :
          /\ AtPdu(At) => b > sent
          /\ EvnMsg(Garbage, b)

Malformed == Astray /\ Close(used) /\ UNCHANGED handled

Incomplete == Return(used) /\ UNCHANGED handled

EvnRecv ==
    /\ open /\ pc = "recv"
    /\ \/ DecodePdu
       \/ /\ \A i \in Pdu : ~Here(i)
          /\ DecodeGarbage \/ Malformed \/ Incomplete
    /\ UNCHANGED peer

-----------------------------------------------------------------------------
Next == Send \/ SendJunk \/ Recv \/ Lost \/ EvnRecv

Spec == Init /\ [][Next]_vars

-----------------------------------------------------------------------------
(* Every variable has its type, the read buffer holds nothing but bytes that were
   sent, and evnRecv() uses no more than it holds: it never comes to the line "it`s a
   bug, used: %d, len: %d". *)
TypeOK ==
    /\ open \in BOOLEAN
    /\ pc \in {"idle", "recv"}
    /\ base \in Nat /\ len \in Nat /\ used \in Nat
    /\ sent \in Nat /\ junk \in Nat
    /\ handled \in Seq(Pdu \cup {Garbage})
    /\ base + len <= sent + junk
    /\ used <= len

(* However the stream is cut into reads, the j-th PDU handled is the j-th that was
   sent; something nobody sent is handled only when the peer has sent what is no
   PDU, and not before every PDU sent ahead of it (evnRecv()). *)
HandledInOrder ==
    \A j \in DOMAIN handled :
        handled[j] # j =>
            /\ handled[j] = Garbage
            /\ junk > 0
            /\ \A i \in Pdu : Ends[i] <= sent => i < j

(* When the worker waits for the next read, each PDU that has arrived as a whole
   was handled: evnRecv() returns with none of them left in the read buffer. *)
NoneKept ==
    open /\ pc = "idle" =>
        \A i \in Pdu :
            Ends[i] <= sent /\ Ends[i] <= Upto => \E j \in DOMAIN handled : handled[j] = i

Stream == INSTANCE PduStream WITH
    complete <- {i \in Pdu : Ends[i] <= sent},
    delivered <- handled,
    over <- ~open \/ \E j \in DOMAIN handled : handled[j] = Garbage

(* The channel implements the abstract stream, until it is closed or takes for a PDU
   what is none. *)
StreamSpec == Stream!Spec
=============================================================================
