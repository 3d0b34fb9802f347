------------------------ MODULE MCXmsgImTcpChannel ------------------------
(* PDUs of 2, 1, 3 and 1 bytes. *)
EXTENDS XmsgImTcpChannel

FourPdus == <<2, 3, 6, 7>>
=============================================================================
