---------------------- MODULE MCXmsgImWebSocketChannel ----------------------
(* The instance of XmsgImWebSocketChannel for TLC. *)
EXTENDS XmsgImWebSocketChannel

\* PDUs of one, two and three bytes: the last may span three frames.
ThreePdus == <<1, 3, 6>>
=============================================================================
