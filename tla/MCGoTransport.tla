--------------------------- MODULE MCGoTransport ----------------------------
(* Small instances of GoTransport for TLC.                                 *)
EXTENDS GoTransport, TLC

CONSTANTS c1, c2, l1

\* A JSON call to the node and a stream.
TwoKinds == c1 :> "json" @@ c2 :> "stream"
=============================================================================
