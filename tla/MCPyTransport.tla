--------------------------- MODULE MCPyTransport ----------------------------
(* Small instances of PyTransport for TLC.                                 *)
EXTENDS PyTransport, TLC

CONSTANTS c1, c2, l1

WithStream == c1 :> "do" @@ c2 :> "stream"
OneKind == c1 :> "do"
=============================================================================
