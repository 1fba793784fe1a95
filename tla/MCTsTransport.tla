--------------------------- MODULE MCTsTransport ----------------------------
(* Small instances of TsTransport for TLC.                                 *)
EXTENDS TsTransport, TLC

CONSTANTS c1, c2, c3

TwoSends == c1 :> "send" @@ c2 :> "send"
MixedKinds == c1 :> "send" @@ c2 :> "blob" @@ c3 :> "stream"
=============================================================================
