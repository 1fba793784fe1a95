------------------------------ MODULE MCLeads -------------------------------
(* Small instances of Leads for TLC.                                       *)
EXTENDS Leads, TLC

CONSTANTS p1, p2, p3, gone, b1, v1

\* A batch and a conversion that overlap, each with a repeated id; the batch
\* asks for a row that is not in the pool.
Requests == b1 :> <<p1, gone, p1>> @@ v1 :> <<p3, p1, p3, p2>>
=============================================================================
