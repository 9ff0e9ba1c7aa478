------------------------------ MODULE MCPolling ------------------------------
(* A small instance of Polling. *)
EXTENDS Polling

MCLimits == {1, 3, -1}
=============================================================================
