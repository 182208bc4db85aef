------------------------------ MODULE MCKeyScan -----------------------------
(***************************************************************************)
(* KeyScan with two keys, against comments of the code.  The time          *)
(* constants are the code's own; only where the prompt has to pass first   *)
(* (MCKeyScan_cancel.cfg) they are scaled down, in the code's order.       *)
(***************************************************************************)
EXTENDS KeyScan

=============================================================================
