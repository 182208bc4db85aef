----------------------------- MODULE MCKeyPress -----------------------------
(***************************************************************************)
(* KeyScan with its presses followed: three keys pressed in every way in   *)
(* every mode, with presses long enough for several repetitions.  Every    *)
(* time constant is scaled down; their order is that of the code's values. *)
(***************************************************************************)
EXTENDS KeyPress

=============================================================================
