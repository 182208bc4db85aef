------------------------------ MODULE MCSteering -----------------------------
(***************************************************************************)
(* A picture of 8 columns; every gain is one, and the limits are small     *)
(* enough to be reached by the errors of two or three turns.               *)
(***************************************************************************)
EXTENDS Steering

MCMeans == {1, 4, 6}
MCGyros == -1 .. 1

ASSUME GainAssumption == StrongEnough

=============================================================================
