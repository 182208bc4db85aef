---------------------------- MODULE MCCrossRoad ----------------------------
(***************************************************************************)
(* CrossRoad on images of a few rows, with the distances of image.c scaled *)
(* to them.                                                                *)
(***************************************************************************)
EXTENDS CrossRoad

=============================================================================
