----------------------------- MODULE MCEdgeLines ----------------------------
(***************************************************************************)
(* Rows of 10 pixels: a lane over a darker floor, at several places and of *)
(* several widths, no lane, nothing but lane, a lane in glaring light, and *)
(* a row torn apart: the left end of one row and the rest of another.      *)
(***************************************************************************)
EXTENDS EdgeLines

FloorPixel == 20
LanePixel  == 100
GlarePixel == 160

LaneRow(first, last, pixel) ==
  [c \in 0 .. 9 |-> IF first <= c /\ c <= last THEN pixel ELSE FloorPixel]

TornRow(row1, row2, col) == [c \in 0 .. 9 |-> IF c < col THEN row1[c] ELSE row2[c]]

MCRowKinds ==
  {LaneRow(lane[1], lane[2], LanePixel) :
     lane \in {<<1, 0>>, <<0, 9>>, <<0, 4>>, <<2, 7>>, <<4, 6>>, <<5, 9>>}}
  \cup {LaneRow(2, 7, GlarePixel),
        TornRow(LaneRow(0, 4, LanePixel), LaneRow(5, 9, LanePixel), 3)}

MCWeight == [r \in 0 .. 4 |-> IF r \in 2 .. 3 THEN 3 ELSE 1]

=============================================================================
