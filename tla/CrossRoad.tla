------------------------------ MODULE CrossRoad -----------------------------
(***************************************************************************)
(* Crossings (image.c): the two ways of recognising one that the menu      *)
(* chooses between, and the rows of the edge lines they draw anew.         *)
(*                                                                         *)
(* A frame takes two steps: search_line and the search for corners find    *)
(* something in the picture, and image_cross_analysis acts on it; between  *)
(* frames the user may change cross_enable.                                *)
(*                                                                         *)
(* Abstractions.  The picture is gone: a search finds any row its loop can *)
(* return, or none, and the width of the track is one of three classes.    *)
(* Of an edge line only the rows that are written count, not the columns.  *)
(***************************************************************************)
EXTENDS Integers, FiniteSets

CONSTANTS
  Enables,     \* what the menu leaves in cross_enable: 0, 1, 2
  H,           \* IMAGE_H
  TopLimit,    \* CROSS_TOP_LIMIT
  RightLimit,  \* the limit continuity_right has of its own
  Near,        \* how far below TopLimit the end of the track may be
  DownLimit,   \* where image_cross_analysis gives up looking for lower corners
  Gap,         \* rows between two corners of a side (10)
  StretchNum   \* STRETCH_NUM

Rows == 0 .. H - 1
Side == {"left", "right"}

ASSUME CrossAssumption ==
  /\ Enables \subseteq {0, 1, 2} /\ H \in Nat /\ H > 12
  /\ TopLimit \in 4 .. H - 6 /\ RightLimit \in TopLimit .. H - 6
  /\ Near \in Nat /\ DownLimit \in TopLimit .. H - 6
  /\ Gap \in Nat \ {0, 1} /\ StretchNum \in Nat \ {0}

VARIABLES
  pc,              \* "idle", "found" or "done"
  cross_enable, cross_status, cross_flag,
  stop_search_row,
  width,           \* track_width: "wide", "middle" or "narrow"
  up_find, down_find,   \* the corners of each side, 0 when there is none
  broken,          \* continuity_pointLeft and Right: the sides that jump
  steep,           \* history: the sides whose every slope was rejected
  written          \* history: the rows written on each side in this frame

frame == <<stop_search_row, width, up_find, down_find, broken, steep>>
vars == <<pc, cross_enable, cross_status, cross_flag, frame, written>>

Status == {"STRAIGHT", "ROAD", "ROAD_L", "ROAD_R"}
None   == [s \in Side |-> 0]
NoRows == [s \in Side |-> {}]

Init ==
  /\ pc = "idle" /\ cross_enable \in Enables
  /\ cross_status = "STRAIGHT" /\ cross_flag = 0
  /\ stop_search_row = 0 /\ width = "narrow"
  /\ up_find = None /\ down_find = None /\ broken = {} /\ steep = {}
  /\ written = NoRows

-----------------------------------------------------------------------------
(***************************************************************************)
(* What the searches can find, below the row at which the track ends       *)
(***************************************************************************)
Larger(a, b)  == IF a > b THEN a ELSE b
Smaller(a, b) == IF a < b THEN a ELSE b

SafeStopRow(stop) == IF stop < TopLimit THEN TopLimit ELSE stop

\* Find_Up_Point, from the top; its first row does not count.
UpStart(stop) == Larger(Larger(SafeStopRow(stop), TopLimit), stop + 5)
UpPoints(stop) == {0} \cup {i - 2 : i \in UpStart(stop) + 1 .. H - 5}

\* Find_Down_Point, from the bottom; its first row does not count.
DownEnd(stop) == Larger(Smaller(SafeStopRow(stop), H - 5), TopLimit)

\* Mutant of DownPoints: the rows at the bottom are not left out.
DownPointsUnclamped(stop) == {0} \cup {i + 2 : i \in DownEnd(stop) .. H - 2}

DownPoints(stop) == {0} \cup {i + 2 : i \in DownEnd(stop) .. H - 5}

\* The first row that continuity_left and continuity_right look at.
ScanStart(stop, limit) ==
  Larger(H - 2, Larger(SafeStopRow(stop) + 5, limit))

\* image_find_left_jump_point and image_find_right_jump_point.
JumpPoints(bottom, top) == {0} \cup {i + 3 : i \in top + 1 .. bottom}

LowerJumps == JumpPoints(H - 5, DownLimit)
UpperJumps(below) ==
  JumpPoints(IF below > TopLimit + Gap THEN below - Gap ELSE H - 5, TopLimit)

-----------------------------------------------------------------------------
(***************************************************************************)
(* What is drawn                                                           *)
(***************************************************************************)

\* draw_Lline_k and draw_Rline_k: from starty to before endy.
Line(starty, endy) ==
  IF starty < endy THEN starty .. endy - 1 ELSE endy + 1 .. starty

\* lenthen_Left_bondarise and lenthen_Right_bondarise
Lengthened(start) == Smaller(Larger(start, 7), H - 1) .. H - 2

\* image_connect_point, which only draws upwards from num0.
Connected(num0, num1) == num1 + 1 .. num0

\* image_stretch_point, up and down; with no slope left it connects the
\* corner with the lower corner of the image, whose pixel it sets.
Stretchable(num) == num + 5 < H /\ num - 5 > 0

StretchedUp(num) ==
  IF Stretchable(num) THEN Larger(5, num - StretchNum + 1) .. num ELSE {}

StretchedDown(num, slope) ==
  IF ~Stretchable(num) THEN {}
  ELSE IF slope THEN num .. Smaller(H - 1, num + StretchNum - 1)
  ELSE Connected(num, H - 1) \cup {H - 1}

-----------------------------------------------------------------------------
(***************************************************************************)
(* image_cross_analysis, the simple way: a wide track is a crossing until  *)
(* it is narrow again.                                                     *)
(***************************************************************************)

\* Mutant of Paired: however close the corners are.
PairedAnyhow(up, down) ==
  IF up > 0 /\ down > 0 /\ down <= up THEN <<up, 0>> ELSE <<up, down>>

\* The corners of a side that are kept: not the lower one when it is not below
\* the upper one, and none when they are too close.
Paired(up, down) ==
  IF up = 0 \/ down = 0 THEN <<up, down>>
  ELSE IF down <= up THEN <<up, 0>>
  ELSE IF down - up < Gap THEN <<0, 0>>
  ELSE <<up, down>>

Filled(up, down, slope) ==
  IF up # 0 /\ down # 0 THEN Connected(down, up)
  ELSE IF down # 0 THEN StretchedUp(down)
  ELSE IF up # 0 THEN StretchedDown(up, slope)
  ELSE {}

FindJumps ==
  /\ cross_enable = 1
  /\ width' \in {"wide", "middle", "narrow"} /\ steep' \in SUBSET Side
  /\ stop_search_row' = 0 /\ broken' = {}
  /\ IF cross_flag = 1 \/ width' = "wide"
     THEN \E dl, dr \in LowerJumps : \E ul \in UpperJumps(dl), ur \in UpperJumps(dr) :
            /\ down_find' = [left |-> dl, right |-> dr]
            /\ up_find' = [left |-> ul, right |-> ur]
     ELSE up_find' = None /\ down_find' = None

Analyse ==
  /\ cross_enable = 1
  /\ LET crossing == cross_flag = 1 \/ width = "wide"
         up   == [s \in Side |-> Paired(up_find[s], down_find[s])[1]]
         down == [s \in Side |-> Paired(up_find[s], down_find[s])[2]]
     IN  /\ cross_flag' = IF crossing /\ width # "narrow" THEN 1 ELSE 0
         /\ up_find' = up /\ down_find' = down
         /\ written' = IF crossing
                       THEN [s \in Side |-> Filled(up[s], down[s], s \notin steep)]
                       ELSE NoRows
  /\ UNCHANGED <<cross_status, stop_search_row, width, broken, steep>>

-----------------------------------------------------------------------------
(***************************************************************************)
(* image_cross_analysis_OLD, the state machine                             *)
(***************************************************************************)
FindCorners ==
  /\ cross_enable = 2
  /\ stop_search_row' \in Rows /\ broken' \in SUBSET Side
  /\ up_find' \in [Side -> UpPoints(stop_search_row')]
  /\ down_find' \in [Side -> DownPoints(stop_search_row')]
  /\ width' = "narrow" /\ steep' = {}

NotAtTheEnd(s) ==
  up_find[s] # 0 /\ up_find[s] > SafeStopRow(stop_search_row) - 2

\* In which state a straight track is found to be, from the next frame on.
Entered ==
  IF SafeStopRow(stop_search_row) >= TopLimit + Near THEN "STRAIGHT"
  ELSE IF broken = Side /\ \A s \in Side : NotAtTheEnd(s) THEN "ROAD"
  ELSE IF broken = {"left"} /\ NotAtTheEnd("left") THEN "ROAD_L"
  ELSE IF broken = {"right"} /\ NotAtTheEnd("right") THEN "ROAD_R"
  ELSE "STRAIGHT"

OldStraight ==
  /\ cross_status = "STRAIGHT" /\ cross_status' = Entered
  /\ cross_flag' = IF Entered # "STRAIGHT" THEN 1 ELSE cross_flag
  /\ written' = NoRows /\ UNCHANGED frame

Other(s) == IF s = "left" THEN "right" ELSE "left"

\* Mutant of RoadLine: the line goes one row past the upper corner's.
RoadLineTooFar(s, down) ==
  IF down[s] # 0 /\ down[Other(s)] # 0 THEN Line(down[s], up_find[s] - 6)
  ELSE IF down[s] # 0 THEN Line(down[s], up_find[s])
  ELSE Lengthened(up_find[s])

\* The rows drawn on a side: from the lower corner, two rows further when the
\* other side has one too; without one, the upper corner's line goes on.
RoadLine(s, down) ==
  IF down[s] # 0 /\ down[Other(s)] # 0 THEN Line(down[s], up_find[s] - 2)
  ELSE IF down[s] # 0 THEN Line(down[s], up_find[s])
  ELSE Lengthened(up_find[s])

\* Mutant of RoadLost: one side's corner is enough to stay.
RoadLostBoth == up_find = None

RoadLost == \E s \in Side : up_find[s] = 0

OldRoad ==
  /\ cross_status = "ROAD"
  /\ LET down == [s \in Side |-> IF down_find[s] <= up_find[s] THEN 0
                                                              ELSE down_find[s]]
     IN  /\ down_find' = down
         /\ written' = [s \in Side |-> RoadLine(s, down)]
  /\ \/ RoadLost /\ cross_status' = "STRAIGHT" /\ cross_flag' = 0
     \/ ~RoadLost /\ UNCHANGED <<cross_status, cross_flag>>
  /\ UNCHANGED <<stop_search_row, width, up_find, broken, steep>>

\* A crossing entered askew: one side has its corner, until both have.
Skew(status, s) ==
  /\ cross_status = status
  /\ \/ ~RoadLost /\ cross_status' = "ROAD" /\ UNCHANGED cross_flag
        /\ written' = NoRows
     \/ RoadLost /\ up_find[s] # 0 /\ UNCHANGED <<cross_status, cross_flag>>
        /\ written' = [NoRows EXCEPT ![s] =
                         IF down_find[s] # 0 THEN Line(down_find[s], up_find[s])
                                             ELSE Lengthened(up_find[s])]
     \/ up_find[s] = 0 /\ cross_status' = "STRAIGHT" /\ cross_flag' = 0
        /\ written' = NoRows
  /\ UNCHANGED frame

AnalyseOld ==
  /\ cross_enable = 2
  /\ OldStraight \/ OldRoad \/ Skew("ROAD_L", "left") \/ Skew("ROAD_R", "right")

-----------------------------------------------------------------------------

\* image_process: the edges and corners of a new picture ...
Find == /\ pc = "idle" /\ pc' = "found"
        /\ FindJumps \/ FindCorners
        /\ UNCHANGED <<cross_enable, cross_status, cross_flag, written>>

\* ... and what is made of them.
Process == /\ pc = "found" /\ pc' = "done"
           /\ Analyse \/ AnalyseOld
           /\ UNCHANGED cross_enable

FrameEnd == /\ pc = "done" /\ pc' = "idle"
            /\ stop_search_row' = 0 /\ width' = "narrow"
            /\ up_find' = None /\ down_find' = None
            /\ broken' = {} /\ steep' = {} /\ written' = NoRows
            /\ UNCHANGED <<cross_enable, cross_status, cross_flag>>

\* The user edits Cross Enable, or loads a configuration; a frame that is
\* processed with 0 changes nothing here.
Switch == /\ pc = "idle" /\ cross_enable' \in Enables \ {cross_enable}
          /\ UNCHANGED <<pc, cross_status, cross_flag, frame, written>>

Next == Find \/ Process \/ FrameEnd \/ Switch

Spec == Init /\ [][Next]_vars

-----------------------------------------------------------------------------
(***************************************************************************)
(* Properties                                                              *)
(***************************************************************************)

\* Types: a corner is a row of the image.
TypeOK ==
  /\ pc \in {"idle", "found", "done"} /\ cross_enable \in Enables
  /\ cross_status \in Status /\ cross_flag \in {0, 1}
  /\ stop_search_row \in Rows /\ width \in {"wide", "middle", "narrow"}
  /\ up_find \in [Side -> Rows] /\ down_find \in [Side -> Rows]
  /\ broken \subseteq Side /\ steep \subseteq Side
  /\ written \in [Side -> SUBSET Int]

\* After a frame the state machine is in a crossing only with the upper
\* corners that this state draws its lines to: image_cross_analysis_OLD does
\* not stay in a crossing on what an earlier frame has found.
CrossingHasItsPoints ==
  pc = "done" /\ cross_enable = 2 =>
    /\ cross_status \in {"ROAD", "ROAD_L"} => up_find["left"] # 0
    /\ cross_status \in {"ROAD", "ROAD_R"} => up_find["right"] # 0

\* With an upper corner on a side, whatever lower corners there are, every row
\* drawn on it is a row of the edge line's array (image.c:1440-1545).
DrawnInImage == \A s \in Side : up_find[s] # 0 => written[s] \subseteq Rows

\* The same of the other side's corners: "prevent crossing the border" of
\* draw_Rline_k (image.c:1231) and "when the point has failed, restore the
\* original" (image.c:1471) promise it for a lost upper corner too.
LinesStayInImage == \A s \in Side : written[s] \subseteq Rows

\* search_line follows the last row in a straight and searches whole rows in a
\* crossing, by cross_flag, "in step with cross_status" (image.c:192): so it is
\* whenever the state machine has processed a frame.
FlagFollowsStatus ==
  pc = "done" /\ cross_enable = 2 =>
    (cross_flag = 1 <=> cross_status # "STRAIGHT")

\* image_cross_analysis joins two corners of a side only when they are Gap
\* rows apart (10: the code rejects less than that, its comment asks for more,
\* image.c:1792), and draws them one line inside the image: no corner is paired
\* with itself.
CornersAreApart ==
  pc = "done" /\ cross_enable = 1 =>
    \A s \in Side : up_find[s] # 0 /\ down_find[s] # 0 =>
      /\ Cardinality(written[s]) >= Gap /\ up_find[s] \notin written[s]
      /\ written[s] \subseteq Rows

\* continuity_left and continuity_right begin on a row of the array ("array
\* bounds protection", image.c:1154).
ContinuityStaysInImage ==
  pc = "found" /\ cross_enable = 2 =>
    \A limit \in {TopLimit, RightLimit} : ScanStart(stop_search_row, limit) < H

\* With no slope to follow, image_stretch_point falls back on the line from the
\* corner to the lower corner of the image (image.c:1735).
FallbackReachesTheCorner ==
  pc = "done" /\ cross_enable = 1 =>
    \A s \in steep : written[s] # {} /\ up_find[s] # 0 /\ down_find[s] = 0 =>
      up_find[s] .. H - 1 \subseteq written[s]

=============================================================================
