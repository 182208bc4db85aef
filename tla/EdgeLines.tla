------------------------------ MODULE EdgeLines -----------------------------
(***************************************************************************)
(* From a picture to a mid line (image.c): the threshold, the reference    *)
(* column, the edge lines that search_line finds row by row from the       *)
(* bottom up, their weighted mean, and the verdict of stop_detection on    *)
(* the same picture.                                                       *)
(*                                                                         *)
(* get_image copies the picture pixel by pixel while the camera may write  *)
(* the next frame, so that two rows of user_image need not be of one       *)
(* frame, nor the two ends of one row: a picture is any combination of     *)
(* RowKinds, and a row that is torn is a RowKind of its own.               *)
(***************************************************************************)
EXTENDS Integers, FiniteSetsExt

CONSTANTS
  H, W,          \* IMAGE_H and IMAGE_W
  RowKinds,      \* the rows of pixels a copy may have, torn ones included
  RefRows, RefCols,                     \* reference_row, cfg_reference_col
  WhiteMaxMul, WhiteMinMul, BlackPoint, \* whitemaxmul, whiteminmul, blackpoint
  Offset,        \* contrastoffset
  Ratio,         \* reference_contrast_ratio
  SearchRange,   \* searchrange
  TopRow,        \* the row at which search_reference_col gives up (5)
  Weight,        \* mid_weight
  Samples,       \* rows of the verdict's sample (5)
  FrontRows, FrontCols   \* the pixels it looks at: 2 rows of 40

Rows == 0 .. H - 1
Cols == 0 .. W - 1
Side == {"left", "right"}
ColMin == Offset
ColMax == W - Offset - 1

ASSUME ImageAssumption ==
  /\ H \in Nat /\ W \in Nat /\ Offset \in Nat \ {0}
  /\ Offset <= H /\ ColMin < ColMax
  /\ RowKinds \subseteq [Cols -> 0 .. 255]
  /\ RefRows \in 1 .. H /\ RefCols \in 1 .. W - 2
  /\ WhiteMaxMul \in Nat /\ WhiteMinMul \in Nat /\ BlackPoint \in 1 .. 255
  /\ Ratio \in Nat /\ SearchRange \in Nat /\ TopRow \in Rows
  /\ Weight \in [Rows -> Nat \ {0}]
  /\ Samples \in 1 .. H /\ FrontRows \in 1 .. H /\ FrontCols \in 1 .. W

VARIABLES
  pc,               \* "idle", "copied", "edges", "mid" or "done"
  user_image, cross_flag,
  white_max_point, white_min_point, reference_col,
  row,              \* the row search_line is at
  start, end,       \* leftstartcol and leftendcol, and the right ones
  edge,             \* left_edge_line and right_edge_line
  stop_search_row,
  mean              \* what final_mid_line is filtered from

thresholds == <<white_max_point, white_min_point>>
search == <<row, start, end, edge, stop_search_row>>
vars == <<pc, user_image, cross_flag, thresholds, reference_col, search, mean>>

\* func_limit_ab
Limit(x, a, b) == IF x < a THEN a ELSE IF x > b THEN b ELSE x

\* What the edge lines are before the search of a frame.
Open(s)   == IF s = "left" THEN ColMin - Offset ELSE ColMax + Offset
Border(s) == IF s = "left" THEN ColMin ELSE ColMax
OpenLines == [s \in Side |-> [r \in Rows |-> Open(s)]]

NoImage == [r \in Rows |-> [c \in Cols |-> 0]]

Init ==
  /\ pc = "idle" /\ user_image = NoImage /\ cross_flag = 0
  /\ white_max_point = 0 /\ white_min_point = 0 /\ reference_col = 0
  /\ row = H - 1 /\ start = [s \in Side |-> 0] /\ end = [s \in Side |-> Border(s)]
  /\ edge = OpenLines /\ stop_search_row = 0 /\ mean = 0

-----------------------------------------------------------------------------
(***************************************************************************)
(* get_image, get_reference_point and search_reference_col                 *)
(***************************************************************************)

\* cross_flag is what the recognition of crossings has left (CrossRoad).
GetImage ==
  /\ pc = "idle" /\ pc' = "copied"
  /\ user_image' \in [Rows -> RowKinds] /\ cross_flag' \in {0, 1}
  /\ UNCHANGED <<thresholds, reference_col, search, mean>>

\* The brightness of the ground before the car.  One column more is added up
\* than it is divided by.
ReferencePoint ==
  LET rows == H - RefRows .. H - 1
      cols == (W - RefCols) \div 2 .. (W + RefCols) \div 2
      sum == SumFunction([p \in rows \X cols |-> user_image[p[1]][p[2]]])
  IN  Limit(sum \div (RefRows * RefCols), BlackPoint, 255)

WhiteMax == Limit((ReferencePoint * WhiteMaxMul) \div 10, BlackPoint, 255)
WhiteMin == Limit((ReferencePoint * WhiteMinMul) \div 10, BlackPoint, 255)

\* (a - b) * 200 / (a + b) > reference_contrast_ratio
Contrast(a, b) == a > b /\ ((a - b) * 200) \div (a + b) > Ratio

\* The columns and the rows that search_reference_col looks at.
Scanned == {c \in Cols : c % Offset = 0}
Sampled == {r \in Offset .. H - 1 : (H - 1 - r) % Offset = 0}

\* remote_distance: the row at which the track ends in a column.
RemoteDistance(c) ==
  LET ends == {r \in Sampled :
                 \/ r = TopRow
                 \/ /\ user_image[r - Offset][c] <= WhiteMax
                    /\ \/ user_image[r][c] < WhiteMin
                       \/ Contrast(user_image[r][c], user_image[r - Offset][c])}
  IN  IF ends = {} THEN H - 1 ELSE Max(ends)

\* The first of the columns that see farthest.
Farthest(distance) ==
  Min({c \in Scanned : \A d \in Scanned : distance[c] <= distance[d]})

FindReference ==
  /\ pc = "copied" /\ pc' = "edges"
  /\ white_max_point' = WhiteMax /\ white_min_point' = WhiteMin
  /\ reference_col' = Farthest([c \in Scanned |-> RemoteDistance(c)])
  /\ row' = H - 1 /\ start' = [s \in Side |-> reference_col']
  /\ end' = [s \in Side |-> Border(s)]
  /\ edge' = OpenLines /\ stop_search_row' = 0
  /\ UNCHANGED <<user_image, cross_flag, mean>>

-----------------------------------------------------------------------------
(***************************************************************************)
(* search_line.  The edge of a row is looked for near the one of the row   *)
(* below first, unless cross_flag is set, and from the reference column    *)
(* then.  A dark pixel at the reference column ends the search.            *)
(***************************************************************************)
Span(s, from, to) == IF s = "left" THEN to .. from ELSE from .. to
Nearest(s, S)     == IF s = "left" THEN Max(S) ELSE Min(S)

\* The pixel Offset columns further out.
Beside(s, c) == IF s = "left" THEN c - Offset ELSE c + Offset

Dark(c) == user_image[row][c] < white_min_point

EndsScan(s, c) ==
  /\ Beside(s, c) \in Cols
  /\ \/ Dark(c)
     \/ /\ user_image[row][Beside(s, c)] <= white_max_point
        /\ \/ Contrast(user_image[row][c], user_image[row][Beside(s, c)])
           \/ c = Border(s)

\* Mutant of Look: any dark pixel that the scan begins with ends the search.
LookEndsEarly(s, from, to) ==
  LET hits == {c \in Span(s, from, to) : EndsScan(s, c)}
      c == Nearest(s, hits)
  IN  IF hits = {} THEN [kind |-> "nothing", col |-> from]
      ELSE [kind |-> IF ~Dark(c) THEN "edge"
                     ELSE IF c = from THEN "end" ELSE "dark",
            col |-> c]

\* One pass along a row, from a column outwards.
Look(s, from, to) ==
  LET hits == {c \in Span(s, from, to) : EndsScan(s, c)}
      c == Nearest(s, hits)
  IN  IF hits = {} THEN [kind |-> "nothing", col |-> from]
      ELSE [kind |-> IF ~Dark(c) THEN "edge"
                     ELSE IF c = from /\ from = reference_col THEN "end"
                     ELSE "dark",
            col |-> c]

Follow(s) == Look(s, start[s], end[s])
Whole(s)  == Look(s, reference_col, Border(s))

\* Mutant of Result: whatever the first pass has found is kept.
ResultKept(s) ==
  IF cross_flag = 0 /\ Follow(s).kind # "nothing" THEN Follow(s) ELSE Whole(s)

Result(s) ==
  IF cross_flag = 0 /\ Follow(s).kind \in {"edge", "end"} THEN Follow(s)
  ELSE Whole(s)

\* A pass that finds only a dark pixel leaves it as the edge, for the second
\* pass to overwrite.
EdgeOf(s, result) ==
  CASE result.kind = "edge" -> Limit(Beside(s, result.col), 0, W - 1)
    [] result.kind = "dark" -> result.col
    [] OTHER -> IF cross_flag = 0 /\ Follow(s).kind = "dark"
                THEN Follow(s).col ELSE edge[s][row]

\* Mutant of StartOf: without the limits.
StartUnlimited(s, result) ==
  IF result.kind # "edge" THEN reference_col
  ELSE IF s = "left" THEN result.col + SearchRange
  ELSE result.col - SearchRange

\* Where the next row's search begins, on the inside of this row's edge ...
StartOf(s, result) ==
  IF result.kind # "edge" THEN reference_col
  ELSE IF s = "left" THEN Limit(result.col + SearchRange, result.col, ColMax)
  ELSE Limit(result.col - SearchRange, ColMin, result.col)

\* ... and ends, on the outside.
EndOf(s, result) ==
  IF result.kind # "edge" THEN Border(s)
  ELSE IF s = "left" THEN Limit(result.col - SearchRange, ColMin, result.col)
  ELSE Limit(result.col + SearchRange, result.col, ColMax)

SearchFrame == UNCHANGED <<user_image, cross_flag, thresholds, reference_col, mean>>

\* The rows from here up are given the border columns.
SearchEnds ==
  /\ pc = "edges" /\ pc' = "mid"
  /\ \E s \in Side : Result(s).kind = "end"
  /\ stop_search_row' = row
  /\ edge' = [s \in Side |-> [r \in Rows |->
                IF r <= row THEN Border(s) ELSE edge[s][r]]]
  /\ UNCHANGED <<row, start, end>> /\ SearchFrame

SearchRow ==
  /\ pc = "edges" /\ pc' = IF row = 0 THEN "mid" ELSE pc
  /\ LET result == [s \in Side |-> Result(s)]
     IN  /\ \A s \in Side : result[s].kind # "end"
         /\ edge' = [s \in Side |-> [edge[s] EXCEPT ![row] = EdgeOf(s, result[s])]]
         /\ start' = [s \in Side |-> StartOf(s, result[s])]
         /\ end' = [s \in Side |-> EndOf(s, result[s])]
  /\ row' = IF row = 0 THEN row ELSE row - 1
  /\ UNCHANGED stop_search_row /\ SearchFrame

-----------------------------------------------------------------------------
(***************************************************************************)
(* image_calculate_mid, up to its filter                                   *)
(***************************************************************************)
Mid(r) == (edge["left"][r] + edge["right"][r]) \div 2

Averaged == stop_search_row .. H - 1

\* Mutant of CalculateMid: the weights of all rows are added up.
CalculateMidOverAll ==
  /\ pc = "mid" /\ pc' = "done"
  /\ mean' = SumFunction([r \in Averaged |-> Mid(r) * Weight[r]])
               \div SumFunction([r \in Rows |-> Weight[r]])
  /\ UNCHANGED <<user_image, cross_flag, thresholds, reference_col, search>>

CalculateMid ==
  /\ pc = "mid" /\ pc' = "done"
  /\ mean' = SumFunction([r \in Averaged |-> Mid(r) * Weight[r]])
               \div SumFunction([r \in Averaged |-> Weight[r]])
  /\ UNCHANGED <<user_image, cross_flag, thresholds, reference_col, search>>

\* The next frame overwrites everything.
FrameEnd ==
  /\ pc = "done" /\ pc' = "idle"
  /\ user_image' = NoImage /\ cross_flag' = 0
  /\ white_max_point' = 0 /\ white_min_point' = 0 /\ reference_col' = 0
  /\ row' = H - 1 /\ start' = [s \in Side |-> 0] /\ end' = [s \in Side |-> Border(s)]
  /\ edge' = OpenLines /\ stop_search_row' = 0 /\ mean' = 0

Next == GetImage \/ FindReference \/ SearchEnds \/ SearchRow \/ CalculateMid
        \/ FrameEnd

Spec == Init /\ [][Next]_vars

-----------------------------------------------------------------------------
(***************************************************************************)
(* image_out_of_bounds, called between two frames                          *)
(***************************************************************************)
Front == (H - FrontRows .. H - 1)
         \X (W \div 2 - FrontCols \div 2 .. W \div 2 + (FrontCols - 1) \div 2)

WhiteReference ==
  SumFunction([r \in H - Samples .. H - 1 |-> user_image[r][reference_col]])
    \div Samples

\* Mutant of DarkFront: darker by the absolute threshold of the search.
DarkFrontAbsolute == {p \in Front : user_image[p[1]][p[2]] < white_max_point}

DarkFront == {p \in Front : Contrast(WhiteReference, user_image[p[1]][p[2]])}

OutOfBounds == Cardinality(DarkFront) >= (Cardinality(Front) * 7) \div 10

-----------------------------------------------------------------------------
(***************************************************************************)
(* Properties                                                              *)
(***************************************************************************)

\* Every variable has its type; start and end stay columns of a row.
TypeOK ==
  /\ pc \in {"idle", "copied", "edges", "mid", "done"}
  /\ user_image \in [Rows -> [Cols -> 0 .. 255]] /\ cross_flag \in {0, 1}
  /\ white_max_point \in 0 .. 255 /\ white_min_point \in 0 .. 255
  /\ reference_col \in Cols /\ row \in Rows
  /\ start \in [Side -> Cols] /\ end \in [Side -> Cols]
  /\ edge \in [Side -> [Rows -> Cols]]
  /\ stop_search_row \in Rows /\ mean \in Cols

Lane(r)  == {c \in Cols : user_image[r][c] >= white_min_point}
First(r) == Min(Lane(r))
Last(r)  == Max(Lane(r))

\* One lane in a row, on a floor that it stands out from, without a contrast of
\* its own ...
OneLane(r) ==
  /\ Lane(r) # {} => Lane(r) = First(r) .. Last(r)
  /\ \A c \in Lane(r), d \in Cols :
       Contrast(user_image[r][c], user_image[r][d]) <=> d \notin Lane(r)

\* ... and nowhere brighter than the ground before the car lets expect.
NoGlare(r) == \A c \in Cols : user_image[r][c] <= white_max_point

Searched == stop_search_row + 1 .. H - 1
SearchOver == pc \in {"mid", "done"}

\* Wherever the search of a row begins, and whatever the rows below it were
\* like (another frame, too), the edges are those of this row: just outside
\* its lane.  Following the last row is no worse than searching all of it.
\* With a reference column in the margin of the picture one side is not
\* searched at all.  And with a pixel brighter than white_max_point this need
\* not be so: the scan takes no edge beside it, and the edges may even be in the
\* wrong order (EdgesAreInOrder, below).
EdgesAreBorders ==
  SearchOver /\ reference_col \in ColMin .. ColMax /\ (\A r \in Searched : NoGlare(r)) =>
    \A r \in Searched :
      Lane(r) # {} /\ OneLane(r) =>
        /\ edge["left"][r] \in Limit(First(r) - Offset, 0, W - 1)
                                 .. Limit(First(r) - 1, 0, W - 1)
        /\ edge["right"][r] \in Limit(Last(r) + 1, 0, W - 1)
                                  .. Limit(Last(r) + Offset, 0, W - 1)

\* Twice the middles that the rows of the mean may have: of the row's lane,
\* and of the picture at the row where the search stopped.
Middles(r) ==
  (IF Lane(r) = {} THEN {} ELSE {First(r) + Last(r)})
  \cup (IF r = stop_search_row THEN {ColMin + ColMax} ELSE {})

\* The mean that the car is steered by lies between the middles of the lanes
\* that the search went past, to the Offset columns by which edges miss a lane,
\* the rows torn apart and the weights whatever they are.  Besides these only
\* the row where the search stopped counts, as the middle of the picture: a
\* picture without a lane steers straight on.
MeanIsOnTheTrack ==
  /\ pc = "done" /\ reference_col \in ColMin .. ColMax
  /\ \A r \in Averaged : NoGlare(r) /\ OneLane(r)
  => LET middles == UNION {Middles(r) : r \in Averaged}
     IN  /\ \E m \in middles : m - Offset - 1 <= 2 * mean
         /\ \E m \in middles : 2 * mean <= m + Offset

FrontOf == H - FrontRows .. H - 1

\* The front shows one lane in each row, no glare, and a lane that does not
\* stand out from what the reference column shows.
ClearFront ==
  /\ reference_col \in ColMin .. ColMax
  /\ \A r \in FrontOf : NoGlare(r) /\ OneLane(r)
  /\ \A r \in FrontOf, q \in H - Samples .. H - 1 : \A c \in Lane(r) :
       ~Contrast(user_image[q][reference_col], user_image[r][c])

\* The verdict agrees with the edges: with a clear front, a car with both edges
\* outside the front of the picture is not out of bounds (image_out_of_bounds
\* has a reference of its own, and what is bright above a darker front makes it
\* count that front as off the track).
EdgesDenyOutOfBounds ==
  /\ pc = "done" /\ ClearFront /\ H - FrontRows >= stop_search_row + 1
  /\ \A p \in Front : edge["left"][p[1]] < p[2] /\ p[2] < edge["right"][p[1]]
  => ~OutOfBounds

-----------------------------------------------------------------------------
(***************************************************************************)
(* What comments of the code say and its behaviours do not.                *)
(***************************************************************************)

\* image.c:942: the verdict says whether there is a track in front of the car,
\* and so a picture without a track is out of bounds.
OffTrackIsSeen ==
  pc = "done" /\ (\A r \in Rows : Lane(r) = {}) => OutOfBounds

\* image.c:372: to follow the row below makes the search of a row faster, it
\* does not change which lane it finds: the left edge is left of the right one.
EdgesAreInOrder ==
  SearchOver => \A r \in Rows : edge["left"][r] < edge["right"][r]

=============================================================================
