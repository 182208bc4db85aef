------------------------- MODULE CrossRoad_proofs --------------------------
(***************************************************************************)
(* Proofs about CrossRoad, for every height of the image and all limits of *)
(* the searches: corners are rows, lines stay in the arrays, a state of    *)
(* the machine has the corners it draws with, paired corners are apart.    *)
(***************************************************************************)
EXTENDS CrossRoad, FiniteSetTheorems, TLAPS

-----------------------------------------------------------------------------
(***************************************************************************)
(* What the searches return are rows                                       *)
(***************************************************************************)
LEMMA UpPointsAreRows ==
  ASSUME NEW stop \in Rows
  PROVE  UpPoints(stop) \subseteq Rows
<1>1. H \in Nat /\ H > 12 /\ TopLimit \in 4 .. H - 6
  BY CrossAssumption
<1>2. UpStart(stop) \in Int /\ UpStart(stop) >= TopLimit
  BY <1>1 DEF UpStart, SafeStopRow, Larger, Rows
<1> QED
  BY <1>1, <1>2 DEF UpPoints, Rows

LEMMA DownPointsAreRows ==
  ASSUME NEW stop \in Rows
  PROVE  DownPoints(stop) \subseteq Rows
<1>1. H \in Nat /\ H > 12 /\ TopLimit \in 4 .. H - 6
  BY CrossAssumption
<1>2. DownEnd(stop) \in Int /\ DownEnd(stop) >= TopLimit
  BY <1>1 DEF DownEnd, SafeStopRow, Larger, Smaller, Rows
<1> QED
  BY <1>1, <1>2 DEF DownPoints, Rows

\* The upper corner is looked for Gap rows above the lower one: with Gap = 1
\* the three rows that are added again would leave the image.
LEMMA JumpsAreRows ==
  /\ LowerJumps \subseteq Rows
  /\ \A below \in LowerJumps : UpperJumps(below) \subseteq Rows
<1>1. /\ H \in Nat /\ H > 12 /\ TopLimit \in 4 .. H - 6 /\ Gap \in Nat \ {0, 1}
      /\ DownLimit \in TopLimit .. H - 6
  BY CrossAssumption
<1>2. \A below \in LowerJumps : below \in 0 .. H - 2
  BY <1>1 DEF LowerJumps, JumpPoints
<1>3. ASSUME NEW below \in LowerJumps
      PROVE  UpperJumps(below) \subseteq Rows
  <2> DEFINE bottom == IF below > TopLimit + Gap THEN below - Gap ELSE H - 5
  <2>1. bottom \in Int /\ bottom <= H - 4
    BY <1>1, <1>2
  <2>2. UpperJumps(below) = {0} \cup {i + 3 : i \in TopLimit + 1 .. bottom}
    BY DEF UpperJumps, JumpPoints
  <2> HIDE DEF bottom
  <2> QED
    BY <1>1, <2>1, <2>2 DEF Rows
<1> QED
  BY <1>1, <1>2, <1>3 DEF Rows

-----------------------------------------------------------------------------
(***************************************************************************)
(* What is drawn are rows                                                  *)
(***************************************************************************)

\* Between two rows, whichever is above.
LEMMA LineInImage ==
  ASSUME NEW down \in Rows, NEW up \in Rows, up # 0
  PROVE  /\ Line(down, up) \subseteq Rows
         /\ down > up => Line(down, up - 2) \subseteq Rows
<1>1. H \in Nat
  BY CrossAssumption
<1> QED
  BY <1>1 DEF Line, Rows

LEMMA LengthenedInImage ==
  ASSUME NEW start \in Rows
  PROVE  Lengthened(start) \subseteq Rows
<1>1. H \in Nat /\ H > 12
  BY CrossAssumption
<1> QED
  BY <1>1 DEF Lengthened, Smaller, Larger, Rows

\* With an upper corner, joined to the lower one or stretched down; without
\* one the rows are integers, but may leave the image.
LEMMA FilledInImage ==
  ASSUME NEW up \in Rows, NEW down \in Rows, NEW slope \in BOOLEAN
  PROVE  /\ up # 0 => Filled(up, down, slope) \subseteq Rows
         /\ Filled(up, down, slope) \subseteq Int
<1>1. H \in Nat /\ H > 12 /\ StretchNum \in Nat \ {0}
  BY CrossAssumption
<1>2. Connected(down, up) \subseteq Rows
  BY <1>1 DEF Connected, Rows
<1>3. StretchedUp(down) \subseteq Int
  BY <1>1 DEF StretchedUp, Larger, Rows
<1>4. StretchedDown(up, slope) \subseteq Rows
  <2>1. up .. Smaller(H - 1, up + StretchNum - 1) \subseteq Rows
    BY <1>1 DEF Smaller, Rows
  <2>2. Connected(up, H - 1) \cup {H - 1} \subseteq Rows
    BY <1>1 DEF Connected, Rows
  <2> QED
    BY <2>1, <2>2 DEF StretchedDown
<1>5. Rows \subseteq Int
  BY DEF Rows
<1> QED
  BY <1>2, <1>3, <1>4, <1>5 DEF Filled

-----------------------------------------------------------------------------
(***************************************************************************)
(* The invariant: the properties, and that nothing is drawn or found       *)
(* without a crossing before the analysis.                                 *)
(***************************************************************************)
NothingDrawnYet == pc # "done" => written = NoRows

NothingFoundYet ==
  pc = "found" /\ cross_enable = 1 /\ cross_flag # 1 /\ width # "wide" =>
    up_find = None /\ down_find = None

Inv == TypeOK /\ NothingDrawnYet /\ NothingFoundYet
       /\ DrawnInImage /\ CrossingHasItsPoints /\ CornersAreApart

LEMMA InitInv == Init => Inv
<1> SUFFICES ASSUME Init PROVE Inv
  OBVIOUS
<1>1. 0 \in Rows
  BY CrossAssumption DEF Rows
<1>2. TypeOK
  BY <1>1 DEF Init, TypeOK, Status, None, NoRows
<1> QED
  BY <1>2 DEF Init, Inv, NothingDrawnYet, NothingFoundYet, DrawnInImage,
              CrossingHasItsPoints, CornersAreApart, None, NoRows

-----------------------------------------------------------------------------
(***************************************************************************)
(* A picture is searched                                                   *)
(***************************************************************************)
LEMMA FindStep ==
  ASSUME Inv, Find
  PROVE  Inv'
<1>0. /\ pc = "idle" /\ pc' = "found" /\ written' = written
      /\ UNCHANGED <<cross_enable, cross_status, cross_flag>>
  BY DEF Find
<1>1. written = NoRows
  BY <1>0 DEF Inv, NothingDrawnYet
<1>2. 0 \in Rows
  BY CrossAssumption DEF Rows
<1>3. /\ up_find' \in [Side -> Rows] /\ down_find' \in [Side -> Rows]
      /\ stop_search_row' \in Rows /\ width' \in {"wide", "middle", "narrow"}
      /\ broken' \subseteq Side /\ steep' \subseteq Side
      /\ NothingFoundYet'
  <2>1. CASE FindJumps
    <3>1. CASE cross_flag = 1 \/ width' = "wide"
      <4>1. PICK dl \in LowerJumps, dr \in LowerJumps :
              \E ul \in UpperJumps(dl), ur \in UpperJumps(dr) :
                /\ down_find' = [left |-> dl, right |-> dr]
                /\ up_find' = [left |-> ul, right |-> ur]
        BY <2>1, <3>1 DEF FindJumps
      <4>2. PICK ul \in UpperJumps(dl), ur \in UpperJumps(dr) :
              /\ down_find' = [left |-> dl, right |-> dr]
              /\ up_find' = [left |-> ul, right |-> ur]
        BY <4>1
      <4>3. dl \in Rows /\ dr \in Rows /\ ul \in Rows /\ ur \in Rows
        BY JumpsAreRows
      <4> QED
        BY <1>0, <1>2, <2>1, <3>1, <4>2, <4>3 DEF FindJumps, NothingFoundYet, Side
    <3>2. CASE ~(cross_flag = 1 \/ width' = "wide")
      BY <1>2, <2>1, <3>2 DEF FindJumps, NothingFoundYet, None
    <3> QED
      BY <3>1, <3>2
  <2>2. CASE FindCorners
    <3>1. stop_search_row' \in Rows /\ cross_enable # 1
      BY <2>2 DEF FindCorners
    <3>2. UpPoints(stop_search_row') \subseteq Rows
          /\ DownPoints(stop_search_row') \subseteq Rows
      BY <3>1, UpPointsAreRows, DownPointsAreRows
    <3>3. up_find' \in [Side -> Rows] /\ down_find' \in [Side -> Rows]
      BY <2>2, <3>2 DEF FindCorners
    <3> QED
      BY <1>0, <2>2, <3>1, <3>3 DEF FindCorners, NothingFoundYet
  <2> QED
    BY <2>1, <2>2 DEF Find
<1>4. TypeOK'
  BY <1>0, <1>3 DEF Inv, TypeOK
<1> QED
  BY <1>0, <1>1, <1>3, <1>4
     DEF Inv, NothingDrawnYet, DrawnInImage, CrossingHasItsPoints, CornersAreApart,
         NoRows

-----------------------------------------------------------------------------
(***************************************************************************)
(* A picture is analysed, the simple way                                   *)
(***************************************************************************)

\* Two corners of a side that are both kept are Gap rows apart, and a corner
\* that is kept has been found.
LEMMA PairedApart ==
  ASSUME NEW up \in Rows, NEW down \in Rows
  PROVE  /\ Paired(up, down)[1] \in {0, up} /\ Paired(up, down)[2] \in {0, down}
         /\ Paired(up, down)[1] # 0 /\ Paired(up, down)[2] # 0 =>
              /\ Paired(up, down)[1] = up /\ Paired(up, down)[2] = down
              /\ up < down /\ down - up >= Gap
<1>1. H \in Nat /\ Gap \in Nat \ {0, 1}
  BY CrossAssumption
<1> QED
  BY <1>1 DEF Paired, Rows

LEMMA AnalyseStep ==
  ASSUME Inv, pc = "found", pc' = "done", cross_enable' = cross_enable, Analyse
  PROVE  Inv'
<1> DEFINE crossing == cross_flag = 1 \/ width = "wide"
           up(s)   == Paired(up_find[s], down_find[s])[1]
           down(s) == Paired(up_find[s], down_find[s])[2]
<1>1. /\ cross_enable = 1 /\ cross_flag' \in {0, 1}
      /\ up_find' = [s \in Side |-> up(s)] /\ down_find' = [s \in Side |-> down(s)]
      /\ written' = IF crossing
                    THEN [s \in Side |-> Filled(up(s), down(s), s \notin steep)]
                    ELSE NoRows
      /\ UNCHANGED <<cross_status, stop_search_row, width, broken, steep>>
  BY DEF Analyse
<1>2. H \in Nat /\ H > 12 /\ Gap \in Nat \ {0, 1} /\ 0 \in Rows
  BY CrossAssumption DEF Rows
<1>3. \A s \in Side : up_find[s] \in Rows /\ down_find[s] \in Rows
  BY DEF Inv, TypeOK
<1>4. \A s \in Side :
        /\ up(s) \in Rows /\ down(s) \in Rows
        /\ up(s) # 0 => up(s) = up_find[s]
        /\ up(s) # 0 /\ down(s) # 0 => up(s) < down(s) /\ down(s) - up(s) >= Gap
  BY <1>2, <1>3, PairedApart
<1>5. ~crossing => \A s \in Side : up_find[s] = 0 /\ down_find[s] = 0
  BY <1>1 DEF Inv, NothingFoundYet, None
<1>6. ~crossing => \A s \in Side : up(s) = 0
  BY <1>2, <1>4, <1>5
<1> HIDE DEF up, down, crossing
<1>7. TypeOK'
  <2>1. \A s \in Side : Filled(up(s), down(s), s \notin steep) \subseteq Int
    BY <1>4, FilledInImage
  <2>2. written' \in [Side -> SUBSET Int]
    BY <1>1, <2>1 DEF NoRows
  <2>3. up_find' \in [Side -> Rows] /\ down_find' \in [Side -> Rows]
    BY <1>1, <1>4
  <2> QED
    BY <1>1, <2>2, <2>3 DEF Inv, TypeOK
<1>8. DrawnInImage'
  <2>1. \A s \in Side : up(s) # 0 => Filled(up(s), down(s), s \notin steep) \subseteq Rows
    BY <1>4, FilledInImage
  <2>2. CASE crossing
    BY <1>1, <2>1, <2>2 DEF DrawnInImage
  <2>3. CASE ~crossing
    BY <1>1, <1>6, <2>3 DEF DrawnInImage
  <2> QED
    BY <2>2, <2>3
<1>9. CornersAreApart'
  <2> SUFFICES ASSUME NEW s \in Side, up(s) # 0, down(s) # 0
               PROVE  /\ Cardinality(written'[s]) >= Gap
                      /\ up(s) \notin written'[s] /\ written'[s] \subseteq Rows
    BY <1>1 DEF CornersAreApart
  <2>1. crossing
    BY <1>6
  <2>2. written'[s] = up(s) + 1 .. down(s)
    BY <1>1, <2>1 DEF Filled, Connected
  <2>3. /\ up(s) \in Int /\ down(s) \in Int /\ up(s) >= 0 /\ down(s) <= H - 1
        /\ up(s) < down(s) /\ down(s) - up(s) >= Gap
    BY <1>2, <1>4 DEF Rows
  <2>4. Cardinality(up(s) + 1 .. down(s))
          = IF up(s) + 1 > down(s) THEN 0 ELSE down(s) - (up(s) + 1) + 1
    BY <2>3, FS_Interval
  <2>5. Cardinality(up(s) + 1 .. down(s)) >= Gap
    BY <1>2, <2>3, <2>4
  <2>6. up(s) \notin up(s) + 1 .. down(s) /\ up(s) + 1 .. down(s) \subseteq Rows
    BY <1>2, <2>3 DEF Rows
  <2> QED
    BY <2>2, <2>5, <2>6
<1>10. NothingDrawnYet' /\ NothingFoundYet' /\ CrossingHasItsPoints'
  BY <1>1 DEF NothingDrawnYet, NothingFoundYet, CrossingHasItsPoints
<1> QED
  BY <1>7, <1>8, <1>9, <1>10 DEF Inv

-----------------------------------------------------------------------------
(***************************************************************************)
(* ... and by the state machine                                            *)
(***************************************************************************)
LEMMA AnalyseOldStep ==
  ASSUME Inv, pc = "found", pc' = "done", cross_enable' = cross_enable, AnalyseOld
  PROVE  Inv'
<1>1. cross_enable = 2
  BY DEF AnalyseOld
<1>2. H \in Nat /\ H > 12 /\ 0 \in Rows /\ Rows \subseteq Int
  BY CrossAssumption DEF Rows
<1>3. \A s \in Side : up_find[s] \in Rows /\ down_find[s] \in Rows
  BY DEF Inv, TypeOK
<1>4. CASE OldStraight
  <2>1. /\ cross_status' = Entered /\ written' = NoRows /\ UNCHANGED frame
        /\ cross_flag' \in {0, 1}
    BY <1>4 DEF OldStraight, Inv, TypeOK
  <2>2. /\ Entered \in Status
        /\ Entered \in {"ROAD", "ROAD_L"} => NotAtTheEnd("left")
        /\ Entered \in {"ROAD", "ROAD_R"} => NotAtTheEnd("right")
    BY DEF Entered, Status, Side
  <2>3. CrossingHasItsPoints'
    BY <2>1, <2>2 DEF CrossingHasItsPoints, NotAtTheEnd, frame
  <2>4. TypeOK'
    BY <2>1, <2>2 DEF Inv, TypeOK, frame, NoRows
  <2> QED
    BY <1>1, <2>1, <2>3, <2>4
       DEF Inv, NothingDrawnYet, NothingFoundYet, DrawnInImage, CornersAreApart, NoRows
<1>5. CASE OldRoad
  <2> DEFINE down == [s \in Side |-> IF down_find[s] <= up_find[s] THEN 0
                                                                 ELSE down_find[s]]
  <2>1. /\ cross_status = "ROAD" /\ down_find' = down
        /\ written' = [s \in Side |-> RoadLine(s, down)]
        /\ \/ RoadLost /\ cross_status' = "STRAIGHT" /\ cross_flag' = 0
           \/ ~RoadLost /\ UNCHANGED <<cross_status, cross_flag>>
        /\ UNCHANGED <<stop_search_row, width, up_find, broken, steep>>
    BY <1>5 DEF OldRoad
  <2>2. \A s \in Side : /\ down[s] \in Rows
                        /\ down[s] # 0 => down[s] > up_find[s]
    BY <1>2, <1>3 DEF Rows
  <2>3. down \in [Side -> Rows]
    BY <2>2
  <2> HIDE DEF down
  <2>4. ASSUME NEW s \in Side
        PROVE  /\ up_find[s] # 0 => RoadLine(s, down) \subseteq Rows
               /\ RoadLine(s, down) \subseteq Int
    <3>1. up_find[s] # 0 => RoadLine(s, down) \subseteq Rows
      BY <1>3, <2>2, LineInImage, LengthenedInImage DEF RoadLine
    <3>2. Line(down[s], up_find[s] - 2) \subseteq Int
          /\ Line(down[s], up_find[s]) \subseteq Int
      BY <1>2, <1>3, <2>2 DEF Line
    <3>3. Lengthened(up_find[s]) \subseteq Int
      BY <1>2, <1>3, LengthenedInImage
    <3>4. RoadLine(s, down) \subseteq Int
      BY <3>2, <3>3 DEF RoadLine
    <3> QED
      BY <3>1, <3>4
  <2>5. TypeOK'
    BY <2>1, <2>3, <2>4 DEF Inv, TypeOK, Status
  <2>6. DrawnInImage'
    BY <2>1, <2>4 DEF DrawnInImage
  <2>7. CrossingHasItsPoints'
    BY <2>1 DEF CrossingHasItsPoints, RoadLost, Side
  <2> QED
    BY <1>1, <2>5, <2>6, <2>7 DEF Inv, NothingDrawnYet, NothingFoundYet, CornersAreApart
<1>6. ASSUME NEW status \in {"ROAD_L", "ROAD_R"}, NEW s \in Side,
             status = "ROAD_L" <=> s = "left", Skew(status, s)
      PROVE  Inv'
  <2> DEFINE line == IF down_find[s] # 0 THEN Line(down_find[s], up_find[s])
                                         ELSE Lengthened(up_find[s])
  <2>1. /\ cross_status = status /\ UNCHANGED frame
        /\ \/ ~RoadLost /\ cross_status' = "ROAD" /\ UNCHANGED cross_flag
              /\ written' = NoRows
           \/ RoadLost /\ up_find[s] # 0 /\ UNCHANGED <<cross_status, cross_flag>>
              /\ written' = [NoRows EXCEPT ![s] = line]
           \/ up_find[s] = 0 /\ cross_status' = "STRAIGHT" /\ cross_flag' = 0
              /\ written' = NoRows
    BY <1>6 DEF Skew
  <2>2. up_find[s] # 0 => line \subseteq Rows
    BY <1>3, LineInImage, LengthenedInImage
  <2> HIDE DEF line
  <2>3. written' \in [Side -> SUBSET Int] /\ \A t \in Side : written'[t] \subseteq Rows
    BY <1>2, <2>1, <2>2 DEF NoRows
  <2>4. TypeOK'
    BY <2>1, <2>3 DEF Inv, TypeOK, frame, Status
  <2>5. CrossingHasItsPoints'
    BY <1>6, <2>1 DEF CrossingHasItsPoints, RoadLost, Side, frame
  <2>6. DrawnInImage'
    BY <2>3 DEF DrawnInImage
  <2> QED
    BY <1>1, <2>4, <2>5, <2>6 DEF Inv, NothingDrawnYet, NothingFoundYet, CornersAreApart
<1> QED
  BY <1>4, <1>5, <1>6 DEF AnalyseOld, Side

-----------------------------------------------------------------------------
(***************************************************************************)
(* All steps                                                               *)
(***************************************************************************)
LEMMA InvStep == Inv /\ [Next]_vars => Inv'
<1> SUFFICES ASSUME Inv, [Next]_vars PROVE Inv'
  OBVIOUS
<1>1. CASE Find
  BY <1>1, FindStep
<1>2. CASE Process
  BY <1>2, AnalyseStep, AnalyseOldStep DEF Process
<1>3. CASE FrameEnd
  <2>1. 0 \in Rows
    BY CrossAssumption DEF Rows
  <2>2. TypeOK'
    BY <1>3, <2>1 DEF FrameEnd, Inv, TypeOK, None, NoRows
  <2> QED
    BY <1>3, <2>2 DEF FrameEnd, Inv, NothingDrawnYet, NothingFoundYet, DrawnInImage,
                      CrossingHasItsPoints, CornersAreApart, NoRows
<1>4. CASE Switch
  BY <1>4 DEF Switch, frame, Inv, TypeOK, NothingDrawnYet, NothingFoundYet,
              DrawnInImage, CrossingHasItsPoints, CornersAreApart
<1>5. CASE UNCHANGED vars
  BY <1>5 DEF vars, frame, Inv, TypeOK, NothingDrawnYet, NothingFoundYet,
              DrawnInImage, CrossingHasItsPoints, CornersAreApart
<1> QED
  BY <1>1, <1>2, <1>3, <1>4, <1>5 DEF Next

LEMMA SpecInv == Spec => []Inv
BY InitInv, InvStep, PTL DEF Spec

-----------------------------------------------------------------------------
(***************************************************************************)
(* The theorems                                                            *)
(***************************************************************************)

\* Types: for any height and limits all corners are rows of the image.
THEOREM TypeCorrect == Spec => []TypeOK
<1>1. Inv => TypeOK
  BY DEF Inv
<1> QED
  BY <1>1, SpecInv, PTL

\* With an upper corner on a side nothing is written outside its edge line,
\* whatever the lower corners, the state and the other side are.
THEOREM DrawingCorrect == Spec => []DrawnInImage
<1>1. Inv => DrawnInImage
  BY DEF Inv
<1> QED
  BY <1>1, SpecInv, PTL

\* No state of the machine outlives its corners, through changes of
\* cross_enable too.
THEOREM PointsCorrect == Spec => []CrossingHasItsPoints
<1>1. Inv => CrossingHasItsPoints
  BY DEF Inv
<1> QED
  BY <1>1, SpecInv, PTL

\* Two corners of a side that are joined are Gap rows apart, and the line
\* between them is in the image.
THEOREM PairsCorrect == Spec => []CornersAreApart
<1>1. Inv => CornersAreApart
  BY DEF Inv
<1> QED
  BY <1>1, SpecInv, PTL

=============================================================================
