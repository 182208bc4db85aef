-------------------------- MODULE EdgeLines_proofs --------------------------
(***************************************************************************)
(* Proofs about EdgeLines, for images of any size, any rows of pixels and  *)
(* all parameters of the search: the types (no index leaves the image),    *)
(* that following the row below finds the borders of the lane, that the    *)
(* mean the car is steered by lies on the track, and, for a clear front,   *)
(* that the verdict agrees with the edges.                                 *)
(***************************************************************************)
EXTENDS EdgeLines, Counting

-----------------------------------------------------------------------------
(***************************************************************************)
(* Bounds of the image                                                     *)
(***************************************************************************)
LEMMA Bounds ==
  /\ H \in Nat /\ W \in Nat /\ Offset \in Nat \ {0} /\ Offset <= H
  /\ W > 2 * Offset + 1 /\ H > 0
  /\ ColMin = Offset /\ ColMax = W - Offset - 1
  /\ ColMin \in Cols /\ ColMax \in Cols /\ 0 \in Cols /\ 0 \in Rows /\ H - 1 \in Rows
  /\ Rows \subseteq Nat /\ Cols \subseteq Nat
  /\ \A s \in Side : Border(s) \in Cols /\ Open(s) \in Cols
BY ImageAssumption DEF ColMin, ColMax, Rows, Cols, Border, Open, Side

\* func_limit_ab gives a value within its limits when these are in order.
LEMMA LimitInside ==
  ASSUME NEW x \in Int, NEW a \in Int, NEW b \in Int, a <= b
  PROVE  Limit(x, a, b) \in Int /\ a <= Limit(x, a, b) /\ Limit(x, a, b) <= b
BY DEF Limit

LEMMA LimitWithin ==
  ASSUME NEW x \in Int, NEW a \in Int, NEW b \in Int, a <= b
  PROVE  Limit(x, a, b) \in a .. b
BY DEF Limit

\* With the limits the wrong way round it gives one of the two, or x.
LEMMA LimitCases ==
  ASSUME NEW x \in Int, NEW a \in Int, NEW b \in Int
  PROVE  \/ Limit(x, a, b) \in {a, b}
         \/ Limit(x, a, b) = x /\ a <= x /\ x <= b
BY DEF Limit

-----------------------------------------------------------------------------
(***************************************************************************)
(* The reference                                                           *)
(***************************************************************************)
LEMMA ReferencePointIsAPixel ==
  ASSUME user_image \in [Rows -> [Cols -> 0 .. 255]]
  PROVE  ReferencePoint \in BlackPoint .. 255
<1> DEFINE rows == H - RefRows .. H - 1
           cols == (W - RefCols) \div 2 .. (W + RefCols) \div 2
           f == [p \in rows \X cols |-> user_image[p[1]][p[2]]]
<1>1. /\ H \in Nat /\ W \in Nat /\ RefRows \in 1 .. H /\ RefCols \in 1 .. W - 2
      /\ BlackPoint \in 1 .. 255
  BY ImageAssumption
<1>2. rows \subseteq Rows /\ cols \subseteq Cols
  BY <1>1 DEF Rows, Cols
<1>3. IsFiniteSet(rows \X cols)
  <2>1. IsFiniteSet(rows) /\ IsFiniteSet(cols)
    BY <1>1, FS_Interval
  <2> HIDE DEF rows, cols
  <2> QED
    BY <2>1, FS_Product
<1>4. f \in [rows \X cols -> Nat]
  <2> HIDE DEF rows, cols
  <2>1. ASSUME NEW p \in rows \X cols PROVE user_image[p[1]][p[2]] \in Nat
    <3>1. p[1] \in Rows /\ p[2] \in Cols
      BY <1>2
    <3>2. user_image[p[1]] \in [Cols -> 0 .. 255]
      BY <3>1
    <3>3. user_image[p[1]][p[2]] \in 0 .. 255
      BY <3>1, <3>2
    <3> QED
      BY <3>3
  <2> QED
    BY <2>1
<1>5. SumFunction(f) \in Nat
  <2> HIDE DEF f
  <2> QED
    BY <1>3, <1>4, SumNat
<1>6. ReferencePoint = Limit(SumFunction(f) \div (RefRows * RefCols), BlackPoint, 255)
  BY DEF ReferencePoint
<1>7. RefRows * RefCols \in Nat \ {0}
  <2>1. RefRows \in Nat \ {0} /\ RefCols \in Nat \ {0}
    BY <1>1
  <2> HIDE DEF f
  <2> QED
    BY <2>1
<1>8. SumFunction(f) \div (RefRows * RefCols) \in Int
  <2> HIDE DEF f
  <2> QED
    BY <1>5, <1>7
<1> DEFINE x == SumFunction(f) \div (RefRows * RefCols)
<1>9. ReferencePoint = Limit(x, BlackPoint, 255) /\ x \in Int
  BY <1>6, <1>8
<1>10. BlackPoint \in Int /\ BlackPoint <= 255 /\ 255 \in Int
  BY <1>1
<1> HIDE DEF x, f
<1> QED
  BY <1>9, <1>10, LimitWithin

LEMMA ThresholdsArePixels ==
  ASSUME user_image \in [Rows -> [Cols -> 0 .. 255]]
  PROVE  WhiteMax \in 0 .. 255 /\ WhiteMin \in 0 .. 255
<1>1. WhiteMaxMul \in Nat /\ WhiteMinMul \in Nat /\ BlackPoint \in 1 .. 255
  BY ImageAssumption
<1>2. ReferencePoint \in Nat
  BY <1>1, ReferencePointIsAPixel
<1>3. /\ (ReferencePoint * WhiteMaxMul) \div 10 \in Int
      /\ (ReferencePoint * WhiteMinMul) \div 10 \in Int
  BY <1>1, <1>2
<1> DEFINE x == (ReferencePoint * WhiteMaxMul) \div 10
           y == (ReferencePoint * WhiteMinMul) \div 10
<1>4. WhiteMax \in BlackPoint .. 255 /\ WhiteMin \in BlackPoint .. 255
  <2>1. WhiteMax = Limit(x, BlackPoint, 255) /\ WhiteMin = Limit(y, BlackPoint, 255)
    BY DEF WhiteMax, WhiteMin
  <2>2. x \in Int /\ y \in Int
    BY <1>3
  <2>3. BlackPoint \in Int /\ BlackPoint <= 255 /\ 255 \in Int
    BY <1>1
  <2> HIDE DEF x, y
  <2>4. Limit(x, BlackPoint, 255) \in BlackPoint .. 255
    BY <2>2, <2>3, LimitWithin
  <2>5. Limit(y, BlackPoint, 255) \in BlackPoint .. 255
    BY <2>2, <2>3, LimitWithin
  <2> QED
    BY <2>1, <2>4, <2>5
<1> QED
  BY <1>1, <1>4

LEMMA RemoteDistanceIsARow ==
  ASSUME NEW c \in Cols
  PROVE  RemoteDistance(c) \in Nat
<1> DEFINE ends == {r \in Sampled :
                      \/ r = TopRow
                      \/ /\ user_image[r - Offset][c] <= WhiteMax
                         /\ \/ user_image[r][c] < WhiteMin
                            \/ Contrast(user_image[r][c], user_image[r - Offset][c])}
<1>1. H - 1 \in Nat /\ ends \in SUBSET Nat /\ \A r \in ends : r <= H - 1
  BY Bounds DEF Sampled
<1>2. RemoteDistance(c) = IF ends = {} THEN H - 1 ELSE Max(ends)
  BY DEF RemoteDistance
<1> HIDE DEF ends
<1> QED
  BY <1>1, <1>2, MaxIsGreatest

\* Some column sees farthest, whatever the columns see.
LEMMA FarthestIsAColumn ==
  ASSUME NEW distance \in [Scanned -> Nat]
  PROVE  Farthest(distance) \in Cols
<1> DEFINE best == {c \in Scanned : \A d \in Scanned : distance[c] <= distance[d]}
           seen == {distance[c] : c \in Scanned}
<1>1. 0 \in Scanned /\ Scanned \subseteq Cols
  BY Bounds DEF Scanned
<1>2. seen \in SUBSET Nat /\ seen # {}
  BY <1>1
<1>3. PICK least \in seen : \A n \in seen : least <= n
  BY <1>2, LeastExists
<1>4. PICK c \in Scanned : distance[c] = least
  BY <1>3
<1>5. c \in best
  BY <1>3, <1>4
<1>6. best \in SUBSET Nat /\ best # {}
  BY <1>1, <1>5, Bounds
<1>7. Farthest(distance) = Min(best)
  BY DEF Farthest
<1>8. Min(best) \in best
  <2> HIDE DEF best
  <2> QED
    BY <1>6, MinIsLeast
<1> QED
  BY <1>1, <1>7, <1>8

-----------------------------------------------------------------------------
(***************************************************************************)
(* One pass along a row                                                    *)
(***************************************************************************)

\* The pixel that ends a pass is one of those it looks at, and the first.
LEMMA LookFindsTheFirst ==
  ASSUME NEW s \in Side, NEW from \in Cols, NEW to \in Cols
  PROVE  LET l == Look(s, from, to)
         IN  \/ /\ l.kind = "nothing"
                /\ \A c \in Span(s, from, to) : ~EndsScan(s, c)
             \/ /\ l.kind \in {"edge", "end", "dark"}
                /\ l.col \in Cols /\ l.col \in Span(s, from, to)
                /\ EndsScan(s, l.col)
                /\ \A c \in Span(s, from, to) :
                     EndsScan(s, c) => IF s = "left" THEN c <= l.col ELSE l.col <= c
                /\ l.kind = "edge" <=> ~Dark(l.col)
                /\ l.kind = "end" => l.col = reference_col /\ Dark(l.col)
                /\ l.kind = "dark" => ~(l.col = from /\ from = reference_col)
<1> DEFINE hits == {c \in Span(s, from, to) : EndsScan(s, c)}
           first == Nearest(s, hits)
<1>1. Span(s, from, to) \subseteq Cols
  BY Bounds DEF Span, Cols
<1>2. CASE hits = {}
  BY <1>2 DEF Look
<1>3. CASE hits # {}
  <2>1. hits \in SUBSET Nat /\ \A y \in hits : y <= W
    BY <1>1, Bounds DEF Cols
  <2>2. /\ first \in hits
        /\ \A c \in hits : IF s = "left" THEN c <= first ELSE first <= c
    <3> HIDE DEF hits
    <3> QED
      BY <1>3, <2>1, MinIsLeast, MaxIsGreatest, Bounds DEF Nearest
  <2>3. Look(s, from, to) =
          [kind |-> IF ~Dark(first) THEN "edge"
                    ELSE IF first = from /\ from = reference_col THEN "end"
                    ELSE "dark",
           col |-> first]
    BY <1>3 DEF Look
  <2> HIDE DEF first
  <2> QED
    BY <1>1, <2>2, <2>3
<1> QED
  BY <1>2, <1>3

-----------------------------------------------------------------------------
(***************************************************************************)
(* One row                                                                 *)
(***************************************************************************)

\* Start and end of a search, and the edges, are columns of the image.
LEMMA ResultIsColumns ==
  ASSUME TypeOK, NEW s \in Side
  PROVE  /\ Result(s).col \in Cols \/ Result(s).kind = "nothing"
         /\ Result(s).kind = "edge" => Result(s).col \in Cols
         /\ EdgeOf(s, Result(s)) \in Cols
         /\ StartOf(s, Result(s)) \in Cols /\ EndOf(s, Result(s)) \in Cols
<1>1. /\ start[s] \in Cols /\ end[s] \in Cols /\ reference_col \in Cols
      /\ Border(s) \in Cols /\ edge[s][row] \in Cols
  BY Bounds DEF TypeOK
<1>2. /\ Follow(s).kind \in {"edge", "end", "dark"} => Follow(s).col \in Cols
      /\ Whole(s).kind \in {"edge", "end", "dark"} => Whole(s).col \in Cols
      /\ Follow(s).kind \in {"edge", "end", "dark", "nothing"}
      /\ Whole(s).kind \in {"edge", "end", "dark", "nothing"}
  BY <1>1, LookFindsTheFirst DEF Follow, Whole
<1>3. /\ Result(s).kind \in {"edge", "end", "dark"} => Result(s).col \in Cols
      /\ Result(s).kind \in {"edge", "end", "dark", "nothing"}
  BY <1>2 DEF Result
<1> DEFINE r == Result(s)
<1> HIDE DEF r
<1>4. r.kind \in {"edge", "end", "dark"} => r.col \in Cols
  BY <1>3 DEF r
<1>5. EdgeOf(s, r) \in Cols
  <2>1. CASE r.kind = "edge"
    <3> DEFINE x == Beside(s, r.col)
    <3>1. r.col \in Int /\ Offset \in Int
      <4>1. r.col \in Cols
        BY <1>4, <2>1
      <4>2. Cols \subseteq Int /\ Offset \in Int
        BY Bounds DEF Cols
      <4> QED
        BY <4>1, <4>2
    <3>2. x \in Int
      BY <3>1 DEF Beside
    <3>3. W - 1 \in Int /\ 0 <= W - 1
      BY Bounds
    <3>4. EdgeOf(s, r) = Limit(x, 0, W - 1)
      BY <2>1 DEF EdgeOf
    <3> HIDE DEF x
    <3>5. Limit(x, 0, W - 1) \in 0 .. W - 1
      BY <3>2, <3>3 DEF Limit
    <3> QED
      BY <3>4, <3>5 DEF Cols
  <2>2. CASE r.kind = "dark"
    BY <1>4, <2>2 DEF EdgeOf
  <2>3. CASE r.kind \notin {"edge", "dark"}
    BY <1>1, <1>2, <2>3 DEF EdgeOf
  <2> QED
    BY <2>1, <2>2, <2>3
<1>6. StartOf(s, r) \in Cols /\ EndOf(s, r) \in Cols
  <2>1. CASE r.kind # "edge"
    BY <1>1, <2>1 DEF StartOf, EndOf
  <2>2. CASE r.kind = "edge"
    <3> DEFINE col == r.col
               more == col + SearchRange
               less == col - SearchRange
    <3>1. /\ col \in Cols /\ col \in Int /\ more \in Int /\ less \in Int
          /\ more >= col /\ less <= col
      <4>1. col \in Cols /\ col \in Nat /\ SearchRange \in Nat
        BY <1>4, <2>2, Bounds, ImageAssumption
      <4> HIDE DEF col
      <4> QED
        BY <4>1
    <3>2. /\ ColMin \in Cols /\ ColMax \in Cols /\ ColMin \in Int /\ ColMax \in Int
          /\ \A x, y, z \in Int : x \in Cols /\ z \in Cols /\ x <= y /\ y <= z => y \in Cols
      BY Bounds DEF Cols
    <3>3. /\ StartOf(s, r) = IF s = "left" THEN Limit(more, col, ColMax)
                                           ELSE Limit(less, ColMin, col)
          /\ EndOf(s, r) = IF s = "left" THEN Limit(less, ColMin, col)
                                         ELSE Limit(more, col, ColMax)
      BY <2>2 DEF StartOf, EndOf
    <3> HIDE DEF col, more, less
    <3>4. Limit(more, col, ColMax) \in Cols
      BY <3>1, <3>2, LimitCases
    <3>5. Limit(less, ColMin, col) \in Cols
      BY <3>1, <3>2, LimitCases
    <3> QED
      BY <3>3, <3>4, <3>5
  <2> QED
    BY <2>1, <2>2
<1> QED
  BY <1>3, <1>5, <1>6 DEF r

-----------------------------------------------------------------------------
(***************************************************************************)
(* Types                                                                   *)
(***************************************************************************)
LEMMA InitTypes == Init => TypeOK
<1> SUFFICES ASSUME Init PROVE TypeOK
  OBVIOUS
<1>1. user_image \in [Rows -> [Cols -> 0 .. 255]]
  BY DEF Init, NoImage
<1>2. edge \in [Side -> [Rows -> Cols]]
  BY Bounds DEF Init, OpenLines
<1> QED
  BY <1>1, <1>2, Bounds DEF Init, TypeOK

TheMean == SumFunction([r \in Averaged |-> Mid(r) * Weight[r]])
             \div SumFunction([r \in Averaged |-> Weight[r]])

LEMMA AveragedRows ==
  ASSUME TypeOK
  PROVE  /\ stop_search_row \in Averaged /\ Averaged \subseteq Rows
         /\ H - 1 \in Averaged /\ IsFiniteSet(Averaged)
         /\ \A r \in Averaged : Mid(r) \in 0 .. W - 1
<1>1. /\ stop_search_row \in Rows /\ H - 1 \in Averaged /\ Averaged \subseteq Rows
      /\ stop_search_row \in Averaged
  BY Bounds DEF TypeOK, Averaged, Rows
<1>2. IsFiniteSet(Averaged)
  BY <1>1, Bounds, FS_Interval DEF Averaged
<1>3. \A r \in Averaged : Mid(r) \in 0 .. W - 1
  <2>1. \A r \in Averaged : edge["left"][r] \in Cols /\ edge["right"][r] \in Cols
    BY <1>1 DEF TypeOK, Side
  <2> QED
    BY <2>1, Bounds DEF Mid, Cols
<1> QED
  BY <1>1, <1>2, <1>3

\* The weights are positive, and so the mean of the mid line lies between any
\* two bounds of it.
LEMMA MeanBetween ==
  ASSUME TypeOK, NEW lo \in Nat, NEW hi \in Nat,
         \A r \in Averaged : lo <= Mid(r) /\ Mid(r) <= hi
  PROVE  TheMean \in Nat /\ lo <= TheMean /\ TheMean <= hi
<1> DEFINE f == [r \in Averaged |-> Mid(r) * Weight[r]]
           g == [r \in Averaged |-> Weight[r]]
           F == SumFunction(f)
           G == SumFunction(g)
<1>1. \A r \in Averaged : Weight[r] \in Nat \ {0}
  BY AveragedRows, ImageAssumption
<1>2. \A r \in Averaged : /\ Mid(r) * Weight[r] \in Nat
                          /\ lo * Weight[r] <= Mid(r) * Weight[r]
                          /\ Mid(r) * Weight[r] <= hi * Weight[r]
  <2> SUFFICES ASSUME NEW r \in Averaged
               PROVE  /\ Mid(r) * Weight[r] \in Nat
                      /\ lo * Weight[r] <= Mid(r) * Weight[r]
                      /\ Mid(r) * Weight[r] <= hi * Weight[r]
    OBVIOUS
  <2> DEFINE m == Mid(r)
             w == Weight[r]
  <2>1. m \in Nat /\ w \in Nat \ {0} /\ lo <= m /\ m <= hi
    BY <1>1, AveragedRows, Bounds
  <2> HIDE DEF m, w
  <2>2. m * w \in Nat /\ lo * w <= m * w /\ m * w <= hi * w
    BY <2>1
  <2> QED
    BY <2>2 DEF m, w
<1>3. /\ f \in [Averaged -> Nat] /\ g \in [Averaged -> Nat]
      /\ \A r \in Averaged : lo * g[r] <= f[r] /\ f[r] <= hi * g[r]
  BY <1>1, <1>2
<1>4. IsFiniteSet(Averaged) /\ H - 1 \in Averaged /\ g[H - 1] \in Nat \ {0}
  BY <1>1, AveragedRows
<1> HIDE DEF f, g
<1>5. F \in Nat /\ G \in Nat /\ F <= hi * G /\ g[H - 1] <= G
  BY <1>3, <1>4, SumBound
<1>6. lo * G <= F
  BY <1>3, <1>4, SumAtLeast
<1>7. TheMean = F \div G
  BY DEF TheMean, F, G, f, g
<1> HIDE DEF F, G
<1>8. G \in Nat \ {0}
  BY <1>4, <1>5
<1> DEFINE q == F \div G
<1>9. q \in Nat /\ q * G <= F /\ F < (q + 1) * G
  BY <1>5, <1>8
<1> HIDE DEF q
<1>10. ~(hi + 1 <= q)
  <2> SUFFICES ASSUME hi + 1 <= q PROVE FALSE
    OBVIOUS
  <2>1. (hi + 1) * G <= q * G /\ (hi + 1) * G = hi * G + G
    BY <1>8, <1>9
  <2>2. hi * G \in Nat /\ q * G \in Nat
    BY <1>8, <1>9
  <2> QED
    BY <1>5, <1>8, <1>9, <2>1, <2>2
<1>11. ~(q + 1 <= lo)
  <2> SUFFICES ASSUME q + 1 <= lo PROVE FALSE
    OBVIOUS
  <2>1. (q + 1) * G <= lo * G
    BY <1>8, <1>9
  <2>2. (q + 1) * G \in Nat /\ lo * G \in Nat
    BY <1>8, <1>9
  <2> QED
    BY <1>5, <1>6, <1>9, <2>1, <2>2
<1> QED
  BY <1>7, <1>9, <1>10, <1>11 DEF q

\* Each row has a middle in the image, and so the mean is a column.
LEMMA MeanIsAColumn ==
  ASSUME TypeOK
  PROVE  TheMean \in Cols
<1>1. \A r \in Averaged : 0 <= Mid(r) /\ Mid(r) <= W - 1
  BY AveragedRows, Bounds
<1>2. W - 1 \in Nat /\ 0 \in Nat
  BY Bounds
<1>3. TheMean \in Nat /\ TheMean <= W - 1
  BY <1>1, <1>2, MeanBetween
<1> QED
  BY <1>2, <1>3 DEF Cols

LEMMA TypeStep == TypeOK /\ [Next]_vars => TypeOK'
<1> SUFFICES ASSUME TypeOK, [Next]_vars PROVE TypeOK'
  OBVIOUS
<1> USE DEF TypeOK
<1>1. CASE GetImage
  <2>1. user_image' \in [Rows -> [Cols -> 0 .. 255]]
    BY <1>1, ImageAssumption DEF GetImage
  <2> QED
    BY <1>1, <2>1 DEF GetImage, thresholds, search
<1>2. CASE FindReference
  <2>1. white_max_point' \in 0 .. 255 /\ white_min_point' \in 0 .. 255
    BY <1>2, ThresholdsArePixels DEF FindReference
  <2>2. reference_col' \in Cols
    <3>1. [c \in Scanned |-> RemoteDistance(c)] \in [Scanned -> Nat]
      BY RemoteDistanceIsARow DEF Scanned
    <3> QED
      BY <1>2, <3>1, FarthestIsAColumn DEF FindReference
  <2>3. edge' \in [Side -> [Rows -> Cols]]
    BY <1>2, Bounds DEF FindReference, OpenLines
  <2>4. start' \in [Side -> Cols] /\ end' \in [Side -> Cols]
    BY <1>2, <2>2, Bounds DEF FindReference
  <2> QED
    BY <1>2, <2>1, <2>2, <2>3, <2>4, Bounds DEF FindReference
<1>3. CASE SearchEnds
  <2>1. edge' \in [Side -> [Rows -> Cols]]
    BY <1>3, Bounds DEF SearchEnds
  <2> QED
    BY <1>3, <2>1 DEF SearchEnds, SearchFrame, thresholds
<1>4. CASE SearchRow
  <2>1. \A s \in Side : /\ EdgeOf(s, Result(s)) \in Cols
                        /\ StartOf(s, Result(s)) \in Cols /\ EndOf(s, Result(s)) \in Cols
    BY ResultIsColumns
  <2>2. /\ edge' = [s \in Side |-> [edge[s] EXCEPT ![row] = EdgeOf(s, Result(s))]]
        /\ start' = [s \in Side |-> StartOf(s, Result(s))]
        /\ end' = [s \in Side |-> EndOf(s, Result(s))]
    BY <1>4 DEF SearchRow
  <2>3. /\ edge' \in [Side -> [Rows -> Cols]]
        /\ start' \in [Side -> Cols] /\ end' \in [Side -> Cols]
    BY <2>1, <2>2
  <2>4. row' \in Rows
    BY <1>4, Bounds DEF SearchRow, Rows
  <2> QED
    BY <1>4, <2>3, <2>4 DEF SearchRow, SearchFrame, thresholds
<1>5. CASE CalculateMid
  BY <1>5, MeanIsAColumn DEF CalculateMid, TheMean, thresholds, search
<1>6. CASE FrameEnd
  <2>1. user_image' \in [Rows -> [Cols -> 0 .. 255]]
    BY <1>6 DEF FrameEnd, NoImage
  <2>2. edge' \in [Side -> [Rows -> Cols]]
    BY <1>6, Bounds DEF FrameEnd, OpenLines
  <2>3. start' \in [Side -> Cols] /\ end' \in [Side -> Cols]
    BY <1>6, Bounds DEF FrameEnd
  <2>4. /\ row' \in Rows /\ stop_search_row' \in Rows /\ mean' \in Cols
        /\ reference_col' \in Cols
    BY <1>6, Bounds DEF FrameEnd
  <2>5. pc' = "idle" /\ cross_flag' = 0 /\ white_max_point' = 0 /\ white_min_point' = 0
    BY <1>6 DEF FrameEnd
  <2> QED
    BY <2>1, <2>2, <2>3, <2>4, <2>5
<1>7. CASE UNCHANGED vars
  BY <1>7 DEF vars, thresholds, search
<1> QED
  BY <1>1, <1>2, <1>3, <1>4, <1>5, <1>6, <1>7 DEF Next

\* Types: for images of any size and all parameters, the row, the columns a
\* search begins and ends with, the edges and the mean stay in the image.
THEOREM TypeCorrect == Spec => []TypeOK
BY InitTypes, TypeStep, PTL DEF Spec

-----------------------------------------------------------------------------
(***************************************************************************)
(* The rows that the search is done with: each has a lane, and edges just  *)
(* outside it.  The invariant says so while the search goes up the image;  *)
(* the row it stops at has the borders for its edges, unless it is the top *)
(* row and done with, too.  Where the search of a row begins does not      *)
(* matter, and so nothing is said of start and end.                        *)
(***************************************************************************)
JustOutside(s, r, e) ==
  IF s = "left"
  THEN e \in Limit(First(r) - Offset, 0, W - 1) .. Limit(First(r) - 1, 0, W - 1)
  ELSE e \in Limit(Last(r) + 1, 0, W - 1) .. Limit(Last(r) + Offset, 0, W - 1)

Visible(r) == reference_col \in ColMin .. ColMax /\ NoGlare(r) /\ OneLane(r)

RowDone(r) ==
  /\ Lane(r) # {}
  /\ Visible(r) => \A s \in Side : JustOutside(s, r, edge[s][r])

Stopped(r) == RowDone(r) \/ \A s \in Side : edge[s][r] = Border(s)

SearchedInv ==
  /\ pc = "edges" => stop_search_row = 0 /\ \A r \in row + 1 .. H - 1 : RowDone(r)
  /\ SearchOver => (\A r \in Searched : RowDone(r)) /\ Stopped(stop_search_row)
  /\ pc = "done" => mean = TheMean

IInv == TypeOK /\ SearchedInv

-----------------------------------------------------------------------------
(***************************************************************************)
(* What the passes along a row find                                        *)
(***************************************************************************)
LEMMA LaneEnds ==
  ASSUME TypeOK, NEW r \in Rows, Lane(r) # {}
  PROVE  /\ First(r) \in Lane(r) /\ Last(r) \in Lane(r)
         /\ First(r) \in Int /\ Last(r) \in Int
         /\ \A c \in Lane(r) : First(r) <= c /\ c <= Last(r)
<1>1. Lane(r) \in SUBSET Nat /\ W \in Nat /\ \A c \in Lane(r) : c <= W
  BY Bounds DEF Lane, Cols
<1> DEFINE S == Lane(r)
<1>2. First(r) = Min(S) /\ Last(r) = Max(S)
  BY DEF First, Last
<1> HIDE DEF S
<1>3. S \in SUBSET Nat /\ S # {} /\ \A c \in S : c <= W
  BY <1>1 DEF S
<1>4. Min(S) \in S /\ Max(S) \in S /\ \A c \in S : Min(S) <= c /\ c <= Max(S)
  BY <1>1, <1>3, MinIsLeast, MaxIsGreatest
<1> QED
  BY <1>2, <1>3, <1>4 DEF S

LEMMA DarkIsOffTheLane ==
  ASSUME TypeOK, NEW c \in Cols
  PROVE  Dark(c) <=> c \notin Lane(row)
<1>1. user_image[row] \in [Cols -> 0 .. 255] /\ white_min_point \in 0 .. 255
  BY DEF TypeOK
<1>2. user_image[row][c] \in 0 .. 255
  BY <1>1
<1> QED
  BY <1>1, <1>2 DEF Dark, Lane

\* A pass that ends at an edge gives one just outside the lane, wherever it
\* began: the pixel it ends at is of the lane and the one beside it is not,
\* or the lane goes on to the border.
LEMMA EdgeIsJustOutside ==
  ASSUME TypeOK, OneLane(row), NEW s \in Side, NEW c \in Lane(row), EndsScan(s, c)
  PROVE  JustOutside(s, row, Limit(Beside(s, c), 0, W - 1))
<1> DEFINE F == First(row)
           L == Last(row)
           b == Beside(s, c)
<1>1. /\ F \in Int /\ L \in Int /\ c \in Int /\ F <= c /\ c <= L /\ c \in Cols
      /\ W \in Nat /\ Offset \in Nat \ {0} /\ 0 <= W - 1
  <2>1. row \in Rows /\ Lane(row) # {}
    BY DEF TypeOK
  <2>2. c \in Cols /\ Cols \subseteq Int
    BY DEF Lane, Cols
  <2> QED
    BY <2>1, <2>2, LaneEnds, Bounds
<1>2. b \in Cols
  BY DEF EndsScan
<1>3. Lane(row) = F .. L
  BY DEF OneLane
<1>4. ~Dark(c)
  BY <1>1, DarkIsOffTheLane
<1>5. c = Border(s) \/ b \notin Lane(row)
  BY <1>2, <1>4 DEF EndsScan, OneLane
<1>6. CASE s = "left"
  <2>1. b = c - Offset /\ 0 <= b /\ b <= W - 1
    BY <1>2, <1>6 DEF Beside, Cols
  <2>2. b < F \/ c = Offset
    BY <1>1, <1>3, <1>5, <1>6, <2>1, Bounds DEF Border
  <2> HIDE DEF F, L, b
  <2>3. b \in Limit(F - Offset, 0, W - 1) .. Limit(F - 1, 0, W - 1)
    BY <1>1, <2>1, <2>2 DEF Limit
  <2>4. Limit(b, 0, W - 1) = b
    BY <1>1, <2>1 DEF Limit
  <2> QED
    BY <1>6, <2>3, <2>4 DEF JustOutside, F, L, b
<1>7. CASE s = "right"
  <2>1. b = c + Offset /\ 0 <= b /\ b <= W - 1
    BY <1>2, <1>7 DEF Beside, Cols
  <2>2. L < b \/ c = W - Offset - 1
    BY <1>1, <1>3, <1>5, <1>7, <2>1, Bounds DEF Border
  <2> HIDE DEF F, L, b
  <2>3. b \in Limit(L + 1, 0, W - 1) .. Limit(L + Offset, 0, W - 1)
    BY <1>1, <2>1, <2>2 DEF Limit
  <2>4. Limit(b, 0, W - 1) = b
    BY <1>1, <2>1 DEF Limit
  <2> QED
    BY <1>7, <2>3, <2>4 DEF JustOutside, F, L, b
<1> QED
  BY <1>6, <1>7 DEF Side

\* The pass along all of a visible row from a column of the lane ends at an
\* edge: the end of the lane is one, and so is the border.
LEMMA WholeFindsAnEdge ==
  ASSUME TypeOK, Visible(row), NEW s \in Side, Whole(s).kind # "end"
  PROVE  Whole(s).kind = "edge"
<1> DEFINE w == Whole(s)
           ref == reference_col
<1>1. /\ ref \in Cols /\ Border(s) \in Cols /\ row \in Rows
      /\ ref \in ColMin .. ColMax /\ NoGlare(row) /\ OneLane(row)
  BY Bounds DEF TypeOK, Visible
<1>2. \A c \in ColMin .. ColMax : c \in Cols /\ c \in Int /\ Beside(s, c) \in Cols
  BY Bounds DEF Beside, Cols, Side
<1>3. \A c \in Span(s, ref, Border(s)) : c \in ColMin .. ColMax
  BY <1>1, Bounds DEF Span, Border, Side
<1>4. \A c \in ColMin .. ColMax : user_image[row][Beside(s, c)] <= white_max_point
  BY <1>1, <1>2 DEF NoGlare
<1>5. \/ /\ w.kind = "nothing"
         /\ \A c \in Span(s, ref, Border(s)) : ~EndsScan(s, c)
      \/ /\ w.kind \in {"edge", "end", "dark"}
         /\ w.col \in Cols /\ w.col \in Span(s, ref, Border(s))
         /\ EndsScan(s, w.col)
         /\ \A c \in Span(s, ref, Border(s)) :
              EndsScan(s, c) => IF s = "left" THEN c <= w.col ELSE w.col <= c
         /\ w.kind = "edge" <=> ~Dark(w.col)
         /\ w.kind = "end" => w.col = reference_col /\ Dark(w.col)
         /\ w.kind = "dark" => ~(w.col = ref /\ ref = reference_col)
  BY <1>1, LookFindsTheFirst DEF Whole
<1>6. w.kind # "nothing"
  <2>1. Border(s) \in Span(s, ref, Border(s)) /\ Border(s) \in ColMin .. ColMax
    BY <1>1, Bounds DEF Span, Border, Side
  <2>2. EndsScan(s, Border(s))
    BY <1>2, <1>4, <2>1 DEF EndsScan
  <2> HIDE DEF w
  <2> QED
    BY <1>5, <2>1, <2>2
<1> HIDE DEF w
<1>7. SUFFICES ASSUME w.kind = "dark" PROVE FALSE
  BY <1>5, <1>6 DEF w
<1> DEFINE c == w.col
<1>8. /\ c \in Span(s, ref, Border(s)) /\ c # ref /\ Dark(c) /\ c \in Cols
      /\ \A d \in Span(s, ref, Border(s)) :
           EndsScan(s, d) => IF s = "left" THEN d <= c ELSE c <= d
  BY <1>5, <1>7
<1> HIDE DEF c
<1>9. c \in ColMin .. ColMax /\ c \notin Lane(row)
  BY <1>3, <1>8, DarkIsOffTheLane
<1>10. ref \in Span(s, ref, Border(s))
  BY <1>1, Bounds DEF Span, Border, Side
<1>11. ~Dark(ref)
  <2> SUFFICES ASSUME Dark(ref) PROVE FALSE
    OBVIOUS
  <2>1. EndsScan(s, ref)
    BY <1>1, <1>2 DEF EndsScan
  <2> QED
    BY <1>1, <1>2, <1>8, <1>9, <1>10, <2>1, Bounds DEF Span, Border, Side
<1>12. ref \in Lane(row)
  BY <1>1, <1>11, DarkIsOffTheLane
<1> DEFINE e == IF s = "left" THEN First(row) ELSE Last(row)
<1>13. /\ e \in Lane(row) /\ e \in Int
       /\ First(row) \in Int /\ Last(row) \in Int
       /\ First(row) <= ref /\ ref <= Last(row)
       /\ Lane(row) = First(row) .. Last(row)
  BY <1>1, <1>12, LaneEnds DEF OneLane
<1>14. /\ e \in Span(s, ref, Border(s)) /\ e \in ColMin .. ColMax
       /\ IF s = "left" THEN c < e ELSE e < c
  <2>1. ref \in Int /\ c \in Int /\ ColMin \in Int /\ ColMax \in Int
    BY <1>1, <1>9, Bounds DEF Cols
  <2>2. CASE s = "left"
    <3>1. c <= ref /\ ColMin <= c /\ ref <= ColMax /\ Border(s) = ColMin
      BY <1>1, <1>8, <1>9, <2>2, <2>1 DEF Span, Border
    <3>2. c < First(row) /\ e = First(row)
      BY <1>9, <1>13, <2>1, <2>2, <3>1
    <3> QED
      BY <1>13, <2>1, <2>2, <3>1, <3>2 DEF Span
  <2>3. CASE s = "right"
    <3>1. ref <= c /\ c <= ColMax /\ ColMin <= ref /\ Border(s) = ColMax
      BY <1>1, <1>8, <1>9, <2>3, <2>1 DEF Span, Border
    <3>2. Last(row) < c /\ e = Last(row)
      BY <1>9, <1>13, <2>1, <2>3, <3>1
    <3> QED
      BY <1>13, <2>1, <2>3, <3>1, <3>2 DEF Span
  <2> QED
    BY <2>2, <2>3 DEF Side
<1>15. Beside(s, e) \in Cols /\ Beside(s, e) \notin Lane(row)
  <2>1. Beside(s, e) \in Cols
    BY <1>2, <1>14
  <2>2. CASE s = "left"
    BY <1>13, <2>1, <2>2, Bounds DEF Beside, Cols
  <2>3. CASE s = "right"
    BY <1>13, <2>1, <2>3, Bounds DEF Beside, Cols
  <2> QED
    BY <2>1, <2>2, <2>3 DEF Side
<1> HIDE DEF e
<1>16. EndsScan(s, e)
  BY <1>1, <1>4, <1>13, <1>14, <1>15 DEF EndsScan, OneLane
<1> QED
  BY <1>8, <1>9, <1>13, <1>14, <1>16

\* A row that the search goes past has a lane, and both of its edges are found.
LEMMA RowPassed ==
  ASSUME TypeOK, \A s \in Side : Result(s).kind # "end"
  PROVE  /\ Lane(row) # {}
         /\ Visible(row) =>
              \A s \in Side : JustOutside(s, row, EdgeOf(s, Result(s)))
<1>1. /\ reference_col \in Cols /\ row \in Rows
      /\ \A s \in Side : start[s] \in Cols /\ end[s] \in Cols /\ Border(s) \in Cols
  BY Bounds DEF TypeOK
<1>2. \A s \in Side :
        /\ Follow(s).kind = "edge" => /\ Follow(s).col \in Lane(row)
                                      /\ EndsScan(s, Follow(s).col)
        /\ Whole(s).kind = "edge" => /\ Whole(s).col \in Lane(row)
                                     /\ EndsScan(s, Whole(s).col)
  BY <1>1, LookFindsTheFirst, DarkIsOffTheLane DEF Follow, Whole
<1>3. \A s \in Side : Result(s).kind = "edge" => /\ Result(s).col \in Lane(row)
                                                 /\ EndsScan(s, Result(s).col)
  BY <1>2 DEF Result
<1>4. Lane(row) # {}
  <2> SUFFICES ASSUME Lane(row) = {} PROVE FALSE
    OBVIOUS
  <2>1. \A s \in Side : Follow(s).kind # "edge" /\ Result(s) = Whole(s)
    BY <1>2 DEF Result
  <2>2. PICK s \in Side : /\ reference_col \in Span(s, reference_col, Border(s))
                         /\ Beside(s, reference_col) \in Cols
    <3>1. CASE reference_col >= ColMin
      BY <1>1, <3>1, Bounds DEF Side, Span, Beside, Border, Cols
    <3>2. CASE reference_col <= ColMax
      BY <1>1, <3>2, Bounds DEF Side, Span, Beside, Border, Cols
    <3> QED
      BY <1>1, <3>1, <3>2, Bounds DEF Cols
  <2>3. EndsScan(s, reference_col)
    BY <1>1, <2>2, DarkIsOffTheLane DEF EndsScan
  <2> DEFINE w == Whole(s)
  <2>4. w.kind \notin {"edge", "end"}
    BY <1>2, <2>1
  <2>5. /\ w.col \in Span(s, reference_col, Border(s)) /\ w.col \in Cols
        /\ IF s = "left" THEN reference_col <= w.col ELSE w.col <= reference_col
        /\ w.col # reference_col
    BY <1>1, <2>2, <2>3, <2>4, LookFindsTheFirst DEF Whole
  <2> HIDE DEF w
  <2> QED
    BY <1>1, <2>5, Bounds DEF Span, Cols
<1>5. ASSUME Visible(row), NEW s \in Side
      PROVE  JustOutside(s, row, EdgeOf(s, Result(s)))
  <2>1. Result(s).kind = "edge"
    <3>1. CASE cross_flag = 0 /\ Follow(s).kind \in {"edge", "end"}
      BY <3>1 DEF Result
    <3>2. CASE ~(cross_flag = 0 /\ Follow(s).kind \in {"edge", "end"})
      <4>1. Result(s) = Whole(s)
        BY <3>2 DEF Result
      <4> QED
        BY <1>5, <4>1, WholeFindsAnEdge
    <3> QED
      BY <3>1, <3>2
  <2>2. Result(s).col \in Lane(row) /\ EndsScan(s, Result(s).col)
    BY <1>3, <2>1
  <2>3. EdgeOf(s, Result(s)) = Limit(Beside(s, Result(s).col), 0, W - 1)
    BY <2>1 DEF EdgeOf
  <2> QED
    BY <1>5, <2>2, <2>3, EdgeIsJustOutside DEF Visible
<1> QED
  BY <1>4, <1>5

-----------------------------------------------------------------------------
(***************************************************************************)
(* The search                                                              *)
(***************************************************************************)

\* What is said of a row depends on the picture, the thresholds, the reference
\* column and the row's own edges.
LEMMA RowKept ==
  ASSUME UNCHANGED <<user_image, thresholds, reference_col>>, NEW r,
         \A s \in Side : edge'[s][r] = edge[s][r], RowDone(r)
  PROVE  RowDone(r)'
BY DEF RowDone, Visible, JustOutside, Lane, First, Last, OneLane, NoGlare, thresholds

LEMMA SearchedInit == Init => SearchedInv
BY DEF Init, SearchedInv, SearchOver

LEMMA SearchedStep == IInv /\ [Next]_vars => SearchedInv'
<1> SUFFICES ASSUME TypeOK, SearchedInv, [Next]_vars PROVE SearchedInv'
  BY DEF IInv
<1>1. row \in Nat /\ row \in Rows /\ stop_search_row \in Rows
  BY Bounds DEF TypeOK
<1>2. CASE GetImage
  BY <1>2 DEF GetImage, SearchedInv, SearchOver
<1>3. CASE FindReference
  BY <1>3, Bounds DEF FindReference, SearchedInv, SearchOver
<1>4. CASE SearchEnds
  <2>1. /\ pc = "edges" /\ pc' = "mid" /\ stop_search_row' = row
        /\ UNCHANGED <<user_image, thresholds, reference_col>>
    BY <1>4 DEF SearchEnds, SearchFrame
  <2>2. \A r \in row + 1 .. H - 1 : RowDone(r)'
    <3> SUFFICES ASSUME NEW r \in row + 1 .. H - 1 PROVE RowDone(r)'
      OBVIOUS
    <3>1. RowDone(r)
      BY <2>1 DEF SearchedInv
    <3>2. r \in Rows /\ ~(r <= row)
      BY <1>1, Bounds DEF Rows
    <3>3. \A s \in Side : edge'[s][r] = edge[s][r]
      BY <1>4, <3>2 DEF SearchEnds
    <3> QED
      BY <2>1, <3>1, <3>3, RowKept
  <2>3. \A s \in Side : edge'[s][row] = Border(s)
    BY <1>1, <1>4 DEF SearchEnds
  <2> QED
    BY <2>1, <2>2, <2>3 DEF SearchedInv, Searched, SearchOver, Stopped
<1>5. CASE SearchRow
  <2>1. /\ pc = "edges" /\ pc' = IF row = 0 THEN "mid" ELSE "edges"
        /\ row' = IF row = 0 THEN row ELSE row - 1
        /\ \A s \in Side : Result(s).kind # "end"
        /\ UNCHANGED <<user_image, thresholds, reference_col, stop_search_row>>
    BY <1>5 DEF SearchRow, SearchFrame
  <2>2. \A s \in Side, r \in Rows :
          edge'[s][r] = IF r = row THEN EdgeOf(s, Result(s)) ELSE edge[s][r]
    <3>1. edge' = [s \in Side |-> [edge[s] EXCEPT ![row] = EdgeOf(s, Result(s))]]
      BY <1>5 DEF SearchRow
    <3>2. \A s \in Side : edge[s] \in [Rows -> Cols]
      BY DEF TypeOK
    <3> QED
      BY <3>1, <3>2
  <2>3. \A r \in Rows : r = row => RowDone(r)'
    <3> SUFFICES ASSUME NEW r \in Rows, r = row PROVE RowDone(r)'
      OBVIOUS
    <3>1. /\ Lane(r) # {}
          /\ Visible(r) => \A s \in Side : JustOutside(s, r, EdgeOf(s, Result(s)))
      BY <2>1, RowPassed
    <3>2. \A s \in Side : edge'[s][r] = EdgeOf(s, Result(s))
      BY <1>1, <2>2
    <3> QED
      BY <2>1, <3>1, <3>2 DEF RowDone, Visible, JustOutside, Lane, First, Last,
         OneLane, NoGlare, thresholds
  <2>4. \A r \in row + 1 .. H - 1 : RowDone(r)'
    <3> SUFFICES ASSUME NEW r \in row + 1 .. H - 1 PROVE RowDone(r)'
      OBVIOUS
    <3>1. RowDone(r)
      BY <2>1 DEF SearchedInv
    <3>2. r \in Rows /\ r # row
      BY <1>1, Bounds DEF Rows
    <3>3. \A s \in Side : edge'[s][r] = edge[s][r]
      BY <2>2, <3>2
    <3> QED
      BY <2>1, <3>1, <3>3, RowKept
  <2>5. \A r \in row .. H - 1 : RowDone(r)'
    BY <1>1, <2>3, <2>4, Bounds DEF Rows
  <2>6. stop_search_row = 0
    BY <2>1 DEF SearchedInv
  <2>7. CASE row = 0
    BY <1>1, <2>1, <2>3, <2>5, <2>6, <2>7 DEF SearchedInv, SearchOver, Searched, Stopped
  <2>8. CASE row # 0
    BY <1>1, <2>1, <2>5, <2>6, <2>8 DEF SearchedInv, SearchOver
  <2> QED
    BY <2>7, <2>8
<1>6. CASE CalculateMid
  <2>1. /\ pc = "mid" /\ pc' = "done"
        /\ UNCHANGED <<user_image, thresholds, reference_col, edge, stop_search_row>>
    BY <1>6 DEF CalculateMid, search
  <2>2. \A r \in Searched : RowDone(r)'
    BY <2>1, RowKept DEF SearchedInv, SearchOver
  <2>3. Stopped(stop_search_row)'
    <3>1. Stopped(stop_search_row)
      BY <2>1 DEF SearchedInv, SearchOver
    <3>2. RowDone(stop_search_row) => RowDone(stop_search_row)'
      <4> SUFFICES ASSUME RowDone(stop_search_row) PROVE RowDone(stop_search_row)'
        OBVIOUS
      <4> DEFINE r == stop_search_row
      <4>1. r' = r
        BY <2>1
      <4> QED
        BY <2>1, <4>1 DEF RowDone, Visible, JustOutside, Lane, First, Last, OneLane,
           NoGlare, thresholds
    <3> QED
      BY <2>1, <3>1, <3>2 DEF Stopped
  <2>4. mean' = TheMean'
    BY <1>6 DEF CalculateMid, TheMean, Averaged, Mid, search
  <2> QED
    BY <2>1, <2>2, <2>3, <2>4 DEF SearchedInv, SearchOver, Searched
<1>7. CASE FrameEnd
  BY <1>7 DEF FrameEnd, SearchedInv, SearchOver
<1>8. CASE UNCHANGED vars
  <2>1. /\ UNCHANGED <<pc, user_image, thresholds, reference_col, row, edge,
                       stop_search_row, mean>>
        /\ UNCHANGED Searched /\ UNCHANGED TheMean
    BY <1>8 DEF vars, thresholds, search, Searched, TheMean, Averaged, Mid
  <2>2. \A r : RowDone(r) => RowDone(r)'
    BY <2>1, RowKept
  <2>3. Stopped(stop_search_row) => Stopped(stop_search_row)'
    BY <1>8 DEF vars, search, thresholds, Stopped, RowDone, Visible, JustOutside, Lane,
       First, Last, OneLane, NoGlare
  <2> QED
    BY <2>1, <2>2, <2>3 DEF SearchedInv, SearchOver
<1> QED
  BY <1>2, <1>3, <1>4, <1>5, <1>6, <1>7, <1>8 DEF Next

\* Each row that search_line is done with has a lane and edges just outside it,
\* at every moment of the search.
THEOREM SearchedCorrect == Spec => []IInv
<1>1. Init => IInv
  BY InitTypes, SearchedInit DEF IInv
<1>2. IInv /\ [Next]_vars => IInv'
  BY TypeStep, SearchedStep DEF IInv
<1> QED
  BY <1>1, <1>2, PTL DEF Spec

\* The middle of a row that the mean is taken of: it is that of the lane, or of
\* the picture where the search stopped, to the Offset columns by which an edge
\* may miss the lane.
LEMMA MiddleOfARow ==
  ASSUME IInv, SearchOver, reference_col \in ColMin .. ColMax,
         NEW r \in Averaged, NoGlare(r), OneLane(r)
  PROVE  \E m \in Middles(r) : m - Offset - 1 <= 2 * Mid(r) /\ 2 * Mid(r) <= m + Offset
<1>1. TypeOK /\ r \in Rows /\ stop_search_row \in Nat /\ Visible(r)
  BY AveragedRows, Bounds DEF IInv, TypeOK, Visible
<1>2. RowDone(r) \/ (r = stop_search_row /\ \A s \in Side : edge[s][r] = Border(s))
  BY <1>1, Bounds DEF IInv, SearchedInv, Averaged, Searched, Stopped
<1>3. CASE RowDone(r)
  <2> DEFINE F == First(r)
             L == Last(r)
             el == edge["left"][r]
             er == edge["right"][r]
  <2>1. /\ Lane(r) # {} /\ F \in Lane(r) /\ L \in Lane(r) /\ F <= L
        /\ F \in Int /\ L \in Int
    BY <1>1, <1>3, LaneEnds DEF RowDone
  <2>2. F + L \in Middles(r)
    BY <2>1 DEF Middles
  <2>3. F \in 0 .. W - 1 /\ L \in 0 .. W - 1 /\ W \in Nat /\ Offset \in Nat \ {0}
    BY <2>1, Bounds DEF Lane, Cols
  <2>4. el \in 0 .. W - 1 /\ er \in 0 .. W - 1
    <3>1. edge \in [{"left", "right"} -> [Rows -> Cols]]
      BY <1>1 DEF TypeOK, Side
    <3>2. edge["left"][r] \in Cols /\ edge["right"][r] \in Cols
      BY <1>1, <3>1
    <3> QED
      BY <3>2 DEF Cols
  <2>5. /\ el \in Limit(F - Offset, 0, W - 1) .. Limit(F - 1, 0, W - 1)
        /\ er \in Limit(L + 1, 0, W - 1) .. Limit(L + Offset, 0, W - 1)
    BY <1>1, <1>3 DEF RowDone, JustOutside, Side
  <2>6. Mid(r) = (el + er) \div 2
    BY DEF Mid
  <2> HIDE DEF F, L, el, er
  <2>7. F - Offset <= el /\ el <= F
    BY <2>3, <2>4, <2>5 DEF Limit
  <2>8. L <= er /\ er <= L + Offset
    BY <2>3, <2>4, <2>5 DEF Limit
  <2>9. (F + L) - Offset - 1 <= 2 * Mid(r) /\ 2 * Mid(r) <= F + L + Offset
    BY <2>3, <2>4, <2>6, <2>7, <2>8
  <2> WITNESS F + L \in Middles(r)
  <2> QED
    BY <2>9
<1>4. CASE r = stop_search_row /\ \A s \in Side : edge[s][r] = Border(s)
  <2>1. ColMin + ColMax \in Middles(r)
    BY <1>4 DEF Middles
  <2>2. Mid(r) = (ColMin + ColMax) \div 2
    BY <1>4 DEF Mid, Border, Side
  <2>3. ColMin + ColMax \in Int /\ Offset \in Nat
    BY Bounds
  <2> DEFINE m == ColMin + ColMax
  <2> HIDE DEF m
  <2>4. m \in Int /\ m \in Middles(r) /\ Mid(r) = m \div 2
    BY <2>1, <2>2, <2>3 DEF m
  <2>5. m - Offset - 1 <= 2 * Mid(r) /\ 2 * Mid(r) <= m + Offset
    BY <2>3, <2>4
  <2> QED
    BY <2>4, <2>5
<1> QED
  BY <1>2, <1>3, <1>4

\* The car is steered by the track: for any picture, also one put together from
\* several frames, and any weights, the mean lies between the middles of the
\* lanes that the search went past and, if it stopped, of the picture.
THEOREM TrackCorrect == Spec => []MeanIsOnTheTrack
<1>1. IInv => MeanIsOnTheTrack
  <2> DEFINE middles == UNION {Middles(r) : r \in Averaged}
             mids == {Mid(r) : r \in Averaged}
  <2> SUFFICES ASSUME IInv, pc = "done", reference_col \in ColMin .. ColMax,
                      \A r \in Averaged : NoGlare(r) /\ OneLane(r)
               PROVE  /\ \E m \in middles : m - Offset - 1 <= 2 * mean
                      /\ \E m \in middles : 2 * mean <= m + Offset
    BY DEF MeanIsOnTheTrack
  <2>1. TypeOK /\ SearchOver /\ mean = TheMean
    BY DEF IInv, SearchedInv, SearchOver
  <2>2. mids \in SUBSET Nat /\ mids # {} /\ W \in Nat /\ \A y \in mids : y <= W
    BY <2>1, AveragedRows, Bounds
  <2>3. PICK least \in mids : \A y \in mids : least <= y
    <3> HIDE DEF mids
    <3> QED
      BY <2>2, LeastExists
  <2>4. PICK greatest \in mids : \A y \in mids : y <= greatest
    <3> HIDE DEF mids
    <3> QED
      BY <2>2, MaxIsGreatest
  <2>5. TheMean \in Nat /\ least <= TheMean /\ TheMean <= greatest
    <3>1. least \in Nat /\ greatest \in Nat
      BY <2>2
    <3>2. \A r \in Averaged : least <= Mid(r) /\ Mid(r) <= greatest
      BY <2>3, <2>4
    <3> QED
      BY <2>1, <3>1, <3>2, MeanBetween
  <2>6. \A r \in Averaged : \E m \in Middles(r) : /\ m - Offset - 1 <= 2 * Mid(r)
                                                  /\ 2 * Mid(r) <= m + Offset
    BY <2>1, MiddleOfARow
  <2>7. \A r \in Averaged : Middles(r) \subseteq Int
    <3>1. \A r \in Averaged : Lane(r) # {} => First(r) + Last(r) \in Int
      BY <2>1, AveragedRows, LaneEnds
    <3>2. ColMin + ColMax \in Int
      BY Bounds
    <3> QED
      BY <3>1, <3>2 DEF Middles
  <2>8. Offset \in Int /\ mean \in Int /\ least \in Int /\ greatest \in Int
    BY <2>1, <2>2, <2>5, Bounds
  <2>9. \E m \in middles : m - Offset - 1 <= 2 * mean
    <3>1. PICK r \in Averaged : least = Mid(r)
      BY <2>3
    <3>2. PICK m \in Middles(r) : m - Offset - 1 <= 2 * least
      BY <2>6, <3>1
    <3>3. m \in Int /\ m \in middles
      BY <2>7, <3>1, <3>2
    <3>4. m - Offset - 1 <= 2 * mean
      BY <2>1, <2>5, <2>8, <3>2, <3>3
    <3> QED
      BY <3>3, <3>4
  <2>10. \E m \in middles : 2 * mean <= m + Offset
    <3>1. PICK r \in Averaged : greatest = Mid(r)
      BY <2>4
    <3>2. PICK m \in Middles(r) : 2 * greatest <= m + Offset
      BY <2>6, <3>1
    <3>3. m \in Int /\ m \in middles
      BY <2>7, <3>1, <3>2
    <3>4. 2 * mean <= m + Offset
      BY <2>1, <2>5, <2>8, <3>2, <3>3
    <3> QED
      BY <3>3, <3>4
  <2> QED
    BY <2>9, <2>10
<1> QED
  BY <1>1, SearchedCorrect, PTL

\* Following the row below is no worse than searching all of a row: whatever
\* start and end the rows below have left, the edges of a row are just outside
\* its own lane.
THEOREM EdgesCorrect == Spec => []EdgesAreBorders
<1>1. IInv => EdgesAreBorders
  <2> SUFFICES ASSUME IInv, SearchOver, reference_col \in ColMin .. ColMax,
                      NEW r \in Searched, NoGlare(r), OneLane(r), Lane(r) # {}
               PROVE  /\ edge["left"][r] \in Limit(First(r) - Offset, 0, W - 1)
                                                .. Limit(First(r) - 1, 0, W - 1)
                      /\ edge["right"][r] \in Limit(Last(r) + 1, 0, W - 1)
                                                 .. Limit(Last(r) + Offset, 0, W - 1)
    BY DEF EdgesAreBorders
  <2>1. RowDone(r) /\ Visible(r)
    BY DEF IInv, SearchedInv, Visible
  <2>2. JustOutside("left", r, edge["left"][r]) /\ JustOutside("right", r, edge["right"][r])
    BY <2>1 DEF RowDone, Side
  <2> QED
    BY <2>2 DEF JustOutside
<1> QED
  BY <1>1, SearchedCorrect, PTL

-----------------------------------------------------------------------------
(***************************************************************************)
(* The verdict.  It takes its own reference for white and counts pixels    *)
(* that stand out from it.  Between the edges of a row there are, besides  *)
(* those of the lane, fewer than Offset of the floor on each side.         *)
(***************************************************************************)
\* The pixels of the floor that may be between the edges are fewer than those
\* that make the verdict: with the values of the code 8, of 56.
FrontIsWide == FrontRows * (2 * (Offset - 1)) < (FrontRows * FrontCols * 7) \div 10

\* What is brighter stands out more.
LEMMA ContrastGrows ==
  ASSUME NEW a \in Nat, NEW b \in Nat, NEW x \in Nat, a <= b, Contrast(a, x)
  PROVE  Contrast(b, x)
<1>1. a > x /\ ((a - x) * 200) \div (a + x) > Ratio /\ Ratio \in Nat
  BY ImageAssumption DEF Contrast
<1> DEFINE n == (a - x) * 200
           m == a + x
           k == n \div m
           d == b - a
<1>2. /\ n \in Nat /\ m \in Nat \ {0} /\ d \in Nat /\ b - x \in Nat
      /\ n <= 200 * m /\ (b - x) * 200 = n + 200 * d /\ b + x = m + d /\ b > x
  BY <1>1
<1> HIDE DEF n, m, d
<1>3. k \in Nat /\ k * m <= n
  BY <1>2
<1>4. k <= 200
  <2> SUFFICES ASSUME k >= 201 PROVE FALSE
    BY <1>3
  <2>1. 201 * m <= k * m
    <3> HIDE DEF k
    <3> QED
      BY <1>2, <1>3
  <2>2. k * m \in Nat
    BY <1>2, <1>3
  <2> HIDE DEF k
  <2> QED
    BY <1>2, <1>3, <2>1, <2>2
<1> HIDE DEF k
<1>5. k * (m + d) = k * m + k * d /\ k * d <= 200 * d
  BY <1>2, <1>3, <1>4
<1> DEFINE N == n + 200 * d
           M == m + d
<1>6. k * M <= N /\ M \in Nat \ {0} /\ N \in Nat
  <2>1. k * m \in Nat /\ k * d \in Nat
    BY <1>2, <1>3
  <2> QED
    BY <1>2, <1>3, <1>5, <2>1
<1> HIDE DEF N, M
<1>7. k <= N \div M
  <2> DEFINE h == N \div M
  <2>1. h \in Nat /\ N < (h + 1) * M
    BY <1>6
  <2> HIDE DEF h
  <2>2. ~(h + 1 <= k)
    <3> SUFFICES ASSUME h + 1 <= k PROVE FALSE
      OBVIOUS
    <3>1. (h + 1) * M <= k * M
      BY <1>3, <1>6, <2>1
    <3>2. (h + 1) * M \in Nat /\ k * M \in Nat
      BY <1>3, <1>6, <2>1
    <3> QED
      BY <1>6, <2>1, <3>1, <3>2
  <2> QED
    BY <1>3, <2>1, <2>2 DEF h
<1>8. k > Ratio
  BY <1>1 DEF k, n, m
<1>9. ((b - x) * 200) \div (b + x) = N \div M
  BY <1>2 DEF N, M
<1>10. N \div M \in Int
  BY <1>6
<1> QED
  BY <1>1, <1>2, <1>3, <1>7, <1>8, <1>9, <1>10 DEF Contrast

\* The reference is a mean: one of the pixels it is the mean of is as bright.
LEMMA WhiteReferenceIsReached ==
  ASSUME TypeOK
  PROVE  /\ WhiteReference \in Nat
         /\ \E q \in H - Samples .. H - 1 :
              /\ user_image[q][reference_col] \in Nat
              /\ WhiteReference <= user_image[q][reference_col]
<1> DEFINE S == H - Samples .. H - 1
           f == [r \in S |-> user_image[r][reference_col]]
           one == [r \in S |-> 1]
<1>1. /\ H \in Nat /\ Samples \in 1 .. H /\ S \subseteq Rows /\ IsFiniteSet(S)
      /\ Cardinality(S) = Samples /\ H - 1 \in S
  <2>1. /\ H \in Nat /\ Samples \in 1 .. H
    BY ImageAssumption
  <2>2. IsFiniteSet(S) /\ Cardinality(S) = Samples
    <3> DEFINE a == H - Samples
               b == H - 1
    <3>1. a \in Int /\ b \in Int /\ b - a + 1 = Samples /\ a <= b
      BY <2>1
    <3> HIDE DEF a, b
    <3>2. IsFiniteSet(a .. b) /\ Cardinality(a .. b) = b - a + 1
      BY <3>1, FS_Interval
    <3> QED
      BY <3>1, <3>2 DEF a, b
  <2> QED
    BY <2>1, <2>2 DEF Rows
<1>2. f \in [S -> Nat] /\ \A r \in S : f[r] = user_image[r][reference_col] /\ f[r] <= 255
  <2>1. \A r \in S : user_image[r][reference_col] \in 0 .. 255
    <3>1. reference_col \in Cols /\ user_image \in [Rows -> [Cols -> 0 .. 255]]
      BY DEF TypeOK
    <3> HIDE DEF S
    <3> QED
      BY <1>1, <3>1
  <2> HIDE DEF S
  <2>2. \A r \in S : f[r] = user_image[r][reference_col]
    OBVIOUS
  <2>3. \A r \in S : f[r] \in Nat /\ f[r] <= 255
    BY <2>1, <2>2
  <2>4. f = [r \in S |-> f[r]]
    OBVIOUS
  <2> HIDE DEF f
  <2>5. f \in [S -> Nat]
    BY <2>3, <2>4
  <2> QED
    BY <2>2, <2>3, <2>5
<1>3. one \in [S -> Nat] /\ SumFunction(one) = Samples
  <2>1. one \in [S -> Nat]
    OBVIOUS
  <2>2. SumFunction(one) = Cardinality(S)
    BY <1>1, SumOfOnes
  <2> QED
    BY <1>1, <2>1, <2>2
<1> DEFINE V == {f[r] : r \in S}
<1>4. V \in SUBSET Nat /\ V # {} /\ \A v \in V : v <= 255
  BY <1>1, <1>2
<1> DEFINE top == Max(V)
<1>5. top \in V /\ \A v \in V : v <= top
  <2> HIDE DEF V
  <2>1. 255 \in Nat
    OBVIOUS
  <2> QED
    BY <1>4, <2>1, MaxIsGreatest
<1> HIDE DEF top
<1>6. PICK q \in S : top = f[q]
  BY <1>5
<1>7. top \in Nat /\ \A r \in S : f[r] <= top * one[r]
  BY <1>2, <1>5, <1>6
<1> DEFINE F == SumFunction(f)
<1>8. F \in Nat /\ F <= top * Samples
  <2> HIDE DEF f, one, S
  <2>1. SumFunction(f) \in Nat /\ SumFunction(f) <= top * SumFunction(one)
    BY <1>1, <1>2, <1>3, <1>7, SumBound
  <2> QED
    BY <1>3, <2>1
<1>9. WhiteReference = F \div Samples
  BY DEF WhiteReference
<1> HIDE DEF F, f, S, one
<1>10. F \div Samples \in Nat /\ F \div Samples <= top
  <2>1. Samples \in Nat \ {0}
    BY <1>1
  <2> DEFINE h == F \div Samples
  <2>2. h \in Nat /\ h * Samples <= F
    BY <1>8, <2>1
  <2> HIDE DEF h
  <2>3. ~(top + 1 <= h)
    <3> SUFFICES ASSUME top + 1 <= h PROVE FALSE
      OBVIOUS
    <3>1. (top + 1) * Samples <= h * Samples /\ (top + 1) * Samples = top * Samples + Samples
      BY <1>7, <2>1, <2>2
    <3>2. h * Samples \in Nat /\ top * Samples \in Nat
      BY <1>7, <2>1, <2>2
    <3> QED
      BY <1>8, <2>1, <2>2, <3>1, <3>2
  <2> QED
    BY <1>7, <2>2, <2>3 DEF h
<1>11. user_image[q][reference_col] = top
  BY <1>2, <1>6
<1> QED
  BY <1>6, <1>7, <1>9, <1>10, <1>11 DEF S

\* A pixel of the lane does not count: nothing in the front's lane stands out
\* from a reference that some pixel of the reference column reaches.
LEMMA LaneIsNotDark ==
  ASSUME TypeOK, ClearFront, NEW p \in DarkFront
  PROVE  p \in FrontOf \X Cols => p[2] \notin Lane(p[1])
<1> SUFFICES ASSUME p \in FrontOf \X Cols, p[2] \in Lane(p[1]) PROVE FALSE
  OBVIOUS
<1>1. PICK q \in H - Samples .. H - 1 :
        /\ user_image[q][reference_col] \in Nat
        /\ WhiteReference <= user_image[q][reference_col]
  BY WhiteReferenceIsReached
<1> DEFINE x == user_image[p[1]][p[2]]
           top == user_image[q][reference_col]
<1>2. x \in Nat
  <2>1. p[1] \in Rows /\ p[2] \in Cols
    BY ImageAssumption DEF FrontOf, Rows
  <2>2. user_image \in [Rows -> [Cols -> 0 .. 255]]
    BY DEF TypeOK
  <2>3. x \in 0 .. 255
    BY <2>1, <2>2
  <2> QED
    BY <2>3
<1>3. Contrast(WhiteReference, x)
  BY DEF DarkFront
<1>4. ~Contrast(top, x)
  <2>1. p[1] \in FrontOf
    OBVIOUS
  <2> QED
    BY <2>1, <1>1 DEF ClearFront
<1>5. WhiteReference \in Nat /\ top \in Nat /\ WhiteReference <= top
  BY <1>1, WhiteReferenceIsReached
<1> HIDE DEF x, top
<1> QED
  BY <1>2, <1>3, <1>4, <1>5, ContrastGrows

\* The front's pixels are pixels of the picture, FrontRows times FrontCols of them.
LEMMA FrontIsInThePicture ==
  /\ FrontOf \subseteq Rows /\ IsFiniteSet(FrontOf) /\ Cardinality(FrontOf) = FrontRows
  /\ Front \subseteq FrontOf \X Cols
  /\ IsFiniteSet(Front) /\ Cardinality(Front) = FrontRows * FrontCols
<1>1. /\ H \in Nat /\ W \in Nat /\ FrontRows \in 1 .. H /\ FrontCols \in 1 .. W
  BY ImageAssumption
<1> DEFINE a == W \div 2 - FrontCols \div 2
           b == W \div 2 + (FrontCols - 1) \div 2
           c == H - FrontRows
           d == H - 1
<1>2. a \in Int /\ b \in Int /\ 0 <= a /\ b < W /\ a <= b /\ b - a + 1 = FrontCols
  BY <1>1
<1>3. c \in Int /\ d \in Int /\ 0 <= c /\ d < H /\ c <= d /\ d - c + 1 = FrontRows
  BY <1>1
<1>4. FrontOf = c .. d /\ Front = (c .. d) \X (a .. b)
  BY DEF FrontOf, Front
<1> HIDE DEF a, b, c, d
<1>5. IsFiniteSet(a .. b) /\ Cardinality(a .. b) = FrontCols
  BY <1>2, FS_Interval
<1>6. IsFiniteSet(c .. d) /\ Cardinality(c .. d) = FrontRows
  BY <1>3, FS_Interval
<1>7. a .. b \subseteq Cols /\ c .. d \subseteq Rows
  BY <1>1, <1>2, <1>3 DEF Cols, Rows
<1> DEFINE A == a .. b
           B == c .. d
<1>8. /\ IsFiniteSet(A) /\ Cardinality(A) = FrontCols /\ A \subseteq Cols
      /\ IsFiniteSet(B) /\ Cardinality(B) = FrontRows /\ B \subseteq Rows
      /\ FrontOf = B /\ Front = B \X A
  BY <1>4, <1>5, <1>6, <1>7
<1> HIDE DEF A, B
<1>9. IsFiniteSet(B \X A) /\ Cardinality(B \X A) = Cardinality(B) * Cardinality(A)
  BY <1>8, FS_Product
<1> QED
  BY <1>8, <1>9

\* Fewer than Offset columns of the floor are between the lane and an edge that
\* is just outside it: Place numbers them, on both sides.
Place(p) == IF p[2] < First(p[1]) THEN First(p[1]) - p[2]
            ELSE Offset - 1 + p[2] - Last(p[1])

LEMMA PlaceInRow ==
  ASSUME TypeOK, NEW r \in Rows, Lane(r) # {}, OneLane(r),
         \A s \in Side : JustOutside(s, r, edge[s][r]),
         NEW c \in Cols, c \notin Lane(r), edge["left"][r] < c, c < edge["right"][r]
  PROVE  /\ Place(<<r, c>>) \in 1 .. 2 * (Offset - 1)
         /\ c = IF Place(<<r, c>>) < Offset THEN First(r) - Place(<<r, c>>)
                ELSE Last(r) + Place(<<r, c>>) - (Offset - 1)
<1> DEFINE F == First(r)
           L == Last(r)
           el == edge["left"][r]
           er == edge["right"][r]
<1>1. /\ F \in Lane(r) /\ L \in Lane(r) /\ F \in Int /\ L \in Int /\ F <= L
  BY LaneEnds
<1>2. /\ F \in 0 .. W - 1 /\ L \in 0 .. W - 1 /\ c \in 0 .. W - 1
      /\ W \in Nat /\ Offset \in Nat \ {0}
  BY <1>1, Bounds DEF Lane, Cols
<1>3. el \in 0 .. W - 1 /\ er \in 0 .. W - 1
  BY DEF TypeOK, Side, Cols
<1>4. /\ el \in Limit(F - Offset, 0, W - 1) .. Limit(F - 1, 0, W - 1)
      /\ er \in Limit(L + 1, 0, W - 1) .. Limit(L + Offset, 0, W - 1)
  BY DEF JustOutside, Side
<1>5. c < F \/ L < c
  BY <1>1, <1>2 DEF OneLane
<1>6. Place(<<r, c>>) = IF c < F THEN F - c ELSE Offset - 1 + c - L
  BY DEF Place
<1> HIDE DEF F, L, el, er
<1>7. el >= F - Offset
  BY <1>2, <1>3, <1>4 DEF Limit
<1>8. er <= L + Offset
  BY <1>2, <1>3, <1>4 DEF Limit
<1>9. el < c /\ c < er
  BY DEF el, er
<1> DEFINE k == Place(<<r, c>>)
<1>10. k = IF c < F THEN F - c ELSE Offset - 1 + c - L
  BY <1>6
<1> HIDE DEF k
<1>11. k \in 1 .. 2 * (Offset - 1)
       /\ c = IF k < Offset THEN F - k ELSE L + k - (Offset - 1)
  BY <1>2, <1>3, <1>5, <1>7, <1>8, <1>9, <1>10, <1>1
<1> QED
  BY <1>11 DEF k, F, L

\* Between edges just outside the lane the floor shows at most 2 * (Offset - 1)
\* pixels of each row.
LEMMA FloorIsNarrow ==
  ASSUME TypeOK, NEW S \in SUBSET Front,
         \A p \in S : /\ Lane(p[1]) # {} /\ OneLane(p[1]) /\ p[2] \notin Lane(p[1])
                      /\ \A s \in Side : JustOutside(s, p[1], edge[s][p[1]])
                      /\ edge["left"][p[1]] < p[2] /\ p[2] < edge["right"][p[1]]
  PROVE  IsFiniteSet(S) /\ Cardinality(S) <= FrontRows * (2 * (Offset - 1))
<1> DEFINE K == 1 .. 2 * (Offset - 1)
           f == [p \in S |-> <<p[1], Place(p)>>]
<1>1. \A p \in S : /\ p = <<p[1], p[2]>> /\ p[1] \in FrontOf /\ p[1] \in Rows
                   /\ p[2] \in Cols /\ p[2] \in Int
  <2>1. \A p \in S : p \in FrontOf \X Cols
    BY FrontIsInThePicture
  <2>2. FrontOf \subseteq Rows /\ Cols \subseteq Int
    BY FrontIsInThePicture DEF Cols
  <2> QED
    BY <2>1, <2>2
<1>2. \A p \in S : /\ Place(p) \in K
                   /\ p[2] = IF Place(p) < Offset THEN First(p[1]) - Place(p)
                             ELSE Last(p[1]) + Place(p) - (Offset - 1)
  <2> SUFFICES ASSUME NEW p \in S
               PROVE  /\ Place(p) \in K
                      /\ p[2] = IF Place(p) < Offset THEN First(p[1]) - Place(p)
                                ELSE Last(p[1]) + Place(p) - (Offset - 1)
    OBVIOUS
  <2> DEFINE r == p[1]
             c == p[2]
  <2>1. p = <<r, c>> /\ r \in Rows /\ c \in Cols
    BY <1>1
  <2>2. /\ Lane(r) # {} /\ OneLane(r) /\ c \notin Lane(r)
        /\ \A s \in Side : JustOutside(s, r, edge[s][r])
        /\ edge["left"][r] < c /\ c < edge["right"][r]
    OBVIOUS
  <2> HIDE DEF r, c
  <2>3. /\ Place(<<r, c>>) \in 1 .. 2 * (Offset - 1)
        /\ c = IF Place(<<r, c>>) < Offset THEN First(r) - Place(<<r, c>>)
               ELSE Last(r) + Place(<<r, c>>) - (Offset - 1)
    BY <2>1, <2>2, PlaceInRow
  <2>4. Place(<<r, c>>) = Place(p)
    BY <2>1
  <2> QED
    BY <2>3, <2>4 DEF r, c
<1>3. f \in Injection(S, FrontOf \X K)
  <2>1. f \in [S -> FrontOf \X K]
    BY <1>1, <1>2
  <2>2. ASSUME NEW p \in S, NEW q \in S, f[p] = f[q] PROVE p = q
    <3>1. p[1] = q[1] /\ Place(p) = Place(q)
      BY <2>2
    <3>2. p[2] = q[2]
      BY <1>2, <3>1
    <3> QED
      BY <1>1, <3>1, <3>2
  <2> HIDE DEF f, K
  <2> QED
    BY <2>1, <2>2 DEF Injection, IsInjective
<1>4. IsFiniteSet(K) /\ Cardinality(K) = 2 * (Offset - 1)
  <2> DEFINE n == 2 * (Offset - 1)
  <2>1. n \in Nat /\ 1 \in Int
    BY Bounds
  <2> HIDE DEF n
  <2>2. IsFiniteSet(1 .. n) /\ Cardinality(1 .. n) = n
    BY <2>1, FS_Interval
  <2> QED
    BY <2>2 DEF n
<1> HIDE DEF K, f
<1>5. /\ IsFiniteSet(FrontOf \X K)
      /\ Cardinality(FrontOf \X K) = FrontRows * (2 * (Offset - 1))
  <2>1. /\ IsFiniteSet(FrontOf \X K)
        /\ Cardinality(FrontOf \X K) = Cardinality(FrontOf) * Cardinality(K)
    BY <1>4, FrontIsInThePicture, FS_Product
  <2> QED
    BY <1>4, <2>1, FrontIsInThePicture
<1> DEFINE T == FrontOf \X K
<1>6. IsFiniteSet(S) /\ Cardinality(S) <= Cardinality(T)
  <2>1. f \in Injection(S, T) /\ IsFiniteSet(T)
    BY <1>3, <1>5
  <2> HIDE DEF T
  <2>2. Injection(S, T) # {}
    BY <2>1
  <2> QED
    BY <2>1, <2>2, FS_Injection
<1> QED
  BY <1>5, <1>6

\* The verdict agrees with the edges, for images of any size: of a front that
\* shows one clear lane, and is wide beside the Offset columns by which an edge
\* may miss the lane, a car between its edges is not out of bounds.
THEOREM VerdictCorrect == FrontIsWide => (Spec => []EdgesDenyOutOfBounds)
<1> SUFFICES ASSUME FrontIsWide PROVE Spec => []EdgesDenyOutOfBounds
  OBVIOUS
<1>1. IInv => EdgesDenyOutOfBounds
  <2> SUFFICES ASSUME IInv, ClearFront, pc = "done", H - FrontRows >= stop_search_row + 1,
                      \A p \in Front : edge["left"][p[1]] < p[2]
                                       /\ p[2] < edge["right"][p[1]]
               PROVE  ~OutOfBounds
    BY DEF EdgesDenyOutOfBounds
  <2>1. TypeOK /\ DarkFront \in SUBSET Front
    BY DEF IInv, DarkFront
  <2>2. \A r \in FrontOf : RowDone(r) /\ Visible(r)
    <3>1. FrontOf \subseteq Searched
      BY <2>1, ImageAssumption DEF FrontOf, Searched, TypeOK, Rows
    <3>2. \A r \in FrontOf : RowDone(r)
      BY <3>1 DEF IInv, SearchedInv, SearchOver
    <3> QED
      BY <3>2 DEF ClearFront, Visible
  <2>3. ASSUME NEW p \in DarkFront
        PROVE  /\ Lane(p[1]) # {} /\ OneLane(p[1]) /\ p[2] \notin Lane(p[1])
               /\ \A s \in Side : JustOutside(s, p[1], edge[s][p[1]])
               /\ edge["left"][p[1]] < p[2] /\ p[2] < edge["right"][p[1]]
    <3>1. p \in Front /\ p \in FrontOf \X Cols
      BY <2>1, FrontIsInThePicture
    <3>2. p[2] \notin Lane(p[1])
      BY <2>1, <3>1, LaneIsNotDark
    <3>3. p[1] \in FrontOf
      BY <3>1
    <3>4. RowDone(p[1]) /\ Visible(p[1])
      BY <2>2, <3>3
    <3> QED
      BY <3>1, <3>2, <3>4 DEF RowDone, Visible
  <2>4. Cardinality(DarkFront) <= FrontRows * (2 * (Offset - 1))
        /\ IsFiniteSet(DarkFront)
    <3> DEFINE S == DarkFront
    <3>1. S \in SUBSET Front
      BY <2>1
    <3>2. \A p \in S : /\ Lane(p[1]) # {} /\ OneLane(p[1]) /\ p[2] \notin Lane(p[1])
                       /\ \A s \in Side : JustOutside(s, p[1], edge[s][p[1]])
                       /\ edge["left"][p[1]] < p[2] /\ p[2] < edge["right"][p[1]]
      BY <2>3
    <3> HIDE DEF S
    <3>3. IsFiniteSet(S) /\ Cardinality(S) <= FrontRows * (2 * (Offset - 1))
      BY <2>1, <3>1, <3>2, FloorIsNarrow
    <3> QED
      BY <3>3 DEF S
  <2>5. FrontRows * (2 * (Offset - 1)) < (FrontRows * FrontCols * 7) \div 10
    BY DEF FrontIsWide
  <2>6. (Cardinality(Front) * 7) \div 10 = (FrontRows * FrontCols * 7) \div 10
    BY FrontIsInThePicture
  <2> DEFINE x == FrontRows * (2 * (Offset - 1))
             y == (FrontRows * FrontCols * 7) \div 10
             z == Cardinality(DarkFront)
  <2>7. x \in Int /\ y \in Int /\ z \in Int
    <3>1. FrontRows \in Nat /\ FrontCols \in Nat /\ Offset \in Nat
      BY ImageAssumption
    <3>2. x \in Int
      BY <3>1
    <3>3. FrontRows * FrontCols \in Nat
      BY <3>1
    <3>4. y \in Int
      BY <3>3
    <3>5. z \in Int
      BY <2>4, FS_CardinalityType
    <3> QED
      BY <3>2, <3>4, <3>5
  <2>8. OutOfBounds <=> z >= y
    BY <2>6 DEF OutOfBounds
  <2>9. z <= x /\ x < y
    BY <2>4, <2>5
  <2> HIDE DEF x, y, z
  <2> QED
    BY <2>7, <2>8, <2>9
<1> QED
  BY <1>1, SearchedCorrect, PTL

=============================================================================
