--------------------------- MODULE MenuNav_proofs ---------------------------
(***************************************************************************)
(* Proofs about MenuNav, for menus of any shape and size whose calls link  *)
(* each unit once and agree with each other: that the lists they build are *)
(* rings of the units of a page, that the cursor is on the unit of its     *)
(* line, that the stack is the way to the page on the screen, and that all *)
(* of it is a walk in a tree.  Only a parameter is ever edited.            *)
(***************************************************************************)
EXTENDS MenuNav, Counting, SequenceTheorems

-----------------------------------------------------------------------------
(***************************************************************************)
(* The editor                                                              *)
(***************************************************************************)

\* Only a parameter is edited, whatever the menu looks like.
THEOREM EditsCorrect == Spec => []EditsParameters
<1>1. Init => EditsParameters
  BY DEF Init, EditsParameters
<1>2. EditsParameters /\ [Next]_vars => EditsParameters'
  <2> SUFFICES ASSUME EditsParameters, [Next]_vars PROVE EditsParameters'
    OBVIOUS
  <2>1. CASE UNCHANGED navVars
    BY <2>1 DEF EditsParameters, navVars, cursor
  <2>2. CASE edit_mode' = FALSE
    BY <2>2 DEF EditsParameters
  <2>3. CASE Browse
    BY <2>3 DEF Browse, NavigateUp, NavigateDown, MoveTo, NavigateEnter, EnterParam,
       RunFunction, EnterPage, NavigateBack, EditsParameters, cursor
  <2>4. CASE Edit
    BY <2>4 DEF Edit, EditUp, EditDown, EditExit, EditsParameters, cursor
  <2> QED
    BY <2>1, <2>2, <2>3, <2>4
       DEF Next, vars, Create, PowerOn, RaceEnd, MenuExampleEnter
<1> QED
  BY <1>1, <1>2, PTL DEF Spec

-----------------------------------------------------------------------------
(***************************************************************************)
(* The lines of a page                                                     *)
(***************************************************************************)
LEMMA Sizes ==
  /\ MaxUnits \in Nat \ {0} /\ ItemsPerPage \in Nat \ {0} /\ StackSize \in Nat
  /\ NULL \notin Units /\ Pointers = Units \cup {NULL}
  /\ Root \in Units /\ CarStart \in Units
BY MenuAssumption, LinksAssumption DEF Pointers

UnitBelow(unit) == IF unit = NULL THEN NULL ELSE down[unit]

\* The recursive function of Chain exists: by induction over the lines.
LEMMA ChainUnfolds ==
  ASSUME NEW first
  PROVE  /\ Chain(first)[0] = first
         /\ \A n \in 1 .. MaxUnits :
              Chain(first)[n] = UnitBelow(Chain(first)[n - 1])
<1> DEFINE step(g, n) == IF n = 0 THEN first ELSE UnitBelow(g[n - 1])
           T == {k \in Nat : \E g : g = [n \in 0 .. k |-> step(g, n)]}
<1>1. 0 \in T
  <2> DEFINE g == [n \in 0 .. 0 |-> first]
  <2>1. \A n \in 0 .. 0 : step(g, n) = first
    OBVIOUS
  <2>2. g = [n \in 0 .. 0 |-> step(g, n)]
    BY <2>1
  <2> HIDE DEF g, step
  <2> QED
    BY <2>2
<1>2. ASSUME NEW k \in Nat, k \in T PROVE k + 1 \in T
  <2>1. PICK g : g = [n \in 0 .. k |-> step(g, n)]
    BY <1>2
  <2> DEFINE h == [n \in 0 .. k + 1 |-> step(g, n)]
  <2>2. \A n \in 0 .. k : h[n] = g[n]
    BY <2>1
  <2>3. \A n \in 0 .. k + 1 : step(g, n) = step(h, n)
    <3> SUFFICES ASSUME NEW n \in 0 .. k + 1 PROVE step(g, n) = step(h, n)
      OBVIOUS
    <3>1. n # 0 => n - 1 \in 0 .. k
      OBVIOUS
    <3> HIDE DEF h
    <3> QED
      BY <2>2, <3>1
  <2>4. h = [n \in 0 .. k + 1 |-> step(h, n)]
    BY <2>3
  <2> HIDE DEF h, step
  <2> QED
    BY <2>4
<1> HIDE DEF T
<1>3. MaxUnits \in T
  BY <1>1, <1>2, Induction, Sizes
<1>4. \E g : g = [n \in 0 .. MaxUnits |-> step(g, n)]
  BY <1>3 DEF T
<1> DEFINE c == CHOOSE g : g = [n \in 0 .. MaxUnits |-> step(g, n)]
<1>5. Chain(first) = c
  BY DEF Chain, UnitBelow
<1>6. c = [n \in 0 .. MaxUnits |-> step(c, n)]
  BY <1>4
<1> HIDE DEF c
<1>7. \A n \in 0 .. MaxUnits : c[n] = step(c, n)
  BY <1>6
<1> QED
  BY <1>5, <1>7, Sizes

\* A page that begins with a unit has at least one, and units on all its lines;
\* below the last one the list ends or begins again.
LEMMA PageHasUnits ==
  ASSUME down \in [Units -> Pointers], NEW first \in Units
  PROVE  /\ TotalItems(first) \in 1 .. MaxUnits
         /\ \/ TotalItems(first) = MaxUnits
            \/ Chain(first)[TotalItems(first)] \in {NULL, first}
         /\ \A n \in 1 .. TotalItems(first) - 1 : Chain(first)[n] # first
         /\ \A n \in 0 .. TotalItems(first) - 1 : Chain(first)[n] \in Units
<1> DEFINE c == Chain(first)
           ends == {n \in 1 .. MaxUnits : n = MaxUnits \/ c[n] \in {NULL, first}}
<1>1. /\ c[0] = first
      /\ \A n \in 1 .. MaxUnits : c[n] = UnitBelow(c[n - 1])
  BY ChainUnfolds
<1>2. TotalItems(first) = CHOOSE n \in 1 .. MaxUnits :
                            /\ n = MaxUnits \/ c[n] \in {NULL, first}
                            /\ \A m \in 1 .. n - 1 : c[m] \notin {NULL, first}
  BY DEF TotalItems
<1> HIDE DEF c
<1>3. ends \in SUBSET Nat /\ MaxUnits \in ends
  BY Sizes
<1>4. PICK n \in ends : \A m \in ends : n <= m
  BY <1>3, LeastExists
<1>5. \A m \in 1 .. n - 1 : c[m] \notin {NULL, first}
  <2> SUFFICES ASSUME NEW m \in 1 .. n - 1 PROVE c[m] \notin {NULL, first}
    OBVIOUS
  <2>1. m \in 1 .. MaxUnits /\ ~(n <= m)
    BY <1>3, Sizes
  <2> QED
    BY <1>4, <2>1
<1> DEFINE t == TotalItems(first)
<1>6. /\ t \in 1 .. MaxUnits
      /\ t = MaxUnits \/ c[t] \in {NULL, first}
      /\ \A m \in 1 .. t - 1 : c[m] \notin {NULL, first}
  BY <1>2, <1>4, <1>5
<1> HIDE DEF t
<1> DEFINE T == {k \in Nat : k <= MaxUnits => c[k] \in Pointers}
<1>7. 0 \in T
  BY <1>1, Sizes
<1>8. ASSUME NEW k \in Nat, k \in T PROVE k + 1 \in T
  <2> SUFFICES ASSUME k + 1 <= MaxUnits PROVE c[k + 1] \in Pointers
    BY <1>8
  <2>1. k + 1 \in 1 .. MaxUnits /\ (k + 1) - 1 = k /\ k <= MaxUnits
    BY Sizes
  <2>2. c[k + 1] = UnitBelow(c[k]) /\ c[k] \in Pointers
    BY <1>1, <1>8, <2>1
  <2> QED
    BY <2>2, Sizes DEF UnitBelow
<1> HIDE DEF T
<1>9. Nat \subseteq T
  BY <1>7, <1>8, Induction
<1>10. \A k \in 0 .. t - 1 : c[k] \in Units
  <2> SUFFICES ASSUME NEW k \in 0 .. t - 1 PROVE c[k] \in Units
    OBVIOUS
  <2>1. c[k] \in Pointers
    BY <1>6, <1>9, Sizes DEF T
  <2>2. k = 0 \/ k \in 1 .. t - 1
    BY <1>6
  <2> QED
    BY <1>1, <1>6, <2>1, <2>2, Sizes
<1> QED
  BY <1>6, <1>10 DEF c, t

-----------------------------------------------------------------------------
(***************************************************************************)
(* Building the menu                                                       *)
(***************************************************************************)
LinksTyped ==
  /\ todo \in Seq(AnyCall)
  /\ {up, down, enter, back} \subseteq [Units -> Pointers]
  /\ tracked \subseteq Units /\ Cardinality(tracked) <= MaxPageTrack
  /\ {first_child, last_child} \subseteq [Units -> Pointers]

LEMMA LinksInitTyped == LinksInit => LinksTyped
<1>1. Cardinality({}) = 0 /\ MaxPageTrack \in Nat
  BY FS_EmptySet, LinksAssumption
<1> QED
  BY <1>1, LinksAssumption DEF LinksInit, LinksTyped, Nothing, Pointers

LEMMA LinksStepTyped ==
  ASSUME LinksTyped, MakeCall
  PROVE  LinksTyped'
<1> DEFINE call == Head(todo)
<1>1. /\ call \in AnyCall /\ todo' \in Seq(AnyCall)
  BY DEF LinksTyped, MakeCall
<1>2. CASE call.op = "auto" /\ AutoLinkChild(call.unit, call.parent)
  <2>1. call.unit \in Units /\ call.parent \in Units
    BY <1>1, <1>2 DEF AnyCall
  <2> HIDE DEF call
  <2>2. CASE UNCHANGED <<pointers, tracker>>
    BY <1>1, <2>2 DEF LinksTyped, pointers, tracker
  <2>3. CASE /\ Trackable(call.parent) /\ tracked' = tracked \cup {call.parent}
             /\ FirstChild(call.unit, call.parent) \/ NextChild(call.unit, call.parent)
    <3>1. tracked' \subseteq Units /\ Cardinality(tracked') <= MaxPageTrack
      <4>1. IsFiniteSet(tracked) /\ Cardinality(tracked) \in Nat
        BY MenuAssumption, FS_Subset, FS_CardinalityType DEF LinksTyped
      <4> DEFINE page == call.parent
      <4>2. /\ tracked' = tracked \cup {page} /\ Trackable(page) /\ page \in Units
            /\ tracked \subseteq Units /\ Cardinality(tracked) <= MaxPageTrack
        BY <2>1, <2>3 DEF LinksTyped
      <4> HIDE DEF page
      <4>3. Cardinality(tracked') = IF page \in tracked THEN Cardinality(tracked)
                                                       ELSE Cardinality(tracked) + 1
        BY <4>1, <4>2, FS_AddElement
      <4> QED
        BY <4>1, <4>2, <4>3, LinksAssumption DEF Trackable
    <3>2. /\ {up', down', enter', back'} \subseteq [Units -> Pointers]
          /\ {first_child', last_child'} \subseteq [Units -> Pointers]
      <4> DEFINE child == call.unit
                 page == call.parent
      <4>1. /\ child \in Units /\ page \in Units /\ Units \subseteq Pointers
            /\ {up, down, enter, back} \subseteq [Units -> Pointers]
            /\ {first_child, last_child} \subseteq [Units -> Pointers]
        BY <2>1 DEF LinksTyped, Pointers
      <4>2. FirstChild(child, page) \/ NextChild(child, page)
        BY <2>3
      <4> HIDE DEF child, page
      <4>3. CASE FirstChild(child, page)
        BY <4>1, <4>3 DEF FirstChild
      <4>4. CASE NextChild(child, page)
        <5>1. first_child[page] \in Pointers /\ last_child[page] \in Pointers
          BY <4>1
        <5>2. /\ up' \in [Units -> Pointers] /\ down' \in [Units -> Pointers]
              /\ back' \in [Units -> Pointers] /\ last_child' \in [Units -> Pointers]
          BY <4>1, <4>4, <5>1 DEF NextChild
        <5> QED
          BY <4>1, <4>4, <5>2 DEF NextChild
      <4> QED
        BY <4>2, <4>3, <4>4
    <3> QED
      BY <1>1, <3>1, <3>2 DEF LinksTyped
  <2> QED
    BY <1>2, <2>2, <2>3 DEF AutoLinkChild
<1>3. CASE call.op = "link" /\ Link(call)
  <2>1. /\ call.unit \in Units /\ call.up \in Pointers /\ call.down \in Pointers
        /\ call.enter \in Pointers /\ call.back \in Pointers
    BY <1>1, <1>3 DEF AnyCall
  <2> HIDE DEF call
  <2>2. {up', down', enter', back'} \subseteq [Units -> Pointers]
    BY <1>3, <2>1 DEF LinksTyped, Link
  <2> QED
    BY <1>1, <1>3, <2>2 DEF LinksTyped, Link, tracker
<1> QED
  BY <1>2, <1>3 DEF MakeCall

-----------------------------------------------------------------------------
(***************************************************************************)
(* The calls that are made                                                 *)
(***************************************************************************)
LEMMA CallsByUnit ==
  /\ Calls \in Seq(AnyCall)
  /\ \A i \in DOMAIN Calls : CallOf(Calls[i].unit) = Calls[i]
  /\ \A u \in Units : CallOf(u) \in AnyCall /\ CallOf(u).unit = u
<1>1. Calls \in Seq(AnyCall)
  BY LinksAssumption
<1>2. ASSUME NEW i \in DOMAIN Calls PROVE CallOf(Calls[i].unit) = Calls[i]
  <2> DEFINE u == Calls[i].unit
             j == CHOOSE k \in DOMAIN Calls : Calls[k].unit = u
  <2>1. j \in DOMAIN Calls /\ Calls[j].unit = u
    BY <1>2
  <2>2. j = i
    BY <1>2, <2>1, CallsAssumption DEF EachUnitIsLinkedOnce
  <2>3. CallOf(u) = Calls[j]
    BY DEF CallOf
  <2> QED
    BY <2>2, <2>3
<1>3. ASSUME NEW u \in Units PROVE CallOf(u) \in AnyCall /\ CallOf(u).unit = u
  <2>1. PICK i \in DOMAIN Calls : Calls[i].unit = u
    BY CallsAssumption DEF EachUnitIsLinkedOnce
  <2>2. CallOf(u) = Calls[i]
    BY <1>2, <2>1
  <2>3. Calls[i] \in AnyCall
    BY <1>1, <2>1
  <2> QED
    BY <2>1, <2>2, <2>3
<1> QED
  BY <1>1, <1>2, <1>3

\* What the fields of a call are, for a unit of either kind.
LEMMA CallFields ==
  ASSUME NEW u \in Units
  PROVE  /\ Linked(u) => /\ CallOf(u).up \in Pointers /\ CallOf(u).down \in Pointers
                         /\ CallOf(u).enter \in Pointers
                         /\ BackOf(u) = CallOf(u).back /\ BackOf(u) \in Pointers
         /\ ~Linked(u) => /\ u # Root /\ CallOf(u).op = "auto"
                          /\ BackOf(u) = CallOf(u).parent
                          /\ BackOf(u) \in Units /\ BackOf(u) \in AutoPages
<1> DEFINE c == CallOf(u)
<1>1. c \in AnyCall
  BY CallsByUnit
<1>2. Linked(Root)
  BY CallsAssumption DEF RootIsAbove
<1> HIDE DEF c
<1>3. \/ c.op = "auto" /\ c.parent \in Units
      \/ /\ c.op = "link" /\ c.up \in Pointers /\ c.down \in Pointers
         /\ c.enter \in Pointers /\ c.back \in Pointers
  BY <1>1 DEF AnyCall
<1> QED
  BY <1>2, <1>3 DEF c, Linked, BackOf, AutoPages

Done == {Calls[i].unit : i \in 1 .. Len(Calls) - Len(todo)}

TodoIsTheRest ==
  /\ Len(todo) <= Len(Calls)
  /\ \A i \in 1 .. Len(todo) : todo[i] = Calls[Len(Calls) - Len(todo) + i]

LEMMA NextCall ==
  ASSUME LinksTyped, TodoIsTheRest, MakeCall
  PROVE  /\ TodoIsTheRest'
         /\ Head(todo) \in AnyCall /\ Head(todo).unit \in Units \ Done
         /\ CallOf(Head(todo).unit) = Head(todo)
         /\ Done' = Done \cup {Head(todo).unit}
<1> DEFINE n == Len(Calls)
           m == Len(todo)
           k == n - m
           u == Head(todo).unit
<1>1. /\ todo \in Seq(AnyCall) /\ todo # <<>> /\ todo' = Tail(todo)
      /\ Calls \in Seq(AnyCall) /\ n \in Nat /\ m \in Nat \ {0} /\ m <= n
      /\ DOMAIN Calls = 1 .. n /\ Head(todo) = todo[1]
  BY CallsByUnit DEF LinksTyped, MakeCall, TodoIsTheRest
<1>2. Len(todo') = m - 1 /\ \A i \in 1 .. m - 1 : todo'[i] = todo[i + 1]
  BY <1>1
<1>3. /\ k \in Nat /\ k + 1 \in 1 .. n /\ Head(todo) = Calls[k + 1]
  BY <1>1 DEF TodoIsTheRest
<1>4. Head(todo) \in AnyCall /\ u \in Units
  <2>1. Head(todo) \in AnyCall
    BY <1>1
  <2> QED
    BY <2>1 DEF AnyCall
<1>5. CallOf(u) = Head(todo)
  BY <1>1, <1>3, CallsByUnit
<1>6. u \notin Done
  <2> SUFFICES ASSUME NEW i \in 1 .. k, Calls[i].unit = u PROVE FALSE
    BY DEF Done
  <2>1. i \in 1 .. n /\ i # k + 1
    BY <1>1, <1>3
  <2>2. i \in DOMAIN Calls /\ k + 1 \in DOMAIN Calls
    BY <1>1, <1>3, <2>1
  <2>3. Calls[i].unit = Calls[k + 1].unit
    BY <1>3
  <2> HIDE DEF k
  <2> QED
    BY <2>1, <2>2, <2>3, CallsAssumption DEF EachUnitIsLinkedOnce
<1>7. Done' = Done \cup {u}
  <2>1. n - Len(todo') = k + 1 /\ 1 .. k + 1 = (1 .. k) \cup {k + 1}
    BY <1>1, <1>2, <1>3
  <2>2. Done' = {Calls[i].unit : i \in 1 .. k + 1}
    BY <2>1 DEF Done
  <2>3. Done = {Calls[i].unit : i \in 1 .. k}
    BY DEF Done
  <2> HIDE DEF k
  <2> QED
    BY <1>3, <2>1, <2>2, <2>3
<1>8. TodoIsTheRest'
  <2>1. Len(todo') <= n
    BY <1>1, <1>2
  <2>2. ASSUME NEW i \in 1 .. m - 1 PROVE todo'[i] = Calls[n - (m - 1) + i]
    <3>1. i + 1 \in 1 .. m /\ n - m + (i + 1) = n - (m - 1) + i
      BY <1>1
    <3>2. todo[i + 1] = Calls[n - m + (i + 1)]
      BY <3>1 DEF TodoIsTheRest
    <3> QED
      BY <1>2, <3>1, <3>2
  <2> QED
    BY <1>2, <2>1, <2>2 DEF TodoIsTheRest
<1> QED
  BY <1>4, <1>5, <1>6, <1>7, <1>8

-----------------------------------------------------------------------------
(***************************************************************************)
(* The rings.  While the menu is built, a unit that menu_link was called   *)
(* for has the pointers it was given, and those that menu_auto_link_child  *)
(* was called for are on the ring of their page, between the ends of its   *)
(* list.                                                                   *)
(***************************************************************************)
AutoDone(page) == {u \in Done : ~Linked(u) /\ BackOf(u) = page}

LinkedAsTold ==
  \A u \in Done : Linked(u) =>
    up[u] = CallOf(u).up /\ down[u] = CallOf(u).down /\ back[u] = BackOf(u)

OnTheRing(u, page) ==
  /\ back[u] = page /\ up[u] \in AutoDone(page) /\ down[u] \in AutoDone(page)
  /\ down[up[u]] = u /\ up[down[u]] = u

AutoRings == \A page \in Units : \A u \in AutoDone(page) : OnTheRing(u, page)

ListEnds ==
  \A page \in Units :
    IF AutoDone(page) = {}
    THEN first_child[page] = NULL
    ELSE /\ first_child[page] \in AutoDone(page)
         /\ last_child[page] \in AutoDone(page)
         /\ down[last_child[page]] = first_child[page]

\* Whatever holds of a child and of the one below every unit that it holds of is
\* the whole list.
AutoHoldTogether ==
  \A page \in Units : \A ring \in SUBSET AutoDone(page) :
    ring # {} /\ (\A u \in ring : down[u] \in ring) => ring = AutoDone(page)

Entered ==
  \A u \in Pages :
    /\ enter[u] \in ItemsOf(u) \cup {NULL}
    /\ AutoDone(u) # {} => enter[u] # NULL
    /\ u \in Done /\ Linked(u) /\ CallOf(u).enter # NULL => enter[u] # NULL

BuildInv ==
  /\ TodoIsTheRest /\ tracked \subseteq AutoPages
  /\ LinkedAsTold /\ AutoRings /\ AutoHoldTogether /\ ListEnds /\ Entered

\* A call of menu_link.
LEMMA LinkStep ==
  ASSUME LinksTyped, BuildInv, NEW c, c.op = "link", c.unit \in Units \ Done,
         CallOf(c.unit) = c, Done' = Done \cup {c.unit}, Link(c)
  PROVE  /\ LinkedAsTold' /\ AutoRings' /\ AutoHoldTogether'
         /\ ListEnds' /\ Entered'
<1> DEFINE u == c.unit
<1>1. /\ {up, down, enter, back} \subseteq [Units -> Pointers]
      /\ up' = [up EXCEPT ![u] = c.up] /\ down' = [down EXCEPT ![u] = c.down]
      /\ back' = [back EXCEPT ![u] = c.back]
      /\ enter' = [enter EXCEPT ![u] = IF c.enter # NULL THEN c.enter ELSE @]
      /\ UNCHANGED <<first_child, last_child>> /\ u \in Units
  BY DEF LinksTyped, Link, tracker
<1>2. Linked(u) /\ BackOf(u) = c.back /\ CallOf(u) = c /\ u \notin Done /\ Done \subseteq Units
  <2>1. \A i \in DOMAIN Calls : Calls[i].unit \in Units
    BY CallsByUnit DEF AnyCall
  <2>2. Done \subseteq Units
    BY <2>1, CallsByUnit DEF Done, LinksTyped
  <2> QED
    BY <2>2 DEF Linked, BackOf
<1> HIDE DEF u
<1>3. \A page : AutoDone(page)' = AutoDone(page) /\ AutoDone(page) \subseteq Done
  BY <1>2 DEF AutoDone, u
<1>4. \A v \in Done : /\ up'[v] = up[v] /\ down'[v] = down[v] /\ back'[v] = back[v]
                      /\ v # u
  BY <1>1, <1>2
<1>5. LinkedAsTold'
  <2>1. up'[u] = CallOf(u).up /\ down'[u] = CallOf(u).down /\ back'[u] = BackOf(u)
    BY <1>1, <1>2
  <2> QED
    BY <1>4, <2>1 DEF LinkedAsTold, BuildInv, u
<1>6. AutoRings'
  BY <1>3, <1>4 DEF AutoRings, BuildInv, OnTheRing
<1>7. ListEnds'
  BY <1>1, <1>3, <1>4 DEF ListEnds, BuildInv
<1>8. Entered'
  <2> SUFFICES ASSUME NEW v \in Pages
               PROVE  /\ enter'[v] \in ItemsOf(v) \cup {NULL}
                      /\ AutoDone(v) # {} => enter'[v] # NULL
                      /\ v \in Done \cup {u} /\ Linked(v) /\ CallOf(v).enter # NULL
                           => enter'[v] # NULL
    BY <1>3 DEF Entered, u
  <2>1. v \in Units /\ (Linked(v) => CallOf(v).enter \in ItemsOf(v) \cup {NULL})
    BY CallsAssumption DEF Pages, PagesAreEntered
  <2>2. /\ enter[v] \in ItemsOf(v) \cup {NULL}
        /\ AutoDone(v) # {} => enter[v] # NULL
        /\ v \in Done /\ Linked(v) /\ CallOf(v).enter # NULL => enter[v] # NULL
    BY DEF BuildInv, Entered
  <2>3. enter'[v] = IF v = u /\ c.enter # NULL THEN c.enter ELSE enter[v]
    BY <1>1, <2>1
  <2> QED
    BY <1>2, <2>1, <2>2, <2>3
<1>9. AutoHoldTogether'
  <2> SUFFICES ASSUME NEW page \in Units, NEW ring \in SUBSET AutoDone(page),
                      ring # {}, \A v \in ring : down'[v] \in ring
               PROVE  ring = AutoDone(page)
    BY <1>3 DEF AutoHoldTogether
  <2>1. \A v \in ring : down[v] \in ring
    BY <1>3, <1>4
  <2> QED
    BY <2>1 DEF AutoHoldTogether, BuildInv
<1> QED
  BY <1>5, <1>6, <1>7, <1>8, <1>9

\* A call of menu_auto_link_child, when the page is in the tracker.
LEMMA AutoStep ==
  ASSUME LinksTyped, BuildInv, NEW u \in Units \ Done, NEW p \in Units,
         ~Linked(u), BackOf(u) = p, Done' = Done \cup {u},
         FirstChild(u, p) \/ NextChild(u, p)
  PROVE  /\ LinkedAsTold' /\ AutoRings' /\ AutoHoldTogether'
         /\ ListEnds' /\ Entered'
<1> DEFINE first == first_child[p]
           last  == last_child[p]
<1>1. /\ {up, down, enter, back} \subseteq [Units -> Pointers]
      /\ {first_child, last_child} \subseteq [Units -> Pointers]
      /\ u \notin Done /\ u # Root
  BY CallFields DEF LinksTyped
<1>2. /\ AutoDone(p)' = AutoDone(p) \cup {u} /\ u \notin AutoDone(p)
      /\ \A page : page # p => AutoDone(page)' = AutoDone(page)
      /\ \A page : \A v \in AutoDone(page) :
           v \in Done /\ v \in Units /\ ~Linked(v) /\ v # u /\ (page # p => v \notin AutoDone(p))
      /\ \A v \in Done : v \in Units /\ v # u
  <2>1. \A i \in DOMAIN Calls : Calls[i].unit \in Units
    BY CallsByUnit DEF AnyCall
  <2>2. Done \subseteq Units
    BY <2>1, CallsByUnit DEF Done, LinksTyped
  <2> QED
    BY <2>2 DEF AutoDone
<1>3. /\ \A page \in Units : \A v \in AutoDone(page) :
           /\ back[v] = page /\ up[v] \in AutoDone(page) /\ down[v] \in AutoDone(page)
           /\ down[up[v]] = v /\ up[down[v]] = v
  BY DEF BuildInv, AutoRings, OnTheRing
<1>4. \A page \in Units :
        IF AutoDone(page) = {}
        THEN first_child[page] = NULL
        ELSE /\ first_child[page] \in AutoDone(page)
             /\ last_child[page] \in AutoDone(page)
             /\ down[last_child[page]] = first_child[page]
  BY DEF BuildInv, ListEnds
<1>5. \A v \in Done : Linked(v) =>
        up[v] = CallOf(v).up /\ down[v] = CallOf(v).down /\ back[v] = BackOf(v)
  BY DEF BuildInv, LinkedAsTold
\* Only the page of u and its ring are disturbed.
<1>6. SUFFICES
        /\ \A v \in Done : v \notin AutoDone(p) =>
             up'[v] = up[v] /\ down'[v] = down[v] /\ back'[v] = back[v]
        /\ \A page \in Units \ {p} : /\ first_child'[page] = first_child[page]
                                     /\ last_child'[page] = last_child[page]
        /\ \A v \in AutoDone(p) \cup {u} :
             /\ back'[v] = p
             /\ up'[v] \in AutoDone(p) \cup {u} /\ down'[v] \in AutoDone(p) \cup {u}
             /\ down'[up'[v]] = v /\ up'[down'[v]] = v
        /\ first_child'[p] \in AutoDone(p) \cup {u}
        /\ last_child'[p] \in AutoDone(p) \cup {u}
        /\ down'[last_child'[p]] = first_child'[p]
        /\ (enter'[p] = enter[p] /\ AutoDone(p) # {}) \/ enter'[p] = u
        /\ \A v \in Units \ {p} : enter'[v] = enter[v]
        /\ \A ring \in SUBSET (AutoDone(p) \cup {u}) :
             ring # {} /\ (\A v \in ring : down'[v] \in ring)
               => ring = AutoDone(p) \cup {u}
  <2>1. ASSUME NEW page \in Units \ {p}, NEW v \in AutoDone(page)
        PROVE  /\ back'[v] = page
               /\ up'[v] \in AutoDone(page) /\ down'[v] \in AutoDone(page)
               /\ down'[up'[v]] = v /\ up'[down'[v]] = v
    <3>1. /\ v \in Done /\ v \notin AutoDone(p) /\ back[v] = page
          /\ up[v] \in AutoDone(page) /\ down[v] \in AutoDone(page)
          /\ down[up[v]] = v /\ up[down[v]] = v
      BY <1>2, <1>3, <2>1
    <3>2. /\ up[v] \in Done /\ up[v] \notin AutoDone(p)
          /\ down[v] \in Done /\ down[v] \notin AutoDone(p)
      BY <1>2, <3>1
    <3> QED
      BY <1>6, <3>1, <3>2
  <2>2. AutoRings'
    BY <1>2, <1>6, <2>1 DEF AutoRings, OnTheRing
  <2>3. ListEnds'
    <3>1. \A page \in Units \ {p} : AutoDone(page) # {} =>
            down'[last_child[page]] = down[last_child[page]]
      BY <1>2, <1>4, <1>6
    <3> QED
      BY <1>2, <1>4, <1>6, <3>1 DEF ListEnds
  <2>4. LinkedAsTold'
    BY <1>2, <1>5, <1>6 DEF LinkedAsTold, AutoDone
  <2>5. Entered'
    <3> SUFFICES ASSUME NEW v \in Pages
                 PROVE  /\ enter'[v] \in ItemsOf(v) \cup {NULL}
                        /\ AutoDone(v)' # {} => enter'[v] # NULL
                        /\ v \in Done \cup {u} /\ Linked(v) /\ CallOf(v).enter # NULL
                             => enter'[v] # NULL
      BY DEF Entered
    <3>1. /\ enter[v] \in ItemsOf(v) \cup {NULL}
          /\ AutoDone(v) # {} => enter[v] # NULL
          /\ v \in Done /\ Linked(v) /\ CallOf(v).enter # NULL => enter[v] # NULL
      BY DEF BuildInv, Entered
    <3>2. v \in Units /\ u \in ItemsOf(p) /\ u # NULL
      BY <1>1, Sizes DEF Pages, ItemsOf
    <3>3. CASE v = p
      BY <1>6, <3>1, <3>2, <3>3
    <3>4. CASE v # p
      BY <1>2, <1>6, <3>1, <3>2, <3>4
    <3> QED
      BY <3>3, <3>4
  <2>6. AutoHoldTogether'
    <3> SUFFICES ASSUME NEW page \in Units, NEW ring \in SUBSET AutoDone(page)',
                        ring # {}, \A v \in ring : down'[v] \in ring
                 PROVE  ring = AutoDone(page)'
      BY DEF AutoHoldTogether
    <3>1. CASE page = p
      BY <1>2, <1>6, <3>1
    <3>2. CASE page # p
      <4>1. ring \in SUBSET AutoDone(page) /\ AutoDone(page)' = AutoDone(page)
        BY <1>2, <3>2
      <4>2. \A v \in ring : v \in Done /\ v \notin AutoDone(p)
        BY <1>2, <3>2, <4>1
      <4>3. \A v \in ring : down[v] \in ring
        BY <1>6, <4>2
      <4> QED
        BY <4>1, <4>3 DEF BuildInv, AutoHoldTogether
    <3> QED
      BY <3>1, <3>2
  <2> QED
    BY <2>2, <2>3, <2>4, <2>5, <2>6
<1>7. CASE FirstChild(u, p)
  <2>1. /\ first = NULL
        /\ first_child' = [first_child EXCEPT ![p] = u]
        /\ last_child' = [last_child EXCEPT ![p] = u]
        /\ enter' = [enter EXCEPT ![p] = u]
        /\ up' = [up EXCEPT ![u] = u] /\ down' = [down EXCEPT ![u] = u]
        /\ back' = [back EXCEPT ![u] = p]
    BY <1>7 DEF FirstChild
  <2>2. AutoDone(p) = {}
    BY <1>2, <1>4, <2>1, Sizes
  <2>3. \A ring \in SUBSET (AutoDone(p) \cup {u}) :
          ring # {} => ring = AutoDone(p) \cup {u}
    BY <2>2
  <2>4. /\ \A v \in Done : v \notin AutoDone(p) =>
             up'[v] = up[v] /\ down'[v] = down[v] /\ back'[v] = back[v]
        /\ \A page \in Units \ {p} : /\ first_child'[page] = first_child[page]
                                     /\ last_child'[page] = last_child[page]
        /\ \A v \in Units \ {p} : enter'[v] = enter[v]
    BY <1>2, <2>1
  <2>5. /\ up'[u] = u /\ down'[u] = u /\ back'[u] = p
        /\ first_child'[p] = u /\ last_child'[p] = u /\ enter'[p] = u
    BY <1>1, <2>1
  <2> QED
    BY <2>2, <2>3, <2>4, <2>5
<1>8. CASE NextChild(u, p)
  <2>1. /\ first # NULL
        /\ down' = [down EXCEPT ![last] = u, ![u] = first]
        /\ up' = [up EXCEPT ![u] = last, ![first] = u]
        /\ back' = [back EXCEPT ![u] = p]
        /\ last_child' = [last_child EXCEPT ![p] = u]
        /\ UNCHANGED <<first_child, enter>>
    BY <1>8 DEF NextChild
  <2>2. /\ AutoDone(p) # {} /\ first \in AutoDone(p) /\ last \in AutoDone(p)
        /\ down[last] = first /\ up[first] = last
        /\ first \in Units /\ last \in Units /\ first # u /\ last # u
    BY <1>2, <1>3, <1>4, <2>1
  <2> HIDE DEF first, last
  <2>3. /\ up'[u] = last /\ up'[first] = u
        /\ \A v \in Units \ {u, first} : up'[v] = up[v]
        /\ down'[last] = u /\ down'[u] = first
        /\ \A v \in Units \ {u, last} : down'[v] = down[v]
        /\ back'[u] = p /\ \A v \in Units \ {u} : back'[v] = back[v]
        /\ last_child'[p] = u /\ first_child'[p] = first
        /\ \A page \in Units \ {p} : last_child'[page] = last_child[page]
    BY <1>1, <2>1, <2>2 DEF first
  <2>4. ASSUME NEW v \in AutoDone(p)
        PROVE  /\ back'[v] = p
               /\ up'[v] \in AutoDone(p) \cup {u} /\ down'[v] \in AutoDone(p) \cup {u}
               /\ down'[up'[v]] = v /\ up'[down'[v]] = v
    <3>1. /\ v \in Units /\ v # u /\ back[v] = p
          /\ up[v] \in AutoDone(p) /\ down[v] \in AutoDone(p)
          /\ down[up[v]] = v /\ up[down[v]] = v
          /\ up[v] \in Units \ {u} /\ down[v] \in Units \ {u}
      BY <1>2, <1>3
    <3>2. v # first => up[v] # last
      BY <2>2, <3>1
    <3>3. v # last => down[v] # first
      BY <2>2, <3>1
    <3>4. up'[v] \in AutoDone(p) \cup {u} /\ down'[up'[v]] = v
      BY <2>2, <2>3, <3>1, <3>2
    <3>5. down'[v] \in AutoDone(p) \cup {u} /\ up'[down'[v]] = v
      BY <2>2, <2>3, <3>1, <3>3
    <3> QED
      BY <2>3, <3>1, <3>4, <3>5
  <2>5. /\ back'[u] = p /\ up'[u] \in AutoDone(p) /\ down'[u] \in AutoDone(p)
        /\ down'[up'[u]] = u /\ up'[down'[u]] = u
    BY <2>2, <2>3
  <2>6. \A v \in Done : v \notin AutoDone(p) =>
          up'[v] = up[v] /\ down'[v] = down[v] /\ back'[v] = back[v]
    BY <1>2, <2>2, <2>3
\* Without u it goes round the list as it was, so that it goes through last.
  <2>7. ASSUME NEW ring \in SUBSET (AutoDone(p) \cup {u}), ring # {},
               \A v \in ring : down'[v] \in ring
        PROVE  ring = AutoDone(p) \cup {u}
    <3> DEFINE rest == ring \ {u}
    <3>1. rest \in SUBSET AutoDone(p)
      OBVIOUS
    <3>2. u \in ring => first \in rest
      BY <2>2, <2>3, <2>7
    <3>3. last \in ring => u \in ring
      BY <2>3, <2>7
    <3>4. \A v \in rest : down[v] \in rest
      <4> SUFFICES ASSUME NEW v \in rest PROVE down[v] \in rest
        OBVIOUS
      <4>1. v \in AutoDone(p) /\ down[v] \in AutoDone(p) /\ v \in Units \ {u}
            /\ down[v] # u
        BY <1>2, <1>3
      <4>2. CASE v = last
        BY <2>2, <3>2, <3>3, <4>2
      <4>3. CASE v # last
        BY <2>3, <2>7, <4>1, <4>3
      <4> QED
        BY <4>2, <4>3
    <3>5. rest # {}
      BY <2>7, <3>2
    <3> HIDE DEF rest
    <3>6. rest = AutoDone(p)
      BY <3>1, <3>4, <3>5 DEF BuildInv, AutoHoldTogether
    <3> QED
      BY <2>2, <3>3, <3>6 DEF rest
  <2>8. \A v \in AutoDone(p) \cup {u} :
          /\ back'[v] = p
          /\ up'[v] \in AutoDone(p) \cup {u} /\ down'[v] \in AutoDone(p) \cup {u}
          /\ down'[up'[v]] = v /\ up'[down'[v]] = v
    BY <2>4, <2>5
  <2>9. /\ first_child'[p] \in AutoDone(p) \cup {u}
        /\ last_child'[p] \in AutoDone(p) \cup {u}
        /\ down'[last_child'[p]] = first_child'[p]
        /\ enter' = enter /\ AutoDone(p) # {}
        /\ \A page \in Units \ {p} : /\ first_child'[page] = first_child[page]
                                     /\ last_child'[page] = last_child[page]
    BY <2>1, <2>2, <2>3
  <2> HIDE DEF first, last
  <2> QED
    BY <2>6, <2>7, <2>8, <2>9
<1> QED
  BY <1>7, <1>8

\* The tracker has room for every page it is asked to track.
LEMMA TrackerHasRoom ==
  ASSUME LinksTyped, tracked \subseteq AutoPages, NEW p \in AutoPages
  PROVE  Trackable(p)
<1>1. IsFiniteSet(AutoPages) /\ Cardinality(AutoPages) <= MaxPageTrack
  <2>1. AutoPages \subseteq Units
    BY CallFields DEF AutoPages, BackOf
  <2> QED
    BY <2>1, MenuAssumption, CallsAssumption, FS_Subset DEF PagesFit
<1>2. IsFiniteSet(tracked) /\ Cardinality(tracked) \in Nat
      /\ Cardinality(AutoPages) \in Nat
  BY <1>1, FS_Subset, FS_CardinalityType
<1>3. CASE p \notin tracked
  <2> DEFINE more == tracked \cup {p}
  <2>1. more \subseteq AutoPages
    OBVIOUS
  <2>2. Cardinality(more) = Cardinality(tracked) + 1
    BY <1>2, <1>3, FS_AddElement
  <2> HIDE DEF more
  <2>3. Cardinality(more) <= Cardinality(AutoPages)
    BY <1>1, <2>1, FS_Subset
  <2> QED
    BY <1>1, <1>2, <2>2, <2>3, LinksAssumption DEF Trackable
<1> QED
  BY <1>3 DEF Trackable

LEMMA BuildInit == LinksInit => BuildInv
<1> SUFFICES ASSUME LinksInit PROVE BuildInv
  OBVIOUS
<1>1. Calls \in Seq(AnyCall) /\ todo = Calls /\ Len(Calls) \in Nat
  BY CallsByUnit DEF LinksInit
<1>2. Done = {} /\ TodoIsTheRest
  BY <1>1 DEF Done, TodoIsTheRest
<1>3. \A u \in Units : first_child[u] = NULL /\ enter[u] = NULL
  BY DEF LinksInit, Nothing
<1>4. \A page : AutoDone(page) = {}
  BY <1>2 DEF AutoDone
<1>5. Pages \subseteq Units
  BY DEF Pages
<1> QED
  BY <1>2, <1>3, <1>4, <1>5
     DEF BuildInv, LinksInit, LinkedAsTold, AutoRings, AutoHoldTogether, ListEnds,
         Entered

LEMMA BuildStep ==
  ASSUME LinksTyped, BuildInv, MakeCall
  PROVE  BuildInv'
<1> DEFINE c == Head(todo)
<1>1. /\ TodoIsTheRest' /\ c \in AnyCall /\ c.unit \in Units \ Done
      /\ CallOf(c.unit) = c /\ Done' = Done \cup {c.unit}
  BY NextCall DEF BuildInv
<1>2. \/ c.op = "auto" /\ AutoLinkChild(c.unit, c.parent)
      \/ c.op = "link" /\ Link(c)
  BY DEF MakeCall
<1> HIDE DEF c
<1>3. CASE c.op = "auto" /\ AutoLinkChild(c.unit, c.parent)
  <2>1. /\ ~Linked(c.unit) /\ BackOf(c.unit) = c.parent
        /\ c.parent \in Units /\ c.parent \in AutoPages
    BY <1>1, <1>3, CallFields DEF Linked, BackOf
  <2>2. Trackable(c.parent)
    BY <2>1, TrackerHasRoom DEF BuildInv
  <2>3. /\ tracked' = tracked \cup {c.parent}
        /\ FirstChild(c.unit, c.parent) \/ NextChild(c.unit, c.parent)
    BY <1>3, <2>2 DEF AutoLinkChild
  <2>4. LinkedAsTold' /\ AutoRings' /\ AutoHoldTogether' /\ ListEnds' /\ Entered'
    <3> DEFINE u == c.unit
               p == c.parent
    <3>1. /\ u \in Units \ Done /\ p \in Units /\ ~Linked(u) /\ BackOf(u) = p
          /\ Done' = Done \cup {u}
          /\ FirstChild(u, p) \/ NextChild(u, p)
      BY <1>1, <2>1, <2>3
    <3> HIDE DEF u, p
    <3> QED
      BY <3>1, AutoStep
  <2>5. tracked' \subseteq AutoPages
    BY <2>1, <2>3 DEF BuildInv
  <2> QED
    BY <1>1, <2>4, <2>5 DEF BuildInv
<1>4. CASE c.op = "link" /\ Link(c)
  <2>1. LinkedAsTold' /\ AutoRings' /\ AutoHoldTogether' /\ ListEnds' /\ Entered'
    <3>1. /\ c.op = "link" /\ c.unit \in Units \ Done /\ CallOf(c.unit) = c
          /\ Done' = Done \cup {c.unit} /\ Link(c)
      BY <1>1, <1>4
    <3> QED
      BY <3>1, LinkStep, Zenon
  <2>2. tracked' = tracked
    BY <1>4 DEF Link, tracker
  <2> QED
    BY <1>1, <2>1, <2>2 DEF BuildInv
<1> QED
  BY <1>2, <1>3, <1>4

LEMMA AllCallsMade ==
  ASSUME Built
  PROVE  Done = Units
<1>1. Calls \in Seq(AnyCall) /\ DOMAIN Calls = 1 .. Len(Calls) /\ Len(todo) = 0
  BY CallsByUnit DEF Built
<1>2. Done = {Calls[i].unit : i \in DOMAIN Calls}
  BY <1>1 DEF Done
<1>3. \A i \in DOMAIN Calls : Calls[i].unit \in Units
  BY <1>1 DEF AnyCall
<1> QED
  BY <1>2, <1>3, CallsAssumption DEF EachUnitIsLinkedOnce

\* After the last call every unit below the root is on a ring of units that
\* lead back where it does.
LEMMA MenuBuilt ==
  ASSUME LinksTyped, BuildInv, Built
  PROVE  /\ \A u \in Units \ {Root} :
              /\ up[u] \in Units \ {Root} /\ down[u] \in Units \ {Root}
              /\ down[up[u]] = u /\ up[down[u]] = u
              /\ back[u] = BackOf(u) /\ BackOf(down[u]) = BackOf(u)
         /\ down[Root] = CallOf(Root).down /\ back[Root] = NULL
         /\ \A u \in Pages : enter[u] \in ItemsOf(u)
<1>1. Done = Units
  BY AllCallsMade
<1>2. ASSUME NEW u \in Units \ {Root}
      PROVE  /\ up[u] \in Units \ {Root} /\ down[u] \in Units \ {Root}
             /\ down[up[u]] = u /\ up[down[u]] = u
             /\ back[u] = BackOf(u) /\ BackOf(down[u]) = BackOf(u)
  <2>1. CASE Linked(u)
    <3> DEFINE above == CallOf(u).up
               below == CallOf(u).down
    <3>1. /\ above \in Units \ {Root} /\ Linked(above) /\ CallOf(above).down = u
          /\ below \in Units \ {Root} /\ Linked(below) /\ CallOf(below).up = u
          /\ BackOf(below) = BackOf(u)
      BY <1>2, <2>1, CallsAssumption DEF NeighboursAgree
    <3>2. /\ up[u] = above /\ down[u] = below /\ back[u] = BackOf(u)
      BY <1>1, <2>1 DEF BuildInv, LinkedAsTold
    <3> HIDE DEF above, below
    <3>3. down[above] = CallOf(above).down /\ up[below] = CallOf(below).up
      BY <1>1, <3>1 DEF BuildInv, LinkedAsTold
    <3> QED
      BY <3>1, <3>2, <3>3
  <2>2. CASE ~Linked(u)
    <3> DEFINE page == BackOf(u)
    <3>1. page \in Units /\ u \in AutoDone(page)
      BY <1>1, <2>2, CallFields DEF AutoDone
    <3> HIDE DEF page
    <3>2. OnTheRing(u, page)
      BY <3>1 DEF BuildInv, AutoRings
    <3>3. \A v \in AutoDone(page) : v \in Units \ {Root} /\ BackOf(v) = page
      BY <1>1, CallFields DEF AutoDone
    <3> QED
      BY <3>1, <3>2, <3>3 DEF OnTheRing
  <2> QED
    BY <2>1, <2>2
<1>3. down[Root] = CallOf(Root).down /\ back[Root] = NULL
  BY <1>1, CallsAssumption, Sizes DEF RootIsAbove, BuildInv, LinkedAsTold
<1>4. ASSUME NEW u \in Pages PROVE enter[u] \in ItemsOf(u)
  <2>1. /\ u \in AutoPages \/ (Linked(u) /\ CallOf(u).enter # NULL)
        /\ u \in Units
    BY CallsAssumption DEF PagesAreEntered, Pages
  <2>2. u \in AutoPages => AutoDone(u) # {}
    <3> SUFFICES ASSUME u \in AutoPages PROVE AutoDone(u) # {}
      OBVIOUS
    <3>1. PICK v \in Units : ~Linked(v) /\ CallOf(v).parent = u
      BY DEF AutoPages
    <3>2. v \in AutoDone(u)
      BY <1>1, <3>1 DEF AutoDone, BackOf
    <3> QED
      BY <3>2
  <2>3. enter[u] \in ItemsOf(u) \cup {NULL} /\ enter[u] # NULL
    BY <1>1, <2>1, <2>2 DEF BuildInv, Entered
  <2> QED
    BY <2>3
<1> QED
  BY <1>2, <1>3, <1>4

\* The lines of a page are units of the page, and no more than it has: going
\* down from one unit of a ring the same unit does not come twice before the
\* first one comes again.
LEMMA RingIsItsPage ==
  ASSUME down \in [Units -> Pointers], NEW R \in SUBSET Units, NEW first \in R,
         \A v \in R : down[v] \in R /\ up[down[v]] = v
  PROVE  /\ \A n \in 0 .. MaxUnits : Chain(first)[n] \in R
         /\ TotalItems(first) \in Nat /\ TotalItems(first) <= MaxUnits
         /\ TotalItems(first) <= Cardinality(R)
<1> DEFINE c == Chain(first)
           t == TotalItems(first)
           T == {n \in Nat : n <= MaxUnits => c[n] \in R}
<1>1. /\ c[0] = first
      /\ \A n \in 1 .. MaxUnits : c[n] = UnitBelow(c[n - 1])
  BY ChainUnfolds
<1>2. t \in 1 .. MaxUnits
  BY PageHasUnits
<1>3. NULL \notin R /\ MaxUnits \in Nat
  BY Sizes
<1> HIDE DEF c
<1>4. 0 \in T
  BY <1>1
<1>5. ASSUME NEW n \in Nat, n \in T PROVE n + 1 \in T
  <2> SUFFICES ASSUME n + 1 <= MaxUnits PROVE c[n + 1] \in R
    OBVIOUS
  <2>1. n + 1 \in 1 .. MaxUnits /\ (n + 1) - 1 = n /\ n <= MaxUnits
    BY <1>3
  <2>2. c[n + 1] = UnitBelow(c[n]) /\ c[n] \in R
    BY <1>1, <1>5, <2>1
  <2> QED
    BY <1>3, <2>2 DEF UnitBelow
<1>6. \A n \in 0 .. MaxUnits : c[n] \in R
  <2> HIDE DEF T
  <2>1. Nat \subseteq T
    BY <1>4, <1>5, Induction
  <2> QED
    BY <1>3, <2>1 DEF T
<1>7. \A n \in 1 .. MaxUnits : c[n] = down[c[n - 1]] /\ c[n - 1] = up[c[n]]
  <2> SUFFICES ASSUME NEW n \in 1 .. MaxUnits
               PROVE  c[n] = down[c[n - 1]] /\ c[n - 1] = up[c[n]]
    OBVIOUS
  <2>1. n - 1 \in 0 .. MaxUnits
    BY <1>3
  <2>2. c[n - 1] \in R /\ c[n] = UnitBelow(c[n - 1])
    BY <1>1, <1>6, <2>1
  <2> QED
    BY <1>3, <2>2 DEF UnitBelow
<1>8. \A m \in 1 .. t - 1 : c[m] # first
  BY PageHasUnits DEF c
<1> HIDE DEF t
\* If a unit came twice, the least line on which one does were the first line.
<1> DEFINE Again == {i \in 0 .. t - 1 : \E j \in i + 1 .. t - 1 : c[i] = c[j]}
<1>9. Again = {}
  <2> SUFFICES ASSUME Again # {} PROVE FALSE
    OBVIOUS
  <2>1. Again \in SUBSET Nat
    BY <1>2
  <2>2. PICK i \in Again : \A k \in Again : i <= k
    BY <2>1, LeastExists
  <2>3. PICK j \in i + 1 .. t - 1 : c[i] = c[j]
    BY <2>2
  <2>4. i # 0
    BY <1>1, <1>2, <1>8, <2>2, <2>3
  <2>5. /\ i \in 1 .. MaxUnits /\ j \in 1 .. MaxUnits
        /\ i - 1 \in 0 .. t - 1 /\ j - 1 \in (i - 1) + 1 .. t - 1
    BY <1>2, <1>3, <2>2, <2>3, <2>4
  <2>6. c[i - 1] = c[j - 1]
    BY <1>7, <2>3, <2>5
  <2> QED
    BY <2>2, <2>5, <2>6
<1> DEFINE line == [i \in 0 .. t - 1 |-> c[i]]
<1>10. line \in Injection(0 .. t - 1, R)
  <2>1. line \in [0 .. t - 1 -> R]
    BY <1>2, <1>3, <1>6
  <2>2. \A i, j \in 0 .. t - 1 : c[i] = c[j] => i = j
    <3> SUFFICES ASSUME NEW i \in 0 .. t - 1, NEW j \in 0 .. t - 1, c[i] = c[j], i < j
                 PROVE  FALSE
      BY <1>2
    <3> QED
      BY <1>2, <1>9
  <2> QED
    BY <2>1, <2>2 DEF Injection, IsInjective
<1>11. t <= Cardinality(R)
  <2>1. IsFiniteSet(0 .. t - 1) /\ Cardinality(0 .. t - 1) = t
    BY <1>2, FS_Interval
  <2>2. IsFiniteSet(R)
    BY MenuAssumption, FS_Subset
  <2> HIDE DEF line
  <2> QED
    BY <1>10, <2>1, <2>2, FS_Injection
<1> QED
  BY <1>2, <1>3, <1>6, <1>11 DEF c, t

LEMMA PageIsARing ==
  ASSUME LinksTyped, BuildInv, Built, NEW page \in Pages \cup {NULL},
         NEW first \in ItemsOf(page)
  PROVE  /\ TotalItems(first) \in Nat /\ TotalItems(first) <= ItemsPerPage
         /\ \A n \in 0 .. TotalItems(first) :
              Chain(first)[n] \in Units \ {Root} /\ back[Chain(first)[n]] = page
<1> DEFINE R == ItemsOf(page)
<1>1. /\ R \in SUBSET Units
      /\ \A v \in R : v \in Units \ {Root} /\ BackOf(v) = page
  BY DEF ItemsOf
<1>2. \A v \in R : down[v] \in R /\ up[down[v]] = v /\ back[v] = page
  BY MenuBuilt DEF ItemsOf
<1>3. Cardinality(R) <= ItemsPerPage
  BY CallsAssumption DEF PagesFit
<1>4. IsFiniteSet(R) /\ Cardinality(R) \in Nat
  BY <1>1, MenuAssumption, FS_Subset, FS_CardinalityType
<1> DEFINE t == TotalItems(first)
           c == Chain(first)
<1>5. down \in [Units -> Pointers]
  BY DEF LinksTyped
<1>6. /\ \A n \in 0 .. MaxUnits : c[n] \in R
      /\ t \in Nat /\ t <= MaxUnits /\ t <= Cardinality(R)
  <2> HIDE DEF R
  <2> QED
    BY <1>1, <1>2, <1>5, RingIsItsPage DEF R
<1> HIDE DEF t, c, R
<1>7. t <= ItemsPerPage
  BY <1>3, <1>4, <1>6, Sizes
<1>8. \A n \in 0 .. t : n \in 0 .. MaxUnits
  BY <1>6, Sizes
<1> QED
  BY <1>1, <1>2, <1>6, <1>7, <1>8 DEF t, c

\* The part of PagesOwnTheirUnits that the walks below rest on: what a page leads
\* to leads back to it.
PagesLead ==
  Built =>
    /\ \A u \in Units \ {Root} : Kind[u] = "PAGE" =>
         /\ enter[u] # NULL /\ TotalItems(enter[u]) <= ItemsPerPage
         /\ \A n \in 0 .. TotalItems(enter[u]) : back[Chain(enter[u])[n]] = u
    /\ down[Root] # NULL /\ TotalItems(down[Root]) <= ItemsPerPage
    /\ \A n \in 0 .. TotalItems(down[Root]) :
         Chain(down[Root])[n] # Root /\ back[Chain(down[Root])[n]] = NULL
    /\ back[Root] = NULL /\ back[CarStart] = NULL

LEMMA PagesOwn ==
  ASSUME LinksTyped, BuildInv
  PROVE  PagesLead
<1> SUFFICES ASSUME Built PROVE PagesLead
  BY DEF PagesLead
<1>1. ASSUME NEW u \in Units \ {Root}, Kind[u] = "PAGE"
      PROVE  /\ enter[u] # NULL /\ TotalItems(enter[u]) <= ItemsPerPage
             /\ \A n \in 0 .. TotalItems(enter[u]) : back[Chain(enter[u])[n]] = u
  <2> DEFINE f == enter[u]
  <2>1. u \in Pages
    BY <1>1 DEF Pages
  <2>2. f \in ItemsOf(u)
    BY <2>1, MenuBuilt
  <2>3. f # NULL
    BY <2>2, Sizes DEF ItemsOf
  <2> HIDE DEF f
  <2>4. /\ TotalItems(f) <= ItemsPerPage
        /\ \A n \in 0 .. TotalItems(f) : back[Chain(f)[n]] = u
    BY <2>1, <2>2, PageIsARing
  <2> QED
    BY <2>3, <2>4 DEF f
<1> DEFINE g == down[Root]
<1>2. g \in ItemsOf(NULL)
  BY MenuBuilt, CallsAssumption DEF RootIsAbove
<1>3. back[Root] = NULL /\ back[CarStart] = NULL
  BY MenuBuilt, CallsAssumption DEF RootIsAbove, ItemsOf
<1> HIDE DEF g
<1>4. /\ g # NULL /\ TotalItems(g) <= ItemsPerPage
      /\ \A n \in 0 .. TotalItems(g) : Chain(g)[n] # Root /\ back[Chain(g)[n]] = NULL
  <2>1. /\ TotalItems(g) <= ItemsPerPage
        /\ \A n \in 0 .. TotalItems(g) :
             Chain(g)[n] \in Units \ {Root} /\ back[Chain(g)[n]] = NULL
    BY <1>2, PageIsARing
  <2>2. g # NULL
    BY <1>2, Sizes DEF ItemsOf
  <2> QED
    BY <2>1, <2>2
<1> QED
  BY <1>1, <1>3, <1>4 DEF PagesLead, g

-----------------------------------------------------------------------------
(***************************************************************************)
(* The menu once it is built.  Only the calls change the links.            *)
(***************************************************************************)
LEMMA LinksCorrect == Spec => [](LinksTyped /\ BuildInv)
<1>1. Init => LinksTyped /\ BuildInv
  BY LinksInitTyped, BuildInit DEF Init
<1>2. LinksTyped /\ BuildInv /\ [Next]_vars => LinksTyped' /\ BuildInv'
  <2> SUFFICES ASSUME LinksTyped, BuildInv, [Next]_vars PROVE LinksTyped' /\ BuildInv'
    OBVIOUS
  <2>1. CASE MakeCall
    BY <2>1, LinksStepTyped, BuildStep
  <2>2. CASE UNCHANGED linkVars
    <3>1. /\ todo' = todo /\ up' = up /\ down' = down /\ enter' = enter /\ back' = back
          /\ tracked' = tracked /\ first_child' = first_child /\ last_child' = last_child
      BY <2>2 DEF linkVars, pointers, tracker
    <3>2. LinksTyped'
      BY <3>1 DEF LinksTyped
    <3>3. Done' = Done /\ TodoIsTheRest'
      BY <3>1 DEF Done, TodoIsTheRest, BuildInv
    <3>4. \A page : AutoDone(page)' = AutoDone(page)
      BY <3>3 DEF AutoDone
    <3> QED
      BY <3>1, <3>2, <3>3, <3>4
         DEF BuildInv, LinkedAsTold, AutoRings, OnTheRing, AutoHoldTogether, ListEnds,
             Entered
  <2> QED
    BY <2>1, <2>2 DEF Next, vars, Create, PowerOn, Browse, Edit, RaceEnd
<1> QED
  BY <1>1, <1>2, PTL DEF Spec

\* However the calls of menu_link and menu_auto_link_child are interleaved,
\* going down and going up a page are each other's inverse.
THEOREM RingsCorrect == Spec => []RingsClose
<1>1. LinksTyped /\ BuildInv => RingsClose
  <2> SUFFICES ASSUME LinksTyped, BuildInv, Built, NEW u \in Units \ {Root}
               PROVE  /\ up[u] # NULL /\ down[u] # NULL
                      /\ down[up[u]] = u /\ up[down[u]] = u
    BY DEF RingsClose
  <2> QED
    BY MenuBuilt, Sizes
<1> QED
  BY <1>1, LinksCorrect, PTL

LEMMA LeadCorrect == Spec => []PagesLead
BY PagesOwn, LinksCorrect, PTL

-----------------------------------------------------------------------------
(***************************************************************************)
(* The way to the page on the screen.  An entry is a state of the cursor:  *)
(* the one on the screen, or one that is kept to go back to.               *)
(***************************************************************************)
Entry == [page_first : Units, current : Units, line : 0 .. ItemsPerPage - 1]

Page(u) == u \in Units \ {Root} /\ Kind[u] = "PAGE"

FirstOfPage(f) == f = down[Root] \/ \E u \in Units : Page(u) /\ f = enter[u]

OnItsLine(e) ==
  /\ FirstOfPage(e.page_first) /\ e.line \in 0 .. TotalItems(e.page_first) - 1
  /\ e.current = Chain(e.page_first)[e.line]

LeadsTo(e, f) == Kind[e.current] = "PAGE" /\ f.page_first = enter[e.current]

IsWay(w) ==
  /\ w \in Seq(Entry) /\ w # <<>> /\ w[1].page_first = down[Root]
  /\ \A i \in 1 .. Len(w) : OnItsLine(w[i])
  /\ \A i \in 1 .. Len(w) - 1 : LeadsTo(w[i], w[i + 1])

\* The inductive invariant.  The two parts that StackIsTheWay is silent about
\* are that the cursors kept on the stack are on their lines, too, and that
\* the stack is empty when a race is run: the main page is entered after it.
WayInv ==
  /\ menu_active => On
  /\ On => Built
  /\ ~menu_active => menu_stack = <<>>
  /\ Len(menu_stack) < StackSize
  /\ On => \A w : w = Way => IsWay(w)

Inv == TypeOK /\ WayInv

\* The pages that own their units: the units on their lines.
LEMMA PageUnits ==
  ASSUME TypeOK, Built, PagesLead, NEW f, FirstOfPage(f)
  PROVE  /\ f \in Units
         /\ TotalItems(f) \in 1 .. ItemsPerPage
         /\ \A n \in 0 .. TotalItems(f) - 1 : Chain(f)[n] \in Units \ {Root}
<1>1. /\ down \in [Units -> Pointers] /\ enter \in [Units -> Pointers]
      /\ back[Root] = NULL
  BY DEF TypeOK, PagesLead
<1>2. f \in Units /\ TotalItems(f) <= ItemsPerPage
  BY <1>1, Sizes DEF FirstOfPage, Page, PagesLead
<1>3. /\ TotalItems(f) \in 1 .. MaxUnits
      /\ \A n \in 0 .. TotalItems(f) - 1 : Chain(f)[n] \in Units
  BY <1>1, <1>2, PageHasUnits
<1>4. \A n \in 0 .. TotalItems(f) : Chain(f)[n] # Root
  <2>1. CASE f = down[Root]
    BY <2>1 DEF PagesLead
  <2>2. CASE \E u \in Units : Page(u) /\ f = enter[u]
    <3>1. PICK u \in Units : Page(u) /\ f = enter[u]
      BY <2>2
    <3>2. \A n \in 0 .. TotalItems(f) : back[Chain(f)[n]] = u
      BY <3>1 DEF Page, PagesLead
    <3> QED
      BY <1>1, <3>2, Sizes
  <2> QED
    BY <2>1, <2>2 DEF FirstOfPage
<1>5. TotalItems(f) \in 1 .. ItemsPerPage
      /\ \A n \in 0 .. TotalItems(f) - 1 : n \in 0 .. TotalItems(f)
  BY <1>2, <1>3, Sizes
<1> QED
  BY <1>2, <1>3, <1>4, <1>5

\* Moving along a page, entering one and leaving one.
LEMMA WayMoves ==
  ASSUME NEW st \in Seq(Entry), NEW h \in Entry, NEW h2 \in Entry,
         IsWay(Append(st, h)), h2.page_first = h.page_first, OnItsLine(h2)
  PROVE  IsWay(Append(st, h2))
<1> DEFINE w == Append(st, h)
           v == Append(st, h2)
<1>1. /\ v \in Seq(Entry) /\ v # <<>> /\ Len(v) = Len(st) + 1 /\ Len(w) = Len(st) + 1
      /\ Len(st) \in Nat
      /\ v[Len(st) + 1] = h2 /\ w[Len(st) + 1] = h
      /\ \A i \in 1 .. Len(st) : v[i] = w[i]
  OBVIOUS
<1>2. IsWay(w)
  OBVIOUS
<1> HIDE DEF v, w
<1>3. v[1].page_first = down[Root]
  BY <1>1, <1>2 DEF IsWay
<1>4. \A i \in 1 .. Len(v) : OnItsLine(v[i])
  BY <1>1, <1>2 DEF IsWay
<1>5. \A i \in 1 .. Len(v) - 1 : LeadsTo(v[i], v[i + 1])
  <2> SUFFICES ASSUME NEW i \in 1 .. Len(st) PROVE LeadsTo(v[i], v[i + 1])
    BY <1>1
  <2>1. LeadsTo(w[i], w[i + 1]) /\ v[i] = w[i]
    BY <1>1, <1>2 DEF IsWay
  <2>2. v[i + 1] = w[i + 1] \/ (v[i + 1] = h2 /\ w[i + 1] = h)
    BY <1>1
  <2> QED
    BY <2>1, <2>2 DEF LeadsTo
<1> QED
  BY <1>1, <1>3, <1>4, <1>5 DEF IsWay, v

LEMMA WayGrows ==
  ASSUME NEW w \in Seq(Entry), NEW h \in Entry, IsWay(w),
         LeadsTo(w[Len(w)], h), OnItsLine(h)
  PROVE  IsWay(Append(w, h))
<1> DEFINE v == Append(w, h)
<1>1. /\ v \in Seq(Entry) /\ v # <<>> /\ Len(v) = Len(w) + 1 /\ Len(w) \in Nat
      /\ w # <<>> => Len(w) >= 1
      /\ v[Len(w) + 1] = h /\ \A i \in 1 .. Len(w) : v[i] = w[i]
  OBVIOUS
<1> HIDE DEF v
<1>2. \A i \in 1 .. Len(v) : OnItsLine(v[i])
  BY <1>1 DEF IsWay
<1>3. \A i \in 1 .. Len(v) - 1 : LeadsTo(v[i], v[i + 1])
  <2> SUFFICES ASSUME NEW i \in 1 .. Len(w) PROVE LeadsTo(v[i], v[i + 1])
    BY <1>1
  <2>1. CASE i = Len(w)
    BY <1>1, <2>1
  <2>2. CASE i # Len(w)
    <3>1. i + 1 \in 1 .. Len(w) /\ i \in 1 .. Len(w) - 1
      BY <1>1, <2>2
    <3> QED
      BY <1>1, <3>1 DEF IsWay
  <2> QED
    BY <2>1, <2>2
<1> QED
  BY <1>1, <1>2, <1>3 DEF IsWay, v

LEMMA WayShrinks ==
  ASSUME NEW st \in Seq(Entry), NEW h \in Entry, IsWay(Append(st, h)), st # <<>>
  PROVE  IsWay(st)
<1> DEFINE w == Append(st, h)
<1>1. /\ Len(w) = Len(st) + 1 /\ Len(st) \in Nat \ {0}
      /\ \A i \in 1 .. Len(st) : st[i] = w[i]
  OBVIOUS
<1>2. IsWay(w)
  OBVIOUS
<1> HIDE DEF w
<1>3. 1 \in 1 .. Len(st) /\ st[1].page_first = down[Root]
  BY <1>1, <1>2 DEF IsWay
<1>4. ASSUME NEW i \in 1 .. Len(st) PROVE OnItsLine(st[i])
  <2>1. i \in 1 .. Len(w) /\ st[i] = w[i]
    BY <1>1
  <2> QED
    BY <1>2, <2>1 DEF IsWay
<1>5. ASSUME NEW i \in 1 .. Len(st) - 1 PROVE LeadsTo(st[i], st[i + 1])
  <2>1. i \in 1 .. Len(w) - 1 /\ st[i] = w[i] /\ st[i + 1] = w[i + 1]
    BY <1>1
  <2> QED
    BY <1>2, <2>1 DEF IsWay
<1> QED
  BY <1>3, <1>4, <1>5 DEF IsWay

\* It is a fact about the links only.
LEMMA WayKept ==
  ASSUME UNCHANGED linkVars, NEW w, IsWay(w)
  PROVE  IsWay(w)'
<1>1. down' = down /\ enter' = enter
  BY DEF linkVars, pointers
<1>2. \A f : Chain(f)' = Chain(f)
  BY <1>1 DEF Chain
<1>3. \A f : TotalItems(f)' = TotalItems(f)
  BY <1>2 DEF TotalItems
<1>4. \A f : FirstOfPage(f)' = FirstOfPage(f)
  BY <1>1 DEF FirstOfPage, Page
<1>5. \A e : OnItsLine(e) => OnItsLine(e)'
  BY <1>2, <1>3, <1>4 DEF OnItsLine
<1> QED
  BY <1>1, <1>5 DEF IsWay, LeadsTo

\* The stack does not fill up: the pages on it are all different, since each
\* unit leads back to one page, and those of the main page to none.
LEMMA WayIsShort ==
  ASSUME TypeOK, Built, PagesLead, NEW w, IsWay(w),
         Kind[w[Len(w)].current] = "PAGE"
  PROVE  Len(w) < StackSize
<1> DEFINE n == Len(w)
           unit == [i \in 1 .. n |-> w[i].current]
           AllPages == {u \in Units : Kind[u] = "PAGE"}
           Again == {i \in 1 .. n : \E j \in i + 1 .. n : unit[i] = unit[j]}
<1>1. n \in Nat \ {0} /\ w \in Seq(Entry)
      /\ \A i \in 1 .. n : w[i] \in Entry /\ OnItsLine(w[i])
  BY DEF IsWay
<1>2. \A i \in 1 .. n : unit[i] = w[i].current /\ Kind[unit[i]] = "PAGE"
  <2> SUFFICES ASSUME NEW i \in 1 .. n PROVE Kind[w[i].current] = "PAGE"
    OBVIOUS
  <2>1. CASE i = n
    BY <2>1
  <2>2. CASE i # n
    BY <1>1, <2>2 DEF IsWay, LeadsTo
  <2> QED
    BY <2>1, <2>2
<1>3. \A i \in 1 .. n : unit[i] \in Units \ {Root}
  <2> SUFFICES ASSUME NEW i \in 1 .. n PROVE w[i].current \in Units \ {Root}
    OBVIOUS
  <2> DEFINE f == w[i].page_first
             line == w[i].line
  <2>1. FirstOfPage(f) /\ line \in 0 .. TotalItems(f) - 1 /\ w[i].current = Chain(f)[line]
    BY <1>1 DEF OnItsLine
  <2> HIDE DEF f, line
  <2> QED
    BY <2>1, PageUnits
<1>4. /\ back[unit[1]] = NULL
      /\ \A i \in 1 .. n - 1 : back[unit[i + 1]] = unit[i]
  <2>1. back[w[1].current] = NULL
    <3>1. w[1].page_first = down[Root] /\ OnItsLine(w[1])
      BY <1>1 DEF IsWay
    <3>2. w[1].line \in 0 .. TotalItems(down[Root])
      BY <3>1, PageUnits DEF OnItsLine
    <3> QED
      BY <3>1, <3>2 DEF OnItsLine, PagesLead
  <2>2. ASSUME NEW i \in 1 .. n - 1 PROVE back[w[i + 1].current] = w[i].current
    <3> DEFINE u == w[i].current
    <3>1. /\ w[i + 1].page_first = enter[u] /\ Kind[u] = "PAGE"
          /\ OnItsLine(w[i + 1]) /\ u \in Units \ {Root}
      BY <1>1, <1>2, <1>3 DEF IsWay, LeadsTo
    <3> HIDE DEF u
    <3>2. w[i + 1].line \in 0 .. TotalItems(enter[u])
      BY <3>1, PageUnits DEF OnItsLine
    <3> QED
      BY <3>1, <3>2 DEF OnItsLine, PagesLead, u
  <2> QED
    BY <1>1, <2>1, <2>2
<1> HIDE DEF unit, n
<1>5. Again = {}
  <2> SUFFICES ASSUME Again # {} PROVE FALSE
    OBVIOUS
  <2>1. Again \in SUBSET Nat
    BY <1>1
  <2>2. PICK i \in Again : \A k \in Again : i <= k
    BY <2>1, LeastExists
  <2>3. PICK j \in i + 1 .. n : unit[i] = unit[j]
    BY <2>2
  <2>4. /\ i \in 1 .. n /\ j \in 2 .. n /\ i < j
        /\ j - 1 \in 1 .. n - 1 /\ (j - 1) + 1 = j
    BY <1>1, <2>2, <2>3
  <2>5. back[unit[j]] = unit[j - 1] /\ unit[j - 1] \in Units
    <3>1. back[unit[(j - 1) + 1]] = unit[j - 1]
      BY <1>4, <2>4
    <3> QED
      BY <1>1, <1>3, <2>4, <3>1
  <2>6. i # 1
    BY <1>4, <2>3, <2>5, Sizes
  <2>7. i - 1 \in 1 .. n - 1 /\ (i - 1) + 1 = i /\ j - 1 \in (i - 1) + 1 .. n
    BY <1>1, <2>4, <2>6
  <2>8. back[unit[i]] = unit[i - 1]
    <3>1. back[unit[(i - 1) + 1]] = unit[i - 1]
      BY <1>4, <2>7
    <3> QED
      BY <2>7, <3>1
  <2>9. i - 1 \in Again
    BY <1>1, <2>3, <2>5, <2>7, <2>8
  <2>10. i \in Int
    BY <1>1, <2>4
  <2> HIDE DEF Again
  <2>11. i <= i - 1
    BY <2>2, <2>9
  <2> QED
    BY <2>10, <2>11
<1>6. unit \in Injection(1 .. n, AllPages)
  <2>1. unit \in [1 .. n -> AllPages]
    BY <1>2, <1>3 DEF unit
  <2>2. \A i, j \in 1 .. n : unit[i] = unit[j] => i = j
    <3> SUFFICES ASSUME NEW i \in 1 .. n, NEW j \in 1 .. n, unit[i] = unit[j], i < j
                 PROVE  FALSE
      BY <1>1
    <3> QED
      BY <1>1, <1>5
  <2> QED
    BY <2>1, <2>2 DEF Injection, IsInjective
<1>7. IsFiniteSet(AllPages) /\ Cardinality(AllPages) < StackSize
  BY MenuAssumption, FS_Subset
<1> HIDE DEF AllPages
<1>8. n <= Cardinality(AllPages)
  <2>1. IsFiniteSet(1 .. n) /\ Cardinality(1 .. n) = n
    BY <1>1, FS_Interval
  <2> QED
    BY <1>6, <1>7, <2>1, FS_Injection
<1> QED
  BY <1>1, <1>7, <1>8, FS_CardinalityType, Sizes DEF n

-----------------------------------------------------------------------------
(***************************************************************************)
(* One step                                                                *)
(***************************************************************************)
LEMMA OnScreen ==
  ASSUME Inv, PagesLead, On
  PROVE  /\ Built /\ Here \in Entry /\ menu_stack \in Seq(Entry)
         /\ IsWay(Way) /\ Way \in Seq(Entry) /\ Len(Way) = Len(menu_stack) + 1
         /\ Way[Len(Way)] = Here /\ OnItsLine(Here)
         /\ page_first_unit \in Units /\ current_unit \in Units \ {Root}
         /\ FirstOfPage(page_first_unit)
         /\ TotalItems(page_first_unit) \in 1 .. ItemsPerPage
         /\ \A n \in 0 .. TotalItems(page_first_unit) - 1 :
              Chain(page_first_unit)[n] \in Units \ {Root}
         /\ current_line \in 0 .. TotalItems(page_first_unit) - 1
<1>1. TypeOK /\ Built /\ IsWay(Way)
  BY DEF Inv, WayInv
<1>2. menu_stack \in Seq(Entry) /\ Len(menu_stack) \in Nat
  BY <1>1 DEF TypeOK, Entry
<1>3. /\ Way \in Seq(Entry) /\ Len(Way) \in Nat \ {0}
      /\ \A i \in 1 .. Len(Way) : Way[i] \in Entry /\ OnItsLine(Way[i])
  BY <1>1 DEF IsWay
<1>4. Len(Way) = Len(menu_stack) + 1 /\ Way[Len(Way)] = Here
  BY <1>2 DEF Way
<1>5. Here \in Entry /\ OnItsLine(Here)
  BY <1>3, <1>4
<1>6. /\ Here.page_first = page_first_unit /\ Here.current = current_unit
      /\ Here.line = current_line
  BY DEF Here
<1>7. FirstOfPage(page_first_unit) /\ current_line \in 0 .. TotalItems(page_first_unit) - 1
      /\ current_unit = Chain(page_first_unit)[current_line]
  BY <1>5, <1>6 DEF OnItsLine
<1> QED
  BY <1>1, <1>2, <1>3, <1>4, <1>5, <1>7, PageUnits

\* The cursor at the top of a page.
Top0(first) == [page_first |-> first, current |-> first, line |-> 0]

LEMMA TopOfPage ==
  ASSUME TypeOK, Built, PagesLead, NEW f, FirstOfPage(f)
  PROVE  f \in Units /\ Top0(f) \in Entry /\ OnItsLine(Top0(f))
<1>1. f \in Units /\ TotalItems(f) \in 1 .. ItemsPerPage /\ Chain(f)[0] = f
  BY PageUnits, ChainUnfolds
<1>2. 0 \in 0 .. ItemsPerPage - 1 /\ 0 \in 0 .. TotalItems(f) - 1
  BY <1>1, Sizes
<1>3. Top0(f).page_first = f /\ Top0(f).current = f /\ Top0(f).line = 0
  BY DEF Top0
<1>4. Top0(f) \in Entry
  BY <1>1, <1>2 DEF Top0, Entry
<1> QED
  BY <1>1, <1>2, <1>3, <1>4 DEF OnItsLine

LEMMA MainPageEntered ==
  ASSUME Inv, Built, PagesLead, UNCHANGED linkVars,
         menu_stack = <<>>, MenuExampleEnter
  PROVE  /\ WayInv'
         /\ current_unit' \in Units /\ page_first_unit' \in Units /\ current_line' = 0
         /\ edit_mode' = FALSE /\ menu_active' = TRUE /\ menu_stack' = <<>>
<1> DEFINE f == down[Root]
           h == Top0(f)
           w == <<h>>
<1>1. f \in Units /\ h \in Entry /\ OnItsLine(h)
  BY TopOfPage DEF Inv, FirstOfPage
<1>2. /\ current_unit' = f /\ page_first_unit' = f /\ current_line' = 0
      /\ menu_stack' = <<>> /\ edit_mode' = FALSE /\ menu_active' = TRUE
  BY DEF MenuExampleEnter
<1>3. Way' = w
  BY <1>2 DEF Way, Here, Top0
<1>4. IsWay(w)
  <2>1. w \in Seq(Entry) /\ w # <<>> /\ Len(w) = 1 /\ w[1] = h
    BY <1>1
  <2>2. h.page_first = f
    BY DEF Top0
  <2> HIDE DEF w, h
  <2> QED
    BY <1>1, <2>1, <2>2 DEF IsWay
<1>5. \A v : v = Way' => IsWay(v)'
  <2> HIDE DEF w
  <2> QED
    BY <1>3, <1>4, WayKept
<1>6. Built' /\ 0 < StackSize /\ Len(menu_stack') = 0
  BY <1>2 DEF Inv, WayInv, Built, linkVars
<1> QED
  BY <1>1, <1>2, <1>5, <1>6, Sizes DEF WayInv, On

\* A step that leaves the way as it is.
LEMMA WayStays ==
  ASSUME Inv, UNCHANGED <<linkVars, cursor, menu_stack>>,
         menu_active' = menu_active \/ (menu_active' = FALSE /\ menu_stack = <<>>)
  PROVE  WayInv'
<1>1. Way' = Way /\ On' = On /\ Built' = Built
  BY DEF Way, Here, On, Built, cursor, linkVars
<1>2. On => \A w : w = Way' => IsWay(w)'
  BY <1>1, WayKept DEF Inv, WayInv
<1> QED
  BY <1>1, <1>2 DEF Inv, WayInv

\* A race is started on the main page, and so with an empty stack.
LEMMA StackOfMainPage ==
  ASSUME Inv, PagesLead, On, current_unit = CarStart
  PROVE  menu_stack = <<>>
<1> SUFFICES ASSUME menu_stack # <<>> PROVE FALSE
  OBVIOUS
<1> DEFINE n == Len(menu_stack)
           u == Way[n].current
<1>1. /\ Built /\ TypeOK /\ IsWay(Way) /\ menu_stack \in Seq(Entry) /\ Way \in Seq(Entry)
      /\ Len(Way) = n + 1 /\ Way[n + 1] = Here
      /\ current_line \in 0 .. TotalItems(page_first_unit) - 1 /\ OnItsLine(Here)
      /\ TotalItems(page_first_unit) \in Int
  BY OnScreen DEF Inv
<1>2. n \in Nat \ {0} /\ n \in 1 .. Len(Way) - 1 /\ n \in 1 .. Len(Way)
  BY <1>1
<1>3. /\ Kind[u] = "PAGE" /\ page_first_unit = enter[u] /\ OnItsLine(Way[n])
      /\ current_unit = Chain(page_first_unit)[current_line]
  <2>1. LeadsTo(Way[n], Way[n + 1]) /\ OnItsLine(Way[n])
    BY <1>1, <1>2 DEF IsWay
  <2> QED
    BY <1>1, <2>1 DEF LeadsTo, OnItsLine, Here
<1>4. u \in Units \ {Root}
  BY <1>1, <1>3, PageUnits DEF OnItsLine
<1> HIDE DEF u
<1>5. back[Chain(enter[u])[current_line]] = u
  <2>1. current_line \in 0 .. TotalItems(enter[u])
    BY <1>1, <1>3
  <2> QED
    BY <1>1, <1>3, <1>4, <2>1 DEF PagesLead
<1> QED
  BY <1>1, <1>3, <1>4, <1>5, Sizes DEF PagesLead

\* The cursor moves along a page.
LEMMA MoveStep ==
  ASSUME Inv, PagesLead, menu_active, UNCHANGED linkVars,
         NavigateUp \/ NavigateDown
  PROVE  WayInv' /\ UNCHANGED <<menu_active, edit_mode, menu_stack, value>>
         /\ current_unit' \in Units /\ page_first_unit' \in Units
         /\ current_line' \in 0 .. ItemsPerPage - 1
<1>0. On
  BY DEF Inv, WayInv
<1> DEFINE total == TotalItems(page_first_unit)
<1>1. PICK line : MoveTo(line) /\ line \in 0 .. total - 1 /\ line \in 0 .. ItemsPerPage - 1
  <2>1. /\ total \in 1 .. ItemsPerPage /\ current_line \in 0 .. total - 1
        /\ ItemsPerPage \in Nat
    BY <1>0, OnScreen, Sizes
  <2>2. MaxLine(page_first_unit) = total - 1
    BY <2>1 DEF MaxLine
  <2> HIDE DEF total
  <2>3. CASE NavigateUp
    BY <2>1, <2>2, <2>3 DEF NavigateUp
  <2>4. CASE NavigateDown
    BY <2>1, <2>2, <2>4 DEF NavigateDown
  <2> QED
    BY <2>3, <2>4
<1> DEFINE unit == Chain(page_first_unit)[line]
           h == [page_first |-> page_first_unit, current |-> unit, line |-> line]
<1>2. unit \in Units /\ page_first_unit \in Units /\ FirstOfPage(page_first_unit)
  BY <1>0, <1>1, OnScreen
<1>3. /\ current_line' = line /\ current_unit' = unit
      /\ UNCHANGED <<menu_active, page_first_unit, edit_mode, menu_stack, value>>
  BY <1>1 DEF MoveTo
<1>4. h \in Entry /\ OnItsLine(h) /\ h.page_first = page_first_unit
  <2>1. h.page_first = page_first_unit /\ h.current = unit /\ h.line = line
    OBVIOUS
  <2> QED
    BY <1>1, <1>2, <2>1 DEF OnItsLine, Entry
<1> DEFINE w == Append(menu_stack, h)
<1>5. IsWay(w)
  <2>1. Here \in Entry /\ menu_stack \in Seq(Entry) /\ IsWay(Append(menu_stack, Here))
    BY <1>0, OnScreen DEF Way
  <2>2. Here.page_first = page_first_unit
    BY DEF Here
  <2> HIDE DEF h
  <2> QED
    BY <1>4, <2>1, <2>2, WayMoves
<1>6. Way' = w
  BY <1>3 DEF Way, Here
<1>7. \A v : v = Way' => IsWay(v)'
  <2> HIDE DEF w
  <2> QED
    BY <1>5, <1>6, WayKept
<1>8. WayInv'
  <2>1. Built' /\ On'
    BY <1>2, <1>3, <1>0, Sizes DEF Inv, WayInv, Built, On, linkVars
  <2> QED
    BY <1>3, <1>7, <2>1 DEF Inv, WayInv
<1> QED
  BY <1>0, <1>1, <1>2, <1>3, <1>8, OnScreen

\* Enter on a page.
LEMMA EnterStep ==
  ASSUME Inv, PagesLead, menu_active, UNCHANGED linkVars, EnterPage
  PROVE  WayInv' /\ Len(menu_stack') <= StackSize
         /\ menu_stack' \in Seq(Entry)
         /\ current_unit' \in Units /\ page_first_unit' \in Units /\ current_line' = 0
<1>0. On /\ TypeOK
  BY DEF Inv, WayInv
<1> DEFINE f == enter[current_unit]
           h == Top0(f)
<1>1. /\ Built /\ current_unit \in Units \ {Root} /\ Kind[current_unit] = "PAGE"
      /\ IsWay(Way) /\ Way \in Seq(Entry) /\ Way[Len(Way)] = Here
      /\ Len(Way) = Len(menu_stack) + 1 /\ menu_stack \in Seq(Entry)
      /\ Here.current = current_unit
  BY <1>0, OnScreen DEF EnterPage, Here
<1>2. f \in Units /\ h \in Entry /\ OnItsLine(h) /\ h.page_first = f
  <2>1. FirstOfPage(f)
    BY <1>1 DEF FirstOfPage, Page
  <2>2. Top0(f).page_first = f
    BY DEF Top0
  <2> HIDE DEF f
  <2> QED
    BY <1>0, <1>1, <2>1, <2>2, TopOfPage
<1>3. Len(Way) < StackSize /\ Len(menu_stack) \in Nat
  BY <1>0, <1>1, WayIsShort
<1>4. /\ menu_stack' = Way /\ current_unit' = f /\ page_first_unit' = f
      /\ current_line' = 0 /\ menu_active' = menu_active
  <2>1. Len(menu_stack) < StackSize
    BY <1>1, <1>3, Sizes
  <2> QED
    BY <2>1 DEF EnterPage, Pushed, Way
<1>5. IsWay(Append(Way, h))
  <2>1. LeadsTo(Way[Len(Way)], h)
    BY <1>1, <1>2 DEF LeadsTo
  <2> HIDE DEF h
  <2> QED
    BY <1>1, <1>2, <2>1, WayGrows
<1>6. Way' = Append(Way, h)
  BY <1>4 DEF Way, Here, Top0
<1>7. \A v : v = Way' => IsWay(v)'
  <2> HIDE DEF h
  <2> QED
    BY <1>5, <1>6, WayKept
<1>8. WayInv'
  <2>1. Built' /\ On' /\ menu_active'
    BY <1>1, <1>2, <1>4, Sizes DEF Built, On, linkVars
  <2> QED
    BY <1>3, <1>4, <1>7, <2>1 DEF WayInv
<1> QED
  BY <1>1, <1>2, <1>3, <1>4, <1>8, Sizes

LEMMA LastGoesBack ==
  ASSUME NEW S, NEW s \in Seq(S), s # <<>>
  PROVE  LET front == SubSeq(s, 1, Len(s) - 1)
         IN  /\ front \in Seq(S) /\ Len(front) = Len(s) - 1
             /\ Append(front, s[Len(s)]) = s
<1> DEFINE n == Len(s)
           front == SubSeq(s, 1, n - 1)
           v == Append(front, s[n])
<1>1. n \in Nat \ {0} /\ \A i \in 1 .. n : s[i] \in S
  OBVIOUS
<1>2. /\ front \in Seq(S) /\ Len(front) = n - 1
      /\ \A i \in 1 .. n - 1 : front[i] = s[i]
  <2>1. n - 1 \in Int /\ \A i \in 1 .. n - 1 : s[i] \in S
    BY <1>1
  <2> HIDE DEF n
  <2>2. /\ SubSeq(s, 1, n - 1) \in Seq(S)
        /\ Len(SubSeq(s, 1, n - 1)) = IF 1 <= n - 1 THEN n - 1 - 1 + 1 ELSE 0
        /\ \A i \in 1 .. n - 1 - 1 + 1 : SubSeq(s, 1, n - 1)[i] = s[1 + i - 1]
    BY <2>1, SubSeqProperties
  <2> QED
    BY <1>1, <2>2
<1>3. /\ v \in Seq(S) /\ Len(v) = n /\ v[n] = s[n]
      /\ \A i \in 1 .. n - 1 : v[i] = front[i]
  <2> HIDE DEF front, n
  <2> QED
    BY <1>1, <1>2, AppendProperties
<1>4. \A i \in 1 .. n : v[i] = s[i]
  BY <1>1, <1>2, <1>3
<1> HIDE DEF v
<1>5. v = s
  BY <1>3, <1>4, SeqEqual
<1> QED
  BY <1>2, <1>5 DEF v

\* Back.
LEMMA BackStep ==
  ASSUME Inv, PagesLead, menu_active, UNCHANGED linkVars, NavigateBack
  PROVE  WayInv' /\ Len(menu_stack') <= StackSize
         /\ menu_stack' \in Seq(Entry)
         /\ current_unit' \in Units /\ page_first_unit' \in Units
         /\ current_line' \in 0 .. ItemsPerPage - 1
<1>0. On /\ TypeOK
  BY DEF Inv, WayInv
<1> DEFINE n == Len(menu_stack)
           top == menu_stack[n]
<1>1. /\ Built /\ menu_stack \in Seq(Entry) /\ Here \in Entry
      /\ IsWay(Append(menu_stack, Here)) /\ menu_stack # <<>>
  BY <1>0, OnScreen DEF NavigateBack, Way
<1>2. n \in Nat \ {0} /\ top \in Entry
  BY <1>1
<1>3. /\ menu_stack' = SubSeq(menu_stack, 1, n - 1)
      /\ page_first_unit' = top.page_first /\ current_unit' = top.current
      /\ current_line' = top.line /\ menu_active' = menu_active
  BY DEF NavigateBack
<1>4. /\ top.page_first \in Units /\ top.current \in Units
      /\ top.line \in 0 .. ItemsPerPage - 1
      /\ top = [page_first |-> top.page_first, current |-> top.current, line |-> top.line]
  <2> HIDE DEF top
  <2> QED
    BY <1>2 DEF Entry
<1>5. /\ menu_stack' \in Seq(Entry) /\ Len(menu_stack') = n - 1
      /\ Append(menu_stack', top) = menu_stack
  BY <1>1, <1>2, <1>3, LastGoesBack
<1>6. Way' = menu_stack
  BY <1>3, <1>4, <1>5 DEF Way, Here
<1>7. \A v : v = Way' => IsWay(v)'
  <2>1. IsWay(menu_stack)
    BY <1>1, WayShrinks
  <2> QED
    BY <1>6, <2>1, WayKept
<1>8. n < StackSize /\ StackSize \in Nat
  BY Sizes DEF Inv, WayInv
<1>9. WayInv'
  <2>1. Built' /\ On' /\ menu_active'
    BY <1>1, <1>3, <1>4, Sizes DEF Built, On, linkVars
  <2>2. Len(menu_stack') < StackSize
    BY <1>2, <1>5, <1>8
  <2> QED
    BY <1>7, <2>1, <2>2 DEF WayInv
<1> QED
  BY <1>2, <1>3, <1>4, <1>5, <1>8, <1>9

-----------------------------------------------------------------------------
(***************************************************************************)
(* The invariant                                                           *)
(***************************************************************************)
LEMMA InitInv == Init => Inv
<1> SUFFICES ASSUME Init PROVE Inv
  OBVIOUS
<1>1. LinksTyped
  BY LinksInitTyped DEF Init
<1>2. TypeOK
  <2>1. value \in [Counted -> 0 .. Top]
    BY MenuAssumption DEF Init
  <2>2. /\ Len(menu_stack) <= StackSize /\ current_line \in 0 .. ItemsPerPage - 1
        /\ menu_stack \in Seq(Entry)
        /\ current_unit \in Pointers /\ page_first_unit \in Pointers
    BY Sizes DEF Init
  <2>3. menu_active \in BOOLEAN /\ edit_mode \in BOOLEAN /\ key = "NONE"
    BY DEF Init
  <2> QED
    BY <1>1, <2>1, <2>2, <2>3 DEF TypeOK, LinksTyped, Entry
<1>3. 0 < StackSize
  <2>1. IsFiniteSet({u \in Units : Kind[u] = "PAGE"})
    BY MenuAssumption, FS_Subset
  <2>2. Cardinality({u \in Units : Kind[u] = "PAGE"}) \in Nat
    BY <2>1, FS_CardinalityType
  <2> QED
    BY <2>2, MenuAssumption, Sizes
<1>4. WayInv
  BY <1>3, Sizes DEF Init, WayInv, On
<1> QED
  BY <1>2, <1>4 DEF Inv

\* The values of the unsigned parameters: they wrap within their type.
LEMMA ValuesTyped ==
  ASSUME TypeOK,
         \/ value' = value \/ RunFunction \/ EditUp \/ EditDown
         \/ PowerOn \/ RaceEnd
  PROVE  value' \in [Counted -> 0 .. Top]
<1>1. /\ Top \in Nat \ {0} /\ value \in [Counted -> 0 .. Top]
      /\ DefaultValue \in [Counted -> 0 .. Top]
  BY MenuAssumption DEF TypeOK
<1>2. CASE value' = value
  BY <1>1, <1>2
<1>3. CASE RunFunction \/ PowerOn
  <2>1. \A stored \in [Stored -> 0 .. Top] : Loaded(stored) \in [Counted -> 0 .. Top]
    BY <1>1 DEF Loaded
  <2>2. Loaded(DefaultValue) \in [Counted -> 0 .. Top]
    BY <1>1 DEF Loaded
  <2>3. 1 \in 0 .. Top
    BY <1>1
  <2> QED
    BY <1>1, <1>3, <2>1, <2>2, <2>3 DEF RunFunction, PowerOn
<1>4. CASE EditUp
  <2>1. \A x \in 0 .. Top : (x + 1) % (Top + 1) \in 0 .. Top
    BY <1>1
  <2> QED
    BY <1>1, <1>4, <2>1 DEF EditUp
<1>5. CASE EditDown
  <2>1. \A x \in 0 .. Top, y \in {0, Top} : (x + y) % (Top + 1) \in 0 .. Top
    BY <1>1
  <2>2. CASE current_unit \in Counted /\ value' # value
    <3>1. PICK converted \in {0, Top} :
            value' = [value EXCEPT ![current_unit] = (@ + converted) % (Top + 1)]
      BY <1>5, <2>2 DEF EditDown
    <3>2. value[current_unit] \in 0 .. Top
      BY <1>1, <2>2
    <3>3. (value[current_unit] + converted) % (Top + 1) \in 0 .. Top
      BY <2>1, <3>1, <3>2
    <3> QED
      BY <1>1, <3>1, <3>3
  <2>3. CASE value' = value
    BY <1>1, <2>3
  <2>4. current_unit \in Counted \/ value' = value
    BY <1>5 DEF EditDown
  <2> QED
    BY <2>2, <2>3, <2>4
<1>6. CASE RaceEnd
  <2>1. value' = [value EXCEPT ![SpeedDebug] = 0, ![DirectionDebug] = 0]
    BY <1>6 DEF RaceEnd
  <2>2. 0 \in 0 .. Top
    BY <1>1
  <2> QED
    BY <1>1, <2>1, <2>2
<1> QED
  BY <1>2, <1>3, <1>4, <1>5, <1>6

\* A step after the menu is built leaves the links and their types alone.
LEMMA LinksKeepTypes ==
  ASSUME TypeOK, UNCHANGED linkVars,
         menu_active' \in BOOLEAN, edit_mode' \in BOOLEAN,
         current_unit' \in Pointers, page_first_unit' \in Pointers,
         current_line' \in 0 .. ItemsPerPage - 1,
         Len(menu_stack') <= StackSize, menu_stack' \in Seq(Entry),
         value' \in [Counted -> 0 .. Top],
         key' \in {"NONE", "UP", "DOWN", "ENTER", "BACK"}
  PROVE  TypeOK'
BY DEF TypeOK, Entry, linkVars, pointers, tracker

LEMMA BrowseStep ==
  ASSUME Inv, PagesLead, Browse
  PROVE  Inv'
<1>1. /\ menu_active /\ ~edit_mode /\ UNCHANGED linkVars /\ TypeOK
      /\ key' \in {"NONE", "UP", "DOWN", "ENTER", "BACK"} /\ On
  BY DEF Browse, Inv, WayInv
<1>2. /\ menu_stack \in Seq(Entry) /\ Len(menu_stack) <= StackSize
      /\ edit_mode \in BOOLEAN
      /\ current_unit \in Pointers /\ page_first_unit \in Pointers
      /\ current_line \in 0 .. ItemsPerPage - 1
  BY <1>1 DEF TypeOK, Entry
<1>3. CASE NavigateUp \/ NavigateDown
  <2>1. /\ WayInv' /\ UNCHANGED <<menu_active, edit_mode, menu_stack, value>>
        /\ current_unit' \in Units /\ page_first_unit' \in Units
        /\ current_line' \in 0 .. ItemsPerPage - 1
    BY <1>1, <1>3, MoveStep
  <2>2. TypeOK'
    BY <1>1, <1>2, <2>1, LinksKeepTypes, ValuesTyped, Sizes
  <2> QED
    BY <2>1, <2>2 DEF Inv
<1>4. CASE EnterParam
  <2>1. UNCHANGED <<menu_active, cursor, menu_stack, value>> /\ edit_mode' = TRUE
    BY <1>4 DEF EnterParam
  <2>2. WayInv'
    BY <1>1, <2>1, WayStays
  <2>3. value' \in [Counted -> 0 .. Top]
    BY <1>1, <2>1, ValuesTyped
  <2>4. TypeOK'
    BY <1>1, <1>2, <2>1, <2>3, LinksKeepTypes DEF cursor
  <2> QED
    BY <2>2, <2>4 DEF Inv
<1>5. CASE RunFunction
  <2>1. /\ UNCHANGED <<cursor, edit_mode, menu_stack>>
        /\ menu_active' = menu_active \/ (menu_active' = FALSE /\ current_unit = CarStart)
    BY <1>5 DEF RunFunction
  <2>2. current_unit = CarStart => menu_stack = <<>>
    BY <1>1, StackOfMainPage DEF Inv
  <2>3. WayInv'
    BY <1>1, <2>1, <2>2, WayStays
  <2>4. value' \in [Counted -> 0 .. Top]
    BY <1>1, <1>5, ValuesTyped
  <2>5. TypeOK'
    BY <1>1, <1>2, <2>1, <2>4, LinksKeepTypes DEF cursor
  <2> QED
    BY <2>3, <2>5 DEF Inv
<1>6. CASE EnterPage \/ NavigateBack
  <2>1. UNCHANGED <<menu_active, edit_mode, value>>
    BY <1>6 DEF EnterPage, NavigateBack
  <2>2. 0 \in 0 .. ItemsPerPage - 1
    BY Sizes
  <2>3. /\ WayInv' /\ Len(menu_stack') <= StackSize
        /\ menu_stack' \in Seq(Entry)
        /\ current_unit' \in Units /\ page_first_unit' \in Units
        /\ current_line' \in 0 .. ItemsPerPage - 1
    BY <1>1, <1>6, <2>2, EnterStep, BackStep
  <2>4. value' \in [Counted -> 0 .. Top]
    BY <1>1, <2>1, ValuesTyped
  <2>5. TypeOK'
    BY <1>1, <1>2, <2>1, <2>3, <2>4, LinksKeepTypes, Sizes
  <2> QED
    BY <2>3, <2>5 DEF Inv
<1> QED
  BY <1>3, <1>4, <1>5, <1>6 DEF Browse, NavigateEnter

LEMMA EditStep ==
  ASSUME Inv, Edit
  PROVE  Inv'
<1>1. /\ menu_active /\ UNCHANGED <<linkVars, menu_active, cursor, menu_stack>> /\ TypeOK
      /\ key' \in {"NONE", "UP", "DOWN", "ENTER", "BACK"} /\ edit_mode' \in BOOLEAN
  BY DEF Edit, EditUp, EditDown, EditExit, Inv
<1>2. WayInv'
  BY <1>1, WayStays
<1>3. value' \in [Counted -> 0 .. Top]
  BY <1>1, ValuesTyped DEF Edit, EditExit
<1>4. TypeOK'
  <2>1. /\ menu_stack \in Seq(Entry) /\ Len(menu_stack) <= StackSize
        /\ current_unit \in Pointers /\ page_first_unit \in Pointers
        /\ current_line \in 0 .. ItemsPerPage - 1
    BY <1>1 DEF TypeOK, Entry
  <2> QED
    BY <1>1, <1>3, <2>1, LinksKeepTypes DEF cursor
<1> QED
  BY <1>2, <1>4 DEF Inv

\* Power on, and the end of a race.
LEMMA MainPageStep ==
  ASSUME Inv, PagesLead, PowerOn \/ RaceEnd
  PROVE  Inv'
<1>1. /\ Built /\ MenuExampleEnter /\ UNCHANGED <<linkVars, key>> /\ menu_stack = <<>>
      /\ TypeOK
  BY DEF PowerOn, RaceEnd, Inv, WayInv, On
<1>2. /\ WayInv'
      /\ current_unit' \in Units /\ page_first_unit' \in Units /\ current_line' = 0
      /\ edit_mode' = FALSE /\ menu_active' = TRUE /\ menu_stack' = <<>>
  BY <1>1, MainPageEntered
<1>3. value' \in [Counted -> 0 .. Top]
  BY <1>1, ValuesTyped
<1>4. TypeOK'
  <2>1. /\ key' \in {"NONE", "UP", "DOWN", "ENTER", "BACK"}
        /\ menu_stack' \in Seq(Entry) /\ Len(menu_stack') <= StackSize
        /\ current_line' \in 0 .. ItemsPerPage - 1
        /\ current_unit' \in Pointers /\ page_first_unit' \in Pointers
    BY <1>1, <1>2, Sizes DEF TypeOK
  <2> QED
    BY <1>1, <1>2, <1>3, <2>1, LinksKeepTypes
<1> QED
  BY <1>2, <1>4 DEF Inv

LEMMA CreateStep ==
  ASSUME Inv, Create
  PROVE  Inv'
<1>1. ~Built /\ MakeCall /\ UNCHANGED <<navVars, key>> /\ TypeOK /\ ~On
  BY DEF Create, Inv, WayInv
<1>2. TypeOK'
  <2>1. LinksTyped'
    BY <1>1, LinksStepTyped DEF TypeOK, LinksTyped
  <2> QED
    BY <1>1, <2>1 DEF TypeOK, LinksTyped, navVars, cursor
<1>3. WayInv'
  BY <1>1 DEF Inv, WayInv, On, navVars, cursor
<1> QED
  BY <1>2, <1>3 DEF Inv

LEMMA InvStep == Inv /\ PagesLead /\ [Next]_vars => Inv'
<1> SUFFICES ASSUME Inv, PagesLead, [Next]_vars PROVE Inv'
  OBVIOUS
<1>1. CASE UNCHANGED vars
  <2>1. WayInv'
    BY <1>1, WayStays DEF vars, navVars
  <2>2. TypeOK'
    BY <1>1 DEF Inv, TypeOK, vars, navVars, cursor, linkVars, pointers, tracker
  <2> QED
    BY <2>1, <2>2 DEF Inv
<1> QED
  BY <1>1, CreateStep, MainPageStep, BrowseStep, EditStep DEF Next

LEMMA InvCorrect == Spec => [](Inv /\ PagesLead)
BY InitInv, InvStep, LeadCorrect, PTL DEF Spec

\* Types: every pointer leads to a unit or nowhere, the cursor stays on the
\* lines of the screen and the values within their type.
THEOREM TypeCorrect == Spec => []TypeOK
<1>1. Inv => TypeOK
  BY DEF Inv
<1> QED
  BY <1>1, InvCorrect, PTL

\* The unit that keys act upon is the one on the line of the cursor.
THEOREM CursorCorrect == Spec => []CursorIsOnItsLine
<1>1. Inv /\ PagesLead => CursorIsOnItsLine
  <2> SUFFICES ASSUME Inv, PagesLead, On
               PROVE  /\ current_line < TotalItems(page_first_unit)
                      /\ current_unit = Chain(page_first_unit)[current_line]
    BY DEF CursorIsOnItsLine
  <2>1. OnItsLine(Here) /\ TotalItems(page_first_unit) \in Int
        /\ current_line \in 0 .. TotalItems(page_first_unit) - 1
    BY OnScreen
  <2>2. current_unit = Chain(page_first_unit)[current_line]
    BY <2>1 DEF OnItsLine, Here
  <2> QED
    BY <2>1, <2>2
<1> QED
  BY <1>1, InvCorrect, PTL

\* Back leads the way back, from any page and after any number of races: the
\* stack is the way to the page, and never full.
THEOREM WayCorrect == Spec => []StackIsTheWay
<1>1. Inv /\ PagesLead => StackIsTheWay
  <2> SUFFICES ASSUME Inv, PagesLead, On
               PROVE  /\ Len(menu_stack) < StackSize
                      /\ Way[1].page_first = down[Root]
                      /\ \A i \in DOMAIN menu_stack :
                           Way[i + 1].page_first = enter[Way[i].current]
    BY DEF StackIsTheWay, Way
  <2>1. IsWay(Way) /\ Len(Way) = Len(menu_stack) + 1 /\ menu_stack \in Seq(Entry)
    BY OnScreen
  <2>2. DOMAIN menu_stack = 1 .. Len(Way) - 1
    BY <2>1
  <2> QED
    BY <2>1, <2>2 DEF IsWay, LeadsTo, Inv, WayInv
<1> QED
  BY <1>1, InvCorrect, PTL

-----------------------------------------------------------------------------
(***************************************************************************)
(* The menu is a walk in a tree                                            *)
(***************************************************************************)

\* Going down a page leads from line to line, and from the last to the first:
\* a list of MaxUnits units would have the root on it.
LEMMA PageGoesRound ==
  ASSUME LinksTyped, BuildInv, Built, NEW f, FirstOfPage(f)
  PROVE  /\ TotalItems(f) \in 1 .. MaxUnits /\ Chain(f)[0] = f
         /\ \A n \in 1 .. TotalItems(f) - 1 : Chain(f)[n] = down[Chain(f)[n - 1]]
         /\ down[Chain(f)[TotalItems(f) - 1]] = f
<1>1. PICK page \in Pages \cup {NULL} : f \in ItemsOf(page)
  BY MenuBuilt, CallsAssumption DEF FirstOfPage, Page, Pages, RootIsAbove
<1> DEFINE R == ItemsOf(page)
           t == TotalItems(f)
           c == Chain(f)
<1>2. /\ R \in SUBSET (Units \ {Root}) /\ R \in SUBSET Units /\ f \in Units
      /\ \A v \in R : down[v] \in R /\ up[down[v]] = v
  BY <1>1, MenuBuilt DEF ItemsOf
<1>3. down \in [Units -> Pointers]
  BY DEF LinksTyped
<1>4. /\ t \in 1 .. MaxUnits /\ (t = MaxUnits \/ c[t] \in {NULL, f})
      /\ c[0] = f /\ \A n \in 1 .. MaxUnits : c[n] = UnitBelow(c[n - 1])
  BY <1>2, <1>3, PageHasUnits, ChainUnfolds
<1>5. (\A n \in 0 .. MaxUnits : c[n] \in R) /\ t <= Cardinality(R)
  <2> HIDE DEF R
  <2> QED
    BY <1>1, <1>2, <1>3, RingIsItsPage DEF R
<1>6. Cardinality(R) < MaxUnits
  <2> DEFINE Others == Units \ {Root}
  <2>1. /\ IsFiniteSet(Units) /\ Cardinality(Units) \in Nat /\ Cardinality(Units) <= MaxUnits
        /\ Root \in Units
    BY MenuAssumption, FS_CardinalityType
  <2>2. IsFiniteSet(Others) /\ Cardinality(Others) = Cardinality(Units) - 1
    BY <2>1, FS_RemoveElement
  <2> HIDE DEF R
  <2>3. Cardinality(R) <= Cardinality(Others) /\ IsFiniteSet(R)
    BY <1>2, <2>2, FS_Subset
  <2>4. Cardinality(R) \in Nat
    BY <2>3, FS_CardinalityType
  <2> QED
    BY <2>1, <2>2, <2>3, <2>4, Sizes
<1>7. NULL \notin R /\ IsFiniteSet(R) /\ Cardinality(R) \in Nat
  BY <1>2, Sizes, MenuAssumption, FS_Subset, FS_CardinalityType
<1> HIDE DEF R, t, c
<1>8. c[t] = f
  BY <1>4, <1>5, <1>6, <1>7, Sizes
<1>9. \A n \in 1 .. t : c[n] = down[c[n - 1]]
  <2> SUFFICES ASSUME NEW n \in 1 .. t PROVE c[n] = down[c[n - 1]]
    OBVIOUS
  <2>1. n \in 1 .. MaxUnits /\ n - 1 \in 0 .. MaxUnits
    BY <1>4, Sizes
  <2> QED
    BY <1>4, <1>5, <1>7, <2>1 DEF UnitBelow
<1> QED
  BY <1>4, <1>8, <1>9 DEF t, c

\* Once the menu is built, going down from any unit of a page leads to them all.
LEMMA PagesRound ==
  ASSUME LinksTyped, BuildInv, Built, NEW page \in Pages \cup {NULL},
         NEW ring \in SUBSET ItemsOf(page), ring # {},
         \A u \in ring : down[u] \in ring
  PROVE  ring = ItemsOf(page)
<1>1. Done = Units
  BY AllCallsMade
<1> DEFINE R == ItemsOf(page)
           linked(S) == {u \in S : Linked(u)}
<1>2. \A u \in R : u \in Units \ {Root} /\ BackOf(u) = page
  BY DEF ItemsOf
<1>3. \A u \in linked(R) : /\ CallOf(u).down = down[u] /\ Linked(down[u])
                           /\ down[u] \in R
  <2> SUFFICES ASSUME NEW u \in R, Linked(u)
               PROVE  CallOf(u).down = down[u] /\ Linked(down[u]) /\ down[u] \in R
    OBVIOUS
  <2>1. CallOf(u).down = down[u]
    BY <1>1, <1>2 DEF BuildInv, LinkedAsTold
  <2>2. Linked(CallOf(u).down)
    BY <1>2, CallsAssumption DEF NeighboursAgree
  <2>3. down[u] \in Units \ {Root} /\ BackOf(down[u]) = BackOf(u)
    BY <1>2, MenuBuilt
  <2> QED
    BY <1>2, <2>1, <2>2, <2>3 DEF ItemsOf
<1>4. \A S \in SUBSET R :
        S # {} /\ (\A u \in S : Linked(u) /\ CallOf(u).down \in S) => S = R
  BY CallsAssumption DEF PagesHoldTogether
<1> HIDE DEF R
<1>5. CASE linked(ring) # {}
  <2> DEFINE L == linked(ring)
  <2>1. L \in SUBSET R /\ L # {} /\ L \subseteq ring
    BY <1>5 DEF R
  <2>2. \A u \in L : Linked(u) /\ CallOf(u).down \in L
    BY <1>3, <2>1
  <2> HIDE DEF L
  <2>3. L = R
    BY <1>4, <2>1, <2>2
  <2> QED
    BY <2>1, <2>3 DEF R
<1>6. CASE linked(ring) = {}
  <2>1. linked(R) = {}
    <3> DEFINE L == linked(R)
    <3> SUFFICES ASSUME L # {} PROVE FALSE
      OBVIOUS
    <3>1. L \in SUBSET R /\ \A u \in L : Linked(u) /\ CallOf(u).down \in L
      BY <1>3
    <3> HIDE DEF L
    <3>2. L = R
      BY <1>4, <3>1
    <3> QED
      BY <1>6, <3>2 DEF L, R
  <2>2. PICK u \in ring : u \in R /\ ~Linked(u)
    BY <1>6 DEF R
  <2>3. page \in Units
    BY <1>2, <2>2, CallFields
  <2>4. R = AutoDone(page)
    <3>1. R \subseteq AutoDone(page)
      BY <1>1, <1>2, <2>1 DEF AutoDone
    <3>2. \A v \in AutoDone(page) : v \in Units \ {Root} /\ BackOf(v) = page
      BY <1>1, CallFields DEF AutoDone
    <3> QED
      BY <3>1, <3>2 DEF R, ItemsOf
  <2> QED
    BY <2>3, <2>4 DEF R, BuildInv, AutoHoldTogether
<1> QED
  BY <1>5, <1>6

LEMMA PageIsMet ==
  ASSUME LinksTyped, BuildInv, Built, NEW page \in Pages \cup {NULL}, NEW f,
         FirstOfPage(f), f \in ItemsOf(page)
  PROVE  Met(f) = {v \in Units \ {Root} : back[v] = page}
<1> DEFINE t == TotalItems(f)
           c == Chain(f)
           R == ItemsOf(page)
<1>1. /\ t \in 1 .. MaxUnits /\ c[0] = f /\ down[c[t - 1]] = f
      /\ \A n \in 1 .. t - 1 : c[n] = down[c[n - 1]]
  BY PageGoesRound
<1>2. MaxUnits \in Nat
  BY Sizes
<1>3. \A n \in 0 .. t - 1 : c[n] \in R
  <2>1. \A n \in 0 .. t : c[n] \in Units \ {Root} /\ back[c[n]] = page
    BY PageIsARing
  <2>2. \A u \in Units \ {Root} : back[u] = BackOf(u)
    BY MenuBuilt
  <2> HIDE DEF t, c
  <2> QED
    BY <1>1, <1>2, <2>1, <2>2 DEF ItemsOf
<1>4. Met(f) = {c[n] : n \in 0 .. t - 1}
  BY DEF Met
<1>5. R = {v \in Units \ {Root} : back[v] = page}
  BY MenuBuilt DEF ItemsOf
<1> HIDE DEF t, c, R
<1>6. \A n \in 0 .. t - 1 : down[c[n]] \in Met(f)
  <2> SUFFICES ASSUME NEW n \in 0 .. t - 1 PROVE down[c[n]] \in Met(f)
    OBVIOUS
  <2>1. CASE n = t - 1
    <3>1. 0 \in 0 .. t - 1 /\ down[c[n]] = c[0]
      BY <1>1, <1>2, <2>1
    <3> QED
      BY <1>4, <3>1
  <2>2. CASE n # t - 1
    <3> DEFINE m == n + 1
    <3>1. m \in 1 .. t - 1 /\ m \in 0 .. t - 1 /\ m - 1 = n
      BY <1>1, <1>2, <2>2
    <3> HIDE DEF m
    <3>2. c[m] = down[c[n]]
      BY <1>1, <3>1
    <3> QED
      BY <1>4, <3>1, <3>2
  <2> QED
    BY <2>1, <2>2
<1>7. Met(f) \in SUBSET R /\ \A u \in Met(f) : down[u] \in Met(f)
  BY <1>3, <1>4, <1>6
<1>8. f \in Met(f)
  <2>1. 0 \in 0 .. t - 1
    BY <1>1, <1>2
  <2> QED
    BY <1>1, <1>4, <2>1
<1>9. Met(f) = R
  <2> DEFINE ring == Met(f)
  <2>1. ring \in SUBSET ItemsOf(page) /\ ring # {} /\ \A u \in ring : down[u] \in ring
    BY <1>7, <1>8 DEF R
  <2> HIDE DEF ring
  <2>2. ring = ItemsOf(page)
    BY <2>1, PagesRound
  <2> QED
    BY <2>2 DEF ring, R
<1> QED
  BY <1>5, <1>9

\* No unit is lost between the two ways of linking: the units that going down a
\* page meets are all that lead back to it and no other, and no more than there
\* are lines on the screen.
THEOREM PagesCorrect == Spec => []PagesOwnTheirUnits
<1>1. LinksTyped /\ BuildInv => PagesOwnTheirUnits
  <2> SUFFICES ASSUME LinksTyped, BuildInv, Built PROVE PagesOwnTheirUnits
    BY DEF PagesOwnTheirUnits
  <2>1. PagesLead
    BY PagesOwn
  <2>2. ASSUME NEW u \in Pages
        PROVE  /\ enter[u] # NULL /\ TotalItems(enter[u]) <= ItemsPerPage
               /\ Met(enter[u]) = {v \in Units : back[v] = u}
    <3>1. u \in Units \ {Root} /\ Kind[u] = "PAGE" /\ u # NULL
      BY Sizes DEF Pages
    <3>2. enter[u] \in ItemsOf(u) /\ back[Root] = NULL
      BY MenuBuilt
    <3>3. FirstOfPage(enter[u])
      BY <3>1 DEF FirstOfPage, Page
    <3> DEFINE f == enter[u]
    <3>4. f \in ItemsOf(u) /\ FirstOfPage(f)
      BY <3>2, <3>3
    <3> HIDE DEF f
    <3>5. Met(f) = {v \in Units \ {Root} : back[v] = u}
      BY <3>4, PageIsMet
    <3>6. {v \in Units \ {Root} : back[v] = u} = {v \in Units : back[v] = u}
      BY <3>1, <3>2
    <3> QED
      BY <2>1, <3>1, <3>5, <3>6 DEF PagesLead, f
  <2> DEFINE g == down[Root]
  <2>3. g \in ItemsOf(NULL) /\ FirstOfPage(g)
    BY MenuBuilt, CallsAssumption DEF RootIsAbove, FirstOfPage
  <2> HIDE DEF g
  <2>4. Met(g) = {v \in Units \ {Root} : back[v] = NULL}
    BY <2>3, PageIsMet
  <2>5. CarStart \in Met(g)
    <3>1. CarStart \in ItemsOf(NULL)
      BY CallsAssumption DEF RootIsAbove
    <3>2. CarStart \in Units \ {Root} /\ back[CarStart] = NULL
      BY <3>1, MenuBuilt DEF ItemsOf
    <3> QED
      BY <2>4, <3>2
  <2> QED
    BY <2>1, <2>2, <2>4, <2>5 DEF PagesOwnTheirUnits, PagesLead, g
<1> QED
  BY <1>1, LinksCorrect, PTL

LEMMA PathGrows ==
  ASSUME NEW way \in Seq(Entry), NEW h \in Entry
  PROVE  /\ PathOf(way) \in Seq(Units) /\ Len(PathOf(way)) = Len(way)
         /\ PathOf(Append(way, h)) = Append(PathOf(way), h.current)
         /\ h.current \in Units
<1> DEFINE n == Len(way)
           w == Append(way, h)
           p == PathOf(way)
<1>1. /\ n \in Nat /\ DOMAIN way = 1 .. n /\ \A i \in 1 .. n : way[i].current \in Units
      /\ h.current \in Units
  <2>1. n \in Nat /\ DOMAIN way = 1 .. n /\ \A i \in 1 .. n : way[i] \in Entry
    OBVIOUS
  <2>2. \A e \in Entry : e.current \in Units
    BY DEF Entry
  <2> QED
    BY <2>1, <2>2
<1>2. p = [i \in 1 .. n |-> way[i].current] /\ p \in Seq(Units) /\ Len(p) = n
  BY <1>1 DEF PathOf
<1>3. /\ DOMAIN w = 1 .. n + 1 /\ w[n + 1] = h /\ \A i \in 1 .. n : w[i] = way[i]
  OBVIOUS
<1>4. PathOf(w) = [i \in 1 .. n + 1 |-> w[i].current]
  BY <1>3 DEF PathOf
<1> HIDE DEF p, w
<1>5. /\ Append(p, h.current) \in Seq(Units)
      /\ DOMAIN Append(p, h.current) = 1 .. n + 1
      /\ Append(p, h.current)[n + 1] = h.current
      /\ \A i \in 1 .. n : Append(p, h.current)[i] = p[i]
  BY <1>1, <1>2
<1>6. Append(p, h.current) = [i \in 1 .. n + 1 |-> Append(p, h.current)[i]]
  BY <1>5
<1>7. \A i \in 1 .. n + 1 : w[i].current = Append(p, h.current)[i]
  BY <1>1, <1>2, <1>3, <1>5
<1>8. [i \in 1 .. n + 1 |-> w[i].current] = [i \in 1 .. n + 1 |-> Append(p, h.current)[i]]
  BY <1>7
<1> QED
  BY <1>1, <1>2, <1>4, <1>6, <1>8 DEF p, w

\* What changes the end of a sequence.
LEMMA EndOfSequence ==
  ASSUME NEW S, NEW s \in Seq(S), NEW a \in S, NEW b \in S
  PROVE  LET p == Append(s, a)
         IN  /\ Len(p) = Len(s) + 1 /\ Len(s) \in Nat /\ p[Len(p)] = a
             /\ [p EXCEPT ![Len(p)] = b] = Append(s, b)
             /\ SubSeq(p, 1, Len(p) - 1) = s
<1> DEFINE p == Append(s, a)
           q == Append(s, b)
           n == Len(s)
<1>1. /\ n \in Nat /\ p \in Seq(S) /\ q \in Seq(S) /\ Len(p) = n + 1 /\ Len(q) = n + 1
      /\ p[n + 1] = a /\ q[n + 1] = b /\ DOMAIN p = 1 .. n + 1 /\ DOMAIN q = 1 .. n + 1
      /\ \A i \in 1 .. n : p[i] = s[i] /\ q[i] = s[i]
  OBVIOUS
<1>2. [p EXCEPT ![n + 1] = b] = q
  <2> HIDE DEF p, q
  <2>1. q = [i \in 1 .. n + 1 |-> q[i]]
    BY <1>1
  <2>2. [p EXCEPT ![n + 1] = b] = [i \in 1 .. n + 1 |-> IF i = n + 1 THEN b ELSE p[i]]
    BY <1>1
  <2>3. \A i \in 1 .. n + 1 : q[i] = IF i = n + 1 THEN b ELSE p[i]
    BY <1>1
  <2> QED
    BY <2>1, <2>2, <2>3
<1>3. SubSeq(p, 1, n) = s
  <2> HIDE DEF p, q
  <2>1. /\ SubSeq(p, 1, n) \in Seq(S) /\ Len(SubSeq(p, 1, n)) = n
        /\ \A i \in 1 .. n : SubSeq(p, 1, n)[i] = p[i]
    <3>1. 1 \in 1 .. Len(p) + 1 /\ n \in 0 .. Len(p)
      BY <1>1
    <3> QED
      BY <1>1, <3>1, SubSeqProperties
  <2> QED
    BY <1>1, <2>1, SeqEqual
<1> QED
  BY <1>1, <1>2, <1>3

\* The path on the screen, and what of the tree stays when the links do.
LEMMA PathOnScreen ==
  ASSUME Inv, PagesLead, On
  PROVE  LET p == PathOf(menu_stack)
         IN  /\ p \in Seq(Units) /\ Len(p) = Len(menu_stack)
             /\ Path = Append(p, current_unit) /\ current_unit \in Units
<1>1. menu_stack \in Seq(Entry) /\ Here \in Entry /\ Here.current = current_unit
  BY OnScreen DEF Here
<1>2. Path = PathOf(Append(menu_stack, Here))
  BY DEF Path, Way
<1> QED
  BY <1>1, <1>2, PathGrows

LEMMA TreeStays ==
  ASSUME UNCHANGED linkVars
  PROVE  Ring' = Ring /\ FirstItem' = FirstItem
BY DEF linkVars, pointers, Ring, FirstItem

LEMMA TreeIsTree ==
  ASSUME LinksTyped, BuildInv, Built
  PROVE  Tree!IsTree /\ FirstItem[NULL] = down[Root]
<1> DEFINE I == Units \ {Root}
           parent == [u \in I |-> BackOf(u)]
<1>1. \A u \in I : Ring[u] = down[u] /\ parent[u] = BackOf(u)
  BY DEF Ring
<1>2. \A u \in I : Ring[u] \in I /\ parent[Ring[u]] = parent[u]
  BY <1>1, MenuBuilt
<1>3. \A u, v \in I : Ring[u] = Ring[v] => u = v
  BY <1>1, MenuBuilt
<1>4. FirstItem[NULL] = down[Root] /\ NULL \notin Pages
  BY Sizes DEF FirstItem, Pages
<1>5. ASSUME NEW page \in Pages \cup {NULL}
      PROVE  FirstItem[page] \in I /\ parent[FirstItem[page]] = page
  <2>1. FirstItem[page] \in ItemsOf(page)
    <3>1. CASE page = NULL
      BY <1>4, <3>1, MenuBuilt, CallsAssumption DEF RootIsAbove
    <3>2. CASE page # NULL
      BY <1>5, <3>2, MenuBuilt DEF FirstItem
    <3> QED
      BY <3>1, <3>2
  <2> QED
    BY <2>1 DEF ItemsOf
<1>6. Tree!TreePages = Pages \cup {NULL}
  BY DEF Tree!TreePages, Pages
<1> HIDE DEF parent
<1> QED
  BY <1>2, <1>3, <1>4, <1>5, <1>6 DEF Tree!IsTree, parent

LEMMA TreeInitial == Init => Tree!TreeInit
BY DEF Init, Tree!TreeInit, Path, Mode, On

LEMMA TreeMainPage ==
  ASSUME Inv, LinksTyped, BuildInv, PagesLead, PowerOn \/ RaceEnd
  PROVE  Tree!Show
<1>1. /\ Built /\ MenuExampleEnter /\ UNCHANGED <<linkVars, key>> /\ menu_stack = <<>>
      /\ ~menu_active
  BY DEF PowerOn, RaceEnd, Inv, WayInv, On
<1>2. /\ current_unit' = down[Root] /\ menu_stack' = <<>> /\ edit_mode' = FALSE
      /\ menu_active' = TRUE /\ down[Root] \in Units
  BY <1>1, MainPageEntered DEF MenuExampleEnter, Inv
<1>3. On' /\ Mode' = "browse" /\ Mode \in {"off", "race"}
  BY <1>1, <1>2, Sizes DEF On, Mode
<1>4. Path' = <<down[Root]>>
  <2>1. Way' = <<Here'>> /\ Here'.current = down[Root]
    BY <1>2 DEF Way, Here
  <2> HIDE DEF Here
  <2> QED
    BY <1>3, <2>1 DEF Path, PathOf
<1> QED
  BY <1>1, <1>3, <1>4, TreeIsTree, TreeStays DEF Tree!Show, Tree!tree

LEMMA TreeMove ==
  ASSUME Inv, LinksTyped, BuildInv, PagesLead, Browse,
         (key' = "UP" /\ NavigateUp) \/ (key' = "DOWN" /\ NavigateDown)
  PROVE  Tree!Up \/ Tree!Down
<1> DEFINE f == page_first_unit
           t == TotalItems(f)
           c == Chain(f)
           p == PathOf(menu_stack)
<1>1. menu_active /\ ~edit_mode /\ UNCHANGED linkVars /\ On /\ Built /\ Mode = "browse"
  BY DEF Browse, Inv, WayInv, Mode
<1>2. /\ FirstOfPage(f) /\ current_line \in 0 .. t - 1 /\ t \in 1 .. ItemsPerPage
      /\ current_unit = c[current_line] /\ current_unit \in Units \ {Root}
      /\ \A n \in 0 .. t - 1 : c[n] \in Units \ {Root}
  BY <1>1, OnScreen DEF OnItsLine, Here
<1>3. /\ c[0] = f /\ down[c[t - 1]] = f
      /\ \A n \in 1 .. t - 1 : c[n] = down[c[n - 1]]
  BY <1>1, <1>2, PageGoesRound
<1>4. /\ p \in Seq(Units) /\ Path = Append(p, current_unit)
  BY <1>1, PathOnScreen
<1>5. PICK line : MoveTo(line)
                  /\ \/ /\ key' = "UP"
                        /\ line = IF current_line = 0 THEN MaxLine(f) ELSE current_line - 1
                     \/ /\ key' = "DOWN"
                        /\ line = IF current_line >= MaxLine(f) THEN 0 ELSE current_line + 1
  BY DEF NavigateUp, NavigateDown
<1>6. MaxLine(f) = t - 1
  BY <1>2, Sizes DEF MaxLine
<1> HIDE DEF f, t, c, p
<1>7. /\ line \in 0 .. t - 1
      /\ \/ key' = "UP" /\ down[c[line]] = current_unit
         \/ key' = "DOWN" /\ c[line] = down[current_unit]
  <2>1. CASE key' = "UP"
    <3>1. CASE current_line = 0
      BY <1>2, <1>3, <1>5, <1>6, <2>1, <3>1
    <3>2. CASE current_line # 0
      <4>1. /\ line = current_line - 1 /\ current_line \in 1 .. t - 1
            /\ line \in 0 .. t - 1
        BY <1>2, <1>5, <2>1, <3>2
      <4> QED
        BY <1>2, <1>3, <2>1, <4>1
    <3> QED
      BY <3>1, <3>2
  <2>2. CASE key' = "DOWN"
    <3>1. CASE current_line = t - 1
      BY <1>2, <1>3, <1>5, <1>6, <2>2, <3>1
    <3>2. CASE current_line # t - 1
      <4>1. /\ line = current_line + 1 /\ line \in 1 .. t - 1 /\ line - 1 = current_line
        BY <1>2, <1>5, <1>6, <2>2, <3>2
      <4> QED
        BY <1>2, <1>3, <2>2, <4>1
    <3> QED
      BY <3>1, <3>2
  <2> QED
    BY <1>5, <2>1, <2>2
<1> DEFINE unit == c[line]
<1>8. /\ unit \in Units \ {Root} /\ current_unit' = unit
      /\ UNCHANGED <<menu_active, edit_mode, menu_stack>>
  BY <1>2, <1>5, <1>7 DEF MoveTo, c, f
<1> HIDE DEF unit
<1>9. On' /\ Mode' = "browse" /\ Ring' = Ring /\ FirstItem' = FirstItem
  BY <1>1, <1>8, Sizes, TreeStays DEF On, Mode
<1>10. Path' = Append(p, unit)
  <2> DEFINE h == [page_first |-> page_first_unit', current |-> unit,
                   line |-> current_line']
  <2>1. h \in Entry /\ h.current = unit /\ menu_stack \in Seq(Entry)
    <3>1. page_first_unit' \in Units /\ current_line' \in 0 .. ItemsPerPage - 1
      BY <1>1, MoveStep DEF Browse
    <3>2. NavigateUp \/ NavigateDown
      OBVIOUS
    <3> QED
      BY <1>1, <1>8, <3>1, OnScreen DEF Entry
  <2>2. Way' = Append(menu_stack, h)
    BY <1>8 DEF Way, Here
  <2>3. Path' = PathOf(Way')
    BY <1>9 DEF Path
  <2> HIDE DEF h
  <2> QED
    BY <2>1, <2>2, <2>3, PathGrows DEF p
<1>11. Path' = [Path EXCEPT ![Len(Path)] = unit] /\ Path[Len(Path)] = current_unit
  BY <1>2, <1>4, <1>8, <1>10, EndOfSequence
<1>12. Ring[unit] = down[unit] /\ Ring[current_unit] = down[current_unit]
  BY <1>2, <1>8 DEF Ring
<1>13. CASE key' = "UP" /\ down[unit] = current_unit
  BY <1>1, <1>8, <1>9, <1>11, <1>12, <1>13
     DEF Tree!Up, Tree!Browsing, Tree!CursorAt, Tree!Cursor, Tree!tree
<1>14. CASE key' = "DOWN" /\ unit = down[current_unit]
  BY <1>1, <1>8, <1>9, <1>11, <1>12, <1>14
     DEF Tree!Down, Tree!Browsing, Tree!CursorAt, Tree!Cursor, Tree!tree
<1> QED
  BY <1>7, <1>13, <1>14 DEF unit

LEMMA TreeEnter ==
  ASSUME Inv, LinksTyped, BuildInv, PagesLead, Browse,
         key' = "ENTER", EnterPage
  PROVE  Tree!Enter
<1> DEFINE p == PathOf(menu_stack)
           f == enter[current_unit]
<1>1. /\ menu_active /\ ~edit_mode /\ UNCHANGED linkVars /\ On /\ Built /\ Mode = "browse"
      /\ Len(menu_stack) < StackSize
  BY DEF Browse, Inv, WayInv, Mode
<1>2. /\ current_unit \in Pages /\ menu_stack \in Seq(Entry) /\ Here \in Entry
      /\ Way \in Seq(Entry)
  BY <1>1, OnScreen DEF EnterPage, Pages
<1>3. /\ p \in Seq(Units) /\ Path = Append(p, current_unit) /\ current_unit \in Units
  BY <1>1, PathOnScreen
<1>4. /\ menu_stack' = Way /\ current_unit' = f /\ page_first_unit' = f
      /\ current_line' = 0 /\ UNCHANGED <<menu_active, edit_mode>>
  BY <1>1 DEF EnterPage, Pushed, Way
<1>5. f \in Units /\ FirstItem[current_unit] = f
  BY <1>1, <1>2, MenuBuilt, Sizes DEF ItemsOf, FirstItem, Pages
<1> HIDE DEF f, p
<1>6. On' /\ Mode' = "browse" /\ Ring' = Ring /\ FirstItem' = FirstItem
  BY <1>1, <1>4, <1>5, Sizes, TreeStays DEF On, Mode
<1>7. Path' = Append(Path, f)
  <2> DEFINE h == Top0(f)
  <2>1. h \in Entry /\ h.current = f
    BY <1>5, Sizes DEF Entry, Top0
  <2>2. Way' = Append(Way, h)
    BY <1>4 DEF Way, Here, Top0
  <2>3. Path' = PathOf(Way') /\ Path = PathOf(Way)
    BY <1>1, <1>6 DEF Path
  <2> HIDE DEF h
  <2> QED
    BY <1>2, <2>1, <2>2, <2>3, PathGrows
<1>8. Path[Len(Path)] = current_unit
  BY <1>3, EndOfSequence
<1> QED
  BY <1>1, <1>2, <1>5, <1>6, <1>7, <1>8
     DEF Tree!Enter, Tree!Browsing, Tree!Cursor, Tree!tree, EnterPage

LEMMA TreeBack ==
  ASSUME Inv, PagesLead, Browse, key' = "BACK", NavigateBack
  PROVE  Tree!Back
<1> DEFINE n == Len(menu_stack)
           last == menu_stack[n]
           p == PathOf(menu_stack)
<1>1. menu_active /\ ~edit_mode /\ UNCHANGED linkVars /\ On /\ Built /\ Mode = "browse"
  BY DEF Browse, Inv, WayInv, Mode
<1>2. menu_stack \in Seq(Entry) /\ menu_stack # <<>>
  BY <1>1, OnScreen DEF NavigateBack
<1>3. /\ p \in Seq(Units) /\ Len(p) = n /\ Path = Append(p, current_unit)
      /\ current_unit \in Units
  BY <1>1, PathOnScreen
<1>4. n \in Nat \ {0} /\ last \in Entry
  BY <1>2
<1>5. /\ menu_stack' = SubSeq(menu_stack, 1, n - 1)
      /\ page_first_unit' = last.page_first /\ current_unit' = last.current
      /\ current_line' = last.line /\ UNCHANGED <<menu_active, edit_mode>>
  BY DEF NavigateBack
<1>6. /\ last.current \in Units
      /\ last = [page_first |-> last.page_first, current |-> last.current,
                 line |-> last.line]
  <2> HIDE DEF last
  <2> QED
    BY <1>4 DEF Entry
<1>7. Append(menu_stack', last) = menu_stack
  BY <1>2, <1>5, LastGoesBack
<1>8. On' /\ Mode' = "browse" /\ Ring' = Ring /\ FirstItem' = FirstItem
  BY <1>1, <1>5, <1>6, Sizes, TreeStays DEF On, Mode
<1>9. Path' = p
  <2>1. Way' = menu_stack
    BY <1>5, <1>6, <1>7 DEF Way, Here
  <2> QED
    BY <1>8, <2>1 DEF Path
<1>10. Len(Path) > 1 /\ SubSeq(Path, 1, Len(Path) - 1) = p
  <2> HIDE DEF p
  <2> QED
    BY <1>3, <1>4, EndOfSequence
<1> QED
  BY <1>1, <1>5, <1>8, <1>9, <1>10
     DEF Tree!Back, Tree!Browsing, Tree!tree

\* What leaves the cursor and the stack where they are: the editor and the functions.
LEMMA TreeKeys ==
  ASSUME Inv, PagesLead, On, UNCHANGED <<linkVars, cursor, menu_stack>>
  PROVE  /\ UNCHANGED <<Ring, FirstItem, Path>> /\ On'
         /\ Path[Len(Path)] = current_unit
         /\ menu_stack = <<>> => Path = <<current_unit>>
<1>1. Way' = Way /\ On'
  BY DEF Way, Here, On, cursor
<1>2. Path' = Path
  BY <1>1 DEF Path
<1>3. /\ PathOf(menu_stack) \in Seq(Units) /\ Len(PathOf(menu_stack)) = Len(menu_stack)
      /\ Path = Append(PathOf(menu_stack), current_unit) /\ current_unit \in Units
  BY PathOnScreen
<1>4. Path[Len(Path)] = current_unit
  BY <1>3, EndOfSequence
<1>5. ASSUME menu_stack = <<>> PROVE Path = <<current_unit>>
  <2>1. Len(menu_stack) = 0
    BY <1>5
  <2> DEFINE p == PathOf(menu_stack)
  <2>2. p \in Seq(Units) /\ Len(p) = 0 /\ Path = Append(p, current_unit)
    BY <1>3, <2>1
  <2> HIDE DEF p
  <2>3. p = <<>>
    BY <2>2
  <2> QED
    BY <2>2, <2>3
<1> QED
  BY <1>1, <1>2, <1>4, <1>5, TreeStays

LEMMA TreeFunction ==
  ASSUME Inv, PagesLead, Browse, key' = "ENTER", RunFunction
  PROVE  Tree!RunFunction
<1>1. /\ menu_active /\ ~edit_mode /\ UNCHANGED linkVars /\ On /\ Mode = "browse"
      /\ UNCHANGED <<cursor, edit_mode, menu_stack>> /\ Kind[current_unit] = "FUNCTION"
      /\ menu_active' = menu_active \/ (current_unit = CarStart /\ menu_active' = FALSE)
  BY DEF Browse, Inv, WayInv, Mode, RunFunction
<1>2. /\ UNCHANGED <<Ring, FirstItem, Path>> /\ On' /\ Path[Len(Path)] = current_unit
  BY <1>1, TreeKeys
<1>3. CASE menu_active' = menu_active
  <2>1. Mode' = Mode
    BY <1>1, <1>2, <1>3 DEF Mode
  <2> QED
    BY <1>1, <1>2, <2>1 DEF Tree!RunFunction, Tree!Browsing, Tree!Cursor, Tree!tree
<1>4. CASE current_unit = CarStart /\ menu_active' = FALSE
  <2>1. Path = <<CarStart>>
    BY <1>1, <1>4, StackOfMainPage, TreeKeys
  <2>2. Mode' = "race"
    BY <1>2, <1>4 DEF Mode
  <2> QED
    BY <1>1, <1>2, <2>1, <2>2
       DEF Tree!RunFunction, Tree!Browsing, Tree!Cursor, Tree!tree
<1> QED
  BY <1>1, <1>3, <1>4

LEMMA TreeEdit ==
  ASSUME Inv, PagesLead,
         (Browse /\ key' = "ENTER" /\ EnterParam) \/ Edit
  PROVE  Tree!EditBegin \/ Tree!EditKey
<1>1. /\ UNCHANGED <<linkVars, cursor, menu_stack, menu_active>> /\ menu_active
  BY DEF Browse, EnterParam, Edit, EditUp, EditDown, EditExit
<1>2. On
  BY <1>1 DEF Inv, WayInv
<1>3. UNCHANGED <<Ring, FirstItem, Path>> /\ On' /\ Path[Len(Path)] = current_unit
  BY <1>1, <1>2, TreeKeys
<1>4. CASE Browse /\ key' = "ENTER" /\ EnterParam
  <2>1. Mode = "browse" /\ Mode' = "edit" /\ Kind[current_unit] = "NORMAL"
    BY <1>1, <1>2, <1>3, <1>4 DEF Browse, EnterParam, Mode
  <2> QED
    BY <1>3, <1>4, <2>1 DEF Tree!EditBegin, Tree!Browsing, Tree!Cursor, Tree!tree
<1>5. CASE Edit
  <2>1. \/ key' \in {"UP", "DOWN"} /\ edit_mode' = edit_mode
        \/ key' \in {"ENTER", "BACK"} /\ edit_mode' = FALSE
    BY <1>5 DEF Edit, EditUp, EditDown, EditExit
  <2>2. edit_mode /\ Mode = "edit"
    BY <1>1, <1>2, <1>5 DEF Edit, Mode
  <2>3. \/ key' \in {"UP", "DOWN"} /\ Mode' = Mode
        \/ key' \in {"ENTER", "BACK"} /\ Mode' = "browse"
    BY <1>1, <1>3, <2>1, <2>2 DEF Mode
  <2> QED
    BY <1>3, <2>2, <2>3 DEF Tree!EditKey, Tree!tree
<1> QED
  BY <1>4, <1>5

LEMMA TreeStep ==
  Inv /\ LinksTyped /\ BuildInv /\ PagesLead /\ [Next]_vars
    => [Tree!TreeNext]_<<<<Ring, FirstItem>>, Path, Mode, key>>
<1> SUFFICES ASSUME Inv, LinksTyped, BuildInv, PagesLead, [Next]_vars
             PROVE  [Tree!TreeNext]_<<<<Ring, FirstItem>>, Path, Mode, key>>
  OBVIOUS
<1>1. CASE UNCHANGED vars
  <2>1. UNCHANGED <<linkVars, menu_active, cursor, edit_mode, menu_stack, key>>
    BY <1>1 DEF vars, navVars
  <2>2. Way' = Way /\ On' = On
    BY <2>1 DEF Way, Here, On, cursor
  <2>3. Path' = Path /\ Mode' = Mode
    BY <2>1, <2>2 DEF Path, Mode
  <2> QED
    BY <2>1, <2>3, TreeStays
<1>2. CASE Create
  <2>1. ~On /\ ~On' /\ key' = key
    BY <1>2 DEF Create, Inv, WayInv, On, navVars, cursor
  <2>2. Mode = "off" /\ Mode' = "off" /\ Path = <<>> /\ Path' = <<>>
    BY <2>1 DEF Mode, Path
  <2> QED
    BY <2>1, <2>2 DEF Tree!TreeNext, Tree!Prepare
<1>3. CASE PowerOn \/ RaceEnd
  BY <1>3, TreeMainPage DEF Tree!TreeNext
<1>4. CASE Browse
  <2>1. \/ (key' = "UP" /\ NavigateUp) \/ (key' = "DOWN" /\ NavigateDown)
        \/ key' = "ENTER" /\ NavigateEnter
        \/ key' = "BACK" /\ NavigateBack
    BY <1>4 DEF Browse
  <2> QED
    BY <1>4, <2>1, TreeMove, TreeEnter, TreeBack, TreeFunction, TreeEdit
       DEF NavigateEnter, Tree!TreeNext
<1>5. CASE Edit
  BY <1>5, TreeEdit DEF Tree!TreeNext
<1> QED
  BY <1>1, <1>2, <1>3, <1>4, <1>5 DEF Next

\* The menu is the walk in a tree of MenuTree, whatever calls have built it:
\* lines that are counted and wrapped follow the rings, the stack of cursors is
\* the way back, and a race begins and ends on the main page.
THEOREM ImplementsMenuTree == Spec => WalksInATree
<1>1. Init => Tree!TreeInit
  BY TreeInitial
<1>2. Inv /\ LinksTyped /\ BuildInv /\ PagesLead /\ [Next]_vars
        => [Tree!TreeNext]_<<<<Ring, FirstItem>>, Path, Mode, key>>
  BY TreeStep
<1>3. Spec => [](LinksTyped /\ BuildInv)
  BY LinksCorrect
<1> QED
  BY <1>1, <1>2, <1>3, InvCorrect, PTL
     DEF Spec, WalksInATree, Tree!TreeSpec, Tree!treeVars, Tree!tree

=============================================================================
