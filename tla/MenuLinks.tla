------------------------------ MODULE MenuLinks -----------------------------
(***************************************************************************)
(* How menu.c builds its menu: units that are linked to one another, partly *)
(* by menu_auto_link_child, which keeps the children of a page in a ring,  *)
(* and partly by menu_link, which is given every pointer.                  *)
(*                                                                         *)
(* The calls of menu_example_create are a constant, in the order in which  *)
(* it makes them; a step is one call.                                      *)
(***************************************************************************)
EXTENDS Integers, Sequences, FiniteSets

CONSTANTS
  Units, NULL,
  Calls,         \* the calls of menu_auto_link_child and menu_link, in order
  MaxPageTrack   \* MAX_PAGE_TRACK

Pointers == Units \cup {NULL}

AutoCall(c, p) == [op |-> "auto", unit |-> c, parent |-> p]
LinkCall(u, above, below, into, outof) ==
  [op |-> "link", unit |-> u, up |-> above, down |-> below,
   enter |-> into, back |-> outof]

AnyCall ==
  [op : {"auto"}, unit : Units, parent : Units]
    \cup [op : {"link"}, unit : Units, up : Pointers, down : Pointers,
          enter : Pointers, back : Pointers]

ASSUME LinksAssumption ==
  NULL \notin Units /\ MaxPageTrack \in Nat \ {0} /\ Calls \in Seq(AnyCall)

VARIABLES
  todo,                         \* the calls still to make
  up, down, enter, back,        \* the pointers of each unit
  tracked,                      \* page_tracker: the pages it knows
  first_child, last_child       \* the ends of each page's list

pointers == <<up, down, enter, back>>
tracker  == <<tracked, first_child, last_child>>
linkVars == <<todo, pointers, tracker>>

Nothing == [u \in Units |-> NULL]

\* menu_create_unit clears the unit; the tracker is static.
LinksInit ==
  /\ todo = Calls
  /\ up = Nothing /\ down = Nothing /\ enter = Nothing /\ back = Nothing
  /\ tracked = {} /\ first_child = Nothing /\ last_child = Nothing

-----------------------------------------------------------------------------

\* The page is in the tracker, or there is room for it.
Trackable(page) ==
  page \in tracked \/ Cardinality(tracked) < MaxPageTrack

\* The first child: a ring of one, and the page's enter.
FirstChild(child, parent) ==
  /\ first_child[parent] = NULL
  /\ first_child' = [first_child EXCEPT ![parent] = child]
  /\ last_child' = [last_child EXCEPT ![parent] = child]
  /\ enter' = [enter EXCEPT ![parent] = child]
  /\ up' = [up EXCEPT ![child] = child]
  /\ down' = [down EXCEPT ![child] = child]
  /\ back' = [back EXCEPT ![child] = parent]

\* Mutant of NextChild: the first child does not learn who precedes it.
NextChildOpen(child, parent) ==
  LET first == first_child[parent]
      last  == last_child[parent]
  IN  /\ first # NULL
      /\ down' = [down EXCEPT ![last] = child, ![child] = first]
      /\ up' = [up EXCEPT ![child] = last]
      /\ back' = [back EXCEPT ![child] = parent]
      /\ last_child' = [last_child EXCEPT ![parent] = child]
      /\ UNCHANGED <<first_child, enter>>

\* Every other child goes to the end of the ring.
NextChild(child, parent) ==
  LET first == first_child[parent]
      last  == last_child[parent]
  IN  /\ first # NULL
      /\ down' = [down EXCEPT ![last] = child, ![child] = first]
      /\ up' = [up EXCEPT ![child] = last, ![first] = child]
      /\ back' = [back EXCEPT ![child] = parent]
      /\ last_child' = [last_child EXCEPT ![parent] = child]
      /\ UNCHANGED <<first_child, enter>>

\* menu_auto_link_child
AutoLinkChild(child, parent) ==
  \/ /\ Trackable(parent) /\ tracked' = tracked \cup {parent}
     /\ FirstChild(child, parent) \/ NextChild(child, parent)
  \/ ~Trackable(parent) /\ UNCHANGED <<pointers, tracker>>

\* Mutant of Link: a NULL enter is stored like any other.
LinkClearing(call) ==
  /\ up' = [up EXCEPT ![call.unit] = call.up]
  /\ down' = [down EXCEPT ![call.unit] = call.down]
  /\ enter' = [enter EXCEPT ![call.unit] = call.enter]
  /\ back' = [back EXCEPT ![call.unit] = call.back]
  /\ UNCHANGED tracker

\* menu_link: a NULL enter leaves the one menu_auto_link_child has set.
Link(call) ==
  /\ up' = [up EXCEPT ![call.unit] = call.up]
  /\ down' = [down EXCEPT ![call.unit] = call.down]
  /\ enter' = [enter EXCEPT ![call.unit] =
                 IF call.enter # NULL THEN call.enter ELSE @]
  /\ back' = [back EXCEPT ![call.unit] = call.back]
  /\ UNCHANGED tracker

MakeCall ==
  /\ todo # <<>> /\ todo' = Tail(todo)
  /\ LET call == Head(todo)
     IN  \/ call.op = "auto" /\ AutoLinkChild(call.unit, call.parent)
         \/ call.op = "link" /\ Link(call)

Built == todo = <<>>

=============================================================================
