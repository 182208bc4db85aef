------------------------------- MODULE MenuNav ------------------------------
(***************************************************************************)
(* The menu in use (menu.c): a cursor on a page of linked units, a stack   *)
(* of the pages it came through, and the edit mode of a parameter.  A step *)
(* handles one key event, as menu_process does.                            *)
(*                                                                         *)
(* Abstractions.  What is drawn is left out.  Of the parameters only the   *)
(* unsigned ones have a value here: they wrap, and they are switches and   *)
(* selections.  What a function of the menu does elsewhere, on the flash   *)
(* and on the motors, is in ConfigFlash and CarControl.                    *)
(***************************************************************************)
EXTENDS MenuLinks

CONSTANTS
  Root,          \* menu_root, which is on no page itself
  Kind,          \* "NORMAL", "FUNCTION" or "PAGE", for each unit
  CarStart,      \* the unit of menu_func_car_start
  Loads, Erase,  \* the units of the functions that change parameters
  Counted,       \* the parameters of an unsigned type ...
  Stored,        \* ... those registered with the configuration ...
  SpeedDebug, DirectionDebug,  \* ... and those that start_car sets
  DefaultValue,  \* what each has before the first edit
  Top,           \* their largest value, 255 or 65535
  ItemsPerPage,  \* MENU_ITEMS_PER_PAGE
  StackSize,     \* MENU_STACK_SIZE
  MaxUnits       \* MENU_MAX_UNITS

ASSUME MenuAssumption ==
  /\ Root \in Units /\ CarStart \in Units /\ Loads \subseteq Units
  /\ Erase \in Units /\ Stored \subseteq Counted /\ Counted \subseteq Units
  /\ {SpeedDebug, DirectionDebug} \subseteq Counted \ Stored
  /\ Kind \in [Units -> {"NORMAL", "FUNCTION", "PAGE"}]
  /\ Top \in Nat \ {0} /\ DefaultValue \in [Counted -> 0 .. Top]
  /\ ItemsPerPage \in Nat \ {0} /\ StackSize \in Nat /\ MaxUnits \in Nat \ {0}
  /\ IsFiniteSet(Units) /\ Cardinality(Units) <= MaxUnits
  /\ Cardinality({u \in Units : Kind[u] = "PAGE"}) < StackSize

-----------------------------------------------------------------------------
(***************************************************************************)
(* What makes a list of calls build a menu                                 *)
(***************************************************************************)

CallOf(u) == Calls[CHOOSE i \in DOMAIN Calls : Calls[i].unit = u]
Linked(u) == CallOf(u).op = "link"

\* The page that a unit leads back to, and the units of a page.
BackOf(u)   == IF Linked(u) THEN CallOf(u).back ELSE CallOf(u).parent
ItemsOf(page) == {u \in Units \ {Root} : BackOf(u) = page}

\* The pages that menu_auto_link_child has to track.
AutoPages == {CallOf(u).parent : u \in {v \in Units : ~Linked(v)}}

Pages == {u \in Units \ {Root} : Kind[u] = "PAGE"}

\* There is one call for each unit.
EachUnitIsLinkedOnce ==
  /\ \A u \in Units : \E i \in DOMAIN Calls : Calls[i].unit = u
  /\ \A i, j \in DOMAIN Calls : Calls[i].unit = Calls[j].unit => i = j

\* What menu_link is told of two neighbours agrees.
NeighboursAgree ==
  \A u \in Units \ {Root} : Linked(u) =>
    LET above == CallOf(u).up
        below == CallOf(u).down
    IN  /\ above \in Units \ {Root} /\ Linked(above) /\ CallOf(above).down = u
        /\ below \in Units \ {Root} /\ Linked(below) /\ CallOf(below).up = u
        /\ BackOf(below) = BackOf(u)

\* A page is entered at a unit of its own.
PagesAreEntered ==
  \A u \in Pages :
    /\ u \in AutoPages \/ (Linked(u) /\ CallOf(u).enter # NULL)
    /\ Linked(u) => CallOf(u).enter \in ItemsOf(u) \cup {NULL}

\* The screen has a line for each unit of a page, the tracker room for the pages.
PagesFit ==
  /\ \A page \in Pages \cup {NULL} : Cardinality(ItemsOf(page)) <= ItemsPerPage
  /\ Cardinality(AutoPages) <= MaxPageTrack

\* The root is above the main page, which leads back to nowhere.
RootIsAbove ==
  /\ Linked(Root) /\ BackOf(Root) = NULL
  /\ CallOf(Root).down \in ItemsOf(NULL) /\ CarStart \in ItemsOf(NULL)

\* Going down as menu_link is told leads round the whole page.
PagesHoldTogether ==
  \A page \in Pages \cup {NULL} : \A ring \in SUBSET ItemsOf(page) :
    ring # {} /\ (\A u \in ring : Linked(u) /\ CallOf(u).down \in ring)
      => ring = ItemsOf(page)

ASSUME CallsAssumption ==
  /\ EachUnitIsLinkedOnce /\ NeighboursAgree /\ PagesAreEntered
  /\ PagesFit /\ RootIsAbove /\ PagesHoldTogether

VARIABLES
  menu_active,
  current_unit, page_first_unit, current_line,   \* the cursor
  edit_mode,
  menu_stack,   \* the states of the menu to go back to
  value,        \* of the unsigned parameters
  key           \* the event handled last, "NONE" when none was

cursor  == <<current_unit, page_first_unit, current_line>>
navVars == <<menu_active, cursor, edit_mode, menu_stack, value>>
vars == <<linkVars, navVars, key>>

Init ==
  /\ LinksInit
  /\ menu_active = FALSE
  /\ current_unit = NULL /\ page_first_unit = NULL /\ current_line = 0
  /\ edit_mode = FALSE /\ menu_stack = <<>> /\ value = DefaultValue
  /\ key = "NONE"

\* menu_example_enter, at power on and when a race is over: the first item
\* of the main menu.  The stack is left as it is.
MenuExampleEnter ==
  /\ current_unit' = down[Root] /\ page_first_unit' = down[Root]
  /\ current_line' = 0 /\ edit_mode' = FALSE /\ menu_active' = TRUE
  /\ UNCHANGED menu_stack

Create ==
  /\ ~Built /\ MakeCall /\ UNCHANGED <<navVars, key>>

\* The parameters when those registered with the configuration are loaded.
Loaded(stored) ==
  [p \in Counted |-> IF p \in Stored THEN stored[p] ELSE value[p]]

\* The end of main's initialisation: config_auto_load finds any values in the
\* flash, or leaves those that there are.
PowerOn ==
  /\ Built /\ current_unit = NULL
  /\ \E stored \in [Stored -> 0 .. Top] : value' = Loaded(stored)
  /\ MenuExampleEnter /\ UNCHANGED <<linkVars, key>>

-----------------------------------------------------------------------------
(***************************************************************************)
(* Moving the cursor                                                       *)
(***************************************************************************)

\* The n-th unit of a page, NULL when the list ends before.
Chain(first) ==
  LET Below(unit) == IF unit = NULL THEN NULL ELSE down[unit]
      nth[n \in 0 .. MaxUnits] == IF n = 0 THEN first ELSE Below(nth[n - 1])
  IN  nth

\* The units up to where the list ends or comes back to its first unit.
TotalItems(first) ==
  CHOOSE n \in 1 .. MaxUnits :
    /\ n = MaxUnits \/ Chain(first)[n] \in {NULL, first}
    /\ \A m \in 1 .. n - 1 : Chain(first)[m] \notin {NULL, first}

\* Mutant of MaxLine: one line too many on a short page.
MaxLineOneMore(first) ==
  IF TotalItems(first) > ItemsPerPage THEN ItemsPerPage - 1
                                      ELSE TotalItems(first)

MaxLine(first) ==
  IF TotalItems(first) > ItemsPerPage THEN ItemsPerPage - 1
                                      ELSE TotalItems(first) - 1

MoveTo(line) ==
  /\ current_line' = line
  /\ current_unit' = Chain(page_first_unit)[line]
  /\ UNCHANGED <<menu_active, page_first_unit, edit_mode, menu_stack, value>>

\* Mutant of NavigateUp: it wraps one line too early.
NavigateUpEarly ==
  MoveTo(IF current_line <= 1 THEN MaxLine(page_first_unit)
                              ELSE current_line - 1)

NavigateUp ==
  MoveTo(IF current_line = 0 THEN MaxLine(page_first_unit)
                             ELSE current_line - 1)

NavigateDown ==
  MoveTo(IF current_line >= MaxLine(page_first_unit) THEN 0
                                                     ELSE current_line + 1)

-----------------------------------------------------------------------------
(***************************************************************************)
(* Enter and Back                                                          *)
(***************************************************************************)

\* Mutant of EnterParam: whatever the unit is, it can be edited.
EnterAny ==
  /\ Kind[current_unit] # "PAGE" /\ edit_mode' = TRUE
  /\ UNCHANGED <<menu_active, cursor, menu_stack, value>>

EnterParam ==
  /\ Kind[current_unit] = "NORMAL" /\ edit_mode' = TRUE
  /\ UNCHANGED <<menu_active, cursor, menu_stack, value>>

\* What a function leaves in the parameters, and whether the menu stays on.
RunFunction ==
  /\ Kind[current_unit] = "FUNCTION"
  /\ \/ /\ current_unit \in Loads /\ UNCHANGED menu_active
        /\ \E stored \in [Stored -> 0 .. Top] : value' = Loaded(stored)
     \/ /\ current_unit = Erase /\ UNCHANGED menu_active
        /\ value' = Loaded(DefaultValue)
     \/ /\ current_unit = CarStart /\ menu_active' = FALSE
        /\ value' = [value EXCEPT ![SpeedDebug] = 1, ![DirectionDebug] = 1]
     \/ UNCHANGED <<menu_active, value>>
  /\ UNCHANGED <<cursor, edit_mode, menu_stack>>

Here ==
  [page_first |-> page_first_unit, current |-> current_unit,
   line |-> current_line]

\* Mutant of Pushed: the state is pushed without the line of the cursor.
PushedTop ==
  IF Len(menu_stack) < StackSize
  THEN Append(menu_stack, [Here EXCEPT !.current = page_first_unit])
  ELSE menu_stack

Pushed ==
  IF Len(menu_stack) < StackSize THEN Append(menu_stack, Here) ELSE menu_stack

EnterPage ==
  /\ Kind[current_unit] = "PAGE" /\ enter[current_unit] # NULL
  /\ menu_stack' = Pushed
  /\ current_unit' = enter[current_unit]
  /\ page_first_unit' = enter[current_unit] /\ current_line' = 0
  /\ UNCHANGED <<menu_active, edit_mode, value>>

NavigateEnter == EnterParam \/ RunFunction \/ EnterPage

NavigateBack ==
  /\ menu_stack # <<>>
  /\ LET top == menu_stack[Len(menu_stack)]
     IN  /\ menu_stack' = SubSeq(menu_stack, 1, Len(menu_stack) - 1)
         /\ page_first_unit' = top.page_first
         /\ current_unit' = top.current /\ current_line' = top.line
  /\ UNCHANGED <<menu_active, edit_mode, value>>

-----------------------------------------------------------------------------
(***************************************************************************)
(* The edit mode                                                           *)
(***************************************************************************)

\* Mutant of EditUp: the parameter is wider than its type.
EditUpWide ==
  /\ value' = IF current_unit \in Counted
              THEN [value EXCEPT ![current_unit] = @ + 1] ELSE value
  /\ UNCHANGED <<menu_active, cursor, edit_mode, menu_stack>>

\* menu_edit_param(1) wraps at the width of the type.
EditUp ==
  /\ value' = IF current_unit \in Counted
              THEN [value EXCEPT ![current_unit] = (@ + 1) % (Top + 1)]
              ELSE value
  /\ UNCHANGED <<menu_active, cursor, edit_mode, menu_stack>>

\* menu_edit_param(-1) adds (uint8)(-1.0f) to a value that is not zero.  C
\* leaves that conversion undefined: Top, which subtracts one, is as possible
\* as the nearest value, 0, which changes nothing.
EditDown ==
  /\ \/ /\ current_unit \in Counted /\ value[current_unit] >= 1
        /\ \E converted \in {0, Top} :
             value' = [value EXCEPT ![current_unit] =
                                      (@ + converted) % (Top + 1)]
     \/ /\ current_unit \in Counted => value[current_unit] = 0
        /\ UNCHANGED value
  /\ UNCHANGED <<menu_active, cursor, edit_mode, menu_stack>>

EditExit ==
  /\ edit_mode' = FALSE
  /\ UNCHANGED <<menu_active, cursor, menu_stack, value>>

-----------------------------------------------------------------------------

\* menu_process, with the event of a key.
Browse ==
  /\ menu_active /\ ~edit_mode
  /\ \/ key' = "UP" /\ NavigateUp
     \/ key' = "DOWN" /\ NavigateDown
     \/ key' = "ENTER" /\ NavigateEnter
     \/ key' = "BACK" /\ NavigateBack
  /\ UNCHANGED linkVars

Edit ==
  /\ menu_active /\ edit_mode
  /\ \/ key' = "UP" /\ EditUp
     \/ key' = "DOWN" /\ EditDown
     \/ key' \in {"ENTER", "BACK"} /\ EditExit
  /\ UNCHANGED linkVars

\* stop_car
RaceEnd ==
  /\ Built /\ ~menu_active /\ current_unit # NULL
  /\ value' = [value EXCEPT ![SpeedDebug] = 0, ![DirectionDebug] = 0]
  /\ MenuExampleEnter /\ UNCHANGED <<linkVars, key>>

Next == Create \/ PowerOn \/ Browse \/ Edit \/ RaceEnd

Spec == Init /\ [][Next]_vars

-----------------------------------------------------------------------------
(***************************************************************************)
(* Properties                                                              *)
(***************************************************************************)

On == current_unit # NULL

\* Every variable has its type.
TypeOK ==
  /\ todo \in Seq(AnyCall)
  /\ {up, down, enter, back} \subseteq [Units -> Pointers]
  /\ tracked \subseteq Units /\ Cardinality(tracked) <= MaxPageTrack
  /\ {first_child, last_child} \subseteq [Units -> Pointers]
  /\ menu_active \in BOOLEAN /\ edit_mode \in BOOLEAN
  /\ current_unit \in Pointers /\ page_first_unit \in Pointers
  /\ current_line \in 0 .. ItemsPerPage - 1
  /\ Len(menu_stack) <= StackSize
  /\ menu_stack \in Seq([page_first : Units, current : Units,
                         line : 0 .. ItemsPerPage - 1])
  /\ value \in [Counted -> 0 .. Top]
  /\ key \in {"NONE", "UP", "DOWN", "ENTER", "BACK"}

\* Two ways of linking, in an order in which one overwrites what the other
\* set, leave a menu in which every unit below the root is on one ring, and
\* up is the way back of down.
RingsClose ==
  Built => \A u \in Units \ {Root} :
             /\ up[u] # NULL /\ down[u] # NULL
             /\ down[up[u]] = u /\ up[down[u]] = u

\* The units that the cursor meets, going down from the first one of a page.
Met(first) == {Chain(first)[n] : n \in 0 .. TotalItems(first) - 1}

\* Every page of the menu is entered at a ring of all its units and of no other:
\* no unit is lost in a ring that Enter does not lead to, none belongs to two
\* pages, and none is below the last line of the screen, which does not scroll.
\* The main page, from which a race is started, leads back to none, and the
\* root is on none.
PagesOwnTheirUnits ==
  Built =>
    /\ \A u \in Pages :
         /\ enter[u] # NULL /\ TotalItems(enter[u]) <= ItemsPerPage
         /\ Met(enter[u]) = {v \in Units : back[v] = u}
    /\ down[Root] # NULL /\ TotalItems(down[Root]) <= ItemsPerPage
    /\ Met(down[Root]) = {v \in Units \ {Root} : back[v] = NULL}
    /\ back[Root] = NULL /\ CarStart \in Met(down[Root])

\* The line on the screen and the unit that keys act upon are the same one,
\* also when a page is left again or a race has been run in between.
CursorIsOnItsLine ==
  On => /\ current_line < TotalItems(page_first_unit)
        /\ current_unit = Chain(page_first_unit)[current_line]

\* The states of the cursor, from the main page to the screen.
Way == Append(menu_stack, Here)

\* The stack is the way from the main menu to the page on the screen: Back
\* leads to the page, and to the item, that Enter was pressed on.  It never
\* fills up, although menu_example_enter does not clear it.
StackIsTheWay ==
  On =>
    /\ Len(menu_stack) < StackSize
    /\ Way[1].page_first = down[Root]
    /\ \A i \in DOMAIN menu_stack :
         Way[i + 1].page_first = enter[Way[i].current]

\* Seen through the units on the way to the cursor, the menu is the walk of
\* MenuTree: however its lines are counted, they follow the ring of the page,
\* Back is the way of Enter, and a race, started from the main page, leads back
\* to it.
Ring == [u \in Units \ {Root} |-> down[u]]

FirstItem == [page \in Pages \cup {NULL} |->
                IF page = NULL THEN down[Root] ELSE enter[page]]

PathOf(way) == [i \in DOMAIN way |-> way[i].current]
Path == IF On THEN PathOf(Way) ELSE <<>>

Mode ==
  IF ~On THEN "off" ELSE IF ~menu_active THEN "race"
  ELSE IF edit_mode THEN "edit" ELSE "browse"

Tree == INSTANCE MenuTree WITH
          Items  <- Units \ {Root},
          Parent <- [u \in Units \ {Root} |-> BackOf(u)],
          below <- Ring, top <- FirstItem, path <- Path, mode <- Mode

WalksInATree == Tree!TreeSpec

\* Only a parameter is edited, and never while the car races.
EditsParameters ==
  edit_mode => menu_active /\ Kind[current_unit] = "NORMAL"

-----------------------------------------------------------------------------
(***************************************************************************)
(* What comments of the code say and its behaviours do not.                *)
(***************************************************************************)

\* menu.c:727: the key DOWN makes a parameter smaller (unless it is zero).
DownDecreases ==
  [][edit_mode /\ key # "DOWN" /\ key' = "DOWN" /\ current_unit \in Counted
       => value[current_unit] = 0
          \/ value'[current_unit] < value[current_unit]]_vars

=============================================================================
