------------------------------ MODULE MenuTree ------------------------------
(***************************************************************************)
(* What the menu promises the driver: a walk in a tree.  The items on one  *)
(* page are on a ring, which Up and Down follow; Enter goes from a         *)
(* page to its first item, Back the way that Enter came, and only from the *)
(* main page a race is started, to which it comes back.                    *)
(***************************************************************************)
EXTENDS Integers, Sequences

CONSTANTS
  Items, NULL,
  Parent,     \* the page of each item, NULL for those of the main page
  Kind, CarStart

TreePages == {i \in Items : Kind[i] = "PAGE"} \cup {NULL}

VARIABLES
  below,      \* the next item on the ring
  top,        \* the first item of each page
  path,       \* the items that were entered, and at the end the one on the screen
  mode,       \* "off", "browse", "edit" or "race"
  key         \* the event of a key handled last

tree == <<below, top>>
treeVars == <<tree, path, mode, key>>

TreeInit == path = <<>> /\ mode = "off" /\ key = "NONE"

\* Before it is shown the menu may be anything ...
Prepare ==
  mode = "off" /\ UNCHANGED <<path, mode, key>>

\* ... but then it is a tree, in which the items of a page are on a ring.
IsTree ==
  /\ \A i \in Items : below[i] \in Items /\ Parent[below[i]] = Parent[i]
  /\ \A i, j \in Items : below[i] = below[j] => i = j
  /\ \A page \in TreePages : top[page] \in Items /\ Parent[top[page]] = page

\* At power on, and when a race is over.
Show ==
  /\ mode \in {"off", "race"} /\ mode' = "browse"
  /\ IsTree /\ path' = <<top[NULL]>>
  /\ UNCHANGED <<tree, key>>

Cursor == path[Len(path)]
CursorAt(item) == path' = [path EXCEPT ![Len(path)] = item]

Browsing(event) == mode = "browse" /\ key' = event /\ UNCHANGED tree

Down ==
  Browsing("DOWN") /\ CursorAt(below[Cursor]) /\ UNCHANGED mode

Up ==
  /\ Browsing("UP") /\ UNCHANGED mode
  /\ \E item \in Items : below[item] = Cursor /\ CursorAt(item)

Enter ==
  /\ Browsing("ENTER") /\ Kind[Cursor] = "PAGE"
  /\ path' = Append(path, top[Cursor]) /\ UNCHANGED mode

Back ==
  /\ Browsing("BACK") /\ Len(path) > 1
  /\ path' = SubSeq(path, 1, Len(path) - 1) /\ UNCHANGED mode

EditBegin ==
  /\ Browsing("ENTER") /\ Kind[Cursor] = "NORMAL"
  /\ mode' = "edit" /\ UNCHANGED path

EditKey ==
  /\ mode = "edit" /\ UNCHANGED <<tree, path>>
  /\ \/ key' \in {"UP", "DOWN"} /\ UNCHANGED mode
     \/ key' \in {"ENTER", "BACK"} /\ mode' = "browse"

\* A function, which may be the one that starts a race: only from the main page.
RunFunction ==
  /\ Browsing("ENTER") /\ Kind[Cursor] = "FUNCTION" /\ UNCHANGED path
  /\ UNCHANGED mode \/ (path = <<CarStart>> /\ mode' = "race")

TreeNext ==
  \/ Prepare \/ Show \/ Down \/ Up \/ Enter \/ Back \/ EditBegin \/ EditKey
  \/ RunFunction

TreeSpec == TreeInit /\ [][TreeNext]_treeVars

=============================================================================
