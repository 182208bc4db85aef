------------------------------ MODULE KeyPress ------------------------------
(***************************************************************************)
(* How many events a press gives, and of which key.  History variables     *)
(* follow a press of one key in the menu through the scans of KeyScan,     *)
(* from a scan at which nothing is left of earlier presses to the one at   *)
(* which nothing is left of it.  Whatever else happens in between, another *)
(* key or another loop that scans, ends the following, not the scans.      *)
(***************************************************************************)
EXTENDS KeyScan, FiniteSets

CONSTANT MaxHeld   \* bound: presses are not followed for longer

\* The one scan of a short press is not a long press: its key is not released in
\* that scan, and with LongPress = 1 it would give an event before it gives its own.
ASSUME PressAssumption == MaxHeld \in Nat /\ LongPress > 1

VARIABLES
  who, held,   \* the key of the press, and in how many scans it was down
  quiet,       \* scans since all keys are up, at most 2: then their events are out
  events       \* events given since it went down

pressVars == <<who, held, quiet, events>>

PressInit == Init /\ who = None /\ held = 0 /\ quiet = 2 /\ events = 0

\* The keys that are down in a scan.
Down == {k \in Keys : press_time'[k] > 0}

InMenu == mode = "menu" /\ mode' = "menu"

\* The next press begins when the events of the last ones are out.
PressBegins ==
  /\ InMenu /\ quiet = 2
  /\ \E k \in Keys : Down = {k} /\ who' = k
  /\ held' = 1 /\ quiet' = 0 /\ events' = IF event' = None THEN 0 ELSE 1

Continues == quiet = 0 /\ held < MaxHeld /\ Down = {who}

PressContinues ==
  /\ InMenu /\ Continues /\ held' = held + 1
  /\ events' = IF event' = None THEN events ELSE events + 1
  /\ UNCHANGED <<who, quiet>>

KeysUp ==
  /\ InMenu /\ Down = {} /\ quiet' = IF quiet < 2 THEN quiet + 1 ELSE 2
  /\ events' = IF event' = None \/ who = None THEN events ELSE events + 1
  /\ UNCHANGED <<who, held>>

NotFollowed ==
  /\ \/ ~InMenu
     \/ quiet = 2 /\ Cardinality(Down) > 1
     \/ quiet < 2 /\ Down # {} /\ ~Continues
  /\ who' = None /\ held' = 0 /\ quiet' = 0 /\ events' = 0

PressNext ==
  Next /\ (PressBegins \/ PressContinues \/ KeysUp \/ NotFollowed)

PressSpec == PressInit /\ [][PressNext]_<<vars, pressVars>>

-----------------------------------------------------------------------------

\* A press shorter than Shock scans gives no event; a longer one gives one when
\* it ends, and from LongScans + LongPress - 1 scans on one more every Repeat
\* scans, the first of which may come sooner: the counter of repetitions is
\* not cleared between two presses.
Repeating == IF held + 2 > LongScans + LongPress
             THEN held + 2 - LongScans - LongPress ELSE 0

PressGivesItsEvents ==
  quiet = 2 /\ who # None =>
    IF held < Shock THEN events = 0
    ELSE /\ events >= 1 + Repeating \div Repeat
         /\ events <= 1 + (Repeating + Repeat - 1) \div Repeat

\* While a press is followed, and until the next one, all events are of its key.
EventsOfThatKey == who # None => event \in {None, who}

=============================================================================
