------------------------------- MODULE KeyScan ------------------------------
(***************************************************************************)
(* The four keys: the driver that samples them (zf_device_key.c), the menu *)
(* events made of its states (key.c), and the two loops that read its      *)
(* states themselves, the confirmation prompt of start_car and the image   *)
(* display.                                                                *)
(*                                                                         *)
(* A step is one scan: the keys are only looked at then, and nobody looks  *)
(* at them during a race.  The keys are numbered in the order in which the *)
(* code tests them.                                                        *)
(***************************************************************************)
EXTENDS Integers

CONSTANTS
  KeyCount,        \* 4; key 1 is UP, 2 DOWN, then Enter and Back
  Enter, Back,     \* KEY_3 and KEY_4
  Shock,           \* KEY_MAX_SHOCK_PERIOD, compared with a number of scans (10)
  LongScans,       \* KEY_LONG_PRESS_PERIOD / scanner_period (100)
  LongPeriod,      \* KEY_LONG_PRESS_PERIOD, compared with scans too (1000)
  LongPress,       \* LONG_PRESS_TIME (15)
  Repeat,          \* LONG_PRESS_REPEAT_TIME (5)
  PromptPolls      \* polls of start_car's prompt (150)

Keys == 1 .. KeyCount
None == 0

ASSUME KeyAssumption ==
  /\ KeyCount \in Nat /\ Enter \in Keys /\ Back \in Keys /\ Enter # Back
  /\ Shock \in Nat \ {0} /\ LongScans \in Nat /\ LongPeriod \in Nat
  /\ Shock <= LongScans /\ LongScans <= LongPeriod
  /\ LongPress \in Nat \ {0} /\ Repeat \in Nat \ {0} /\ PromptPolls \in Nat

VARIABLES
  mode,         \* who scans: "menu", "prompt", "image", or nobody in a "race"
  press_time,   \* key_press_time: scans a key has been down, at most LongPeriod
  state,        \* key_state
  last,         \* key1_last .. key4_last, the states of the last menu scan
  long_cnt, long_button, repeat_cnt,   \* long_press_cnt, _button, _repeat_cnt
  event,        \* the event of the last menu scan
  polls,        \* timeout_count of the prompt
  again         \* history: has Enter gone down since the prompt appeared, or
                \* has none appeared since the last race?

driverVars == <<press_time, state>>
menuVars   == <<last, long_cnt, long_button, repeat_cnt, event>>
vars == <<mode, driverVars, menuVars, polls, again>>

KeyState == {"RELEASE", "SHORT_PRESS", "LONG_PRESS"}

Init ==
  /\ mode = "menu"
  /\ press_time = [k \in Keys |-> 0] /\ state = [k \in Keys |-> "RELEASE"]
  /\ last = [k \in Keys |-> "RELEASE"]
  /\ long_cnt = 0 /\ long_button = None /\ repeat_cnt = 0 /\ event = None
  /\ polls = 0 /\ again = TRUE

-----------------------------------------------------------------------------
(***************************************************************************)
(* key_scanner, when the keys of "down" are pressed.  A release is a short *)
(* press when the key was down long enough, for the length of one scan; a  *)
(* long press lasts until the key is released.                             *)
(***************************************************************************)
\* Mutant of ReleasedAs: however short the press was.
ReleasedUnfiltered(k) ==
  IF /\ state[k] # "LONG_PRESS"
     /\ 0 < press_time[k] /\ press_time[k] < LongPeriod
  THEN "SHORT_PRESS" ELSE "RELEASE"

\* Mutant of ReleasedAs: by the time alone, whatever the state.
ReleasedByTime(k) ==
  IF Shock <= press_time[k] /\ press_time[k] < LongPeriod
  THEN "SHORT_PRESS" ELSE "RELEASE"

ReleasedAs(k) ==
  IF /\ state[k] # "LONG_PRESS"
     /\ Shock <= press_time[k] /\ press_time[k] < LongPeriod
  THEN "SHORT_PRESS" ELSE "RELEASE"

Pressed(k) == press_time[k] + 1

Sampled(down) ==
  [k \in Keys |-> IF k \notin down THEN ReleasedAs(k)
                  ELSE IF Pressed(k) >= LongScans THEN "LONG_PRESS"
                  ELSE state[k]]

Timed(down) ==
  [k \in Keys |-> IF k \notin down THEN 0
                  ELSE IF Pressed(k) > LongPeriod THEN LongPeriod
                  ELSE Pressed(k)]

KeyScanner(down) == press_time' = Timed(down) /\ state' = Sampled(down)

\* Enter is down, and was up in the last scan.
Again(down) == again \/ (Enter \in down /\ press_time[Enter] = 0)

(***************************************************************************)
(* menu_key_scan.  The first key that is not released owns the one counter *)
(* of long presses; with a long press under way, releases are not looked   *)
(* at; otherwise the first key that has just been released is the event.   *)
(* menu_process takes the event at once.                                   *)
(***************************************************************************)
First(S) == CHOOSE k \in S : \A other \in S : k <= other

Active(now) == {k \in Keys : now[k] # "RELEASE"}

\* Mutant of Released: every key that is up.
ReleasedAlways(now) == {k \in Keys : now[k] = "RELEASE"}

Released(now) == {k \in Keys : now[k] = "RELEASE" /\ last[k] # "RELEASE"}

\* Mutant of LongCount: the counter is not held at its limit.
LongCountUnlimited(now) == IF Active(now) = {} THEN 0 ELSE long_cnt + 1

LongCount(now) ==
  IF Active(now) = {} THEN 0
  ELSE IF long_cnt + 1 > LongPress THEN LongPress ELSE long_cnt + 1

\* Kept while an active key has not yet reached the length of a long press.
LongButton(now) ==
  IF Active(now) = {} THEN None
  ELSE IF LongCount(now) >= LongPress THEN First(Active(now)) ELSE long_button

MenuKeyScan(down) ==
  LET now == Sampled(down)
      button == LongButton(now)
      due == repeat_cnt + 1 >= Repeat
  IN  /\ KeyScanner(down)
      /\ long_cnt' = LongCount(now) /\ long_button' = button
      /\ \/ /\ button # None
            /\ repeat_cnt' = IF due THEN 0 ELSE repeat_cnt + 1
            /\ event' = IF due THEN button ELSE None
         \/ /\ button = None /\ UNCHANGED repeat_cnt
            /\ event' = IF Released(now) = {} THEN None ELSE First(Released(now))
      /\ last' = now

-----------------------------------------------------------------------------

\* One turn of menu_process.  Enter may be on Car_Start, on Show Image, or on
\* anything else.
MenuScan ==
  /\ mode = "menu"
  /\ \E down \in SUBSET Keys :
       /\ MenuKeyScan(down)
       /\ \/ UNCHANGED <<mode, polls>> /\ again' = Again(down)
          \/ /\ event' = Enter /\ mode' = "prompt" /\ polls' = 0
             /\ again' = FALSE
          \/ /\ event' = Enter /\ mode' = "image" /\ UNCHANGED polls
             /\ again' = Again(down)

\* The polling loop of start_car.
PromptScan ==
  /\ mode = "prompt" /\ polls < PromptPolls
  /\ \E down \in SUBSET Keys : KeyScanner(down) /\ again' = Again(down)
  /\ \/ state'[Enter] = "SHORT_PRESS" /\ mode' = "race" /\ UNCHANGED polls
     \/ state'[Enter] # "SHORT_PRESS" /\ polls' = polls + 1 /\ UNCHANGED mode
  /\ UNCHANGED menuVars

\* Nobody has confirmed: start_car returns to the menu.
PromptCancel ==
  /\ mode = "prompt" /\ polls = PromptPolls /\ mode' = "menu"
  /\ UNCHANGED <<driverVars, menuVars, polls, again>>

\* stop_car enters the menu again.
RaceEnd ==
  /\ mode = "race" /\ mode' = "menu" /\ again' = TRUE
  /\ UNCHANGED <<driverVars, menuVars, polls>>

\* menu_func_show_image leaves at once when Back is pressed, and clears it.
ImageScan ==
  /\ mode = "image"
  /\ \E down \in SUBSET Keys :
       LET now == Sampled(down)
       IN  /\ press_time' = Timed(down) /\ again' = Again(down)
           /\ \/ /\ now[Back] # "RELEASE" /\ mode' = "menu"
                 /\ state' = [now EXCEPT ![Back] = "RELEASE"]
              \/ now[Back] = "RELEASE" /\ state' = now /\ UNCHANGED mode
  /\ UNCHANGED <<menuVars, polls>>

Next == MenuScan \/ PromptScan \/ PromptCancel \/ RaceEnd \/ ImageScan

Spec == Init /\ [][Next]_vars

-----------------------------------------------------------------------------
(***************************************************************************)
(* Properties                                                              *)
(***************************************************************************)

\* The image display clears the key, or has done so in the last scan: a key held
\* for that long is in a long press otherwise.
ClearedByImage(k) ==
  /\ k = Back
  /\ \/ mode = "image"
     \/ press_time[k] >= LongScans /\ state[k] = "RELEASE"

\* Every variable has its type.
TypeOK ==
  /\ mode \in {"menu", "prompt", "image", "race"}
  /\ press_time \in [Keys -> 0 .. LongPeriod]
  /\ state \in [Keys -> KeyState] /\ last \in [Keys -> KeyState]
  /\ long_cnt \in 0 .. LongPress /\ long_button \in Keys \cup {None}
  /\ repeat_cnt \in 0 .. Repeat - 1 /\ event \in Keys \cup {None}
  /\ polls \in 0 .. PromptPolls /\ again \in BOOLEAN

\* A scan that finds a key released says which press it was, whoever scans and
\* whatever the loops before it have made of the key: a short press lasted from
\* Shock to LongScans scans, anything else is none.  Left out is the one key that
\* a loop clears, while it does and in the scan after: KEY_4, held over the whole
\* image display, leaves it by its long press, and released in the very next scan
\* it is a short press to the menu (menu.c:934-937).
ReleaseTellsPress ==
  [][\A k \in Keys :
       press_time[k] > 0 /\ press_time'[k] = 0 /\ ~ClearedByImage(k) =>
         (state'[k] = "SHORT_PRESS"
            <=> Shock <= press_time[k] /\ press_time[k] < LongScans)]_vars

-----------------------------------------------------------------------------
(***************************************************************************)
(* What comments of the code say and its behaviours do not.                *)
(***************************************************************************)

\* control.c:54: the car starts when the confirm key is pressed again within
\* three seconds, that is after the prompt has appeared.
StartNeedsSecondPress == mode = "race" => again

\* control.c:55: without a key the start is cancelled, and so the prompt does
\* not come back before the confirm key is pressed again.
CancelledStaysCancelled ==
  [][mode = "menu" /\ mode' = "prompt" => again]_vars

\* key.c:39: a long press is detected LongPress scans after the key went down.
LongPressDetectedInTime ==
  mode = "menu" =>
    \A k \in Keys : press_time[k] > LongPress => long_button # None

\* menu.c:933: Back leaves the image while it is down, it need not be released.
ImageLeavesWhilePressed == mode = "image" => press_time[Back] <= Shock

=============================================================================
