# Verification of the car

The program under `src/project/` drives a model car that follows a track with a
camera.  It runs on one Cortex-M4 core: a background thread (`main` of
`user/main_cm4.c`) and interrupts.  This directory holds TLA+ models of its
control logic, TLC runs that check them on small instances, and proofs of what
matters most for all values of the parameters.

1. [The system](#1-the-system)
2. [The modules](#2-the-modules)
3. [The runs](#3-the-runs)
4. [The proofs](#4-the-proofs)
5. [What the code does and its comments do not say](#5-what-the-code-does-and-its-comments-do-not-say)
6. [Not modelled](#6-not-modelled)
7. [The plan](#7-the-plan)

To check a module: `tlc -workers 2 -config X.cfg M`; to check its proofs:
`tlapm M_proofs.tla`.

## 1. The system

| part | code | state | operations |
| --- | --- | --- | --- |
| start, race and stop control | `control.c`, `main_cm4.c`, `cm4_isr.c` | `car_running`, `start_state`, `start_timestamp`, `target_speed_saved`, `current_running_speed`, `out_of_bounds_count` | `start_car`, `start_car_process`, `stop_detection`, `stop_car`, the main loop |
| motor loops and PID | `motor.c`, `pid.c` | `target_left/right`, `direction_counter`, the duty of each wheel, the debug switches `speed_debug_enable`, `direction_debug_enable` | `motor_process` (every 5 ms), `motor_reset`, the controllers |
| configuration in flash | `flash.c`, driver `zf_driver_flash.c` | the registered parameters, five pages (four slots and AUTO) | register, save to and load from a slot, automatic save and load, erase all, defaults |
| menu | `menu.c` | linked units, cursor, page stack, edit mode, `menu_active`, `temp_basic_speed` | build, up, down, enter, back, edit, functions |
| menu keys | `key.c`, `zf_device_key.c` | time and state of each key, last states, the counters of long presses and repetitions | `key_scanner`, `menu_key_scan` |
| crossings | `image.c` (1061-1900) | `cross_status`, `cross_flag`, the corners, the edge lines | two recognisers, chosen by `cross_enable` |
| edge lines, mid line, verdict | `image.c` (233-483, 740-778, 946-1006) | picture, thresholds, `reference_col`, edge lines, `stop_search_row`, `final_mid_line` | `get_image`, `get_reference_point`, `search_reference_col`, `search_line`, `image_calculate_mid`, `image_out_of_bounds` |
| circles, dynamic weights | `image.c` | - | not called, or never enabled |
| camera | `zf_device_mt9v03x.c` | the frame, `mt9v03x_finish_flag` | the frame interrupt |
| encoders, filters, IMU, screen | `encoder.c`, `filter.c`, drivers | filter states | read and filter, draw |
| SDK and board drivers | `src/libraries/` | - | vendored |

How they interact.  The menu calls `start_car`, which polls a key, opens the
motor gate by setting three flags and leaves the menu; the main loop then runs
the race branch: `start_car_process`, `image_process` when there is a frame,
`stop_detection`, which calls `stop_car`, which closes the gate and enters the
menu again.  The PIT interrupt (5 ms) reads the flags and the speeds that the
thread writes, and writes the targets and duties that the thread clears.  The
camera interrupt replaces the frame and sets the flag that the thread clears.
The menu edits the parameters in place (`basic_speed` through a copy) and calls
the configuration module, which loads and saves them.  Keys are scanned by
three loops, each at its own pace: the menu's, the prompt's in `start_car` and
the one of the image display.

What is hard here:

- the thread is preempted between any two statements by two interrupts; of what
  they share only `mt9v03x_finish_flag` and `system_time_ms` are `volatile`, and
  there is no critical section;
- the same variables serve one race after another, in and out of the menu, with
  a stop possible at any point of the start;
- power failures in the middle of a flash operation, pages left by other versions
  of the firmware, and a flash that is not to be read where it was not written;
- two frames in one picture, even in one row, and a search that starts from the
  row below;
- controllers with memory, through debug modes, stops and restarts;
- one set of key states and counters behind three loops and four keys;
- 0 as "no corner" next to arithmetic on rows, and limits of small arrays;
- a menu of cyclic lists built by two functions that overwrite each other.

What makes each part correct:

- *control*: a race is only run with the gate open and the speed of the menu,
  reached in the order align, accelerate, cruise; the car is stopped when, and
  only when, the track is lost often enough in this race; the aligning car turns on
  the spot, whatever targets were left to it;
- *configuration*: a slot gives back what was saved in it, a failure costs no more
  than the pages being written, and only such a page can hang a load;
- *keys*: a press gives the events its length calls for, of its own key;
- *menu*: the lists are rings that lead back to their pages, line and unit of
  the cursor agree, Back leads where Enter came from;
- *edges*: the edges of a row are those of its lane, wherever its search began;
  the mean lies on the track that the search went past; the verdict agrees with
  the edges where the front of the picture is clear;
- *steering*: left and right are mirror images, windup ends, a race starts with a
  clean controller, the mid line settles;
- *crossings*: what is drawn is in the image and between corners of this frame.

The hazards behind these, each with its line and the properties that watch it,
are listed in `PROJECT.json`.

## 2. The modules

| module | models | abstract specification | proofs |
| --- | --- | --- | --- |
| `CarControl` | control, gate and modes of the motor loops, arrival of frames | `CarMode` | `CarControl_proofs` |
| `ConfigFlash` | configuration and its use by the menu | `ConfigStore` | `ConfigFlash_proofs` |
| `KeyScan`, `KeyPress` | keys; history of the presses of one key | - | `KeyScan_proofs` |
| `MenuLinks`, `MenuNav` | building the menu; using it | `MenuTree` | `MenuNav_proofs` |
| `EdgeLines` | from a picture to edge lines, mean and verdict | - | `EdgeLines_proofs` |
| `Steering` | filter of the mid line, direction loop | - | `Steering_proofs` |
| `CrossRoad` | crossings | - | `CrossRoad_proofs` |
| `Counting` | induction over naturals, least elements and sums, for the proofs | | |
| `MC...` | the instances for TLC | | |

### CarControl and CarMode

`pc` is the next statement of the thread, at the granularity an interrupt can
tell apart; the main loop is `loop`, the menu branch `show`, `menu_tail` and
the statements of `start_car`, the race branch `poll`, `stamp`, `frame`,
`clear`, `detect`, and `stop_car` one value for each of its stores.  Stores of
a group that no call separates, in `motor_reset` and in the three gate flags of
`start_car`, may be emitted in any order: `pending` holds those still to come.
`Tick` is the PIT interrupt, `Frame` the camera's; each can happen between any
two statements.

| action | code |
| --- | --- |
| `MenuOther`, `MenuEdit...`, `ShowImage`, `ShowFrame`, `ShowExit`, `MenuTail` | the menu branch of `main`, with what `menu_process` does to these variables |
| `StartCar`, `Confirm`, `Cancel`, `SaveTarget`, `MotorReset`, `ResetDone`, `Go`, `GoDone`, `Arm` | `start_car` |
| `PollIdle`, `PollAlign`, `PollAccel`, `PollRunning`, `Stamp` | `start_car_process` |
| `ProcessImage`, `ClearFlag`, `NoImage` | the frame branch of `main` |
| `StopDetection`, `StopCar` | `stop_detection`, `stop_car` |
| `Tick` | `pit0_ch0_isr`, `motor_process` |
| `Frame` | `camera_finish_callback` |

Abstractions: the time since the last stamp is kept directly (`elapsed`, held
at `ElapsedCap`); a duty is zero or not; an image is the verdict of
`image_out_of_bounds` on it; the direction controller gives any value of
`Steer` per wheel; the ramp is any function that begins and ends as
`RampAssumption` says, which is what the float expression guarantees.
`evidence` is a history variable: the age of the image in `user_image`.

`CarMode` is the same seen from the track: menu, align, accelerate, cruise,
with a goal and a speed that only rises to it; `StartsAndStopsInOrder` is the
refinement.

### ConfigFlash and ConfigStore

A page is the sequence of words programmed since its erasure.  The code asks
`flash_check` before it reads, so that reading an unwritten page does not hang the
processor (`flash.c:521-523`); but `flash_check` looks at the first word only, and a
page that a save did not complete has that one.  So a load that comes to words behind
the end (`ReadsUnwritten`) may hang (`pc = "hung"`, until the power is switched off),
or it reads them as `Blank`.  `Boot` reads two words of a page first and `LoadSlot`
three, then the count and the items of a page of this version.  A save is an erasure
(`Erase`) and a step per word (`WriteWord`), erasing the slots a step per slot
(`WipeSlot`), and `PowerOff` may come between any two of them.  `Boot` is
`config_auto_load` at power on, with the version check that starts an erasure.
`FirstPages` is what earlier firmware may have left, complete pages all
(`FirstPagesAssumption`).  `edit` and `temp` are the edit mode and the copy of
`basic_speed` that it works on.

`ConfigStore` has one configuration per page, saves and loads in one step, says
what a failure may cost (`SaveCut`, `EraseCut`) and which loads may hang: those of
pages that are torn, none else.  The mapping shows the
pages as of the last complete operation (`committed`, a history variable) while
the power is on, and as they are when it is off.

Assumed of the hardware: the read of an erased word hangs the processor, as the
code fears, or gives 0xFFFFFFFF, which is not a value of a parameter, a magic number
or a version; a first word that was not written does neither, `flash_check` asks the
flash controller for it; erasing a page is atomic; a word is written or it is not.

### KeyScan and KeyPress

A step is one call of `key_scanner` and what its caller makes of it; `mode`
says which loop the caller is.  `MenuKeyScan` is `menu_key_scan`, `MenuScan`
one turn of the menu, `PromptScan` and `PromptCancel` the loop of `start_car`,
`ImageScan` the loop of `menu_func_show_image`, which clears the state of the key
that leaves it when it was held long.  If that key is still down, the driver has
forgotten its long press and makes a short one of its release: the one exception
that `ReleaseTellsPress` names (`ClearedByImage`).  `again` is a history variable:
has Enter gone down since the prompt appeared?  `KeyPress` adds history
variables to all of this: they follow a press of one key in the menu, from a
scan at which all keys are up and their events out, to the next such scan.
Another key, or another loop that scans, ends the following; nothing is kept
from happening before, between or after the presses followed.
`PressAssumption` asks for `LongPress > 1` (the code has 15): with 1, the one scan
for which a short press lasts is already a long press to `menu_key_scan`, and the
press may give two events.

### MenuLinks, MenuNav and MenuTree

`MenuLinks` executes the calls of `menu_auto_link_child` and `menu_link`; `MCMenuNav`
lists those of `menu_example_create`, all of them in their order, so that the menu
checked is the menu of the car.  `MenuNav` is the menu in use, an action per key event
as `menu_process` handles it; of the parameters only the unsigned ones have values
(they wrap), and `PowerOn` gives them any, as `config_auto_load` does.
`MenuAssumption` says that there are fewer pages than the stack has entries (8 and 10
in the code).  `CallsAssumption` says what there is to say of the list of calls: each
unit is linked once (`EachUnitIsLinkedOnce`), the unit that `menu_link` names as
neighbour says the same of its own neighbour (`NeighboursAgree`), these neighbours
lead round the whole page and not around a part of it (`PagesHoldTogether`), a page is
entered at a unit of its own (`PagesAreEntered`), a list fits the screen and the pages
the tracker of `menu_auto_link_child` (`PagesFit`) and the main page has no page above
it (`RootIsAbove`).  TLC evaluates it for the calls of the car.

`MenuTree` is the menu as the driver knows it: items in a tree, a path from the main
page to the item on the screen, keys that walk along it, an editor at its end and a
race that begins and ends at the top.  It has neither pointers nor lines of the
screen nor a stack.  Under the mapping the path is the units of the stack's entries,
from bottom to top, and the one of the cursor; `WalksInATree` is the refinement.

### EdgeLines

A picture is a row of `RowKinds` for every row: `camera_finish_callback` replaces the
frame while `get_image` copies it pixel by pixel, so that no row has to fit the next,
and a row torn between two frames is one more of the `RowKinds`.  `FindReference` is
the threshold and the reference column, `SearchRow` one turn of the loop of
`search_line` on both sides, `SearchEnds` the turn that meets the dark reference
column, `CalculateMid` the weighted mean; `OutOfBounds` is `image_out_of_bounds`.
`Look` is one pass along a row: the first column at which the loop ends, the nearest
one for which `EndsScan` holds; `Result` is what the one or two passes come to.
`cross_flag` is an input, as `CrossRoad` leaves it; what crossings draw between search
and mean is not in this module.

### Steering

`phase` is where the thread is and `flags` are those of the gate that are set.
`ImageProcess` is the filter, in the thread; `MotorProcess` one PIT interrupt, which
can come between any two stores; `StartCar`, `MotorReset` and `Go` are `start_car`,
a step per store to the controller, to the targets and to the flags, in any order
within a group (`pending`); `StopCar` is `stop_car`, a step per store in their
order; `Debug` is an edit of one of the two switches of the menu.  Two
cars take every step together, one of them with every error and every turn rate
negated: that left and right are treated alike relates two behaviours, and can
be stated as an invariant of the pair.  Gains are integers, ratios tenths;
`Cut` is the conversion of a product to int16, toward zero.  The filter is
`(4t + last) div 5`, which the float expression gives for all values of uint8.

### CrossRoad

A frame is two steps: `Find`, where the searches return any row their loops can
return, and `Process`, where `image_cross_analysis` (`cross_enable` = 1) or
`image_cross_analysis_OLD` (2) acts on the result; `Switch` is the user who
changes `cross_enable` between frames.  `written` collects the rows of the edge
line arrays that are written; the columns are left out.

## 3. The runs

| run | shows | bounds |
| --- | --- | --- |
| `car` | types, gate, speed, evidence, stops, `AlignsAfterTwoTicks`, and the refinement of `CarMode` | speeds 2 and -1, corrections 0 and 1, phases of 2 ticks, cap 3, threshold 2, one poll of the prompt |
| `car_live` | a lost car stops; a start reaches full speed or is stopped; the prompt ends | one speed, no correction, phases of 1 tick, threshold 2 |
| `car_pwm`, `car_frames` | counterexamples, section 5 | as `car`, one speed |
| `config` | types, `OthersUntouched`, `SaveRepairs`, the refinement of `ConfigStore` | 2 items of 2 values, 2 slots, 4 kinds of old pages; any read of unwritten words may hang |
| `keys` | `ReleaseTellsPress`, and the number and the key of the events of a press, with every combination of keys in every mode | 3 keys, limits 3, 5 and 6 scans of the driver, 4 and 2 of the menu, presses followed for 15 scans |
| `keys_start` | counterexample | 2 keys, the constants of the code (10, 100 and 1000, 15 and 5 scans, 150 polls) |
| `menu` | rings, pages, cursor, stack, edit mode, the refinement of `MenuTree` | the real menu; switches of two values, any of them loaded |
| `cross` | corners, rows and flags of both recognisers | 18 rows, distances scaled down |
| `edges` | `EdgesAreBorders`, `MeanIsOnTheTrack`, `EdgesDenyOutOfBounds` | 5 rows of 10 pixels, 8 kinds of rows, with and without following |
| `edges_dark` | counterexample | the same |
| `steer` | symmetry, windup, clean start, and that the mid line settles | 8 columns, 3 means, 3 turn rates, gains 1, limits 8 and 3 |

Why these are enough.  In `car`, two verdicts are the fewest with a count between zero
and the threshold, two ticks to a phase the fewest with a time between its ends, and a
third value of `elapsed` is past the end; a negative speed is allowed by the menu and
mirrors every comparison.  The model has several races, any stop and any interleaving;
nothing in it counts races.  In `config` two items are one with the delayed update and
one without, two slots are one that an erasure has reached and one it has not; pages
from other firmware are empty, shorter, longer and of another version.  The limits of
the keys keep the order they have in the code (repetition, shock, long press of the
menu, long press of the driver, its period: 5 < 10 < 15 < 100 < 1000), which is all
that is compared; 15 scans are enough for three repetitions.  In `cross` 18 rows leave
room for two corners that are `Gap` apart, both clamps and the stretches.  In `edges`
the lanes are at the left, in the middle, at the right, everywhere and nowhere, one is
in glaring light, and one row is torn between two frames; 32768 pictures have all
combinations, so that a search begins in, left of, right of and away from the next
row's lane; 10 columns leave room for both margins, two columns of contrast and a
following that overshoots, and a front of 5 of them is as wide as the theorem about
the verdict asks.  In `steer` two errors in a row reach the limit of the integral, and
8 columns give errors of three sizes on both sides.  What the bounds hide, the
theorems of section 4 cover, but for what the end of that section lists.

Fairness.  In `steer` only `WF(phase = "race" /\ ImageProcess)`: in a race the main
loop processes one picture after the other; `MidLineSettles` asks nothing of the
menu.  In `car_live`: `WF(Main)`: the thread is never blocked for ever,
all its loops make steps.  `WF(Tick)`: the timer is hardware.
`WF(Frame /\ ~finish_flag)`: a working camera delivers another frame sooner or
later after the flag was cleared; frames in the meantime are optional.  There is
no fairness of what the user does; in particular nothing says that the menu's
image display is ever left or that a start is confirmed.  No strong fairness is
used: a frame lost while the flag is being cleared is lost.

Deadlock is checked in all runs: none of the models stops.

## 4. The proofs

The theorems of the seven `..._proofs` modules hold for all values of the
constants that satisfy the named assumptions of their modules; two of them,
`WindupCorrect` and `VerdictCorrect`, have one hypothesis more, given below.
`Counting` holds the lemmas that several
proofs need: a set of naturals has a least element (`LeastExists`), induction in
the form "a set with 0 and all successors is `Nat`" (`Induction`), and that
`SumFunction` of the community modules unfolds, is a natural, keeps bounds and
counts when its terms are ones (`SumUnfolds`, `SumNat`, `SumBound`, `SumAtLeast`,
`SumOfOnes`).

`CarControl_proofs`.  The inductive invariant is `TypeOK` with

- `PlaceInv`: which statements are reached with the menu active;
- `FlagsInv`: a flag of the gate is set or its store is pending;
- `SpeedInv`: the running speed is within what the ramp allows *now*.  This is
  what makes it inductive: `SpeedFollowsStart` bounds the speed by the goal,
  but that a step of the acceleration never lowers it, which `CarMode` asks,
  needs the speed of the last poll to be below the ramp at the next one;
- `EvidenceInv`: the image was copied in this race, from the tail of the menu
  turn on;
- `CountInv`: the count is below the threshold until the stop, and zero in the
  menu.

From it: `TypeCorrect`, `GateOpenInRace`, `SpeedCorrect`, `EvidenceCorrect`,
`StopCorrect` and `ImplementsCarMode`.

`AlignCorrect` adds `AlignInv` to it.  A tick between the stores of the three flags
finds the speed debug mode on and the direction loop off, and gives both wheels the
full target; an earlier race or a debug mode may have left targets, too.  `AlignInv`
follows the counter of the direction loop from the store that arms the start: it is
the first or the second tick from then on that the loop has its turn, which
overwrites both targets with the speed 0 of the alignment and a correction
(`AlignTick`).

`ConfigFlash_proofs`.  The invariant is `TypeOK`, `OthersUntouched` and

- `IdleInv`, `SaveInv`, `WipeInv`: what holds in each of the three phases; in a
  save the page holds the beginning of the words to write, and they are those
  of the parameters in use;
- `GoodInv`: a page is one of earlier firmware, empty, or the beginning of a save,
  so that whatever a load that comes back finds in it are values or erased words.
  Without it the types are not inductive: what `Boot` loads depends on where an
  earlier save was cut.

From it: `TypeCorrect`, `OthersAreSafe`, `SavesRepair`, `ImplementsConfigStore`.
The lemmas `ImageWords`, `CompleteLoads`, `BegunLoads` and `BegunIsTorn` say
what a page, a complete save and a cut one are read as; `SavedPage`, that a load of
a complete one reads no word that was not written, which is what makes it safe
(`SavesRepair`); `LoadIsLoad`, that a load that hangs is one of a torn page.

`KeyScan_proofs`.  `PressesToldApart` is `ReleaseTellsPress`: what a scan makes of a
release follows from how many scans the key was down.  The driver does not count
them to the end (the time is held at `LongPeriod`) and relies on the state it
keeps; so the invariant `KindInv` says that a key which is down for `LongScans` is in
the state of a long press, or was and has been cleared by the image display.
`DriverReleases` is one release.  That an event is a key needs the first of a set of
keys to exist, by the well-founded order of the naturals (`FirstIsAKey`).

`PressCounted` and `PressIsOfItsKey` are about `KeyPress`, whose scans are those of
`KeyScan` (`PressScans`).  Neither property is inductive, each only speaks of the end
of a press.  `PressInv` says what the driver and the menu know at every scan of it:

- `HeldFor(k, h, e)`: a key that has been down for h scans determines all the
  variables but one, `repeat_cnt`, which the last press has left anywhere.
  `Ahead(h, e)` is what holds of that one: `Repeat * e + repeat_cnt` is ahead of the
  scans since the long press began by less than a period.  Dividing by the period
  gives the bounds of the property, to within one event (`EventsCounted`);
- `Ended`: one scan after the release a long press has given its last event and a
  short one is about to give its only one;
- `Over` and `Quiet`: two scans after, nothing is left but the counter.

`HeldLonger` is one scan more of a key held, `ReleaseStep` and `LastEventStep` the
two after it.

`CrossRoad_proofs`.  To `TypeOK` and the three properties the invariant adds
`NothingDrawnYet` (rows are only written by the analysis) and `NothingFoundYet`
(without a crossing no corners are looked for).  One lemma per helper says that
what it draws are rows (`LineInImage`, `LengthenedInImage`, `FilledInImage`), one
per search that what it finds are (`JumpsAreRows`).  The proof needs `Gap > 1`,
which is now in `CrossAssumption`: with a gap of one row the three rows that a
search adds to its result would leave the image.

`Steering_proofs`.  Targets that mirror each other are not inductive, they follow
from the controllers: `OppositeInv` says that errors and sums of the two cars are
opposite.  It is kept because each term of the output, the limit and the cut
towards zero are odd (`OutputOdd`, `LimitOdd`, `CutOdd`; a conversion that rounded
down would break it), and because a turn exchanges the ratios with the sign
(`TurnMirrored`).  `StartCorrect` follows from `CleanInv`, which says store by store
what `motor_reset` has done so far, until the first turn of the direction loop: an
error or a sum whose store is made is zero, a target is zero or what a
tick of the speed loop has written since; `PhaseInv` says which stores can be
pending where.

`WindupCorrect` has the hypothesis `StrongEnough`: an error of one column, kept up,
moves the outer wheel.  The gains are parameters that are 0 until the menu or the
flash sets them, and a car with no gain does not steer; the run assumes the same
(`GainAssumption`).  `WindupInv` counts: while the track is seen at the same place on
one side and the car does not turn, the integral, from -`IntMax` at the worst, grows
by a column each turn, so that after n turns it is at least n - `IntMax`; what holds
of the car holds of its mirror image by `OppositeInv`.

`SettlingCorrect` is what `MidLineSettles` has beside fairness: while the camera sees
the same, every picture processed brings the mid line nearer to the mean or leaves
it next to it (`FilterContracts`), and nothing else moves either.

`EdgeLines_proofs`.  That no index leaves the image (`TypeCorrect`) needs the limits
of a search in order at every row, and the mean between the borders (a sum of
weighted columns against the sum of the weights, `SumBound`).  `SearchedInv` says of
every row that the search is done with that it has a lane and edges just outside
it; the properties say so only at the end.  It is inductive without a word about
where a search begins: a pass that ends at an edge ends at a pixel of the lane with
none of the lane beside it (`EdgeIsJustOutside`), and a pass over a visible row that
finds none has begun off the lane (`WholeFindsAnEdge`).  The proof showed a
condition that pictures of two tones meet by themselves and that `OneLane` now
names: the lane has no contrast of its own, or a pass ends within it.

`TrackCorrect` is about what those edges come to.  `image_calculate_mid` averages from
`stop_search_row` on, so the row that the search ended at is among them, with the
borders of the picture for edges and perhaps no lane; of the others `SearchedInv`
gives the lane (`Stopped`, `MiddleOfARow`).  A weighted mean is between the least and
the greatest of its terms, the rounding down of both divisions included
(`MeanBetween`, by `SumBound` and `SumAtLeast`).

`VerdictCorrect` states `EdgesDenyOutOfBounds`, the property that the run checks, for
a front that is wide beside the columns by which an edge may miss the lane
(`FrontIsWide`; 8 < 56 with the values of the code).  The property itself speaks of
pictures whose front is clear (`ClearFront`: one lane in each row of the front, no
glare, and no pixel of that lane that stands out from the reference column); without
that it is false, as a lane row of 160 over a front of 100 shows: the front counts as
dark against the reference that the far row raises.  No pixel of the lane counts as
dark: the white reference, a mean, is reached by a pixel of the reference column
(`WhiteReferenceIsReached`), and what stands out from a darker pixel stands out from a
brighter one (`ContrastGrows`).  The floor between two edges just outside the lane is
less than `Offset` columns on each side (`PlaceInRow` numbers them), and so is too
little for the verdict (`FloorIsNarrow`).

`MenuNav_proofs`.  `EditsCorrect` holds of a menu of any shape.  The others hold of
every menu whose list of calls satisfies `CallsAssumption`, however the two functions
that build it take turns.

*Building.*  `RingsCorrect` and `PagesCorrect` speak of the menu after the last call;
`BuildInv` says what there is before it: the calls still to come are the rest of the
list (`TodoIsTheRest`), what `menu_link` was told is in the unit (`LinkedAsTold`), the
units of a page filled one after the other are a ring after each call, in the order
of the calls (`AutoRings`, `ListEnds`), and a page is entered by one of its units
(`Entered`).  That the units met by going down from the first one come
round to it again, before the loop of the code gives up, follows from the pigeonhole
principle: going down is one to one on a finite set (`RingIsItsPage`,
`PageGoesRound`).  That they are all units of the page, and none is left in a second
ring beside them, holds by `BuildInv` of what `menu_auto_link_child` fills
(`AutoHoldTogether`) and by `PagesHoldTogether` of what `menu_link` links
(`PagesRound`, `PageIsMet`).

*Using.*  `WayInv` is `StackIsTheWay` with, for each entry, that it is on the unit of
its line (`OnItsLine`), which Back relies on when it restores one.  The stack is never
full since the pages on it differ: each is `back` of the next one's units, and a page
that is on it twice gives, one level up, two equal pages again, and in the end a unit
of the main page that leads back to a page, which there is not.  More pages than
there are cannot differ (`WayIsShort`).

*The tree.*  `ImplementsMenuTree` takes each action to the step of `MenuTree` that it
means, or to none.  It rests on `CursorIsOnItsLine` and `StackIsTheWay`: the code counts
lines and, at the ends of a list, goes over to its other end by counting again, and
what it counts to is the neighbour on the ring; that the menu shown is a tree at all
(`IsTree`) is `RingsClose` and `PagesOwnTheirUnits`.

Only model-checked:

- liveness (`LostCarStops`, `StartCompletes` and `PromptEnds` of `car_live`,
  `MidLineSettles` of `steer`): fairness is out of the prover's reach;
- what the MC modules fill in: that the calls of `menu_example_create` satisfy
  `CallsAssumption`, that the gains of the run satisfy `StrongEnough`.

Every invariant, action property and refinement of a passing run is stated by a
theorem, `WindupEnds` under `StrongEnough` and `EdgesDenyOutOfBounds` under
`FrontIsWide`.

## 5. What the code does and its comments do not say

Runs that end in a counterexample, with the line that promises otherwise:

| run | promise | what happens |
| --- | --- | --- |
| `car_pwm` | `control.c:206`, the PWM is zero, completely stopped | an interrupt between the PWM stores and `car_running = 0` starts a wheel again, and nothing stops it |
| `car_frames` | `control.c:236`, N frames in a row | turns of the loop are counted, several on one frame |
| `keys_start` | `control.c:54`, press the confirm key again | KEY3 is pressed, up for one scan and held again: the menu counts the state of the first press as a long press and its repetition opens the prompt, which takes the same state, still standing, for the confirmation |
| `edges_dark` | `image.c:942`, is there a track in front of the car | without any track the reference column is 0 and as dark as the rest: not out of bounds, and the car is not stopped |

Further configurations, each with one property that TLC refutes; they are kept
as documentation of the behaviour and are not among the runs:

| configuration | property, and the line it is from |
| --- | --- |
| `MCCarControl_align.cfg` | `AlignOnTheSpot`: the car turns on the spot while it aligns (`control.c:147`); a tick between the stores of the gate's flags (`control.c:112`) finds the speed debug mode on and gives both wheels the full target |
| `MCConfigFlash_hang.cfg` | `LoadsDoNotHang`: a page that was not written is not read, so that the car does not hang (`flash.c:521-523`); `flash_check` looks at the first word only, and a save cut after it leaves a page whose load reads words that were not written |
| `MCConfigFlash_autosave.cfg` | `AutoSaveSurvives`: not lost when the power fails (`flash.h:131`); a failure during the automatic save loses old and new parameters |
| `MCConfigFlash_oldflash.cfg` | `OnlyOldFlashErases`: only an older firmware's page is a mismatch (`flash.c:560`); a save cut after its first word is one as well and erases all slots |
| `MCConfigFlash_mismatch.cfg` | `MismatchErasesAll`: a mismatch erases all data (`flash.c:151`); the AUTO page is left (`flash.c:670`), so that the next start erases the slots again |
| `MCConfigFlash_speed.cfg` | `MenuShowsLiveSpeed`: the copy of `basic_speed` starts from its value (`menu.c:1101`); power on copies it before the parameters are loaded |
| `MCKeyScan_cancel.cfg` | `CancelledStaysCancelled`: no second press cancels the start (`control.c:55`); the state kept over the prompt (`key.c:188`) can bring it up again |
| `MCKeyScan_long.cfg` | `LongPressDetectedInTime`: a long press is detected after `LONG_PRESS_TIME` scans (`key.c:39`); the driver reports it only after its own limit |
| `MCKeyScan_image.cfg` | `ImageLeavesWhilePressed`: Back leaves at once (`menu.c:933`); the state changes only on release or a long press |
| `MCMenuNav_down.cfg` | `DownDecreases`: DOWN makes a parameter smaller (`menu.c:727`); the conversion of -1.0f to an unsigned type (`menu.c:474`) is undefined and may give 0 |
| `MCCrossRoad_lines.cfg` | `LinesStayInImage`: a failed corner restores the border (`image.c:1471`); row -1 is written before |
| `MCCrossRoad_switch.cfg` | `FlagFollowsStatus`: the flag is in step with the status (`image.c:192`); a change of `cross_enable` leaves one behind |
| `MCCrossRoad_scan.cfg` | `ContinuityStaysInImage`: the scan starts inside the array (`image.c:1154`); the two clamps are exchanged (`image.c:1159`) |
| `MCCrossRoad_corner.cfg` | `FallbackReachesTheCorner`: a line to the lower corner (`image.c:1735`); the helper does not draw downwards and sets one pixel |
| `MCEdgeLines_order.cfg` | `EdgesAreInOrder`: following is only faster (`image.c:372`); with pixels brighter than `white_max_point` the first pass leaves a pixel right of the lane as its left edge and the second finds none. The width of a track is summed up unsigned (`image.c:1762`) |
| `MCSteering_debug.cfg` | `ResetLeavesNothing`: nothing of the last run is left (`motor.c:97`); with a debug mode on, a tick between the stores of `motor_reset` writes the controller again |
| `MCSteering_windup.cfg` | `TurnsToTheTrack`: left of the track the car turns right (`motor.c:181`); not while the integral of the last bend outweighs the error |

Noted while reading, without a run:

- `select_mid_weight` is never called: the item Weight Select has no effect;
- the comments of `main_cm4.c:108` and `DEVELOPMENT_LOG.md:492` say that slot 0
  is loaded at power on, the code loads the AUTO page;
- `start_car` and `stop_car` are described with a countdown and with a second
  of braking, neither of which is in the code;
- the left encoder's value is described as negated (`encoder.c`), the code negates
  the right one's;
- the start column of the reference sum is one of 61 columns, its divisor 60;
- a word that was never written, if its read comes back, is loaded as a parameter
  like any other (0xFFFFFFFF), and an edit of another parameter saves it again.

## 6. Not modelled

- **Circles**: no function of the program calls that code; **dynamic weights**:
  never enabled.
- **Prospect** (`image_calculate_prospect`): nothing reads its result; the single
  edge modes of the mid line: `mid_mode` is never changed.
- **Speed loops and encoder filters**: two more controllers of the form of the
  direction loop's behind Kalman filters on floats; `CarControl` takes any duty.
- **Drivers, SDK, screen, IMU, wireless**: vendored or pure I/O; the drivers'
  behaviour the program depends on (flash, keys, frame flag, timer) is modelled
  in the modules that use it.
- Nine tenths of the files and almost all lines of the repository are the
  vendored SDK and board library (register definitions, FreeRTOS, network and
  AUTOSAR headers that the program does not even call) and the data of the
  compiler's browser; the program itself is some 5000 lines under
  `src/project/`.  No model of it covers a large part of the repository.
- **Drawing the menu** changes nothing a property is about.

## 7. The plan

Done, in this order: `CarControl` with `CarMode` and proofs; `ConfigFlash` with
`ConfigStore` and proofs; `KeyScan`, `KeyPress`; `MenuLinks`, `MenuNav`;
`CrossRoad`; `EdgeLines`; `Steering`; the proofs about `KeyScan`, `CrossRoad`
and `Steering`; those about `EdgeLines`, `MenuNav` and `KeyPress`; `MenuTree`, and
the proofs about building the menu, about the tree and about the verdict.

Next, for whoever goes on:

1. `EdgeLines` composed with `CrossRoad` through the edge lines that a crossing
   draws anew; the columns of those, with the int8 of `image_connect_point`.
2. The speed loops behind `Steering`.
3. A composition of `KeyScan`, `MenuNav` and the start prompt: from key presses
   to a running car.

A proof still worth having: `EdgesDenyOutOfBounds` for lanes that get brighter or
darker toward the horizon as little as is harmless, where the reference column says
less about the front than `ClearFront` asks.
