------------------------------ MODULE Steering ------------------------------
(***************************************************************************)
(* From the mean of the mid line to the targets of the wheels: the filter  *)
(* of image_calculate_mid (image.c), in the main thread, and the direction *)
(* loop of motor_process with its controller (motor.c, pid.c), in the PIT  *)
(* interrupt, from the debug modes of the menu to a race and back.         *)
(*                                                                         *)
(* Two cars run side by side: "car", and "mirror", which sees everything   *)
(* mirrored.  What is a float in the code is an integer here, a ratio a    *)
(* number of tenths; conversions to int16 cut off the fraction.  The       *)
(* interrupt may come between any two stores of motor_reset, start_car and *)
(* stop_car.                                                               *)
(***************************************************************************)
EXTENDS Integers

CONSTANTS
  Center,             \* IMAGE_W / 2
  Means,              \* means of the mid line that pictures have
  Gyros,              \* imu660ra_gyro_z, in the units of the sum
  Kp2, Kp, Ki, Kd, Kg,   \* direction_kp2, _kp, _ki, _kd_img, _kd_g
  OutMax, IntMax,     \* the limits of output and integral (10000 and 5000)
  Inner, Outer,       \* inner_wheel_ratio and outer_wheel_ratio, in tenths
  Speeds, Basic       \* current_running_speed in a race; basic_speed

Columns == 0 .. 2 * Center - 1

ASSUME SteeringAssumption ==
  /\ Center \in Nat /\ Center > 1 /\ Means \subseteq Columns
  /\ Gyros \subseteq Int /\ \A g \in Gyros : -g \in Gyros
  /\ {Kp2, Kp, Ki, Kd, Kg, OutMax, IntMax, Inner, Outer} \subseteq Nat
  /\ Speeds \subseteq Int /\ Basic \in Int

Cars   == {"car", "mirror"}
Wheels == {"left", "right"}

VARIABLES
  phase,              \* where the main thread is: see Phases
  flags,              \* those of the gate that are set
  mean, held,         \* mean of the picture; does the camera see it for ever?
  final_mid_line,     \* and last_final_mid_line
  current_running_speed, direction_counter,
  error_last, integral,   \* of pid_direction
  target,             \* target_left and target_right
  pending,            \* stores of start_car still to come, in any order
  same,               \* history: turns with this error, the car not turning
  fresh               \* history: no direction turn since start_car was called

thread  == <<phase, flags, pending>>
picture == <<mean, held, final_mid_line>>
pid     == <<error_last, integral>>
vars == <<thread, picture, current_running_speed, direction_counter, pid,
          target, same, fresh>>

Zero    == [c \in Cars |-> 0]
Stores  == {"error_last", "integral", "outer", "inner", "direction_counter"}
Flags   == {"car_running", "speed_debug_enable", "direction_debug_enable"}
Phases  == {"menu", "reset", "go", "race",
            "stop_left", "stop_right", "stop_speed", "stop_run"}

Init ==
  /\ phase = "menu" /\ flags = {} /\ pending = {}
  /\ mean = Center /\ held = FALSE /\ final_mid_line = Center
  /\ current_running_speed = 0 /\ direction_counter = 0
  /\ error_last = Zero /\ integral = Zero
  /\ target = [c \in Cars |-> [w \in Wheels |-> 0]]
  /\ same = 0 /\ fresh = FALSE

-----------------------------------------------------------------------------
(***************************************************************************)
(* The filter, once per processed picture                                  *)
(***************************************************************************)
\* Mutant of Filtered: the weights of the two are exchanged.
FilteredSlowly(temp, last) ==
  IF last = 0 THEN temp ELSE (temp + 4 * last) \div 5

\* temp * 0.8 + last * 0.2, cut off; no last value is stored as 0.
Filtered(temp, last) == IF last = 0 THEN temp ELSE (4 * temp + last) \div 5

\* image_process runs in races, and in the menu in the direction debug mode and
\* the image display.
ImageProcess ==
  /\ phase \in {"menu", "race"}
  /\ \/ held /\ UNCHANGED mean
     \/ ~held /\ mean' \in Means
  /\ final_mid_line' = Filtered(mean', final_mid_line)
  /\ UNCHANGED <<thread, held, current_running_speed, direction_counter, pid,
                 target, same, fresh>>

\* From here on nothing moves before the camera.
Hold ==
  /\ ~held /\ held' = TRUE
  /\ UNCHANGED <<thread, mean, final_mid_line, current_running_speed,
                 direction_counter, pid, target, same, fresh>>

-----------------------------------------------------------------------------
(***************************************************************************)
(* pid_calc_position and the direction loop                                *)
(***************************************************************************)
Limit(x, max) == IF x > max THEN max ELSE IF x < -max THEN -max ELSE x
Abs(x) == IF x < 0 THEN -x ELSE x

\* A float product with a ratio, converted to int16.
Cut(x, tenths) ==
  IF x * tenths >= 0 THEN (x * tenths) \div 10 ELSE -((-x * tenths) \div 10)

Mirrored(c, x) == IF c = "car" THEN x ELSE -x

MidError(c) == Mirrored(c, final_mid_line - Center)

\* Mutant of Integral: at its limit it stays there.
IntegralSticks(c) ==
  IF Abs(integral[c]) = IntMax THEN integral[c]
  ELSE Limit(integral[c] + MidError(c), IntMax)

Integral(c) == Limit(integral[c] + MidError(c), IntMax)

Output(c, gyro) ==
  LET error == MidError(c)
  IN  Limit(Kp2 * Abs(error) * error + Kp * error + Ki * Integral(c)
              + Kd * (error - error_last[c]) + Kg * Mirrored(c, gyro),
            OutMax)

\* Mutant of Turn: the ratios belong to the wheels, not to the turn.
TurnByWheel(error, output) ==
  <<current_running_speed + Cut(output, Outer),
    current_running_speed - Cut(output, Inner)>>

\* The targets of the left and the right wheel: the left one is the outer one
\* when the mid line is to the right.
Turn(error, output) ==
  IF error > 0
  THEN <<current_running_speed + Cut(output, Outer),
         current_running_speed - Cut(output, Inner)>>
  ELSE <<current_running_speed + Cut(output, Inner),
         current_running_speed - Cut(output, Outer)>>

\* Mutant of Forward: a wheel may be driven backwards.
Backward(x) == x

Forward(x) == IF x < 0 THEN 0 ELSE x

Again(gyro) ==
  IF gyro # 0 \/ MidError("car") = 0 THEN 0
  ELSE IF MidError("car") # error_last["car"] THEN 1
  ELSE IF same > IntMax THEN same ELSE same + 1

DirectionTurn(gyro) ==
  /\ direction_counter' = 0
  /\ error_last' = [c \in Cars |-> MidError(c)]
  /\ integral' = [c \in Cars |-> Integral(c)]
  /\ target' = [c \in Cars |->
                  LET t == Turn(MidError(c), Output(c, gyro))
                  IN  [left |-> Forward(t[1]), right |-> Forward(t[2])]]
  /\ same' = Again(gyro) /\ fresh' = FALSE

\* motor_process every 5 ms: the direction loop has its turn every other time;
\* without it the speed debug mode sets the targets, and with neither (a race
\* about to begin or to end) they stay as they are.
MotorProcess ==
  /\ \/ /\ "direction_debug_enable" \in flags /\ direction_counter + 1 >= 2
        /\ \E gyro \in Gyros : DirectionTurn(gyro)
     \/ /\ "direction_debug_enable" \in flags /\ direction_counter + 1 < 2
        /\ direction_counter' = direction_counter + 1
        /\ UNCHANGED <<pid, target, same, fresh>>
     \/ /\ "direction_debug_enable" \notin flags
        /\ "speed_debug_enable" \in flags
        /\ target' = [c \in Cars |-> [w \in Wheels |-> Basic]]
        /\ same' = 0 /\ UNCHANGED <<direction_counter, pid, fresh>>
  /\ UNCHANGED <<thread, picture, current_running_speed>>

-----------------------------------------------------------------------------
(***************************************************************************)
(* The menu, and the begin and the end of a race                           *)
(***************************************************************************)

\* menu_edit_param on one of the debug switches.
Debug ==
  /\ phase = "menu"
  /\ \E switch \in Flags \ {"car_running"} :
       flags' = IF switch \in flags THEN flags \ {switch}
                ELSE flags \cup {switch}
  /\ UNCHANGED <<phase, pending, picture, current_running_speed,
                 direction_counter, pid, target, same, fresh>>

\* start_car, once confirmed, clears the speed and calls motor_reset ...
StartCar ==
  /\ phase = "menu" /\ phase' = "reset" /\ pending' = Stores
  /\ current_running_speed' = 0 /\ fresh' = TRUE
  /\ UNCHANGED <<flags, picture, direction_counter, pid, target, same>>

\* Mutant of Reset: the integral is left alone.
ResetKeepsIntegral(store) ==
  /\ error_last' = IF store = "error_last" THEN Zero ELSE error_last
  /\ UNCHANGED integral
  /\ direction_counter' = IF store = "direction_counter" THEN 0
                          ELSE direction_counter

\* One store of motor_reset to the controller or the counter.
Reset(store) ==
  /\ error_last' = IF store = "error_last" THEN Zero ELSE error_last
  /\ integral' = IF store = "integral" THEN Zero ELSE integral
  /\ direction_counter' = IF store = "direction_counter" THEN 0
                          ELSE direction_counter

\* A store to the target of a wheel; of the mirrored car it is the other one's.
ClearTarget(wheel, other) ==
  target' = [target EXCEPT !["car"][wheel] = 0, !["mirror"][other] = 0]

\* ... whose stores the compiler may order as it likes; when all are made it
\* goes on ...
MotorReset ==
  /\ phase = "reset"
  /\ \E store \in pending :
       /\ Reset(store)
       /\ \/ store = "outer" /\ ClearTarget("left", "right")
          \/ store = "inner" /\ ClearTarget("right", "left")
          \/ store \notin {"outer", "inner"} /\ UNCHANGED target
       /\ IF pending = {store} THEN pending' = Flags /\ phase' = "go"
          ELSE pending' = pending \ {store} /\ UNCHANGED phase
  /\ same' = 0
  /\ UNCHANGED <<flags, picture, current_running_speed, fresh>>

\* ... and sets the flags of the gate, in any order too.
Go ==
  /\ phase = "go"
  /\ \E flag \in pending :
       /\ flags' = flags \cup {flag} /\ pending' = pending \ {flag}
       /\ phase' = IF pending = {flag} THEN "race" ELSE "go"
  /\ UNCHANGED <<picture, current_running_speed, direction_counter, pid,
                 target, same, fresh>>

\* start_car_process
SetSpeed ==
  /\ phase = "race" /\ current_running_speed' \in Speeds
  /\ UNCHANGED <<thread, picture, direction_counter, pid, target, same, fresh>>

\* stop_car: the stores in their order, calls lie between them.  The controller
\* is left as it is.
StopFlag(from, flag, to) ==
  /\ phase = from /\ phase' = to /\ flags' = flags \ {flag}
  /\ UNCHANGED <<target, same>>

StopWheel(from, wheel, other, to) ==
  /\ phase = from /\ phase' = to /\ ClearTarget(wheel, other) /\ same' = 0
  /\ UNCHANGED flags

StopCar ==
  /\ \/ StopFlag("race", "direction_debug_enable", "stop_left")
     \/ StopWheel("stop_left", "left", "right", "stop_right")
     \/ StopWheel("stop_right", "right", "left", "stop_speed")
     \/ StopFlag("stop_speed", "speed_debug_enable", "stop_run")
     \/ StopFlag("stop_run", "car_running", "menu")
  /\ UNCHANGED <<pending, picture, current_running_speed, direction_counter,
                 pid, fresh>>

Next == ImageProcess \/ Hold \/ MotorProcess \/ Debug \/ StartCar \/ MotorReset
        \/ Go \/ SetSpeed \/ StopCar

\* In a race the main loop processes one picture after the other.
Spec == Init /\ [][Next]_vars /\ WF_vars(phase = "race" /\ ImageProcess)

-----------------------------------------------------------------------------
(***************************************************************************)
(* Properties                                                              *)
(***************************************************************************)

\* Types; a target is not negative but in the speed debug mode.
TypeOK ==
  /\ phase \in Phases /\ flags \subseteq Flags
  /\ pending \subseteq Stores \cup Flags
  /\ mean \in Columns /\ held \in BOOLEAN /\ final_mid_line \in Columns
  /\ current_running_speed \in Speeds \cup {0} /\ direction_counter \in {0, 1}
  /\ error_last \in [Cars -> -Center .. Center]
  /\ integral \in [Cars -> -IntMax .. IntMax]
  /\ target \in [Cars -> [Wheels -> Nat \cup {Basic}]]
  /\ same \in 0 .. IntMax + 1 /\ fresh \in BOOLEAN

\* A car that sees the mirrored picture steers the mirrored way, whatever both
\* have seen, debugged and raced before: of two ratios, two branches and two
\* wheels none is mixed up.  A car in the middle of the track is left out,
\* there the code takes the left wheel for the inner one on both sides.
SteersSymmetrically ==
  error_last["car"] # 0 =>
    /\ target["car"]["left"] = target["mirror"]["right"]
    /\ target["car"]["right"] = target["mirror"]["left"]

\* Whatever the integral has summed up before, in debug modes and other bends,
\* a car that has seen the track at the same place on one side for more than
\* IntMax turns, without turning itself, steers to that side (5000 turns of
\* 10 ms; the limits of pid_calc_position).
WindupEnds ==
  same > IntMax =>
    \/ error_last["car"] > 0 /\ target["car"]["left"] > target["car"]["right"]
    \/ error_last["car"] < 0 /\ target["car"]["left"] < target["car"]["right"]

\* ... if an error of one column, kept for that long, moves the outer wheel.
StrongEnough ==
  /\ IntMax > 0 /\ Speeds \subseteq Nat
  /\ (Kp2 + Kp + Ki) * Outer >= 10 /\ OutMax * Outer >= 10

\* Of what the loops did before a start, in races and in debug modes, nothing
\* is left when the direction loop has its first turn in the race: until then
\* the controller is at zero, and no target is other than zero or the one that
\* the speed loop sets in a tick between the stores.  A turn that the direction
\* debug mode has while motor_reset runs is a turn before.
StartsClean ==
  phase \in {"go", "race"} /\ fresh =>
    /\ error_last = Zero /\ integral = Zero
    /\ \A c \in Cars, w \in Wheels : target[c][w] \in {0, Basic}

\* In a race the filtered mid line comes to within one column of what the
\* camera sees, though the filter cuts off fractions, and stays there.
MidLineSettles ==
  <>[](held /\ phase = "race") =>
    <>[](final_mid_line - mean \in -1 .. 1)

-----------------------------------------------------------------------------
(***************************************************************************)
(* What comments of the code say and its behaviours do not.                *)
(***************************************************************************)

\* motor.c:97: motor_reset keeps what is left from the last run from having an
\* effect on this one.
ResetLeavesNothing ==
  [][phase = "reset" /\ phase' = "go" =>
       error_last' = Zero /\ integral' = Zero]_vars

\* motor.c:181: a car to the left of the track (mid_error > 0) turns right, so
\* that the left wheel is not the slower one.
TurnsToTheTrack ==
  phase \in {"menu", "race"} /\ "direction_debug_enable" \in flags
    /\ error_last["car"] > 0 =>
    target["car"]["left"] >= target["car"]["right"]

=============================================================================
