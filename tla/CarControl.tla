----------------------------- MODULE CarControl -----------------------------
(***************************************************************************)
(* Starting, running and stopping the car.                                 *)
(*                                                                         *)
(* One background thread (main() of user/main_cm4.c) runs the menu and the *)
(* race loop; it is preempted between any two statements by the 5 ms PIT   *)
(* interrupt, which runs the motor loops, and by the camera interrupt,     *)
(* which replaces the frame.  The thread is modelled at the granularity at *)
(* which an interrupt can tell its statements apart: "pc" names the next   *)
(* statement.  Of the variables shared with the interrupts only the flag   *)
(* of the camera and the time are volatile, so other stores that no call   *)
(* separates may be emitted in any order: "pending" holds those of the     *)
(* current group that have not happened yet.                               *)
(*                                                                         *)
(* Abstractions.  The difference system_time_ms - start_timestamp is kept  *)
(* directly, as "elapsed", saturating at ElapsedCap; a duty cycle is kept  *)
(* as zero or not (the set "driven" of wheels whose PWM is not zero); an   *)
(* image is kept as the verdict image_out_of_bounds() gives on it; the     *)
(* output of the direction PID is any value of Steer, for each wheel.      *)
(***************************************************************************)
EXTENDS Integers

CONSTANTS
  Speeds,        \* the values basic_speed may be given in the menu (int16)
  Steer,         \* the signed corrections the direction loop may output
  TickMs,        \* period of the PIT interrupt (5 ms in the code)
  PhaseMs,       \* length of the align and of the accelerate phase (1000 ms)
  ElapsedCap,    \* bound: elapsed saturates here
  ConfirmPolls,  \* polls of KEY3 before start_car gives up (150)
  Threshold,     \* OUT_OF_BOUNDS_THRESHOLD (5)
  Ramp(_, _)     \* Ramp(s, e) = (int16)(s * (float)e / 1000), for e <= PhaseMs

(***************************************************************************)
(* s is between 0 and t, on either side of zero.                           *)
(***************************************************************************)
Within(s, t) == (0 <= s /\ s <= t) \/ (t <= s /\ s <= 0)

ASSUME SpeedsAssumption == Speeds \subseteq Int
ASSUME SteerAssumption  == Steer \subseteq Int /\ Steer # {}
ASSUME TimeAssumption   ==
  /\ TickMs \in Nat \ {0} /\ PhaseMs \in Nat \ {0}
  /\ ElapsedCap \in Nat /\ PhaseMs < ElapsedCap
ASSUME CountAssumption  == ConfirmPolls \in Nat /\ Threshold \in Nat \ {0}

(***************************************************************************)
(* What float arithmetic guarantees of the ramp: it is an integer between  *)
(* 0 and the target, it ends at the target, and it grows with the time.    *)
(***************************************************************************)
ASSUME RampAssumption ==
  \A s \in Speeds : \A e \in 0 .. PhaseMs :
    /\ Ramp(s, e) \in Int /\ Within(Ramp(s, e), s)
    /\ Ramp(s, PhaseMs) = s
    /\ \A d \in 0 .. e : Within(Ramp(s, d), Ramp(s, e))

-----------------------------------------------------------------------------

VARIABLES
  pc, pending,                        \* position of the background thread
  menu_active, car_running,
  speed_debug_enable, direction_debug_enable, stop_enable,
  basic_speed, target_speed_saved, current_running_speed,
  target, direction_counter, driven,  \* state of motor.c and of the PWM
  start_state, elapsed, timeout_count,
  out_of_bounds_count,
  camera_oob, finish_flag, user_oob,  \* mt9v03x_image, its flag, user_image
  evidence                            \* history: age of user_image, see below

mainVars   == <<pc, pending>>
flagVars   == <<car_running, speed_debug_enable, direction_debug_enable>>
menuVars   == <<menu_active, stop_enable, basic_speed>>
rampVars   == <<target_speed_saved, current_running_speed, start_state>>
motorVars  == <<target, direction_counter, driven>>
imageVars  == <<user_oob, evidence>>
cameraVars == <<camera_oob, finish_flag>>

vars == <<mainVars, flagVars, menuVars, rampVars, motorVars, imageVars,
          cameraVars, elapsed, timeout_count, out_of_bounds_count>>

Wheel == {"left", "right"}

StartState == {"IDLE", "ALIGN", "ACCEL", "RUNNING"}

\* The statements of stop_car, in order.
StopPCs == {"stop_dir", "stop_left", "stop_right", "stop_speed",
            "stop_pwm_left", "stop_pwm_right", "stop_run", "stop_menu"}

\* The race branch of main's loop, before a stop is decided.
RunPCs == {"poll", "stamp", "frame", "clear", "detect"}

\* start_car, from its prompt to its last statement.
StartPCs == {"confirm", "save", "reset", "go", "arm"}

PCs == {"loop", "show", "menu_tail"} \cup StartPCs \cup RunPCs \cup StopPCs

\* Groups of stores that no call separates.
ResetStores == {"target_left", "target_right", "direction_counter"}
GoStores    == {"car_running", "speed_debug_enable", "direction_debug_enable"}

Goto(from, to) == pc = from /\ pc' = to

Capped(n, cap) == IF n > cap THEN cap ELSE n
NonNegative(n) == IF n < 0 THEN 0 ELSE n

Init ==
  /\ pc = "loop" /\ pending = {}
  /\ menu_active = TRUE
  /\ car_running = FALSE
  /\ speed_debug_enable = FALSE /\ direction_debug_enable = FALSE
  /\ stop_enable = TRUE
  /\ basic_speed \in Speeds
  /\ target_speed_saved = 0 /\ current_running_speed = 0
  /\ target = [w \in Wheel |-> 0] /\ direction_counter = 0 /\ driven = {}
  /\ start_state = "IDLE" /\ elapsed = 0 /\ timeout_count = 0
  /\ out_of_bounds_count = 0
  /\ camera_oob = FALSE /\ finish_flag = FALSE
  /\ user_oob = FALSE /\ evidence = "old"

-----------------------------------------------------------------------------
(***************************************************************************)
(* The PIT interrupt: pit0_ch0_isr and the motor_process it calls.         *)
(***************************************************************************)

Gate == car_running \/ direction_debug_enable \/ speed_debug_enable

\* Mutant of DirectionLoop: the counter is not cleared.
DirectionLoopKeepsCount ==
  /\ direction_counter' = direction_counter + 1
  /\ IF direction_counter + 1 >= 2
     THEN \E c \in [Wheel -> Steer] :
            target' = [w \in Wheel |->
                         NonNegative(current_running_speed + c[w])]
     ELSE UNCHANGED target

\* Mutant of DirectionLoop: the correction is added to the speed of the menu.
DirectionLoopBasicSpeed ==
  IF direction_counter + 1 >= 2
  THEN /\ direction_counter' = 0
       /\ \E c \in [Wheel -> Steer] :
            target' = [w \in Wheel |-> NonNegative(basic_speed + c[w])]
  ELSE /\ direction_counter' = direction_counter + 1
       /\ UNCHANGED target

\* The 10 ms direction loop: every second tick it sets both targets to the
\* running speed plus a correction, never below zero.
DirectionLoop ==
  IF direction_counter + 1 >= 2
  THEN /\ direction_counter' = 0
       /\ \E c \in [Wheel -> Steer] :
            target' = [w \in Wheel |->
                         NonNegative(current_running_speed + c[w])]
  ELSE /\ direction_counter' = direction_counter + 1
       /\ UNCHANGED target

\* Without the direction loop, the speed loop follows basic_speed.
SpeedDebug ==
  /\ target' = [w \in Wheel |-> basic_speed]
  /\ UNCHANGED direction_counter

\* The 5 ms speed loops: any duty may come out, zero included.
MotorProcess ==
  /\ \/ direction_debug_enable /\ DirectionLoop
     \/ ~direction_debug_enable /\ speed_debug_enable /\ SpeedDebug
     \/ /\ ~direction_debug_enable /\ ~speed_debug_enable
        /\ UNCHANGED <<target, direction_counter>>
  /\ driven' \in SUBSET Wheel

\* elapsed only matters, and only advances, while start_car_process uses it.
Tick ==
  /\ elapsed' = IF start_state = "IDLE" THEN elapsed
                ELSE Capped(elapsed + TickMs, ElapsedCap)
  /\ IF Gate THEN MotorProcess ELSE UNCHANGED motorVars
  /\ UNCHANGED <<mainVars, flagVars, menuVars, rampVars, imageVars,
                 cameraVars, timeout_count, out_of_bounds_count>>

(***************************************************************************)
(* The camera interrupt: camera_finish_callback copies the frame and sets  *)
(* the flag, whether or not the last one was looked at.                    *)
(***************************************************************************)
Frame ==
  /\ camera_oob' \in BOOLEAN
  /\ finish_flag' = TRUE
  /\ UNCHANGED <<mainVars, flagVars, menuVars, rampVars, motorVars, imageVars,
                 elapsed, timeout_count, out_of_bounds_count>>

-----------------------------------------------------------------------------
(***************************************************************************)
(* The menu branch of main's loop.  menu_process may change a parameter,   *)
(* show the image, or call start_car; everything else it does leaves the   *)
(* variables of this module alone (Other).                                 *)
(***************************************************************************)

MenuStep(next) == pc = "loop" /\ menu_active /\ pc' = next /\ UNCHANGED pending

MenuOther ==
  /\ MenuStep("menu_tail")
  /\ UNCHANGED <<flagVars, menuVars, rampVars, motorVars, imageVars,
                 cameraVars, elapsed, timeout_count, out_of_bounds_count>>

\* menu_edit_param on the two debug switches: stored at once, seen by the ISR.
MenuEditDebug ==
  /\ MenuStep("menu_tail")
  /\ \/ speed_debug_enable' \in BOOLEAN /\ UNCHANGED direction_debug_enable
     \/ direction_debug_enable' \in BOOLEAN /\ UNCHANGED speed_debug_enable
  /\ UNCHANGED <<car_running, menuVars, rampVars, motorVars, imageVars,
                 cameraVars, elapsed, timeout_count, out_of_bounds_count>>

\* Stop Enable, and the delayed update of basic_speed when its edit ends.
MenuEditParam ==
  /\ MenuStep("menu_tail")
  /\ \/ stop_enable' \in BOOLEAN /\ UNCHANGED basic_speed
     \/ basic_speed' \in Speeds /\ UNCHANGED stop_enable
  /\ UNCHANGED <<menu_active, flagVars, rampVars, motorVars, imageVars,
                 cameraVars, elapsed, timeout_count, out_of_bounds_count>>

\* image_process begins with get_image.  evidence tells, of the image that
\* user_image holds, whether it was copied before the last start ("old"),
\* after it ("new"), or has also been judged by stop_detection ("judged").
CopyImage == user_oob' = camera_oob /\ evidence' = "new"

\* menu_func_show_image: its own loop, which consumes the frames it shows.
ShowImage ==
  /\ MenuStep("show")
  /\ UNCHANGED <<flagVars, menuVars, rampVars, motorVars, imageVars,
                 cameraVars, elapsed, timeout_count, out_of_bounds_count>>

ShowFrame ==
  /\ pc = "show" /\ UNCHANGED pc
  /\ finish_flag /\ finish_flag' = FALSE
  /\ CopyImage
  /\ UNCHANGED <<pending, flagVars, menuVars, rampVars, motorVars, camera_oob,
                 elapsed, timeout_count, out_of_bounds_count>>

ShowExit ==
  /\ Goto("show", "menu_tail")
  /\ UNCHANGED <<pending, flagVars, menuVars, rampVars, motorVars, imageVars,
                 cameraVars, elapsed, timeout_count, out_of_bounds_count>>

\* Mutant of MenuTail: the image is left to the race loop.
MenuTailWithoutImage ==
  /\ Goto("menu_tail", "loop") /\ UNCHANGED imageVars
  /\ UNCHANGED <<pending, flagVars, menuVars, rampVars, motorVars, cameraVars,
                 elapsed, timeout_count, out_of_bounds_count>>

\* The loop's second statement: the direction debug mode needs the image.
\* It also runs when menu_process has just started the car.
MenuTail ==
  /\ Goto("menu_tail", "loop")
  /\ IF direction_debug_enable THEN CopyImage ELSE UNCHANGED imageVars
  /\ UNCHANGED <<pending, flagVars, menuVars, rampVars, motorVars, cameraVars,
                 elapsed, timeout_count, out_of_bounds_count>>

-----------------------------------------------------------------------------
(***************************************************************************)
(* start_car                                                               *)
(***************************************************************************)

StartCar ==
  /\ MenuStep("confirm")
  /\ timeout_count' = 0
  /\ UNCHANGED <<flagVars, menuVars, rampVars, motorVars, imageVars,
                 cameraVars, elapsed, out_of_bounds_count>>

\* KEY3 may be pressed again at any of the polls, or at none.
Confirm ==
  /\ pc = "confirm" /\ timeout_count < ConfirmPolls
  /\ \/ pc' = "save" /\ UNCHANGED timeout_count
     \/ UNCHANGED pc /\ timeout_count' = timeout_count + 1
  /\ UNCHANGED <<pending, flagVars, menuVars, rampVars, motorVars, imageVars,
                 cameraVars, elapsed, out_of_bounds_count>>

\* Mutant of Cancel: the cancellation waits for one poll more than there is.
CancelLate ==
  /\ Goto("confirm", "menu_tail") /\ timeout_count > ConfirmPolls
  /\ UNCHANGED <<pending, flagVars, menuVars, rampVars, motorVars, imageVars,
                 cameraVars, elapsed, timeout_count, out_of_bounds_count>>

Cancel ==
  /\ Goto("confirm", "menu_tail") /\ timeout_count = ConfirmPolls
  /\ UNCHANGED <<pending, flagVars, menuVars, rampVars, motorVars, imageVars,
                 cameraVars, elapsed, timeout_count, out_of_bounds_count>>

\* Mutant of SaveTarget: the speed of the last race is kept.
SaveTargetKeepsSpeed ==
  /\ Goto("save", "reset") /\ pending' = ResetStores
  /\ target_speed_saved' = basic_speed
  /\ evidence' = "old"
  /\ UNCHANGED <<flagVars, menuVars, start_state, current_running_speed,
                 motorVars, user_oob, cameraVars, elapsed, timeout_count,
                 out_of_bounds_count>>

\* What is in user_image from here on is old until it is copied again.
SaveTarget ==
  /\ Goto("save", "reset") /\ pending' = ResetStores
  /\ target_speed_saved' = basic_speed
  /\ current_running_speed' = 0
  /\ evidence' = "old"
  /\ UNCHANGED <<flagVars, menuVars, start_state, motorVars, user_oob,
                 cameraVars, elapsed, timeout_count, out_of_bounds_count>>

\* The store of motor_reset that clears the target of a wheel.
StoreOf(w) == IF w = "left" THEN "target_left" ELSE "target_right"

\* motor_reset: what it clears in this module, in any order.
MotorReset ==
  /\ pc = "reset" /\ UNCHANGED pc
  /\ \E store \in pending :
       /\ pending' = pending \ {store}
       /\ target' = [w \in Wheel |->
                       IF store = StoreOf(w) THEN 0 ELSE target[w]]
       /\ direction_counter' =
            IF store = "direction_counter" THEN 0 ELSE direction_counter
  /\ UNCHANGED <<driven, flagVars, menuVars, rampVars, imageVars, cameraVars,
                 elapsed, timeout_count, out_of_bounds_count>>

ResetDone ==
  /\ Goto("reset", "go") /\ pending = {} /\ pending' = GoStores
  /\ UNCHANGED <<flagVars, menuVars, rampVars, motorVars, imageVars,
                 cameraVars, elapsed, timeout_count, out_of_bounds_count>>

\* Mutant of Go: the direction loop is not enabled.
GoWithoutDirection ==
  /\ pc = "go" /\ UNCHANGED <<pc, direction_debug_enable>>
  /\ \E store \in pending :
       /\ pending' = pending \ {store}
       /\ car_running' = (store = "car_running" \/ car_running)
       /\ speed_debug_enable' =
            (store = "speed_debug_enable" \/ speed_debug_enable)
  /\ UNCHANGED <<menuVars, rampVars, motorVars, imageVars, cameraVars,
                 elapsed, timeout_count, out_of_bounds_count>>

\* The three flags that open the motor gate, in any order.
Go ==
  /\ pc = "go" /\ UNCHANGED pc
  /\ \E store \in pending :
       /\ pending' = pending \ {store}
       /\ car_running' = (store = "car_running" \/ car_running)
       /\ speed_debug_enable' =
            (store = "speed_debug_enable" \/ speed_debug_enable)
       /\ direction_debug_enable' =
            (store = "direction_debug_enable" \/ direction_debug_enable)
  /\ UNCHANGED <<menuVars, rampVars, motorVars, imageVars, cameraVars,
                 elapsed, timeout_count, out_of_bounds_count>>

GoDone ==
  /\ Goto("go", "arm") /\ pending = {} /\ UNCHANGED pending
  /\ UNCHANGED <<flagVars, menuVars, rampVars, motorVars, imageVars,
                 cameraVars, elapsed, timeout_count, out_of_bounds_count>>

\* menu_exit, then the start state machine; back in main, after menu_process.
Arm ==
  /\ Goto("arm", "menu_tail") /\ UNCHANGED pending
  /\ menu_active' = FALSE
  /\ start_state' = "ALIGN" /\ elapsed' = 0
  /\ UNCHANGED <<stop_enable, basic_speed, flagVars, target_speed_saved,
                 current_running_speed, motorVars, imageVars, cameraVars,
                 timeout_count, out_of_bounds_count>>

-----------------------------------------------------------------------------
(***************************************************************************)
(* The race branch of main's loop: start_car_process, the new image if     *)
(* there is one, stop_detection.                                           *)
(***************************************************************************)

RaceLoop ==
  /\ Goto("loop", "poll") /\ ~menu_active
  /\ UNCHANGED <<pending, flagVars, menuVars, rampVars, motorVars, imageVars,
                 cameraVars, elapsed, timeout_count, out_of_bounds_count>>

\* One call of start_car_process, up to the reset of the time stamp.
Poll(state) == pc = "poll" /\ start_state = state

PollFrame == /\ UNCHANGED <<pending, flagVars, menuVars, target_speed_saved,
                            motorVars, imageVars, cameraVars, elapsed,
                            timeout_count, out_of_bounds_count>>

PollIdle ==
  /\ Poll("IDLE") /\ pc' = "frame"
  /\ UNCHANGED <<current_running_speed, start_state>> /\ PollFrame

\* Mutant of PollAlign: the time is stamped on every poll.
PollAlignRestamps ==
  /\ Poll("ALIGN") /\ current_running_speed' = 0
  /\ start_state' = IF elapsed >= PhaseMs THEN "ACCEL" ELSE "ALIGN"
  /\ pc' = "stamp"
  /\ PollFrame

PollAlign ==
  /\ Poll("ALIGN") /\ current_running_speed' = 0
  /\ \/ elapsed >= PhaseMs /\ start_state' = "ACCEL" /\ pc' = "stamp"
     \/ elapsed < PhaseMs /\ UNCHANGED start_state /\ pc' = "frame"
  /\ PollFrame

\* Mutant of RampSpeed: accel_ratio is not limited.
RampUnlimited(s, e) == Ramp(s, e)

\* accel_ratio is limited to 1 before it is used.
RampSpeed(s, e) == Ramp(s, Capped(e, PhaseMs))

PollAccel ==
  /\ Poll("ACCEL")
  /\ current_running_speed' = RampSpeed(target_speed_saved, elapsed)
  /\ \/ elapsed >= PhaseMs /\ start_state' = "RUNNING" /\ pc' = "stamp"
     \/ elapsed < PhaseMs /\ UNCHANGED start_state /\ pc' = "frame"
  /\ PollFrame

PollRunning ==
  /\ Poll("RUNNING") /\ current_running_speed' = target_speed_saved
  /\ start_state' = "IDLE" /\ pc' = "frame" /\ PollFrame

\* start_timestamp = system_time_ms, read again after the test above.
Stamp ==
  /\ Goto("stamp", "frame") /\ elapsed' = 0
  /\ UNCHANGED <<pending, flagVars, menuVars, rampVars, motorVars, imageVars,
                 cameraVars, timeout_count, out_of_bounds_count>>

ProcessImage ==
  /\ Goto("frame", "clear") /\ finish_flag /\ CopyImage
  /\ UNCHANGED <<pending, flagVars, menuVars, rampVars, motorVars, cameraVars,
                 elapsed, timeout_count, out_of_bounds_count>>

\* The flag is cleared after the processing: a frame that has arrived in the
\* meantime is forgotten.
ClearFlag ==
  /\ Goto("clear", "detect") /\ finish_flag' = FALSE
  /\ UNCHANGED <<pending, flagVars, menuVars, rampVars, motorVars, imageVars,
                 camera_oob, elapsed, timeout_count, out_of_bounds_count>>

NoImage ==
  /\ Goto("frame", "detect") /\ ~finish_flag
  /\ UNCHANGED <<pending, flagVars, menuVars, rampVars, motorVars, imageVars,
                 cameraVars, elapsed, timeout_count, out_of_bounds_count>>

-----------------------------------------------------------------------------
(***************************************************************************)
(* stop_detection and stop_car                                             *)
(***************************************************************************)

Judge == evidence' = IF evidence = "new" THEN "judged" ELSE evidence

\* Mutant of StopDetection: an image with a track does not clear the count.
StopDetectionAccumulates ==
  /\ pc = "detect"
  /\ \/ /\ car_running /\ stop_enable /\ user_oob
        /\ out_of_bounds_count' = out_of_bounds_count + 1
        /\ pc' = IF out_of_bounds_count' >= Threshold THEN "stop_dir"
                                                      ELSE "loop"
        /\ Judge
     \/ /\ ~(car_running /\ stop_enable /\ user_oob)
        /\ UNCHANGED out_of_bounds_count /\ pc' = "loop"
        /\ IF car_running /\ stop_enable THEN Judge ELSE UNCHANGED evidence
  /\ UNCHANGED <<pending, flagVars, menuVars, rampVars, motorVars, user_oob,
                 cameraVars, elapsed, timeout_count>>

\* Mutant of StopDetection: the track is watched in the running state only, which
\* the start sequence leaves in the turn after it has come to it.
StopDetectionRunning ==
  /\ pc = "detect"
  /\ \/ /\ car_running /\ stop_enable /\ user_oob /\ start_state = "RUNNING"
        /\ out_of_bounds_count' = out_of_bounds_count + 1
        /\ pc' = IF out_of_bounds_count' >= Threshold THEN "stop_dir"
                                                      ELSE "loop"
        /\ Judge
     \/ /\ ~(car_running /\ stop_enable /\ user_oob /\ start_state = "RUNNING")
        /\ out_of_bounds_count' = 0 /\ pc' = "loop"
        /\ IF car_running /\ stop_enable THEN Judge ELSE UNCHANGED evidence
  /\ UNCHANGED <<pending, flagVars, menuVars, rampVars, motorVars, user_oob,
                 cameraVars, elapsed, timeout_count>>

StopDetection ==
  /\ pc = "detect"
  /\ \/ /\ car_running /\ stop_enable /\ user_oob
        /\ out_of_bounds_count' = out_of_bounds_count + 1
        /\ pc' = IF out_of_bounds_count' >= Threshold THEN "stop_dir"
                                                      ELSE "loop"
        /\ Judge
     \/ /\ ~(car_running /\ stop_enable /\ user_oob)
        /\ out_of_bounds_count' = 0 /\ pc' = "loop"
        /\ IF car_running /\ stop_enable THEN Judge ELSE UNCHANGED evidence
  /\ UNCHANGED <<pending, flagVars, menuVars, rampVars, motorVars, user_oob,
                 cameraVars, elapsed, timeout_count>>

StopFrame == UNCHANGED <<pending, stop_enable, basic_speed, rampVars,
                         direction_counter, imageVars, cameraVars, elapsed,
                         timeout_count>>

StopDirection ==
  /\ Goto("stop_dir", "stop_left") /\ direction_debug_enable' = FALSE
  /\ UNCHANGED <<car_running, speed_debug_enable, menu_active, target, driven,
                 out_of_bounds_count>> /\ StopFrame

StopTarget(from, w, to) ==
  /\ Goto(from, to) /\ target' = [target EXCEPT ![w] = 0]
  /\ UNCHANGED <<flagVars, menu_active, driven, out_of_bounds_count>>
  /\ StopFrame

StopSpeedLoop ==
  /\ Goto("stop_speed", "stop_pwm_left") /\ speed_debug_enable' = FALSE
  /\ UNCHANGED <<car_running, direction_debug_enable, menu_active, target,
                 driven, out_of_bounds_count>> /\ StopFrame

StopPwm(from, w, to) ==
  /\ Goto(from, to) /\ driven' = driven \ {w}
  /\ UNCHANGED <<flagVars, menu_active, target, out_of_bounds_count>>
  /\ StopFrame

StopRunning ==
  /\ Goto("stop_run", "stop_menu") /\ car_running' = FALSE
  /\ UNCHANGED <<speed_debug_enable, direction_debug_enable, menu_active,
                 target, driven, out_of_bounds_count>> /\ StopFrame

\* menu_example_enter; back in stop_detection, the counter is cleared.
StopMenu ==
  /\ Goto("stop_menu", "loop") /\ menu_active' = TRUE
  /\ out_of_bounds_count' = 0
  /\ UNCHANGED <<flagVars, target, driven>> /\ StopFrame

StopCar ==
  \/ StopDirection
  \/ StopTarget("stop_left", "left", "stop_right")
  \/ StopTarget("stop_right", "right", "stop_speed")
  \/ StopSpeedLoop
  \/ StopPwm("stop_pwm_left", "left", "stop_pwm_right")
  \/ StopPwm("stop_pwm_right", "right", "stop_run")
  \/ StopRunning
  \/ StopMenu

-----------------------------------------------------------------------------

Menu  == MenuOther \/ MenuEditDebug \/ MenuEditParam \/ ShowImage
         \/ ShowFrame \/ ShowExit \/ StartCar
Start == Confirm \/ Cancel \/ SaveTarget \/ MotorReset \/ ResetDone \/ Go
         \/ GoDone \/ Arm
Race  == RaceLoop \/ PollIdle \/ PollAlign \/ PollAccel \/ PollRunning
         \/ Stamp \/ ProcessImage \/ ClearFlag \/ NoImage \/ StopDetection

Main == Menu \/ MenuTail \/ Start \/ Race \/ StopCar

Next == Main \/ Tick \/ Frame

Spec == Init /\ [][Next]_vars

(***************************************************************************)
(* The processor never stops running the background thread, the timer      *)
(* never stops interrupting it, and a camera that works delivers another   *)
(* frame sooner or later.  What the user does in the menu is under no      *)
(* fairness condition beyond that of the thread.                           *)
(***************************************************************************)
Fairness == WF_vars(Main) /\ WF_vars(Tick) /\ WF_vars(Frame /\ ~finish_flag)

FairSpec == Spec /\ Fairness

-----------------------------------------------------------------------------
(***************************************************************************)
(* Properties                                                              *)
(***************************************************************************)

\* The car is under way: started, and no stop has been decided.
UnderWay == pc \in RunPCs \/ (pc = "loop" /\ ~menu_active)

Stopping == pc \in StopPCs

\* Every variable has its type.
TypeOK ==
  /\ pc \in PCs /\ pending \subseteq ResetStores \cup GoStores
  /\ menu_active \in BOOLEAN /\ car_running \in BOOLEAN
  /\ speed_debug_enable \in BOOLEAN /\ direction_debug_enable \in BOOLEAN
  /\ stop_enable \in BOOLEAN
  /\ basic_speed \in Speeds
  /\ target_speed_saved \in Speeds \cup {0}
  /\ current_running_speed \in Int
  /\ target \in [Wheel -> Int] /\ direction_counter \in 0 .. 1
  /\ driven \subseteq Wheel
  /\ start_state \in StartState /\ elapsed \in 0 .. ElapsedCap
  /\ timeout_count \in 0 .. ConfirmPolls
  /\ out_of_bounds_count \in 0 .. Threshold
  /\ camera_oob \in BOOLEAN /\ finish_flag \in BOOLEAN
  /\ user_oob \in BOOLEAN /\ evidence \in {"old", "new", "judged"}

\* Whenever the race loop runs, the motor gate is open through all three
\* flags: the direction loop, and not the speed debug mode, steers the car,
\* whatever the user left in the debug switches before the start.
RaceOpensTheGate ==
  UnderWay => car_running /\ speed_debug_enable /\ direction_debug_enable

\* The running speed obeys the start sequence: zero while the car aligns,
\* then between zero and the basic_speed shown in the menu when the car was
\* started, and exactly that speed once the sequence is over.
SpeedFollowsStart ==
  UnderWay =>
    /\ target_speed_saved = basic_speed
    /\ start_state = "ALIGN" => current_running_speed = 0
    /\ Within(current_running_speed, target_speed_saved)
    /\ start_state \in {"RUNNING", "IDLE"}
         => current_running_speed = target_speed_saved

\* stop_detection never judges an image copied before this start: a stop of
\* the last race cannot stop the next one.  It relies on the statement after
\* menu_process, which looks at a flag that start_car has just set.
EvidenceIsOfThisRace == pc \in {"poll", "detect"} => evidence # "old"

\* The car stops on its own only with Stop Enable on, out of bounds in the
\* image held at that moment, Threshold verdicts in a row; and no verdict of
\* one race is still counted in the menu or in the next race.
StopIsJustified ==
  /\ Stopping => /\ stop_enable /\ user_oob /\ evidence = "judged"
                  /\ out_of_bounds_count = Threshold
  /\ menu_active /\ ~Stopping => out_of_bounds_count = 0
  /\ UnderWay => out_of_bounds_count < Threshold
  /\ UnderWay /\ out_of_bounds_count > 0
       => stop_enable /\ (evidence = "judged" => user_oob)

\* Two ticks after start_car has armed the start, the aligning car turns on
\* the spot: the full speed that the speed loop sets in a tick between the
\* stores of the three flags (control.c:111-113) does not last longer, nor do
\* the targets of the debug modes or of the last race.
OnTheSpot == \A w \in Wheel : \E c \in Steer : target[w] = NonNegative(c)

AlignsAfterTwoTicks ==
  UnderWay /\ start_state = "ALIGN" /\ elapsed >= 2 * TickMs => OnTheSpot

\* Seen through the mode, the chosen speed and the running speed, starting and
\* stopping is the CarMode machine: the phases come in order, the speed only
\* rises, and a race stopped in the middle of its start leaves nothing behind
\* that the next start could resume from.
Phase == [s \in StartState |->
            CASE s = "ALIGN" -> "align" [] s = "ACCEL" -> "accelerate"
              [] s \in {"RUNNING", "IDLE"} -> "cruise"]

Mode == INSTANCE CarMode WITH
          mode  <- IF menu_active THEN "menu" ELSE Phase[start_state],
          goal  <- IF menu_active THEN 0 ELSE target_speed_saved,
          speed <- IF menu_active THEN 0 ELSE current_running_speed

StartsAndStopsInOrder == Mode!Spec

\* A car that stays off the track is stopped, if the user left the detection
\* on: the frames lost between the processing and the clearing of the flag do
\* not hide it for ever.
LostCarStops == []<>~(car_running /\ stop_enable /\ camera_oob)

\* A start that is confirmed reaches full speed or is stopped.
StartCompletes == pc = "save" ~> (UnderWay /\ start_state = "IDLE") \/ Stopping

\* start_car gives the loop back, confirmed or not.
PromptEnds == pc = "confirm" ~> pc = "loop"

-----------------------------------------------------------------------------
(***************************************************************************)
(* What the comments of the code say and its behaviours do not.            *)
(***************************************************************************)

\* control.c:206: the PWM is zero, for good, when stop_car has written it.
PwmZeroWhenStopped == pc = "stop_menu" => driven = {}

\* control.c:236: it is on N frames in a row that the stop is decided.
EachFrameCountsOnce ==
  [][out_of_bounds_count' > out_of_bounds_count => evidence = "new"]_vars

\* control.c:147: in the align state the car turns on the spot: the wheels
\* are given no more than a correction.
AlignOnTheSpot ==
  UnderWay /\ start_state = "ALIGN" =>
    \A w \in Wheel : \E c \in Steer : target[w] <= NonNegative(c)

=============================================================================
