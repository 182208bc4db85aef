-------------------------- MODULE CarControl_proofs -------------------------
(***************************************************************************)
(* Proofs about CarControl, for every value of its constants.              *)
(***************************************************************************)
EXTENDS CarControl, TLAPS

(***************************************************************************)
(* Ramp arithmetic.                                                        *)
(***************************************************************************)

\* A speed of the menu and zero are integers, and Ramp is one too.
LEMMA RampType ==
  ASSUME NEW s \in Speeds, NEW e \in 0 .. ElapsedCap
  PROVE  /\ RampSpeed(s, e) \in Int
         /\ Within(RampSpeed(s, e), s)
         /\ e >= PhaseMs => RampSpeed(s, e) = s
<1>1. Capped(e, PhaseMs) \in 0 .. PhaseMs
  BY TimeAssumption DEF Capped
<1>2. Ramp(s, Capped(e, PhaseMs)) \in Int /\ Within(Ramp(s, Capped(e, PhaseMs)), s)
  BY <1>1, RampAssumption
<1>3. ASSUME e >= PhaseMs PROVE Ramp(s, Capped(e, PhaseMs)) = s
  <2>1. Capped(e, PhaseMs) = PhaseMs
    BY <1>3, TimeAssumption DEF Capped
  <2> QED BY <2>1, <1>1, RampAssumption
<1> QED BY <1>2, <1>3 DEF RampSpeed

\* The ramp grows with the elapsed time.
LEMMA RampGrows ==
  ASSUME NEW s \in Speeds, NEW d \in 0 .. ElapsedCap, NEW e \in 0 .. ElapsedCap,
         d <= e
  PROVE  Within(RampSpeed(s, d), RampSpeed(s, e))
<1>1. /\ Capped(d, PhaseMs) \in 0 .. Capped(e, PhaseMs)
      /\ Capped(e, PhaseMs) \in 0 .. PhaseMs
  BY TimeAssumption DEF Capped
<1> QED BY <1>1, RampAssumption DEF RampSpeed

\* Within is transitive, and zero is within everything.
LEMMA WithinFacts ==
  ASSUME NEW a \in Int, NEW b \in Int, NEW c \in Int
  PROVE  /\ Within(a, b) /\ Within(b, c) => Within(a, c)
         /\ Within(0, a) /\ Within(a, a)
         /\ Within(a, 0) => a = 0
BY DEF Within

\* A corrected speed, cut at zero, is a natural number.
LEMMA NonNegativeType ==
  ASSUME NEW a \in Int, NEW b \in Int
  PROVE  NonNegative(a + b) \in Nat
BY DEF NonNegative

-----------------------------------------------------------------------------
(***************************************************************************)
(* The inductive invariant.                                                *)
(***************************************************************************)

\* Where the thread is, and whether the menu is active.
PlaceInv ==
  /\ pc \in StartPCs \cup {"show"} => menu_active
  /\ pc \in RunPCs \cup StopPCs => ~menu_active

\* The race proper: started, its last statement of start_car executed, and no
\* stop decided.
Racing == ~menu_active /\ ~Stopping

\* start_car has stored the flags of the gate when it leaves, one by one.
FlagsInv ==
  /\ pc = "go" => /\ "car_running" \in pending \/ car_running
                  /\ "speed_debug_enable" \in pending \/ speed_debug_enable
                  /\ "direction_debug_enable" \in pending
                       \/ direction_debug_enable
  /\ pc = "arm" \/ Racing => /\ car_running
                             /\ speed_debug_enable /\ direction_debug_enable

\* The running speed while the car starts: what start_car has prepared, then
\* what the ramp allows at the present elapsed time.
SpeedInv ==
  /\ pc \in {"reset", "go", "arm"} \/ ~menu_active
       => target_speed_saved = basic_speed
  /\ pc \in {"reset", "go", "arm"} => current_running_speed = 0
  /\ ~menu_active =>
       /\ Within(current_running_speed, target_speed_saved)
       /\ start_state = "ALIGN" => current_running_speed = 0
       /\ start_state = "ACCEL" =>
            Within(current_running_speed, RampSpeed(target_speed_saved, elapsed))
       /\ start_state = "ACCEL" /\ pc = "stamp" => current_running_speed = 0
       /\ start_state \in {"RUNNING", "IDLE"}
            => current_running_speed = target_speed_saved
  /\ pc = "stamp" => start_state \in {"ACCEL", "RUNNING"}

\* The image of a race was copied in it, but for the tail of the menu turn
\* that started it.
EvidenceInv == ~menu_active /\ pc # "menu_tail" => evidence # "old"

\* The verdicts that are counted.
CountInv ==
  /\ menu_active => out_of_bounds_count = 0
  /\ Racing => /\ out_of_bounds_count < Threshold
               /\ out_of_bounds_count > 0
                    => stop_enable /\ (evidence = "judged" => user_oob)
  /\ Stopping => /\ stop_enable /\ user_oob /\ evidence = "judged"
                 /\ out_of_bounds_count = Threshold

IInv == TypeOK /\ PlaceInv /\ FlagsInv /\ SpeedInv /\ EvidenceInv /\ CountInv

-----------------------------------------------------------------------------
(***************************************************************************)
(* Type correctness.                                                       *)
(***************************************************************************)

\* One interrupt of the PIT keeps the types.
LEMMA TickType == TypeOK /\ Tick => TypeOK'
<1> SUFFICES ASSUME TypeOK, Tick PROVE TypeOK'
  OBVIOUS
<1>1. elapsed' \in 0 .. ElapsedCap
  BY TimeAssumption DEF TypeOK, Tick, Capped
<1>2. /\ target' \in [Wheel -> Int] /\ direction_counter' \in 0 .. 1
      /\ driven' \subseteq Wheel
  <2>1. CASE Gate
    <3>1. MotorProcess
      BY <2>1 DEF Tick
    <3>2. driven' \subseteq Wheel
      BY <3>1 DEF MotorProcess
    <3>3. CASE direction_debug_enable
      <4>1. DirectionLoop
        BY <3>1, <3>3 DEF MotorProcess
      <4>2. CASE direction_counter + 1 >= 2
        <5>1. PICK c \in [Wheel -> Steer] :
                target' = [w \in Wheel |-> NonNegative(current_running_speed + c[w])]
          BY <4>1, <4>2 DEF DirectionLoop
        <5>2. \A w \in Wheel : NonNegative(current_running_speed + c[w]) \in Int
          <6> TAKE w \in Wheel
          <6>1. c[w] \in Steer
            OBVIOUS
          <6>2. c[w] \in Int
            BY <6>1, SteerAssumption
          <6>3. current_running_speed \in Int
            BY DEF TypeOK
          <6> QED BY <6>2, <6>3, NonNegativeType
        <5> QED BY <5>1, <5>2, <4>1, <4>2, <3>2 DEF DirectionLoop
      <4>3. CASE ~(direction_counter + 1 >= 2)
        BY <4>1, <4>3, <3>2 DEF DirectionLoop, TypeOK
      <4> QED BY <4>2, <4>3
    <3>4. CASE ~direction_debug_enable /\ speed_debug_enable
      <4>1. SpeedDebug
        BY <3>1, <3>4 DEF MotorProcess
      <4> QED BY <4>1, <3>2, SpeedsAssumption DEF SpeedDebug, TypeOK
    <3>5. CASE ~direction_debug_enable /\ ~speed_debug_enable
      BY <3>1, <3>2, <3>5 DEF MotorProcess, TypeOK
    <3> QED BY <3>3, <3>4, <3>5
  <2>2. CASE ~Gate
    BY <2>2 DEF Tick, motorVars, TypeOK
  <2> QED BY <2>1, <2>2
<1> QED
  BY <1>1, <1>2 DEF Tick, TypeOK, mainVars, flagVars, menuVars, rampVars,
                    imageVars, cameraVars

\* The menu, a start and a race keep the types.
LEMMA MenuType == TypeOK /\ (Menu \/ MenuTail) => TypeOK'
<1> SUFFICES ASSUME TypeOK, Menu \/ MenuTail PROVE TypeOK'
  OBVIOUS
<1> USE DEF TypeOK, PCs, StartPCs, MenuStep, Goto, mainVars, flagVars, menuVars,
            rampVars, motorVars, imageVars, cameraVars
<1>1. CASE MenuOther
  BY <1>1 DEF MenuOther
<1>2. CASE MenuEditDebug
  BY <1>2 DEF MenuEditDebug
<1>3. CASE MenuEditParam
  BY <1>3 DEF MenuEditParam
<1>4. CASE ShowImage
  BY <1>4 DEF ShowImage
<1>5. CASE ShowFrame
  BY <1>5 DEF ShowFrame, CopyImage
<1>6. CASE ShowExit
  BY <1>6 DEF ShowExit
<1>7. CASE StartCar
  BY <1>7, CountAssumption DEF StartCar
<1>8. CASE MenuTail
  BY <1>8 DEF MenuTail, CopyImage
<1> QED BY <1>1, <1>2, <1>3, <1>4, <1>5, <1>6, <1>7, <1>8 DEF Menu

\* A pass of start_car keeps the types: delays, aligning, the arming stores.
LEMMA StartType == TypeOK /\ Start => TypeOK'
<1> SUFFICES ASSUME TypeOK, Start PROVE TypeOK'
  OBVIOUS
<1> USE DEF TypeOK, PCs, StartPCs, Goto, mainVars, flagVars, menuVars,
            rampVars, motorVars, imageVars, cameraVars
<1>1. CASE Confirm
  BY <1>1, CountAssumption DEF Confirm
<1>2. CASE Cancel
  BY <1>2 DEF Cancel
<1>3. CASE SaveTarget
  BY <1>3 DEF SaveTarget
<1>4. CASE MotorReset
  <2>1. target' \in [Wheel -> Int] /\ direction_counter' \in 0 .. 1
    BY <1>4 DEF MotorReset
  <2>2. pending' \subseteq ResetStores \cup GoStores
    BY <1>4 DEF MotorReset
  <2> QED BY <1>4, <2>1, <2>2 DEF MotorReset
<1>5. CASE ResetDone
  BY <1>5 DEF ResetDone
<1>6. CASE Go
  BY <1>6 DEF Go
<1>7. CASE GoDone
  BY <1>7 DEF GoDone
<1>8. CASE Arm
  <2>1. elapsed' \in 0 .. ElapsedCap
    BY <1>8, TimeAssumption DEF Arm
  <2>2. start_state' \in StartState
    BY <1>8 DEF Arm, StartState
  <2> QED BY <1>8, <2>1, <2>2 DEF Arm
<1> QED BY <1>1, <1>2, <1>3, <1>4, <1>5, <1>6, <1>7, <1>8 DEF Start

\* A pass of stop_car keeps the types: braking, flags, waits, the menu.
LEMMA StopType == TypeOK /\ StopCar => TypeOK'
<1> SUFFICES ASSUME TypeOK, StopCar PROVE TypeOK'
  OBVIOUS
<1> USE DEF TypeOK, PCs, StopPCs, Goto, StopFrame, flagVars, rampVars,
            imageVars, cameraVars
<1>1. CASE StopDirection
  <2>1. pc' \in PCs /\ direction_debug_enable' \in BOOLEAN
    BY <1>1 DEF StopDirection
  <2> QED BY <1>1, <2>1 DEF StopDirection
<1>2. CASE StopTarget("stop_left", "left", "stop_right")
  <2>1. target' \in [Wheel -> Int]
    BY <1>2 DEF StopTarget, Wheel
  <2> QED BY <1>2, <2>1 DEF StopTarget
<1>3. CASE StopTarget("stop_right", "right", "stop_speed")
  <2>1. target' \in [Wheel -> Int]
    BY <1>3 DEF StopTarget, Wheel
  <2> QED BY <1>3, <2>1 DEF StopTarget
<1>4. CASE StopSpeedLoop
  <2>1. pc' \in PCs /\ speed_debug_enable' \in BOOLEAN
    BY <1>4 DEF StopSpeedLoop
  <2> QED BY <1>4, <2>1 DEF StopSpeedLoop
<1>5. CASE StopPwm("stop_pwm_left", "left", "stop_pwm_right")
  BY <1>5 DEF StopPwm
<1>6. CASE StopPwm("stop_pwm_right", "right", "stop_run")
  BY <1>6 DEF StopPwm
<1>7. CASE StopRunning
  BY <1>7 DEF StopRunning
<1>8. CASE StopMenu
  BY <1>8, CountAssumption DEF StopMenu
<1> QED BY <1>1, <1>2, <1>3, <1>4, <1>5, <1>6, <1>7, <1>8 DEF StopCar

\* A pass of the race loop keeps the types; its ramp needs where it is called
\* from and what speed was saved.
LEMMA RaceType ==
  TypeOK /\ PlaceInv /\ SpeedInv /\ CountInv /\ Race => TypeOK'
<1> SUFFICES ASSUME TypeOK, PlaceInv, SpeedInv, CountInv, Race PROVE TypeOK'
  OBVIOUS
<1> USE DEF TypeOK, PCs, RunPCs, StopPCs, Goto, PollFrame, Poll, mainVars,
            flagVars, menuVars, rampVars, motorVars, imageVars, cameraVars
<1>1. CASE RaceLoop
  BY <1>1 DEF RaceLoop
<1>2. CASE PollIdle
  BY <1>2 DEF PollIdle
<1>3. CASE PollAlign
  BY <1>3 DEF PollAlign, StartState
<1>4. CASE PollAccel
  <2>1. target_speed_saved \in Speeds
    BY <1>4 DEF PollAccel, PlaceInv, SpeedInv
  <2>2. RampSpeed(target_speed_saved, elapsed) \in Int
    BY <2>1, RampType
  <2>3. start_state' \in StartState
    BY <1>4 DEF PollAccel, StartState
  <2> QED BY <1>4, <2>2, <2>3 DEF PollAccel
<1>5. CASE PollRunning
  BY <1>5, SpeedsAssumption DEF PollRunning, StartState
<1>6. CASE Stamp
  BY <1>6, TimeAssumption DEF Stamp
<1>7. CASE ProcessImage
  BY <1>7 DEF ProcessImage, CopyImage
<1>8. CASE ClearFlag
  BY <1>8 DEF ClearFlag
<1>9. CASE NoImage
  BY <1>9 DEF NoImage
<1>10. CASE StopDetection
  <2>1. evidence' \in {"old", "new", "judged"}
    BY <1>10 DEF StopDetection, Judge
  <2>2. out_of_bounds_count < Threshold
    BY <1>10 DEF StopDetection, PlaceInv, CountInv, Racing, Stopping
  <2>3. out_of_bounds_count' \in 0 .. Threshold
    BY <1>10, <2>2, CountAssumption DEF StopDetection
  <2> QED BY <1>10, <2>1, <2>3 DEF StopDetection
<1> QED BY <1>1, <1>2, <1>3, <1>4, <1>5, <1>6, <1>7, <1>8, <1>9, <1>10
        DEF Race

\* The types are kept by every step of a state in which the whole invariant
\* holds (the count and the ramp are in range for reasons other than types).
LEMMA TypeStep == IInv /\ [Next]_vars => TypeOK'
<1> SUFFICES ASSUME IInv, [Next]_vars PROVE TypeOK'
  OBVIOUS
<1>1. CASE Main
  BY <1>1, MenuType, StartType, RaceType, StopType DEF Main, IInv
<1>2. CASE Tick
  BY <1>2, TickType DEF IInv
<1>3. CASE Frame
  BY <1>3 DEF Frame, IInv, TypeOK, mainVars, flagVars, menuVars, rampVars,
              motorVars, imageVars
<1>4. CASE UNCHANGED vars
  BY <1>4 DEF vars, IInv, TypeOK, mainVars, flagVars, menuVars, rampVars,
              motorVars, imageVars, cameraVars
<1> QED BY <1>1, <1>2, <1>3, <1>4 DEF Next

-----------------------------------------------------------------------------
(***************************************************************************)
(* The parts of the inductive invariant, each kept by every action.        *)
(***************************************************************************)

\* The thread and menu_active agree after every step.
LEMMA PlaceStep == IInv /\ [Next]_vars => PlaceInv'
<1> SUFFICES ASSUME PlaceInv, [Next]_vars PROVE PlaceInv'
  BY DEF IInv
<1> USE DEF mainVars, flagVars, menuVars, rampVars, motorVars, imageVars,
            cameraVars, MenuStep, Goto, Poll, PollFrame, StopFrame, Racing, Stopping,
            StartPCs, RunPCs, StopPCs,
            PlaceInv
<1>1. CASE MenuOther
  BY <1>1 DEF MenuOther
<1>2. CASE MenuEditDebug
  BY <1>2 DEF MenuEditDebug
<1>3. CASE MenuEditParam
  BY <1>3 DEF MenuEditParam
<1>4. CASE ShowImage
  BY <1>4 DEF ShowImage
<1>5. CASE ShowFrame
  BY <1>5 DEF ShowFrame
<1>6. CASE ShowExit
  BY <1>6 DEF ShowExit
<1>7. CASE StartCar
  BY <1>7 DEF StartCar
<1>8. CASE MenuTail
  BY <1>8 DEF MenuTail
<1>9. CASE Confirm
  BY <1>9 DEF Confirm
<1>10. CASE Cancel
  BY <1>10 DEF Cancel
<1>11. CASE SaveTarget
  BY <1>11 DEF SaveTarget
<1>12. CASE MotorReset
  BY <1>12 DEF MotorReset
<1>13. CASE ResetDone
  BY <1>13 DEF ResetDone
<1>14. CASE Go
  BY <1>14 DEF Go
<1>15. CASE GoDone
  BY <1>15 DEF GoDone
<1>16. CASE Arm
  BY <1>16 DEF Arm
<1>17. CASE RaceLoop
  BY <1>17 DEF RaceLoop
<1>18. CASE PollIdle
  BY <1>18 DEF PollIdle
<1>19. CASE PollAlign
  BY <1>19 DEF PollAlign
<1>20. CASE PollAccel
  BY <1>20 DEF PollAccel
<1>21. CASE PollRunning
  BY <1>21 DEF PollRunning
<1>22. CASE Stamp
  BY <1>22 DEF Stamp
<1>23. CASE ProcessImage
  BY <1>23 DEF ProcessImage
<1>24. CASE ClearFlag
  BY <1>24 DEF ClearFlag
<1>25. CASE NoImage
  BY <1>25 DEF NoImage
<1>26. CASE StopDetection
  BY <1>26 DEF StopDetection
<1>27. CASE StopDirection
  BY <1>27 DEF StopDirection
<1>28. CASE StopTarget("stop_left", "left", "stop_right")
  BY <1>28 DEF StopTarget
<1>29. CASE StopTarget("stop_right", "right", "stop_speed")
  BY <1>29 DEF StopTarget
<1>30. CASE StopSpeedLoop
  BY <1>30 DEF StopSpeedLoop
<1>31. CASE StopPwm("stop_pwm_left", "left", "stop_pwm_right")
  BY <1>31 DEF StopPwm
<1>32. CASE StopPwm("stop_pwm_right", "right", "stop_run")
  BY <1>32 DEF StopPwm
<1>33. CASE StopRunning
  BY <1>33 DEF StopRunning
<1>34. CASE StopMenu
  BY <1>34 DEF StopMenu
<1>35. CASE Tick
  BY <1>35 DEF Tick
<1>36. CASE Frame
  BY <1>36 DEF Frame
<1>37. CASE UNCHANGED vars
  BY <1>37 DEF vars
<1> QED BY <1>1, <1>2, <1>3, <1>4, <1>5, <1>6, <1>7, <1>8, <1>9, <1>10,
           <1>11, <1>12, <1>13, <1>14, <1>15, <1>16, <1>17, <1>18, <1>19,
           <1>20, <1>21, <1>22, <1>23, <1>24, <1>25, <1>26, <1>27, <1>28,
           <1>29, <1>30, <1>31, <1>32, <1>33, <1>34, <1>35, <1>36, <1>37 DEF
           Next, Main, Menu, Start, Race, StopCar

\* A race has the three flags of the gate set.
LEMMA FlagsStep == IInv /\ [Next]_vars => FlagsInv'
<1> SUFFICES ASSUME TypeOK, PlaceInv, FlagsInv, [Next]_vars PROVE FlagsInv'
  BY DEF IInv
<1> USE DEF mainVars, flagVars, menuVars, rampVars, motorVars, imageVars,
            cameraVars, MenuStep, Goto, Poll, PollFrame, StopFrame, Racing, Stopping,
            StartPCs, RunPCs, StopPCs,
            TypeOK, PlaceInv, FlagsInv, GoStores
<1>1. CASE MenuOther
  BY <1>1 DEF MenuOther
<1>2. CASE MenuEditDebug
  BY <1>2 DEF MenuEditDebug
<1>3. CASE MenuEditParam
  BY <1>3 DEF MenuEditParam
<1>4. CASE ShowImage
  BY <1>4 DEF ShowImage
<1>5. CASE ShowFrame
  BY <1>5 DEF ShowFrame
<1>6. CASE ShowExit
  BY <1>6 DEF ShowExit
<1>7. CASE StartCar
  BY <1>7 DEF StartCar
<1>8. CASE MenuTail
  BY <1>8 DEF MenuTail
<1>9. CASE Confirm
  BY <1>9 DEF Confirm
<1>10. CASE Cancel
  BY <1>10 DEF Cancel
<1>11. CASE SaveTarget
  BY <1>11 DEF SaveTarget
<1>12. CASE MotorReset
  BY <1>12 DEF MotorReset
<1>13. CASE ResetDone
  BY <1>13 DEF ResetDone
<1>14. CASE Go
  BY <1>14 DEF Go
<1>15. CASE GoDone
  BY <1>15 DEF GoDone
<1>16. CASE Arm
  BY <1>16 DEF Arm
<1>17. CASE RaceLoop
  BY <1>17 DEF RaceLoop
<1>18. CASE PollIdle
  BY <1>18 DEF PollIdle
<1>19. CASE PollAlign
  BY <1>19 DEF PollAlign
<1>20. CASE PollAccel
  BY <1>20 DEF PollAccel
<1>21. CASE PollRunning
  BY <1>21 DEF PollRunning
<1>22. CASE Stamp
  BY <1>22 DEF Stamp
<1>23. CASE ProcessImage
  BY <1>23 DEF ProcessImage
<1>24. CASE ClearFlag
  BY <1>24 DEF ClearFlag
<1>25. CASE NoImage
  BY <1>25 DEF NoImage
<1>26. CASE StopDetection
  BY <1>26 DEF StopDetection
<1>27. CASE StopDirection
  BY <1>27 DEF StopDirection
<1>28. CASE StopTarget("stop_left", "left", "stop_right")
  BY <1>28 DEF StopTarget
<1>29. CASE StopTarget("stop_right", "right", "stop_speed")
  BY <1>29 DEF StopTarget
<1>30. CASE StopSpeedLoop
  BY <1>30 DEF StopSpeedLoop
<1>31. CASE StopPwm("stop_pwm_left", "left", "stop_pwm_right")
  BY <1>31 DEF StopPwm
<1>32. CASE StopPwm("stop_pwm_right", "right", "stop_run")
  BY <1>32 DEF StopPwm
<1>33. CASE StopRunning
  BY <1>33 DEF StopRunning
<1>34. CASE StopMenu
  BY <1>34 DEF StopMenu
<1>35. CASE Tick
  BY <1>35 DEF Tick
<1>36. CASE Frame
  BY <1>36 DEF Frame
<1>37. CASE UNCHANGED vars
  BY <1>37 DEF vars
<1> QED BY <1>1, <1>2, <1>3, <1>4, <1>5, <1>6, <1>7, <1>8, <1>9, <1>10,
           <1>11, <1>12, <1>13, <1>14, <1>15, <1>16, <1>17, <1>18, <1>19,
           <1>20, <1>21, <1>22, <1>23, <1>24, <1>25, <1>26, <1>27, <1>28,
           <1>29, <1>30, <1>31, <1>32, <1>33, <1>34, <1>35, <1>36, <1>37 DEF
           Next, Main, Menu, Start, Race, StopCar

\* The image judged is one of this race.
LEMMA EvidenceStep == IInv /\ [Next]_vars => EvidenceInv'
<1> SUFFICES ASSUME PlaceInv, FlagsInv, EvidenceInv, [Next]_vars PROVE EvidenceInv'
  BY DEF IInv
<1> USE DEF mainVars, flagVars, menuVars, rampVars, motorVars, imageVars,
            cameraVars, MenuStep, Goto, Poll, PollFrame, StopFrame, Racing, Stopping,
            StartPCs, RunPCs, StopPCs,
            PlaceInv, FlagsInv, EvidenceInv, CopyImage, Judge
<1>1. CASE MenuOther
  BY <1>1 DEF MenuOther
<1>2. CASE MenuEditDebug
  BY <1>2 DEF MenuEditDebug
<1>3. CASE MenuEditParam
  BY <1>3 DEF MenuEditParam
<1>4. CASE ShowImage
  BY <1>4 DEF ShowImage
<1>5. CASE ShowFrame
  BY <1>5 DEF ShowFrame
<1>6. CASE ShowExit
  BY <1>6 DEF ShowExit
<1>7. CASE StartCar
  BY <1>7 DEF StartCar
<1>8. CASE MenuTail
  BY <1>8 DEF MenuTail
<1>9. CASE Confirm
  BY <1>9 DEF Confirm
<1>10. CASE Cancel
  BY <1>10 DEF Cancel
<1>11. CASE SaveTarget
  BY <1>11 DEF SaveTarget
<1>12. CASE MotorReset
  BY <1>12 DEF MotorReset
<1>13. CASE ResetDone
  BY <1>13 DEF ResetDone
<1>14. CASE Go
  BY <1>14 DEF Go
<1>15. CASE GoDone
  BY <1>15 DEF GoDone
<1>16. CASE Arm
  BY <1>16 DEF Arm
<1>17. CASE RaceLoop
  BY <1>17 DEF RaceLoop
<1>18. CASE PollIdle
  BY <1>18 DEF PollIdle
<1>19. CASE PollAlign
  BY <1>19 DEF PollAlign
<1>20. CASE PollAccel
  BY <1>20 DEF PollAccel
<1>21. CASE PollRunning
  BY <1>21 DEF PollRunning
<1>22. CASE Stamp
  BY <1>22 DEF Stamp
<1>23. CASE ProcessImage
  BY <1>23 DEF ProcessImage
<1>24. CASE ClearFlag
  BY <1>24 DEF ClearFlag
<1>25. CASE NoImage
  BY <1>25 DEF NoImage
<1>26. CASE StopDetection
  BY <1>26 DEF StopDetection
<1>27. CASE StopDirection
  BY <1>27 DEF StopDirection
<1>28. CASE StopTarget("stop_left", "left", "stop_right")
  BY <1>28 DEF StopTarget
<1>29. CASE StopTarget("stop_right", "right", "stop_speed")
  BY <1>29 DEF StopTarget
<1>30. CASE StopSpeedLoop
  BY <1>30 DEF StopSpeedLoop
<1>31. CASE StopPwm("stop_pwm_left", "left", "stop_pwm_right")
  BY <1>31 DEF StopPwm
<1>32. CASE StopPwm("stop_pwm_right", "right", "stop_run")
  BY <1>32 DEF StopPwm
<1>33. CASE StopRunning
  BY <1>33 DEF StopRunning
<1>34. CASE StopMenu
  BY <1>34 DEF StopMenu
<1>35. CASE Tick
  BY <1>35 DEF Tick
<1>36. CASE Frame
  BY <1>36 DEF Frame
<1>37. CASE UNCHANGED vars
  BY <1>37 DEF vars
<1> QED BY <1>1, <1>2, <1>3, <1>4, <1>5, <1>6, <1>7, <1>8, <1>9, <1>10,
           <1>11, <1>12, <1>13, <1>14, <1>15, <1>16, <1>17, <1>18, <1>19,
           <1>20, <1>21, <1>22, <1>23, <1>24, <1>25, <1>26, <1>27, <1>28,
           <1>29, <1>30, <1>31, <1>32, <1>33, <1>34, <1>35, <1>36, <1>37 DEF
           Next, Main, Menu, Start, Race, StopCar

\* The verdicts counted are those of this race.
LEMMA CountStep == IInv /\ [Next]_vars => CountInv'
<1> SUFFICES ASSUME TypeOK, PlaceInv, EvidenceInv, CountInv, [Next]_vars PROVE CountInv'
  BY DEF IInv
<1> USE DEF mainVars, flagVars, menuVars, rampVars, motorVars, imageVars,
            cameraVars, MenuStep, Goto, Poll, PollFrame, StopFrame, Racing, Stopping,
            StartPCs, RunPCs, StopPCs,
            PlaceInv, EvidenceInv, CountInv, CopyImage, Judge
<1>1. CASE MenuOther
  BY <1>1 DEF MenuOther
<1>2. CASE MenuEditDebug
  BY <1>2 DEF MenuEditDebug
<1>3. CASE MenuEditParam
  BY <1>3 DEF MenuEditParam
<1>4. CASE ShowImage
  BY <1>4 DEF ShowImage
<1>5. CASE ShowFrame
  BY <1>5 DEF ShowFrame
<1>6. CASE ShowExit
  BY <1>6 DEF ShowExit
<1>7. CASE StartCar
  BY <1>7 DEF StartCar
<1>8. CASE MenuTail
  BY <1>8 DEF MenuTail
<1>9. CASE Confirm
  BY <1>9 DEF Confirm
<1>10. CASE Cancel
  BY <1>10 DEF Cancel
<1>11. CASE SaveTarget
  BY <1>11 DEF SaveTarget
<1>12. CASE MotorReset
  BY <1>12 DEF MotorReset
<1>13. CASE ResetDone
  BY <1>13 DEF ResetDone
<1>14. CASE Go
  BY <1>14 DEF Go
<1>15. CASE GoDone
  BY <1>15 DEF GoDone
<1>16. CASE Arm
  BY <1>16, CountAssumption DEF Arm
<1>17. CASE RaceLoop
  BY <1>17 DEF RaceLoop
<1>18. CASE PollIdle
  BY <1>18 DEF PollIdle
<1>19. CASE PollAlign
  BY <1>19 DEF PollAlign
<1>20. CASE PollAccel
  BY <1>20 DEF PollAccel
<1>21. CASE PollRunning
  BY <1>21 DEF PollRunning
<1>22. CASE Stamp
  BY <1>22 DEF Stamp
<1>23. CASE ProcessImage
  BY <1>23 DEF ProcessImage
<1>24. CASE ClearFlag
  BY <1>24 DEF ClearFlag
<1>25. CASE NoImage
  BY <1>25 DEF NoImage
<1>26. CASE StopDetection
  <2>1. /\ Racing /\ evidence # "old" /\ out_of_bounds_count \in Nat
        /\ ~menu_active' /\ pc' \in {"loop", "stop_dir"}
    BY <1>26 DEF StopDetection, TypeOK
  <2>2. CASE car_running /\ stop_enable /\ user_oob
    <3>1. /\ out_of_bounds_count' = out_of_bounds_count + 1
          /\ pc' = IF out_of_bounds_count' >= Threshold THEN "stop_dir"
                                                       ELSE "loop"
          /\ evidence' = "judged"
      BY <1>26, <2>1, <2>2 DEF StopDetection, TypeOK
    <3>2. out_of_bounds_count < Threshold
      BY <2>1
    <3>3. stop_enable' /\ user_oob'
      BY <1>26, <2>2 DEF StopDetection
    <3> QED BY <2>1, <3>1, <3>2, <3>3, CountAssumption
  <2>3. CASE ~(car_running /\ stop_enable /\ user_oob)
    BY <1>26, <2>1, <2>3, CountAssumption DEF StopDetection
  <2> QED BY <2>2, <2>3
<1>27. CASE StopDirection
  BY <1>27 DEF StopDirection
<1>28. CASE StopTarget("stop_left", "left", "stop_right")
  BY <1>28 DEF StopTarget
<1>29. CASE StopTarget("stop_right", "right", "stop_speed")
  BY <1>29 DEF StopTarget
<1>30. CASE StopSpeedLoop
  BY <1>30 DEF StopSpeedLoop
<1>31. CASE StopPwm("stop_pwm_left", "left", "stop_pwm_right")
  BY <1>31 DEF StopPwm
<1>32. CASE StopPwm("stop_pwm_right", "right", "stop_run")
  BY <1>32 DEF StopPwm
<1>33. CASE StopRunning
  BY <1>33 DEF StopRunning
<1>34. CASE StopMenu
  BY <1>34 DEF StopMenu
<1>35. CASE Tick
  BY <1>35 DEF Tick
<1>36. CASE Frame
  BY <1>36 DEF Frame
<1>37. CASE UNCHANGED vars
  BY <1>37 DEF vars
<1> QED BY <1>1, <1>2, <1>3, <1>4, <1>5, <1>6, <1>7, <1>8, <1>9, <1>10,
           <1>11, <1>12, <1>13, <1>14, <1>15, <1>16, <1>17, <1>18, <1>19,
           <1>20, <1>21, <1>22, <1>23, <1>24, <1>25, <1>26, <1>27, <1>28,
           <1>29, <1>30, <1>31, <1>32, <1>33, <1>34, <1>35, <1>36, <1>37 DEF
           Next, Main, Menu, Start, Race, StopCar

\* The running speed obeys the start sequence.
LEMMA SpeedStep == IInv /\ [Next]_vars => SpeedInv'
<1> SUFFICES ASSUME TypeOK, PlaceInv, SpeedInv, [Next]_vars PROVE SpeedInv'
  BY DEF IInv
<1> USE DEF mainVars, flagVars, menuVars, rampVars, motorVars, imageVars,
            cameraVars, MenuStep, Goto, Poll, PollFrame, StopFrame, Racing, Stopping,
            StartPCs, RunPCs, StopPCs,
            PlaceInv, SpeedInv
<1>0. /\ current_running_speed \in Int /\ target_speed_saved \in Int
      /\ Within(0, target_speed_saved)
  BY SpeedsAssumption, WithinFacts DEF TypeOK
<1>1. CASE MenuOther
  BY <1>1 DEF MenuOther
<1>2. CASE MenuEditDebug
  BY <1>2 DEF MenuEditDebug
<1>3. CASE MenuEditParam
  BY <1>3 DEF MenuEditParam
<1>4. CASE ShowImage
  BY <1>4 DEF ShowImage
<1>5. CASE ShowFrame
  BY <1>5 DEF ShowFrame
<1>6. CASE ShowExit
  BY <1>6 DEF ShowExit
<1>7. CASE StartCar
  BY <1>7 DEF StartCar
<1>8. CASE MenuTail
  BY <1>8 DEF MenuTail
<1>9. CASE Confirm
  BY <1>9 DEF Confirm
<1>10. CASE Cancel
  BY <1>10 DEF Cancel
<1>11. CASE SaveTarget
  BY <1>11 DEF SaveTarget
<1>12. CASE MotorReset
  BY <1>12 DEF MotorReset
<1>13. CASE ResetDone
  BY <1>13 DEF ResetDone
<1>14. CASE Go
  BY <1>14 DEF Go
<1>15. CASE GoDone
  BY <1>15 DEF GoDone
<1>16. CASE Arm
  BY <1>16, <1>0 DEF Arm
<1>17. CASE RaceLoop
  BY <1>17 DEF RaceLoop
<1>18. CASE PollIdle
  BY <1>18 DEF PollIdle
<1>19. CASE PollAlign
  <2>1. current_running_speed' = 0 /\ target_speed_saved' = target_speed_saved
    BY <1>19 DEF PollAlign
  <2>2. Within(0, target_speed_saved)
    BY <1>0
  <2>3. target_speed_saved \in Speeds /\ elapsed \in 0 .. ElapsedCap
    BY <1>19 DEF PollAlign, TypeOK
  <2>4. Within(0, RampSpeed(target_speed_saved, elapsed))
    BY <2>3, RampType, WithinFacts
  <2>5. RampSpeed(target_speed_saved', elapsed')
          = RampSpeed(target_speed_saved, elapsed)
    BY <1>19 DEF PollAlign
  <2> QED BY <1>19, <2>1, <2>2, <2>4, <2>5, TimeAssumption DEF PollAlign, TypeOK
<1>20. CASE PollAccel
  <2>1. /\ target_speed_saved \in Speeds /\ elapsed \in 0 .. ElapsedCap
        /\ ~menu_active
    BY <1>20 DEF PollAccel, TypeOK
  <2>2. DEFINE r == RampSpeed(target_speed_saved, elapsed)
  <2>3. /\ r \in Int /\ Within(r, target_speed_saved)
        /\ elapsed >= PhaseMs => r = target_speed_saved
    BY <2>1, RampType
  <2>4. Within(r, r)
    BY <2>3, WithinFacts
  <2>5. current_running_speed' = r
    BY <1>20 DEF PollAccel
  <2> HIDE DEF r
  <2>6. CASE elapsed >= PhaseMs
    BY <1>20, <2>1, <2>3, <2>5, <2>6, TimeAssumption DEF PollAccel
  <2>7. CASE elapsed < PhaseMs
    <3>1. RampSpeed(target_speed_saved', elapsed') = r
      BY <1>20 DEF PollAccel, r
    <3> QED BY <1>20, <2>1, <2>3, <2>4, <2>5, <2>7, <3>1, TimeAssumption DEF PollAccel
  <2> QED BY <2>1, <2>6, <2>7, TimeAssumption
<1>21. CASE PollRunning
  BY <1>21, <1>0 DEF PollRunning
<1>22. CASE Stamp
  <2>1. 0 \in 0 .. ElapsedCap /\ ~menu_active
    BY <1>22, TimeAssumption DEF Stamp
  <2>2. RampSpeed(target_speed_saved, 0) \in Int
    BY <2>1, RampType DEF TypeOK
  <2>3. Within(0, RampSpeed(target_speed_saved, 0))
    BY <2>2, WithinFacts
  <2> QED BY <1>22, <2>1, <2>3 DEF Stamp
<1>23. CASE ProcessImage
  BY <1>23 DEF ProcessImage
<1>24. CASE ClearFlag
  BY <1>24 DEF ClearFlag
<1>25. CASE NoImage
  BY <1>25 DEF NoImage
<1>26. CASE StopDetection
  BY <1>26 DEF StopDetection
<1>27. CASE StopDirection
  BY <1>27 DEF StopDirection
<1>28. CASE StopTarget("stop_left", "left", "stop_right")
  BY <1>28 DEF StopTarget
<1>29. CASE StopTarget("stop_right", "right", "stop_speed")
  BY <1>29 DEF StopTarget
<1>30. CASE StopSpeedLoop
  BY <1>30 DEF StopSpeedLoop
<1>31. CASE StopPwm("stop_pwm_left", "left", "stop_pwm_right")
  BY <1>31 DEF StopPwm
<1>32. CASE StopPwm("stop_pwm_right", "right", "stop_run")
  BY <1>32 DEF StopPwm
<1>33. CASE StopRunning
  BY <1>33 DEF StopRunning
<1>34. CASE StopMenu
  BY <1>34 DEF StopMenu
<1>35. CASE Tick
  <2>1. start_state # "IDLE" => /\ elapsed' \in 0 .. ElapsedCap
                                /\ elapsed <= elapsed'
    BY <1>35, TimeAssumption DEF Tick, Capped, TypeOK
  <2>2. ASSUME ~menu_active, start_state = "ACCEL"
        PROVE  Within(current_running_speed,
                      RampSpeed(target_speed_saved, elapsed'))
    <3>1. /\ target_speed_saved \in Speeds
          /\ elapsed \in 0 .. ElapsedCap /\ elapsed' \in 0 .. ElapsedCap
          /\ elapsed <= elapsed'
      BY <2>1, <2>2 DEF TypeOK
    <3>2. Within(RampSpeed(target_speed_saved, elapsed),
                 RampSpeed(target_speed_saved, elapsed'))
      BY <3>1, RampGrows
    <3>3. /\ RampSpeed(target_speed_saved, elapsed) \in Int
          /\ RampSpeed(target_speed_saved, elapsed') \in Int
      BY <3>1, RampType
    <3>4. Within(current_running_speed, RampSpeed(target_speed_saved, elapsed))
      BY <2>2
    <3> QED BY <3>2, <3>3, <3>4, <1>0, WithinFacts
  <2> QED BY <1>35, <2>2 DEF Tick
<1>36. CASE Frame
  BY <1>36 DEF Frame
<1>37. CASE UNCHANGED vars
  BY <1>37 DEF vars
<1> QED BY <1>1, <1>2, <1>3, <1>4, <1>5, <1>6, <1>7, <1>8, <1>9, <1>10,
           <1>11, <1>12, <1>13, <1>14, <1>15, <1>16, <1>17, <1>18, <1>19,
           <1>20, <1>21, <1>22, <1>23, <1>24, <1>25, <1>26, <1>27, <1>28,
           <1>29, <1>30, <1>31, <1>32, <1>33, <1>34, <1>35, <1>36, <1>37 DEF
           Next, Main, Menu, Start, Race, StopCar

-----------------------------------------------------------------------------
(***************************************************************************)
(* The theorems.                                                           *)
(***************************************************************************)

\* The state after boot satisfies the whole invariant.
LEMMA InitInv == Init => IInv
<1> SUFFICES ASSUME Init PROVE IInv
  OBVIOUS
<1>1. target \in [Wheel -> Int] /\ driven \subseteq Wheel
  BY DEF Init
<1>2. TypeOK
  <2>1. /\ elapsed \in 0 .. ElapsedCap /\ timeout_count \in 0 .. ConfirmPolls
        /\ out_of_bounds_count \in 0 .. Threshold
    BY TimeAssumption, CountAssumption DEF Init
  <2>2. /\ pc \in PCs /\ start_state \in StartState
        /\ pending \subseteq ResetStores \cup GoStores
        /\ evidence \in {"old", "new", "judged"}
    BY DEF Init, PCs, StartState
  <2>3. /\ basic_speed \in Speeds /\ target_speed_saved \in Speeds \cup {0}
        /\ current_running_speed \in Int /\ direction_counter \in 0 .. 1
    BY DEF Init
  <2> QED BY <1>1, <2>1, <2>2, <2>3 DEF Init, TypeOK
<1>3. PlaceInv /\ FlagsInv /\ EvidenceInv
  BY DEF Init, PlaceInv, FlagsInv, EvidenceInv, StartPCs, RunPCs, StopPCs,
         Racing
<1>4. SpeedInv
  BY DEF Init, SpeedInv
<1>5. CountInv
  BY DEF Init, CountInv, Racing, Stopping, StopPCs
<1> QED BY <1>2, <1>3, <1>4, <1>5 DEF IInv

\* Every step of the thread, of an interrupt or of the camera keeps it.
LEMMA StepInv == IInv /\ [Next]_vars => IInv'
BY TypeStep, PlaceStep, FlagsStep, SpeedStep, EvidenceStep, CountStep DEF IInv

\* The inductive invariant: types, place, flags, speed, evidence and count.
THEOREM Invariance == Spec => []IInv
BY InitInv, StepInv, PTL DEF Spec

\* Every variable keeps its type.
THEOREM TypeCorrect == Spec => []TypeOK
BY Invariance, PTL DEF IInv

\* In a race the three flags are set: the stores of start_car are all out, in
\* whatever order, before the race loop is entered.
THEOREM GateOpenInRace == Spec => []RaceOpensTheGate
<1>1. IInv => RaceOpensTheGate
  BY DEF IInv, RaceOpensTheGate, PlaceInv, FlagsInv, UnderWay, Racing, Stopping,
         RunPCs, StopPCs
<1> QED BY <1>1, Invariance, PTL

\* The speed obeys the start sequence, however ticks and polls interleave.
THEOREM SpeedCorrect == Spec => []SpeedFollowsStart
<1>1. IInv => SpeedFollowsStart
  BY DEF IInv, SpeedFollowsStart, PlaceInv, SpeedInv, UnderWay, RunPCs
<1> QED BY <1>1, Invariance, PTL

\* No verdict is given on an image of an earlier race.
THEOREM EvidenceCorrect == Spec => []EvidenceIsOfThisRace
<1>1. IInv => EvidenceIsOfThisRace
  BY DEF IInv, EvidenceIsOfThisRace, PlaceInv, EvidenceInv, RunPCs
<1> QED BY <1>1, Invariance, PTL

\* A stop has its Threshold verdicts, and leaves none to the next race.
THEOREM StopCorrect == Spec => []StopIsJustified
<1>1. IInv => StopIsJustified
  BY DEF IInv, StopIsJustified, PlaceInv, CountInv, UnderWay, Racing, Stopping,
         RunPCs, StopPCs
<1> QED BY <1>1, Invariance, PTL

\* The age of the targets while the car aligns: they are the direction loop's
\* once two ticks are over, and after one tick already if that tick was the
\* loop's.
AlignInv ==
  Racing /\ start_state = "ALIGN"
    /\ (elapsed >= 2 * TickMs \/ (elapsed >= TickMs /\ direction_counter = 0))
  => OnTheSpot

\* An interrupt in the race: the direction loop writes the targets, or it has
\* done so one tick before.
LEMMA AlignTick ==
  ASSUME IInv, AlignInv, Tick PROVE AlignInv'
<1> SUFFICES ASSUME Racing', start_state' = "ALIGN",
                    \/ elapsed' >= 2 * TickMs
                    \/ elapsed' >= TickMs /\ direction_counter' = 0
             PROVE  OnTheSpot'
  BY DEF AlignInv
<1>1. /\ Racing /\ start_state = "ALIGN"
      /\ elapsed' = Capped(elapsed + TickMs, ElapsedCap)
  BY DEF Tick, Racing, Stopping, mainVars, menuVars, rampVars
<1>2. direction_debug_enable /\ DirectionLoop
  BY <1>1 DEF IInv, FlagsInv, Tick, Gate, MotorProcess
<1>3. /\ current_running_speed = 0 /\ elapsed \in Nat /\ elapsed' \in Nat
      /\ elapsed' <= elapsed + TickMs /\ direction_counter \in 0 .. 1
  BY <1>1, TimeAssumption
     DEF IInv, SpeedInv, TypeOK, Racing, Capped
<1>4. CASE direction_counter + 1 >= 2
  <2>1. PICK c \in [Wheel -> Steer] :
          target' = [w \in Wheel |-> NonNegative(current_running_speed + c[w])]
    BY <1>2, <1>4 DEF DirectionLoop
  <2>2. ASSUME NEW w \in Wheel
        PROVE  c[w] \in Steer /\ target'[w] = NonNegative(c[w])
    <3> DEFINE correction == c[w]
    <3>1. correction \in Steer
      OBVIOUS
    <3>2. target'[w] = NonNegative(current_running_speed + correction)
      BY <2>1
    <3> HIDE DEF correction
    <3>3. current_running_speed + correction = correction
      BY <1>3, <3>1, SteerAssumption
    <3>4. target'[w] = NonNegative(correction)
      BY <3>2, <3>3
    <3> QED BY <3>1, <3>4 DEF correction
  <2> QED BY <2>2 DEF OnTheSpot
<1>5. CASE ~(direction_counter + 1 >= 2)
  <2>1. UNCHANGED target /\ direction_counter = 0 /\ direction_counter' = 1
    BY <1>2, <1>3, <1>5 DEF DirectionLoop
  <2>2. elapsed >= TickMs
    BY <1>3, <2>1, TimeAssumption
  <2> QED BY <1>1, <2>1, <2>2 DEF AlignInv, OnTheSpot
<1> QED BY <1>4, <1>5

\* Every step keeps the age of the targets.
LEMMA AlignStep == IInv /\ AlignInv /\ [Next]_vars => AlignInv'
<1> SUFFICES ASSUME IInv, AlignInv, [Next]_vars PROVE AlignInv'
  OBVIOUS
<1> USE DEF mainVars, flagVars, menuVars, rampVars, motorVars, Goto
<1>0. /\ pc \in StartPCs \cup {"show"} => menu_active
      /\ pc \in StopPCs => ~menu_active
  BY DEF IInv, PlaceInv
<1>1. ASSUME UNCHANGED <<menu_active, start_state, elapsed, direction_counter,
                         target>>, Stopping => Stopping'
      PROVE  AlignInv'
  BY <1>1 DEF AlignInv, Racing, OnTheSpot
<1>2. ASSUME menu_active' \/ Stopping' PROVE AlignInv'
  BY <1>2 DEF AlignInv, Racing
<1>3. ASSUME elapsed' = 0 PROVE AlignInv'
  BY <1>3, TimeAssumption DEF AlignInv
<1>4. CASE Menu
  BY <1>0, <1>2, <1>4
     DEF Menu, MenuStep, MenuOther, MenuEditDebug, MenuEditParam, ShowImage,
         ShowFrame, ShowExit, StartCar
<1>5. CASE MenuTail
  BY <1>1, <1>5 DEF MenuTail, Stopping, StopPCs
<1>6. CASE Start
  <2>1. CASE Arm
    BY <1>3, <2>1 DEF Arm
  <2>2. CASE Start /\ ~Arm
    BY <1>0, <1>2, <2>2
       DEF Start, Confirm, Cancel, SaveTarget, MotorReset, ResetDone, Go,
           GoDone, StartPCs
  <2> QED BY <1>6, <2>1, <2>2
<1>7. CASE Race
  <2>1. pc \notin StopPCs /\ UNCHANGED <<menu_active, motorVars>>
    BY <1>7 DEF Race, RaceLoop, PollIdle, PollAlign, PollAccel, PollRunning,
         Poll, PollFrame, Stamp, ProcessImage, ClearFlag, NoImage,
         StopDetection, StopPCs
  <2>2. CASE Stamp
    BY <1>3, <2>2 DEF Stamp
  <2>3. CASE start_state' # "ALIGN"
    BY <2>3 DEF AlignInv
  <2>4. CASE ~Stamp /\ start_state' = "ALIGN"
    <3>1. UNCHANGED <<start_state, elapsed>>
      BY <1>7, <2>4 DEF Race, RaceLoop, PollIdle, PollAlign, PollAccel,
           PollRunning, Poll, PollFrame, ProcessImage, ClearFlag, NoImage,
           StopDetection
    <3> QED BY <1>1, <2>1, <3>1 DEF Stopping
  <2> QED BY <2>2, <2>3, <2>4
<1>8. CASE StopCar
  BY <1>2, <1>8 DEF StopCar, StopDirection, StopTarget, StopSpeedLoop, StopPwm,
       StopRunning, StopMenu, Stopping, StopPCs
<1>9. CASE Tick
  BY <1>9, AlignTick
<1>10. CASE Frame
  BY <1>1, <1>10 DEF Frame, Stopping
<1>11. CASE UNCHANGED vars
  BY <1>1, <1>11 DEF vars, Stopping
<1> QED BY <1>4, <1>5, <1>6, <1>7, <1>8, <1>9, <1>10, <1>11 DEF Next, Main

\* Two ticks after the start is armed the aligning car turns on the spot,
\* whatever targets a tick between the stores of the flags, a debug mode or the
\* last race has left.
THEOREM AlignCorrect == Spec => []AlignsAfterTwoTicks
<1>1. Init => AlignInv
  BY DEF Init, AlignInv, Racing
<1>2. IInv /\ AlignInv => AlignsAfterTwoTicks
  BY DEF AlignInv, AlignsAfterTwoTicks, UnderWay, Racing, Stopping, RunPCs,
         StopPCs, IInv, PlaceInv
<1> QED BY <1>1, <1>2, AlignStep, Invariance, PTL DEF Spec

-----------------------------------------------------------------------------
(***************************************************************************)
(* CarControl implements CarMode.                                          *)
(***************************************************************************)

\* The abstract state, as the refinement mapping of CarControl gives it.
modeOf  == IF menu_active THEN "menu" ELSE Phase[start_state]
goalOf  == IF menu_active THEN 0 ELSE target_speed_saved
speedOf == IF menu_active THEN 0 ELSE current_running_speed

\* A step that leaves menu_active alone, and in a race also the start state and
\* the two speeds, is a stutter of CarMode.
LEMMA StutterStep ==
  ASSUME UNCHANGED menu_active,
         ~menu_active => UNCHANGED <<target_speed_saved, start_state,
                                     current_running_speed>>
  PROVE  UNCHANGED <<modeOf, goalOf, speedOf>>
BY DEF modeOf, goalOf, speedOf

\* Every step is a step of CarMode or a stutter.
LEMMA ModeStep == IInv /\ [Next]_vars => [Mode!Next]_<<modeOf, goalOf, speedOf>>
<1> SUFFICES ASSUME IInv, [Next]_vars
             PROVE  [Mode!Next]_<<modeOf, goalOf, speedOf>>
  OBVIOUS
<1> DEFINE Stutter == UNCHANGED <<modeOf, goalOf, speedOf>>
<1> USE DEF menuVars, rampVars
<1>0. /\ pc \in StartPCs \cup {"show"} => menu_active
      /\ pc \in RunPCs \cup StopPCs => ~menu_active
  BY DEF IInv, PlaceInv
<1>1. CASE Menu \/ MenuTail
  <2>1. UNCHANGED <<menu_active, rampVars>>
    BY <1>1 DEF Menu, MenuOther, MenuEditDebug, MenuEditParam, ShowImage,
                ShowFrame, ShowExit, StartCar, MenuTail
  <2> QED BY <2>1, StutterStep
<1>2. CASE Confirm \/ Cancel \/ SaveTarget \/ MotorReset \/ ResetDone \/ Go
           \/ GoDone
  <2>1. UNCHANGED menu_active /\ menu_active
    BY <1>0, <1>2 DEF Confirm, Cancel, SaveTarget, MotorReset, ResetDone, Go,
                      GoDone, Goto, StartPCs
  <2> QED BY <2>1, StutterStep
<1>3. CASE Arm
  <2>1. menu_active /\ ~menu_active' /\ start_state' = "ALIGN"
    BY <1>0, <1>3 DEF Arm, Goto, StartPCs
  <2>2. target_speed_saved' \in Speeds /\ current_running_speed' = 0
    BY <1>3 DEF Arm, Goto, IInv, SpeedInv, TypeOK
  <2>3. Phase["ALIGN"] = "align"
    BY DEF Phase, StartState
  <2>4. Mode!Start
    BY <2>1, <2>2, <2>3 DEF Mode!Start
  <2> QED BY <2>4 DEF Mode!Next
<1>4. CASE RaceLoop \/ PollIdle \/ Stamp \/ ProcessImage \/ ClearFlag \/ NoImage
           \/ StopDetection
  <2>1. UNCHANGED <<menu_active, rampVars>>
    BY <1>4 DEF RaceLoop, PollIdle, PollFrame, Stamp, ProcessImage, ClearFlag,
                NoImage, StopDetection
  <2> QED BY <2>1, StutterStep
<1>5. ASSUME PollAlign \/ PollAccel \/ PollRunning
      PROVE  /\ ~menu_active /\ UNCHANGED menu_active
             /\ UNCHANGED target_speed_saved /\ UNCHANGED elapsed
             /\ target_speed_saved \in Speeds /\ target_speed_saved \in Int
             /\ elapsed \in 0 .. ElapsedCap
  <2>1. ~menu_active
    BY <1>0, <1>5 DEF PollAlign, PollAccel, PollRunning, Poll, RunPCs
  <2>2. UNCHANGED <<menu_active, target_speed_saved, elapsed>>
    BY <1>5 DEF PollAlign, PollAccel, PollRunning, PollFrame
  <2>3. target_speed_saved \in Speeds /\ elapsed \in 0 .. ElapsedCap
    BY <2>1 DEF IInv, SpeedInv, TypeOK
  <2> QED BY <2>1, <2>2, <2>3, SpeedsAssumption
<1>6. CASE PollAlign
  <2>1. current_running_speed = 0 /\ current_running_speed' = 0
        /\ start_state = "ALIGN"
    BY <1>5, <1>6 DEF PollAlign, Poll, IInv, SpeedInv
  <2>2. Phase["ALIGN"] = "align" /\ Phase["ACCEL"] = "accelerate"
    BY DEF Phase, StartState
  <2>3. CASE start_state' = "ACCEL"
    <3>1. Mode!Launch
      BY <1>5, <1>6, <2>1, <2>2, <2>3 DEF Mode!Launch
    <3> QED BY <3>1 DEF Mode!Next
  <2>4. CASE UNCHANGED start_state
    <3>1. UNCHANGED <<menu_active, rampVars>>
      BY <1>5, <1>6, <2>1, <2>4
    <3> QED BY <3>1, StutterStep
  <2> QED BY <1>6, <2>3, <2>4 DEF PollAlign
<1>7. CASE PollAccel
  <2> DEFINE r == RampSpeed(target_speed_saved, elapsed)
  <2>1. /\ start_state = "ACCEL" /\ current_running_speed' = r
        /\ Within(current_running_speed, r)
    BY <1>5, <1>7 DEF PollAccel, Poll, IInv, SpeedInv
  <2>2. /\ Within(r, target_speed_saved)
        /\ elapsed >= PhaseMs => r = target_speed_saved
    BY <1>5, <1>7, RampType
  <2>3. /\ Phase["ACCEL"] = "accelerate" /\ Phase["RUNNING"] = "cruise"
    BY DEF Phase, StartState
  <2>4. CASE elapsed >= PhaseMs /\ start_state' = "RUNNING"
    <3>1. Mode!Cruise
      BY <1>5, <1>7, <2>1, <2>2, <2>3, <2>4 DEF Mode!Cruise
    <3> QED BY <3>1 DEF Mode!Next
  <2>5. CASE UNCHANGED start_state
    <3>1. Mode!SpeedUp
      BY <1>5, <1>7, <2>1, <2>2, <2>3, <2>5
         DEF Mode!SpeedUp, Mode!Between, Within
    <3> QED BY <3>1 DEF Mode!Next
  <2> QED BY <1>7, <2>4, <2>5 DEF PollAccel
<1>8. CASE PollRunning
  <2>1. /\ start_state = "RUNNING" /\ start_state' = "IDLE"
        /\ current_running_speed = target_speed_saved
        /\ current_running_speed' = target_speed_saved
    BY <1>5, <1>8 DEF PollRunning, Poll, IInv, SpeedInv
  <2>2. /\ Phase["RUNNING"] = "cruise" /\ Phase["IDLE"] = "cruise"
    BY DEF Phase, StartState
  <2> QED BY <1>5, <1>8, <2>1, <2>2 DEF modeOf, goalOf, speedOf
<1>9. CASE StopCar
  <2>1. CASE StopMenu
    <3>1. ~menu_active /\ menu_active'
      BY <1>0, <2>1 DEF StopMenu, Goto, StopPCs
    <3>2. Phase[start_state] # "menu"
      BY DEF IInv, TypeOK, Phase, StartState
    <3>3. Mode!Stop
      BY <3>1, <3>2 DEF Mode!Stop
    <3> QED BY <3>3 DEF Mode!Next
  <2>2. CASE ~StopMenu
    <3>1. UNCHANGED <<menu_active, rampVars>>
      BY <1>9, <2>2 DEF StopCar, StopDirection, StopTarget, StopSpeedLoop,
                        StopPwm, StopRunning, StopFrame
    <3> QED BY <3>1, StutterStep
  <2> QED BY <2>1, <2>2
<1>10. CASE Tick \/ Frame \/ UNCHANGED vars
  <2>1. UNCHANGED <<menu_active, rampVars>>
    BY <1>10 DEF Tick, Frame, vars
  <2> QED BY <2>1, StutterStep
<1> QED BY <1>1, <1>2, <1>3, <1>4, <1>6, <1>7, <1>8, <1>9, <1>10
        DEF Next, Main, Start, Race

\* Starting and stopping is the machine of CarMode.
THEOREM ImplementsCarMode == Spec => StartsAndStopsInOrder
<1>1. Init => Mode!Init
  BY DEF Init, Mode!Init
<1>2. IInv /\ [Next]_vars => [Mode!Next]_Mode!modeVars
  BY ModeStep DEF Mode!modeVars, modeOf, goalOf, speedOf
<1> QED BY <1>1, <1>2, Invariance, PTL DEF Spec, StartsAndStopsInOrder, Mode!Spec

=============================================================================
