-------------------------- MODULE Steering_proofs --------------------------
(***************************************************************************)
(* Proofs about Steering, for all gains, limits, ratios and pictures: the  *)
(* types, that a mirrored car steers the mirrored way, that a race starts  *)
(* with a clean controller whatever ticks come between the stores of its   *)
(* start, that each picture brings the mid line nearer, and, for gains     *)
(* that are strong enough, that a sum of the past is overcome.             *)
(***************************************************************************)
EXTENDS Steering, TLAPS

-----------------------------------------------------------------------------
(***************************************************************************)
(* The operators of the controller                                         *)
(***************************************************************************)

\* The filter of image_calculate_mid stays within the columns of the image.
LEMMA FilteredInImage ==
  ASSUME NEW temp \in Columns, NEW last \in Columns
  PROVE  Filtered(temp, last) \in Columns
<1>1. Center \in Nat /\ Center > 1
  BY SteeringAssumption
<1> QED
  BY <1>1 DEF Filtered, Columns

\* Limiting to -max .. max, and that it commutes with the sign.
LEMMA LimitRange ==
  ASSUME NEW x \in Int, NEW max \in Nat
  PROVE  Limit(x, max) \in -max .. max /\ Limit(x, max) \in Int
BY DEF Limit

LEMMA LimitOdd ==
  ASSUME NEW x \in Int, NEW max \in Nat
  PROVE  Limit(-x, max) = -Limit(x, max)
BY DEF Limit

\* A controller at zero is its own mirror image.
LEMMA ZeroOpposite ==
  ASSUME NEW x \in Int
  PROVE  x = 0 => -x = 0
<1> DEFINE y == -x
<1>1. y \in Int /\ y + x = 0
  OBVIOUS
<1> HIDE DEF y
<1>2. x = 0 => y = 0
  BY <1>1
<1> QED
  BY <1>2 DEF y

\* The product with a ratio, cut off to int16, is an integer, and odd too: the
\* code cuts towards zero, it does not round down.
LEMMA CutOdd ==
  ASSUME NEW x \in Int, NEW tenths \in Nat
  PROVE  Cut(x, tenths) \in Int /\ Cut(-x, tenths) = -Cut(x, tenths)
<1> DEFINE y == x * tenths
<1>1. y \in Int /\ (-x) * tenths = -y
  OBVIOUS
<1>2. Cut(x, tenths) = IF y >= 0 THEN y \div 10 ELSE -((-y) \div 10)
  BY <1>1 DEF Cut
<1>3. Cut(-x, tenths) = IF -y >= 0 THEN (-y) \div 10 ELSE -(y \div 10)
  <2>1. -(-x) = x
    OBVIOUS
  <2> QED
    BY <1>1, <2>1 DEF Cut
<1> HIDE DEF y
<1>4. y = 0 => y \div 10 = 0
  OBVIOUS
<1> QED
  BY <1>1, <1>2, <1>3, <1>4

\* The errors of the two cars: within the image, and opposite.
LEMMA MidErrors ==
  ASSUME final_mid_line \in Columns
  PROVE  /\ \A c \in Cars : MidError(c) \in -Center .. Center
         /\ MidError("mirror") = -MidError("car")
         /\ MidError("car") \in Int /\ MidError("mirror") \in Int
<1>1. Center \in Nat /\ Center > 1
  BY SteeringAssumption
<1> QED
  BY <1>1 DEF MidError, Mirrored, Columns, Cars

-----------------------------------------------------------------------------
(***************************************************************************)
(* The inductive invariant                                                 *)
(***************************************************************************)

\* The two controllers remember opposite errors and sums.  The targets alone
\* are not inductive: the next turn depends on both.
OppositeInv ==
  /\ error_last["mirror"] = -error_last["car"]
  /\ integral["mirror"] = -integral["car"]

\* What is pending belongs to the phase.
PhaseInv ==
  /\ phase = "reset" => pending \subseteq Stores
  /\ phase = "go" => pending \subseteq Flags
  /\ phase \notin {"reset", "go"} => pending = {}

\* What motor_reset has done so far: a value whose store is no longer pending
\* is zero, or a target that the speed loop has set since; the direction loop,
\* that would spoil the rest, has had no turn.
CleanInv ==
  phase \in {"reset", "go", "race"} /\ fresh =>
    /\ "error_last" \notin pending => error_last = Zero
    /\ "integral" \notin pending => integral = Zero
    /\ "outer" \notin pending => /\ target["car"]["left"] \in {0, Basic}
                                 /\ target["mirror"]["right"] \in {0, Basic}
    /\ "inner" \notin pending => /\ target["car"]["right"] \in {0, Basic}
                                 /\ target["mirror"]["left"] \in {0, Basic}

Inv == TypeOK /\ OppositeInv /\ SteersSymmetrically /\ PhaseInv /\ CleanInv

\* One output of the controller: an integer, and that of the mirrored car is
\* the opposite one, because each of its five terms is odd.
LEMMA OutputOdd ==
  ASSUME TypeOK, OppositeInv, NEW gyro \in Gyros
  PROVE  /\ \A c \in Cars : Output(c, gyro) \in Int
         /\ Output("mirror", gyro) = -Output("car", gyro)
         /\ \A c \in Cars : Integral(c) \in -IntMax .. IntMax
         /\ Integral("mirror") = -Integral("car")
<1> DEFINE m  == MidError("car")
           i  == integral["car"]
           l  == error_last["car"]
           n  == Integral("car")
           A  == Kp2 * Abs(m)
           S  == A * m + Kp * m + Ki * n + Kd * (m - l) + Kg * gyro
<1>1. /\ m \in Int /\ MidError("mirror") = -m
      /\ i \in Int /\ integral["mirror"] = -i
      /\ l \in Int /\ error_last["mirror"] = -l
      /\ gyro \in Int
      /\ {Kp2, Kp, Ki, Kd, Kg, OutMax, IntMax} \subseteq Nat
  <2>1. final_mid_line \in Columns /\ Center \in Nat
    BY SteeringAssumption DEF TypeOK
  <2>2. m \in Int /\ MidError("mirror") = -m
    BY <2>1, MidErrors
  <2>3. i \in Int /\ l \in Int
    BY <2>1, SteeringAssumption DEF TypeOK, Cars
  <2> QED
    BY <2>2, <2>3, SteeringAssumption DEF OppositeInv
<1>2. n = Limit(i + m, IntMax) /\ n \in -IntMax .. IntMax /\ n \in Int
  <2>1. n = Limit(i + m, IntMax)
    BY DEF Integral
  <2>2. i + m \in Int /\ IntMax \in Nat
    BY <1>1
  <2>3. Limit(i + m, IntMax) \in -IntMax .. IntMax /\ Limit(i + m, IntMax) \in Int
    BY <2>2, LimitRange
  <2> QED
    BY <2>1, <2>3
<1>3. Integral("mirror") = -n /\ -n \in -IntMax .. IntMax
  <2>1. Integral("mirror") = Limit(-i + -m, IntMax)
    BY <1>1 DEF Integral
  <2>2. -i + -m = -(i + m) /\ i + m \in Int
    BY <1>1
  <2> QED
    BY <1>1, <1>2, <2>1, <2>2, LimitOdd
<1>4. A \in Int /\ Abs(-m) = Abs(m)
  BY <1>1 DEF Abs
<1>5. Output("car", gyro) = Limit(S, OutMax)
  BY DEF Output, Mirrored
<1>6. Output("mirror", gyro)
        = Limit(A * (-m) + Kp * (-m) + Ki * (-n) + Kd * (-m - -l) + Kg * (-gyro),
                OutMax)
  BY <1>1, <1>3, <1>4 DEF Output, Mirrored
<1>7. S \in Int
      /\ A * (-m) + Kp * (-m) + Ki * (-n) + Kd * (-m - -l) + Kg * (-gyro) = -S
  <2> HIDE DEF m, i, l, n, A
  <2> QED
    BY <1>1, <1>2, <1>4
<1>8. Output("mirror", gyro) = -Output("car", gyro) /\ Output("car", gyro) \in Int
  <2> HIDE DEF S
  <2> QED
    BY <1>1, <1>5, <1>6, <1>7, LimitOdd, LimitRange
<1> QED
  BY <1>2, <1>3, <1>8 DEF Cars

\* The targets of a turn, and that the wheels change places in the mirror.
LEMMA TurnMirrored ==
  ASSUME NEW e \in Int, NEW o \in Int, current_running_speed \in Int
  PROVE  /\ Turn(e, o)[1] \in Int /\ Turn(e, o)[2] \in Int
         /\ e # 0 => /\ Turn(-e, -o)[1] = Turn(e, o)[2]
                     /\ Turn(-e, -o)[2] = Turn(e, o)[1]
<1>1. Inner \in Nat /\ Outer \in Nat
  BY SteeringAssumption
<1>2. /\ Cut(o, Inner) \in Int /\ Cut(-o, Inner) = -Cut(o, Inner)
      /\ Cut(o, Outer) \in Int /\ Cut(-o, Outer) = -Cut(o, Outer)
  BY <1>1, CutOdd
<1> QED
  BY <1>2 DEF Turn

-----------------------------------------------------------------------------
(***************************************************************************)
(* Types                                                                   *)
(***************************************************************************)
LEMMA InitInv == Init => Inv
<1> SUFFICES ASSUME Init PROVE Inv
  OBVIOUS
<1>1. Center \in Columns /\ 0 \in -Center .. Center /\ 0 \in -IntMax .. IntMax
      /\ Center \in Nat /\ IntMax \in Nat
  BY SteeringAssumption DEF Columns
<1>2. TypeOK
  <2>1. target \in [Cars -> [Wheels -> Nat \cup {Basic}]]
    BY DEF Init
  <2>2. /\ error_last \in [Cars -> -Center .. Center]
        /\ integral \in [Cars -> -IntMax .. IntMax]
    BY <1>1 DEF Init, Zero
  <2>3. same \in 0 .. IntMax + 1
    BY <1>1 DEF Init
  <2> QED
    BY <1>1, <2>1, <2>2, <2>3 DEF Init, TypeOK, Phases
<1>3. OppositeInv /\ SteersSymmetrically
  <2>1. \A c \in Cars : error_last[c] = 0 /\ integral[c] = 0
    BY DEF Init, Zero
  <2>2. /\ error_last["car"] = 0 /\ error_last["mirror"] = 0
        /\ integral["car"] = 0 /\ integral["mirror"] = 0
    BY <2>1 DEF Cars
  <2>3. -integral["car"] = 0 /\ -error_last["car"] = 0
    BY <2>2, ZeroOpposite, 0 \in Int, Zenon
  <2> QED
    BY <2>2, <2>3 DEF OppositeInv, SteersSymmetrically
<1>4. PhaseInv /\ CleanInv
  BY DEF Init, PhaseInv, CleanInv
<1> QED
  BY <1>2, <1>3, <1>4 DEF Inv

\* A store to one wheel, that of the other one in the mirror.
LEMMA ClearTargetStep ==
  ASSUME TypeOK, NEW wheel \in Wheels, NEW other \in Wheels, wheel # other,
         ClearTarget(wheel, other)
  PROVE  /\ target' \in [Cars -> [Wheels -> Nat \cup {Basic}]]
         /\ target'["car"][wheel] = 0 /\ target'["mirror"][other] = 0
         /\ target'["car"][other] = target["car"][other]
         /\ target'["mirror"][wheel] = target["mirror"][wheel]
BY DEF TypeOK, ClearTarget, Cars, Wheels

\* A turn of the direction loop: types, opposite controllers and targets.
LEMMA TurnStep ==
  ASSUME TypeOK, OppositeInv, NEW gyro \in Gyros, DirectionTurn(gyro)
  PROVE  /\ error_last' \in [Cars -> -Center .. Center]
         /\ integral' \in [Cars -> -IntMax .. IntMax]
         /\ target' \in [Cars -> [Wheels -> Nat \cup {Basic}]]
         /\ same' \in 0 .. IntMax + 1
         /\ OppositeInv' /\ SteersSymmetrically'
<1>1. /\ \A c \in Cars : MidError(c) \in -Center .. Center
      /\ MidError("mirror") = -MidError("car")
      /\ MidError("car") \in Int /\ MidError("mirror") \in Int
  BY MidErrors DEF TypeOK
<1>2. /\ \A c \in Cars : Output(c, gyro) \in Int
      /\ Output("mirror", gyro) = -Output("car", gyro)
      /\ \A c \in Cars : Integral(c) \in -IntMax .. IntMax
      /\ Integral("mirror") = -Integral("car")
  BY OutputOdd
<1>3. current_running_speed \in Int
  BY SteeringAssumption DEF TypeOK
<1> DEFINE t(c) == Turn(MidError(c), Output(c, gyro))
<1>4. \A c \in Cars : t(c)[1] \in Int /\ t(c)[2] \in Int
  BY <1>1, <1>2, <1>3, TurnMirrored DEF Cars
<1>5. MidError("car") # 0 =>
        t("mirror")[1] = t("car")[2] /\ t("mirror")[2] = t("car")[1]
  <2> DEFINE e == MidError("car")
             o == Output("car", gyro)
  <2>1. e \in Int /\ o \in Int
    BY <1>1, <1>2 DEF Cars
  <2>2. t("mirror") = Turn(-e, -o) /\ t("car") = Turn(e, o)
    BY <1>1, <1>2
  <2> HIDE DEF e, o, t
  <2>3. e # 0 => Turn(-e, -o)[1] = Turn(e, o)[2] /\ Turn(-e, -o)[2] = Turn(e, o)[1]
    BY <1>3, <2>1, TurnMirrored
  <2> QED
    BY <2>2, <2>3 DEF e
<1>6. /\ error_last' = [c \in Cars |-> MidError(c)]
      /\ integral' = [c \in Cars |-> Integral(c)]
      /\ target' = [c \in Cars |-> [left |-> Forward(t(c)[1]),
                                    right |-> Forward(t(c)[2])]]
      /\ same' = Again(gyro)
  BY DEF DirectionTurn
<1> HIDE DEF t
<1>7. \A c \in Cars : Forward(t(c)[1]) \in Nat /\ Forward(t(c)[2]) \in Nat
  BY <1>4 DEF Forward
<1>8. \A c \in Cars : [left |-> Forward(t(c)[1]), right |-> Forward(t(c)[2])]
                        \in [Wheels -> Nat \cup {Basic}]
  BY <1>7 DEF Wheels
<1>9. same' \in 0 .. IntMax + 1
  <2>1. IntMax \in Nat /\ same \in 0 .. IntMax + 1
    BY SteeringAssumption DEF TypeOK
  <2> QED
    BY <1>6, <2>1 DEF Again
<1>10. OppositeInv'
  BY <1>1, <1>2, <1>6 DEF OppositeInv, Cars
<1>11. SteersSymmetrically'
  BY <1>5, <1>6 DEF SteersSymmetrically, Cars
<1> QED
  BY <1>1, <1>2, <1>6, <1>8, <1>9, <1>10, <1>11

\* The types are kept by every step.
LEMMA TypeStep == Inv /\ [Next]_vars => TypeOK'
<1> SUFFICES ASSUME Inv, [Next]_vars PROVE TypeOK'
  OBVIOUS
<1> USE DEF Inv
<1>0. /\ Center \in Nat /\ IntMax \in Nat /\ Means \subseteq Columns
      /\ 0 \in -Center .. Center /\ 0 \in -IntMax .. IntMax /\ 0 \in 0 .. IntMax + 1
  BY SteeringAssumption
<1>1. CASE ImageProcess
  <2>1. mean' \in Columns
    BY <1>0, <1>1 DEF ImageProcess, TypeOK
  <2>2. final_mid_line' \in Columns
    BY <1>1, <2>1, FilteredInImage DEF ImageProcess, TypeOK
  <2> QED
    BY <1>1, <2>1, <2>2 DEF ImageProcess, TypeOK, pid, thread
<1>2. CASE Hold
  BY <1>2 DEF Hold, TypeOK, pid, thread
<1>3. CASE MotorProcess
  <2>1. UNCHANGED <<phase, flags, pending, picture, current_running_speed>>
    BY <1>3 DEF MotorProcess, thread
  <2>2. CASE \E gyro \in Gyros : DirectionTurn(gyro)
    <3>1. PICK gyro \in Gyros : DirectionTurn(gyro)
      BY <2>2
    <3>2. direction_counter' = 0 /\ fresh' = FALSE
      BY <3>1 DEF DirectionTurn
    <3> QED
      BY <2>1, <3>1, <3>2, TurnStep DEF TypeOK, picture
  <2>3. CASE /\ direction_counter + 1 < 2
             /\ direction_counter' = direction_counter + 1
             /\ UNCHANGED <<pid, target, same, fresh>>
    BY <2>1, <2>3 DEF TypeOK, picture, pid
  <2>4. CASE /\ target' = [c \in Cars |-> [w \in Wheels |-> Basic]]
             /\ same' = 0 /\ UNCHANGED <<direction_counter, pid, fresh>>
    BY <1>0, <2>1, <2>4 DEF TypeOK, picture, pid
  <2> QED
    BY <1>3, <2>2, <2>3, <2>4 DEF MotorProcess
<1>4. CASE Debug
  BY <1>4 DEF Debug, TypeOK, picture, pid
<1>5. CASE StartCar
  BY <1>5 DEF StartCar, TypeOK, picture, pid, Phases
<1>6. CASE MotorReset
  <2>1. PICK store \in pending :
          /\ Reset(store)
          /\ \/ store = "outer" /\ ClearTarget("left", "right")
             \/ store = "inner" /\ ClearTarget("right", "left")
             \/ store \notin {"outer", "inner"} /\ UNCHANGED target
          /\ \/ pending' = pending \ {store} /\ UNCHANGED phase
             \/ pending' = Flags /\ phase' = "go"
    BY <1>6 DEF MotorReset
  <2>2. same' = 0 /\ UNCHANGED <<flags, picture, current_running_speed, fresh>>
    BY <1>6 DEF MotorReset
  <2>3. target' \in [Cars -> [Wheels -> Nat \cup {Basic}]]
    BY <2>1, ClearTargetStep DEF TypeOK, Wheels
  <2>4. /\ error_last' \in [Cars -> -Center .. Center]
        /\ integral' \in [Cars -> -IntMax .. IntMax]
        /\ direction_counter' \in {0, 1}
    BY <1>0, <2>1 DEF Reset, TypeOK, Zero
  <2>5. phase' \in Phases /\ pending' \subseteq Stores \cup Flags
    BY <2>1 DEF TypeOK, Phases
  <2>6. same' \in 0 .. IntMax + 1
    BY <1>0, <2>2
  <2> QED
    BY <2>2, <2>3, <2>4, <2>5, <2>6 DEF TypeOK, picture
<1>7. CASE Go
  <2>1. phase' \in Phases /\ flags' \subseteq Flags /\ pending' \subseteq Flags
    BY <1>7 DEF Go, Inv, PhaseInv, TypeOK, Phases
  <2> QED
    BY <1>7, <2>1 DEF Go, TypeOK, picture, pid
<1>8. CASE SetSpeed
  BY <1>8 DEF SetSpeed, TypeOK, picture, pid, thread
<1>9. CASE StopCar
  <2>1. /\ phase' \in Phases /\ flags' \subseteq Flags
        /\ same' \in 0 .. IntMax + 1
    BY <1>0, <1>9 DEF StopCar, StopFlag, StopWheel, TypeOK, Phases
  <2>2. target' \in [Cars -> [Wheels -> Nat \cup {Basic}]]
    BY <1>9, ClearTargetStep DEF StopCar, StopFlag, StopWheel, TypeOK, Wheels
  <2> QED
    BY <1>9, <2>1, <2>2 DEF StopCar, TypeOK, picture, pid
<1>10. CASE UNCHANGED vars
  BY <1>10 DEF vars, TypeOK, picture, pid, thread
<1> QED
  BY <1>1, <1>2, <1>3, <1>4, <1>5, <1>6, <1>7, <1>8, <1>9, <1>10 DEF Next

-----------------------------------------------------------------------------
(***************************************************************************)
(* The mirrored car                                                        *)
(***************************************************************************)

\* Opposite controllers and mirrored targets are kept by every step.
LEMMA MirrorStep == Inv /\ [Next]_vars => OppositeInv' /\ SteersSymmetrically'
<1> SUFFICES ASSUME Inv, [Next]_vars PROVE OppositeInv' /\ SteersSymmetrically'
  OBVIOUS
<1> USE DEF Inv
<1>1. CASE UNCHANGED <<pid, target>>
  BY <1>1 DEF OppositeInv, SteersSymmetrically, pid
<1>2. CASE MotorProcess
  <2>1. CASE \E gyro \in Gyros : DirectionTurn(gyro)
    BY <2>1, TurnStep
  <2>2. CASE /\ target' = [c \in Cars |-> [w \in Wheels |-> Basic]]
             /\ UNCHANGED pid
    BY <2>2 DEF OppositeInv, SteersSymmetrically, pid, Cars, Wheels
  <2> QED
    BY <1>1, <1>2, <2>1, <2>2 DEF MotorProcess
<1>3. ASSUME NEW wheel \in Wheels, NEW other \in Wheels, wheel # other,
             ClearTarget(wheel, other),
             error_last' = error_last \/ error_last'["car"] = 0
      PROVE  SteersSymmetrically'
  <2>1. /\ target'["car"][wheel] = 0 /\ target'["mirror"][other] = 0
        /\ target'["car"][other] = target["car"][other]
        /\ target'["mirror"][wheel] = target["mirror"][wheel]
    BY <1>3, ClearTargetStep
  <2> QED
    BY <1>3, <2>1 DEF SteersSymmetrically, Wheels
<1>4. CASE MotorReset
  <2>1. PICK store \in pending :
          /\ Reset(store)
          /\ \/ store = "outer" /\ ClearTarget("left", "right")
             \/ store = "inner" /\ ClearTarget("right", "left")
             \/ store \notin {"outer", "inner"} /\ UNCHANGED target
    BY <1>4 DEF MotorReset
  <2>2. /\ Zero["car"] = 0 /\ Zero["mirror"] = 0 /\ Zero["mirror"] = -Zero["car"]
    <3>1. Zero["car"] = 0 /\ Zero["mirror"] = 0
      BY DEF Zero, Cars
    <3> QED
      BY <3>1, ZeroOpposite, 0 \in Int, Zenon
  <2>3. OppositeInv'
    BY <2>1, <2>2 DEF Reset, OppositeInv
  <2>4. error_last' = error_last \/ error_last'["car"] = 0
    BY <2>1, <2>2 DEF Reset
  <2>5. SteersSymmetrically'
    BY <1>3, <2>1, <2>4 DEF SteersSymmetrically, Wheels
  <2> QED
    BY <2>3, <2>5
<1>5. CASE StopCar
  <2>1. UNCHANGED pid
    BY <1>5 DEF StopCar
  <2>2. \/ UNCHANGED target \/ ClearTarget("left", "right")
        \/ ClearTarget("right", "left")
    BY <1>5 DEF StopCar, StopFlag, StopWheel
  <2> QED
    BY <1>1, <1>3, <2>1, <2>2 DEF pid, OppositeInv, Wheels
<1> QED
  BY <1>1, <1>2, <1>4, <1>5
     DEF Next, vars, ImageProcess, Hold, Debug, StartCar, Go, SetSpeed

-----------------------------------------------------------------------------
(***************************************************************************)
(* The reset at the start of a race                                        *)
(***************************************************************************)
LEMMA PhaseStep == Inv /\ [Next]_vars => PhaseInv'
<1> SUFFICES ASSUME Inv, [Next]_vars PROVE PhaseInv'
  OBVIOUS
<1> USE DEF Inv
<1>1. CASE UNCHANGED thread \/ Debug
  BY <1>1 DEF thread, Debug, PhaseInv
<1>2. CASE StartCar
  BY <1>2 DEF StartCar, PhaseInv
<1>3. CASE MotorReset
  BY <1>3 DEF MotorReset, PhaseInv
<1>4. CASE Go
  BY <1>4 DEF Go, PhaseInv
<1>5. CASE StopCar
  BY <1>5 DEF StopCar, StopFlag, StopWheel, PhaseInv
<1> QED
  BY <1>1, <1>2, <1>3, <1>4, <1>5
     DEF Next, vars, ImageProcess, Hold, MotorProcess, SetSpeed

LEMMA CleanStep == Inv /\ [Next]_vars => CleanInv'
<1> SUFFICES ASSUME Inv, [Next]_vars PROVE CleanInv'
  OBVIOUS
<1> USE DEF Inv
<1>1. CASE UNCHANGED <<phase, pending, pid, target, fresh>>
  BY <1>1 DEF CleanInv, pid
<1>2. CASE MotorProcess
  <2>1. CASE fresh' = FALSE
    BY <2>1 DEF CleanInv
  <2>2. CASE /\ target' = [c \in Cars |-> [w \in Wheels |-> Basic]]
             /\ UNCHANGED <<phase, pending, pid, fresh>>
    <3>1. \A c \in Cars, w \in Wheels : target'[c][w] = Basic
      BY <2>2
    <3> QED
      BY <2>2, <3>1 DEF CleanInv, pid, Cars, Wheels
  <2> QED
    BY <1>1, <1>2, <2>1, <2>2 DEF MotorProcess, DirectionTurn, thread
<1>3. CASE Debug
  BY <1>3 DEF Debug, CleanInv
<1>4. CASE StartCar
  BY <1>4 DEF StartCar, CleanInv, Stores
<1>5. CASE MotorReset
  <2>1. PICK store \in pending :
          /\ Reset(store)
          /\ \/ store = "outer" /\ ClearTarget("left", "right")
             \/ store = "inner" /\ ClearTarget("right", "left")
             \/ store \notin {"outer", "inner"} /\ UNCHANGED target
          /\ \/ pending' = pending \ {store}
             \/ pending = {store}
    BY <1>5 DEF MotorReset
  <2>2. phase = "reset" /\ fresh' = fresh
    BY <1>5 DEF MotorReset
  <2>3. \A s \in Stores : s \notin pending' => s = store \/ s \notin pending
    BY <2>1
  <2>4. ASSUME fresh
        PROVE  /\ "error_last" \notin pending' => error_last' = Zero
               /\ "integral" \notin pending' => integral' = Zero
    BY <2>1, <2>2, <2>3, <2>4 DEF CleanInv, Reset, Stores
  <2>5. ASSUME fresh
        PROVE  /\ "outer" \notin pending' =>
                    /\ target'["car"]["left"] \in {0, Basic}
                    /\ target'["mirror"]["right"] \in {0, Basic}
               /\ "inner" \notin pending' =>
                    /\ target'["car"]["right"] \in {0, Basic}
                    /\ target'["mirror"]["left"] \in {0, Basic}
    BY <2>1, <2>2, <2>3, <2>5, ClearTargetStep DEF CleanInv, Stores, Wheels
  <2> QED
    BY <2>2, <2>4, <2>5 DEF CleanInv
<1>6. CASE Go
  <2>1. phase = "go" /\ pending \subseteq Flags
    BY <1>6 DEF Go, PhaseInv
  <2>2. pending \cap Stores = {}
    BY <2>1 DEF Flags, Stores
  <2>3. UNCHANGED <<pid, target, fresh>>
    BY <1>6 DEF Go
  <2> QED
    BY <2>1, <2>2, <2>3 DEF CleanInv, pid, Stores
<1>7. CASE SetSpeed
  BY <1>7 DEF SetSpeed, CleanInv, thread, pid
<1>8. CASE StopCar
  BY <1>8 DEF StopCar, StopFlag, StopWheel, CleanInv
<1> QED
  BY <1>1, <1>2, <1>3, <1>4, <1>5, <1>6, <1>7, <1>8
     DEF Next, vars, ImageProcess, Hold, thread

LEMMA SpecInv == Spec => []Inv
<1>1. Inv /\ [Next]_vars => Inv'
  BY TypeStep, MirrorStep, PhaseStep, CleanStep DEF Inv
<1> QED
  BY <1>1, InitInv, PTL DEF Spec

-----------------------------------------------------------------------------
(***************************************************************************)
(* The end of a windup.  With each turn that the track is seen on the same *)
(* side the sum moves to that side by at least one, from IntMax on the     *)
(* other side at worst; at its limit it stays on the right one.            *)
(***************************************************************************)
WindupInv ==
  same > 0 =>
    /\ error_last["car"] # 0
    /\ \A c \in Cars : error_last[c] > 0 =>
         /\ integral[c] = IntMax \/ integral[c] >= same - IntMax
         /\ same > IntMax => target[c]["left"] > target[c]["right"]

\* An output to the right of at least 10 / Outer makes the left wheel the
\* faster one.
LEMMA OutputTurns ==
  ASSUME NEW e \in Int, e > 0, NEW o \in Int, o >= 0, o * Outer >= 10,
         current_running_speed \in Nat
  PROVE  Forward(Turn(e, o)[1]) > Forward(Turn(e, o)[2])
<1>1. Inner \in Nat /\ Outer \in Nat
  BY SteeringAssumption
<1> DEFINE p == o * Outer
           q == o * Inner
<1>2. p \in Int /\ p >= 10 /\ q \in Nat
  BY <1>1
<1>3. Cut(o, Outer) = p \div 10 /\ Cut(o, Inner) = q \div 10
  BY <1>2 DEF Cut
<1> HIDE DEF p, q
<1>4. p \div 10 \in Int /\ p \div 10 >= 1 /\ q \div 10 \in Nat
  BY <1>2
<1> DEFINE a == p \div 10
           b == q \div 10
<1> HIDE DEF a, b
<1>5. a \in Int /\ a >= 1 /\ b \in Nat
  BY <1>4 DEF a, b
<1>6. Turn(e, o) = <<current_running_speed + a, current_running_speed - b>>
  BY <1>3 DEF Turn, a, b
<1> QED
  BY <1>5, <1>6 DEF Forward

\* A car that sees the track to the right, as in the turn before, and whose sum
\* has come to that side.
LEMMA OutputStrong ==
  ASSUME StrongEnough, NEW m \in Int, m > 0, NEW n \in Int, n > 0
  PROVE  LET S == Kp2 * m * m + Kp * m + Ki * n
         IN  Limit(S, OutMax) \in Int /\ Limit(S, OutMax) >= 0
             /\ Limit(S, OutMax) * Outer >= 10
<1> DEFINE S == Kp2 * m * m + Kp * m + Ki * n
           G == Kp2 + Kp + Ki
<1>1. Kp2 \in Nat /\ Kp \in Nat /\ Ki \in Nat /\ OutMax \in Nat /\ Outer \in Nat
  BY SteeringAssumption
<1>2. S \in Int /\ G \in Nat /\ S >= G
  <2>1. PICK i \in Nat : m = i + 1
    <3>1. m - 1 \in Nat /\ m = (m - 1) + 1
      OBVIOUS
    <3> QED
      BY <3>1
  <2>2. PICK j \in Nat : n = j + 1
    <3>1. n - 1 \in Nat /\ n = (n - 1) + 1
      OBVIOUS
    <3> QED
      BY <3>1
  <2>3. /\ Kp * m = Kp + Kp * i /\ Kp * i \in Nat
        /\ Ki * n = Ki + Ki * j /\ Ki * j \in Nat
    BY <1>1, <2>1, <2>2
  <2>4. m * m = 1 + (2 * i + i * i) /\ 2 * i + i * i \in Nat
    BY <2>1
  <2> DEFINE k == 2 * i + i * i
  <2>5. Kp2 * m * m = Kp2 * (1 + k)
    <3>1. Kp2 * m * m = Kp2 * (m * m)
      BY <1>1
    <3> QED
      BY <2>4, <3>1
  <2> HIDE DEF k
  <2>6. k \in Nat /\ Kp2 * (1 + k) = Kp2 + Kp2 * k /\ Kp2 * k \in Nat
    BY <1>1, <2>4 DEF k
  <2> DEFINE x == Kp2 * k
             y == Kp * i
             z == Ki * j
  <2>7. /\ S = (Kp2 + x) + (Kp + y) + (Ki + z)
        /\ x \in Nat /\ y \in Nat /\ z \in Nat
    BY <2>3, <2>5, <2>6
  <2> HIDE DEF S, x, y, z
  <2> QED
    BY <1>1, <2>7
<1>3. G * Outer >= 10 /\ OutMax * Outer >= 10
  BY DEF StrongEnough
<1> HIDE DEF S, G
<1>4. CASE S > OutMax
  BY <1>1, <1>2, <1>3, <1>4 DEF Limit, S
<1>5. CASE S <= OutMax
  <2>1. Limit(S, OutMax) = S
    BY <1>1, <1>2, <1>5 DEF Limit
  <2>2. S * Outer >= G * Outer
    BY <1>1, <1>2
  <2>3. S * Outer \in Int /\ G * Outer \in Int
    BY <1>1, <1>2
  <2> QED
    BY <1>2, <1>3, <2>1, <2>2, <2>3 DEF S
<1> QED
  BY <1>1, <1>2, <1>4, <1>5

LEMMA WindupTurn ==
  ASSUME StrongEnough, TypeOK, OppositeInv, WindupInv, NEW gyro \in Gyros,
         DirectionTurn(gyro)
  PROVE  WindupInv'
<1>1. /\ \A c \in Cars : MidError(c) \in Int
      /\ MidError("mirror") = -MidError("car")
      /\ MidError("car") \in Int
  BY MidErrors DEF TypeOK, Cars
<1>2. /\ error_last' = [c \in Cars |-> MidError(c)]
      /\ integral' = [c \in Cars |-> Integral(c)]
      /\ target' = [c \in Cars |-> [left |-> Forward(Turn(MidError(c), Output(c, gyro))[1]),
                                    right |-> Forward(Turn(MidError(c), Output(c, gyro))[2])]]
      /\ same' = Again(gyro)
  BY DEF DirectionTurn
<1>3. /\ IntMax \in Nat \ {0} /\ same \in 0 .. IntMax + 1
      /\ current_running_speed \in Nat
  BY SteeringAssumption DEF TypeOK, StrongEnough
<1> SUFFICES ASSUME same' > 0 PROVE WindupInv'
  BY DEF WindupInv
<1>4. gyro = 0 /\ MidError("car") # 0
  BY <1>2 DEF Again
<1>5. \/ MidError("car") # error_last["car"] /\ same' = 1
      \/ /\ MidError("car") = error_last["car"]
         /\ same' = IF same > IntMax THEN same ELSE same + 1
  BY <1>2, <1>4 DEF Again
<1>6. ASSUME NEW c \in Cars, MidError(c) > 0
      PROVE  /\ Integral(c) = IntMax \/ Integral(c) >= same' - IntMax
             /\ same' > IntMax =>
                  Forward(Turn(MidError(c), Output(c, gyro))[1])
                    > Forward(Turn(MidError(c), Output(c, gyro))[2])
  <2> DEFINE m == MidError(c)
             i == integral[c]
             n == Integral(c)
  <2>1. m \in Int /\ m > 0 /\ i \in Int /\ -IntMax <= i /\ i <= IntMax
    <3>1. integral \in [Cars -> -IntMax .. IntMax]
      BY DEF TypeOK
    <3> QED
      BY <1>1, <1>3, <1>6, <3>1
  <2>2. MidError("car") = error_last["car"] => m = error_last[c]
    BY <1>1 DEF OppositeInv, Cars
  <2>3. n = Limit(i + m, IntMax)
    BY DEF Integral
  <2>4. same > 0 /\ m = error_last[c] => i = IntMax \/ i >= same - IntMax
    BY <2>1 DEF WindupInv
  <2> HIDE DEF m, i, n
  <2>5. n \in Int /\ (n = IntMax \/ n >= same' - IntMax)
    <3>1. CASE same' = 1
      BY <1>3, <2>1, <2>3, <3>1 DEF Limit
    <3>2. CASE /\ m = error_last[c] /\ same > 0
               /\ same' = IF same > IntMax THEN same ELSE same + 1
      BY <1>3, <2>1, <2>3, <2>4, <3>2 DEF Limit
    <3> QED
      BY <1>3, <1>5, <2>2, <3>1, <3>2
  <2>6. ASSUME same' > IntMax
        PROVE  Forward(Turn(m, Output(c, gyro))[1]) > Forward(Turn(m, Output(c, gyro))[2])
    <3>1. n > 0
      BY <1>2, <1>3, <1>5, <2>5, <2>6
    <3>2. m = error_last[c]
      BY <1>3, <1>5, <2>2, <2>6
    <3> DEFINE S == Kp2 * m * m + Kp * m + Ki * n
    <3>3. Output(c, gyro) = Limit(S, OutMax)
      <4>1. Output(c, gyro) = Limit(Kp2 * Abs(m) * m + Kp * m + Ki * n
                                      + Kd * (m - m) + Kg * Mirrored(c, 0), OutMax)
        BY <1>4, <3>2 DEF Output, m, n
      <4>2. Abs(m) = m /\ Mirrored(c, 0) = 0 /\ m - m = 0
        <5>1. -0 = 0
          BY ZeroOpposite, 0 \in Int, Zenon
        <5>2. Mirrored(c, 0) = 0
          BY <5>1, Zenon DEF Mirrored
        <5> QED
          BY <2>1, <5>2 DEF Abs
      <4>3. {Kp2, Kp, Ki, Kd, Kg} \subseteq Nat
        BY SteeringAssumption
      <4>4. Kd * 0 = 0 /\ Kg * 0 = 0 /\ S \in Int
        BY <2>1, <2>5, <4>3
      <4> HIDE DEF S
      <4>5. S + 0 + 0 = S
        BY <4>4
      <4> QED
        BY <4>1, <4>2, <4>4, <4>5 DEF S
    <3>4. /\ Output(c, gyro) \in Int /\ Output(c, gyro) >= 0
          /\ Output(c, gyro) * Outer >= 10
      BY <2>1, <2>5, <3>1, <3>3, OutputStrong
    <3> QED
      BY <1>3, <2>1, <3>4, OutputTurns
  <2> QED
    BY <2>5, <2>6 DEF m, n
<1> QED
  BY <1>2, <1>4, <1>6 DEF WindupInv, Cars

LEMMA WindupStep ==
  ASSUME StrongEnough, Inv, WindupInv, [Next]_vars
  PROVE  WindupInv'
<1>1. CASE UNCHANGED <<pid, target, same>>
  BY <1>1 DEF WindupInv, pid
<1>2. CASE \E gyro \in Gyros : DirectionTurn(gyro)
  BY <1>2, WindupTurn DEF Inv
<1>3. CASE same' = 0
  BY <1>3 DEF WindupInv
<1>4. StopCar => same' = 0 \/ UNCHANGED <<pid, target, same>>
  BY DEF StopCar, StopFlag, StopWheel
<1> QED
  BY <1>1, <1>2, <1>3, <1>4
     DEF Next, vars, ImageProcess, Hold, MotorProcess, Debug, StartCar, MotorReset,
         Go, SetSpeed

-----------------------------------------------------------------------------
(***************************************************************************)
(* The theorems                                                            *)
(***************************************************************************)

\* Types: whatever the gains, the mid line stays in the image, the sum within
\* its limit, and no target is negative but in the speed debug mode.
THEOREM TypeCorrect == Spec => []TypeOK
<1>1. Inv => TypeOK
  BY DEF Inv
<1> QED
  BY <1>1, SpecInv, PTL

\* Left and right are never mixed up: the car that sees the mirrored picture
\* gets the targets of the other wheels.
THEOREM SymmetryCorrect == Spec => []SteersSymmetrically
<1>1. Inv => SteersSymmetrically
  BY DEF Inv
<1> QED
  BY <1>1, SpecInv, PTL

\* A race starts with nothing of the races and debug modes before: in whatever
\* order motor_reset and start_car make their stores, and whatever ticks of the
\* interrupt come between them, until the first turn of the direction loop the
\* controller is at zero, and a target zero or the one of the speed loop.
THEOREM StartCorrect == Spec => []StartsClean
<1>1. Inv => StartsClean
  <2> SUFFICES ASSUME Inv, phase \in {"go", "race"}, fresh
               PROVE  /\ error_last = Zero /\ integral = Zero
                      /\ \A c \in Cars, w \in Wheels : target[c][w] \in {0, Basic}
    BY DEF StartsClean
  <2>1. pending \cap Stores = {}
    BY DEF Inv, PhaseInv, Flags, Stores
  <2> QED
    BY <2>1 DEF Inv, CleanInv, Stores, Cars, Wheels
<1> QED
  BY <1>1, SpecInv, PTL

\* Whatever the integral has summed up, and whatever the order of races, debug
\* modes and turns: after IntMax turns that see the track at the same place on
\* one side, the car not turning itself, it steers to that side, if an error of one column moves the outer wheel at all.
THEOREM WindupCorrect ==
  ASSUME StrongEnough
  PROVE  Spec => []WindupEnds
<1>1. Init => WindupInv
  BY DEF Init, WindupInv
<1>2. Inv /\ WindupInv /\ [Next]_vars => WindupInv'
  BY WindupStep
<1>3. Inv /\ WindupInv => WindupEnds
  <2> SUFFICES ASSUME Inv, WindupInv, same > IntMax PROVE WindupEnds
    BY DEF WindupEnds
  <2>1. same > 0
    BY SteeringAssumption DEF Inv, TypeOK
  <2>2. error_last["car"] \in Int /\ error_last["mirror"] = -error_last["car"]
    BY SteeringAssumption DEF Inv, TypeOK, OppositeInv, Cars
  <2>3. CASE error_last["car"] > 0
    BY <2>1, <2>3 DEF WindupInv, WindupEnds, Cars
  <2>4. CASE error_last["car"] < 0
    <3>1. error_last["mirror"] > 0
      BY <2>2, <2>4
    <3>2. target["mirror"]["left"] > target["mirror"]["right"]
      BY <2>1, <3>1 DEF WindupInv, Cars
    <3> QED
      BY <2>2, <2>4, <3>2 DEF Inv, SteersSymmetrically, WindupEnds
  <2> QED
    BY <2>1, <2>2, <2>3, <2>4 DEF WindupInv
<1> QED
  BY <1>1, <1>2, <1>3, SpecInv, PTL DEF Spec

-----------------------------------------------------------------------------
(***************************************************************************)
(* The mid line.  That pictures keep being processed is fairness; that     *)
(* each of them brings the mid line nearer is not.                         *)
(***************************************************************************)

\* Away from the mean the filter goes toward it, next to it the filter stays
\* there, though it cuts off fractions and takes 0 for no last value.
LEMMA FilterContracts ==
  ASSUME NEW temp \in Columns, NEW last \in Columns
  PROVE  LET next == Filtered(temp, last)
         IN  /\ last - temp \in -1 .. 1 => next - temp \in -1 .. 1
             /\ next - temp \in -1 .. 1 \/ Abs(next - temp) < Abs(last - temp)
<1> DEFINE e == last - temp
           next == Filtered(temp, last)
<1>1. temp \in Nat /\ last \in Nat /\ e \in Int /\ last = temp + e
  BY SteeringAssumption DEF Columns
<1>2. CASE last = 0
  <2>1. next - temp = 0
    BY <1>1, <1>2 DEF Filtered
  <2> DEFINE d == next - temp
  <2> HIDE DEF d
  <2>2. d \in -1 .. 1
    BY <2>1 DEF d
  <2> QED
    BY <2>2 DEF d
<1>3. CASE last # 0
  <2>1. next = (5 * temp + e) \div 5
    BY <1>1, <1>3 DEF Filtered
  <2>2. next \in Int /\ next - temp = e \div 5
    BY <1>1, <2>1
  <2> DEFINE d == next - temp
  <2>3. d \in Int /\ 5 * d <= e /\ e < 5 * d + 5
    BY <1>1, <2>2
  <2> HIDE DEF next, d, e
  <2>4. /\ e \in -1 .. 1 => d \in -1 .. 1
        /\ d \in -1 .. 1 \/ Abs(d) < Abs(e)
    BY <1>1, <2>3 DEF Abs
  <2> QED
    BY <2>4 DEF d, e, next
<1> QED
  BY <1>2, <1>3

\* While the camera sees the same for ever: what has come to within a column of
\* it stays there, and every picture processed brings the rest nearer.
LineNears ==
  [][held =>
       /\ held' /\ mean' = mean
       /\ final_mid_line - mean \in -1 .. 1 => final_mid_line' - mean \in -1 .. 1
       /\ ImageProcess => \/ final_mid_line' - mean \in -1 .. 1
                          \/ Abs(final_mid_line' - mean) < Abs(final_mid_line - mean)]_vars

\* The safety half of MidLineSettles, for images of any width: there is a distance
\* that each picture makes smaller, until the mid line is next to the mean.
THEOREM SettlingCorrect == Spec => LineNears
<1> DEFINE Step ==
      held =>
        /\ held' /\ mean' = mean
        /\ final_mid_line - mean \in -1 .. 1 => final_mid_line' - mean \in -1 .. 1
        /\ ImageProcess => \/ final_mid_line' - mean \in -1 .. 1
                           \/ Abs(final_mid_line' - mean) < Abs(final_mid_line - mean)
<1>1. Inv /\ [Next]_vars => [Step]_vars
  <2> SUFFICES ASSUME Inv, Next, held PROVE Step
    OBVIOUS
  <2>1. mean \in Columns /\ final_mid_line \in Columns
    BY DEF Inv, TypeOK
  <2>2. CASE ImageProcess
    <3>1. /\ held' = held /\ mean' = mean
          /\ final_mid_line' = Filtered(mean, final_mid_line)
      BY <2>2 DEF ImageProcess
    <3> QED
      BY <2>1, <3>1, FilterContracts
  <2>3. CASE UNCHANGED picture /\ ~ImageProcess
    BY <2>3 DEF picture
  <2>4. ImageProcess \/ UNCHANGED picture
    BY DEF Next, Hold, MotorProcess, Debug, StartCar, MotorReset, Go, SetSpeed, StopCar
  <2> QED
    BY <2>2, <2>3, <2>4
<1> QED
  BY <1>1, SpecInv, PTL DEF Spec, LineNears

=============================================================================
