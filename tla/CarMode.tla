------------------------------- MODULE CarMode ------------------------------
(***************************************************************************)
(* What starting and stopping promise, seen from the track: the car is in  *)
(* the menu, or it aligns, accelerates and then cruises, in this order.    *)
(* The running speed is zero until the car accelerates, only rises (away   *)
(* from zero) while it does, and is the chosen one when it cruises.  It    *)
(* may be stopped at any moment, and then starts from the beginning.       *)
(***************************************************************************)
EXTENDS Integers

CONSTANT Speeds   \* the speeds that can be chosen

VARIABLES mode, goal, speed

modeVars == <<mode, goal, speed>>

Between(s, t) == (0 <= s /\ s <= t) \/ (t <= s /\ s <= 0)

Init == mode = "menu" /\ goal = 0 /\ speed = 0

Start ==
  /\ mode = "menu" /\ mode' = "align"
  /\ goal' \in Speeds /\ speed' = 0

Launch == mode = "align" /\ mode' = "accelerate" /\ UNCHANGED <<goal, speed>>

SpeedUp ==
  /\ mode = "accelerate" /\ UNCHANGED <<mode, goal>>
  /\ Between(speed, speed') /\ Between(speed', goal)

Cruise ==
  /\ mode = "accelerate" /\ mode' = "cruise"
  /\ speed' = goal /\ UNCHANGED goal

Stop == mode # "menu" /\ mode' = "menu" /\ goal' = 0 /\ speed' = 0

Next == Start \/ Launch \/ SpeedUp \/ Cruise \/ Stop

Spec == Init /\ [][Next]_modeVars

=============================================================================
