-------------------------- MODULE KeyScan_proofs ---------------------------
(***************************************************************************)
(* Proofs about KeyScan and KeyPress, for any number of keys and all the   *)
(* times of the driver and of the menu: the types; that a release tells    *)
(* the kind of press, whoever scans; and that a press gives as many events *)
(* as it should, all of its key.                                           *)
(***************************************************************************)
EXTENDS KeyPress, WellFoundedInduction, TLAPS

-----------------------------------------------------------------------------
(***************************************************************************)
(* The key that owns the long press is a key: a set of keys has a first    *)
(* one, as the order of the numbers is well-founded.                       *)
(***************************************************************************)
LEMMA FirstIsAKey ==
  ASSUME NEW S \in SUBSET Keys, S # {}
  PROVE  First(S) \in S /\ \A other \in S : First(S) <= other
<1>1. S \subseteq Nat
  BY KeyAssumption DEF Keys
<1> DEFINE less == OpToRel(<, Nat)
<1>2. IsWellFoundedOn(less, Nat)
  BY NatLessThanWellFounded
<1>3. \A x, y \in Nat : <<y, x>> \in less <=> y < x
  BY DEF OpToRel
<1> HIDE DEF less
<1>4. \E x \in S : \A y \in S : <<y, x>> \notin less
  BY <1>1, <1>2, WFMin
<1>5. \E x \in S : \A y \in S : x <= y
  <2>1. PICK x \in S : \A y \in S : <<y, x>> \notin less
    BY <1>4
  <2>2. \A y \in S : ~(y < x)
    BY <1>1, <1>3, <2>1
  <2>3. \A y \in S : x <= y
    BY <1>1, <2>2
  <2> QED
    BY <2>3
<1> QED
  BY <1>5 DEF First

-----------------------------------------------------------------------------
(***************************************************************************)
(* One scan                                                                *)
(***************************************************************************)

\* The driver keeps its types, for whatever keys are down.
LEMMA DriverTypes ==
  ASSUME TypeOK, NEW down \in SUBSET Keys
  PROVE  /\ Timed(down) \in [Keys -> 0 .. LongPeriod]
         /\ Sampled(down) \in [Keys -> KeyState]
<1>1. LongPeriod \in Nat
  BY KeyAssumption
<1>2. \A k \in Keys : press_time[k] \in 0 .. LongPeriod /\ state[k] \in KeyState
  BY DEF TypeOK
<1> QED
  BY <1>1, <1>2 DEF Timed, Sampled, Pressed, ReleasedAs, KeyState

\* The state of a key says whether its press is a long one, but of the key that
\* the image display has just cleared.
KindInv ==
  \A k \in Keys :
    /\ state[k] = "LONG_PRESS" => press_time[k] >= LongScans
    /\ press_time[k] >= LongScans =>
         state[k] = "LONG_PRESS" \/ (k = Back /\ state[k] = "RELEASE")

\* A scan makes a key long-pressed when it has been down for long enough.
LEMMA DriverKinds ==
  ASSUME TypeOK, NEW down \in SUBSET Keys, NEW k \in Keys, KindInv
  PROVE  Sampled(down)[k] = "LONG_PRESS" <=> Timed(down)[k] >= LongScans
<1>1. /\ LongPeriod \in Nat /\ LongScans \in Nat \ {0} /\ LongScans <= LongPeriod
  BY KeyAssumption
<1>2. press_time[k] \in 0 .. LongPeriod
  BY DEF TypeOK
<1>3. state[k] = "LONG_PRESS" => press_time[k] >= LongScans
  BY DEF KindInv
<1>4. /\ Timed(down)[k] = IF k \notin down THEN 0
                          ELSE IF Pressed(k) > LongPeriod THEN LongPeriod
                          ELSE Pressed(k)
      /\ Sampled(down)[k] = IF k \notin down THEN ReleasedAs(k)
                            ELSE IF Pressed(k) >= LongScans THEN "LONG_PRESS"
                            ELSE state[k]
  BY DEF Timed, Sampled
<1>5. CASE k \notin down
  BY <1>1, <1>4, <1>5 DEF ReleasedAs
<1>6. CASE k \in down
  BY <1>1, <1>2, <1>3, <1>4, <1>6 DEF Pressed
<1> QED
  BY <1>5, <1>6

\* A key that a scan finds released, after it has been down.
LEMMA DriverReleases ==
  ASSUME TypeOK, KindInv, NEW down \in SUBSET Keys, NEW k \in Keys,
         press_time[k] > 0, Timed(down)[k] = 0,
         ~(k = Back /\ press_time[k] >= LongScans /\ state[k] = "RELEASE")
  PROVE  Sampled(down)[k] = "SHORT_PRESS"
           <=> Shock <= press_time[k] /\ press_time[k] < LongScans
<1>1. /\ LongPeriod \in Nat \ {0} /\ LongScans \in Nat /\ Shock \in Nat
      /\ LongScans <= LongPeriod
  BY KeyAssumption
<1>2. press_time[k] \in 0 .. LongPeriod
  BY DEF TypeOK
<1>3. k \notin down
  BY <1>1, <1>2 DEF Timed, Pressed
<1>4. Sampled(down)[k] = ReleasedAs(k)
  BY <1>3 DEF Sampled
<1>5. state[k] = "LONG_PRESS" <=> press_time[k] >= LongScans
  BY DEF KindInv
<1> QED
  BY <1>1, <1>2, <1>4, <1>5 DEF ReleasedAs

\* The menu's part of a scan keeps its types.
LEMMA MenuTypes ==
  ASSUME TypeOK, NEW down \in SUBSET Keys, MenuKeyScan(down)
  PROVE  /\ long_cnt' \in 0 .. LongPress /\ long_button' \in Keys \cup {None}
         /\ repeat_cnt' \in 0 .. Repeat - 1 /\ event' \in Keys \cup {None}
         /\ last' \in [Keys -> KeyState]
<1>1. LongPress \in Nat \ {0} /\ Repeat \in Nat \ {0}
  BY KeyAssumption
<1> DEFINE now == Sampled(down)
<1>2. now \in [Keys -> KeyState]
  BY DriverTypes
<1>3. /\ long_cnt' = LongCount(now) /\ long_button' = LongButton(now)
      /\ last' = now
  BY DEF MenuKeyScan
<1>4. \/ /\ LongButton(now) # None
         /\ repeat_cnt' = IF repeat_cnt + 1 >= Repeat THEN 0 ELSE repeat_cnt + 1
         /\ event' = IF repeat_cnt + 1 >= Repeat THEN LongButton(now) ELSE None
      \/ /\ LongButton(now) = None /\ UNCHANGED repeat_cnt
         /\ event' = IF Released(now) = {} THEN None ELSE First(Released(now))
  BY DEF MenuKeyScan
<1> HIDE DEF now
<1>5. LongCount(now) \in 0 .. LongPress
  BY <1>1 DEF LongCount, TypeOK
<1>6. Active(now) # {} => First(Active(now)) \in Keys
  <2>1. Active(now) \in SUBSET Keys
    BY DEF Active
  <2> QED
    BY <2>1, FirstIsAKey
<1>7. Released(now) # {} => First(Released(now)) \in Keys
  <2>1. Released(now) \in SUBSET Keys
    BY DEF Released
  <2> QED
    BY <2>1, FirstIsAKey
<1>8. LongButton(now) \in Keys \cup {None}
  BY <1>6 DEF LongButton, TypeOK
<1>9. repeat_cnt' \in 0 .. Repeat - 1
  BY <1>1, <1>4 DEF TypeOK
<1>10. event' \in Keys \cup {None}
  BY <1>4, <1>7, <1>8
<1> QED
  BY <1>2, <1>3, <1>5, <1>8, <1>9, <1>10

-----------------------------------------------------------------------------
(***************************************************************************)
(* The invariant                                                           *)
(***************************************************************************)
Inv == TypeOK /\ KindInv

LEMMA InitInv == Init => Inv
<1> SUFFICES ASSUME Init PROVE Inv
  OBVIOUS
<1>1. /\ LongPeriod \in Nat /\ LongPress \in Nat \ {0} /\ Repeat \in Nat \ {0}
      /\ PromptPolls \in Nat
  BY KeyAssumption
<1>2. TypeOK
  BY <1>1 DEF Init, TypeOK, KeyState
<1>3. KindInv
  BY KeyAssumption DEF Init, KindInv
<1> QED
  BY <1>2, <1>3 DEF Inv

\* Every scan of the driver keeps the types and the kinds.
LEMMA ScanStep ==
  ASSUME Inv, NEW down \in SUBSET Keys, KeyScanner(down)
  PROVE  /\ press_time' \in [Keys -> 0 .. LongPeriod]
         /\ state' \in [Keys -> KeyState]
         /\ KindInv'
<1>1. press_time' = Timed(down) /\ state' = Sampled(down)
  BY DEF KeyScanner
<1>2. \A k \in Keys : Sampled(down)[k] = "LONG_PRESS" <=> Timed(down)[k] >= LongScans
  BY DriverKinds DEF Inv
<1> QED
  BY <1>1, <1>2, DriverTypes DEF Inv, KindInv

LEMMA InvStep == Inv /\ [Next]_vars => Inv'
<1> SUFFICES ASSUME Inv, [Next]_vars PROVE Inv'
  OBVIOUS
<1>0. PromptPolls \in Nat
  BY KeyAssumption
<1>1. CASE MenuScan
  <2>1. PICK down \in SUBSET Keys :
          /\ MenuKeyScan(down)
          /\ \/ UNCHANGED <<mode, polls>> /\ again' = Again(down)
             \/ /\ event' = Enter /\ mode' = "prompt" /\ polls' = 0
                /\ again' = FALSE
             \/ /\ event' = Enter /\ mode' = "image" /\ UNCHANGED polls
                /\ again' = Again(down)
    BY <1>1 DEF MenuScan
  <2>2. /\ mode' \in {"menu", "prompt", "image", "race"}
        /\ polls' \in 0 .. PromptPolls
    BY <1>0, <2>1 DEF Inv, TypeOK
  <2>3. again' \in BOOLEAN
    BY <2>1 DEF Again, Inv, TypeOK
  <2>4. KeyScanner(down)
    BY <2>1 DEF MenuKeyScan
  <2> QED
    BY <2>1, <2>2, <2>3, <2>4, ScanStep, MenuTypes DEF Inv, TypeOK
<1>2. CASE PromptScan
  <2>1. PICK down \in SUBSET Keys : KeyScanner(down) /\ again' = Again(down)
    BY <1>2 DEF PromptScan
  <2>2. again' \in BOOLEAN
    BY <2>1 DEF Again, Inv, TypeOK
  <2>3. /\ mode' \in {"menu", "prompt", "image", "race"}
        /\ polls' \in 0 .. PromptPolls /\ UNCHANGED menuVars
    BY <1>0, <1>2 DEF PromptScan, Inv, TypeOK
  <2> QED
    BY <2>1, <2>2, <2>3, ScanStep DEF Inv, TypeOK, menuVars
<1>3. CASE PromptCancel
  BY <1>3 DEF PromptCancel, Inv, TypeOK, KindInv, driverVars, menuVars
<1>4. CASE RaceEnd
  BY <1>4 DEF RaceEnd, Inv, TypeOK, KindInv, driverVars, menuVars
<1>5. CASE ImageScan
  <2>1. PICK down \in SUBSET Keys :
          /\ press_time' = Timed(down) /\ again' = Again(down)
          /\ \/ /\ Sampled(down)[Back] # "RELEASE" /\ mode' = "menu"
                /\ state' = [Sampled(down) EXCEPT ![Back] = "RELEASE"]
             \/ Sampled(down)[Back] = "RELEASE" /\ state' = Sampled(down)
                /\ UNCHANGED mode
    BY <1>5 DEF ImageScan
  <2>2. UNCHANGED <<menuVars, polls>>
    BY <1>5 DEF ImageScan
  <2>3. /\ Timed(down) \in [Keys -> 0 .. LongPeriod]
        /\ Sampled(down) \in [Keys -> KeyState]
    BY DriverTypes DEF Inv
  <2>4. press_time' \in [Keys -> 0 .. LongPeriod] /\ state' \in [Keys -> KeyState]
    BY <2>1, <2>3 DEF KeyState
  <2>5. \A k \in Keys : \/ state'[k] = Sampled(down)[k]
                        \/ k = Back /\ state'[k] = "RELEASE"
    BY <2>1, <2>3
  <2>6. KindInv'
    <3>1. \A k \in Keys :
            Sampled(down)[k] = "LONG_PRESS" <=> press_time'[k] >= LongScans
      BY <2>1, DriverKinds DEF Inv
    <3> QED
      BY <2>5, <3>1 DEF KindInv
  <2>7. again' \in BOOLEAN /\ mode' \in {"menu", "prompt", "image", "race"}
    BY <2>1 DEF Again, Inv, TypeOK
  <2> QED
    BY <2>2, <2>4, <2>6, <2>7 DEF Inv, TypeOK, menuVars
<1>6. CASE UNCHANGED vars
  BY <1>6 DEF vars, Inv, TypeOK, KindInv, driverVars, menuVars
<1> QED
  BY <1>1, <1>2, <1>3, <1>4, <1>5, <1>6 DEF Next

-----------------------------------------------------------------------------
(***************************************************************************)
(* The theorems                                                            *)
(***************************************************************************)
LEMMA SpecInv == Spec => []Inv
BY InitInv, InvStep, PTL DEF Spec

\* Types: an event is always one of the keys, for any number of them, and no
\* counter passes its limit.
THEOREM TypeCorrect == Spec => []TypeOK
<1>1. Inv => TypeOK
  BY DEF Inv
<1> QED
  BY <1>1, SpecInv, PTL

\* A release tells the kind of press for all periods of the driver with
\* Shock <= LongScans <= LongPeriod, in the menu, the prompt and the image.
THEOREM PressesToldApart == Spec => ReleaseTellsPress
<1> DEFINE Tells ==
      \A k \in Keys :
        press_time[k] > 0 /\ press_time'[k] = 0 /\ ~ClearedByImage(k) =>
          (state'[k] = "SHORT_PRESS"
             <=> Shock <= press_time[k] /\ press_time[k] < LongScans)
<1>1. Inv /\ [Next]_vars => [Tells]_vars
  <2> SUFFICES ASSUME Inv, Next, NEW k \in Keys, press_time[k] > 0,
                      press_time'[k] = 0, ~ClearedByImage(k)
               PROVE  state'[k] = "SHORT_PRESS"
                        <=> Shock <= press_time[k] /\ press_time[k] < LongScans
    OBVIOUS
  <2>1. \E down \in SUBSET Keys :
          press_time' = Timed(down) /\ state'[k] = Sampled(down)[k]
    <3>1. CASE MenuScan \/ PromptScan
      BY <3>1 DEF MenuScan, MenuKeyScan, PromptScan, KeyScanner
    <3>2. CASE ImageScan
      <4>1. k # Back
        BY <3>2 DEF ImageScan, ClearedByImage
      <4>2. PICK down \in SUBSET Keys :
              /\ press_time' = Timed(down)
              /\ \/ state' = [Sampled(down) EXCEPT ![Back] = "RELEASE"]
                 \/ state' = Sampled(down)
        BY <3>2 DEF ImageScan
      <4>3. Sampled(down) \in [Keys -> KeyState]
        BY DriverTypes DEF Inv
      <4> QED
        BY <4>1, <4>2, <4>3
    <3>3. CASE PromptCancel \/ RaceEnd
      BY <3>3 DEF PromptCancel, RaceEnd, driverVars
    <3> QED
      BY <3>1, <3>2, <3>3 DEF Next
  <2>2. PICK down \in SUBSET Keys :
          press_time' = Timed(down) /\ state'[k] = Sampled(down)[k]
    BY <2>1
  <2>3. Timed(down)[k] = 0
    BY <2>2
  <2>4. ~(k = Back /\ press_time[k] >= LongScans /\ state[k] = "RELEASE")
    BY DEF ClearedByImage
  <2> QED
    BY <2>2, <2>3, <2>4, DriverReleases DEF Inv
<1> QED
  BY <1>1, SpecInv, PTL DEF Spec, ReleaseTellsPress

-----------------------------------------------------------------------------
(***************************************************************************)
(* KeyPress: its scans are those of KeyScan, so their invariant holds of   *)
(* them as well.                                                           *)
(***************************************************************************)
LEMMA PressScans == PressSpec => []Inv
<1>1. PressInit => Inv
  BY InitInv DEF PressInit
<1>2. Inv /\ [PressNext]_<<vars, pressVars>> => Inv'
  <2>1. [PressNext]_<<vars, pressVars>> => [Next]_vars
    BY DEF PressNext
  <2> QED
    BY <2>1, InvStep
<1> QED
  BY <1>1, <1>2, PTL DEF PressSpec

\* Repetitions that are due of a key that has been down for h scans.
Repeats(h) == IF h + 2 > LongScans + LongPress
              THEN h + 2 - LongScans - LongPress ELSE 0

\* After e events the repetitions are ahead of the scans by less than a period,
\* wherever the last press has left the counter.
Ahead(h, e) == Repeat * e + repeat_cnt - Repeats(h) \in 0 .. Repeat - 1

\* Key k has been down for h scans and has given e events: all others are
\* released, and what the driver and the menu know of k follows from h.
HeldFor(k, h, e) ==
  /\ \A other \in Keys \ {k} : /\ press_time[other] = 0
                               /\ state[other] = "RELEASE"
                               /\ last[other] = "RELEASE"
  /\ press_time[k] = IF h > LongPeriod THEN LongPeriod ELSE h
  /\ state[k] = IF h >= LongScans THEN "LONG_PRESS" ELSE "RELEASE"
  /\ last[k] = state[k]
  /\ long_cnt = IF h < LongScans THEN 0
                ELSE IF h - LongScans + 1 > LongPress THEN LongPress
                ELSE h - LongScans + 1
  /\ long_button = IF h + 1 >= LongScans + LongPress THEN k ELSE None
  /\ Ahead(h, e)

Holding == held > 0 /\ HeldFor(who, held, events)

\* The first scan with all keys up: a long press has given its last event, a
\* short one has it yet to come.
Ended ==
  /\ held > 0
  /\ \A k \in Keys \ {who} : last[k] = "RELEASE"
  /\ last[who] = IF Shock <= held /\ held < LongScans
                 THEN "SHORT_PRESS" ELSE "RELEASE"
  /\ IF held < LongScans THEN events = 0
     ELSE events > 0 /\ Ahead(held, events - 1)

\* All events are out.
Over ==
  /\ held > 0
  /\ IF held < Shock THEN events = 0
     ELSE events > 0 /\ Ahead(held, events - 1)

Quiet ==
  /\ \A k \in Keys : state[k] = "RELEASE" /\ last[k] = "RELEASE"
  /\ long_cnt = 0 /\ long_button = None

PressTypes ==
  who \in Keys \cup {None} /\ held \in Nat /\ quiet \in 0 .. 2 /\ events \in Nat

PressInv ==
  /\ PressTypes
  /\ quiet > 0 => \A k \in Keys : press_time[k] = 0
  /\ quiet = 2 => Quiet
  /\ who # None =>
       /\ quiet = 0 => Holding
       /\ quiet = 1 => Ended
       /\ quiet = 2 => Over
  /\ EventsOfThatKey

\* All times at once.
LEMMA Times ==
  /\ LongPeriod \in Nat /\ LongScans \in Nat /\ Shock \in Nat \ {0}
  /\ Shock <= LongScans /\ LongScans <= LongPeriod
  /\ LongPress \in Nat /\ LongPress > 1 /\ Repeat \in Nat \ {0}
  /\ None \notin Keys
BY KeyAssumption, PressAssumption DEF Keys, None

-----------------------------------------------------------------------------
(***************************************************************************)
(* A scan of the menu when at most one key is not released                 *)
(***************************************************************************)
LEMMA FirstOfOne ==
  ASSUME NEW k \in Keys
  PROVE  First({k}) = k
<1>1. First({k}) \in {k}
  BY FirstIsAKey
<1> QED
  BY <1>1

\* Nobody has the long press; a key that was active before is the event.
LEMMA NoneActive ==
  ASSUME NEW down \in SUBSET Keys, MenuKeyScan(down),
         \A k \in Keys : Sampled(down)[k] = "RELEASE"
  PROVE  /\ long_cnt' = 0 /\ long_button' = None /\ repeat_cnt' = repeat_cnt
         /\ (\A k \in Keys : last[k] = "RELEASE") => event' = None
         /\ \A k \in Keys :
              /\ last[k] # "RELEASE"
              /\ \A other \in Keys \ {k} : last[other] = "RELEASE"
              => event' = k
<1> DEFINE now == Sampled(down)
<1>1. Active(now) = {}
  BY DEF Active
<1>2. LongCount(now) = 0 /\ LongButton(now) = None
  BY <1>1 DEF LongCount, LongButton
<1>3. /\ long_cnt' = 0 /\ long_button' = None /\ repeat_cnt' = repeat_cnt
      /\ event' = IF Released(now) = {} THEN None ELSE First(Released(now))
  BY <1>2 DEF MenuKeyScan
<1>4. Released(now) = {k \in Keys : last[k] # "RELEASE"}
  BY DEF Released
<1> HIDE DEF now
<1>5. ASSUME \A k \in Keys : last[k] = "RELEASE"
      PROVE  event' = None
  BY <1>3, <1>4, <1>5
<1>6. ASSUME NEW k \in Keys, last[k] # "RELEASE",
             \A other \in Keys \ {k} : last[other] = "RELEASE"
      PROVE  event' = k
  <2>1. Released(now) = {k}
    BY <1>4, <1>6
  <2> QED
    BY <1>3, <2>1, FirstOfOne
<1> QED
  BY <1>3, <1>5, <1>6

\* The one active key is the one whose long press is counted and repeated.
LEMMA OneActive ==
  ASSUME NEW down \in SUBSET Keys, MenuKeyScan(down), NEW k \in Keys,
         Sampled(down)[k] # "RELEASE",
         \A other \in Keys \ {k} :
           Sampled(down)[other] = "RELEASE" /\ last[other] = "RELEASE",
         long_button \in {None, k}
  PROVE  /\ long_cnt' = IF long_cnt + 1 > LongPress THEN LongPress
                        ELSE long_cnt + 1
         /\ long_button' = IF long_cnt' >= LongPress THEN k ELSE long_button
         /\ long_button' = None => event' = None /\ repeat_cnt' = repeat_cnt
         /\ long_button' = k =>
              IF repeat_cnt + 1 >= Repeat
              THEN repeat_cnt' = 0 /\ event' = k
              ELSE repeat_cnt' = repeat_cnt + 1 /\ event' = None
<1> DEFINE now == Sampled(down)
<1>1. Active(now) = {k}
  BY DEF Active
<1>2. Released(now) = {}
  BY DEF Released
<1>3. First(Active(now)) = k
  BY <1>1, FirstOfOne
<1>4. Active(now) # {}
  BY <1>1
<1>5. /\ LongCount(now) = IF long_cnt + 1 > LongPress THEN LongPress
                          ELSE long_cnt + 1
      /\ LongButton(now) = IF LongCount(now) >= LongPress THEN k ELSE long_button
  BY <1>3, <1>4 DEF LongCount, LongButton
<1>6. /\ long_cnt' = LongCount(now) /\ long_button' = LongButton(now)
      /\ \/ /\ LongButton(now) # None
            /\ repeat_cnt' = IF repeat_cnt + 1 >= Repeat THEN 0 ELSE repeat_cnt + 1
            /\ event' = IF repeat_cnt + 1 >= Repeat THEN LongButton(now) ELSE None
         \/ /\ LongButton(now) = None /\ UNCHANGED repeat_cnt
            /\ event' = IF Released(now) = {} THEN None ELSE First(Released(now))
  BY DEF MenuKeyScan
<1> HIDE DEF now
<1>7. None # k
  BY Times
<1> QED
  BY <1>2, <1>5, <1>6, <1>7

\* What a scan in the menu is, and that Down is the set of keys that are down.
LEMMA MenuStep ==
  ASSUME TypeOK, Next, InMenu
  PROVE  \E down \in SUBSET Keys :
           /\ MenuKeyScan(down) /\ Down = down
           /\ press_time' = Timed(down) /\ state' = Sampled(down)
           /\ last' = Sampled(down)
<1>1. MenuScan
  BY DEF Next, InMenu, PromptScan, PromptCancel, RaceEnd, ImageScan
<1>2. PICK down \in SUBSET Keys : MenuKeyScan(down)
  BY <1>1 DEF MenuScan
<1>3. /\ press_time' = Timed(down) /\ state' = Sampled(down)
      /\ last' = Sampled(down)
  BY <1>2 DEF MenuKeyScan, KeyScanner
<1>4. \A k \in Keys : press_time[k] \in 0 .. LongPeriod
  BY DEF TypeOK
<1>5. \A k \in Keys : Timed(down)[k] > 0 <=> k \in down
  BY <1>4, Times DEF Timed, Pressed
<1>6. Down = down
  BY <1>3, <1>5 DEF Down
<1> QED
  BY <1>2, <1>3, <1>6

-----------------------------------------------------------------------------
(***************************************************************************)
(* A key that is held, one scan longer                                     *)
(***************************************************************************)
LEMMA OneMore ==
  ASSUME NEW e \in Nat
  PROVE  /\ Repeat * e \in Nat
         /\ Repeat * (e + 1) = Repeat * e + Repeat
BY Times

LEMMA HeldLonger ==
  ASSUME TypeOK, NEW k \in Keys, NEW h \in Nat, NEW e \in Nat,
         HeldFor(k, h, e), MenuKeyScan({k})
  PROVE  /\ event' = None => HeldFor(k, h + 1, e)'
         /\ event' # None => event' = k /\ HeldFor(k, h + 1, e + 1)'
<1> DEFINE now == Sampled({k})
<1>1. press_time' = Timed({k}) /\ state' = now /\ last' = now
  BY DEF MenuKeyScan, KeyScanner
<1>2. \A other \in Keys \ {k} : /\ press_time[other] = 0
                                /\ state[other] = "RELEASE"
                                /\ last[other] = "RELEASE"
  BY DEF HeldFor
<1>3. \A other \in Keys \ {k} :
        Timed({k})[other] = 0 /\ now[other] = "RELEASE"
  BY <1>2, Times DEF Timed, Sampled, ReleasedAs
<1>4. /\ press_time[k] = IF h > LongPeriod THEN LongPeriod ELSE h
      /\ state[k] = IF h >= LongScans THEN "LONG_PRESS" ELSE "RELEASE"
  BY DEF HeldFor
<1>5. /\ Timed({k})[k] = IF h + 1 > LongPeriod THEN LongPeriod ELSE h + 1
      /\ now[k] = IF h + 1 >= LongScans THEN "LONG_PRESS" ELSE "RELEASE"
  BY <1>4, Times DEF Timed, Sampled, Pressed
<1>6. long_cnt = IF h < LongScans THEN 0
                 ELSE IF h - LongScans + 1 > LongPress THEN LongPress
                 ELSE h - LongScans + 1
  BY DEF HeldFor
<1>7. long_button = IF h + 1 >= LongScans + LongPress THEN k ELSE None
  BY DEF HeldFor
<1>8. Ahead(h, e)
  BY DEF HeldFor
<1>9. repeat_cnt \in 0 .. Repeat - 1
  BY DEF TypeOK
<1> HIDE DEF now
<1>10. CASE h + 1 < LongScans
  <2>1. \A other \in Keys : now[other] = "RELEASE" /\ last[other] = "RELEASE"
    BY <1>2, <1>3, <1>4, <1>5, <1>10, Times DEF HeldFor
  <2>2. /\ long_cnt' = 0 /\ long_button' = None /\ repeat_cnt' = repeat_cnt
        /\ event' = None
    BY <2>1, NoneActive DEF now
  <2>3. Ahead(h + 1, e)'
    BY <1>8, <1>10, <2>2, Times DEF Ahead, Repeats
  <2>4. HeldFor(k, h + 1, e)'
    BY <1>1, <1>3, <1>5, <1>10, <2>2, <2>3, Times DEF HeldFor
  <2> QED
    BY <2>2, <2>4
<1>11. CASE h + 1 >= LongScans
  <2>1. now[k] # "RELEASE" /\ long_button \in {None, k}
    BY <1>5, <1>7, <1>11
  <2>2. /\ long_cnt' = IF long_cnt + 1 > LongPress THEN LongPress
                       ELSE long_cnt + 1
        /\ long_button' = IF long_cnt' >= LongPress THEN k ELSE long_button
        /\ long_button' = None => event' = None /\ repeat_cnt' = repeat_cnt
        /\ long_button' = k =>
             IF repeat_cnt + 1 >= Repeat
             THEN repeat_cnt' = 0 /\ event' = k
             ELSE repeat_cnt' = repeat_cnt + 1 /\ event' = None
    BY <1>2, <1>3, <2>1, OneActive DEF now
  <2>3. long_cnt' = IF h - LongScans + 2 > LongPress THEN LongPress
                    ELSE h - LongScans + 2
    BY <1>6, <1>11, <2>2, Times
  <2>4. long_button' = IF h + 2 >= LongScans + LongPress THEN k ELSE None
    BY <1>7, <2>2, <2>3, Times
  <2>5. \A n \in Nat : Ahead(h + 1, n)' => HeldFor(k, h + 1, n)'
    BY <1>1, <1>3, <1>5, <1>11, <2>3, <2>4, Times DEF HeldFor
  <2>6. CASE h + 2 < LongScans + LongPress
    <3>1. event' = None /\ repeat_cnt' = repeat_cnt
      BY <2>2, <2>4, <2>6, Times
    <3>2. Ahead(h + 1, e)'
      BY <1>8, <2>6, <3>1, Times DEF Ahead, Repeats
    <3> QED
      BY <2>5, <3>1, <3>2
  <2>7. CASE h + 2 >= LongScans + LongPress
    <3>1. Repeats(h + 1) = Repeats(h) + 1 /\ Repeats(h) \in Nat
      BY <2>7, Times DEF Repeats
    <3>2. IF repeat_cnt + 1 >= Repeat
          THEN repeat_cnt' = 0 /\ event' = k
          ELSE repeat_cnt' = repeat_cnt + 1 /\ event' = None
      BY <2>2, <2>4, <2>7, Times
    <3>3. CASE repeat_cnt + 1 >= Repeat
      <4>1. repeat_cnt = Repeat - 1 /\ repeat_cnt' = 0 /\ event' = k /\ event' # None
        BY <1>9, <3>2, <3>3, Times
      <4>2. Ahead(h + 1, e + 1)'
        BY <1>8, <3>1, <4>1, OneMore, Times DEF Ahead
      <4> QED
        BY <2>5, <4>1, <4>2
    <3>4. CASE ~(repeat_cnt + 1 >= Repeat)
      <4>1. repeat_cnt' = repeat_cnt + 1 /\ event' = None
        BY <3>2, <3>4
      <4>2. Ahead(h + 1, e)'
        BY <1>8, <1>9, <3>1, <4>1, OneMore, Times DEF Ahead
      <4> QED
        BY <2>5, <4>1, <4>2
    <3> QED
      BY <3>3, <3>4
  <2> QED
    BY <2>6, <2>7, Times
<1> QED
  BY <1>10, <1>11, Times

-----------------------------------------------------------------------------
(***************************************************************************)
(* The steps of a press that is followed                                   *)
(***************************************************************************)

\* When nothing is left of earlier presses, a key that goes down is a key that
\* has been held for no scan yet.
LEMMA NotYetHeld ==
  ASSUME TypeOK, PressInv, quiet = 2, NEW k \in Keys
  PROVE  HeldFor(k, 0, 0)
<1>1. \A other \in Keys : /\ press_time[other] = 0 /\ state[other] = "RELEASE"
                         /\ last[other] = "RELEASE"
  BY DEF PressInv, Quiet
<1>2. long_cnt = 0 /\ long_button = None
  BY DEF PressInv, Quiet
<1>3. repeat_cnt \in 0 .. Repeat - 1
  BY DEF TypeOK
<1>4. Ahead(0, 0)
  BY <1>3, Times DEF Ahead, Repeats
<1> QED
  BY <1>1, <1>2, <1>4, Times DEF HeldFor

LEMMA BeginStep ==
  ASSUME TypeOK, PressInv, Next, PressBegins
  PROVE  PressInv'
<1>1. InMenu /\ quiet = 2 /\ held' = 1 /\ quiet' = 0
  BY DEF PressBegins
<1>2. events' = IF event' = None THEN 0 ELSE 1
  BY DEF PressBegins
<1>3. PICK k \in Keys : Down = {k} /\ who' = k
  BY DEF PressBegins
<1>4. MenuKeyScan({k})
  BY <1>1, <1>3, MenuStep
<1>5. /\ event' = None => HeldFor(k, 1, 0)'
      /\ event' # None => event' = k /\ HeldFor(k, 1, 1)'
  BY <1>1, <1>4, NotYetHeld, HeldLonger
<1>6. Holding'
  BY <1>1, <1>2, <1>3, <1>5 DEF Holding
<1>7. PressTypes' /\ EventsOfThatKey'
  BY <1>1, <1>2, <1>3, <1>5 DEF PressTypes, EventsOfThatKey
<1> QED
  BY <1>1, <1>6, <1>7 DEF PressInv

LEMMA ContinueStep ==
  ASSUME TypeOK, PressInv, Next, PressContinues
  PROVE  PressInv'
<1>1. /\ InMenu /\ quiet = 0 /\ Down = {who} /\ held' = held + 1
      /\ UNCHANGED <<who, quiet>>
      /\ events' = IF event' = None THEN events ELSE events + 1
  BY DEF PressContinues, Continues
<1>2. held \in Nat /\ events \in Nat
  BY DEF PressInv, PressTypes
<1>3. who \in Keys
  BY <1>1 DEF Down
<1>4. who # None
  BY <1>3, Times
<1>5. HeldFor(who, held, events) /\ held > 0
  BY <1>1, <1>4 DEF PressInv, Holding
<1>6. MenuKeyScan({who})
  BY <1>1, MenuStep
<1>7. \A k \in Keys, h \in Nat, e \in Nat :
        HeldFor(k, h, e) /\ MenuKeyScan({k}) =>
          /\ event' = None => HeldFor(k, h + 1, e)'
          /\ event' # None => event' = k /\ HeldFor(k, h + 1, e + 1)'
  BY HeldLonger
<1>8. PICK k \in Keys, h \in Nat, e \in Nat : k = who /\ h = held /\ e = events
  BY <1>2, <1>3
<1>9. /\ event' = None => HeldFor(k, h + 1, e)'
      /\ event' # None => event' = k /\ HeldFor(k, h + 1, e + 1)'
  BY <1>5, <1>6, <1>7, <1>8
<1>10. /\ who' = k /\ held' = h + 1
       /\ events' = IF event' = None THEN e ELSE e + 1
  BY <1>1, <1>8
<1>11. Holding'
  BY <1>9, <1>10 DEF Holding
<1>12. PressTypes' /\ EventsOfThatKey'
  BY <1>1, <1>2, <1>3, <1>9, <1>10 DEF PressTypes, EventsOfThatKey, PressInv
<1> QED
  BY <1>1, <1>11, <1>12 DEF PressInv

\* No key is down: the driver releases them all, and at once when none has been
\* down in the scan before.
LEMMA UpScan ==
  ASSUME TypeOK, Next, InMenu, Down = {}
  PROVE  /\ MenuKeyScan({})
         /\ state' = Sampled({}) /\ last' = Sampled({})
         /\ \A k \in Keys : press_time'[k] = 0
         /\ \A k \in Keys : Sampled({})[k] = ReleasedAs(k)
         /\ \A k \in Keys : press_time[k] = 0 => ReleasedAs(k) = "RELEASE"
<1>1. MenuKeyScan({}) /\ press_time' = Timed({}) /\ state' = Sampled({})
  BY MenuStep
<1>2. last' = Sampled({})
  BY <1>1 DEF MenuKeyScan
<1>3. \A k \in Keys : Timed({})[k] = 0 /\ Sampled({})[k] = ReleasedAs(k)
  BY DEF Timed, Sampled
<1>4. \A k \in Keys : press_time[k] = 0 => ReleasedAs(k) = "RELEASE"
  BY Times DEF ReleasedAs
<1> QED
  BY <1>1, <1>2, <1>3, <1>4

\* The key comes up after it has been held.
LEMMA ReleaseStep ==
  ASSUME TypeOK, PressInv, Next, KeysUp, quiet = 0, who # None
  PROVE  Ended' /\ event' \in {None, who}
<1>1. /\ InMenu /\ Down = {} /\ UNCHANGED <<who, held>>
      /\ events' = IF event' = None THEN events ELSE events + 1
  BY DEF KeysUp
<1>2. who \in Keys /\ held \in Nat /\ events \in Nat
  BY DEF PressInv, PressTypes
<1>3. Holding
  BY DEF PressInv
<1>4. /\ MenuKeyScan({}) /\ last' = Sampled({})
      /\ \A k \in Keys : Sampled({})[k] = ReleasedAs(k)
      /\ \A k \in Keys : press_time[k] = 0 => ReleasedAs(k) = "RELEASE"
  BY <1>1, UpScan
<1>5. \A k \in Keys \ {who} : ReleasedAs(k) = "RELEASE" /\ last[k] = "RELEASE"
  BY <1>3, <1>4 DEF Holding, HeldFor
<1>6. /\ press_time[who] = IF held > LongPeriod THEN LongPeriod ELSE held
      /\ state[who] = IF held >= LongScans THEN "LONG_PRESS" ELSE "RELEASE"
      /\ last[who] = state[who]
  BY <1>3 DEF Holding, HeldFor
<1>7. ReleasedAs(who) = IF Shock <= held /\ held < LongScans
                        THEN "SHORT_PRESS" ELSE "RELEASE"
  BY <1>2, <1>6, Times DEF ReleasedAs
<1>8. Ahead(held, events) /\ held > 0
  BY <1>3 DEF Holding, HeldFor
<1>9. repeat_cnt \in 0 .. Repeat - 1
  BY DEF TypeOK
<1>10. CASE held >= LongScans
  <2>1. \A k \in Keys : Sampled({})[k] = "RELEASE"
    BY <1>4, <1>5, <1>7, <1>10, <1>2, Times
  <2>2. last[who] # "RELEASE"
    BY <1>6, <1>10
  <2>3. event' = who /\ repeat_cnt' = repeat_cnt
    BY <1>2, <1>4, <1>5, <2>1, <2>2, NoneActive
  <2>4. events' = events + 1 /\ event' # None
    BY <1>1, <2>3
  <2>5. PICK h \in Nat, e \in Nat : h = held /\ e = events
    BY <1>2
  <2>6. Ahead(h, e)'
    BY <1>8, <2>3, <2>5 DEF Ahead, Repeats
  <2>7. held' = h /\ events' = e + 1 /\ events' > 0 /\ events' - 1 = e
    BY <1>1, <2>4, <2>5
  <2>8. Ahead(held, events - 1)'
    BY <2>6, <2>7
  <2>9. last'[who] = "RELEASE" /\ \A k \in Keys \ {who} : last'[k] = "RELEASE"
    BY <1>2, <1>4, <2>1
  <2> QED
    BY <1>1, <1>2, <1>8, <1>10, <2>3, <2>7, <2>8, <2>9, Times DEF Ended
<1>11. CASE held < LongScans
  <2>1. Repeats(held) = 0 /\ events = 0
    <3>1. Repeats(held) = 0
      BY <1>2, <1>11, Times DEF Repeats
    <3>2. Repeat * events < Repeat
      BY <1>2, <1>8, <1>9, <3>1, OneMore, Times DEF Ahead
    <3>3. events > 0 => Repeat * events >= Repeat
      BY <1>2, Times
    <3> QED
      BY <1>2, <3>1, <3>2, <3>3, OneMore, Times
  <2>2. \A k \in Keys : last[k] = "RELEASE"
    <3>1. last[who] = "RELEASE"
      BY <1>2, <1>6, <1>11, Times
    <3> QED
      BY <1>5, <3>1
  <2>3. event' = None
    <3>1. CASE held < Shock
      <4>1. \A k \in Keys : Sampled({})[k] = "RELEASE"
        BY <1>2, <1>4, <1>5, <1>7, <3>1, Times
      <4> QED
        BY <1>4, <2>2, <4>1, NoneActive
    <3>2. CASE Shock <= held
      <4>1. Sampled({})[who] # "RELEASE"
        BY <1>2, <1>4, <1>7, <1>11, <3>2
      <4>2. long_cnt = 0 /\ long_button = None
        BY <1>2, <1>3, <1>11, Times DEF Holding, HeldFor
      <4>3. /\ long_cnt' = IF long_cnt + 1 > LongPress THEN LongPress
                           ELSE long_cnt + 1
            /\ long_button' = IF long_cnt' >= LongPress THEN who ELSE long_button
            /\ long_button' = None => event' = None
        BY <1>2, <1>4, <1>5, <4>1, <4>2, OneActive
      <4> QED
        BY <4>2, <4>3, Times
    <3> QED
      BY <1>2, <3>1, <3>2, Times
  <2>4. /\ last'[who] = ReleasedAs(who)
        /\ \A k \in Keys \ {who} : last'[k] = "RELEASE"
    BY <1>2, <1>4, <1>5
  <2>5. events' = 0 /\ held' < LongScans
    BY <1>1, <1>11, <2>1, <2>3
  <2> QED
    BY <1>1, <1>7, <1>8, <2>3, <2>4, <2>5 DEF Ended
<1> QED
  BY <1>2, <1>10, <1>11, Times

\* One scan later a short press gives its event; then there are none to come.
LEMMA LastEventStep ==
  ASSUME TypeOK, PressInv, Next, KeysUp, quiet > 0, who # None
  PROVE  Over' /\ event' \in {None, who}
<1>1. /\ InMenu /\ Down = {} /\ UNCHANGED <<who, held>>
      /\ events' = IF event' = None THEN events ELSE events + 1
  BY DEF KeysUp
<1>2. who \in Keys /\ held \in Nat /\ events \in Nat /\ quiet \in {1, 2}
  BY DEF PressInv, PressTypes
<1>3. \A k \in Keys : press_time[k] = 0
  BY DEF PressInv
<1>4. MenuKeyScan({}) /\ \A k \in Keys : Sampled({})[k] = "RELEASE"
  BY <1>1, <1>3, UpScan
<1>5. /\ repeat_cnt' = repeat_cnt
      /\ (\A k \in Keys : last[k] = "RELEASE") => event' = None
      /\ last[who] # "RELEASE" /\ (\A k \in Keys \ {who} : last[k] = "RELEASE")
           => event' = who
  BY <1>2, <1>4, NoneActive
<1>6. repeat_cnt \in 0 .. Repeat - 1
  BY DEF TypeOK
<1>7. \A h, e \in Nat : Ahead(h, e)' <=> Ahead(h, e)
  BY <1>5 DEF Ahead, Repeats
<1>8. PICK h \in Nat, e \in Nat : h = held /\ e = events
  BY <1>2
<1>9. CASE quiet = 1 /\ Shock <= held /\ held < LongScans
  <2>1. Ended
    BY <1>9 DEF PressInv
  <2>2. /\ event' = who /\ event' # None /\ events' = 1 /\ events' - 1 = 0
        /\ events' > 0 /\ held > 0
    BY <1>1, <1>5, <1>9, <2>1 DEF Ended
  <2>3. Ahead(h, 0)'
    BY <1>2, <1>5, <1>6, <1>8, <1>9, OneMore, Times DEF Ahead, Repeats
  <2>4. Ahead(held, events - 1)'
    BY <1>1, <1>8, <2>2, <2>3
  <2> QED
    BY <1>1, <1>2, <1>9, <2>2, <2>4, Times DEF Over
<1>10. CASE ~(quiet = 1 /\ Shock <= held /\ held < LongScans)
  <2>1. /\ \A k \in Keys : last[k] = "RELEASE"
        /\ held > 0
        /\ IF held < Shock THEN events = 0
           ELSE events > 0 /\ Ahead(held, events - 1)
    <3>1. CASE quiet = 2
      BY <3>1 DEF PressInv, Quiet, Over
    <3>2. CASE quiet = 1
      <4>1. Ended
        BY <3>2 DEF PressInv
      <4>2. last[who] = "RELEASE"
        BY <1>10, <3>2, <4>1 DEF Ended
      <4> QED
        BY <1>2, <1>10, <3>2, <4>1, <4>2, Times DEF Ended
    <3> QED
      BY <1>2, <3>1, <3>2
  <2>2. event' = None /\ events' = events
    BY <1>1, <1>5, <2>1
  <2>3. events > 0 /\ Ahead(held, events - 1) => Ahead(held, events - 1)'
    <3> SUFFICES ASSUME events > 0, Ahead(held, events - 1)
                 PROVE  Ahead(held, events - 1)'
      OBVIOUS
    <3>1. e - 1 \in Nat /\ Ahead(h, e - 1)
      BY <1>2, <1>8
    <3>2. Ahead(h, e - 1)'
      BY <1>7, <3>1
    <3> QED
      BY <1>1, <1>8, <2>2, <3>2
  <2> QED
    BY <1>1, <2>1, <2>2, <2>3 DEF Over
<1> QED
  BY <1>9, <1>10

LEMMA UpStep ==
  ASSUME TypeOK, PressInv, Next, KeysUp
  PROVE  PressInv'
<1>1. /\ InMenu /\ Down = {} /\ UNCHANGED <<who, held>>
      /\ quiet' = IF quiet < 2 THEN quiet + 1 ELSE 2
      /\ events' = IF event' = None \/ who = None THEN events ELSE events + 1
  BY DEF KeysUp
<1>2. PressTypes
  BY DEF PressInv
<1>3. PressTypes' /\ quiet' > 0
  BY <1>1, <1>2 DEF PressTypes
<1>4. /\ MenuKeyScan({}) /\ state' = Sampled({}) /\ last' = Sampled({})
      /\ \A k \in Keys : press_time'[k] = 0
      /\ \A k \in Keys : Sampled({})[k] = ReleasedAs(k)
      /\ \A k \in Keys : press_time[k] = 0 => ReleasedAs(k) = "RELEASE"
  BY <1>1, UpScan
<1>5. quiet' = 2 => Quiet'
  <2> SUFFICES ASSUME quiet' = 2 PROVE Quiet'
    OBVIOUS
  <2>1. quiet > 0
    BY <1>1, <1>2 DEF PressTypes
  <2>2. \A k \in Keys : Sampled({})[k] = "RELEASE"
    BY <1>4, <2>1 DEF PressInv
  <2>3. long_cnt' = 0 /\ long_button' = None
    BY <1>4, <2>2, NoneActive
  <2> QED
    BY <1>4, <2>2, <2>3 DEF Quiet
<1>6. CASE who = None
  BY <1>1, <1>3, <1>4, <1>5, <1>6 DEF PressInv, EventsOfThatKey
<1>7. CASE who # None /\ quiet = 0
  <2>1. Ended' /\ event' \in {None, who} /\ quiet' = 1
    BY <1>1, <1>7, ReleaseStep
  <2> QED
    BY <1>1, <1>3, <1>4, <2>1 DEF PressInv, EventsOfThatKey
<1>8. CASE who # None /\ quiet > 0
  <2>1. Over' /\ event' \in {None, who}
    BY <1>8, LastEventStep
  <2>2. quiet' = 2
    BY <1>1, <1>2, <1>8 DEF PressTypes
  <2> QED
    BY <1>1, <1>3, <1>4, <1>5, <2>1, <2>2 DEF PressInv, EventsOfThatKey
<1> QED
  BY <1>2, <1>6, <1>7, <1>8 DEF PressTypes

LEMMA PressInitInv == PressInit => PressInv
<1> SUFFICES ASSUME PressInit PROVE PressInv
  OBVIOUS
<1> QED
  BY DEF PressInit, Init, PressInv, PressTypes, Quiet, EventsOfThatKey, None

LEMMA PressStep ==
  Inv /\ PressInv /\ [PressNext]_<<vars, pressVars>> => PressInv'
<1> SUFFICES ASSUME Inv, PressInv, [PressNext]_<<vars, pressVars>>
             PROVE  PressInv'
  OBVIOUS
<1>0. TypeOK
  BY DEF Inv
<1>1. CASE Next /\ PressBegins
  BY <1>0, <1>1, BeginStep
<1>2. CASE Next /\ PressContinues
  BY <1>0, <1>2, ContinueStep
<1>3. CASE Next /\ KeysUp
  BY <1>0, <1>3, UpStep
<1>4. CASE NotFollowed
  BY <1>4 DEF NotFollowed, PressInv, PressTypes, EventsOfThatKey
<1>5. CASE UNCHANGED <<vars, pressVars>>
  BY <1>5 DEF vars, driverVars, menuVars, pressVars, PressInv, PressTypes, Quiet,
              Holding, HeldFor, Ended, Over, Ahead, Repeats, EventsOfThatKey
<1> QED
  BY <1>1, <1>2, <1>3, <1>4, <1>5 DEF PressNext

LEMMA PressSpecInv == PressSpec => [](Inv /\ PressInv)
<1>1. PressSpec => []PressInv
  BY PressInitInv, PressStep, PressScans, PTL DEF PressSpec
<1> QED
  BY <1>1, PressScans, PTL

\* As many events as repetitions, up to one: the counter is between 0 and a
\* period ahead, so dividing by the period loses less than one event.
LEMMA EventsCounted ==
  ASSUME NEW e \in Nat, NEW r \in Nat, NEW c \in 0 .. Repeat - 1,
         Repeat * e + c - r \in 0 .. Repeat - 1
  PROVE  r \div Repeat <= e /\ e <= (r + Repeat - 1) \div Repeat
<1>1. Repeat \in Nat \ {0}
  BY Times
<1>2. ASSUME NEW a \in Nat
      PROVE  /\ a \div Repeat \in Nat /\ a % Repeat \in 0 .. Repeat - 1
             /\ a = Repeat * (a \div Repeat) + (a % Repeat)
  BY <1>1, <1>2
<1>3. ASSUME NEW x \in Nat, NEW y \in Nat, x < y
      PROVE  Repeat * x + Repeat <= Repeat * y
  BY <1>1, <1>3
<1> DEFINE low == r \div Repeat
           high == (r + Repeat - 1) \div Repeat
<1>4. low \in Nat /\ Repeat * low <= r
  BY <1>1, <1>2
<1>5. high \in Nat /\ Repeat * high + Repeat - 1 >= r + Repeat - 1
  <2>1. r + Repeat - 1 \in Nat
    BY <1>1
  <2> QED
    BY <1>1, <1>2, <2>1
<1> HIDE DEF low, high
<1>6. ~(e < low)
  BY <1>1, <1>3, <1>4
<1>7. ~(high < e)
  BY <1>1, <1>3, <1>5
<1>8. low <= e /\ e <= high
  BY <1>4, <1>5, <1>6, <1>7
<1> QED
  BY <1>8 DEF low, high

\* For every length of a press and all times with LongPress > 1: a press that is
\* long enough gives one event and one more for each period of its long press,
\* to within one; a shorter one gives none.
THEOREM PressCounted == PressSpec => []PressGivesItsEvents
<1>1. Inv /\ PressInv => PressGivesItsEvents
  <2> SUFFICES ASSUME Inv, PressInv, quiet = 2, who # None,
                      ~(held < Shock)
               PROVE  /\ events >= 1 + Repeating \div Repeat
                      /\ events <= 1 + (Repeating + Repeat - 1) \div Repeat
    BY DEF PressGivesItsEvents, PressInv, Over
  <2>1. events > 0 /\ Ahead(held, events - 1) /\ events \in Nat /\ held \in Nat
    BY DEF PressInv, Over, PressTypes
  <2>2. Repeating = Repeats(held)
    BY DEF Repeating, Repeats
  <2>3. Repeating \in Nat
    BY <2>1, Times DEF Repeating
  <2>4. repeat_cnt \in 0 .. Repeat - 1
    BY DEF Inv, TypeOK
  <2> DEFINE e == events - 1
             r == Repeating
  <2>5. e \in Nat /\ r \in Nat /\ events = e + 1
    BY <2>1, <2>3
  <2>6. Repeat * e + repeat_cnt - r \in 0 .. Repeat - 1
    BY <2>1, <2>2 DEF Ahead
  <2> HIDE DEF e, r
  <2>7. r \div Repeat <= e /\ e <= (r + Repeat - 1) \div Repeat
    BY <2>4, <2>5, <2>6, EventsCounted
  <2>8. r \div Repeat \in Int /\ (r + Repeat - 1) \div Repeat \in Int
    BY <2>5, Times
  <2>9. e + 1 >= 1 + r \div Repeat /\ e + 1 <= 1 + (r + Repeat - 1) \div Repeat
    BY <2>5, <2>7, <2>8
  <2> QED
    BY <2>5, <2>9 DEF r
<1> QED
  BY <1>1, PressSpecInv, PTL

\* All the events from when a key has gone down until the next one does are its
\* own, whatever the keys pressed before it have left behind.
THEOREM PressIsOfItsKey == PressSpec => []EventsOfThatKey
<1>1. Inv /\ PressInv => EventsOfThatKey
  BY DEF PressInv
<1> QED
  BY <1>1, PressSpecInv, PTL

=============================================================================
