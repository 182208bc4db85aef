----------------------------- MODULE ConfigStore ----------------------------
(***************************************************************************)
(* What the configuration module promises: the parameters in use, and one  *)
(* configuration per page of the flash.  Saving and loading are single     *)
(* steps, unless the power fails: then the page being saved may be torn,   *)
(* that is lack values or its header, or hold nothing, and an erasure may  *)
(* have come to some slots only.  The configuration of another firmware    *)
(* cannot be loaded: trying to empties every slot, and the defaults are    *)
(* used.  To load a torn page may hang, until the power is switched off.   *)
(***************************************************************************)
EXTENDS Integers

CONSTANTS
  Items, Values,   \* the parameters and what they may be
  Erased,          \* the value of a parameter that was not written
  Default,         \* the default configuration
  Slots, AutoPage  \* the user's pages, and the one loaded at power on

Configs == [Items -> Values]
Pages   == Slots \cup {AutoPage}

Empty         == [kind |-> "empty",   config |-> Default, torn |-> FALSE]
Foreign(t)    == [kind |-> "foreign", config |-> Default, torn |-> t]
Holding(c, t) == [kind |-> "config",  config |-> c,       torn |-> t]

VARIABLES
  power,   \* "off", "on", or "hung": on, but for nothing
  store,   \* what each page holds
  live     \* the parameters in use

storeVars == <<power, store, live>>

Init ==
  /\ power = "off" /\ live = Default
  /\ store \in [Pages -> {Empty, Foreign(FALSE)}
                          \cup {Holding(c, FALSE) : c \in Configs}]

Edit ==
  /\ power = "on"
  /\ \E i \in Items, v \in Values \cup {Erased} :
       live' = [live EXCEPT ![i] = v]
  /\ UNCHANGED <<power, store>>

Save ==
  /\ power = "on" /\ UNCHANGED <<power, live>>
  /\ \E page \in Pages : store' = [store EXCEPT ![page] = Holding(live, FALSE)]

EraseSlots ==
  /\ power' = "on" /\ live' = Default
  /\ store' = [p \in Pages |-> IF p \in Slots THEN Empty ELSE store[p]]

\* An empty page gives the defaults, which is what Empty.config is.
Load(page) ==
  \/ /\ store[page].kind # "foreign"
     /\ power' = "on" /\ live' = store[page].config /\ UNCHANGED store
  \/ store[page].kind = "foreign" /\ EraseSlots
  \/ store[page].torn /\ power' = "hung" /\ UNCHANGED <<store, live>>

LoadSlot == power = "on" /\ \E slot \in Slots : Load(slot)
EraseAll == power = "on" /\ EraseSlots
PowerOn  == power = "off" /\ Load(AutoPage)

PowerGone == power' = "off" /\ live' = Default
PowerOff  == power # "off" /\ PowerGone /\ UNCHANGED store

\* What a save that the power has cut short leaves in its page: nothing, a part
\* of the header, some of the values, or all of them.
Torn == {Empty, Foreign(TRUE)}
          \cup {Holding([i \in Items |-> IF i \in S THEN live[i] ELSE Erased],
                        S # Items) : S \in SUBSET Items}

SaveCut ==
  /\ power = "on" /\ PowerGone
  /\ \E page \in Pages :
       store'[page] \in Torn /\ store' = [store EXCEPT ![page] = store'[page]]

\* An erasure has been asked for, or was begun when the power came on.
EraseCut ==
  /\ power = "on" \/ (power = "off" /\ store[AutoPage].kind = "foreign")
  /\ PowerGone
  /\ \E S \in SUBSET Slots :
       store' = [p \in Pages |-> IF p \in S THEN Empty ELSE store[p]]

Next == Edit \/ Save \/ LoadSlot \/ EraseAll
        \/ PowerOn \/ PowerOff \/ SaveCut \/ EraseCut

Spec == Init /\ [][Next]_storeVars

=============================================================================
