------------------------------ MODULE MCMenuNav -----------------------------
(***************************************************************************)
(* The menu of menu_example_create, unit for unit and call for call, with  *)
(* unsigned parameters of a few values.                                    *)
(***************************************************************************)
EXTENDS MenuNav, SequencesExt

MainPage == <<"car_start", "parameter", "save_config", "load_config", "debug">>
Pids     == <<"direction_page", "speed_page", "image_page">>
DirectionItems == <<"dir_kp2", "dir_kp", "dir_ki", "dir_kd_img", "dir_kd_g",
                    "inner_ratio", "outer_ratio">>
SpeedItems == <<"speed_kp", "speed_ki", "speed_kd", "basic_speed">>
ImageItems == <<"mid_weight_select", "cross_enable", "stop_enable">>
SaveItems  == <<"save_slot1", "save_slot2", "save_slot3", "save_slot4">>
LoadItems  == <<"load_slot1", "load_slot2", "load_slot3", "load_slot4">>
DebugItems == <<"show_image", "erase_flash", "test", "speed_debug",
                "direction_debug">>

MCPages == {"menu_root", "parameter", "save_config", "load_config", "debug"}
             \cup ToSet(Pids)
MCParams == ToSet(DirectionItems) \cup ToSet(SpeedItems) \cup ToSet(ImageItems)
             \cup {"speed_debug", "direction_debug"}
MCUnits == {"menu_root"} \cup ToSet(MainPage) \cup ToSet(Pids) \cup MCParams
             \cup ToSet(SaveItems) \cup ToSet(LoadItems) \cup ToSet(DebugItems)

MCKind == [u \in MCUnits |-> IF u \in MCPages THEN "PAGE"
                             ELSE IF u \in MCParams THEN "NORMAL"
                             ELSE "FUNCTION"]

AutoRing(items, page) == [i \in DOMAIN items |-> AutoCall(items[i], page)]

\* The menu_link calls of a ring; "into" gives the enter of each unit.
LinkRing(items, into, outof) ==
  [i \in DOMAIN items |->
     LinkCall(items[i],
              items[IF i = 1 THEN Len(items) ELSE i - 1],
              items[IF i = Len(items) THEN 1 ELSE i + 1],
              into[i], outof)]

NoEnter(items) == [i \in DOMAIN items |-> "NULL"]

MCCalls ==
  AutoRing(DirectionItems, "direction_page")
    \o AutoRing(SpeedItems, "speed_page") \o AutoRing(ImageItems, "image_page")
    \o << LinkCall("menu_root", "NULL", "car_start", "car_start", "NULL") >>
    \o LinkRing(MainPage, <<"NULL", "direction_page", "save_slot1",
                            "load_slot1", "show_image">>, "NULL")
    \o LinkRing(Pids, NoEnter(Pids), "parameter")
    \o LinkRing(SaveItems, NoEnter(SaveItems), "save_config")
    \o LinkRing(LoadItems, NoEnter(LoadItems), "load_config")
    \o LinkRing(DebugItems, NoEnter(DebugItems), "debug")

MCStored  == {"mid_weight_select", "cross_enable"}
MCCounted == MCStored \cup {"stop_enable", "speed_debug", "direction_debug"}
MCDefault == [p \in MCCounted |-> IF p \in {"mid_weight_select", "stop_enable"}
                                  THEN 1 ELSE 0]

=============================================================================
