----------------------------- MODULE ConfigFlash ----------------------------
(***************************************************************************)
(* The parameters, the pages of the flash they are kept in, and the menu   *)
(* that edits, saves, loads and erases them (flash.c, menu.c).             *)
(*                                                                         *)
(* The flash is written word by word and the power may fail at any moment: *)
(* saving a page is an erasure and one step per word, erasing the slots is *)
(* one step per slot.  Everything between two flash operations happens in  *)
(* one step: the interrupts touch none of it.                              *)
(*                                                                         *)
(* Abstractions.  A value is an integer in one word, whatever its C type   *)
(* (no item registered by menu_example_create is a double).  A page is the *)
(* sequence of the words programmed since it was erased.  A read beyond it *)
(* may hang the processor, which is why the code asks flash_check first,   *)
(* or come back with the value Blank.  An erasure is atomic.               *)
(***************************************************************************)
EXTENDS Integers, Sequences

CONSTANTS
  N,               \* config_item_count
  SpeedItem,       \* the item whose edit is delayed, basic_speed
  Values,          \* what a parameter may be
  Default,         \* the registered default values
  SlotCount,       \* CONFIG_SAVE_SLOT_COUNT; the page after them is the AUTO page
  Magic, Version,  \* CONFIG_MAGIC_NUMBER, CONFIG_VERSION
  Blank,           \* what an erased word reads as, if at all: 0xFFFFFFFF
  FirstPages       \* what earlier firmware may have left in a page

Items    == 1 .. N
Slots    == 0 .. SlotCount - 1
AutoPage == SlotCount
Pages    == 0 .. SlotCount

ASSUME ConfigAssumption ==
  /\ N \in Nat \ {0} /\ SpeedItem \in Items /\ SlotCount \in Nat \ {0}
  /\ Default \in [Items -> Values]
  /\ Magic \in Int /\ Version \in Int /\ Blank \in Int /\ Values \subseteq Int
  /\ Blank \notin Values \cup {Magic, Version} /\ Blank > N
  /\ FirstPages \subseteq Seq(Int)

VARIABLES
  pc,         \* "off", "menu", "hung", or the flash operation being run
  live,       \* the parameters in use
  temp,       \* temp_basic_speed, what the menu shows and edits
  edit,       \* the item whose edit mode is on, 0 for none
  flash,      \* the words of each page
  job,        \* page and words of the save being run
  wipe,       \* next slot of the erasure being run, and who asked for it
  committed   \* history: flash when the last operation was complete

vars == <<pc, live, temp, edit, flash, job, wipe, committed>>

NoJob  == [page |-> AutoPage, words |-> <<>>]
NoWipe == [next |-> 0, by |-> "nobody"]

-----------------------------------------------------------------------------
(***************************************************************************)
(* The format of a page                                                    *)
(***************************************************************************)

\* config_write_to_buffer: magic number, version, count, then the items.
Image(config) == <<Magic, Version, N>> \o [i \in 1 .. N |-> config[i]]

\* A word of the buffer after a flash_read_page_to_buffer that came back.
Word(page, i) == IF i <= Len(page) THEN page[i] ELSE Blank

\* flash_check and the magic number: otherwise the page is not used at all.
Ours(page) == Word(page, 1) = Magic

\* The version that follows is not the one of this firmware.
Mismatch(page) == Ours(page) /\ Word(page, 2) # Version

Usable(page) == Ours(page) /\ ~Mismatch(page)

\* load_count: the smaller of the saved count and ours.
LoadCount(page) == IF Word(page, 3) < N THEN Word(page, 3) ELSE N

\* A load reads the header, and of a page of this version the count and the
\* items; it asks flash_check for the first word only.  In a page that a save
\* did not complete it comes to words that were never written.
ReadsUnwritten(page, header) ==
  /\ page # <<>>
  /\ Len(page) < IF Usable(page) THEN 3 + LoadCount(page) ELSE header

\* A page that was saved before holds the items that it says it holds.
ASSUME FirstPagesAssumption ==
  \A page \in FirstPages :
    /\ ~ReadsUnwritten(page, 3)
    /\ Usable(page) =>
         \A i \in 1 .. LoadCount(page) : Word(page, 3 + i) \in Values

\* config_read_from_buffer: items the page does not have get their default.
Loaded(page) ==
  IF Usable(page)
  THEN [i \in Items |-> IF i <= LoadCount(page) THEN Word(page, 3 + i)
                                               ELSE Default[i]]
  ELSE Default

-----------------------------------------------------------------------------

Init ==
  /\ pc = "off" /\ live = Default /\ temp = Default[SpeedItem] /\ edit = 0
  /\ flash \in [Pages -> FirstPages]
  /\ job = NoJob /\ wipe = NoWipe
  /\ committed = flash

(***************************************************************************)
(* Loading.  A version mismatch erases the slots, one after the other, and *)
(* then sets the defaults; anything else is done at once, unless a read    *)
(* hangs, which is before any parameter is written.                        *)
(***************************************************************************)
StartWipe(by) ==
  /\ pc' = "wipe" /\ wipe' = [next |-> 0, by |-> by]
  /\ UNCHANGED <<live, flash>>

LoadPage(page, header, by) ==
  \/ /\ ReadsUnwritten(flash[page], header)
     /\ pc' = "hung" /\ wipe' = NoWipe /\ UNCHANGED <<live, flash>>
  \/ Mismatch(flash[page]) /\ StartWipe(by)
  \/ /\ ~Mismatch(flash[page])
     /\ pc' = "menu" /\ live' = Loaded(flash[page])
     /\ wipe' = NoWipe /\ UNCHANGED flash

\* system_init: the variables have their initial values, of which
\* menu_example_create copies basic_speed; then config_auto_load, which reads
\* two words first.
Boot ==
  /\ pc = "off" /\ LoadPage(AutoPage, 2, "boot")
  /\ job' = NoJob /\ committed' = flash
  /\ UNCHANGED <<temp, edit>>

\* menu_func_load_slot1 to 4: config_load_slot, which reads three words first;
\* then they copy basic_speed.
LoadSlot ==
  /\ pc = "menu" /\ edit = 0
  /\ \E slot \in Slots : LoadPage(slot, 3, "load")
  /\ temp' = IF pc' = "menu" THEN live'[SpeedItem] ELSE temp
  /\ UNCHANGED <<edit, job, committed>>

\* menu_func_erase_all_flash
EraseAll ==
  /\ pc = "menu" /\ edit = 0 /\ StartWipe("user")
  /\ UNCHANGED <<temp, edit, job, committed>>

\* Mutant of WipeSlot: the loop takes one page too many.
WipeOnePageMore ==
  /\ pc = "wipe" /\ wipe.next \in Pages
  /\ flash' = [flash EXCEPT ![wipe.next] = <<>>]
  /\ wipe' = [wipe EXCEPT !.next = @ + 1]
  /\ UNCHANGED <<pc, live, temp, edit, job, committed>>

\* config_erase_all_slots, one slot at a time.
WipeSlot ==
  /\ pc = "wipe" /\ wipe.next \in Slots
  /\ flash' = [flash EXCEPT ![wipe.next] = <<>>]
  /\ wipe' = [wipe EXCEPT !.next = @ + 1]
  /\ UNCHANGED <<pc, live, temp, edit, job, committed>>

\* Mutant of WipeDone: the parameters are not reset.
WipeDoneKeepsLive ==
  /\ pc = "wipe" /\ wipe.next \notin Slots
  /\ pc' = "menu" /\ wipe' = NoWipe
  /\ temp' = IF wipe.by = "load" THEN live[SpeedItem] ELSE temp
  /\ committed' = flash
  /\ UNCHANGED <<live, edit, flash, job>>

WipeDone ==
  /\ pc = "wipe" /\ wipe.next \notin Slots
  /\ pc' = "menu" /\ wipe' = NoWipe
  /\ live' = Default
  /\ temp' = IF wipe.by = "load" THEN Default[SpeedItem] ELSE temp
  /\ committed' = flash
  /\ UNCHANGED <<edit, flash, job>>

-----------------------------------------------------------------------------
(***************************************************************************)
(* Editing and saving                                                      *)
(***************************************************************************)

EditEnter ==
  /\ pc = "menu" /\ edit = 0 /\ edit' \in Items
  /\ UNCHANGED <<pc, live, temp, flash, job, wipe, committed>>

\* menu_edit_param: the item's own variable, or temp_basic_speed.
EditParam ==
  /\ pc = "menu" /\ edit # 0
  /\ \E v \in Values :
       \/ edit = SpeedItem /\ temp' = v /\ UNCHANGED live
       \/ edit # SpeedItem /\ live' = [live EXCEPT ![edit] = v]
          /\ UNCHANGED temp
  /\ UNCHANGED <<pc, edit, flash, job, wipe, committed>>

\* config_save_slot and config_auto_save fill the buffer, erase the page ...
StartSave(page, config) ==
  /\ pc' = "erase" /\ job' = [page |-> page, words |-> Image(config)]

\* Leaving the edit mode: the delayed update, then config_auto_save.
EditExit ==
  /\ pc = "menu" /\ edit # 0 /\ edit' = 0
  /\ live' = IF edit = SpeedItem THEN [live EXCEPT ![SpeedItem] = temp]
                                 ELSE live
  /\ StartSave(AutoPage, live')
  /\ UNCHANGED <<temp, flash, wipe, committed>>

\* menu_func_save_slot1 to 4
SaveSlot ==
  /\ pc = "menu" /\ edit = 0
  /\ \E slot \in Slots : StartSave(slot, live)
  /\ UNCHANGED <<live, temp, edit, flash, wipe, committed>>

\* Mutant of Erase: the page is written over what it holds.
EraseNothing ==
  /\ pc = "erase" /\ pc' = "write"
  /\ UNCHANGED <<live, temp, edit, flash, job, wipe, committed>>

Erase ==
  /\ pc = "erase" /\ pc' = "write"
  /\ flash' = [flash EXCEPT ![job.page] = <<>>]
  /\ UNCHANGED <<live, temp, edit, job, wipe, committed>>

\* ... and write it: flash_write_page, word by word.
WriteWord ==
  /\ pc = "write"
  /\ LET done == Len(flash[job.page])
     IN  /\ done < Len(job.words)
         /\ flash' = [flash EXCEPT ![job.page] =
                                     Append(@, job.words[done + 1])]
  /\ UNCHANGED <<pc, live, temp, edit, job, wipe, committed>>

SaveDone ==
  /\ pc = "write" /\ Len(flash[job.page]) = Len(job.words)
  /\ pc' = "menu" /\ job' = NoJob /\ committed' = flash
  /\ UNCHANGED <<live, temp, edit, flash, wipe>>

-----------------------------------------------------------------------------

\* The power is switched off, or fails in the middle of an operation:
\* everything but the flash is lost.
PowerOff ==
  /\ pc # "off"
  /\ pc' = "off" /\ live' = Default /\ temp' = Default[SpeedItem]
  /\ edit' = 0
  /\ UNCHANGED <<flash, job, wipe, committed>>

Next == Boot \/ LoadSlot \/ EraseAll \/ WipeSlot \/ WipeDone
        \/ EditEnter \/ EditParam \/ EditExit
        \/ SaveSlot \/ Erase \/ WriteWord \/ SaveDone \/ PowerOff

Spec == Init /\ [][Next]_vars

-----------------------------------------------------------------------------
(***************************************************************************)
(* Properties                                                              *)
(***************************************************************************)

\* What a parameter can be: a page cut short, if it can be read at all, reads
\* as erased words behind its end.
Readable == Values \cup {Blank}

\* Every variable has its type.
TypeOK ==
  /\ pc \in {"off", "menu", "hung", "erase", "write", "wipe"}
  /\ live \in [Items -> Readable] /\ temp \in Readable /\ edit \in 0 .. N
  /\ flash \in [Pages -> Seq(Int)] /\ committed \in [Pages -> Seq(Int)]
  /\ job \in [page : Pages, words : Seq(Int)]
  /\ wipe \in [next : 0 .. SlotCount, by : {"nobody", "boot", "load", "user"}]

\* Seen between operations, the pages and the parameters are a ConfigStore: a
\* slot gives back what was saved in it, a save touches one page and nothing
\* in use, an erasure empties the slots and restores the defaults; a power
\* failure spoils no more than the page being saved, and erases no slot unless
\* an erasure was under way; only a load of a page spoiled so can hang, and
\* then it changes neither the pages nor the parameters.
Content(page) ==
  [kind   |-> IF Usable(page) THEN "config"
              ELSE IF Mismatch(page) THEN "foreign" ELSE "empty",
   config |-> Loaded(page),
   torn   |-> ReadsUnwritten(page, 3)]

Power == IF pc = "off" \/ (pc = "wipe" /\ wipe.by = "boot") THEN "off"
         ELSE IF pc = "hung" THEN "hung" ELSE "on"

Stored == [p \in Pages |-> Content(IF pc = "off" THEN flash[p] ELSE committed[p])]

Store == INSTANCE ConfigStore
           WITH power <- Power, store <- Stored, Erased <- Blank

ImplementsStore == Store!Spec

\* Wherever the power fails, only the page being saved is at stake, and of an
\* erasure only the slots it has come to: the other pages keep what the last
\* complete operation left there.
OthersUntouched ==
  /\ wipe = NoWipe => \A p \in Pages \ {job.page} : flash[p] = committed[p]
  /\ wipe # NoWipe =>
       \A p \in Pages :
         flash[p] = IF p \in Slots /\ p < wipe.next THEN <<>> ELSE committed[p]

\* Whatever a power failure left in a page, a save that is completed makes it
\* load exactly the parameters that were in use, by reads of words that were
\* written.
SaveRepairs ==
  [][pc = "write" /\ pc' = "menu" =>
       LET page == flash'[job.page]
       IN  Usable(page) /\ Loaded(page) = live /\ ~ReadsUnwritten(page, 3)]_vars

-----------------------------------------------------------------------------
(***************************************************************************)
(* What comments of the code say and its behaviours do not.                *)
(***************************************************************************)

\* flash.h: what config_auto_save saves is not lost when the power fails: the
\* AUTO page gives the parameters of before the save or those of the save.
AutoSaveSurvives ==
  pc = "off" /\ job.page = AutoPage /\ job # NoJob =>
    Loaded(flash[AutoPage]) \in {Loaded(committed[AutoPage]), Loaded(job.words)}

\* flash.c:521-523: flash_check is asked first so that reading a page that was
\* not written does not hang the car.
LoadsDoNotHang == pc # "hung"

\* flash.c:560: a version mismatch at power on means that the page was written
\* by an older firmware.
OnlyOldFlashErases ==
  [][pc = "off" /\ pc' = "wipe" => flash[AutoPage] \in FirstPages]_vars

\* flash.c:151: a version mismatch erases all data of the flash.
MismatchErasesAll ==
  [][pc = "wipe" /\ pc' = "menu" => \A p \in Pages : ~Mismatch(flash'[p])]_vars

\* menu.c:1101: the menu's copy of basic_speed starts from its current value,
\* and menu.c:198: it differs from it only while it is edited.
MenuShowsLiveSpeed ==
  pc = "menu" /\ edit # SpeedItem => temp = live[SpeedItem]

=============================================================================
