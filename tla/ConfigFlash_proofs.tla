------------------------- MODULE ConfigFlash_proofs -------------------------
(***************************************************************************)
(* Proofs about ConfigFlash, for any number of items and slots, any values *)
(* and any pages left by earlier firmware.                                 *)
(***************************************************************************)
EXTENDS ConfigFlash, SequenceTheorems, TLAPS

\* What is read from a page can be used.
Good(page) == Loaded(page) \in [Items -> Readable]

\* The first words of a save.
Begun(page, words) ==
  /\ Len(page) <= Len(words)
  /\ \A i \in 1 .. Len(page) : page[i] = words[i]

-----------------------------------------------------------------------------
(***************************************************************************)
(* The format of a page.                                                   *)
(***************************************************************************)

\* Readable values are integers.
LEMMA ReadableInt == Readable \subseteq Int
BY ConfigAssumption DEF Readable

\* A header of three words and then others.
LEMMA HeaderThenItems ==
  ASSUME NEW h \in Seq(Int), NEW s \in Seq(Int), NEW n \in Nat,
         Len(h) = 3, Len(s) = n
  PROVE  /\ h \o s \in Seq(Int) /\ Len(h \o s) = n + 3
         /\ (h \o s)[1] = h[1] /\ (h \o s)[2] = h[2] /\ (h \o s)[3] = h[3]
         /\ \A i \in 1 .. n : (h \o s)[3 + i] = s[i]
<1>1. /\ h \o s \in Seq(Int)
      /\ Len(h \o s) = Len(h) + Len(s)
      /\ \A i \in 1 .. Len(h) + Len(s) :
           (h \o s)[i] = IF i <= Len(h) THEN h[i] ELSE s[i - Len(h)]
  BY ConcatProperties, Zenon
<1>2. /\ Len(h \o s) = 3 + n
      /\ \A i \in 1 .. 3 + n :
           (h \o s)[i] = IF i <= 3 THEN h[i] ELSE s[i - 3]
  BY <1>1, Zenon
<1>3. /\ 1 \in 1 .. 3 + n /\ 2 \in 1 .. 3 + n /\ 3 \in 1 .. 3 + n
      /\ 1 <= 3 /\ 2 <= 3 /\ 3 <= 3
  OBVIOUS
<1>4. (h \o s)[1] = h[1] /\ (h \o s)[2] = h[2] /\ (h \o s)[3] = h[3]
  BY <1>2, <1>3, Zenon
<1>5. ASSUME NEW i \in 1 .. n PROVE (h \o s)[3 + i] = s[i]
  <2>1. 3 + i \in 1 .. 3 + n /\ ~(3 + i <= 3) /\ (3 + i) - 3 = i
    OBVIOUS
  <2>2. (h \o s)[3 + i] = s[(3 + i) - 3]
    BY <1>2, <2>1, Zenon
  <2> DEFINE j == (3 + i) - 3
  <2>3. j = i
    BY <2>1
  <2>4. (h \o s)[3 + i] = s[j]
    BY <2>2
  <2> HIDE DEF j
  <2> QED BY <2>3, <2>4, Zenon
<1> QED BY <1>1, <1>2, <1>4, <1>5

\* The words of an image: the header, then the items in their order.
LEMMA ImageWords ==
  ASSUME NEW c \in [Items -> Readable]
  PROVE  /\ Image(c) \in Seq(Int) /\ Len(Image(c)) = N + 3
         /\ Image(c)[1] = Magic /\ Image(c)[2] = Version /\ Image(c)[3] = N
         /\ \A i \in Items : Image(c)[3 + i] = c[i]
<1> DEFINE header == <<Magic, Version, N>>
           items  == [i \in 1 .. N |-> c[i]]
<1>1. header \in Seq(Int) /\ Len(header) = 3
  BY ConfigAssumption
<1>2. items \in Seq(Int) /\ Len(items) = N
  <2>1. items \in [1 .. N -> Int]
    BY ReadableInt DEF Items
  <2> QED BY <2>1, ConfigAssumption, SeqDef, LenProperties
<1>4. header[1] = Magic /\ header[2] = Version /\ header[3] = N
  OBVIOUS
<1>5. \A i \in Items : items[i] = c[i]
  BY DEF Items
<1>6. Image(c) = header \o items
  BY DEF Image
<1> HIDE DEF header, items
<1>7. /\ header \o items \in Seq(Int) /\ Len(header \o items) = N + 3
      /\ (header \o items)[1] = header[1] /\ (header \o items)[2] = header[2]
      /\ (header \o items)[3] = header[3]
      /\ \A i \in 1 .. N : (header \o items)[3 + i] = items[i]
  <2>1. N \in Nat
    BY ConfigAssumption
  <2>2. Len(header) = 3 /\ Len(items) = N
    BY <1>1, <1>2
  <2>3. header \in Seq(Int) /\ items \in Seq(Int)
    BY <1>1, <1>2
  <2>4. Len(header \o items) = N + 3
    BY <2>1, <2>2, <2>3, HeaderThenItems
  <2> QED BY <2>1, <2>2, <2>3, <2>4, HeaderThenItems
<1> QED BY <1>4, <1>5, <1>6, <1>7 DEF Items

\* A save that has come to its end is read back as it was, with no read of a
\* word that was not written.
LEMMA CompleteLoads ==
  ASSUME NEW c \in [Items -> Readable], NEW page \in Seq(Int),
         Begun(page, Image(c)), Len(page) = Len(Image(c))
  PROVE  Usable(page) /\ Loaded(page) = c /\ ~ReadsUnwritten(page, 3)
<1>1. /\ Len(page) = N + 3 /\ page[1] = Magic /\ page[2] = Version
      /\ page[3] = N /\ \A i \in Items : page[3 + i] = c[i]
  <2>1. /\ Len(Image(c)) = N + 3
        /\ Image(c)[1] = Magic /\ Image(c)[2] = Version /\ Image(c)[3] = N
        /\ \A i \in Items : Image(c)[3 + i] = c[i]
    BY ImageWords
  <2>2. Len(page) = N + 3 /\ \A i \in 1 .. N + 3 : page[i] = Image(c)[i]
    BY <2>1 DEF Begun
  <2>3. /\ 1 \in 1 .. N + 3 /\ 2 \in 1 .. N + 3 /\ 3 \in 1 .. N + 3
        /\ \A i \in Items : 3 + i \in 1 .. N + 3
    BY ConfigAssumption DEF Items
  <2> QED BY <2>1, <2>2, <2>3, Zenon
<1>2. Word(page, 1) = Magic /\ Word(page, 2) = Version /\ Word(page, 3) = N
  BY <1>1, ConfigAssumption DEF Word
<1>3. Usable(page) /\ LoadCount(page) = N
  BY <1>2, ConfigAssumption DEF Usable, Ours, Mismatch, LoadCount
<1>4. \A i \in Items : i <= N /\ Word(page, 3 + i) = c[i]
  BY <1>1, ConfigAssumption DEF Word, Items
<1>5. ~ReadsUnwritten(page, 3)
  BY <1>1, <1>3, ConfigAssumption DEF ReadsUnwritten
<1> QED BY <1>3, <1>4, <1>5 DEF Loaded

\* However little of a save there is, its items are values or erased words.
LEMMA BegunLoads ==
  ASSUME NEW c \in [Items -> Readable], NEW page \in Seq(Int),
         Begun(page, Image(c))
  PROVE  Good(page)
<1>1. \A i \in Items : Word(page, 3 + i) \in Readable
  <2> SUFFICES ASSUME NEW i \in Items PROVE Word(page, 3 + i) \in Readable
    OBVIOUS
  <2>1. CASE 3 + i <= Len(page)
    <3>1. 3 + i \in 1 .. Len(page)
      BY <2>1, LenProperties, ConfigAssumption DEF Items
    <3>2. page[3 + i] = Image(c)[3 + i]
      BY <3>1 DEF Begun
    <3>3. Image(c)[3 + i] = c[i] /\ c[i] \in Readable
      BY ImageWords
    <3> QED BY <2>1, <3>2, <3>3 DEF Word
  <2>2. CASE ~(3 + i <= Len(page))
    BY <2>2 DEF Word, Readable
  <2> QED BY <2>1, <2>2
<1>2. \A i \in Items : Default[i] \in Readable
  BY ConfigAssumption DEF Readable
<1> QED BY <1>1, <1>2, ConfigAssumption DEF Good, Loaded, Readable

\* An erased page is nobody's, and gives the defaults.
LEMMA EmptyPage ==
  /\ ~Ours(<<>>) /\ Good(<<>>)
  /\ Content(<<>>) = [kind |-> "empty", config |-> Default, torn |-> FALSE]
<1>1. Word(<<>>, 1) = Blank
  BY DEF Word
<1>2. ~Ours(<<>>)
  BY <1>1, ConfigAssumption DEF Ours
<1>3. Loaded(<<>>) = Default /\ ~Usable(<<>>) /\ ~Mismatch(<<>>)
  BY <1>2 DEF Loaded, Usable, Mismatch
<1>4. ReadsUnwritten(<<>>, 3) = FALSE
  BY DEF ReadsUnwritten
<1> QED BY <1>2, <1>3, <1>4, ConfigAssumption DEF Content, Good, Readable

\* The pages found at the first power on can be used.
LEMMA FirstLoads ==
  ASSUME NEW page \in FirstPages
  PROVE  page \in Seq(Int) /\ Loaded(page) \in [Items -> Values]
<1>1. page \in Seq(Int)
  BY ConfigAssumption
<1>2. CASE Usable(page)
  <2>1. ASSUME NEW i \in Items, i <= LoadCount(page)
        PROVE  Word(page, 3 + i) \in Values
    <3>1. Len(page) \in Nat /\ (3 <= Len(page) => page[3] \in Int)
      BY <1>1, LenProperties
    <3>2. Word(page, 3) \in Int
      BY <3>1, ConfigAssumption DEF Word
    <3>3. LoadCount(page) \in Int
      BY <3>2, ConfigAssumption DEF LoadCount
    <3>4. i \in 1 .. LoadCount(page)
      BY <3>3, <2>1, ConfigAssumption DEF Items
    <3> QED BY <3>4, <1>2, FirstPagesAssumption
  <2> QED BY <1>2, <2>1, <1>1, ConfigAssumption DEF Loaded
<1>3. CASE ~Usable(page)
  BY <1>3, <1>1, ConfigAssumption DEF Loaded
<1> QED BY <1>2, <1>3

\* One more word of a save: it is still the beginning of that save.
LEMMA BegunGrows ==
  ASSUME NEW page \in Seq(Int), NEW words \in Seq(Int),
         Begun(page, words), Len(page) < Len(words)
  PROVE  /\ Append(page, words[Len(page) + 1]) \in Seq(Int)
         /\ Begun(Append(page, words[Len(page) + 1]), words)
<1> DEFINE done == Len(page)
           longer == Append(page, words[done + 1])
<1>1. done \in Nat /\ Len(words) \in Nat /\ done + 1 \in 1 .. Len(words)
  BY LenProperties
<1>2. words[done + 1] \in Int
  BY <1>1, ElementOfSeq, Zenon
<1>3. /\ longer \in Seq(Int)
      /\ Len(longer) = done + 1
      /\ \A i \in 1 .. done : longer[i] = page[i]
      /\ longer[done + 1] = words[done + 1]
  BY <1>2, AppendProperties
<1>4. ASSUME NEW i \in 1 .. done + 1 PROVE longer[i] = words[i]
  <2>1. CASE i = done + 1
    BY <2>1, <1>3
  <2>2. CASE i # done + 1
    <3>1. i \in 1 .. done
      BY <2>2, <1>1
    <3> QED BY <3>1, <1>3 DEF Begun
  <2> QED BY <2>1, <2>2
<1> QED BY <1>1, <1>3, <1>4 DEF Begun

-----------------------------------------------------------------------------
(***************************************************************************)
(* The inductive invariant.                                                *)
(***************************************************************************)

\* Between two operations nothing is half done.
IdleInv ==
  /\ pc \in {"menu", "hung"} =>
       wipe = NoWipe /\ job = NoJob /\ flash = committed
  /\ pc = "off"  => live = Default

\* A save writes what is in use, and has written the beginning of it.
SaveInv ==
  pc \in {"erase", "write"} =>
    /\ wipe = NoWipe /\ job.words = Image(live)
    /\ pc = "erase" => flash = committed
    /\ pc = "write" => Begun(flash[job.page], job.words)

\* An erasure has been asked for, or a page of another firmware was found.
WipeInv ==
  pc = "wipe" =>
    /\ wipe.by # "nobody" /\ job = NoJob
    /\ wipe.by = "boot" => live = Default /\ Mismatch(committed[AutoPage])
    /\ wipe.by = "load" => \E slot \in Slots : Mismatch(committed[slot])

\* Whatever is in the flash can be loaded.
GoodInv == \A p \in Pages : Good(flash[p]) /\ Good(committed[p])

IInv == TypeOK /\ IdleInv /\ SaveInv /\ WipeInv /\ GoodInv /\ OthersUntouched

-----------------------------------------------------------------------------
(***************************************************************************)
(* The steps.                                                              *)
(***************************************************************************)

\* The defaults and the values of an edit can be read back.
LEMMA DefaultReadable ==
  /\ Default \in [Items -> Readable] /\ SpeedItem \in Items
  /\ Values \subseteq Readable
BY ConfigAssumption DEF Readable

\* The slots and the AUTO page are all the pages.
LEMMA PageFacts ==
  /\ Slots \subseteq Pages /\ AutoPage \in Pages /\ AutoPage \notin Slots
  /\ Pages = Slots \cup {AutoPage}
  /\ \A p \in Pages, n \in 0 .. SlotCount :
       n \notin Slots => (p < n <=> p \in Slots)
BY ConfigAssumption DEF Slots, Pages, AutoPage

\* A slot and the one after it, which may be the end.
LEMMA SlotsAreNumbered ==
  \A n \in Slots : n \in 0 .. SlotCount - 1 /\ n + 1 \in 0 .. SlotCount
BY ConfigAssumption DEF Slots

\* Every step keeps the types.
LEMMA TypeStep == IInv /\ [Next]_vars => TypeOK'
<1> SUFFICES ASSUME IInv, [Next]_vars PROVE TypeOK'
  OBVIOUS
<1> USE DefaultReadable, PageFacts DEF IInv, TypeOK, NoJob, NoWipe
<1>1. ASSUME NEW page \in Pages, NEW header,
             NEW by \in {"boot", "load", "user"},
             LoadPage(page, header, by) \/ (StartWipe(by) /\ by = "user")
      PROVE  /\ pc' \in {"menu", "hung", "wipe"} /\ flash' = flash
             /\ live' \in [Items -> Readable]
             /\ wipe' \in [next : 0 .. SlotCount,
                           by : {"nobody", "boot", "load", "user"}]
  <2>1. 0 \in 0 .. SlotCount /\ Good(flash[page])
    BY ConfigAssumption DEF GoodInv
  <2>2. CASE StartWipe(by)
    BY <1>1, <2>1, <2>2 DEF StartWipe
  <2>3. CASE LoadPage(page, header, by) /\ ~StartWipe(by)
    BY <1>1, <2>1, <2>3 DEF LoadPage, Good
  <2> QED BY <1>1, <2>2, <2>3
<1>2. NoJob \in [page : Pages, words : Seq(Int)]
  BY EmptySeq
<1>3. CASE Boot
  BY <1>1, <1>2, <1>3 DEF Boot
<1>4. CASE LoadSlot
  <2>1. PICK slot \in Slots : LoadPage(slot, 3, "load")
    BY <1>4 DEF LoadSlot
  <2>2. temp' \in Readable
    BY <1>1, <1>4, <2>1 DEF LoadSlot
  <2> QED BY <1>1, <1>4, <2>1, <2>2 DEF LoadSlot
<1>5. CASE EraseAll
  BY <1>5, ConfigAssumption DEF EraseAll, StartWipe
<1>6. CASE WipeSlot
  <2>1. wipe' \in [next : 0 .. SlotCount,
                   by : {"nobody", "boot", "load", "user"}]
    <3>1. wipe.next \in 0 .. SlotCount - 1 /\ wipe.next + 1 \in 0 .. SlotCount
      <4> DEFINE next == wipe.next
      <4>1. next \in Slots
        BY <1>6 DEF WipeSlot
      <4> HIDE DEF next
      <4>2. next \in 0 .. SlotCount - 1 /\ next + 1 \in 0 .. SlotCount
        BY <4>1, SlotsAreNumbered
      <4> QED BY <4>2 DEF next
    <3>2. wipe' = [wipe EXCEPT !.next = wipe.next + 1]
      BY <1>6 DEF WipeSlot
    <3> QED BY <3>1, <3>2
  <2>2. flash' \in [Pages -> Seq(Int)]
    <3>1. <<>> \in Seq(Int) /\ flash \in [Pages -> Seq(Int)]
      BY EmptySeq
    <3>2. flash' = [flash EXCEPT ![wipe.next] = <<>>]
      BY <1>6 DEF WipeSlot
    <3> DEFINE blank == <<>>
    <3> HIDE DEF blank
    <3>3. /\ blank \in Seq(Int)
          /\ flash' = [flash EXCEPT ![wipe.next] = blank]
      BY <3>1, <3>2 DEF blank
    <3> QED BY <3>1, <3>3
  <2>3. UNCHANGED <<pc, live, temp, edit, job, committed>>
    BY <1>6 DEF WipeSlot
  <2> QED BY <2>1, <2>2, <2>3
<1>7. CASE WipeDone
  BY <1>7, ConfigAssumption DEF WipeDone
<1>8. CASE EditEnter
  BY <1>8, ConfigAssumption DEF EditEnter, Items
<1>9. CASE EditParam
  BY <1>9, ConfigAssumption DEF EditParam, Items
<1>10. CASE EditExit
  <2>1. live' \in [Items -> Readable]
    BY <1>10 DEF EditExit
  <2>2. job' \in [page : Pages, words : Seq(Int)]
    BY <1>10, <2>1, ImageWords DEF EditExit, StartSave
  <2> QED BY <1>10, <2>1, <2>2, ConfigAssumption DEF EditExit, StartSave
<1>11. CASE SaveSlot
  <2>1. PICK slot \in Slots : StartSave(slot, live)
    BY <1>11 DEF SaveSlot
  <2>2. job' \in [page : Pages, words : Seq(Int)]
    BY <2>1, ImageWords DEF StartSave
  <2> QED BY <1>11, <2>1, <2>2 DEF SaveSlot, StartSave
<1>12. CASE Erase
  <2>1. flash' \in [Pages -> Seq(Int)]
    BY <1>12, EmptySeq DEF Erase
  <2> QED BY <1>12, <2>1 DEF Erase
<1>13. CASE WriteWord
  <2>1. flash' \in [Pages -> Seq(Int)]
    <3>1. job.page \in Pages /\ flash[job.page] \in Seq(Int)
      OBVIOUS
    <3>2. Append(flash[job.page], job.words[Len(flash[job.page]) + 1])
            \in Seq(Int)
      BY <1>13, <3>1, BegunGrows DEF WriteWord, SaveInv
    <3> QED BY <1>13, <3>1, <3>2 DEF WriteWord
  <2> QED BY <1>13, <2>1 DEF WriteWord
<1>14. CASE SaveDone
  BY <1>14, <1>2 DEF SaveDone
<1>15. CASE PowerOff
  BY <1>15, ConfigAssumption DEF PowerOff
<1>16. CASE UNCHANGED vars
  BY <1>16 DEF vars
<1> QED BY <1>3, <1>4, <1>5, <1>6, <1>7, <1>8, <1>9, <1>10, <1>11, <1>12,
           <1>13, <1>14, <1>15, <1>16 DEF Next

\* Every step keeps the pages readable: what changes in them is an erased page
\* or the beginning of a save.
LEMMA GoodStep == IInv /\ [Next]_vars => GoodInv'
<1> SUFFICES ASSUME IInv, [Next]_vars PROVE GoodInv'
  OBVIOUS
<1> USE DEF IInv
<1>1. ASSUME \A p \in Pages : Good(flash'[p]),
             committed' \in {committed, flash, flash'}
      PROVE  GoodInv'
  BY <1>1 DEF GoodInv
<1>2. ASSUME flash' = flash, committed' \in {committed, flash}
      PROVE  GoodInv'
  BY <1>1, <1>2 DEF GoodInv
<1>3. ASSUME NEW page \in Pages, flash' = [flash EXCEPT ![page] = <<>>],
             committed' = committed
      PROVE  GoodInv'
  BY <1>1, <1>3, EmptyPage DEF GoodInv, TypeOK
<1>4. CASE Boot
  BY <1>2, <1>4 DEF Boot, LoadPage, StartWipe
<1>5. CASE LoadSlot
  BY <1>2, <1>5 DEF LoadSlot, LoadPage, StartWipe
<1>6. CASE WipeSlot
  BY <1>3, <1>6, PageFacts DEF WipeSlot
<1>7. CASE Erase
  BY <1>3, <1>7 DEF Erase, TypeOK
<1>8. CASE WriteWord
  <2> DEFINE page   == flash[job.page]
             longer == Append(page, job.words[Len(page) + 1])
  <2>1. job.page \in Pages /\ page \in Seq(Int) /\ job.words \in Seq(Int)
    BY DEF TypeOK
  <2>2. job.words = Image(live) /\ Begun(page, job.words)
    BY <1>8 DEF SaveInv, WriteWord
  <2>3. longer \in Seq(Int) /\ Begun(longer, Image(live))
    BY <1>8, <2>1, <2>2, BegunGrows DEF WriteWord
  <2>4. Good(longer)
    BY <2>3, BegunLoads DEF TypeOK
  <2>5. flash' = [flash EXCEPT ![job.page] = longer] /\ committed' = committed
    BY <1>8 DEF WriteWord
  <2> HIDE DEF longer
  <2> QED BY <1>1, <2>1, <2>4, <2>5 DEF GoodInv, TypeOK
<1>9. CASE EraseAll \/ WipeDone \/ EditEnter \/ EditParam \/ EditExit
           \/ SaveSlot \/ SaveDone \/ PowerOff \/ UNCHANGED vars
  BY <1>2, <1>9 DEF EraseAll, WipeDone, EditEnter, EditParam, EditExit,
       SaveSlot, SaveDone, PowerOff, StartSave, StartWipe, vars
<1> QED BY <1>4, <1>5, <1>6, <1>7, <1>8, <1>9 DEF Next

\* Every step keeps the three phases apart.
LEMMA PhaseStep == IInv /\ [Next]_vars => (IdleInv /\ SaveInv /\ WipeInv)'
<1> SUFFICES ASSUME IInv, [Next]_vars PROVE (IdleInv /\ SaveInv /\ WipeInv)'
  OBVIOUS
<1> USE DEF IInv, IdleInv, SaveInv, WipeInv
<1>1. CASE Boot
  BY <1>1 DEF Boot, LoadPage, StartWipe, NoWipe
<1>2. CASE LoadSlot
  BY <1>2 DEF LoadSlot, LoadPage, StartWipe, NoWipe
<1>3. CASE EraseAll
  BY <1>3 DEF EraseAll, StartWipe, NoWipe
<1>4. CASE WipeSlot
  <2>1. wipe'.by = wipe.by
    BY <1>4 DEF WipeSlot, TypeOK
  <2> QED BY <1>4, <2>1 DEF WipeSlot
<1>5. CASE WipeDone
  BY <1>5 DEF WipeDone
<1>6. CASE EditEnter \/ EditParam
  BY <1>6 DEF EditEnter, EditParam
<1>7. CASE EditExit
  BY <1>7 DEF EditExit, StartSave
<1>8. CASE SaveSlot
  BY <1>8 DEF SaveSlot, StartSave
<1>9. CASE Erase
  <2>1. flash'[job.page] = <<>>
    BY <1>9 DEF Erase, TypeOK
  <2>2. Begun(<<>>, job.words)
    BY LenProperties, EmptySeq DEF Begun, TypeOK
  <2> QED BY <1>9, <2>1, <2>2 DEF Erase
<1>10. CASE WriteWord
  <2>1. job.page \in Pages /\ flash[job.page] \in Seq(Int)
        /\ job.words \in Seq(Int) /\ Begun(flash[job.page], job.words)
    BY <1>10 DEF WriteWord, TypeOK
  <2>2. Begun(flash'[job.page], job.words)
    BY <1>10, <2>1, BegunGrows DEF WriteWord, TypeOK
  <2> QED BY <1>10, <2>2 DEF WriteWord
<1>11. CASE SaveDone
  BY <1>11 DEF SaveDone
<1>12. CASE PowerOff
  BY <1>12 DEF PowerOff
<1>13. CASE UNCHANGED vars
  BY <1>13 DEF vars
<1> QED BY <1>1, <1>2, <1>3, <1>4, <1>5, <1>6, <1>7, <1>8, <1>9, <1>10,
           <1>11, <1>12, <1>13 DEF Next

\* Every step touches the pages of the operation under way, and no other.
LEMMA UntouchedStep == IInv /\ [Next]_vars => OthersUntouched'
<1> SUFFICES ASSUME IInv, [Next]_vars PROVE OthersUntouched'
  OBVIOUS
<1> USE DEF IInv, OthersUntouched
<1>1. CASE Boot
  BY <1>1, ConfigAssumption DEF Boot, LoadPage, StartWipe, NoWipe, Slots
<1>2. CASE LoadSlot \/ EraseAll
  BY <1>2, ConfigAssumption
     DEF LoadSlot, EraseAll, LoadPage, StartWipe, NoWipe, Slots, IdleInv
<1>3. CASE WipeSlot
  <2>1. wipe.next \in Nat /\ wipe'.next = wipe.next + 1 /\ wipe' # NoWipe
    BY <1>3, ConfigAssumption DEF WipeSlot, TypeOK, NoWipe
  <2>2. wipe # NoWipe
    BY <1>3 DEF WipeInv, WipeSlot, NoWipe
  <2>3. ASSUME NEW p \in Pages
        PROVE  flash'[p] = IF p \in Slots /\ p < wipe'.next THEN <<>>
                                                           ELSE committed'[p]
    <3>1. p \in Int
      BY DEF Pages
    <3> QED BY <1>3, <2>1, <2>2, <3>1 DEF WipeSlot, TypeOK
  <2> QED BY <2>1, <2>3
<1>4. CASE WipeDone \/ SaveDone
  BY <1>4 DEF WipeDone, SaveDone, SaveInv
<1>5. CASE EditEnter \/ EditParam \/ PowerOff \/ UNCHANGED vars
  BY <1>5 DEF EditEnter, EditParam, PowerOff, vars
<1>6. CASE EditExit \/ SaveSlot
  BY <1>6 DEF EditExit, SaveSlot, StartSave, IdleInv
<1>7. CASE Erase \/ WriteWord
  BY <1>7 DEF Erase, WriteWord, SaveInv, TypeOK
<1> QED BY <1>1, <1>2, <1>3, <1>4, <1>5, <1>6, <1>7 DEF Next

\* Before the first power on.
LEMMA InitInv == Init => IInv
<1> SUFFICES ASSUME Init PROVE IInv
  OBVIOUS
<1> USE DEF Init
<1>1. TypeOK
  BY DefaultReadable, FirstLoads, EmptySeq, ConfigAssumption
     DEF TypeOK, NoJob, NoWipe, AutoPage, Pages
<1>2. GoodInv
  BY FirstLoads DEF GoodInv, Good, Readable
<1>3. IdleInv /\ SaveInv /\ WipeInv /\ OthersUntouched
  BY DEF IdleInv, SaveInv, WipeInv, OthersUntouched
<1> QED BY <1>1, <1>2, <1>3 DEF IInv

\* Every step of the menu, of a flash operation or of a failing power keeps the
\* invariant.
LEMMA StepInv == IInv /\ [Next]_vars => IInv'
BY TypeStep, GoodStep, PhaseStep, UntouchedStep DEF IInv

\* The inductive invariant, for any number of items and slots.
THEOREM Invariance == Spec => []IInv
BY InitInv, StepInv, PTL DEF Spec

-----------------------------------------------------------------------------
(***************************************************************************)
(* The theorems.                                                           *)
(***************************************************************************)

\* Every variable keeps its type; in particular what a damaged page gives is
\* never anything but values and erased words.
THEOREM TypeCorrect == Spec => []TypeOK
<1>1. IInv => TypeOK
  BY DEF IInv
<1> QED BY <1>1, Invariance, PTL

\* Wherever the power fails, the pages that no operation was working on are as
\* the last complete operation left them.
THEOREM OthersAreSafe == Spec => []OthersUntouched
<1>1. IInv => OthersUntouched
  BY DEF IInv
<1> QED BY <1>1, Invariance, PTL

\* A page that holds all words of a save gives back what is in use.
LEMMA SavedPage ==
  ASSUME IInv, SaveDone
  PROVE  /\ job.page \in Pages /\ Usable(flash[job.page])
         /\ Loaded(flash[job.page]) = live
         /\ ~ReadsUnwritten(flash[job.page], 3)
<1>1. /\ job.page \in Pages /\ flash[job.page] \in Seq(Int)
      /\ live \in [Items -> Readable]
  BY DEF IInv, TypeOK
<1>2. Begun(flash[job.page], Image(live))
      /\ Len(flash[job.page]) = Len(Image(live))
  BY DEF IInv, SaveInv, SaveDone
<1> QED BY <1>1, <1>2, CompleteLoads

\* A save that is completed makes its page load the parameters in use,
\* whatever a power failure had left there.
THEOREM SavesRepair == Spec => SaveRepairs
<1> DEFINE Repaired(page) ==
             Usable(page) /\ Loaded(page) = live /\ ~ReadsUnwritten(page, 3)
<1>1. ASSUME IInv, [Next]_vars, pc = "write", pc' = "menu"
      PROVE  Repaired(flash'[job.page])
  <2>1. SaveDone
    BY <1>1 DEF Next, vars, Boot, LoadSlot, EraseAll, WipeSlot, WipeDone,
         EditEnter, EditParam, EditExit, SaveSlot, Erase, WriteWord, PowerOff
  <2>2. flash' = flash
    BY <2>1 DEF SaveDone
  <2> QED BY <1>1, <2>1, <2>2, SavedPage
<1>2. IInv /\ [Next]_vars =>
        [pc = "write" /\ pc' = "menu" => Repaired(flash'[job.page])]_vars
  BY <1>1
<1> QED BY <1>2, Invariance, PTL DEF Spec, SaveRepairs

-----------------------------------------------------------------------------
(***************************************************************************)
(* The pages and the parameters implement ConfigStore.                     *)
(***************************************************************************)

\* The two modules speak of the same pages and contents.
LEMMA SamePages ==
  /\ Store!Pages = Pages
  /\ Content(<<>>) = Store!Empty
  /\ \A page : Content(page).kind = "foreign" <=> Mismatch(page)
  /\ \A page : Content(page).config = Loaded(page)
  /\ \A page : Content(page).torn = ReadsUnwritten(page, 3)
<1>1. \A page : Mismatch(page) => ~Usable(page)
  BY DEF Usable
<1> QED BY <1>1, PageFacts, EmptyPage
        DEF Store!Pages, Store!Empty, Content, Loaded

\* A page that the power has cut short is torn: it holds nothing, a header of
\* no known version, or some of the parameters and erased words, and a load of
\* it may hang unless it holds them all.
LEMMA BegunIsTorn ==
  ASSUME live \in [Items -> Readable], NEW page \in Seq(Int),
         Begun(page, Image(live))
  PROVE  Content(page) \in Store!Torn
<1> DEFINE S == {i \in Items : 3 + i <= Len(page)}
<1>1. Len(page) \in Nat
  BY LenProperties
<1>2. \A i \in 1 .. Len(page) : page[i] = Image(live)[i]
  BY DEF Begun
<1>3. /\ Image(live)[1] = Magic /\ Image(live)[2] = Version
      /\ Image(live)[3] = N /\ \A i \in Items : Image(live)[3 + i] = live[i]
  BY ImageWords
<1>4. CASE ~Usable(page)
  <2>1. CASE page = <<>>
    <3>1. Content(page) = Content(<<>>)
      BY <2>1
    <3>2. Content(page) = Store!Empty
      BY <3>1, SamePages
    <3>3. Store!Empty \in Store!Torn
      BY DEF Store!Torn
    <3> QED BY <3>2, <3>3
  <2>2. CASE page # <<>>
    <3>1. Len(page) # 0
      BY <2>2, EmptySeq
    <3>2. Word(page, 1) = Magic /\ Word(page, 2) \in {Version, Blank}
      BY <1>1, <1>2, <1>3, <3>1 DEF Word
    <3>3. Mismatch(page) /\ Len(page) < 2
      <4>1. Mismatch(page)
        BY <1>4, <3>2 DEF Usable, Ours
      <4>2. CASE Len(page) >= 2
        <5>1. Word(page, 2) = Version
          BY <1>1, <1>2, <1>3, <4>2 DEF Word
        <5> QED BY <4>1, <5>1 DEF Mismatch
      <4> QED BY <1>1, <4>1, <4>2
    <3>4. ReadsUnwritten(page, 3) = TRUE
      BY <1>1, <1>4, <2>2, <3>3 DEF ReadsUnwritten
    <3>5. Content(page) = [kind |-> "foreign", config |-> Default,
                           torn |-> TRUE]
      BY <1>4, <3>3, <3>4 DEF Content, Loaded
    <3>6. Content(page) = Store!Foreign(TRUE)
      BY <3>5 DEF Store!Foreign
    <3> QED BY <3>6 DEF Store!Torn
  <2> QED BY <2>1, <2>2
<1>5. CASE Usable(page)
  <2>1. Word(page, 3) \in {N, Blank}
    BY <1>1, <1>2, <1>3 DEF Word
  <2>2. LoadCount(page) = N
    BY <2>1, ConfigAssumption DEF LoadCount
  <2>3. ASSUME NEW i \in Items
        PROVE  Word(page, 3 + i) = IF i \in S THEN live[i] ELSE Blank
    <3>1. 3 + i \in Nat /\ 3 + i >= 1 /\ i <= N
      BY ConfigAssumption DEF Items
    <3>2. CASE 3 + i <= Len(page)
      <4>1. 3 + i \in 1 .. Len(page)
        BY <1>1, <3>1, <3>2
      <4> QED BY <4>1, <3>2, <1>2, <1>3 DEF Word
    <3>3. CASE ~(3 + i <= Len(page))
      BY <3>3 DEF Word
    <3> QED BY <3>2, <3>3
  <2>4. Loaded(page) = [i \in Items |-> IF i \in S THEN live[i] ELSE Blank]
    <3>1. \A i \in Items : i <= LoadCount(page)
      BY <2>2, ConfigAssumption DEF Items
    <3> HIDE DEF S
    <3> QED BY <1>5, <2>3, <3>1 DEF Loaded
  <2>5. ReadsUnwritten(page, 3) = (S # Items)
    <3>1. N \in Nat \ {0}
      BY ConfigAssumption
    <3>2. S = Items <=> 3 + N <= Len(page)
      <4>1. N \in Items /\ \A i \in Items : i \in Nat /\ i <= N
        BY <3>1 DEF Items
      <4>2. S = Items => 3 + N <= Len(page)
        BY <4>1
      <4>3. 3 + N <= Len(page) => \A i \in Items : 3 + i <= Len(page)
        BY <1>1, <3>1, <4>1
      <4> QED BY <4>2, <4>3
    <3>3. page # <<>>
      BY <1>5, EmptyPage DEF Usable
    <3>4. ReadsUnwritten(page, 3) <=> ~(3 + N <= Len(page))
      BY <1>1, <1>5, <2>2, <3>1, <3>3 DEF ReadsUnwritten
    <3>5. ReadsUnwritten(page, 3) \in BOOLEAN
      BY DEF ReadsUnwritten
    <3> HIDE DEF S
    <3> QED BY <3>2, <3>4, <3>5
  <2> DEFINE some == [i \in Items |-> IF i \in S THEN live[i] ELSE Blank]
  <2>6. S \in SUBSET Items
    OBVIOUS
  <2> HIDE DEF S
  <2>7. Content(page) = [kind |-> "config", config |-> some,
                         torn |-> (S # Items)]
    BY <1>5, <2>4, <2>5 DEF Content
  <2>8. Content(page) = Store!Holding(some, S # Items)
    <3> HIDE DEF some
    <3> QED BY <2>7 DEF Store!Holding
  <2> QED BY <2>6, <2>8 DEF Store!Torn
<1> QED BY <1>4, <1>5

\* The first state of the flash is a first state of the store.
LEMMA StoreInit == Init => Store!Init
<1> SUFFICES ASSUME Init PROVE Store!Init
  OBVIOUS
<1>1. ASSUME NEW page \in FirstPages
      PROVE  Content(page) \in
               {Store!Empty, Store!Foreign(FALSE)}
                 \cup {Store!Holding(c, FALSE) : c \in Store!Configs}
  <2>1. Loaded(page) \in [Items -> Values] /\ ReadsUnwritten(page, 3) = FALSE
    BY FirstLoads, FirstPagesAssumption DEF ReadsUnwritten
  <2>2. CASE Usable(page)
    <3>1. Content(page) = Store!Holding(Loaded(page), FALSE)
      BY <2>1, <2>2 DEF Content, Store!Holding
    <3> QED BY <2>1, <3>1 DEF Store!Configs
  <2>3. CASE ~Usable(page)
    BY <2>1, <2>3 DEF Content, Loaded, Store!Empty, Store!Foreign
  <2> QED BY <2>2, <2>3
<1>2. Power = "off" /\ live = Default
  BY DEF Init, Power
<1>3. Stored = [p \in Pages |-> Content(flash[p])]
  BY DEF Init, Stored
<1>4. flash \in [Pages -> FirstPages]
  BY DEF Init
<1> QED BY <1>1, <1>2, <1>3, <1>4, SamePages DEF Store!Init

\* Steps in which nothing is completed are stutters of the store.
LEMMA StoreStutter ==
  ASSUME Power' = Power, committed' = committed, live' = live,
         pc = "off" <=> pc' = "off", flash' = flash \/ pc # "off"
  PROVE  UNCHANGED <<Power, Stored, live>>
BY DEF Stored

\* Loading a page, unless that begins an erasure.
LEMMA LoadIsLoad ==
  ASSUME IInv, NEW page \in Pages, NEW header \in {2, 3}, NEW by,
         LoadPage(page, header, by), pc' # "wipe",
         Stored[page] = Content(flash[page]), Stored' = Stored
  PROVE  Store!Load(page)
<1>1. CASE pc' = "menu"
  <2>1. ~Mismatch(flash[page]) /\ live' = Loaded(flash[page])
    BY <1>1 DEF LoadPage, StartWipe
  <2>2. Power' = "on"
    BY <1>1 DEF Power
  <2> QED BY <2>1, <2>2, SamePages DEF Store!Load
<1>2. CASE pc' = "hung"
  <2>1. ReadsUnwritten(flash[page], header) /\ live' = live
    BY <1>2 DEF LoadPage, StartWipe
  <2>2. ReadsUnwritten(flash[page], 3)
    BY <2>1, LenProperties DEF ReadsUnwritten, IInv, TypeOK
  <2>3. Power' = "hung"
    BY <1>2 DEF Power
  <2> QED BY <2>1, <2>2, <2>3, SamePages DEF Store!Load
<1> QED BY <1>1, <1>2 DEF LoadPage, StartWipe

\* The end of an erasure: all slots are empty, the AUTO page is as it was.
LEMMA WipeIsErase ==
  ASSUME IInv, WipeDone
  PROVE  /\ Stored = [p \in Pages |-> Content(committed[p])]
         /\ Power = IF wipe.by = "boot" THEN "off" ELSE "on"
         /\ Store!EraseSlots
<1>1. /\ pc = "wipe" /\ pc' = "menu" /\ committed' = flash /\ live' = Default
      /\ wipe # NoWipe
  BY DEF WipeDone, IInv, WipeInv, NoWipe
<1>2. ASSUME NEW p \in Pages
      PROVE  flash[p] = IF p \in Slots THEN <<>> ELSE committed[p]
  <2>1. wipe.next \in 0 .. SlotCount /\ wipe.next \notin Slots
    BY DEF WipeDone, IInv, TypeOK
  <2>2. p < wipe.next <=> p \in Slots
    BY <2>1, PageFacts
  <2> QED BY <1>1, <2>2 DEF IInv, OthersUntouched
<1>3. Stored = [p \in Pages |-> Content(committed[p])]
  BY <1>1 DEF Stored
<1>4. Stored' = [p \in Pages |-> Content(flash[p])]
  BY <1>1 DEF Stored
<1>5. Stored' = [p \in Store!Pages |-> IF p \in Slots THEN Store!Empty
                                                     ELSE Stored[p]]
  BY <1>2, <1>3, <1>4, SamePages, Zenon
<1>6. Power' = "on" /\ Power = IF wipe.by = "boot" THEN "off" ELSE "on"
  BY <1>1 DEF Power
<1> QED BY <1>1, <1>3, <1>5, <1>6 DEF Store!EraseSlots

\* The power fails: one page is torn, or some slots are erased, or nothing is.
LEMMA PowerOffIsPowerOff ==
  ASSUME IInv, PowerOff
  PROVE  Store!PowerOff \/ Store!SaveCut \/ Store!EraseCut
<1> USE DEF IInv
<1>1. /\ pc # "off" /\ pc' = "off" /\ Power' = "off" /\ live' = Default
      /\ Stored  = [p \in Pages |-> Content(committed[p])]
      /\ Stored' = [p \in Pages |-> Content(flash[p])]
      /\ Store!PowerGone
  BY DEF PowerOff, Power, Stored, Store!PowerGone
<1>2. CASE pc \in {"menu", "hung", "erase"}
  <2>1. Power # "off" /\ flash = committed
    BY <1>2 DEF Power, IdleInv, SaveInv
  <2> QED BY <1>1, <2>1 DEF Store!PowerOff
<1>3. CASE pc = "write"
  <2>1. /\ Power = "on" /\ wipe = NoWipe /\ job.page \in Pages
        /\ flash[job.page] \in Seq(Int) /\ live \in [Items -> Readable]
        /\ Begun(flash[job.page], Image(live))
    BY <1>3 DEF Power, SaveInv, TypeOK
  <2>2. Stored'[job.page] \in Store!Torn
    BY <1>1, <2>1, BegunIsTorn
  <2>3. \A p \in Pages \ {job.page} : Stored'[p] = Stored[p]
    BY <1>1, <2>1 DEF OthersUntouched
  <2>4. Stored' = [Stored EXCEPT ![job.page] = Stored'[job.page]]
    BY <1>1, <2>1, <2>3
  <2> QED BY <1>1, <2>1, <2>2, <2>4, SamePages DEF Store!SaveCut
<1>4. CASE pc = "wipe"
  <2> DEFINE S == {p \in Slots : p < wipe.next}
  <2>1. wipe # NoWipe /\ (wipe.by = "boot" => Mismatch(committed[AutoPage]))
    BY <1>4 DEF WipeInv, NoWipe
  <2>2. Power = "on" \/ (Power = "off" /\ Stored[AutoPage].kind = "foreign")
    BY <1>1, <1>4, <2>1, PageFacts, SamePages DEF Power
  <2>3. ASSUME NEW p \in Pages
        PROVE  flash[p] = IF p \in S THEN <<>> ELSE committed[p]
    BY <2>1 DEF OthersUntouched
  <2>4. S \in SUBSET Slots
    OBVIOUS
  <2> HIDE DEF S
  <2>5. Stored' = [p \in Store!Pages |-> IF p \in S THEN Store!Empty
                                                   ELSE Stored[p]]
    BY <1>1, <2>3, SamePages, Zenon
  <2> QED BY <1>1, <2>2, <2>4, <2>5 DEF Store!EraseCut
<1> QED BY <1>1, <1>2, <1>3, <1>4 DEF TypeOK

\* Every step is a step of the store or a stutter.
LEMMA StoreStep == IInv /\ [Next]_vars => [Store!Next]_<<Power, Stored, live>>
<1> SUFFICES ASSUME IInv, [Next]_vars
             PROVE  [Store!Next]_<<Power, Stored, live>>
  OBVIOUS
<1> USE DEF IInv
<1>1. CASE Boot
  <2>1. /\ pc = "off" /\ Power = "off" /\ flash' = flash /\ committed' = flash
        /\ Stored = [p \in Pages |-> Content(flash[p])]
    BY <1>1 DEF Boot, LoadPage, StartWipe, Power, Stored
  <2>2. pc' # "off" /\ Stored' = Stored
    BY <1>1, <2>1 DEF Boot, LoadPage, StartWipe, Stored
  <2>3. CASE pc' = "wipe"
    <3>1. live' = live /\ wipe'.by = "boot"
      BY <1>1, <2>3 DEF Boot, LoadPage, StartWipe
    <3> QED BY <2>1, <2>2, <2>3, <3>1 DEF Power
  <2>4. CASE pc' # "wipe"
    <3>1. LoadPage(AutoPage, 2, "boot") /\ AutoPage \in Pages
      BY <1>1, PageFacts DEF Boot
    <3>2. Stored[AutoPage] = Content(flash[AutoPage])
      BY <2>1, <3>1
    <3>3. Store!Load(AutoPage)
      BY <2>2, <2>4, <3>1, <3>2, LoadIsLoad
    <3> QED BY <2>1, <3>3 DEF Store!Next, Store!PowerOn
  <2> QED BY <2>3, <2>4
<1>2. CASE LoadSlot
  <2>1. PICK slot \in Slots : LoadPage(slot, 3, "load")
    BY <1>2 DEF LoadSlot
  <2>2. /\ Power = "on" /\ pc = "menu" /\ pc' # "off"
        /\ flash = committed /\ flash' = flash /\ committed' = committed
    BY <1>2, <2>1 DEF LoadSlot, LoadPage, StartWipe, Power, IdleInv
  <2>3. Stored' = Stored /\ Stored = [p \in Pages |-> Content(flash[p])]
    BY <2>2 DEF Stored
  <2>4. CASE pc' = "wipe"
    <3>1. live' = live /\ wipe'.by = "load"
      BY <2>1, <2>4 DEF LoadPage, StartWipe
    <3> QED BY <2>2, <2>3, <2>4, <3>1 DEF Power
  <2>5. CASE pc' # "wipe"
    <3>1. slot \in Pages /\ Stored[slot] = Content(flash[slot])
      BY <2>3, PageFacts
    <3>2. Store!Load(slot)
      BY <2>1, <2>3, <2>5, <3>1, LoadIsLoad
    <3> QED BY <2>2, <3>2 DEF Store!Next, Store!LoadSlot
  <2> QED BY <2>4, <2>5
<1>3. CASE EraseAll \/ WipeSlot \/ SaveSlot \/ Erase \/ WriteWord
  <2>1. /\ Power' = Power /\ committed' = committed /\ live' = live
        /\ pc # "off" /\ pc' # "off"
    BY <1>3 DEF EraseAll, StartWipe, WipeSlot, SaveSlot, StartSave, Erase,
         WriteWord, Power, TypeOK
  <2> QED BY <2>1, StoreStutter
<1>4. CASE WipeDone
  <2>1. CASE wipe.by = "boot"
    <3>1. Stored[AutoPage].kind = "foreign"
      BY <1>4, <2>1, WipeIsErase, PageFacts, SamePages DEF WipeInv, WipeDone
    <3> QED BY <1>4, <2>1, <3>1, WipeIsErase
            DEF Store!Next, Store!PowerOn, Store!Load
  <2>2. CASE wipe.by = "load"
    <3>1. PICK slot \in Slots : Mismatch(committed[slot])
      BY <1>4, <2>2 DEF WipeInv, WipeDone
    <3>2. Stored[slot].kind = "foreign"
      BY <1>4, <3>1, WipeIsErase, PageFacts, SamePages
    <3> QED BY <1>4, <2>2, <3>2, WipeIsErase
            DEF Store!Next, Store!LoadSlot, Store!Load
  <2>3. CASE wipe.by = "user"
    BY <1>4, <2>3, WipeIsErase DEF Store!Next, Store!EraseAll
  <2> QED BY <1>4, <2>1, <2>2, <2>3 DEF WipeInv, WipeDone, TypeOK
<1>5. CASE EditEnter
  BY <1>5, StoreStutter DEF EditEnter, Power
<1>6. CASE EditParam
  <2>1. /\ Power = "on" /\ Power' = "on" /\ Stored' = Stored
    BY <1>6 DEF EditParam, Power, Stored
  <2>2. live' = live
        \/ \E i \in Items, v \in Values : live' = [live EXCEPT ![i] = v]
    BY <1>6 DEF EditParam, TypeOK, Items
  <2> QED BY <2>1, <2>2 DEF Store!Next, Store!Edit
<1>7. CASE EditExit
  <2>1. /\ Power = "on" /\ Power' = "on" /\ Stored' = Stored
    BY <1>7 DEF EditExit, StartSave, Power, Stored
  <2>2. live' = live \/ live' = [live EXCEPT ![SpeedItem] = temp]
    BY <1>7 DEF EditExit
  <2>3. SpeedItem \in Items /\ temp \in Values \cup {Blank}
    BY DefaultReadable DEF TypeOK, Readable
  <2> QED BY <2>1, <2>2, <2>3 DEF Store!Next, Store!Edit
<1>8. CASE SaveDone
  <2>1. /\ Power = "on" /\ Power' = "on" /\ live' = live
        /\ Stored  = [p \in Pages |-> Content(committed[p])]
        /\ Stored' = [p \in Pages |-> Content(flash[p])]
    BY <1>8 DEF SaveDone, Power, Stored
  <2>2. job.page \in Pages /\ Content(flash[job.page]) = Store!Holding(live, FALSE)
    <3>1. /\ job.page \in Pages /\ Usable(flash[job.page])
          /\ Loaded(flash[job.page]) = live
          /\ ReadsUnwritten(flash[job.page], 3) = FALSE
      BY <1>8, SavedPage DEF ReadsUnwritten
    <3> QED BY <3>1 DEF Content, Store!Holding
  <2>3. \A p \in Pages \ {job.page} : flash[p] = committed[p]
    BY <1>8 DEF SaveDone, SaveInv, OthersUntouched
  <2>4. Stored' = [Stored EXCEPT ![job.page] = Store!Holding(live, FALSE)]
    BY <2>1, <2>2, <2>3
  <2> QED BY <2>1, <2>2, <2>4, SamePages DEF Store!Next, Store!Save
<1>9. CASE PowerOff
  BY <1>9, PowerOffIsPowerOff DEF Store!Next
<1>10. CASE UNCHANGED vars
  BY <1>10 DEF vars, Power, Stored
<1> QED BY <1>1, <1>2, <1>3, <1>4, <1>5, <1>6, <1>7, <1>8, <1>9, <1>10 DEF Next

\* The pages of the flash and the parameters, seen between two operations, are
\* the store of ConfigStore, wherever the power fails.
THEOREM ImplementsConfigStore == Spec => ImplementsStore
<1>1. IInv /\ [Next]_vars => [Store!Next]_<<Power, Stored, live>>
  BY StoreStep
<1>2. Init => Store!Init
  BY StoreInit
<1> QED BY <1>1, <1>2, Invariance, PTL
        DEF Spec, ImplementsStore, Store!Spec, Store!storeVars

=============================================================================
