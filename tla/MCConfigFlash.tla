---------------------------- MODULE MCConfigFlash ---------------------------
(***************************************************************************)
(* Small instances of ConfigFlash: two items, of which the first is        *)
(* basic_speed, two values each, two slots and the AUTO page.              *)
(***************************************************************************)
EXTENDS ConfigFlash

MCValues  == {0, 1}
MCDefault == [i \in Items |-> 0]

\* A blank page; one of the firmware without a version word (its count stands
\* in that place); one with fewer and one with more items than ours.
MCFirstPages == { <<>>, <<Magic, 14, 1, 1>>,
                  <<Magic, Version, 1, 1>>, <<Magic, Version, 3, 1, 1, 0>> }

=============================================================================
