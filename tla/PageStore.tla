------------------------------ MODULE PageStore ------------------------------
(***************************************************************************)
(* What a flash chip promises: a buffer of one page, which takes bytes in  *)
(* any place, and pages, each of which changes only to what the buffer     *)
(* holds.                                                                  *)
(***************************************************************************)
EXTENDS Integers

CONSTANTS Chips, Pages, Offsets, Byte

VARIABLES pages,   \* [Chips -> [Pages -> page]]
          buffer   \* [Chips -> page]

Page == [Offsets -> Byte]

Init == /\ pages \in [Chips -> [Pages -> Page]]
        /\ buffer \in [Chips -> Page]

Load(c, i, b) == /\ buffer' = [buffer EXCEPT ![c][i] = b]
                 /\ UNCHANGED pages

Program(c, p) == /\ pages' = [pages EXCEPT ![c][p] = buffer[c]]
                 /\ UNCHANGED buffer

Next == \E c \in Chips : \/ \E i \in Offsets, b \in Byte : Load(c, i, b)
                         \/ \E p \in Pages : Program(c, p)

Spec == Init /\ [][Next]_<<pages, buffer>>
=============================================================================
