------------------------------- MODULE MCFlash -------------------------------
EXTENDS FlashBus

Shipped == [a \in Addresses |-> IF a % 2 = 0 THEN 0 ELSE 82]
TwoChips == <<"cart0", "cart1">>
=============================================================================
