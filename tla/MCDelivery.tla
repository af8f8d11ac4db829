----------------------------- MODULE MCDelivery -----------------------------
(* Model-checking instances of Delivery: the limits of the buffer.         *)
EXTENDS Delivery

Three == [samples |-> 3, bytes |-> 10]
Two == [samples |-> 2, bytes |-> 10]

TwoOnly == {Two}
=============================================================================
