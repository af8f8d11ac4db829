------------------------------ MODULE MCQueue ------------------------------
(* Model-checking instance of Queue.  The two bodies and the limits are    *)
(* chosen so that either limit can be the one that is exceeded, by one     *)
(* entry or by several, and so that a body can be refused outright.        *)
EXTENDS Queue

MCBodies == {[size |-> 1], [size |-> 2]}

MCDefaultLimits == [samples |-> 2, bytes |-> 3]

MCContractLimits == {[samples |-> 1, bytes |-> 1], [samples |-> 3, bytes |-> 4]}
=============================================================================
