----------------------------- MODULE MCDispatch -----------------------------
(* Dispatch for TLC: the first command asks for more than the battery gives, *)
(* the other for less than nothing.                                          *)
EXTENDS Dispatch

CONSTANTS c1, c2

Wishes == [c \in {c1, c2} |->
             IF c = c1 THEN [type |-> "DISCHARGE", value |-> 3]
             ELSE [type |-> "CURTAIL", value |-> -1]]

ChargeStates == {1, 2}
=============================================================================
