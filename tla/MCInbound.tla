----------------------------- MODULE MCInbound -----------------------------
(***************************************************************************)
(* Module Inbound for TLC: a fact comes on one topic, its update on two,   *)
(* and one topic gets a task in the publisher's name that does not verify. *)
(***************************************************************************)
EXTENDS Inbound

CONSTANTS t1, f1, b1, l1, l2

Fact    == [key |-> f1, seq |-> 1, exp |-> 1, body |-> b1]
Updated == [key |-> f1, seq |-> 2, exp |-> 1, body |-> b1]
Forged  == [key |-> t1, op |-> "WITHDRAW", seq |-> 2, exp |-> 1, body |-> b1]

MCFacts == {Fact, Updated}

MCArrivals == [l \in {l1, l2} |-> IF l = l1 THEN {Fact, Updated, Forged} ELSE {Updated}]

Genuine == {Fact, Updated}
=============================================================================
