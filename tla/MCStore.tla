------------------------------ MODULE MCStore ------------------------------
(***************************************************************************)
(* Module Store for TLC.  The deadlines of the facts grow with the         *)
(* version; versions 1 and 2 have a deadline in common.                    *)
(***************************************************************************)
EXTENDS Store

Deadlines == <<{1, 2}, {2, 3}>>

SteadyFacts ==
  UNION {[key: FactKeys, seq: {n}, exp: Deadlines[n], body: Bodies] : n \in DOMAIN Deadlines}
=============================================================================
