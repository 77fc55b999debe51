------------------------------- MODULE Rates -------------------------------
(***************************************************************************)
(* The rate of a peer as a value, and what Store.AllowPeer of              *)
(* internal/p2p/store.go does to it: the calls of a peer are counted from  *)
(* the first one, for a minute; the next one after that starts a new       *)
(* window.  A refused call counts too.                                     *)
(*                                                                         *)
(* Faulty variants are mistakes the properties must notice.                *)
(***************************************************************************)
EXTENDS Naturals

NoRate == [start |-> 0, count |-> 0]

CountedLate(rate, now, minute) ==
  IF rate.count = 0 \/ now - rate.start > minute
    THEN [start |-> now, count |-> 1]
    ELSE [rate EXCEPT !.count = @ + 1]

Counted(rate, now, minute) ==
  IF rate.count = 0 \/ now - rate.start >= minute
    THEN [start |-> now, count |-> 1]
    ELSE [rate EXCEPT !.count = @ + 1]

OneTooMany(rate, limit) == rate.count <= limit + 1

Within(rate, limit) == rate.count <= limit
=============================================================================
