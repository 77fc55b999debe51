----------------------------- MODULE TaskLedger -----------------------------
(***************************************************************************)
(* What a store promises about the tasks it has put on disk, whatever is   *)
(* applied to it, whenever its disk fails and however often it is killed:  *)
(* an entry is replaced only by a younger one, a closed entry (COMPLETE,   *)
(* WITHDRAW) stands until its own deadline, and an entry turns EXPIRED     *)
(* only after its deadline.  One write may move several keys, since the    *)
(* store writes its whole table and may have missed earlier writes.        *)
(***************************************************************************)
EXTENDS StoreTables

CONSTANTS TaskKeys, TaskEntries

VARIABLES ledger, now

Init ==
  /\ ledger = [k \in TaskKeys |-> NoTask]
  /\ now = 0

Record ==
  /\ ledger' \in [TaskKeys -> TaskEntries]
  /\ \A k \in TaskKeys : Follows(ledger[k], ledger'[k], now)
  /\ UNCHANGED now

Tick ==
  /\ now' = now + 1
  /\ UNCHANGED ledger

Next == Record \/ Tick

vars == <<ledger, now>>

Spec == Init /\ [][Next]_vars
=============================================================================
