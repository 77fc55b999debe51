----------------------------- MODULE MCPublish -----------------------------
(***************************************************************************)
(* Module Publish for TLC: the references of the objects' versions, and no *)
(* facts from elsewhere (a node only publishes its own objects).  Clients  *)
(* vary the time to live of a task, and keep to one for a fact.            *)
(***************************************************************************)
EXTENDS Publish, TLC

MCRefs == (TaskKeys \cup FactKeys) \X (1 .. MaxSeq)

MCTTLs == [key \in Keys |-> IF key \in TaskKeys THEN {1, 2} ELSE {1}]

NoFacts == {}

RequestsAlike == Permutations(Requests)
=============================================================================
