------------------------------ MODULE Bulletin ------------------------------
(***************************************************************************)
(* What the network promises about its objects, without envelopes on their *)
(* way, topics, payloads or sweeps: the owner of an object posts versions  *)
(* of it, and every node shows nothing or one of them.  A node may miss    *)
(* versions and lag behind, each node on its own; it never goes back to an *)
(* older version, shows only what was posted, and leaves a version that    *)
(* closes the object alone until its deadline.  Module Replication         *)
(* implements this.                                                        *)
(***************************************************************************)
EXTENDS Naturals

CONSTANTS Nodes, Keys, Owner, NoBody

VARIABLES posted,  \* the versions posted so far
          view,    \* what each node shows of each object
          now

vars == <<posted, view, now>>

Nothing(k) == [key |-> k, seq |-> 0, exp |-> 0, closed |-> FALSE, body |-> NoBody]

Reopened(version) ==
  [key |-> version.key, seq |-> version.seq, exp |-> version.exp, closed |-> FALSE, body |-> version.body]

Init ==
  /\ posted = {}
  /\ view = [n \in Nodes |-> [k \in Keys |-> Nothing(k)]]
  /\ now = 0

Adopts(n, version) ==
  /\ now <= version.exp
  /\ version.seq > view[n][version.key].seq
  /\ ~ view[n][version.key].closed
  /\ view' = [view EXCEPT ![n][version.key] = version]

Post(version) ==
  /\ posted' = posted \cup {version}
  /\ Adopts(Owner[version.key], version)
  /\ UNCHANGED now

See(n, version) ==
  /\ version \in posted
  /\ Adopts(n, version)
  /\ UNCHANGED <<posted, now>>

\* A version that has lapsed goes, or stays and no longer closes the object.
Lapse(n) ==
  /\ DOMAIN view' = Nodes
  /\ \A m \in Nodes : DOMAIN view'[m] = Keys
  /\ \A m \in Nodes, k \in Keys :
       \/ view'[m][k] = view[m][k]
       \/ /\ m = n
          /\ view[n][k].seq > 0 /\ now > view[n][k].exp
          /\ view'[n][k] \in {Nothing(k), Reopened(view[n][k])}
  /\ UNCHANGED <<posted, now>>

Tick == now' = now + 1 /\ UNCHANGED <<posted, view>>

Next ==
  \/ \E version \in posted' \ posted : Post(version)
  \/ \E n \in Nodes, version \in posted : See(n, version)
  \/ \E n \in Nodes : Lapse(n)
  \/ Tick

Spec == Init /\ [][Next]_vars
=============================================================================
