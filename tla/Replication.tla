---------------------------- MODULE Replication ----------------------------
(***************************************************************************)
(* Several nodes that share tasks and facts: PublishTask and PublishFact   *)
(* at the owner of an object, handleEnvelope everywhere else, the sweep of *)
(* each node, and the fetch of a detail from its owner (FetchRemoteDetail  *)
(* and handleFetch of internal/p2p/node.go, rpc_fetch.go).                 *)
(*                                                                         *)
(* GossipSub (external) brings a message of a topic to every reader of the *)
(* topic any number of times, in any order, or never; an envelope comes on *)
(* each of its topics.  What a policy refuses is as if it never came, and  *)
(* nobody but the owner can sign for an object (module Inbound has the     *)
(* policy).  The calls of a publication up to the gossip are one step here *)
(* and writes succeed, so that a restart changes nothing but what is under *)
(* way: modules Publish and Store have the rest.  All clocks agree.        *)
(***************************************************************************)
EXTENDS StoreTables, FiniteSets

CONSTANTS Nodes, Topics,
          Reads,     \* the topics each node is subscribed to
          TaskKeys, FactKeys,
          Owner,     \* the node whose objects these are
          ClientOps, \* the ops that clients use
          TTLs,      \* the times to live that they ask for, by object
          TopicsOf,  \* the topics that an object is published on
          MaxSeq, MaxTime, MaxPublications  \* bounds

Keys == TaskKeys \cup FactKeys

\* A body is the number of the publication it came with.
Bodies == 1 .. MaxPublications

Envelopes == [key: Keys, op: Ops, seq: 1 .. MaxSeq, exp: 1 .. MaxTime, body: Bodies]

\* A detail_ref names the owner by way of the key.
Refs == Keys \X (1 .. MaxSeq)

ASSUME ReplicationAssumption ==
  /\ Reads \in [Nodes -> SUBSET Topics]
  /\ TaskKeys \cap FactKeys = {}
  /\ Owner \in [Keys -> Nodes]
  /\ ClientOps \subseteq Ops
  /\ TTLs \in [Keys -> SUBSET (Nat \ {0})]
  /\ TopicsOf \in [Keys -> (SUBSET Topics) \ {{}}]
  /\ MaxSeq \in Nat /\ MaxTime \in Nat /\ MaxPublications \in Nat
  /\ NoBody \notin Bodies

VARIABLES table,      \* each node's tasks and facts
          payloads,   \* the payloads of all nodes; a reference is only at its owner's
          going,      \* what each node is publishing, and the topics still to go
          network,    \* what went out on each topic
          published,  \* history: the envelopes of all publications
          received,   \* history: those each node applied or refused before their deadline
          now

historyVars == <<published, received>>
vars == <<table, payloads, going, network, historyVars, now>>

Blank(k) == IF k \in TaskKeys THEN NoTask ELSE NoFact

DetailRef(env) == <<env.key, env.seq>>

NotPublishing == [topics |-> {}]

Init ==
  /\ table = [n \in Nodes |-> [k \in Keys |-> Blank(k)]]
  /\ payloads = [ref \in Refs |-> NoPayload]
  /\ going = [n \in Nodes |-> NotPublishing]
  /\ network = {}
  /\ published = {}
  /\ received = [n \in Nodes |-> {}]
  /\ now = 0

----------------------------------------------------------------------------
Accepts(entry, env) ==
  IF env.key \in TaskKeys THEN AcceptsTask(entry, env, now) ELSE AcceptsFact(entry, env, now)

EntryFrom(env) == IF env.key \in TaskKeys THEN TaskFrom(env) ELSE FactFrom(env)

\* ApplyTask or ApplyFact at node n.
Applies(n, env) ==
  /\ table' = IF Accepts(table[n][env.key], env)
                THEN [table EXCEPT ![n][env.key] = EntryFrom(env)]
                ELSE table
  /\ received' = IF now <= env.exp THEN [received EXCEPT ![n] = @ \cup {env}] ELSE received

\* What the clients keep to: they publish an object one at a time, no task
\* that they closed, and an object that lapsed only when the sweep has been
\* around, which takes half a minute at most.
ClientMay(k) ==
  /\ going[Owner[k]] = NotPublishing
  /\ k \in TaskKeys => ~ Closed(table[Owner[k]][k])
  /\ \A n \in Nodes : Lapsed(table[n][k], now) =>
                        k \in TaskKeys /\ table[n][k].status = "EXPIRED"

\* PublishTask and PublishFact as far as the gossip.
Publish(k, op, ttl) ==
  LET n   == Owner[k]
      env == [key |-> k, op |-> op, seq |-> NextSeq(table[n][k]), exp |-> now + ttl,
              body |-> Cardinality(published) + 1]
  IN  /\ ClientMay(k)
      /\ Cardinality(published) < MaxPublications
      /\ env \in Envelopes
      /\ k \in FactKeys => op = "UPSERT"
      /\ payloads' = [payloads EXCEPT ![DetailRef(env)] = [exp |-> env.exp, body |-> env.body]]
      /\ Applies(n, env)
      /\ published' = published \cup {env}
      /\ going' = [going EXCEPT ![n] = [topics |-> TopicsOf[k], env |-> env]]
      /\ UNCHANGED <<network, now>>

\* PublishSAE on the next topic.
PublishOn(n, t) ==
  /\ t \in going[n].topics
  /\ network' = network \cup {<<t, going[n].env>>}
  /\ LET left == going[n].topics \ {t}
     IN  going' = [going EXCEPT ![n] = IF left = {} THEN NotPublishing
                                                    ELSE [topics |-> left, env |-> going[n].env]]
  /\ UNCHANGED <<table, payloads, historyVars, now>>

\* The topic fails, or the process ends: the topics before it have the envelope,
\* the others do not.  The client may publish again, under the next number.
PublishFails(n) ==
  /\ going[n] # NotPublishing
  /\ going' = [going EXCEPT ![n] = NotPublishing]
  /\ UNCHANGED <<table, payloads, network, historyVars, now>>

\* handleEnvelope.  readLoop passes over a node's own messages.
HandleEnvelope(n, t, env) ==
  /\ <<t, env>> \in network
  /\ t \in Reads[n]
  /\ n # Owner[env.key]
  /\ Applies(n, env)
  /\ UNCHANGED <<payloads, going, network, published, now>>

Swept(k, entry) == IF k \in TaskKeys THEN SweptTask(entry, now) ELSE SweptFact(entry, now)

GCExpired(n) ==
  /\ table' = [table EXCEPT ![n] = [k \in Keys |-> Swept(k, @[k])]]
  /\ payloads' = [ref \in Refs |-> IF Owner[ref[1]] = n THEN SweptPayload(payloads[ref], now)
                                                        ELSE payloads[ref]]
  /\ UNCHANGED <<going, network, historyVars, now>>

Tick ==
  /\ now < MaxTime
  /\ now' = now + 1
  /\ UNCHANGED <<table, payloads, going, network, historyVars>>

\* What the owner answers to a fetch of ref now: the key is looked up whatever came
\* to the table meanwhile, and no fetch changes a table.
HandleFetch(ref) == payloads[ref].body

Next ==
  \/ \E k \in Keys, op \in ClientOps :
       \E ttl \in TTLs[k] : Publish(k, op, ttl)
  \/ \E n \in Nodes, t \in Topics : PublishOn(n, t)
  \/ \E n \in Nodes, message \in network : HandleEnvelope(n, message[1], message[2])
  \/ \E n \in Nodes : PublishFails(n) \/ GCExpired(n)
  \/ Tick

Spec == Init /\ [][Next]_vars

----------------------------------------------------------------------------
Current(env) == now <= env.exp

TaskEntries == [seq: 0 .. MaxSeq, status: TaskStatuses, exp: 0 .. MaxTime, body: Bodies \cup {NoBody}]

FactEntries == [seq: 0 .. MaxSeq, exp: 0 .. MaxTime, body: Bodies \cup {NoBody}]

Entries(k) == IF k \in TaskKeys THEN TaskEntries ELSE FactEntries

ReplicationTypeOK ==
  /\ table \in [Nodes -> [Keys -> TaskEntries \cup FactEntries]]
  /\ \A n \in Nodes, k \in Keys : table[n][k] \in Entries(k)
  /\ payloads \in [Refs -> [exp: 0 .. MaxTime, body: Bodies \cup {NoBody}]]
  /\ going \in [Nodes -> {NotPublishing} \cup [topics: SUBSET Topics, env: published]]
  /\ network \subseteq Topics \X published
  /\ published \subseteq {env \in Envelopes : env.key \in FactKeys => env.op = "UPSERT"}
  /\ received \in [Nodes -> SUBSET published]
  /\ now \in 0 .. MaxTime

Version(env) ==
  [key |-> env.key, seq |-> env.seq, exp |-> env.exp, body |-> env.body,
   closed |-> env.op \in {"COMPLETE", "WITHDRAW"}]

View(k, entry) ==
  [key |-> k, seq |-> entry.seq, exp |-> entry.exp, body |-> entry.body,
   closed |-> k \in TaskKeys /\ Closed(entry)]

Promise == INSTANCE Bulletin WITH
  posted <- {Version(env) : env \in published},
  view <- [n \in Nodes |-> [k \in Keys |-> View(k, table[n][k])]]

\* Whatever GossipSub loses, repeats or reorders, and wherever a publication
\* breaks off, each node shows only what an owner published and never goes back;
\* a task that it has seen closed stays closed until its deadline (ApplyTask,
\* ApplyFact, GCExpired at every node), for clients that publish what lapsed only
\* when every node has swept it (ClientMay).
ImplementsBulletin == Promise!Spec

\* Two nodes that received the same last version of an object in time show the
\* same, in whatever order the versions came, on however many topics, and also
\* when an earlier publication broke off between topics and its client, told that
\* it failed, published again: what a node shows is the last version it received,
\* for as long as that is current.
ShowsLastReceived ==
  \A n \in Nodes, env \in UNION {received[m] : m \in Nodes} :
    /\ env \in received[n] /\ Current(env)
    /\ \A e \in received[n] : e.key = env.key => e.body <= env.body
    => table[n][env.key] = EntryFrom(env)

\* What any node shows in its table, a client can fetch from its owner until the
\* deadline shown, and is answered with the detail of the very version shown: a node
\* that missed versions shows an old one while the owner goes on publishing, sweeps
\* and starts numbering anew (/v1/tasks at one node, handleFetch at another, whose
\* detail_ref has only a number to tell the versions apart).
ShownIsFetchable ==
  \A n \in Nodes, k \in Keys :
    LET entry == table[n][k]
    IN  entry.seq > 0 /\ now <= entry.exp => HandleFetch(<<k, entry.seq>>) = entry.body
=============================================================================
