------------------------- MODULE ReplicationProofs -------------------------
(***************************************************************************)
(* What module Replication promises, for any nodes, topics, objects, times *)
(* to live and bounds.                                                     *)
(***************************************************************************)
EXTENDS Replication, FiniteSetTheorems, TLAPS

(***************************************************************************)
(* Type correctness.                                                       *)
(***************************************************************************)
LEMMA Bounds == MaxSeq \in Nat /\ MaxTime \in Nat
  BY ReplicationAssumption

LEMMA Owners == Owner \in [Keys -> Nodes]
  BY ReplicationAssumption

LEMMA TopicSets == TopicsOf \in [Keys -> (SUBSET Topics) \ {{}}]
  BY ReplicationAssumption

LEMMA BlankType == \A k : Blank(k) \in Entries(k)
<1>1. NoTask \in TaskEntries
  BY Bounds DEF NoTask, TaskEntries, TaskStatuses
<1>2. NoFact \in FactEntries
  BY Bounds DEF NoFact, FactEntries
<1> QED BY <1>1, <1>2 DEF Blank, Entries

LEMMA EntryFromType == ASSUME NEW env \in Envelopes PROVE EntryFrom(env) \in Entries(env.key)
<1>1. StatusOf(env.op) \in TaskStatuses
  BY DEF Envelopes, Ops, StatusOf, TaskStatuses
<1>2. env.seq \in 0 .. MaxSeq /\ env.exp \in 0 .. MaxTime /\ env.body \in Bodies
  BY Bounds DEF Envelopes
<1>3. TaskFrom(env) \in TaskEntries
  BY <1>1, <1>2 DEF TaskFrom, TaskEntries
<1>4. FactFrom(env) \in FactEntries
  BY <1>2 DEF FactFrom, FactEntries
<1> QED BY <1>3, <1>4 DEF EntryFrom, Entries

LEMMA SweptType == ASSUME NEW k, NEW entry \in Entries(k) PROVE Swept(k, entry) \in Entries(k)
<1>1. CASE k \in TaskKeys
  BY <1>1 DEF Swept, SweptTask, ExpiredTask, Entries, TaskEntries, TaskStatuses
<1>2. CASE k \notin TaskKeys
  BY <1>2, BlankType DEF Swept, SweptFact, Entries, Blank
<1> QED BY <1>1, <1>2

\* The parts of the type invariant, by the names the proofs use.
Tables ==
  /\ table \in [Nodes -> [Keys -> TaskEntries \cup FactEntries]]
  /\ \A n \in Nodes, k \in Keys : table[n][k] \in Entries(k)

LEMMA EntriesAll == \A k : Entries(k) \subseteq TaskEntries \cup FactEntries
  BY DEF Entries

\* A node that applies an envelope or refuses it keeps the tables typed.
LEMMA AppliesTypes ==
  ASSUME Tables, NEW n \in Nodes, NEW env \in Envelopes, Applies(n, env)
  PROVE  Tables'
<1>1. EntryFrom(env) \in Entries(env.key) /\ env.key \in Keys
  BY EntryFromType DEF Envelopes
<1>2. CASE Accepts(table[n][env.key], env)
  BY <1>1, <1>2, EntriesAll DEF Applies, Tables
<1>3. CASE ~ Accepts(table[n][env.key], env)
  BY <1>3 DEF Applies, Tables
<1> QED BY <1>2, <1>3

LEMMA TypeInductive == ReplicationTypeOK /\ [Next]_vars => ReplicationTypeOK'
<1> SUFFICES ASSUME ReplicationTypeOK, [Next]_vars PROVE ReplicationTypeOK'
  OBVIOUS
<1> USE DEF ReplicationTypeOK, Tables
<1>1. ASSUME NEW k \in Keys, NEW op \in ClientOps, NEW ttl \in TTLs[k], Publish(k, op, ttl)
      PROVE  ReplicationTypeOK'
  <2> DEFINE n == Owner[k]
             env == [key |-> k, op |-> op, seq |-> NextSeq(table[n][k]), exp |-> now + ttl,
                     body |-> Cardinality(published) + 1]
  <2>1. env \in Envelopes /\ Applies(n, env) /\ published' = published \cup {env}
    BY <1>1 DEF Publish
  <2>2. n \in Nodes
    BY Owners
  <2>3. Tables'
    BY <2>1, <2>2, AppliesTypes
  <2>4. DetailRef(env) \in Refs /\ [exp |-> env.exp, body |-> env.body] \in [exp: 0 .. MaxTime, body: Bodies \cup {NoBody}]
    BY <2>1, Bounds DEF DetailRef, Refs, Envelopes
  <2>5. payloads' \in [Refs -> [exp: 0 .. MaxTime, body: Bodies \cup {NoBody}]]
    <3>1. payloads' = [payloads EXCEPT ![DetailRef(env)] = [exp |-> env.exp, body |-> env.body]]
      BY <1>1 DEF Publish
    <3> QED BY <3>1, <2>4
  <2>6. going' \in [Nodes -> {NotPublishing} \cup [topics: SUBSET Topics, env: published']]
    <3>1. going' = [going EXCEPT ![n] = [topics |-> TopicsOf[k], env |-> env]]
      BY <1>1 DEF Publish
    <3>2. [topics |-> TopicsOf[k], env |-> env] \in [topics: SUBSET Topics, env: published']
      BY <2>1, TopicSets
    <3>3. going \in [Nodes -> {NotPublishing} \cup [topics: SUBSET Topics, env: published']]
      BY <2>1
    <3> QED BY <3>1, <3>2, <3>3
  <2>7. published' \subseteq {e \in Envelopes : e.key \in FactKeys => e.op = "UPSERT"}
    BY <1>1, <2>1 DEF Publish
  <2>8. received' \in [Nodes -> SUBSET published']
    BY <2>1, <2>2 DEF Applies
  <2> QED BY <1>1, <2>1, <2>3, <2>5, <2>6, <2>7, <2>8 DEF Publish
<1>2. ASSUME NEW n \in Nodes, NEW t \in Topics, PublishOn(n, t) PROVE ReplicationTypeOK'
  <2>1. going[n] \in [topics: SUBSET Topics, env: published]
    BY <1>2 DEF PublishOn, NotPublishing
  <2>2. going' \in [Nodes -> {NotPublishing} \cup [topics: SUBSET Topics, env: published]]
    BY <1>2, <2>1 DEF PublishOn
  <2>3. network' \subseteq Topics \X published
    BY <1>2, <2>1 DEF PublishOn
  <2> QED BY <1>2, <2>2, <2>3 DEF PublishOn, historyVars, Tables
<1>3. ASSUME NEW n \in Nodes, PublishFails(n) PROVE ReplicationTypeOK'
  BY <1>3 DEF PublishFails, historyVars, Tables
<1>4. ASSUME NEW n \in Nodes, NEW message \in network, HandleEnvelope(n, message[1], message[2])
      PROVE  ReplicationTypeOK'
  <2>1. message[2] \in published /\ message[2] \in Envelopes
    OBVIOUS
  <2>2. Tables'
    BY <1>4, <2>1, AppliesTypes DEF HandleEnvelope
  <2>3. received' \in [Nodes -> SUBSET published]
    BY <1>4, <2>1 DEF HandleEnvelope, Applies
  <2> QED BY <1>4, <2>2, <2>3 DEF HandleEnvelope
<1>5. ASSUME NEW n \in Nodes, GCExpired(n) PROVE ReplicationTypeOK'
  <2>1. table' = [table EXCEPT ![n] = [k \in Keys |-> Swept(k, table[n][k])]]
    BY <1>5 DEF GCExpired
  <2>2. \A k \in Keys : Swept(k, table[n][k]) \in Entries(k)
    BY SweptType DEF Tables
  <2>3. Tables'
    BY <2>1, <2>2, EntriesAll DEF Tables
  <2>4. \A ref \in Refs : SweptPayload(payloads[ref], now) \in [exp: 0 .. MaxTime, body: Bodies \cup {NoBody}]
    BY Bounds DEF SweptPayload, NoPayload
  <2>5. payloads' \in [Refs -> [exp: 0 .. MaxTime, body: Bodies \cup {NoBody}]]
    BY <1>5, <2>4 DEF GCExpired
  <2> QED BY <1>5, <2>3, <2>5 DEF GCExpired, historyVars
<1>6. CASE Tick
  BY <1>6, Bounds DEF Tick, historyVars, Tables
<1>7. CASE UNCHANGED vars
  BY <1>7 DEF vars, historyVars, Tables
<1> QED BY <1>1, <1>2, <1>3, <1>4, <1>5, <1>6, <1>7 DEF Next

LEMMA InitTypes == Init => ReplicationTypeOK
<1> SUFFICES ASSUME Init PROVE ReplicationTypeOK
  OBVIOUS
<1>1. Tables
  BY BlankType, EntriesAll DEF Init, Tables
<1>2. NoPayload \in [exp: 0 .. MaxTime, body: Bodies \cup {NoBody}]
  BY Bounds DEF NoPayload
<1> QED BY <1>1, <1>2, Bounds DEF Init, ReplicationTypeOK, Tables

\* Every reachable state of the nodes and of the gossip between them is well typed.
THEOREM ReplicationTypeCorrect == Spec => []ReplicationTypeOK
  BY InitTypes, TypeInductive, PTL DEF Spec

(***************************************************************************)
(* The bulletin.  An accepted envelope is a version that its receiver      *)
(* adopts, a sweep lets versions lapse, and nothing else changes a view.   *)
(***************************************************************************)
Views == [n \in Nodes |-> [k \in Keys |-> View(k, table[n][k])]]

\* A fact never closes its object.
LEMMA ViewOfEntry ==
  ASSUME NEW env \in Envelopes, env.key \in FactKeys => env.op = "UPSERT"
  PROVE  View(env.key, EntryFrom(env)) = Version(env)
<1>1. CASE env.key \in TaskKeys
  <2>1. Closed(TaskFrom(env)) <=> env.op \in {"COMPLETE", "WITHDRAW"}
    BY DEF Closed, TaskFrom, StatusOf
  <2> QED BY <1>1, <2>1 DEF View, Version, EntryFrom, TaskFrom
<1>2. CASE env.key \notin TaskKeys
  BY <1>2 DEF View, Version, EntryFrom, FactFrom, Envelopes, Keys
<1> QED BY <1>1, <1>2

\* What ApplyTask or ApplyFact accepts, the bulletin lets a node adopt.
LEMMA AcceptedIsAdopted ==
  ASSUME ReplicationTypeOK, NEW n \in Nodes, NEW env \in Envelopes,
         env.key \in FactKeys => env.op = "UPSERT",
         Accepts(table[n][env.key], env), Applies(n, env)
  PROVE  Promise!Adopts(n, Version(env))
<1> DEFINE k == env.key
<1>1. k \in Keys /\ k \in DOMAIN table[n] /\ n \in DOMAIN table
  BY DEF Envelopes, ReplicationTypeOK
<1>2. now <= env.exp /\ env.seq > table[n][k].seq /\ ~ View(k, table[n][k]).closed
  BY DEF Accepts, AcceptsTask, AcceptsFact, View
<1>3. table' = [table EXCEPT ![n] = [table[n] EXCEPT ![k] = EntryFrom(env)]]
  BY DEF Applies
<1>4. Views' = [Views EXCEPT ![n] = [Views[n] EXCEPT ![k] = Version(env)]]
  <2>1. ASSUME NEW m \in Nodes, NEW j \in Keys
        PROVE  Views'[m][j] = [Views EXCEPT ![n] = [Views[n] EXCEPT ![k] = Version(env)]][m][j]
    <3>1. CASE m = n /\ j = k
      BY <1>1, <1>3, <3>1, ViewOfEntry DEF Views, ReplicationTypeOK
    <3>2. CASE ~ (m = n /\ j = k)
      BY <1>1, <1>3, <3>2 DEF Views, ReplicationTypeOK
    <3> QED BY <3>1, <3>2
  <2>2. /\ Views' \in [Nodes -> [Keys -> {View(j, table'[m][j]) : j \in Keys, m \in Nodes}]]
        /\ DOMAIN Views = Nodes /\ \A m \in Nodes : DOMAIN Views[m] = Keys /\ DOMAIN Views'[m] = Keys
    BY DEF Views
  <2> DEFINE next == [Views EXCEPT ![n] = [Views[n] EXCEPT ![k] = Version(env)]]
  <2>3. /\ next = [m \in Nodes |-> next[m]]
        /\ \A m \in Nodes : next[m] = [j \in Keys |-> next[m][j]]
    <3> DEFINE changed == [Views[n] EXCEPT ![k] = Version(env)]
    <3>1. changed = [j \in Keys |-> changed[j]]
      <4>1. DOMAIN Views[n] = Keys
        BY <2>2
      <4>2. changed = [j \in Keys |-> IF j = k THEN Version(env) ELSE Views[n][j]]
        BY <4>1
      <4> HIDE DEF changed
      <4> QED BY <4>2
    <3>2. \A m \in Nodes : Views[m] = [j \in Keys |-> Views[m][j]]
      BY DEF Views
    <3> HIDE DEF changed
    <3>3. next = [m \in Nodes |-> IF m = n THEN changed ELSE Views[m]]
      BY <2>2 DEF changed
    <3> HIDE DEF next
    <3>4. next = [m \in Nodes |-> next[m]]
      BY <3>3
    <3>5. ASSUME NEW m \in Nodes PROVE next[m] = [j \in Keys |-> next[m][j]]
      <4>1. CASE m = n
        <5>1. next[m] = changed
          BY <3>3, <4>1
        <5> QED BY <3>1, <5>1, Zenon
      <4>2. CASE m # n
        <5>1. next[m] = Views[m]
          BY <3>3, <4>2
        <5> QED BY <3>2, <5>1, Zenon
      <4> QED BY <4>1, <4>2
    <3> QED BY <3>4, <3>5
  <2>4. /\ Views' = [m \in Nodes |-> Views'[m]]
        /\ \A m \in Nodes : Views'[m] = [j \in Keys |-> Views'[m][j]]
    BY <2>2
  <2> HIDE DEF next
  <2>5. \A m \in Nodes : Views'[m] = next[m]
    <3> SUFFICES ASSUME NEW m \in Nodes PROVE Views'[m] = next[m]
      OBVIOUS
    <3>1. [j \in Keys |-> Views'[m][j]] = [j \in Keys |-> next[m][j]]
      BY <2>1, Zenon DEF next
    <3>2. /\ Views'[m] = [j \in Keys |-> Views'[m][j]]
          /\ next[m] = [j \in Keys |-> next[m][j]]
      BY <2>3, <2>4, Zenon
    <3> QED BY <3>1, <3>2, Zenon
  <2>6. [m \in Nodes |-> Views'[m]] = [m \in Nodes |-> next[m]]
    BY <2>5, Zenon
  <2>7. Views' = next
    BY <2>3, <2>4, <2>6, Zenon
  <2> QED BY <2>7 DEF next
<1>5. /\ Version(env).key = k /\ Version(env).exp = env.exp /\ Version(env).seq = env.seq
      /\ Views[n][k] = View(k, table[n][k])
      /\ View(k, table[n][k]).seq = table[n][k].seq
  BY <1>1 DEF Version, View, Views
<1> QED BY <1>2, <1>4, <1>5 DEF Promise!Adopts, Views

\* An owner accepts what it publishes.
LEMMA PublishIsAccepted ==
  ASSUME ReplicationTypeOK, NEW k \in Keys, NEW ttl \in TTLs[k], ClientMay(k),
         NEW env \in Envelopes, env.key = k, env.seq = NextSeq(table[Owner[k]][k]), env.exp = now + ttl
  PROVE  Accepts(table[Owner[k]][k], env)
<1>1. Owner[k] \in Nodes /\ ttl \in Nat
  BY ReplicationAssumption
<1>2. table[Owner[k]][k].seq \in Nat
  BY <1>1 DEF ReplicationTypeOK, Entries, TaskEntries, FactEntries
<1>3. now <= env.exp /\ env.seq > table[Owner[k]][k].seq
  BY <1>1, <1>2 DEF NextSeq, ReplicationTypeOK
<1> QED BY <1>3 DEF Accepts, AcceptsTask, AcceptsFact, ClientMay

\* A sweep deletes a lapsed fact, and makes a lapsed task close nothing.
LEMMA SweepLapses ==
  ASSUME ReplicationTypeOK, NEW n \in Nodes, GCExpired(n)
  PROVE  Promise!Lapse(n)
<1>1. table' = [table EXCEPT ![n] = [k \in Keys |-> Swept(k, table[n][k])]]
  BY DEF GCExpired
<1>2. ASSUME NEW m \in Nodes, NEW k \in Keys
      PROVE  \/ Views'[m][k] = Views[m][k]
             \/ /\ m = n
                /\ Views[n][k].seq > 0 /\ now > Views[n][k].exp
                /\ Views'[m][k] \in {Promise!Nothing(k), Promise!Reopened(Views[n][k])}
  <2>1. Views[m][k] = View(k, table[m][k]) /\ Views'[m][k] = View(k, table'[m][k])
    BY DEF Views
  <2>2. CASE table'[m][k] = table[m][k]
    BY <2>1, <2>2
  <2>3. CASE m = n /\ table'[m][k] = Swept(k, table[n][k]) /\ Lapsed(table[n][k], now)
    <3>1. Views[n][k].seq > 0 /\ now > Views[n][k].exp
      BY <2>1, <2>3 DEF Lapsed, Present, View
    <3>2. CASE k \in TaskKeys
      <4>1. table[n][k] \in TaskEntries
        BY <3>2 DEF ReplicationTypeOK, Entries
      <4>2. Swept(k, table[n][k]) = [table[n][k] EXCEPT !.status = "EXPIRED"]
        BY <2>3, <3>2 DEF Swept, SweptTask, ExpiredTask
      <4>3. View(k, Swept(k, table[n][k])) = Promise!Reopened(View(k, table[n][k]))
        <5> DEFINE x == Swept(k, table[n][k])
        <5>1. x.seq = table[n][k].seq /\ x.exp = table[n][k].exp /\ x.body = table[n][k].body /\ x.status = "EXPIRED"
          BY <4>1, <4>2 DEF TaskEntries
        <5>2. ~ Closed(x)
          BY <5>1 DEF Closed
        <5> QED BY <5>1, <5>2 DEF View, Promise!Reopened
      <4> QED BY <2>1, <2>3, <3>1, <4>3
    <3>3. CASE k \notin TaskKeys
      <4>1. Swept(k, table[n][k]) = NoFact
        BY <2>3, <3>3 DEF Swept, SweptFact
      <4>2. View(k, NoFact) = Promise!Nothing(k)
        BY <3>3 DEF View, NoFact, Promise!Nothing
      <4> QED BY <2>1, <2>3, <3>1, <4>1, <4>2
    <3> QED BY <3>2, <3>3
  <2>4. table'[m][k] = table[m][k] \/ (m = n /\ table'[m][k] = Swept(k, table[n][k]) /\ Lapsed(table[n][k], now))
    BY <1>1 DEF ReplicationTypeOK, Swept, SweptTask, SweptFact
  <2> QED BY <2>2, <2>3, <2>4
<1>3. UNCHANGED <<published, now>>
  BY DEF GCExpired, historyVars
<1>4. DOMAIN Views' = Nodes /\ \A m \in Nodes : DOMAIN Views'[m] = Keys
  BY DEF Views
<1> QED BY <1>2, <1>3, <1>4 DEF Promise!Lapse, Views

\* Every step of the nodes is one of the bulletin, or none.
LEMMA StepIsBulletinStep ==
  ReplicationTypeOK /\ [Next]_vars => [Promise!Next]_(Promise!vars)
<1> SUFFICES ASSUME ReplicationTypeOK, [Next]_vars
             PROVE  Promise!Next \/ UNCHANGED Promise!vars
  OBVIOUS
<1>1. ASSUME NEW k \in Keys, NEW op \in ClientOps, NEW ttl \in TTLs[k], Publish(k, op, ttl)
      PROVE  Promise!Next
  <2> DEFINE n == Owner[k]
             env == [key |-> k, op |-> op, seq |-> NextSeq(table[n][k]), exp |-> now + ttl,
                     body |-> Cardinality(published) + 1]
  <2>1. /\ env \in Envelopes /\ Applies(n, env) /\ published' = published \cup {env}
        /\ ClientMay(k)
        /\ k \in FactKeys => op = "UPSERT"
        /\ UNCHANGED now
    BY <1>1 DEF Publish
  <2>2. env.key = k /\ env.op = op /\ env.seq = NextSeq(table[n][k]) /\ env.exp = now + ttl
    OBVIOUS
  <2> HIDE DEF env
  <2>3. n \in Nodes /\ Version(env).key = k
    BY <2>2, Owners DEF Version
  <2>4. Promise!Adopts(n, Version(env))
    BY <2>1, <2>2, <2>3, PublishIsAccepted, AcceptedIsAdopted
  <2>5. {Version(e) : e \in published'} = {Version(e) : e \in published} \cup {Version(env)}
    BY <2>1
  <2>6. CASE Version(env) \in {Version(e) : e \in published}
    <3>1. Promise!See(n, Version(env))
      BY <2>1, <2>4, <2>5, <2>6 DEF Promise!See
    <3> QED BY <2>3, <2>6, <3>1 DEF Promise!Next
  <2>7. CASE Version(env) \notin {Version(e) : e \in published}
    <3>1. Promise!Post(Version(env))
      BY <2>1, <2>3, <2>4, <2>5 DEF Promise!Post
    <3> QED BY <2>5, <2>7, <3>1 DEF Promise!Next
  <2> QED BY <2>6, <2>7
<1>2. ASSUME NEW n \in Nodes, NEW message \in network, HandleEnvelope(n, message[1], message[2])
      PROVE  Promise!Next \/ UNCHANGED Promise!vars
  <2> DEFINE env == message[2]
  <2>1. env \in published /\ env \in Envelopes /\ (env.key \in FactKeys => env.op = "UPSERT")
    BY DEF ReplicationTypeOK
  <2>2. UNCHANGED <<published, now>> /\ Applies(n, env)
    BY <1>2 DEF HandleEnvelope
  <2>3. CASE Accepts(table[n][env.key], env)
    <3>1. Promise!Adopts(n, Version(env))
      BY <2>1, <2>2, <2>3, AcceptedIsAdopted
    <3>2. Promise!See(n, Version(env))
      BY <2>1, <2>2, <3>1 DEF Promise!See
    <3>3. Version(env) \in {Version(e) : e \in published}
      BY <2>1
    <3> QED BY <3>2, <3>3 DEF Promise!Next
  <2>4. CASE ~ Accepts(table[n][env.key], env)
    BY <2>2, <2>4 DEF Applies, Promise!vars
  <2> QED BY <2>3, <2>4
<1>3. ASSUME NEW n \in Nodes, GCExpired(n) PROVE Promise!Next
  BY <1>3, SweepLapses DEF Promise!Next
<1>4. CASE (\E n \in Nodes, t \in Topics : PublishOn(n, t)) \/ (\E n \in Nodes : PublishFails(n)) \/ UNCHANGED vars
  BY <1>4 DEF PublishOn, PublishFails, vars, historyVars, Promise!vars
<1>5. CASE Tick
  BY <1>5 DEF Tick, historyVars, Promise!Next, Promise!Tick
<1> QED BY <1>1, <1>2, <1>3, <1>4, <1>5 DEF Next

LEMMA InitIsBulletinInit == Init => Promise!Init
<1>1. \A k : View(k, Blank(k)) = Promise!Nothing(k)
  BY DEF View, Blank, NoTask, NoFact, Closed, Promise!Nothing
<1> QED BY <1>1 DEF Init, Promise!Init

\* Every node shows what the owners posted and never goes back, whatever GossipSub
\* loses, repeats or reorders: the nodes implement the bulletin.
THEOREM NodesImplementBulletin == Spec => ImplementsBulletin
  BY InitIsBulletinInit, ReplicationTypeCorrect, StepIsBulletinStep, PTL DEF Spec, ImplementsBulletin, Promise!Spec

(***************************************************************************)
(* Fetches.  The owner's entry of an object keeps up with every envelope   *)
(* that is current, so that no later publication takes its detail_ref.     *)
(* For facts, whose entry the sweep deletes with their number, this needs  *)
(* deadlines that do not shrink.                                           *)
(***************************************************************************)
SteadyFacts == \A k \in FactKeys : \A t, u \in TTLs[k] : t = u

\* What the owner keeps of an envelope.
Kept(env) ==
  /\ env.key \in FactKeys => \A ttl \in TTLs[env.key] : env.exp <= now + ttl
  /\ Current(env) =>
       /\ payloads[DetailRef(env)] = [exp |-> env.exp, body |-> env.body]
       /\ env.seq <= table[Owner[env.key]][env.key].seq
       /\ env.key \in FactKeys => env.exp <= table[Owner[env.key]][env.key].exp

AllKept == \A env \in published : Kept(env)

LEMMA PublishKeeps ==
  ASSUME ReplicationTypeOK, SteadyFacts, AllKept,
         NEW k \in Keys, NEW op \in ClientOps, NEW ttl \in TTLs[k], Publish(k, op, ttl)
  PROVE  AllKept'
<1> DEFINE n == Owner[k]
<1>1. PICK new \in Envelopes :
        /\ new = [key |-> k, op |-> op, seq |-> NextSeq(table[n][k]), exp |-> now + ttl,
                  body |-> Cardinality(published) + 1]
        /\ Applies(n, new) /\ published' = published \cup {new}
        /\ ClientMay(k)
        /\ payloads' = [payloads EXCEPT ![DetailRef(new)] = [exp |-> new.exp, body |-> new.body]]
        /\ UNCHANGED now
  BY DEF Publish
<1>2. new.key = k /\ new.seq = NextSeq(table[n][k]) /\ new.exp = now + ttl
      /\ new.seq \in Nat /\ new.exp \in Nat
  BY <1>1, Bounds DEF Envelopes
<1>3. n \in Nodes /\ ttl \in Nat /\ now \in Nat /\ table[n][k].seq \in Nat
  BY ReplicationAssumption DEF ReplicationTypeOK, Entries, TaskEntries, FactEntries
<1>4. table' = [table EXCEPT ![n] = [table[n] EXCEPT ![k] = EntryFrom(new)]]
  <2>1. Accepts(table[n][k], new)
    BY <1>1, <1>2, PublishIsAccepted
  <2> QED BY <1>1, <1>2, <2>1 DEF Applies
<1>5. table'[n][k].seq = new.seq /\ (k \in FactKeys => table'[n][k].exp = new.exp)
  <2>1. table'[n][k] = EntryFrom(new)
    BY <1>3, <1>4 DEF ReplicationTypeOK
  <2> QED BY <2>1 DEF EntryFrom, TaskFrom, FactFrom
<1>6. \A e \in published : DetailRef(e) \in Refs /\ e.key \in Keys /\ e.seq \in Nat /\ e.exp \in Nat
  BY Bounds DEF ReplicationTypeOK, Envelopes, DetailRef, Refs
<1>7. DetailRef(new) \in Refs
  BY DEF Envelopes, DetailRef, Refs
<1>8. Kept(new)'
  <2>1. k \in FactKeys => \A u \in TTLs[k] : new.exp <= now + u
    BY <1>2, <1>3 DEF SteadyFacts
  <2>2. payloads'[DetailRef(new)] = [exp |-> new.exp, body |-> new.body]
    BY <1>1, <1>7 DEF ReplicationTypeOK
  <2> QED BY <1>1, <1>2, <1>5, <2>1, <2>2 DEF Kept, DetailRef
<1>9. ASSUME NEW e \in published PROVE Kept(e)'
  <2>1. Kept(e)
    BY DEF AllKept
  <2>2. CASE e.key = k
    <3>1. e.key \in FactKeys => e.exp <= new.exp
      BY <1>2, <2>1, <2>2 DEF Kept
    <3>2. Current(e) => e.seq <= table[n][k].seq
      BY <2>1, <2>2 DEF Kept
    <3>3. Current(e) => e.seq < new.seq
      BY <1>2, <1>3, <1>6, <3>2 DEF NextSeq
    <3>4. Current(e) => DetailRef(e) # DetailRef(new)
      BY <1>2, <1>6, <3>3 DEF DetailRef
    <3>5. Current(e) => payloads'[DetailRef(e)] = payloads[DetailRef(e)]
      BY <1>1, <1>6, <1>7, <3>4 DEF ReplicationTypeOK
    <3>6. Current(e)' <=> Current(e)
      BY <1>1 DEF Current
    <3>7. Current(e) => e.seq <= new.seq
      BY <1>2, <1>3, <1>6, <3>3 DEF NextSeq
    <3> QED BY <1>1, <1>5, <2>1, <2>2, <3>1, <3>5, <3>6, <3>7 DEF Kept, DetailRef
  <2>3. CASE e.key # k
    <3>1. table'[Owner[e.key]][e.key] = table[Owner[e.key]][e.key]
      BY <1>4, <1>6, <2>3, Owners DEF ReplicationTypeOK
    <3>2. DetailRef(e) # DetailRef(new)
      BY <1>2, <2>3 DEF DetailRef
    <3>3. payloads'[DetailRef(e)] = payloads[DetailRef(e)]
      BY <1>1, <1>6, <1>7, <3>2 DEF ReplicationTypeOK
    <3> QED BY <1>1, <2>1, <3>1, <3>3 DEF Kept, Current, DetailRef
  <2> QED BY <2>2, <2>3
<1> QED BY <1>1, <1>8, <1>9 DEF AllKept

\* An owner's own entry is not what others send.
LEMMA HandleKeeps ==
  ASSUME ReplicationTypeOK, AllKept, NEW n \in Nodes, NEW t, NEW env, HandleEnvelope(n, t, env)
  PROVE  AllKept'
<1>1. UNCHANGED <<payloads, published, now>> /\ n # Owner[env.key] /\ env.key \in Keys
  BY DEF HandleEnvelope, ReplicationTypeOK, Envelopes
<1>2. ASSUME NEW e \in published PROVE table'[Owner[e.key]][e.key] = table[Owner[e.key]][e.key]
  <2>1. e.key \in Keys
    BY DEF ReplicationTypeOK, Envelopes
  <2> QED BY <1>1, <2>1, Owners DEF HandleEnvelope, Applies, ReplicationTypeOK
<1> QED BY <1>1, <1>2 DEF AllKept, Kept, Current, DetailRef

\* The sweep leaves what belongs to a current envelope.
LEMMA SweepKeeps ==
  ASSUME ReplicationTypeOK, AllKept, NEW n \in Nodes, GCExpired(n)
  PROVE  AllKept'
<1>1. UNCHANGED <<published, now>> /\ table' = [table EXCEPT ![n] = [k \in Keys |-> Swept(k, table[n][k])]]
  BY DEF GCExpired, historyVars
<1>2. SUFFICES ASSUME NEW e \in published, Current(e)
               PROVE  /\ payloads'[DetailRef(e)] = payloads[DetailRef(e)]
                      /\ table'[Owner[e.key]][e.key].seq = table[Owner[e.key]][e.key].seq
                      /\ e.key \in FactKeys =>
                           table'[Owner[e.key]][e.key].exp = table[Owner[e.key]][e.key].exp
  BY <1>1 DEF AllKept, Kept, Current, DetailRef
<1>3. Kept(e)
  BY DEF AllKept
<1>4. DetailRef(e) \in Refs /\ e.key \in Keys /\ Owner[e.key] \in Nodes /\ now \in Nat /\ e.exp \in Nat
  BY Bounds, Owners DEF ReplicationTypeOK, Envelopes, DetailRef, Refs
<1>5. payloads'[DetailRef(e)] = payloads[DetailRef(e)]
  <2>1. ~ LapsedPayload(payloads[DetailRef(e)], now)
    BY <1>2, <1>3, <1>4 DEF Kept, Current, LapsedPayload
  <2> QED BY <1>4, <2>1 DEF GCExpired, SweptPayload
<1> DEFINE entry == table[Owner[e.key]][e.key]
<1>6. table'[Owner[e.key]][e.key] \in {entry, Swept(e.key, entry)}
  BY <1>1, <1>4 DEF ReplicationTypeOK
<1>7. CASE e.key \in TaskKeys
  <2>1. e.key \notin FactKeys
    BY <1>7, ReplicationAssumption
  <2>2. entry \in TaskEntries
    BY <1>4, <1>7 DEF ReplicationTypeOK, Entries
  <2>3. Swept(e.key, entry).seq = entry.seq
    BY <1>7, <2>2 DEF Swept, SweptTask, ExpiredTask, TaskEntries
  <2> QED BY <1>5, <1>6, <2>1, <2>3
<1>8. CASE e.key \notin TaskKeys
  <2>1. e.key \in FactKeys /\ entry \in FactEntries
    BY <1>4, <1>8 DEF ReplicationTypeOK, Entries, Keys
  <2>2. e.exp <= entry.exp /\ now <= e.exp /\ entry.exp \in Nat
    BY <1>2, <1>3, <2>1, Bounds DEF Kept, Current, FactEntries
  <2>3. ~ Lapsed(entry, now)
    BY <1>4, <2>2 DEF Lapsed
  <2> QED BY <1>5, <1>6, <1>8, <2>3 DEF Swept, SweptFact
<1> QED BY <1>7, <1>8

LEMMA KeptInductive == SteadyFacts /\ ReplicationTypeOK /\ AllKept /\ [Next]_vars => AllKept'
<1> SUFFICES ASSUME SteadyFacts, ReplicationTypeOK, AllKept, [Next]_vars PROVE AllKept'
  OBVIOUS
<1>1. CASE \E k \in Keys, op \in ClientOps : \E ttl \in TTLs[k] : Publish(k, op, ttl)
  BY <1>1, PublishKeeps
<1>2. CASE \E n \in Nodes, message \in network : HandleEnvelope(n, message[1], message[2])
  BY <1>2, HandleKeeps
<1>3. CASE \E n \in Nodes : GCExpired(n)
  BY <1>3, SweepKeeps
<1>4. CASE Tick
  <2>1. now \in Nat /\ now' = now + 1 /\ UNCHANGED <<table, payloads, published>>
    BY <1>4 DEF Tick, historyVars, ReplicationTypeOK
  <2>2. ASSUME NEW e \in published PROVE Kept(e)'
    <3>1. Kept(e) /\ e.exp \in Nat /\ e.key \in Keys
      BY Bounds DEF AllKept, ReplicationTypeOK, Envelopes
    <3>2. \A ttl \in TTLs[e.key] : ttl \in Nat
      BY <3>1, ReplicationAssumption
    <3>3. Current(e)' => Current(e)
      BY <2>1, <3>1 DEF Current
    <3>4. e.key \in FactKeys => \A ttl \in TTLs[e.key] : e.exp <= now' + ttl
      BY <2>1, <3>1, <3>2 DEF Kept
    <3> QED BY <2>1, <3>1, <3>3, <3>4 DEF Kept, DetailRef
  <2> QED BY <2>1, <2>2 DEF AllKept
<1>5. CASE (\E n \in Nodes, t \in Topics : PublishOn(n, t)) \/ (\E n \in Nodes : PublishFails(n)) \/ UNCHANGED vars
  BY <1>5 DEF PublishOn, PublishFails, vars, historyVars, AllKept, Kept, Current, DetailRef
<1> QED BY <1>1, <1>2, <1>3, <1>4, <1>5 DEF Next

(***************************************************************************)
(* The last version.  The number of an envelope grows from one publication *)
(* to the next for as long as a node may hold the earlier one, and nothing *)
(* is published after a closing one that somebody could still apply.  So   *)
(* the last version that a node receives is accepted whatever came before  *)
(* it, and nothing that it receives later replaces it.                     *)
(***************************************************************************)
OwnEntry(k) == table[Owner[k]][k]

IsClosing(env) == env.key \in TaskKeys /\ env.op \in {"COMPLETE", "WITHDRAW"}

\* The publications are numbered by their bodies.
Numbered ==
  /\ IsFiniteSet(published)
  /\ \A e \in published : e.body <= Cardinality(published)
  /\ \A e, f \in published : e.body = f.body => e = f

\* The owner of a task has its highest number, and shows what closes it.
OwnersLead ==
  /\ \A e \in published : e.key \in TaskKeys => e.seq <= OwnEntry(e.key).seq
  /\ \A e \in published : IsClosing(e) /\ Current(e) => OwnEntry(e.key) = EntryFrom(e)

\* What was published after a version that is still current has a higher number,
\* and there is no such thing after one that closes.
NumbersRise == \A e, f \in published :
  e.key = f.key /\ e.body < f.body /\ Current(e) => e.seq < f.seq /\ ~ IsClosing(e)

\* What an entry may be that was made of an envelope.
ComesFrom(entry, e) ==
  \/ entry = EntryFrom(e)
  \/ e.key \in TaskKeys /\ entry = ExpiredTask(EntryFrom(e))

HoldsReceived == \A n \in Nodes, k \in Keys :
  IF table[n][k].seq = 0
    THEN table[n][k] = Blank(k)
    ELSE \E e \in received[n] : e.key = k /\ ComesFrom(table[n][k], e)

\* What was published after the version that a node shows can replace it there.
LaterFollow == \A n \in Nodes, f \in published :
  table[n][f.key].seq > 0 /\ f.body > table[n][f.key].body =>
    /\ f.seq > table[n][f.key].seq
    /\ f.key \in TaskKeys => ~ Closed(table[n][f.key])

\* A publication, in terms of its envelope.
Posted(k, new) ==
  /\ k \in Keys /\ new.key = k
  /\ new.seq = OwnEntry(k).seq + 1
  /\ now <= new.exp
  /\ new.body = Cardinality(published) + 1
  /\ ClientMay(k)
  /\ now' = now
  /\ published' = published \cup {new}
  /\ \A m \in Nodes : received'[m] = IF m = Owner[k] THEN received[m] \cup {new} ELSE received[m]
  /\ \A m \in Nodes, j \in Keys :
       table'[m][j] = IF m = Owner[k] /\ j = k THEN EntryFrom(new) ELSE table[m][j]

\* An envelope that comes to node n, applied or not.
Handled(n, env) ==
  /\ env \in published /\ n # Owner[env.key]
  /\ UNCHANGED <<published, now>>
  /\ \A m \in Nodes : received'[m] = IF m = n /\ Current(env) THEN received[m] \cup {env} ELSE received[m]
  /\ \A m \in Nodes, j \in Keys :
       table'[m][j] = IF m = n /\ j = env.key /\ Accepts(table[n][j], env) THEN EntryFrom(env) ELSE table[m][j]

\* A sweep at node n.
SweptAt(n) ==
  /\ UNCHANGED <<published, received, now>>
  /\ \A m \in Nodes, j \in Keys :
       table'[m][j] = IF m = n /\ Lapsed(table[m][j], now)
                        THEN IF j \in TaskKeys THEN ExpiredTask(table[m][j]) ELSE NoFact
                        ELSE table[m][j]

\* Every step is one of these, or lets the clock go on, or nothing of the sort.
LEMMA StepForms ==
  ASSUME ReplicationTypeOK, [Next]_vars
  PROVE  \/ \E k \in Keys, new \in Envelopes : Posted(k, new)
         \/ \E n \in Nodes, env \in Envelopes : Handled(n, env)
         \/ \E n \in Nodes : SweptAt(n)
         \/ UNCHANGED <<table, published, received>> /\ now' \in {now, now + 1}
<1>1. ASSUME NEW k \in Keys, NEW op \in ClientOps, NEW ttl \in TTLs[k], Publish(k, op, ttl)
      PROVE  \E new \in Envelopes : Posted(k, new)
  <2> DEFINE n == Owner[k]
             env == [key |-> k, op |-> op, seq |-> NextSeq(table[n][k]), exp |-> now + ttl,
                     body |-> Cardinality(published) + 1]
  <2>1. /\ env \in Envelopes /\ Applies(n, env) /\ published' = published \cup {env}
        /\ ClientMay(k)
        /\ UNCHANGED now
    BY <1>1 DEF Publish
  <2>2. /\ env.key = k /\ env.seq = NextSeq(table[n][k]) /\ env.exp = now + ttl
        /\ env.body = Cardinality(published) + 1
    OBVIOUS
  <2> HIDE DEF env
  <2>3. n \in Nodes /\ ttl \in Nat /\ now \in Nat
    BY ReplicationAssumption DEF ReplicationTypeOK
  <2>4. now <= env.exp
    BY <2>2, <2>3
  <2>5. Accepts(table[n][env.key], env)
    BY <2>1, <2>2, PublishIsAccepted
  <2>6. \A m \in Nodes, j \in Keys : table'[m][j] = IF m = n /\ j = k THEN EntryFrom(env) ELSE table[m][j]
    BY <2>1, <2>2, <2>5 DEF Applies, ReplicationTypeOK
  <2>7. \A m \in Nodes : received'[m] = IF m = n THEN received[m] \cup {env} ELSE received[m]
    BY <2>1, <2>4 DEF Applies, ReplicationTypeOK
  <2> QED BY <2>1, <2>2, <2>4, <2>6, <2>7 DEF Posted, NextSeq, OwnEntry
<1>2. ASSUME NEW n \in Nodes, NEW message \in network, HandleEnvelope(n, message[1], message[2])
      PROVE  \E env \in Envelopes : Handled(n, env)
  <2>1. message[2] \in published /\ message[2] \in Envelopes
    BY DEF ReplicationTypeOK
  <2>2. PICK env \in Envelopes : env = message[2]
    BY <2>1
  <2>3. Applies(n, env) /\ n # Owner[env.key] /\ UNCHANGED <<published, now>>
    BY <1>2, <2>2 DEF HandleEnvelope
  <2>4. \A m \in Nodes : received'[m] = IF m = n /\ Current(env) THEN received[m] \cup {env} ELSE received[m]
    BY <2>3 DEF Applies, Current, ReplicationTypeOK
  <2>5. \A m \in Nodes, j \in Keys :
          table'[m][j] = IF m = n /\ j = env.key /\ Accepts(table[n][j], env) THEN EntryFrom(env) ELSE table[m][j]
    BY <2>3 DEF Applies, ReplicationTypeOK
  <2> QED BY <2>1, <2>2, <2>3, <2>4, <2>5 DEF Handled
<1>3. ASSUME NEW n \in Nodes, GCExpired(n) PROVE SweptAt(n)
  <2>1. table' = [table EXCEPT ![n] = [k \in Keys |-> Swept(k, table[n][k])]]
    BY <1>3 DEF GCExpired
  <2>2. \A m \in Nodes, j \in Keys : table'[m][j] = IF m = n THEN Swept(j, table[m][j]) ELSE table[m][j]
    BY <2>1 DEF ReplicationTypeOK
  <2>3. UNCHANGED <<published, received, now>>
    BY <1>3 DEF GCExpired, historyVars
  <2> QED BY <2>2, <2>3 DEF SweptAt, Swept, SweptTask, SweptFact
<1>4. CASE Tick
  BY <1>4 DEF Tick, historyVars
<1>5. CASE (\E n \in Nodes, t \in Topics : PublishOn(n, t)) \/ (\E n \in Nodes : PublishFails(n)) \/ UNCHANGED vars
  BY <1>5 DEF PublishOn, PublishFails, vars, historyVars
<1> QED BY <1>1, <1>2, <1>3, <1>4, <1>5 DEF Next

\* The numbers, deadlines and bodies of envelopes and of what is made of them.
LEMMA EnvelopeTypes ==
  ASSUME NEW e \in Envelopes
  PROVE  /\ e.key \in Keys /\ e.seq \in Nat /\ e.seq > 0 /\ e.exp \in Nat /\ e.body \in Nat
         /\ Owner[e.key] \in Nodes
         /\ EntryFrom(e).seq = e.seq /\ EntryFrom(e).exp = e.exp /\ EntryFrom(e).body = e.body
         /\ e.key \in TaskKeys => (Closed(EntryFrom(e)) <=> IsClosing(e))
<1>1. e.key \in Keys /\ e.seq \in Nat /\ e.seq > 0 /\ e.exp \in Nat /\ e.body \in Nat
  BY Bounds, ReplicationAssumption DEF Envelopes, Bodies
<1>2. EntryFrom(e).seq = e.seq /\ EntryFrom(e).exp = e.exp /\ EntryFrom(e).body = e.body
  BY DEF EntryFrom, TaskFrom, FactFrom
<1>3. e.key \in TaskKeys => (Closed(EntryFrom(e)) <=> IsClosing(e))
  BY DEF EntryFrom, TaskFrom, Closed, StatusOf, IsClosing
<1> QED BY <1>1, <1>2, <1>3, Owners

\* A swept task keeps everything but its status.
LEMMA ExpiredFields ==
  ASSUME NEW entry \in TaskEntries
  PROVE  /\ ExpiredTask(entry).seq = entry.seq /\ ExpiredTask(entry).exp = entry.exp
         /\ ExpiredTask(entry).body = entry.body /\ ~ Closed(ExpiredTask(entry))
         /\ ExpiredTask(ExpiredTask(entry)) = ExpiredTask(entry)
  BY DEF ExpiredTask, TaskEntries, Closed

\* An entry has the number, deadline and body of what it comes from.
LEMMA ComesFromFields ==
  ASSUME NEW e \in Envelopes, NEW entry, ComesFrom(entry, e)
  PROVE  entry.seq = e.seq /\ entry.exp = e.exp /\ entry.body = e.body
<1>1. CASE entry = EntryFrom(e)
  BY <1>1, EnvelopeTypes
<1>2. CASE e.key \in TaskKeys /\ entry = ExpiredTask(EntryFrom(e))
  <2>1. EntryFrom(e) \in TaskEntries
    BY <1>2, EntryFromType DEF Entries
  <2> QED BY <1>2, <2>1, ExpiredFields, EnvelopeTypes
<1> QED BY <1>1, <1>2 DEF ComesFrom

\* Numbers in a table.
LEMMA TableTypes ==
  ASSUME ReplicationTypeOK, NEW n \in Nodes, NEW k \in Keys
  PROVE  /\ table[n][k].seq \in Nat /\ table[n][k].exp \in Nat /\ now \in Nat
         /\ k \in TaskKeys => table[n][k] \in TaskEntries
<1>1. table[n][k] \in Entries(k) /\ now \in Nat
  BY Bounds DEF ReplicationTypeOK
<1>2. /\ k \in TaskKeys => table[n][k] \in TaskEntries
      /\ k \notin TaskKeys => table[n][k] \in FactEntries
  BY <1>1 DEF Entries
<1> QED BY <1>1, <1>2, Bounds DEF TaskEntries, FactEntries

\* The last version that a node received is what it shows while it is current.
ShowsLast == \A n \in Nodes : \A env \in received[n] :
  Current(env) /\ (\A e \in received[n] : e.key = env.key => e.body <= env.body)
    => table[n][env.key] = EntryFrom(env)

LastInv == Numbered /\ OwnersLead /\ NumbersRise /\ HoldsReceived /\ LaterFollow /\ ShowsLast

\* What a node received was published.
LEMMA ReceivedArePublished ==
  ASSUME ReplicationTypeOK
  PROVE  /\ published \subseteq Envelopes
         /\ \A n \in Nodes : received[n] \subseteq published
  BY DEF ReplicationTypeOK

\* When its owner publishes an object, no earlier version of it is closing and
\* current, nor has a current one, or one of a task, a higher number.
LEMMA BeforePosted ==
  ASSUME ReplicationTypeOK, AllKept, LastInv,
         NEW k \in Keys, NEW new \in Envelopes, Posted(k, new),
         NEW e \in published, e.key = k
  PROVE  /\ k \in TaskKeys \/ Current(e) => e.seq < new.seq
         /\ Current(e) => ~ IsClosing(e)
         /\ e.body < new.body
<1>1. e \in Envelopes
  BY ReceivedArePublished
<1>2. e.seq \in Nat /\ OwnEntry(k).seq \in Nat /\ e.body \in Nat
  BY <1>1, EnvelopeTypes, TableTypes, Owners DEF OwnEntry
<1>3. k \in TaskKeys \/ Current(e) => e.seq <= OwnEntry(k).seq
  BY DEF LastInv, OwnersLead, AllKept, Kept, OwnEntry
<1>4. Current(e) => ~ IsClosing(e)
  <2> SUFFICES ASSUME Current(e), IsClosing(e) PROVE FALSE
    OBVIOUS
  <2>1. OwnEntry(k) = EntryFrom(e)
    BY DEF LastInv, OwnersLead
  <2>2. Closed(OwnEntry(k)) /\ k \in TaskKeys
    BY <1>1, <2>1, EnvelopeTypes DEF IsClosing
  <2> QED BY <2>2 DEF Posted, ClientMay, OwnEntry
<1>5. e.body <= Cardinality(published) /\ new.body = Cardinality(published) + 1 /\ Cardinality(published) \in Nat
  BY FS_CardinalityType DEF LastInv, Numbered, Posted
<1>6. new.seq = OwnEntry(k).seq + 1
  BY DEF Posted
<1> QED BY <1>2, <1>3, <1>4, <1>5, <1>6

\* What a node shows of an object that its owner publishes anew can be replaced.
LEMMA PostedFollows ==
  ASSUME ReplicationTypeOK, AllKept, LastInv,
         NEW k \in Keys, NEW new \in Envelopes, Posted(k, new),
         NEW m \in Nodes, table[m][k].seq > 0
  PROVE  /\ new.seq > table[m][k].seq
         /\ k \in TaskKeys => ~ Closed(table[m][k])
<1> DEFINE x == table[m][k]
<1>1. x.seq \in Nat /\ x.exp \in Nat /\ now \in Nat
  BY TableTypes
<1>2. PICK e \in received[m] : e.key = k /\ ComesFrom(x, e)
  BY <1>1 DEF LastInv, HoldsReceived
<1>3. e \in published /\ e \in Envelopes
  BY ReceivedArePublished
<1>4. x.seq = e.seq /\ x.exp = e.exp
  BY <1>2, <1>3, ComesFromFields
<1>5. /\ k \in TaskKeys \/ Current(e) => e.seq < new.seq
      /\ Current(e) => ~ IsClosing(e)
  BY <1>2, <1>3, BeforePosted
<1>6. Lapsed(x, now) => k \in TaskKeys /\ x.status = "EXPIRED"
  BY DEF Posted, ClientMay
<1>7. ~ Lapsed(x, now) => Current(e)
  BY <1>1, <1>4 DEF Lapsed, Present, Current
<1>8. e.seq < new.seq
  BY <1>5, <1>6, <1>7
<1>9. ASSUME k \in TaskKeys, Closed(x) PROVE FALSE
  <2>1. ~ Lapsed(x, now)
    BY <1>6, <1>9 DEF Closed
  <2>2. x # ExpiredTask(EntryFrom(e))
    <3>1. EntryFrom(e) \in TaskEntries
      BY <1>2, <1>3, <1>9, EntryFromType DEF Entries
    <3> QED BY <1>9, <3>1, ExpiredFields
  <2>3. IsClosing(e)
    BY <1>2, <1>3, <1>9, <2>2, EnvelopeTypes DEF ComesFrom
  <2> QED BY <1>5, <1>7, <2>1, <2>3
<1>10. e.seq \in Nat /\ new.seq \in Nat
  BY <1>3, EnvelopeTypes
<1> QED BY <1>4, <1>8, <1>9, <1>10

\* A publication keeps the order of the versions, and its owner shows it.
LEMMA PostedKeeps ==
  ASSUME ReplicationTypeOK, AllKept, LastInv, NEW k \in Keys, NEW new \in Envelopes, Posted(k, new)
  PROVE  LastInv'
<1> DEFINE n == Owner[k]
<1>1. /\ n \in Nodes /\ new.key = k /\ new.seq \in Nat /\ new.seq > 0 /\ new.body \in Nat
      /\ EntryFrom(new).seq = new.seq /\ EntryFrom(new).body = new.body
  BY Owners, EnvelopeTypes DEF Posted
<1>2. /\ published' = published \cup {new} /\ now' = now
      /\ \A m \in Nodes : received'[m] = IF m = n THEN received[m] \cup {new} ELSE received[m]
      /\ \A m \in Nodes, j \in Keys : table'[m][j] = IF m = n /\ j = k THEN EntryFrom(new) ELSE table[m][j]
  BY DEF Posted
<1>3. /\ \A e \in published : e \in Envelopes /\ e.key \in Keys /\ Owner[e.key] \in Nodes /\ e.body \in Nat /\ e.seq \in Nat
      /\ \A m \in Nodes : received[m] \subseteq published
  BY ReceivedArePublished, EnvelopeTypes
<1>4. IsFiniteSet(published) /\ Cardinality(published) \in Nat /\ new.body = Cardinality(published) + 1
      /\ \A e \in published : e.body < new.body
  BY <1>3, FS_CardinalityType DEF LastInv, Numbered, Posted
<1>5. \A e : Current(e)' <=> Current(e)
  BY <1>2 DEF Current
<1>6. \A e \in published : e.key = k =>
         /\ k \in TaskKeys \/ Current(e) => e.seq < new.seq
         /\ Current(e) => ~ IsClosing(e)
  BY BeforePosted
<1>7. Numbered'
  <2>1. new \notin published
    BY <1>1, <1>4
  <2>2. IsFiniteSet(published \cup {new}) /\ Cardinality(published \cup {new}) = Cardinality(published) + 1
    BY <1>4, <2>1, FS_AddElement
  <2>3. \A e \in published' : e.body <= Cardinality(published')
    <3>1. \A e \in published : e.body <= Cardinality(published)
      BY DEF LastInv, Numbered
    <3> QED BY <1>2, <1>3, <1>4, <2>2, <3>1
  <2>4. ASSUME NEW e \in published', NEW f \in published', e.body = f.body PROVE e = f
    <3>1. CASE e \in published /\ f \in published
      BY <2>4, <3>1 DEF LastInv, Numbered
    <3>2. CASE e = new \/ f = new
      BY <1>1, <1>2, <1>3, <1>4, <2>4, <3>2
    <3> QED BY <1>2, <3>1, <3>2
  <2> QED BY <1>2, <2>2, <2>3, <2>4 DEF Numbered
<1>8. OwnersLead'
  <2>1. \A j \in Keys : OwnEntry(j)' = IF j = k THEN EntryFrom(new) ELSE OwnEntry(j)
    BY <1>2, Owners DEF OwnEntry
  <2>2. ASSUME NEW e \in published
        PROVE  /\ e.key \in TaskKeys => e.seq <= OwnEntry(e.key)'.seq
               /\ IsClosing(e) /\ Current(e) => OwnEntry(e.key)' = EntryFrom(e)
    <3>1. CASE e.key = k
      BY <1>1, <1>3, <1>6, <2>1, <3>1
    <3>2. CASE e.key # k
      BY <1>3, <2>1, <3>2 DEF LastInv, OwnersLead
    <3> QED BY <3>1, <3>2
  <2>3. OwnEntry(new.key)' = EntryFrom(new) /\ new.seq <= OwnEntry(new.key)'.seq
    BY <1>1, <2>1
  <2>4. \A e \in published' : e.key \in TaskKeys => e.seq <= OwnEntry(e.key)'.seq
    BY <1>2, <2>2, <2>3
  <2>5. \A e \in published' : IsClosing(e) /\ Current(e) => OwnEntry(e.key)' = EntryFrom(e)
    BY <1>2, <2>2, <2>3
  <2> QED BY <1>5, <2>4, <2>5 DEF OwnersLead, IsClosing, OwnEntry, EntryFrom
<1>9. NumbersRise'
  <2> SUFFICES ASSUME NEW e \in published', NEW f \in published', e.key = f.key, e.body < f.body, Current(e)
               PROVE  e.seq < f.seq /\ ~ IsClosing(e)
    BY <1>5 DEF NumbersRise, IsClosing
  <2>1. e \in published
    BY <1>1, <1>2, <1>3, <1>4
  <2>2. CASE f = new
    BY <1>1, <1>6, <2>1, <2>2
  <2>3. CASE f \in published
    BY <2>1, <2>3 DEF LastInv, NumbersRise
  <2> QED BY <1>2, <2>2, <2>3
<1>10. HoldsReceived'
  <2> SUFFICES ASSUME NEW m \in Nodes, NEW j \in Keys
               PROVE  IF table'[m][j].seq = 0
                        THEN table'[m][j] = Blank(j)
                        ELSE \E e \in received'[m] : e.key = j /\ ComesFrom(table'[m][j], e)
    BY DEF HoldsReceived, ComesFrom, EntryFrom, Blank
  <2>1. CASE m = n /\ j = k
    <3>1. table'[m][j] = EntryFrom(new) /\ new \in received'[m]
      BY <1>1, <1>2, <2>1
    <3>2. table'[m][j].seq # 0
      BY <1>1, <3>1
    <3> QED BY <1>1, <2>1, <3>1, <3>2 DEF ComesFrom
  <2>2. CASE ~ (m = n /\ j = k)
    <3>1. table'[m][j] = table[m][j]
      BY <1>2, <2>2
    <3>2. received[m] \subseteq received'[m]
      BY <1>2
    <3>3. IF table[m][j].seq = 0
            THEN table[m][j] = Blank(j)
            ELSE \E e \in received[m] : e.key = j /\ ComesFrom(table[m][j], e)
      BY DEF LastInv, HoldsReceived
    <3> QED BY <3>1, <3>2, <3>3
  <2> QED BY <2>1, <2>2
<1>11. LaterFollow'
  <2> SUFFICES ASSUME NEW m \in Nodes, NEW f \in published', table'[m][f.key].seq > 0, f.body > table'[m][f.key].body
               PROVE  /\ f.seq > table'[m][f.key].seq
                      /\ f.key \in TaskKeys => ~ Closed(table'[m][f.key])
    BY DEF LaterFollow, Closed
  <2>1. f.key \in Keys /\ f.body \in Nat
    BY <1>1, <1>2, <1>3
  <2>2. ~ (m = n /\ f.key = k)
    BY <1>1, <1>2, <1>4, <2>1
  <2>3. table'[m][f.key] = table[m][f.key]
    BY <1>2, <2>1, <2>2
  <2>4. CASE f = new
    BY <1>1, <2>3, <2>4, PostedFollows
  <2>5. CASE f \in published
    BY <2>3, <2>5 DEF LastInv, LaterFollow
  <2> QED BY <1>2, <2>4, <2>5
<1>12. ShowsLast'
  <2> SUFFICES ASSUME NEW m \in Nodes, NEW env \in received'[m], Current(env),
                      \A e \in received'[m] : e.key = env.key => e.body <= env.body
               PROVE  table'[m][env.key] = EntryFrom(env)
    BY <1>5 DEF ShowsLast, EntryFrom
  <2>1. CASE m = n /\ env.key = k
    <3>1. new \in received'[m] /\ new.body <= env.body
      BY <1>1, <1>2, <2>1
    <3>2. env \in published \/ env = new
      <4>1. received'[m] = received[m] \cup {new} /\ received[m] \subseteq published
        BY <1>2, <1>3, <2>1
      <4> QED BY <4>1
    <3>3. env \notin published
      BY <1>1, <1>3, <1>4, <3>1
    <3> QED BY <1>1, <1>2, <2>1, <3>2, <3>3
  <2>2. CASE ~ (m = n /\ env.key = k)
    <3>1. env \in received[m]
      <4>1. CASE m # n
        <5>1. received'[m] = received[m]
          BY <1>2, <4>1
        <5> QED BY <5>1
      <4>2. CASE m = n /\ env.key # k
        <5>1. received'[m] \subseteq received[m] \cup {new}
          BY <1>2, <4>2
        <5>2. env # new
          BY <1>1, <4>2
        <5> QED BY <5>1, <5>2
      <4> QED BY <2>2, <4>1, <4>2
    <3>2. \A e \in received[m] : e.key = env.key => e.body <= env.body
      <4>1. received[m] \subseteq received'[m]
        BY <1>2
      <4> QED BY <4>1
    <3>3. table[m][env.key] = EntryFrom(env)
      BY <3>1, <3>2 DEF LastInv, ShowsLast
    <3>4. env.key \in Keys
      BY <1>3, <3>1
    <3> QED BY <1>2, <2>2, <3>3, <3>4
  <2> QED BY <2>1, <2>2
<1> QED BY <1>7, <1>8, <1>9, <1>10, <1>11, <1>12 DEF LastInv

\* A version that comes to a node is applied if it is the last there.
LEMMA HandledKeeps ==
  ASSUME ReplicationTypeOK, LastInv, NEW n \in Nodes, NEW env \in Envelopes, Handled(n, env)
  PROVE  LastInv'
<1>1. /\ env \in published /\ n # Owner[env.key] /\ published' = published /\ now' = now
      /\ \A m \in Nodes : received'[m] = IF m = n /\ Current(env) THEN received[m] \cup {env} ELSE received[m]
      /\ \A m \in Nodes, j \in Keys :
           table'[m][j] = IF m = n /\ j = env.key /\ Accepts(table[n][j], env) THEN EntryFrom(env) ELSE table[m][j]
  BY DEF Handled
<1>2. /\ \A e \in published : e \in Envelopes /\ e.key \in Keys /\ Owner[e.key] \in Nodes /\ e.body \in Nat /\ e.seq \in Nat
      /\ \A m \in Nodes : received[m] \subseteq published
  BY ReceivedArePublished, EnvelopeTypes
<1>3. /\ env.key \in Keys /\ env.seq \in Nat /\ env.seq > 0 /\ env.body \in Nat /\ table[n][env.key].seq \in Nat
      /\ EntryFrom(env).seq = env.seq /\ EntryFrom(env).body = env.body
      /\ env.key \in TaskKeys => (Closed(EntryFrom(env)) <=> IsClosing(env))
  BY EnvelopeTypes, TableTypes
<1>4. \A e : Current(e)' <=> Current(e)
  BY <1>1 DEF Current
<1>5. Accepts(table[n][env.key], env) <=>
        /\ Current(env) /\ env.seq > table[n][env.key].seq
        /\ env.key \in TaskKeys => ~ Closed(table[n][env.key])
  BY DEF Accepts, AcceptsTask, AcceptsFact, Current
<1>6. Numbered'
  BY <1>1 DEF LastInv, Numbered
<1>7. OwnersLead'
  <2>1. \A j \in Keys : OwnEntry(j)' = OwnEntry(j)
    BY <1>1, Owners DEF OwnEntry
  <2>2. \A e \in published : e.key \in TaskKeys => e.seq <= OwnEntry(e.key)'.seq
    BY <1>2, <2>1 DEF LastInv, OwnersLead
  <2>3. \A e \in published : IsClosing(e) /\ Current(e) => OwnEntry(e.key)' = EntryFrom(e)
    BY <1>2, <2>1 DEF LastInv, OwnersLead
  <2> QED BY <1>1, <1>4, <2>2, <2>3 DEF OwnersLead, IsClosing, OwnEntry, EntryFrom
<1>8. NumbersRise'
  BY <1>1, <1>4 DEF LastInv, NumbersRise, IsClosing
<1>9. HoldsReceived'
  <2> SUFFICES ASSUME NEW m \in Nodes, NEW j \in Keys
               PROVE  IF table'[m][j].seq = 0
                        THEN table'[m][j] = Blank(j)
                        ELSE \E e \in received'[m] : e.key = j /\ ComesFrom(table'[m][j], e)
    BY DEF HoldsReceived, ComesFrom, EntryFrom, Blank
  <2>1. CASE m = n /\ j = env.key /\ Accepts(table[n][j], env)
    <3>1. table'[m][j] = EntryFrom(env) /\ env \in received'[m]
      BY <1>1, <1>5, <2>1
    <3>2. table'[m][j].seq # 0
      BY <1>3, <3>1
    <3> QED BY <2>1, <3>1, <3>2 DEF ComesFrom
  <2>2. CASE ~ (m = n /\ j = env.key /\ Accepts(table[n][j], env))
    <3>1. table'[m][j] = table[m][j]
      BY <1>1, <2>2
    <3>2. received[m] \subseteq received'[m]
      BY <1>1
    <3>3. IF table[m][j].seq = 0
            THEN table[m][j] = Blank(j)
            ELSE \E e \in received[m] : e.key = j /\ ComesFrom(table[m][j], e)
      BY DEF LastInv, HoldsReceived
    <3> QED BY <3>1, <3>2, <3>3
  <2> QED BY <2>1, <2>2
<1>10. LaterFollow'
  <2> SUFFICES ASSUME NEW m \in Nodes, NEW f \in published, table'[m][f.key].seq > 0, f.body > table'[m][f.key].body
               PROVE  /\ f.seq > table'[m][f.key].seq
                      /\ f.key \in TaskKeys => ~ Closed(table'[m][f.key])
    BY <1>1 DEF LaterFollow, Closed
  <2>1. CASE m = n /\ f.key = env.key /\ Accepts(table[n][f.key], env)
    <3>1. table'[m][f.key] = EntryFrom(env) /\ Current(env)
      BY <1>1, <1>2, <1>5, <2>1
    <3>2. env.body < f.body
      BY <1>2, <1>3, <3>1
    <3>3. env.seq < f.seq /\ ~ IsClosing(env)
      BY <1>1, <2>1, <3>1, <3>2 DEF LastInv, NumbersRise
    <3> QED BY <1>2, <1>3, <2>1, <3>1, <3>3
  <2>2. CASE ~ (m = n /\ f.key = env.key /\ Accepts(table[n][f.key], env))
    <3>1. table'[m][f.key] = table[m][f.key]
      BY <1>1, <1>2, <2>2
    <3> QED BY <3>1 DEF LastInv, LaterFollow
  <2> QED BY <2>1, <2>2
<1>11. ShowsLast'
  <2> SUFFICES ASSUME NEW m \in Nodes, NEW last \in received'[m], Current(last),
                      \A e \in received'[m] : e.key = last.key => e.body <= last.body
               PROVE  table'[m][last.key] = EntryFrom(last)
    BY <1>4 DEF ShowsLast, EntryFrom
  <2>1. CASE last \in received[m]
    <3>1. table[m][last.key] = EntryFrom(last) /\ last \in published
      BY <1>1, <1>2, <2>1 DEF LastInv, ShowsLast
    <3>2. ~ (m = n /\ last.key = env.key /\ Accepts(table[n][last.key], env))
      <4> SUFFICES ASSUME m = n, last.key = env.key, Accepts(table[n][last.key], env) PROVE FALSE
        OBVIOUS
      <4>1. Current(env) /\ env.seq > last.seq
        BY <1>2, <1>5, <3>1, EnvelopeTypes
      <4>2. env.body <= last.body
        BY <1>1, <4>1
      <4>3. CASE env.body = last.body
        <5>1. env = last
          BY <1>1, <3>1, <4>3 DEF LastInv, Numbered
        <5> QED BY <1>3, <4>1, <5>1
      <4>4. CASE env.body < last.body
        <5>1. env.seq < last.seq
          BY <1>1, <3>1, <4>1, <4>4 DEF LastInv, NumbersRise
        <5> QED BY <1>2, <1>3, <3>1, <4>1, <5>1
      <4> QED BY <1>2, <1>3, <3>1, <4>2, <4>3, <4>4
    <3> QED BY <1>1, <1>2, <3>1, <3>2
  <2>2. CASE last \notin received[m]
    <3>1. m = n /\ last = env /\ Current(env)
      BY <1>1, <2>2
    <3>2. CASE table[n][env.key].seq = 0
      <4>1. table[n][env.key] = Blank(env.key)
        BY <1>3, <3>2 DEF LastInv, HoldsReceived
      <4>2. env.key \in TaskKeys => ~ Closed(table[n][env.key])
        BY <4>1 DEF Blank, NoTask, Closed
      <4>3. Accepts(table[n][env.key], env)
        BY <1>3, <1>5, <3>1, <3>2, <4>2
      <4> QED BY <1>1, <1>3, <3>1, <4>3
    <3>3. CASE table[n][env.key].seq # 0
      <4>1. PICK e \in received[n] : e.key = env.key /\ ComesFrom(table[n][env.key], e)
        BY <1>3, <3>3 DEF LastInv, HoldsReceived
      <4>2. e \in published /\ e \in received'[n] /\ e # env
        BY <1>1, <1>2, <2>2, <3>1
      <4>3. e.body < env.body
        <5>1. e.body <= env.body /\ e.body # env.body
          BY <1>1, <3>1, <4>1, <4>2 DEF LastInv, Numbered
        <5> QED BY <1>2, <1>3, <4>2, <5>1
      <4>4. table[n][env.key].body = e.body
        BY <1>2, <4>1, <4>2, ComesFromFields
      <4>5. table[n][env.key].seq > 0 /\ env.body > table[n][env.key].body
        BY <1>2, <1>3, <3>3, <4>2, <4>3, <4>4
      <4>6. Accepts(table[n][env.key], env)
        BY <1>1, <1>5, <3>1, <4>5 DEF LastInv, LaterFollow
      <4> QED BY <1>1, <1>3, <3>1, <4>6
    <3> QED BY <3>2, <3>3
  <2> QED BY <2>1, <2>2
<1> QED BY <1>6, <1>7, <1>8, <1>9, <1>10, <1>11 DEF LastInv

\* The sweep leaves current versions alone, and what it leaves of a task follows
\* from the same envelope.
LEMMA SweptKeeps ==
  ASSUME ReplicationTypeOK, LastInv, NEW n \in Nodes, SweptAt(n)
  PROVE  LastInv'
<1>1. /\ published' = published /\ received' = received /\ now' = now
      /\ \A m \in Nodes, j \in Keys :
           table'[m][j] = IF m = n /\ Lapsed(table[m][j], now)
                            THEN IF j \in TaskKeys THEN ExpiredTask(table[m][j]) ELSE NoFact
                            ELSE table[m][j]
  BY DEF SweptAt
<1>2. /\ \A e \in published : e \in Envelopes /\ e.key \in Keys /\ Owner[e.key] \in Nodes
      /\ \A m \in Nodes : received[m] \subseteq published
  BY ReceivedArePublished, EnvelopeTypes
<1>3. ASSUME NEW m \in Nodes, NEW j \in Keys
      PROVE  \/ table'[m][j] = table[m][j]
             \/ /\ Lapsed(table[m][j], now) /\ j \in TaskKeys /\ table'[m][j] = ExpiredTask(table[m][j])
                /\ table'[m][j].seq = table[m][j].seq /\ table'[m][j].body = table[m][j].body
                /\ ~ Closed(table'[m][j])
             \/ /\ Lapsed(table[m][j], now) /\ j \notin TaskKeys /\ table'[m][j] = Blank(j)
                /\ table'[m][j].seq = 0
  <2>1. CASE j \in TaskKeys
    <3>1. table[m][j] \in TaskEntries
      BY <2>1, TableTypes
    <3> QED BY <1>1, <2>1, <3>1, ExpiredFields
  <2>2. CASE j \notin TaskKeys
    BY <1>1, <2>2 DEF Blank, NoFact
  <2> QED BY <2>1, <2>2
<1>4. \A e : Current(e)' <=> Current(e)
  BY <1>1 DEF Current
<1>5. ASSUME NEW m \in Nodes, NEW e \in published, Current(e), table[m][e.key] = EntryFrom(e)
      PROVE  table'[m][e.key] = EntryFrom(e)
  <2>1. ~ Lapsed(table[m][e.key], now)
    <3>1. table[m][e.key].exp = e.exp /\ e.exp \in Nat /\ now \in Nat
      BY <1>2, <1>5, EnvelopeTypes, TableTypes
    <3> QED BY <1>5, <3>1 DEF Current, Lapsed
  <2> QED BY <1>2, <1>3, <1>5, <2>1
<1>6. Numbered'
  BY <1>1 DEF LastInv, Numbered
<1>7. OwnersLead'
  <2>1. \A j \in Keys : j \in TaskKeys => OwnEntry(j)'.seq = OwnEntry(j).seq
    BY <1>3, Owners DEF OwnEntry
  <2>2. \A e \in published : e.key \in TaskKeys => e.seq <= OwnEntry(e.key)'.seq
    BY <1>2, <2>1 DEF LastInv, OwnersLead
  <2>3. \A e \in published : IsClosing(e) /\ Current(e) => OwnEntry(e.key)' = EntryFrom(e)
    BY <1>2, <1>5 DEF LastInv, OwnersLead, OwnEntry
  <2> QED BY <1>1, <1>4, <2>2, <2>3 DEF OwnersLead, IsClosing, OwnEntry, EntryFrom
<1>8. NumbersRise'
  BY <1>1, <1>4 DEF LastInv, NumbersRise, IsClosing
<1>9. HoldsReceived'
  <2> SUFFICES ASSUME NEW m \in Nodes, NEW j \in Keys
               PROVE  IF table'[m][j].seq = 0
                        THEN table'[m][j] = Blank(j)
                        ELSE \E e \in received[m] : e.key = j /\ ComesFrom(table'[m][j], e)
    BY <1>1 DEF HoldsReceived, ComesFrom, EntryFrom, Blank
  <2>1. IF table[m][j].seq = 0
          THEN table[m][j] = Blank(j)
          ELSE \E e \in received[m] : e.key = j /\ ComesFrom(table[m][j], e)
    BY DEF LastInv, HoldsReceived
  <2>2. CASE table'[m][j] = table[m][j]
    BY <2>1, <2>2
  <2>3. CASE Lapsed(table[m][j], now) /\ j \in TaskKeys /\ table'[m][j] = ExpiredTask(table[m][j])
    <3>1. table[m][j].seq # 0 /\ table'[m][j].seq = table[m][j].seq
      BY <2>3, TableTypes, ExpiredFields DEF Lapsed, Present
    <3>2. PICK e \in received[m] : e.key = j /\ ComesFrom(table[m][j], e)
      BY <2>1, <3>1
    <3>3. EntryFrom(e) \in TaskEntries
      BY <1>2, <2>3, <3>2, EntryFromType DEF Entries
    <3>4. table'[m][j] = ExpiredTask(EntryFrom(e))
      BY <2>3, <3>2, <3>3, ExpiredFields DEF ComesFrom
    <3> QED BY <2>3, <3>1, <3>2, <3>4 DEF ComesFrom
  <2>4. CASE table'[m][j] = Blank(j) /\ table'[m][j].seq = 0
    BY <2>4
  <2> QED BY <1>3, <2>2, <2>3, <2>4
<1>10. LaterFollow'
  <2> SUFFICES ASSUME NEW m \in Nodes, NEW f \in published, table'[m][f.key].seq > 0, f.body > table'[m][f.key].body
               PROVE  /\ f.seq > table'[m][f.key].seq
                      /\ f.key \in TaskKeys => ~ Closed(table'[m][f.key])
    BY <1>1 DEF LaterFollow, Closed
  <2> QED BY <1>2, <1>3 DEF LastInv, LaterFollow
<1>11. ShowsLast'
  <2> SUFFICES ASSUME NEW m \in Nodes, NEW last \in received[m], Current(last),
                      \A e \in received[m] : e.key = last.key => e.body <= last.body
               PROVE  table'[m][last.key] = EntryFrom(last)
    BY <1>1, <1>4 DEF ShowsLast, EntryFrom
  <2> QED BY <1>2, <1>5 DEF LastInv, ShowsLast
<1> QED BY <1>6, <1>7, <1>8, <1>9, <1>10, <1>11 DEF LastInv

\* With time, versions only cease to be current.
LEMMA ClockKeeps ==
  ASSUME ReplicationTypeOK, LastInv, UNCHANGED <<table, published, received>>, now' \in {now, now + 1}
  PROVE  LastInv'
<1>1. now \in Nat /\ \A e \in published : e.exp \in Nat
  BY Bounds DEF ReplicationTypeOK, Envelopes
<1>2. \A e \in published : Current(e)' => Current(e)
  BY <1>1 DEF Current
<1>3. \A m \in Nodes : received[m] \subseteq published
  BY ReceivedArePublished
<1>4. Numbered' /\ HoldsReceived' /\ LaterFollow'
  BY DEF LastInv, Numbered, HoldsReceived, LaterFollow, ComesFrom, EntryFrom, Blank, Closed
<1>5. OwnersLead' /\ NumbersRise'
  BY <1>2 DEF LastInv, OwnersLead, NumbersRise, IsClosing, OwnEntry, EntryFrom
<1>6. ShowsLast'
  BY <1>2, <1>3 DEF LastInv, ShowsLast, EntryFrom
<1> QED BY <1>4, <1>5, <1>6 DEF LastInv

\* The two invariants together, for clients that keep to one time to live for each
\* fact.
LEMMA LastIsKept ==
  ASSUME SteadyFacts
  PROVE  Spec => [](ReplicationTypeOK /\ AllKept /\ LastInv)
<1>1. Init => AllKept /\ LastInv
  <2> SUFFICES ASSUME Init PROVE AllKept /\ LastInv
    OBVIOUS
  <2>1. IsFiniteSet({}) /\ Cardinality({}) = 0
    BY FS_EmptySet
  <2>2. HoldsReceived
    BY DEF Init, HoldsReceived, Blank, NoTask, NoFact
  <2>3. Numbered /\ OwnersLead /\ NumbersRise /\ LaterFollow /\ ShowsLast
    BY <2>1 DEF Init, Numbered, OwnersLead, NumbersRise, LaterFollow, ShowsLast
  <2> QED BY <2>2, <2>3 DEF Init, AllKept, LastInv
<1>2. ReplicationTypeOK /\ AllKept /\ [Next]_vars => AllKept'
  BY KeptInductive
<1>3. ReplicationTypeOK /\ AllKept /\ LastInv /\ [Next]_vars => LastInv'
  BY StepForms, PostedKeeps, HandledKeeps, SweptKeeps, ClockKeeps
<1> QED BY <1>1, <1>2, <1>3, ReplicationTypeCorrect, PTL DEF Spec

\* A node shows the last version of an object that it received in time for as long
\* as that is current, in whatever order the versions came and however often, when
\* the clients of each fact keep to one time to live.
THEOREM NodesShowTheLast ==
  ASSUME SteadyFacts
  PROVE  Spec => []ShowsLastReceived
<1>1. LastInv => ShowsLastReceived
  BY DEF LastInv, ShowsLast, ShowsLastReceived
<1> QED BY <1>1, LastIsKept, PTL

\* Whatever version a node shows, its owner answers with the detail of that version
\* until its deadline, when the clients of each fact keep to one time to live: the
\* version was received, so it was published, and the owner keeps the payload of
\* what was published and has not yet lapsed.
THEOREM ShownCanBeFetched ==
  ASSUME SteadyFacts
  PROVE  Spec => []ShownIsFetchable
<1>1. ReplicationTypeOK /\ AllKept /\ LastInv => ShownIsFetchable
  <2> SUFFICES ASSUME ReplicationTypeOK, AllKept, LastInv, NEW n \in Nodes, NEW k \in Keys,
                      table[n][k].seq > 0, now <= table[n][k].exp
               PROVE  HandleFetch(<<k, table[n][k].seq>>) = table[n][k].body
    BY DEF ShownIsFetchable
  <2>1. PICK e \in received[n] : e.key = k /\ ComesFrom(table[n][k], e)
    BY TableTypes DEF LastInv, HoldsReceived
  <2>2. e \in published /\ e \in Envelopes
    BY ReceivedArePublished
  <2>3. table[n][k].seq = e.seq /\ table[n][k].exp = e.exp /\ table[n][k].body = e.body
    BY <2>1, <2>2, ComesFromFields
  <2>4. payloads[<<k, e.seq>>].body = e.body
    <3>1. Current(e) /\ Kept(e)
      BY <2>2, <2>3 DEF AllKept, Current
    <3>2. payloads[DetailRef(e)] = [exp |-> e.exp, body |-> e.body]
      BY <3>1 DEF Kept
    <3> QED BY <2>1, <3>2 DEF DetailRef
  <2> QED BY <2>3, <2>4 DEF HandleFetch
<1> QED BY <1>1, LastIsKept, PTL
=============================================================================
