--------------------------- MODULE PublishProofs ---------------------------
(***************************************************************************)
(* What module Publish promises, for any objects, requests, times to live  *)
(* and bounds.                                                             *)
(***************************************************************************)
EXTENDS Publish, StoreProofs

(***************************************************************************)
(* Type correctness.                                                       *)
(***************************************************************************)
\* A request that is under way or done has built its envelope, and it is its own.
Built(r) == draft[r] \in Envelopes /\ draft[r].body = r

PublishTypes == PublishTypeOK /\ \A r \in Requests : pc[r] # "idle" => Built(r)

\* Types of what a publication brings into the store's tables.
LEMMA ApplyTypes ==
  ASSUME TypeOK, NEW env \in Envelopes, NEW written \in BOOLEAN, Apply(env, written)
  PROVE  TypeOK'
<1>1. CASE env.key \in TaskKeys
  <2>1. env \in TaskEnvelopes
    BY <1>1, PublishAssumption DEF Envelopes, TaskEnvelopes
  <2> QED BY <1>1, <2>1, TypeInductive DEF Apply, Next
<1>2. CASE env.key \notin TaskKeys
  <2>1. env.key \in FactKeys /\ FactFrom(env) \in FactEntries
    BY <1>2, PublishAssumption, StoreAssumption DEF Envelopes, Keys, FactFrom, FactEntries
  <2>2. facts' \in [FactKeys -> FactEntries] /\ factsFile' \in [FactKeys -> FactEntries]
    BY <1>2, <2>1 DEF Apply, ApplyFact, FactsWith, TypeOK
  <2> QED BY <1>2, <2>2 DEF Apply, ApplyFact, TypeOK, taskVars, payloadVars
<1> QED BY <1>1, <1>2

LEMMA StoreDetailTypes ==
  ASSUME TypeOK, NEW env \in Envelopes, NEW r \in Requests, NEW written \in BOOLEAN,
         UpsertPayload(DetailRef(env), [exp |-> env.exp, body |-> r], written)
  PROVE  TypeOK'
<1>1. DetailRef(env) \in Refs /\ r \in Bodies /\ env.exp \in 1 .. MaxTime
  BY PublishAssumption DEF Envelopes, Keys, DetailRef
<1> QED BY <1>1, TypeInductive DEF Next

LEMMA NewDraftTypes ==
  ASSUME PublishTypeOK, NEW r \in Requests, NEW key \in Keys, NEW op \in Ops, NEW ttl \in TTLs[key],
         Begin(r, key, op, ttl)
  PROVE  [key |-> key, op |-> op, seq |-> NextSeq(Entry(key)), exp |-> now + ttl, body |-> r] \in Envelopes
<1>1. ttl \in Nat \ {0} /\ now \in Nat
  BY PublishAssumption, StoreAssumption DEF Keys, PublishTypeOK, TypeOK
<1>2. Entry(key).seq \in Nat
  BY StoreAssumption DEF Entry, Keys, PublishTypeOK, TypeOK, TaskEntries, FactEntries
<1>3. now + ttl \in 1 .. MaxTime /\ NextSeq(Entry(key)) \in 1 .. MaxSeq
  BY <1>1, <1>2, StoreAssumption DEF Begin, NextSeq
<1> QED BY <1>3 DEF Envelopes

LEMMA PublishTypesInductive == PublishTypes /\ [PublishNext]_allVars => PublishTypes'
<1> SUFFICES ASSUME PublishTypes, [PublishNext]_allVars PROVE PublishTypes'
  OBVIOUS
<1> USE DEF PublishTypes, PublishTypeOK, Built
<1>1. ASSUME NEW r \in Requests, NEW key \in Keys, NEW op \in Ops, NEW ttl \in TTLs[key],
             Begin(r, key, op, ttl)
      PROVE  PublishTypes'
  <2>1. TypeOK' /\ sent' = sent
    BY <1>1, TypeInductive DEF Begin
  <2>2. PICK env \in Envelopes : draft' = [draft EXCEPT ![r] = env] /\ env.body = r
    BY <1>1, NewDraftTypes DEF Begin
  <2> QED BY <1>1, <2>1, <2>2 DEF Begin
<1>2. ASSUME NEW r \in Requests, NEW written \in BOOLEAN, StoreDetail(r, written) PROVE PublishTypes'
  <2>1. TypeOK'
    BY <1>2, StoreDetailTypes DEF StoreDetail
  <2> QED BY <1>2, <2>1 DEF StoreDetail, Proceeds
<1>3. ASSUME NEW r \in Requests, NEW written \in BOOLEAN, ApplyLocally(r, written) PROVE PublishTypes'
  <2>1. draft[r] \in Envelopes
    BY <1>3 DEF ApplyLocally
  <2>2. TypeOK'
    <3>1. CASE UNCHANGED vars
      BY <3>1, TypeInductive
    <3>2. CASE Apply(draft[r], written)
      BY <2>1, <3>2, ApplyTypes
    <3> QED BY <1>3, <3>1, <3>2 DEF ApplyLocally
  <2> QED BY <1>3, <2>2 DEF ApplyLocally, Proceeds
<1>4. ASSUME NEW r \in Requests, NEW out \in BOOLEAN, GossipOut(r, out) PROVE PublishTypes'
  <2>1. TypeOK' /\ draft[r] \in Envelopes
    BY <1>4, TypeInductive DEF GossipOut
  <2> QED BY <1>4, <2>1 DEF GossipOut
<1>5. CASE StopAll
  <2>1. TypeOK'
    BY <1>5, TypeInductive DEF StopAll, Next
  <2> QED BY <1>5, <2>1 DEF StopAll, Active
<1>6. CASE Background
  <2>1. TypeOK'
    BY <1>6, TypeInductive DEF Background, Next
  <2> QED BY <1>6, <2>1 DEF Background, publishVars
<1>7. CASE UNCHANGED allVars
  <2>1. TypeOK'
    BY <1>7, TypeInductive DEF allVars
  <2> QED BY <1>7, <2>1 DEF allVars, publishVars
<1> QED BY <1>1, <1>2, <1>3, <1>4, <1>5, <1>6, <1>7 DEF PublishNext

\* Every reachable state of the requests and what they sent is well typed.
THEOREM PublishTypeCorrect == PublishSpec => []PublishTypeOK
<1>1. PublishInit => PublishTypes
  <2>1. 0 \in 0 .. MaxTime
    BY StoreAssumption
  <2>2. Init => TypeOK
    BY <2>1, TaskEntryTypes, FactEntryTypes, PayloadEntryTypes
    DEF Init, TypeOK, EmptyTasks, EmptyFacts, EmptyPayloads
  <2> QED BY <2>2 DEF PublishInit, PublishTypes, PublishTypeOK
<1>2. PublishTypes => PublishTypeOK
  BY DEF PublishTypes
<1> QED BY <1>1, <1>2, PublishTypesInductive, PTL DEF PublishSpec

(***************************************************************************)
(* Clients that publish an object one at a time, no task that they closed, *)
(* and keep to one time to live for each fact.                             *)
(***************************************************************************)
CarefulClients ==
  /\ OneAtATime /\ KeepClosed
  /\ \A k \in FactKeys : \A t, u \in TTLs[k] : t = u

Done(r) == pc[r] = "done"

Control ==
  /\ \A r \in Requests : Active(r) => running
  /\ \A r, s \in Requests : Active(r) /\ Active(s) /\ draft[r].key = draft[s].key => r = s
  /\ \A env \in sent : Done(env.body) /\ draft[env.body] = env
  /\ \A r \in Requests : pc[r] # "idle" /\ draft[r].key \in FactKeys =>
       \A ttl \in TTLs[draft[r].key] : draft[r].exp <= now + ttl
  /\ \A r, s \in Requests : Active(r) /\ Done(s) /\ draft[r].key = draft[s].key /\ draft[r].key \in FactKeys =>
       draft[s].exp <= draft[r].exp

\* A step of a request that is under way, which may end with it.
LEMMA OneStep ==
  ASSUME PublishTypes, Control, NEW r \in Requests, Active(r), UNCHANGED <<draft, now>>, running',
         NEW next \in {"apply", "gossip", "done", "failed"}, pc' = [pc EXCEPT ![r] = next],
         sent' = sent \/ (next = "done" /\ sent' = sent \cup {draft[r]})
  PROVE  Control'
<1>1. \A s \in Requests : Active(s)' => Active(s)
  BY DEF Active, PublishTypes, PublishTypeOK
<1>2. \A s \in Requests : Done(s)' => Done(s) \/ (s = r /\ ~ Active(r)')
  BY DEF Active, Done, PublishTypes, PublishTypeOK
<1>3. \A s \in Requests : pc'[s] # "idle" => pc[s] # "idle"
  BY DEF Active, PublishTypes, PublishTypeOK
<1>4. ASSUME NEW env \in sent' PROVE Done(env.body)' /\ draft[env.body] = env
  <2>1. CASE env \in sent
    <3>1. env.body \in Requests /\ Done(env.body) /\ draft[env.body] = env /\ env.body # r
      BY <2>1 DEF Control, PublishTypes, PublishTypeOK, Envelopes, Active, Done
    <3> QED BY <3>1 DEF Done, PublishTypes, PublishTypeOK
  <2>2. CASE next = "done" /\ env = draft[r]
    <3>1. env.body = r
      BY <2>2 DEF PublishTypes, Built, Active
    <3> QED BY <2>2, <3>1 DEF Done, PublishTypes, PublishTypeOK
  <2> QED BY <2>1, <2>2
<1>5. ASSUME NEW s \in Requests, NEW t \in Requests, Active(s)', Done(t)', draft[s].key = draft[t].key,
             draft[s].key \in FactKeys
      PROVE  draft[t].exp <= draft[s].exp
  <2>1. CASE Done(t)
    BY <1>1, <1>5, <2>1 DEF Control
  <2>2. CASE t = r /\ ~ Active(r)'
    BY <1>1, <1>5, <2>2 DEF Control
  <2> QED BY <1>2, <1>5, <2>1, <2>2
<1> QED BY <1>1, <1>3, <1>4, <1>5 DEF Control

LEMMA ControlInductive == CarefulClients /\ PublishTypes /\ Control /\ [PublishNext]_allVars => Control'
<1> SUFFICES ASSUME CarefulClients, PublishTypes, Control, [PublishNext]_allVars PROVE Control'
  OBVIOUS
<1>0. /\ now \in Nat
      /\ \A k \in Keys : \A ttl \in TTLs[k] : ttl \in Nat
      /\ \A r \in Requests : pc[r] # "idle" => draft[r].exp \in Nat /\ draft[r].key \in Keys /\ draft[r].body = r
  BY PublishAssumption, StoreAssumption DEF Keys, PublishTypes, PublishTypeOK, TypeOK, Built, Envelopes
<1>1. ASSUME NEW r \in Requests, NEW key \in Keys, NEW op \in Ops, NEW ttl \in TTLs[key],
             Begin(r, key, op, ttl)
      PROVE  Control'
  <2>1. /\ UNCHANGED <<now, sent>> /\ running /\ running'
        /\ pc[r] = "idle" /\ pc' = [pc EXCEPT ![r] = "store"]
        /\ \A s \in Requests : ~ (Active(s) /\ draft[s].key = key)
    BY <1>1 DEF Begin, ClientMay, CarefulClients, vars
  <2>2. draft'[r].key = key /\ draft'[r].exp = now + ttl /\ \A s \in Requests \ {r} : draft'[s] = draft[s]
    BY <1>1 DEF Begin, PublishTypes, PublishTypeOK
  <2>3. \A s \in Requests : Active(s)' <=> Active(s) \/ s = r
    BY <2>1 DEF Active, PublishTypes, PublishTypeOK
  <2>4. \A s \in Requests : (Done(s)' <=> Done(s)) /\ (Done(s) => s # r)
    BY <2>1 DEF Done, PublishTypes, PublishTypeOK
  <2>5. \A s \in Requests \ {r} : pc'[s] = pc[s]
    BY <2>1 DEF PublishTypes, PublishTypeOK
  <2>6. \A env \in sent' : Done(env.body)' /\ draft'[env.body] = env
    <3>1. \A env \in sent : env.body \in Requests
      BY DEF PublishTypes, PublishTypeOK, Envelopes
    <3> QED BY <2>1, <2>2, <2>4, <3>1 DEF Control
  <2>7. ASSUME NEW s \in Requests, pc'[s] # "idle", draft'[s].key \in FactKeys, NEW u \in TTLs[draft'[s].key]
        PROVE  draft'[s].exp <= now + u
    <3>1. CASE s = r
      <4>1. u = ttl
        BY <2>2, <2>7, <3>1 DEF CarefulClients
      <4> QED BY <1>0, <2>2, <3>1, <4>1
    <3>2. CASE s # r
      BY <2>2, <2>5, <2>7, <3>2 DEF Control
    <3> QED BY <3>1, <3>2
  <2>8. ASSUME NEW s \in Requests, NEW t \in Requests, Active(s)', Done(t)', draft'[s].key = draft'[t].key,
               draft'[s].key \in FactKeys
        PROVE  draft'[t].exp <= draft'[s].exp
    <3>1. t # r /\ Done(t) /\ draft'[t] = draft[t]
      BY <2>2, <2>4, <2>8
    <3>2. CASE s = r
      BY <2>2, <2>8, <3>1, <3>2 DEF Control, Done
    <3>3. CASE s # r
      BY <2>2, <2>3, <2>8, <3>1, <3>3 DEF Control
    <3> QED BY <3>2, <3>3
  <2>9. \A s, t \in Requests : Active(s)' /\ Active(t)' /\ draft'[s].key = draft'[t].key => s = t
    BY <2>1, <2>2, <2>3 DEF Control
  <2> QED BY <2>1, <2>6, <2>7, <2>8, <2>9 DEF Control
<1>2. ASSUME NEW r \in Requests, NEW written \in BOOLEAN, StoreDetail(r, written) PROVE Control'
  <2>1. UNCHANGED <<draft, sent, now>> /\ running' /\ Active(r)
    BY <1>2 DEF StoreDetail, UpsertPayload, Active
  <2> QED BY <1>2, <2>1, OneStep DEF StoreDetail, Proceeds
<1>3. ASSUME NEW r \in Requests, NEW written \in BOOLEAN, ApplyLocally(r, written) PROVE Control'
  <2>1. UNCHANGED <<draft, sent>> /\ Active(r) /\ running
    BY <1>3 DEF ApplyLocally, Active, Control
  <2>2. running' /\ now' = now
    <3>1. CASE Apply(draft[r], written)
      BY <3>1 DEF Apply, ApplyTask, ApplyFact
    <3>2. CASE UNCHANGED vars
      BY <2>1, <3>2 DEF vars
    <3> QED BY <1>3, <3>1, <3>2 DEF ApplyLocally
  <2> QED BY <1>3, <2>1, <2>2, OneStep DEF ApplyLocally, Proceeds
<1>4. ASSUME NEW r \in Requests, NEW out \in BOOLEAN, GossipOut(r, out) PROVE Control'
  <2>1. UNCHANGED <<draft, now>> /\ running' /\ Active(r)
    BY <1>4 DEF GossipOut, Active, vars
  <2>2. CASE out
    BY <1>4, <2>1, <2>2, OneStep DEF GossipOut
  <2>3. CASE ~ out
    BY <1>4, <2>1, <2>3, OneStep DEF GossipOut
  <2> QED BY <2>2, <2>3
<1>5. CASE StopAll
  <2>1. UNCHANGED <<draft, sent, now>>
    BY <1>5 DEF StopAll, Stop
  <2>2. \A r \in Requests : ~ Active(r)' /\ (Done(r)' <=> Done(r)) /\ (pc'[r] # "idle" => pc[r] # "idle")
    BY <1>5 DEF StopAll, Active, Done
  <2>3. \A env \in sent : env.body \in Requests
    BY DEF PublishTypes, PublishTypeOK, Envelopes
  <2> QED BY <2>1, <2>2, <2>3 DEF Control
<1>6. CASE Background \/ UNCHANGED allVars
  <2>1. UNCHANGED publishVars /\ (running => running') /\ now' \in Nat /\ now' >= now
    BY <1>0, <1>6 DEF Background, GCExpired, OpenStore, Tick, allVars, vars
  <2>2. \A r \in Requests : pc[r] # "idle" /\ draft[r].key \in FactKeys =>
          \A ttl \in TTLs[draft[r].key] : draft[r].exp <= now' + ttl
    BY <1>0, <2>1 DEF Control
  <2> QED BY <2>1, <2>2 DEF Control, Active, Done, publishVars
<1> QED BY <1>1, <1>2, <1>3, <1>4, <1>5, <1>6 DEF PublishNext

(***************************************************************************)
(* Numbers.  A number that was handed out is above the table's until it is *)
(* applied; then it is in the table and in its file, which keep up with it *)
(* until its deadline.                                                     *)
(***************************************************************************)
FileEntry(key) == IF key \in TaskKeys THEN tasksFile[key] ELSE factsFile[key]

Covers(entry, env) == entry.seq >= env.seq /\ (env.key \in FactKeys => entry.exp >= env.exp)

IsRecorded(env) ==
  Current(env) => /\ Covers(FileEntry(env.key), env)
                  /\ running => Covers(Entry(env.key), env)

Fresh(env) ==
  /\ env.seq > Entry(env.key).seq
  /\ env.key \in TaskKeys => ~ Closed(tasks[env.key])

Numbers ==
  /\ \A r \in Requests : pc[r] \in {"store", "apply"} => Fresh(draft[r])
  /\ \A r \in Requests : pc[r] \in {"gossip", "done"} => IsRecorded(draft[r])

LEMMA EntryTypes ==
  ASSUME TypeOK, NEW k \in Keys
  PROVE  /\ Entry(k).seq \in Nat /\ Entry(k).exp \in Nat
         /\ FileEntry(k).seq \in Nat /\ FileEntry(k).exp \in Nat
         /\ k \in TaskKeys => k \notin FactKeys /\ Entry(k) \in TaskEntries
         /\ k \notin TaskKeys => k \in FactKeys /\ Entry(k) \in FactEntries
  BY PublishAssumption, StoreAssumption DEF Keys, Entry, FileEntry, TypeOK, TaskEntries, FactEntries

\* What ApplyTask and ApplyFact do to the entries of an object.
LEMMA ApplyEntries ==
  ASSUME TypeOK, NEW env \in Envelopes, NEW written \in BOOLEAN, Apply(env, written), NEW k \in Keys
  PROVE  /\ running /\ running' /\ now' = now /\ now <= env.exp /\ env.seq > Entry(env.key).seq
         /\ k # env.key => Entry(k)' = Entry(k)
         /\ k = env.key => Entry(k)'.seq = env.seq /\ (k \in FactKeys => Entry(k)'.exp = env.exp)
         /\ FileEntry(k)' \in {FileEntry(k), Entry(k)'}
         /\ written => FileEntry(env.key)' = Entry(env.key)'
<1>1. CASE env.key \in TaskKeys
  <2>1. ApplyTask(env, written) /\ env.key \notin FactKeys
    BY <1>1, PublishAssumption DEF Apply
  <2>2. tasks' = TasksWith(tasks, env) /\ UNCHANGED <<facts, factsFile>>
        /\ tasksFile' = (IF written THEN tasks' ELSE tasksFile)
    BY <2>1 DEF ApplyTask, factVars
  <2>3. tasks'[env.key].seq = env.seq /\ \A j \in TaskKeys : j # env.key => tasks'[j] = tasks[j]
    BY <1>1, <2>2 DEF TasksWith, TaskFrom, TypeOK
  <2> QED BY <1>1, <2>1, <2>2, <2>3 DEF ApplyTask, AcceptsTask, Entry, FileEntry
<1>2. CASE env.key \notin TaskKeys
  <2>1. ApplyFact(env, written) /\ env.key \in FactKeys
    BY <1>2 DEF Apply, Envelopes, Keys
  <2>2. facts' = FactsWith(facts, env) /\ UNCHANGED <<tasks, tasksFile>>
        /\ factsFile' = (IF written THEN facts' ELSE factsFile)
    BY <2>1 DEF ApplyFact, taskVars
  <2>3. /\ facts'[env.key].seq = env.seq /\ facts'[env.key].exp = env.exp
        /\ \A j \in FactKeys : j # env.key => facts'[j] = facts[j]
    BY <2>1, <2>2 DEF FactsWith, FactFrom, TypeOK
  <2> QED BY <1>2, <2>1, <2>2, <2>3, PublishAssumption DEF ApplyFact, AcceptsFact, Entry, FileEntry, Keys
<1> QED BY <1>1, <1>2

\* What the sweep does to them.
LEMMA SweepEntries ==
  ASSUME TypeOK, NEW broken \in SUBSET Files, GCExpired(broken), NEW k \in Keys
  PROVE  /\ running /\ running' /\ now' = now
         /\ k \in TaskKeys => Entry(k)' = SweptTask(tasks[k], now)
         /\ k \notin TaskKeys => Entry(k)' \in {facts[k], SweptFact(facts[k], now)}
         /\ FileEntry(k)' \in {FileEntry(k), Entry(k)'}
<1>1. /\ tasks' = SweptTasks(tasks, now)
      /\ tasksFile' = tasks' \/ tasksFile' = tasksFile
      /\ facts' = SweptFacts(facts, now) \/ facts' = facts
      /\ factsFile' = facts' \/ factsFile' = factsFile
  BY DEF GCExpired, GCTasks, GCFacts, factVars
<1> QED BY <1>1 DEF GCExpired, SweptTasks, SweptFacts, Entry, FileEntry, TypeOK, Keys

\* The sweep leaves what covers a current envelope, and lowers no task's number.
LEMMA SweepCovers ==
  ASSUME TypeOK, NEW broken \in SUBSET Files, GCExpired(broken), NEW env \in Envelopes
  PROVE  /\ Current(env) /\ Covers(Entry(env.key), env) => Covers(Entry(env.key)', env)
         /\ Fresh(env) => Fresh(env)'
<1> DEFINE k == env.key
<1>1. k \in Keys /\ env.seq \in Nat \ {0} /\ env.exp \in Nat /\ now \in Nat
  BY StoreAssumption DEF Envelopes, TypeOK
<1>2. CASE k \in TaskKeys
  <2>1. Entry(k)' = SweptTask(tasks[k], now) /\ Entry(k) = tasks[k] /\ tasks'[k] = Entry(k)' /\ k \notin FactKeys
    BY <1>1, <1>2, SweepEntries, PublishAssumption DEF Entry
  <2>2. tasks[k] \in TaskEntries
    BY <1>2 DEF TypeOK
  <2>3. SweptTask(tasks[k], now).seq = tasks[k].seq /\ (~ Closed(tasks[k]) => ~ Closed(SweptTask(tasks[k], now)))
    BY <2>2 DEF SweptTask, ExpiredTask, TaskEntries, Closed
  <2> QED BY <1>2, <2>1, <2>3 DEF Covers, Fresh
<1>3. CASE k \notin TaskKeys
  <2>1. Entry(k)' \in {facts[k], SweptFact(facts[k], now)} /\ Entry(k) = facts[k]
    BY <1>1, <1>3, SweepEntries DEF Entry
  <2>2. k \in FactKeys /\ facts[k].seq \in Nat /\ facts[k].exp \in Nat
    BY <1>1, <1>3, EntryTypes, <2>1
  <2>3. CASE ~ Lapsed(facts[k], now)
    BY <1>3, <2>1, <2>3 DEF SweptFact, Fresh
  <2>4. CASE Lapsed(facts[k], now)
    <3>1. Current(env) => ~ Covers(Entry(k), env)
      BY <1>1, <2>1, <2>2, <2>4 DEF Current, Covers, Lapsed
    <3>2. NoFact.seq = 0
      BY DEF NoFact
    <3> QED BY <1>1, <1>3, <2>1, <2>2, <3>1, <3>2 DEF SweptFact, Fresh
  <2> QED BY <2>3, <2>4
<1> QED BY <1>2, <1>3

\* The store's steps, as far as the entries of objects go.
LEMMA RecordedInStore ==
  ASSUME TypeOK, NEW env \in Envelopes, IsRecorded(env),
         \/ UNCHANGED <<tasks, tasksFile, facts, factsFile, running>> /\ now' \in {now, now + 1}
         \/ \E broken \in SUBSET Files : GCExpired(broken)
         \/ Stop
         \/ OpenStore
  PROVE  IsRecorded(env)'
<1>1. env.key \in Keys /\ env.exp \in Nat /\ now \in Nat
  BY StoreAssumption DEF Envelopes, TypeOK
<1>2. CASE UNCHANGED <<tasks, tasksFile, facts, factsFile, running>> /\ now' \in {now, now + 1}
  <2>1. Current(env)' => Current(env)
    BY <1>1, <1>2 DEF Current
  <2> QED BY <1>2, <2>1 DEF IsRecorded, Entry, FileEntry, Covers
<1>3. ASSUME NEW broken \in SUBSET Files, GCExpired(broken) PROVE IsRecorded(env)'
  <2>1. running /\ running' /\ now' = now /\ FileEntry(env.key)' \in {FileEntry(env.key), Entry(env.key)'}
    BY <1>1, <1>3, SweepEntries
  <2>2. Current(env) /\ Covers(Entry(env.key), env) => Covers(Entry(env.key)', env)
    BY <1>3, SweepCovers
  <2> QED BY <2>1, <2>2 DEF IsRecorded, Current, Covers
<1>4. CASE Stop
  BY <1>4 DEF Stop, IsRecorded, FileEntry, Covers, Current
<1>5. CASE OpenStore
  BY <1>5 DEF OpenStore, IsRecorded, FileEntry, Entry, Covers, Current
<1> QED BY <1>2, <1>3, <1>4, <1>5

LEMMA FreshInStore ==
  ASSUME TypeOK, NEW env \in Envelopes, Fresh(env),
         \/ UNCHANGED <<tasks, facts>>
         \/ \E broken \in SUBSET Files : GCExpired(broken)
  PROVE  Fresh(env)'
<1>1. CASE UNCHANGED <<tasks, facts>>
  BY <1>1 DEF Fresh, Entry
<1> QED BY <1>1, SweepCovers

\* A publication that applies its envelope leaves those of other requests where
\* they are, or covers them.
LEMMA ApplyLeavesOthers ==
  ASSUME PublishTypes, Control, Numbers, NEW r \in Requests, pc[r] = "apply", NEW written \in BOOLEAN,
         Apply(draft[r], written), NEW s \in Requests \ {r}
  PROVE  /\ pc[s] \in {"store", "apply"} => \A env \in Envelopes : env = draft[s] => Fresh(env)'
         /\ pc[s] \in {"gossip", "done"} => \A env \in Envelopes : env = draft[s] => IsRecorded(env)'
<1>1. PICK new \in Envelopes : new = draft[r]
  BY DEF PublishTypes, Built
<1>2. SUFFICES ASSUME NEW env \in Envelopes, env = draft[s]
               PROVE  /\ pc[s] \in {"store", "apply"} => Fresh(env)'
                      /\ pc[s] \in {"gossip", "done"} => IsRecorded(env)'
  OBVIOUS
<1>3. TypeOK /\ TypeOK' /\ env.key \in Keys /\ env.seq \in Nat /\ new.seq \in Nat
      /\ env.exp \in Nat /\ new.exp \in Nat
  BY <1>1, ApplyTypes, StoreAssumption DEF PublishTypes, PublishTypeOK, Envelopes
<1>4. /\ running /\ running' /\ now' = now /\ new.seq > Entry(new.key).seq
      /\ env.key # new.key => Entry(env.key)' = Entry(env.key)
      /\ env.key = new.key =>
           Entry(env.key)'.seq = new.seq /\ (env.key \in FactKeys => Entry(env.key)'.exp = new.exp)
      /\ FileEntry(env.key)' \in {FileEntry(env.key), Entry(env.key)'}
  BY <1>1, <1>3, ApplyEntries
<1>5. ASSUME pc[s] \in {"store", "apply"} PROVE Fresh(env)'
  <2>1. env.key # new.key
    BY <1>1, <1>2, <1>5 DEF Control, Active
  <2>2. env.key \in TaskKeys => tasks'[env.key] = tasks[env.key]
    BY <1>4, <2>1 DEF Entry
  <2>3. Fresh(env)
    BY <1>2, <1>5 DEF Numbers
  <2> QED BY <1>4, <2>1, <2>2, <2>3 DEF Fresh
<1>6. ASSUME pc[s] \in {"gossip", "done"} PROVE IsRecorded(env)'
  <2>1. IsRecorded(env)
    BY <1>2, <1>6 DEF Numbers
  <2>2. CASE env.key # new.key
    BY <1>4, <2>1, <2>2 DEF IsRecorded, Covers, Current
  <2>3. CASE env.key = new.key
    <3>1. Done(s)
      BY <1>1, <1>2, <1>6, <2>3 DEF Control, Active, Done
    <3>2. env.key \in FactKeys => env.exp <= new.exp
      BY <1>1, <1>2, <2>3, <3>1 DEF Control, Active
    <3>3. Entry(env.key).seq \in Nat
      BY <1>3, EntryTypes
    <3>4. Current(env) => Covers(Entry(env.key)', env)
      BY <1>3, <1>4, <2>1, <2>3, <3>2, <3>3 DEF IsRecorded, Covers
    <3> QED BY <1>4, <2>1, <3>4 DEF IsRecorded, Covers, Current
  <2> QED BY <2>2, <2>3
<1> QED BY <1>5, <1>6

LEMMA NumbersInductive ==
  CarefulClients /\ PublishTypes /\ Control /\ Numbers /\ [PublishNext]_allVars => Numbers'
<1> SUFFICES ASSUME CarefulClients, PublishTypes, Control, Numbers, [PublishNext]_allVars PROVE Numbers'
  OBVIOUS
<1>0. TypeOK /\ now \in Nat /\ \A r \in Requests : pc[r] # "idle" => draft[r] \in Envelopes
  BY StoreAssumption DEF PublishTypes, PublishTypeOK, TypeOK, Built
\* A step that hands out no new number and leaves what the others rely on.
<1>1. ASSUME NEW r \in Requests, NEW next \in {"apply", "gossip", "done", "failed"},
             pc[r] # "idle", pc' = [pc EXCEPT ![r] = next], UNCHANGED draft,
             \A s \in Requests \ {r} : \A env \in Envelopes : env = draft[s] =>
               /\ pc[s] \in {"store", "apply"} => Fresh(env)'
               /\ pc[s] \in {"gossip", "done"} => IsRecorded(env)',
             \A env \in Envelopes : env = draft[r] =>
               /\ next = "apply" => Fresh(env)'
               /\ next \in {"gossip", "done"} => IsRecorded(env)'
      PROVE  Numbers'
  <2>1. pc'[r] = next /\ \A s \in Requests \ {r} : pc'[s] = pc[s]
    BY <1>1 DEF PublishTypes, PublishTypeOK
  <2>2. ASSUME NEW s \in Requests, pc'[s] \in {"store", "apply", "gossip", "done"}
        PROVE  /\ pc'[s] \in {"store", "apply"} => Fresh(draft[s])'
               /\ pc'[s] \in {"gossip", "done"} => IsRecorded(draft[s])'
    <3>1. PICK env \in Envelopes : env = draft[s] /\ draft'[s] = env
      BY <1>0, <1>1, <2>1, <2>2
    <3>2. /\ pc'[s] \in {"store", "apply"} => Fresh(env)'
          /\ pc'[s] \in {"gossip", "done"} => IsRecorded(env)'
      <4>1. CASE s = r
        BY <1>1, <2>1, <3>1, <4>1
      <4>2. CASE s # r
        BY <1>1, <2>1, <3>1, <4>2
      <4> QED BY <4>1, <4>2
    <3> QED BY <3>1, <3>2 DEF Fresh, IsRecorded, Current
  <2> QED BY <2>2 DEF Numbers
<1>2. ASSUME NEW r \in Requests, NEW key \in Keys, NEW op \in Ops, NEW ttl \in TTLs[key],
             Begin(r, key, op, ttl)
      PROVE  Numbers'
  <2>1. UNCHANGED vars /\ pc'[r] = "store" /\ \A s \in Requests \ {r} : pc'[s] = pc[s] /\ draft'[s] = draft[s]
    BY <1>2 DEF Begin, PublishTypes, PublishTypeOK
  <2>2. PICK env \in Envelopes : draft'[r] = env /\ env.key = key /\ env.seq = NextSeq(Entry(key))
    BY <1>2, NewDraftTypes DEF Begin, PublishTypes, PublishTypeOK
  <2>3. Fresh(env)
    <3>1. Entry(key).seq \in Nat
      BY <1>0, EntryTypes
    <3>2. key \in TaskKeys => ~ Closed(tasks[key])
      BY <1>2 DEF Begin, ClientMay, CarefulClients
    <3> QED BY <2>2, <3>1, <3>2 DEF Fresh, NextSeq
  <2>4. Fresh(env)'
    BY <2>1, <2>3 DEF Fresh, Entry, vars, taskVars, factVars
  <2>5. ASSUME NEW s \in Requests
        PROVE  /\ pc'[s] \in {"store", "apply"} => Fresh(draft[s])'
               /\ pc'[s] \in {"gossip", "done"} => IsRecorded(draft[s])'
    <3>1. CASE s = r
      BY <2>1, <2>2, <2>4, <3>1 DEF Fresh
    <3>2. CASE s # r
      BY <2>1, <3>2 DEF Numbers, Fresh, IsRecorded, Current, Covers, Entry, FileEntry, vars, taskVars, factVars
    <3> QED BY <3>1, <3>2
  <2> QED BY <2>5 DEF Numbers
\* What happens to the store without an envelope that is applied.
<1>3. ASSUME \/ UNCHANGED <<tasks, tasksFile, facts, factsFile, running>> /\ now' \in {now, now + 1}
             \/ \E broken \in SUBSET Files : GCExpired(broken)
             \/ Stop \/ OpenStore
      PROVE  \A s \in Requests : \A env \in Envelopes : env = draft[s] =>
               (pc[s] \in {"gossip", "done"} => IsRecorded(env)')
  BY <1>0, <1>3, RecordedInStore DEF Numbers
<1>4. ASSUME UNCHANGED <<tasks, facts>> \/ \E broken \in SUBSET Files : GCExpired(broken)
      PROVE  \A s \in Requests : \A env \in Envelopes : env = draft[s] =>
               (pc[s] \in {"store", "apply"} => Fresh(env)')
  BY <1>0, <1>4, FreshInStore DEF Numbers
<1>5. ASSUME NEW r \in Requests, NEW written \in BOOLEAN, StoreDetail(r, written) PROVE Numbers'
  <2>1. /\ pc[r] = "store" /\ UNCHANGED <<tasks, tasksFile, facts, factsFile, running, now, draft>>
        /\ pc' = [pc EXCEPT ![r] = IF written THEN "apply" ELSE "failed"]
    BY <1>5 DEF StoreDetail, UpsertPayload, Proceeds, taskVars, factVars
  <2>2. \A env \in Envelopes : env = draft[r] => Fresh(env)'
    BY <1>4, <2>1
  <2> QED BY <1>1, <1>3, <1>4, <2>1, <2>2
<1>6. ASSUME NEW r \in Requests, NEW written \in BOOLEAN, ApplyLocally(r, written) PROVE Numbers'
  <2>1. pc[r] = "apply" /\ UNCHANGED draft /\ running /\ draft[r] \in Envelopes /\ Fresh(draft[r])
    BY <1>0, <1>6 DEF ApplyLocally, Control, Active, Numbers
  <2>2. CASE Apply(draft[r], written) /\ Proceeds(r, written, "gossip")
    <3>1. PICK new \in Envelopes : new = draft[r]
      BY <2>1
    <3>2. \A s \in Requests \ {r} : \A env \in Envelopes : env = draft[s] =>
               /\ pc[s] \in {"store", "apply"} => Fresh(env)'
               /\ pc[s] \in {"gossip", "done"} => IsRecorded(env)'
      BY <2>1, <2>2, ApplyLeavesOthers
    <3>3. written => IsRecorded(new)'
      <4>1. new.key \in Keys /\ new.seq \in Nat /\ new.exp \in Nat
        BY StoreAssumption DEF Envelopes
      <4>2. /\ Entry(new.key)'.seq = new.seq /\ (new.key \in FactKeys => Entry(new.key)'.exp = new.exp)
            /\ written => FileEntry(new.key)' = Entry(new.key)'
        BY <1>0, <2>2, <3>1, <4>1, ApplyEntries
      <4> QED BY <4>1, <4>2 DEF IsRecorded, Covers
    <3> QED BY <1>1, <2>1, <2>2, <3>1, <3>2, <3>3 DEF Proceeds
  <2>3. CASE ~ Accepted(draft[r]) /\ Proceeds(r, TRUE, "gossip") /\ UNCHANGED vars
    <3>1. ~ Current(draft[r])
      BY <2>1, <2>3 DEF Accepted, AcceptsTask, AcceptsFact, Fresh, Entry, Current
    <3>2. \A env \in Envelopes : env = draft[r] => IsRecorded(env)'
      BY <2>3, <3>1 DEF IsRecorded, Current, vars
    <3>3. UNCHANGED <<tasks, tasksFile, facts, factsFile, running, now>>
      BY <2>3 DEF vars, taskVars, factVars
    <3> QED BY <1>1, <1>3, <1>4, <2>1, <2>3, <3>2, <3>3 DEF Proceeds
  <2> QED BY <1>6, <2>2, <2>3 DEF ApplyLocally
<1>7. ASSUME NEW r \in Requests, NEW out \in BOOLEAN, GossipOut(r, out) PROVE Numbers'
  <2>1. /\ pc[r] = "gossip" /\ UNCHANGED <<tasks, tasksFile, facts, factsFile, running, now, draft>>
        /\ pc' = [pc EXCEPT ![r] = IF out THEN "done" ELSE "failed"]
    BY <1>7 DEF GossipOut, vars, taskVars, factVars
  <2> QED BY <1>1, <1>3, <1>4, <2>1
<1>8. CASE StopAll
  <2>1. /\ UNCHANGED draft /\ Stop
        /\ \A s \in Requests : pc'[s] \notin {"store", "apply", "gossip"} /\ (pc'[s] = "done" => pc[s] = "done")
    BY <1>8 DEF StopAll, Active
  <2>2. ASSUME NEW s \in Requests, pc'[s] = "done" PROVE IsRecorded(draft[s])'
    <3>1. PICK env \in Envelopes : env = draft[s] /\ draft'[s] = env
      BY <1>0, <2>1, <2>2
    <3> QED BY <1>3, <2>1, <2>2, <3>1 DEF IsRecorded, Current
  <2> QED BY <2>1, <2>2 DEF Numbers
<1>9. CASE Background \/ UNCHANGED allVars
  <2>1. UNCHANGED <<pc, draft>>
    BY <1>9 DEF Background, publishVars, allVars
  <2>2. \/ UNCHANGED <<tasks, tasksFile, facts, factsFile, running>> /\ now' \in {now, now + 1}
        \/ \E broken \in SUBSET Files : GCExpired(broken)
        \/ OpenStore
    BY <1>9 DEF Background, Tick, allVars, vars, taskVars, factVars
  <2>3. ASSUME NEW s \in Requests, pc[s] \in {"store", "apply"} PROVE Fresh(draft[s])'
    <3>1. PICK env \in Envelopes : env = draft[s] /\ draft'[s] = env
      BY <1>0, <2>1, <2>3
    <3>2. running
      BY <2>3 DEF Control, Active
    <3>3. Fresh(env)'
      BY <1>4, <2>2, <2>3, <3>1, <3>2 DEF OpenStore
    <3> QED BY <3>1, <3>3 DEF Fresh
  <2>4. ASSUME NEW s \in Requests, pc[s] \in {"gossip", "done"} PROVE IsRecorded(draft[s])'
    <3>1. PICK env \in Envelopes : env = draft[s] /\ draft'[s] = env
      BY <1>0, <2>1, <2>4
    <3>2. IsRecorded(env)'
      BY <1>3, <2>2, <2>4, <3>1
    <3> QED BY <3>1, <3>2 DEF IsRecorded, Current
  <2> QED BY <2>1, <2>3, <2>4 DEF Numbers
<1> QED BY <1>2, <1>5, <1>6, <1>7, <1>8, <1>9 DEF PublishNext

(***************************************************************************)
(* Details.  From StoreDetail on, the detail of a current envelope is in   *)
(* memory and in payloads.json under its reference: a reference that       *)
(* another publication writes carries another key, or a younger number.    *)
(***************************************************************************)
Detail(env) == [exp |-> env.exp, body |-> env.body]

IsHeld(env) ==
  Current(env) => /\ payloadsFile[DetailRef(env)] = Detail(env)
                  /\ running => payloads[DetailRef(env)] = Detail(env)

Held == \A r \in Requests : pc[r] \in {"apply", "gossip", "done"} => IsHeld(draft[r])

PublishInv == PublishTypes /\ Control /\ Numbers /\ Held

LEMMA HeldInStore ==
  ASSUME TypeOK, NEW env \in Envelopes, IsHeld(env),
         \/ UNCHANGED <<payloadVars, running>> /\ now' \in {now, now + 1}
         \/ \E broken \in SUBSET Files : GCExpired(broken)
         \/ Stop
         \/ OpenStore
  PROVE  IsHeld(env)'
<1>1. env.exp \in Nat /\ now \in Nat /\ DetailRef(env) \in Refs
  BY PublishAssumption, StoreAssumption DEF Envelopes, TypeOK, Keys, DetailRef
<1>2. CASE UNCHANGED <<payloadVars, running>> /\ now' \in {now, now + 1}
  <2>1. Current(env)' => Current(env)
    BY <1>1, <1>2 DEF Current
  <2> QED BY <1>2, <2>1 DEF IsHeld, payloadVars
<1>3. ASSUME NEW broken \in SUBSET Files, GCExpired(broken) PROVE IsHeld(env)'
  <2>1. /\ running /\ now' = now
        /\ payloads' = SweptPayloads(payloads, now) \/ payloads' = payloads
        /\ payloadsFile' = payloads' \/ payloadsFile' = payloadsFile
    BY <1>3 DEF GCExpired, GCPayloads, payloadVars
  <2>2. Current(env) => payloads'[DetailRef(env)] = Detail(env)
    BY <1>1, <2>1 DEF IsHeld, Current, SweptPayloads, SweptPayload, LapsedPayload, Detail, TypeOK
  <2> QED BY <2>1, <2>2 DEF IsHeld, Current
<1>4. CASE Stop
  BY <1>4 DEF Stop, IsHeld, Current
<1>5. CASE OpenStore
  BY <1>5 DEF OpenStore, IsHeld, Current
<1> QED BY <1>2, <1>3, <1>4, <1>5

\* What StoreDetail writes over is not the detail of another current envelope.
LEMMA ReferencesDiffer ==
  ASSUME PublishTypes, Control, Numbers, NEW r \in Requests, pc[r] = "store",
         NEW s \in Requests \ {r}, pc[s] \in {"apply", "gossip", "done"}, Current(draft[s])
  PROVE  DetailRef(draft[s]) # DetailRef(draft[r])
<1>1. draft[r] \in Envelopes /\ draft[s] \in Envelopes /\ TypeOK
  BY DEF PublishTypes, PublishTypeOK, Built
<1>2. SUFFICES ASSUME draft[s].key = draft[r].key PROVE draft[s].seq # draft[r].seq
  BY DEF DetailRef
<1>3. pc[s] = "done" /\ running
  BY <1>2 DEF Control, Active
<1>4. Entry(draft[r].key).seq \in Nat /\ draft[r].seq \in Nat /\ draft[s].seq \in Nat
  BY <1>1, EntryTypes, StoreAssumption DEF Envelopes
<1>5. draft[r].seq > Entry(draft[r].key).seq /\ Entry(draft[r].key).seq >= draft[s].seq
  BY <1>2, <1>3 DEF Numbers, Fresh, IsRecorded, Covers
<1> QED BY <1>4, <1>5

LEMMA HeldInductive == PublishTypes /\ Control /\ Numbers /\ Held /\ [PublishNext]_allVars => Held'
<1> SUFFICES ASSUME PublishTypes, Control, Numbers, Held, [PublishNext]_allVars PROVE Held'
  OBVIOUS
<1>0. TypeOK /\ \A r \in Requests : pc[r] # "idle" => draft[r] \in Envelopes /\ draft[r].body = r
  BY DEF PublishTypes, PublishTypeOK, Built
\* A step that keeps the store's part and takes nobody past StoreDetail.
<1>1. ASSUME \/ UNCHANGED <<payloadVars, running>> /\ now' \in {now, now + 1}
             \/ \E broken \in SUBSET Files : GCExpired(broken)
             \/ Stop \/ OpenStore,
             \A s \in Requests : pc'[s] \in {"apply", "gossip", "done"} =>
               pc[s] \in {"apply", "gossip", "done"} /\ draft'[s] = draft[s]
      PROVE  Held'
  <2>1. ASSUME NEW s \in Requests, pc'[s] \in {"apply", "gossip", "done"} PROVE IsHeld(draft[s])'
    <3>1. PICK env \in Envelopes : env = draft[s] /\ draft'[s] = env /\ IsHeld(env)
      BY <1>0, <1>1, <2>1 DEF Held
    <3>2. IsHeld(env)'
      BY <1>0, <1>1, <3>1, HeldInStore
    <3> QED BY <3>1, <3>2 DEF IsHeld, Current
  <2> QED BY <2>1 DEF Held
<1>2. ASSUME NEW r \in Requests, NEW key \in Keys, NEW op \in Ops, NEW ttl \in TTLs[key],
             Begin(r, key, op, ttl)
      PROVE  Held'
  <2>1. UNCHANGED <<payloadVars, running, now>>
    BY <1>2 DEF Begin, vars
  <2>2. \A s \in Requests : pc'[s] \in {"apply", "gossip", "done"} =>
          pc[s] \in {"apply", "gossip", "done"} /\ draft'[s] = draft[s]
    BY <1>2 DEF Begin, PublishTypes, PublishTypeOK
  <2> QED BY <1>1, <2>1, <2>2
<1>3. ASSUME NEW r \in Requests, NEW written \in BOOLEAN, StoreDetail(r, written) PROVE Held'
  <2>1. PICK new \in Envelopes : new = draft[r] /\ new.body = r
    BY <1>0, <1>3 DEF StoreDetail
  <2>2. DetailRef(new) \in Refs
    BY PublishAssumption DEF Envelopes, Keys, DetailRef
  <2>3. /\ UNCHANGED <<draft, running, now>> /\ running /\ pc[r] = "store"
        /\ payloads' = [payloads EXCEPT ![DetailRef(new)] = Detail(new)]
        /\ payloadsFile' = (IF written THEN payloads' ELSE payloadsFile)
        /\ pc' = [pc EXCEPT ![r] = IF written THEN "apply" ELSE "failed"]
    BY <1>3, <2>1 DEF StoreDetail, UpsertPayload, Proceeds, Detail
  <2>4. ASSUME NEW s \in Requests, pc'[s] \in {"apply", "gossip", "done"} PROVE IsHeld(draft[s])'
    <3>1. CASE s = r
      <4>1. written
        BY <2>3, <2>4, <3>1 DEF PublishTypes, PublishTypeOK
      <4>2. payloads'[DetailRef(new)] = Detail(new) /\ payloadsFile'[DetailRef(new)] = Detail(new)
        BY <1>0, <2>2, <2>3, <4>1 DEF TypeOK
      <4> QED BY <2>1, <2>3, <3>1, <4>2 DEF IsHeld
    <3>2. CASE s # r
      <4>1. pc[s] \in {"apply", "gossip", "done"}
        BY <2>3, <2>4, <3>2 DEF PublishTypes, PublishTypeOK
      <4>2. PICK env \in Envelopes : env = draft[s] /\ IsHeld(env)
        BY <1>0, <4>1 DEF Held
      <4>3. Current(env) => DetailRef(env) # DetailRef(new)
        BY <2>1, <2>3, <3>2, <4>1, <4>2, ReferencesDiffer
      <4>4. DetailRef(env) \in Refs
        BY PublishAssumption DEF Envelopes, Keys, DetailRef
      <4>5. IsHeld(env)'
        BY <1>0, <2>3, <4>2, <4>3, <4>4 DEF IsHeld, Current, TypeOK
      <4> QED BY <2>3, <4>2, <4>5 DEF IsHeld, Current
    <3> QED BY <3>1, <3>2
  <2> QED BY <2>4 DEF Held
<1>4. ASSUME NEW r \in Requests, NEW written \in BOOLEAN, ApplyLocally(r, written) PROVE Held'
  <2>1. UNCHANGED <<payloadVars, running, now>>
    BY <1>4 DEF ApplyLocally, Apply, ApplyTask, ApplyFact, vars
  <2>2. \A s \in Requests : pc'[s] \in {"apply", "gossip", "done"} =>
          pc[s] \in {"apply", "gossip", "done"} /\ draft'[s] = draft[s]
    BY <1>4 DEF ApplyLocally, Proceeds, PublishTypes, PublishTypeOK
  <2> QED BY <1>1, <2>1, <2>2
<1>5. ASSUME NEW r \in Requests, NEW out \in BOOLEAN, GossipOut(r, out) PROVE Held'
  <2>1. UNCHANGED <<payloadVars, running, now>>
    BY <1>5 DEF GossipOut, vars
  <2>2. \A s \in Requests : pc'[s] \in {"apply", "gossip", "done"} =>
          pc[s] \in {"apply", "gossip", "done"} /\ draft'[s] = draft[s]
    BY <1>5 DEF GossipOut, PublishTypes, PublishTypeOK
  <2> QED BY <1>1, <2>1, <2>2
<1>6. CASE StopAll
  <2>1. \A s \in Requests : pc'[s] \in {"apply", "gossip", "done"} =>
          pc[s] \in {"apply", "gossip", "done"} /\ draft'[s] = draft[s]
    BY <1>6 DEF StopAll, Active
  <2> QED BY <1>1, <1>6, <2>1 DEF StopAll
<1>7. CASE Background \/ UNCHANGED allVars
  <2>1. UNCHANGED <<pc, draft>>
    BY <1>7 DEF Background, publishVars, allVars
  <2>2. \/ UNCHANGED <<payloadVars, running>> /\ now' \in {now, now + 1}
        \/ \E broken \in SUBSET Files : GCExpired(broken)
        \/ OpenStore
    BY <1>7 DEF Background, Tick, allVars, vars
  <2> QED BY <1>1, <2>1, <2>2
<1> QED BY <1>2, <1>3, <1>4, <1>5, <1>6, <1>7 DEF PublishNext

LEMMA PublishInvariant == ASSUME CarefulClients PROVE PublishSpec => []PublishInv
<1>1. PublishInit => PublishTypes
  <2>1. 0 \in 0 .. MaxTime
    BY StoreAssumption
  <2>2. Init => TypeOK
    BY <2>1, TaskEntryTypes, FactEntryTypes, PayloadEntryTypes
    DEF Init, TypeOK, EmptyTasks, EmptyFacts, EmptyPayloads
  <2> QED BY <2>2 DEF PublishInit, PublishTypes, PublishTypeOK
<1>2. PublishInit => Control /\ Numbers /\ Held
  BY DEF PublishInit, Control, Numbers, Held, Active, Done
<1>3. PublishInv /\ [PublishNext]_allVars => PublishInv'
  BY PublishTypesInductive, ControlInductive, NumbersInductive, HeldInductive DEF PublishInv
<1> QED BY <1>1, <1>2, <1>3, PTL DEF PublishSpec, PublishInv

\* What was sent is what its request drafted, and is done.
LEMMA SentIsDone ==
  ASSUME PublishInv, NEW env \in sent
  PROVE  env \in Envelopes /\ IsRecorded(env) /\ IsHeld(env) /\ draft[env.body] = env
<1>1. env \in Envelopes /\ env.body \in Requests /\ pc[env.body] = "done" /\ draft[env.body] = env
  BY DEF PublishInv, PublishTypes, PublishTypeOK, Control, Done, Envelopes
<1> QED BY <1>1 DEF PublishInv, Numbers, Held

\* The number of an envelope in circulation is on disk, so that neither a
\* restart nor the sweep makes PublishTask or PublishFact hand it out again.
THEOREM NumbersReachDisk == ASSUME CarefulClients PROVE PublishSpec => []SentIsRecorded
<1>1. PublishInv => SentIsRecorded
  BY SentIsDone DEF SentIsRecorded, IsRecorded, Covers, FileEntry
<1> QED BY <1>1, PublishInvariant, PTL

\* A detail_ref in circulation resolves to the detail it was published with,
\* until its deadline (UpsertPayload, GCExpired, handleFetch).
THEOREM DetailsStay == ASSUME CarefulClients PROVE PublishSpec => []SentIsFetchable
<1>1. ASSUME PublishInv, NEW env \in sent, running, Current(env) PROVE Fetched(DetailRef(env)) = env.body
  <2>1. payloads[DetailRef(env)] = Detail(env)
    BY <1>1, SentIsDone DEF IsHeld
  <2> QED BY <2>1 DEF Fetched, Detail
<1>2. PublishInv => SentIsFetchable
  BY <1>1 DEF SentIsFetchable
<1> QED BY <1>2, PublishInvariant, PTL

\* No two envelopes in circulation carry the same number of an object: they
\* would share the reference of their detail, which holds one body.
THEOREM NumbersAreUnique == ASSUME CarefulClients PROVE PublishSpec => []OneEnvelopePerNumber
<1>1. ASSUME PublishInv, NEW e \in sent, NEW f \in sent, Current(e), Current(f), DetailRef(e) = DetailRef(f)
      PROVE  e = f
  <2>1. Detail(e) = Detail(f)
    BY <1>1, SentIsDone DEF IsHeld
  <2>2. e.body = f.body
    BY <2>1 DEF Detail
  <2> QED BY <1>1, <2>2, SentIsDone
<1>2. PublishInv => OneEnvelopePerNumber
  BY <1>1 DEF OneEnvelopePerNumber
<1> QED BY <1>2, PublishInvariant, PTL
=============================================================================
