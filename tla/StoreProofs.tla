---------------------------- MODULE StoreProofs ----------------------------
(***************************************************************************)
(* What module Store promises, for any keys, bodies and bounds.            *)
(***************************************************************************)
EXTENDS Store, TLAPS

(***************************************************************************)
(* Type correctness.                                                       *)
(***************************************************************************)

\* What ApplyTask and GCExpired put in the table of tasks is a task entry.
LEMMA TaskEntryTypes ==
  /\ NoTask \in TaskEntries
  /\ \A env \in TaskEnvelopes : TaskFrom(env) \in TaskEntries
  /\ \A e \in TaskEntries : \A t : SweptTask(e, t) \in TaskEntries
<1>1. NoTask \in TaskEntries
  BY StoreAssumption DEF NoTask, TaskEntries, TaskStatuses
<1>2. ASSUME NEW env \in TaskEnvelopes PROVE TaskFrom(env) \in TaskEntries
  <2>1. StatusOf(env.op) \in TaskStatuses
    BY DEF TaskEnvelopes, Ops, StatusOf, TaskStatuses
  <2> QED
    BY <2>1, StoreAssumption DEF TaskEnvelopes, TaskFrom, TaskEntries
<1>3. ASSUME NEW e \in TaskEntries, NEW t PROVE SweptTask(e, t) \in TaskEntries
  BY DEF SweptTask, ExpiredTask, TaskEntries, TaskStatuses
<1> QED BY <1>1, <1>2, <1>3

\* The same for the table of facts.
LEMMA FactEntryTypes ==
  /\ NoFact \in FactEntries
  /\ \A env \in FactEnvelopes : env.key \in FactKeys /\ FactFrom(env) \in FactEntries
  /\ \A e \in FactEntries : \A t : SweptFact(e, t) \in FactEntries
  BY StoreAssumption DEF NoFact, FactFrom, SweptFact, FactEntries

\* The same for the table of payloads.
LEMMA PayloadEntryTypes ==
  /\ NoPayload \in PayloadEntries
  /\ \A e \in PayloadEntries : \A t : SweptPayload(e, t) \in PayloadEntries
  BY StoreAssumption DEF NoPayload, SweptPayload, PayloadEntries

\* Init and every step of the store keep the types.
LEMMA TypeInductive == TypeOK /\ [Next]_vars => TypeOK'
<1> SUFFICES ASSUME TypeOK, [Next]_vars PROVE TypeOK'
  OBVIOUS
<1> USE DEF TypeOK
<1>1. CASE \E env \in TaskEnvelopes, written \in BOOLEAN : ApplyTask(env, written)
  <2> PICK env \in TaskEnvelopes, written \in BOOLEAN : ApplyTask(env, written)
    BY <1>1
  <2>1. tasks' \in [TaskKeys -> TaskEntries]
    BY TaskEntryTypes DEF ApplyTask, TasksWith
  <2>2. tasksFile' \in [TaskKeys -> TaskEntries]
    BY <2>1 DEF ApplyTask
  <2> QED BY <2>1, <2>2 DEF ApplyTask, factVars, payloadVars
<1>2. CASE \E env \in FactEnvelopes, written \in BOOLEAN : ApplyFact(env, written)
  <2> PICK env \in FactEnvelopes, written \in BOOLEAN : ApplyFact(env, written)
    BY <1>2
  <2>1. facts' \in [FactKeys -> FactEntries]
    BY FactEntryTypes DEF ApplyFact, FactsWith
  <2>2. factsFile' \in [FactKeys -> FactEntries]
    BY <2>1 DEF ApplyFact
  <2> QED BY <2>1, <2>2 DEF ApplyFact, taskVars, payloadVars
<1>3. CASE \E ref \in Refs, exp \in 1 .. MaxTime, body \in Bodies, written \in BOOLEAN :
             UpsertPayload(ref, [exp |-> exp, body |-> body], written)
  <2> PICK ref \in Refs, exp \in 1 .. MaxTime, body \in Bodies, written \in BOOLEAN :
             UpsertPayload(ref, [exp |-> exp, body |-> body], written)
    BY <1>3
  <2>1. [exp |-> exp, body |-> body] \in PayloadEntries
    BY StoreAssumption DEF PayloadEntries
  <2>2. payloads' \in [Refs -> PayloadEntries]
    BY <2>1 DEF UpsertPayload
  <2>3. payloadsFile' \in [Refs -> PayloadEntries]
    BY <2>2 DEF UpsertPayload
  <2> QED BY <2>2, <2>3 DEF UpsertPayload, taskVars, factVars
<1>4. CASE \E broken \in SUBSET Files : GCExpired(broken)
  <2> PICK broken \in SUBSET Files : GCExpired(broken)
    BY <1>4
  <2>1. tasks' \in [TaskKeys -> TaskEntries] /\ tasksFile' \in [TaskKeys -> TaskEntries]
    BY TaskEntryTypes DEF GCExpired, GCTasks, SweptTasks
  <2>2. facts' \in [FactKeys -> FactEntries] /\ factsFile' \in [FactKeys -> FactEntries]
    BY FactEntryTypes DEF GCExpired, GCFacts, SweptFacts, factVars
  <2>3. payloads' \in [Refs -> PayloadEntries] /\ payloadsFile' \in [Refs -> PayloadEntries]
    BY PayloadEntryTypes DEF GCExpired, GCPayloads, SweptPayloads, payloadVars
  <2> QED BY <2>1, <2>2, <2>3 DEF GCExpired
<1>5. CASE Stop
  BY <1>5, TaskEntryTypes, FactEntryTypes, PayloadEntryTypes
  DEF Stop, EmptyTasks, EmptyFacts, EmptyPayloads
<1>6. CASE OpenStore
  BY <1>6 DEF OpenStore
<1>7. CASE Tick
  BY <1>7, StoreAssumption DEF Tick, taskVars, factVars, payloadVars
<1>8. CASE UNCHANGED vars
  BY <1>8 DEF vars, taskVars, factVars, payloadVars
<1> QED BY <1>1, <1>2, <1>3, <1>4, <1>5, <1>6, <1>7, <1>8 DEF Next

\* Every reachable state of the store is well typed.
THEOREM TypeCorrect == Spec => []TypeOK
<1>1. ASSUME Init PROVE TypeOK
  <2>1. /\ EmptyTasks \in [TaskKeys -> TaskEntries]
        /\ EmptyFacts \in [FactKeys -> FactEntries]
        /\ EmptyPayloads \in [Refs -> PayloadEntries]
    BY TaskEntryTypes, FactEntryTypes, PayloadEntryTypes
    DEF EmptyTasks, EmptyFacts, EmptyPayloads
  <2>2. now \in 0 .. MaxTime
    BY <1>1, StoreAssumption DEF Init
  <2> QED BY <1>1, <2>1, <2>2 DEF Init, TypeOK
<1> QED BY <1>1, TypeInductive, PTL DEF Spec

(***************************************************************************)
(* The tasks: the memory is never behind the file, and the file is a       *)
(* ledger.  Follows composes with each thing that happens to an entry in   *)
(* memory, so it holds between a file and the memory however many writes   *)
(* were missed; a write then moves the file by one Follows.                *)
(***************************************************************************)

\* An entry the memory has moved on from stays in its past when ApplyTask
\* accepts an envelope.
LEMMA FollowsApply ==
  ASSUME NEW a \in TaskEntries, NEW b \in TaskEntries, NEW env \in TaskEnvelopes,
         NEW t \in Nat, Follows(a, b, t), AcceptsTask(b, env, t)
  PROVE  Follows(a, TaskFrom(env), t)
<1>1. env.seq > b.seq /\ ~ Closed(b)
  BY DEF AcceptsTask
<1>2. TaskFrom(env).seq = env.seq
  BY DEF TaskFrom
<1>3. a.seq \in Nat /\ b.seq \in Nat /\ env.seq \in Nat
  BY StoreAssumption DEF TaskEntries, TaskEnvelopes
<1>4. CASE b = a
  BY <1>1, <1>2, <1>4 DEF Follows
<1>5. CASE b.seq > a.seq /\ (Closed(a) => t > a.exp)
  BY <1>1, <1>2, <1>3, <1>5 DEF Follows
<1>6. CASE b = ExpiredTask(a) /\ Lapsed(a, t)
  <2>1. b.seq = a.seq
    BY <1>6 DEF ExpiredTask, TaskEntries
  <2> QED BY <1>1, <1>2, <1>6, <2>1 DEF Follows, Lapsed
<1> QED BY <1>4, <1>5, <1>6 DEF Follows

\* The same when GCExpired passes over the entry.
LEMMA FollowsSweep ==
  ASSUME NEW a \in TaskEntries, NEW b \in TaskEntries, NEW t \in Nat, Follows(a, b, t)
  PROVE  Follows(a, SweptTask(b, t), t)
<1>1. CASE ~ Lapsed(b, t)
  BY <1>1 DEF SweptTask
<1>2. CASE Lapsed(b, t)
  <2>1. SweptTask(b, t) = ExpiredTask(b)
    BY <1>2 DEF SweptTask
  <2>2. ExpiredTask(b).seq = b.seq
    BY DEF ExpiredTask, TaskEntries
  <2>3. CASE b = a
    BY <1>2, <2>1, <2>3 DEF Follows
  <2>4. CASE b.seq > a.seq /\ (Closed(a) => t > a.exp)
    BY <2>1, <2>2, <2>4 DEF Follows
  <2>5. CASE b = ExpiredTask(a) /\ Lapsed(a, t)
    <3>1. ExpiredTask(b) = b
      BY <2>5 DEF ExpiredTask, TaskEntries
    <3> QED BY <2>1, <3>1
  <2> QED BY <2>3, <2>4, <2>5 DEF Follows
<1> QED BY <1>1, <1>2

\* What follows at one time follows at any later time.
LEMMA FollowsLater ==
  ASSUME NEW a \in TaskEntries, NEW b, NEW t \in Nat, NEW u \in Nat, u >= t,
         Follows(a, b, t)
  PROVE  Follows(a, b, u)
<1>1. a.exp \in Nat
  BY StoreAssumption DEF TaskEntries
<1> QED BY <1>1 DEF Follows, Lapsed

\* Whatever ApplyTask does to the memory, the file is in its past.
LEMMA ApplyFollows ==
  ASSUME TypeOK, TasksFileIsPast,
         NEW env \in TaskEnvelopes, NEW written \in BOOLEAN, ApplyTask(env, written),
         NEW k \in TaskKeys
  PROVE  Follows(tasksFile[k], tasks'[k], now)
<1>1. /\ now \in Nat
      /\ tasks[k] \in TaskEntries /\ tasksFile[k] \in TaskEntries
  BY StoreAssumption DEF TypeOK
<1>2. Follows(tasksFile[k], tasks[k], now)
  BY DEF TasksFileIsPast, ApplyTask
<1>3. CASE k = env.key
  <2>1. tasks'[k] = TaskFrom(env) /\ AcceptsTask(tasks[k], env, now)
    BY <1>3 DEF ApplyTask, TasksWith, TypeOK
  <2> QED BY <1>1, <1>2, <2>1, FollowsApply
<1>4. CASE k # env.key
  BY <1>2, <1>4 DEF ApplyTask, TasksWith, TypeOK
<1> QED BY <1>3, <1>4

\* The same of GCExpired.
LEMMA SweepFollows ==
  ASSUME TypeOK, TasksFileIsPast, running, NEW broken \in SUBSET Files, GCTasks(broken),
         NEW k \in TaskKeys
  PROVE  Follows(tasksFile[k], tasks'[k], now)
<1>1. /\ now \in Nat
      /\ tasks[k] \in TaskEntries /\ tasksFile[k] \in TaskEntries
  BY StoreAssumption DEF TypeOK
<1>2. Follows(tasksFile[k], tasks[k], now)
  BY DEF TasksFileIsPast
<1>3. tasks'[k] = SweptTask(tasks[k], now)
  BY DEF GCTasks, SweptTasks, TypeOK
<1> QED BY <1>1, <1>2, <1>3, FollowsSweep

\* The induction step of TasksFileIsPast.
LEMMA TasksFileIsPastInductive == TypeOK /\ TasksFileIsPast /\ [Next]_vars => TasksFileIsPast'
<1> SUFFICES ASSUME TypeOK, TasksFileIsPast, [Next]_vars, running', NEW k \in TaskKeys
             PROVE  Follows(tasksFile'[k], tasks'[k], now')
  BY DEF TasksFileIsPast
<1>1. ASSUME running, UNCHANGED taskVars, now' = now
      PROVE  Follows(tasksFile'[k], tasks'[k], now')
  BY <1>1 DEF TasksFileIsPast, taskVars
<1>2. ASSUME NEW env \in TaskEnvelopes, NEW written \in BOOLEAN, ApplyTask(env, written)
      PROVE  Follows(tasksFile'[k], tasks'[k], now')
  <2>1. Follows(tasksFile[k], tasks'[k], now)
    BY <1>2, ApplyFollows
  <2>2. now' = now /\ (tasksFile' = tasks' \/ tasksFile' = tasksFile)
    BY <1>2 DEF ApplyTask
  <2> QED BY <2>1, <2>2 DEF Follows
<1>3. ASSUME NEW broken \in SUBSET Files, GCExpired(broken)
      PROVE  Follows(tasksFile'[k], tasks'[k], now')
  <2>1. running /\ now' = now /\ GCTasks(broken)
    BY <1>3 DEF GCExpired
  <2>2. Follows(tasksFile[k], tasks'[k], now)
    BY <2>1, SweepFollows
  <2>3. tasksFile' = tasks' \/ tasksFile' = tasksFile
    BY <2>1 DEF GCTasks
  <2> QED BY <2>1, <2>2, <2>3 DEF Follows
<1>4. CASE OpenStore
  BY <1>4 DEF OpenStore, Follows
<1>5. CASE Tick
  <2>1. running /\ UNCHANGED taskVars
    BY <1>5 DEF Tick
  <2>2. now \in Nat /\ now' \in Nat /\ now' >= now /\ tasksFile[k] \in TaskEntries
    BY <1>5, StoreAssumption DEF Tick, TypeOK
  <2>3. Follows(tasksFile[k], tasks[k], now)
    BY <2>1 DEF TasksFileIsPast
  <2>4. Follows(tasksFile[k], tasks[k], now')
    BY <2>2, <2>3, FollowsLater
  <2> QED BY <2>1, <2>4 DEF taskVars
<1>6. ASSUME NEW env \in FactEnvelopes, NEW written \in BOOLEAN, ApplyFact(env, written)
      PROVE  Follows(tasksFile'[k], tasks'[k], now')
  BY <1>1, <1>6 DEF ApplyFact
<1>7. ASSUME NEW ref \in Refs, NEW payload, NEW written \in BOOLEAN,
             UpsertPayload(ref, payload, written)
      PROVE  Follows(tasksFile'[k], tasks'[k], now')
  BY <1>1, <1>7 DEF UpsertPayload
<1>8. CASE UNCHANGED vars
  BY <1>1, <1>8 DEF vars
<1>9. CASE Stop
  BY <1>9 DEF Stop
<1> QED BY <1>2, <1>3, <1>4, <1>5, <1>6, <1>7, <1>8, <1>9 DEF Next

\* A failed write leaves the memory of the tasks ahead of tasks.json: what the
\* file says is a past state of what the memory says.
THEOREM MemoryAheadOfFile == Spec => []TasksFileIsPast
<1>1. Init => TasksFileIsPast
  BY DEF Init, TasksFileIsPast
<1> QED BY <1>1, TypeCorrect, TasksFileIsPastInductive, PTL DEF Spec

\* Each step of the store is a step of the ledger, or leaves it alone.
LEMMA StepIsLedgerStep == TypeOK /\ TypeOK' /\ TasksFileIsPast /\ [Next]_vars => [Ledger!Next]_(Ledger!vars)
<1> SUFFICES ASSUME TypeOK, TypeOK', TasksFileIsPast, [Next]_vars
             PROVE  Ledger!Next \/ UNCHANGED Ledger!vars
  OBVIOUS
<1>1. \A a, b, t : Follows(a, b, t) <=> Ledger!Follows(a, b, t)
  BY DEF Follows, Closed, Lapsed, Present, ExpiredTask,
         Ledger!Follows, Ledger!Closed, Ledger!Lapsed, Ledger!Present, Ledger!ExpiredTask
<1>2. ASSUME \A k \in TaskKeys : Follows(tasksFile[k], tasks'[k], now),
             tasksFile' = tasks' \/ tasksFile' = tasksFile, now' = now
      PROVE  Ledger!Next \/ UNCHANGED Ledger!vars
  <2>1. CASE tasksFile' = tasks'
    <3>1. \A k \in TaskKeys : Ledger!Follows(tasksFile[k], tasksFile'[k], now)
      BY <1>1, <1>2, <2>1
    <3>2. tasksFile' \in [TaskKeys -> TaskEntries]
      BY DEF TypeOK
    <3> QED BY <1>2, <3>1, <3>2 DEF Ledger!Next, Ledger!Record
  <2>2. CASE tasksFile' = tasksFile
    BY <1>2, <2>2 DEF Ledger!vars
  <2> QED BY <1>2, <2>1, <2>2
<1>3. ASSUME NEW env \in TaskEnvelopes, NEW written \in BOOLEAN, ApplyTask(env, written)
      PROVE  Ledger!Next \/ UNCHANGED Ledger!vars
  <2>1. \A k \in TaskKeys : Follows(tasksFile[k], tasks'[k], now)
    BY <1>3, ApplyFollows
  <2> QED BY <1>2, <1>3, <2>1 DEF ApplyTask
<1>4. ASSUME NEW broken \in SUBSET Files, GCExpired(broken)
      PROVE  Ledger!Next \/ UNCHANGED Ledger!vars
  <2>1. running /\ now' = now /\ GCTasks(broken)
    BY <1>4 DEF GCExpired
  <2>2. \A k \in TaskKeys : Follows(tasksFile[k], tasks'[k], now)
    BY <2>1, SweepFollows
  <2> QED BY <1>2, <2>1, <2>2 DEF GCTasks
<1>5. ASSUME NEW env \in FactEnvelopes, NEW written \in BOOLEAN, ApplyFact(env, written)
      PROVE  UNCHANGED Ledger!vars
  BY <1>5 DEF ApplyFact, taskVars, Ledger!vars
<1>6. ASSUME NEW ref \in Refs, NEW payload, NEW written \in BOOLEAN,
             UpsertPayload(ref, payload, written)
      PROVE  UNCHANGED Ledger!vars
  BY <1>6 DEF UpsertPayload, taskVars, Ledger!vars
<1>7. CASE Stop \/ OpenStore
  BY <1>7 DEF Stop, OpenStore, Ledger!vars
<1>8. CASE Tick
  BY <1>8 DEF Tick, taskVars, Ledger!Next, Ledger!Tick
<1>9. CASE UNCHANGED vars
  BY <1>9 DEF vars, taskVars, Ledger!vars
<1> QED BY <1>3, <1>4, <1>5, <1>6, <1>7, <1>8, <1>9 DEF Next

\* The tasks on disk are a ledger: never rolled back, and closed until their
\* deadline once closed, across failed writes, sweeps and restarts.
THEOREM ImplementsLedger == Spec => DiskIsLedger
<1>1. Init => Ledger!Init
  BY DEF Init, EmptyTasks, NoTask, Ledger!Init, Ledger!NoTask
<1> QED BY <1>1, TypeCorrect, MemoryAheadOfFile, StepIsLedgerStep, PTL DEF Spec, DiskIsLedger, Ledger!Spec

(***************************************************************************)
(* The facts.  GCExpired deletes the entry ApplyFact compares with, so     *)
(* FactFollows does not compose by itself: a deleted younger fact must     *)
(* have outlived the older one in the file.  Hence the deadlines that do   *)
(* not shrink, and the invariant that every entry came in an envelope.     *)
(***************************************************************************)
CameIn(k, fact) == fact = NoFact \/ \E env \in FactEnvelopes : env.key = k /\ fact = FactFrom(env)

FactsReceived == \A k \in FactKeys : CameIn(k, facts[k]) /\ CameIn(k, factsFile[k])

LEMMA FactsReceivedInductive == TypeOK /\ FactsReceived /\ [Next]_vars => FactsReceived'
<1> SUFFICES ASSUME TypeOK, FactsReceived, [Next]_vars, NEW k \in FactKeys
             PROVE  CameIn(k, facts'[k]) /\ CameIn(k, factsFile'[k])
  BY DEF FactsReceived, CameIn
<1>0. CameIn(k, facts[k]) /\ CameIn(k, factsFile[k])
  BY DEF FactsReceived
<1>1. ASSUME NEW env \in FactEnvelopes, NEW written \in BOOLEAN, ApplyFact(env, written)
      PROVE  CameIn(k, facts'[k]) /\ CameIn(k, factsFile'[k])
  <2>1. CameIn(k, facts'[k])
    BY <1>0, <1>1 DEF ApplyFact, FactsWith, TypeOK, CameIn
  <2> QED BY <1>0, <1>1, <2>1 DEF ApplyFact
<1>2. ASSUME NEW broken \in SUBSET Files, GCExpired(broken)
      PROVE  CameIn(k, facts'[k]) /\ CameIn(k, factsFile'[k])
  <2>1. CASE UNCHANGED factVars
    BY <1>0, <2>1 DEF factVars
  <2>2. CASE GCFacts(broken)
    <3>1. facts'[k] = NoFact \/ facts'[k] = facts[k]
      BY <2>2 DEF GCFacts, SweptFacts, SweptFact, TypeOK
    <3>2. CameIn(k, facts'[k])
      BY <1>0, <3>1 DEF CameIn
    <3> QED BY <1>0, <2>2, <3>2 DEF GCFacts
  <2> QED BY <1>2, <2>1, <2>2 DEF GCExpired
<1>3. CASE Stop
  BY <1>0, <1>3 DEF Stop, EmptyFacts, CameIn
<1>4. CASE OpenStore
  BY <1>0, <1>4 DEF OpenStore
<1>5. ASSUME UNCHANGED factVars
      PROVE  CameIn(k, facts'[k]) /\ CameIn(k, factsFile'[k])
  BY <1>0, <1>5 DEF factVars
<1> QED BY <1>1, <1>2, <1>3, <1>4, <1>5 DEF Next, ApplyTask, UpsertPayload, Tick, vars

LEMMA FactFollowsApply ==
  ASSUME NEW a \in FactEntries, NEW b \in FactEntries, NEW env \in FactEnvelopes,
         NEW t \in Nat, FactFollows(a, b, t), AcceptsFact(b, env, t)
  PROVE  FactFollows(a, FactFrom(env), t)
<1>1. a.seq \in Nat /\ b.seq \in Nat /\ env.seq \in Nat /\ FactFrom(env).seq = env.seq
  BY StoreAssumption DEF FactEntries, FactFrom
<1> QED BY <1>1 DEF FactFollows, AcceptsFact

LEMMA FactFollowsSweep ==
  ASSUME SteadyDeadlines, NEW k, NEW a \in FactEntries, NEW b \in FactEntries, NEW t \in Nat,
         CameIn(k, a), CameIn(k, b), FactFollows(a, b, t)
  PROVE  FactFollows(a, SweptFact(b, t), t)
<1>1. CASE ~ Lapsed(b, t)
  BY <1>1 DEF SweptFact
<1>2. CASE Lapsed(b, t) /\ b = a
  BY <1>2 DEF FactFollows
<1>3. CASE Lapsed(a, t)
  BY <1>3 DEF FactFollows
<1>4. CASE Lapsed(b, t) /\ b.seq > a.seq
  <2>1. CASE a = NoFact
    BY <1>4, <2>1 DEF SweptFact, FactFollows
  <2>2. CASE a # NoFact
    <3>1. PICK e \in FactEnvelopes : e.key = k /\ a = FactFrom(e)
      BY <2>2 DEF CameIn
    <3>2. b # NoFact
      BY <1>4 DEF Lapsed, Present, NoFact
    <3>3. PICK f \in FactEnvelopes : f.key = k /\ b = FactFrom(f)
      BY <3>2 DEF CameIn
    <3>4. /\ a.seq = e.seq /\ a.exp = e.exp /\ b.seq = f.seq /\ b.exp = f.exp
          /\ e.seq \in Nat \ {0} /\ e.exp \in Nat /\ f.exp \in Nat /\ f.seq \in Nat
      BY <3>1, <3>3, StoreAssumption DEF FactFrom
    <3>5. e.exp <= f.exp
      BY <1>4, <3>1, <3>3, <3>4 DEF SteadyDeadlines
    <3> QED BY <1>4, <3>4, <3>5 DEF Lapsed, Present, FactFollows
  <2> QED BY <2>1, <2>2
<1> QED BY <1>1, <1>2, <1>3, <1>4 DEF FactFollows

\* Whatever a step does to a running node's facts, the file was in their past.
LEMMA FactsStepFollows ==
  ASSUME TypeOK, FactsReceived, FactsFileIsPast, SteadyDeadlines, running, NEW k \in FactKeys,
         \/ \E env \in FactEnvelopes : /\ AcceptsFact(facts[env.key], env, now)
                                       /\ facts' = FactsWith(facts, env)
         \/ facts' = SweptFacts(facts, now)
  PROVE  FactFollows(factsFile[k], facts'[k], now)
<1>1. /\ now \in Nat /\ facts[k] \in FactEntries /\ factsFile[k] \in FactEntries
      /\ FactFollows(factsFile[k], facts[k], now)
  BY StoreAssumption DEF TypeOK, FactsFileIsPast
<1>2. ASSUME NEW env \in FactEnvelopes, AcceptsFact(facts[env.key], env, now),
             facts' = FactsWith(facts, env)
      PROVE  FactFollows(factsFile[k], facts'[k], now)
  <2>1. CASE k = env.key
    <3>1. facts'[k] = FactFrom(env)
      BY <1>2, <2>1 DEF FactsWith, TypeOK
    <3> QED BY <1>1, <1>2, <2>1, <3>1, FactFollowsApply
  <2>2. CASE k # env.key
    BY <1>1, <1>2, <2>2 DEF FactsWith, TypeOK
  <2> QED BY <2>1, <2>2
<1>3. CASE facts' = SweptFacts(facts, now)
  <2>1. facts'[k] = SweptFact(facts[k], now)
    BY <1>3 DEF SweptFacts, TypeOK
  <2>2. CameIn(k, facts[k]) /\ CameIn(k, factsFile[k])
    BY DEF FactsReceived
  <2> QED BY <1>1, <2>1, <2>2, FactFollowsSweep
<1> QED BY <1>2, <1>3

\* What one step does to facts and factsFile.
LEMMA FactsStep ==
  ASSUME [Next]_vars
  PROVE  \/ UNCHANGED factVars /\ UNCHANGED running
         \/ /\ running /\ now' = now /\ UNCHANGED running
            /\ factsFile' = facts' \/ factsFile' = factsFile
            /\ \/ \E env \in FactEnvelopes : /\ AcceptsFact(facts[env.key], env, now)
                                             /\ facts' = FactsWith(facts, env)
               \/ facts' = SweptFacts(facts, now)
         \/ ~ running' /\ UNCHANGED factsFile
         \/ facts' = factsFile /\ UNCHANGED factsFile
<1>1. ASSUME NEW env \in FactEnvelopes, NEW written \in BOOLEAN, ApplyFact(env, written)
      PROVE  /\ running /\ now' = now /\ UNCHANGED running
             /\ factsFile' = facts' \/ factsFile' = factsFile
             /\ AcceptsFact(facts[env.key], env, now) /\ facts' = FactsWith(facts, env)
  BY <1>1 DEF ApplyFact
<1>2. ASSUME NEW broken \in SUBSET Files, GCExpired(broken)
      PROVE  /\ running /\ now' = now /\ UNCHANGED running
             /\ \/ UNCHANGED factVars
                \/ /\ factsFile' = facts' \/ factsFile' = factsFile
                   /\ facts' = SweptFacts(facts, now)
  BY <1>2 DEF GCExpired, GCFacts
<1>3. CASE Stop
  BY <1>3 DEF Stop
<1>4. CASE OpenStore
  BY <1>4 DEF OpenStore
<1>5. CASE Tick
  BY <1>5 DEF Tick
<1>6. ASSUME NEW env \in TaskEnvelopes, NEW written \in BOOLEAN, ApplyTask(env, written)
      PROVE  UNCHANGED factVars /\ UNCHANGED running
  BY <1>6 DEF ApplyTask
<1>7. ASSUME NEW ref, NEW payload, NEW written, UpsertPayload(ref, payload, written)
      PROVE  UNCHANGED factVars /\ UNCHANGED running
  BY <1>7 DEF UpsertPayload
<1>8. CASE UNCHANGED vars
  BY <1>8 DEF vars
<1> QED BY <1>1, <1>2, <1>3, <1>4, <1>5, <1>6, <1>7, <1>8 DEF Next

LEMMA FactsFileIsPastInductive ==
  TypeOK /\ TypeOK' /\ FactsReceived /\ FactsFileIsPast /\ [Next]_vars => FactsFileIsPast'
<1> SUFFICES ASSUME TypeOK, TypeOK', FactsReceived, FactsFileIsPast, [Next]_vars,
                    SteadyDeadlines, running', NEW k \in FactKeys
             PROVE  FactFollows(factsFile'[k], facts'[k], now')
  BY DEF FactsFileIsPast, SteadyDeadlines
<1>1. now \in Nat /\ now' \in Nat /\ now' >= now /\ factsFile[k].exp \in Nat
  <2>1. now' = now \/ now' = now + 1
    BY DEF Next, ApplyTask, ApplyFact, UpsertPayload, GCExpired, Stop, OpenStore, Tick, vars
  <2> QED BY <2>1, StoreAssumption DEF TypeOK, FactEntries
<1>2. CASE UNCHANGED factVars /\ UNCHANGED running
  <2>1. FactFollows(factsFile[k], facts[k], now)
    BY <1>2 DEF FactsFileIsPast
  <2>2. FactFollows(factsFile[k], facts[k], now')
    BY <1>1, <2>1 DEF FactFollows, Lapsed
  <2> QED BY <1>2, <2>2 DEF factVars
<1>3. CASE /\ running /\ now' = now
           /\ factsFile' = facts' \/ factsFile' = factsFile
           /\ \/ \E env \in FactEnvelopes : /\ AcceptsFact(facts[env.key], env, now)
                                            /\ facts' = FactsWith(facts, env)
              \/ facts' = SweptFacts(facts, now)
  <2>1. FactFollows(factsFile[k], facts'[k], now)
    BY <1>3, FactsStepFollows
  <2> QED BY <1>3, <2>1 DEF FactFollows
<1>4. CASE facts' = factsFile /\ UNCHANGED factsFile
  BY <1>4 DEF FactFollows
<1> QED BY <1>2, <1>3, <1>4, FactsStep

\* facts.json is in the past of the memory, for steady deadlines.
THEOREM FactsMemoryAheadOfFile == Spec => []FactsFileIsPast
<1>1. Init => FactsReceived /\ FactsFileIsPast
  BY DEF Init, EmptyFacts, FactsReceived, CameIn, FactsFileIsPast
<1> QED BY <1>1, TypeCorrect, FactsReceivedInductive, FactsFileIsPastInductive, PTL DEF Spec

\* The fact on disk never gives way to an older one before it lapses, for steady
\* deadlines.
THEOREM FactsAdvance == Spec => FactsOnDiskAdvance
<1> DEFINE Advance == SteadyDeadlines => \A k \in FactKeys : FactFollows(factsFile[k], factsFile'[k], now)
<1>1. Init => FactsReceived
  BY DEF Init, EmptyFacts, FactsReceived, CameIn
<1>2. TypeOK /\ FactsReceived /\ FactsFileIsPast /\ [Next]_vars => Advance
  <2> SUFFICES ASSUME TypeOK, FactsReceived, FactsFileIsPast, [Next]_vars, SteadyDeadlines,
                      NEW k \in FactKeys
               PROVE  FactFollows(factsFile[k], factsFile'[k], now)
    OBVIOUS
  <2>1. CASE UNCHANGED factsFile
    BY <2>1 DEF FactFollows
  <2>2. CASE /\ running
             /\ factsFile' = facts' \/ factsFile' = factsFile
             /\ \/ \E env \in FactEnvelopes : /\ AcceptsFact(facts[env.key], env, now)
                                              /\ facts' = FactsWith(facts, env)
                \/ facts' = SweptFacts(facts, now)
    <3>1. FactFollows(factsFile[k], facts'[k], now)
      BY <2>2, FactsStepFollows
    <3> QED BY <2>1, <2>2, <3>1
  <2> QED BY <2>1, <2>2, FactsStep DEF factVars
<1>3. TypeOK /\ FactsReceived /\ FactsFileIsPast /\ [Next]_vars => [Advance]_vars
  BY <1>2
<1> HIDE DEF Advance
<1>4. Spec => [][Advance]_vars
  BY <1>1, <1>3, TypeCorrect, FactsMemoryAheadOfFile, FactsReceivedInductive, PTL DEF Spec
<1> QED BY <1>4 DEF FactsOnDiskAdvance, Advance
=============================================================================
