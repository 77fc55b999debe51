--------------------------- MODULE InboundProofs ---------------------------
(***************************************************************************)
(* What module Inbound promises, for any loops, envelopes and limits.  A   *)
(* step of Inbound is a step of the store or leaves it alone, so that the  *)
(* invariants of StoreProofs hold here as well.                            *)
(***************************************************************************)
EXTENDS Inbound, StoreProofs, FiniteSetTheorems

\* A received envelope is of the table that its key belongs to.
LEMMA Envelopes ==
  ASSUME NEW env \in Received
  PROVE  /\ env.key \in TaskKeys => env \in TaskEnvelopes
         /\ env.key \notin TaskKeys => env \in FactEnvelopes /\ env.key \in FactKeys
         /\ env.seq \in Nat \ {0} /\ env.exp \in Nat
<1>1. env \in TaskEnvelopes \/ env \in FactEnvelopes
  BY InboundAssumption DEF Received
<1>2. env \in TaskEnvelopes => env.key \in TaskKeys /\ env.seq \in Nat \ {0} /\ env.exp \in Nat
  BY StoreAssumption DEF TaskEnvelopes
<1>3. env \in FactEnvelopes => env.key \in FactKeys /\ env.seq \in Nat \ {0} /\ env.exp \in Nat
  BY StoreAssumption
<1> QED BY <1>1, <1>2, <1>3, InboundAssumption

\* Every step is one of the store or leaves it alone.
LEMMA StoreStep ==
  ASSUME InboundTypeOK, [InboundNext]_allVars
  PROVE  [Next]_vars
<1>1. ASSUME NEW l \in Loops, NEW written \in BOOLEAN, Handle(l, written)
      PROVE  [Next]_vars
  <2>1. held[l].env \in Received
    BY <1>1, InboundAssumption DEF Handle, InboundTypeOK, Idle
  <2>2. CASE Apply(held[l].env, written)
    BY <2>1, <2>2, Envelopes DEF Apply, Next
  <2> QED BY <1>1, <2>2 DEF Handle
<1>2. ASSUME Background PROVE Next
  BY <1>2 DEF Background, Next
<1>3. ASSUME StopAll PROVE Next
  BY <1>3 DEF StopAll, Next
<1> QED BY <1>1, <1>2, <1>3 DEF InboundNext, Take, LogEvent, allVars

(***************************************************************************)
(* Type correctness.                                                       *)
(***************************************************************************)
LEMMA InboundTypeInductive == InboundTypeOK /\ [InboundNext]_allVars => InboundTypeOK'
<1> SUFFICES ASSUME InboundTypeOK, [InboundNext]_allVars PROVE InboundTypeOK'
  OBVIOUS
<1>1. TypeOK'
  BY StoreStep, TypeInductive DEF InboundTypeOK
<1> USE DEF InboundTypeOK
<1>2. ASSUME NEW l \in Loops, NEW env \in Received, Take(l, env) PROVE InboundTypeOK'
  <2>1. rate' \in [start: 0 .. MaxTime, count: Nat]
    BY <1>2 DEF Take, Counts, Counted, TypeOK
  <2>2. Admitted(env) => env \in Conforming
    BY DEF Admitted
  <2> QED BY <1>1, <1>2, <2>1, <2>2 DEF Take
<1>3. ASSUME NEW l \in Loops, NEW written \in BOOLEAN, Handle(l, written) PROVE InboundTypeOK'
  <2>1. held[l].env \in Received
    BY <1>3, InboundAssumption DEF Handle, Idle
  <2> QED BY <1>1, <1>3, <2>1 DEF Handle
<1>4. ASSUME NEW l \in Loops, NEW appended \in BOOLEAN, LogEvent(l, appended) PROVE InboundTypeOK'
  <2>1. held[l] \in [pc: {"log"}, env: Received, outcome: {"applied", "refused", "rejected"}]
    BY <1>4 DEF LogEvent, Idle
  <2> QED BY <1>1, <1>4, <2>1 DEF LogEvent
<1>5. CASE StopAll
  <2>1. Arrivals \in [Loops -> SUBSET Received]
    <3>1. \A l \in Loops : Arrivals[l] \subseteq Received
      BY DEF Received
    <3> QED BY <3>1, InboundAssumption
  <2> QED BY <1>1, <1>5, <2>1, StoreAssumption, InboundAssumption DEF StopAll, NoRate
<1>6. CASE UNCHANGED inVars
  BY <1>1, <1>6 DEF inVars
<1> QED BY <1>2, <1>3, <1>4, <1>5, <1>6 DEF InboundNext, Background, allVars

\* Every reachable state of the read loops, the log and the rate is well typed.
THEOREM InboundTypeCorrect == InboundSpec => []InboundTypeOK
<1>1. InboundInit => InboundTypeOK
  <2>1. Init => TypeOK
    <3>1. 0 \in 0 .. MaxTime
      BY StoreAssumption
    <3> QED BY <3>1, TaskEntryTypes, FactEntryTypes, PayloadEntryTypes
        DEF Init, TypeOK, EmptyTasks, EmptyFacts, EmptyPayloads
  <2>2. Arrivals \in [Loops -> SUBSET Received]
    <3>1. \A l \in Loops : Arrivals[l] \subseteq Received
      BY DEF Received
    <3> QED BY <3>1, InboundAssumption
  <2> QED BY <2>1, <2>2, StoreAssumption, InboundAssumption DEF InboundInit, InboundTypeOK, NoRate
<1> QED BY <1>1, InboundTypeInductive, PTL DEF InboundSpec

(***************************************************************************)
(* The log and the tables.  What was applied stays in the table, or is     *)
(* outdated there, until its deadline, in spite of the sweep: this needs   *)
(* the deadlines of a fact not to shrink from one version to the next, as  *)
(* the sweep deletes the number of the last version.                       *)
(***************************************************************************)
InTable(env) ==
  \/ env.key \in TaskKeys /\ tasks[env.key].seq >= env.seq
  \/ /\ env.key \in FactKeys
     /\ facts[env.key] = FactFrom(env) \/ facts[env.key].seq > env.seq \/ now > env.exp

IsApplied(l) == held[l].pc = "log" /\ held[l].outcome = "applied"

LogAgrees ==
  /\ \A x \in log : x.life <= life /\ (x.life = life => running)
  /\ \A l \in Loops : held[l] # Idle => running
  /\ \A l \in Loops : IsApplied(l) => InTable(held[l].env)
  /\ \A x \in log : x.life = life /\ x.outcome = "applied" => InTable(x.env)

\* A task in the table of a running node never goes back.
LEMMA TaskStays ==
  ASSUME TypeOK, [Next]_vars, running, running', NEW k \in TaskKeys
  PROVE  tasks'[k].seq >= tasks[k].seq
<1>1. tasks[k] \in TaskEntries /\ tasks[k].seq \in Nat
  BY StoreAssumption DEF TypeOK, TaskEntries
<1>2. ASSUME NEW env \in TaskEnvelopes, NEW written \in BOOLEAN, ApplyTask(env, written)
      PROVE  tasks'[k].seq >= tasks[k].seq
  <2>1. env.seq > tasks[env.key].seq
    BY <1>2 DEF ApplyTask, AcceptsTask
  <2>2. tasks'[k] = IF k = env.key THEN TaskFrom(env) ELSE tasks[k]
    BY <1>2 DEF ApplyTask, TasksWith, TypeOK
  <2>3. env.seq \in Nat /\ TaskFrom(env).seq = env.seq
    BY StoreAssumption DEF TaskEnvelopes, TaskFrom
  <2> QED BY <1>1, <2>1, <2>2, <2>3
<1>3. ASSUME NEW broken \in SUBSET Files, GCExpired(broken)
      PROVE  tasks'[k].seq >= tasks[k].seq
  <2>1. tasks'[k] = SweptTask(tasks[k], now)
    BY <1>3 DEF GCExpired, GCTasks, SweptTasks, TypeOK
  <2>2. SweptTask(tasks[k], now).seq = tasks[k].seq
    BY <1>1 DEF SweptTask, ExpiredTask, TaskEntries
  <2> QED BY <1>1, <2>1, <2>2
<1>4. CASE UNCHANGED taskVars
  BY <1>1, <1>4 DEF taskVars
<1> QED BY <1>2, <1>3, <1>4 DEF Next, ApplyFact, UpsertPayload, Stop, OpenStore, Tick, vars

\* What was applied stays in the table of a running node, or is outdated there.
LEMMA AppliedStays ==
  ASSUME TypeOK, FactsReceived, SteadyDeadlines, [Next]_vars, running, running',
         NEW env \in Received, InTable(env)
  PROVE  InTable(env)'
<1>1. env.seq \in Nat /\ env.exp \in Nat
  BY Envelopes
<1>2. CASE env.key \in TaskKeys
  <2>1. env.key \notin FactKeys /\ tasks[env.key].seq >= env.seq
    BY <1>2, InboundAssumption DEF InTable
  <2>2. tasks'[env.key].seq >= tasks[env.key].seq
    BY <1>2, TaskStays
  <2>3. tasks[env.key].seq \in Nat /\ (TypeOK' => tasks'[env.key].seq \in Nat)
    BY <1>2, StoreAssumption DEF TypeOK, TaskEntries
  <2> QED BY <1>1, <1>2, <2>1, <2>2, <2>3, TypeInductive DEF InTable
<1>3. CASE env.key \notin TaskKeys
  <2> DEFINE k == env.key
  <2>1. k \in FactKeys /\ env \in FactEnvelopes
    BY <1>3, Envelopes
  <2>2. facts[k] = FactFrom(env) \/ facts[k].seq > env.seq \/ now > env.exp
    BY <1>3 DEF InTable
  <2>3. /\ facts[k].seq \in Nat /\ facts[k].exp \in Nat
        /\ now \in Nat /\ now' \in Nat /\ now' >= now
    <3>1. TypeOK'
      BY TypeInductive
    <3>2. now' >= now
      BY StoreAssumption DEF TypeOK, Next, ApplyTask, ApplyFact, UpsertPayload, GCExpired, Stop, OpenStore,
                             Tick, vars
    <3> QED BY <2>1, <3>1, <3>2, StoreAssumption DEF TypeOK, FactEntries
  <2>4. CASE now > env.exp
    BY <1>1, <2>1, <2>3, <2>4 DEF InTable
  <2>5. ASSUME NEW f \in FactEnvelopes, AcceptsFact(facts[f.key], f, now), facts' = FactsWith(facts, f)
        PROVE  InTable(env)'
    <3>1. CASE f.key # k
      BY <2>1, <2>2, <2>4, <2>5, <3>1 DEF InTable, FactsWith, TypeOK
    <3>2. CASE f.key = k
      <4>1. facts'[k].seq = f.seq /\ f.seq > facts[k].seq /\ f.seq \in Nat
        BY <2>1, <2>5, <3>2, StoreAssumption DEF FactsWith, FactFrom, AcceptsFact, TypeOK
      <4>2. facts[k].seq >= env.seq \/ now > env.exp
        BY <1>1, <2>2, <2>3 DEF FactFrom
      <4>3. facts'[k].seq > env.seq \/ now > env.exp
        BY <1>1, <2>3, <4>1, <4>2
      <4> QED BY <2>1, <2>4, <4>3 DEF InTable
    <3> QED BY <3>1, <3>2
  <2>6. CASE facts' = SweptFacts(facts, now)
    <3>1. facts'[k] = facts[k] \/ Lapsed(facts[k], now)
      BY <2>1, <2>6 DEF SweptFacts, SweptFact, TypeOK
    <3>2. CASE facts'[k] = facts[k]
      BY <2>1, <2>2, <2>4, <3>2 DEF InTable
    <3>3. CASE Lapsed(facts[k], now)
      <4>1. PICK f \in FactEnvelopes : f.key = k /\ facts[k] = FactFrom(f)
        BY <2>1, <3>3 DEF FactsReceived, CameIn, Lapsed, Present, NoFact
      <4>2. facts[k].seq = f.seq /\ facts[k].exp = f.exp /\ now > f.exp
        BY <3>3, <4>1 DEF FactFrom, Lapsed
      <4>3. f.exp >= env.exp \/ now > env.exp
        BY <1>1, <2>1, <2>2, <2>3, <4>1, <4>2 DEF SteadyDeadlines, FactFrom
      <4> QED BY <1>1, <2>3, <2>4, <4>2, <4>3
    <3> QED BY <3>1, <3>2, <3>3
  <2>7. CASE UNCHANGED factVars
    BY <2>1, <2>2, <2>4, <2>7 DEF InTable, factVars
  <2> QED BY <2>5, <2>6, <2>7, FactsStep DEF Next, Stop, OpenStore, ApplyTask, ApplyFact, UpsertPayload,
                                            GCExpired, GCFacts, Tick, vars
<1> QED BY <1>2, <1>3

\* The same, at a step that may be any of Inbound's but the end of the process.
LEMMA StaysInTable ==
  ASSUME InboundTypeOK, FactsReceived, SteadyDeadlines, [InboundNext]_allVars, running, running',
         NEW env \in Received, InTable(env)
  PROVE  InTable(env)'
  BY StoreStep, AppliedStays DEF InboundTypeOK

\* What ApplyTask or ApplyFact has just applied is in the table.
LEMMA ApplyPutsIn ==
  ASSUME TypeOK, NEW env \in Received, NEW written \in BOOLEAN, Apply(env, written)
  PROVE  InTable(env)' /\ running /\ running' /\ Accepted(env)
<1>1. CASE env.key \in TaskKeys
  <2>1. ApplyTask(env, written)
    BY <1>1 DEF Apply
  <2>2. tasks'[env.key] = TaskFrom(env)
    BY <1>1, <2>1 DEF ApplyTask, TasksWith, TypeOK
  <2>3. tasks'[env.key].seq = env.seq /\ env.seq \in Nat
    BY <2>2, Envelopes DEF TaskFrom
  <2> QED BY <1>1, <2>1, <2>3 DEF ApplyTask, InTable, Accepted
<1>2. CASE env.key \notin TaskKeys
  <2>1. ApplyFact(env, written) /\ env.key \in FactKeys
    BY <1>2, Envelopes DEF Apply
  <2>2. facts'[env.key] = FactFrom(env)
    BY <2>1 DEF ApplyFact, FactsWith, TypeOK
  <2> QED BY <1>2, <2>1, <2>2 DEF ApplyFact, InTable, Accepted
<1> QED BY <1>1, <1>2

\* What is in the table is not accepted once more.
LEMMA InTableIsRefused ==
  ASSUME TypeOK, NEW env \in Received, InTable(env)
  PROVE  ~ Accepted(env)
<1>1. /\ env.seq \in Nat /\ env.exp \in Nat /\ now \in Nat
      /\ env.key \in TaskKeys => tasks[env.key].seq \in Nat
      /\ env.key \in FactKeys => facts[env.key].seq \in Nat
  BY Envelopes, StoreAssumption DEF TypeOK, TaskEntries, FactEntries
<1>2. CASE env.key \in TaskKeys
  BY <1>1, <1>2, InboundAssumption DEF InTable, Accepted, AcceptsTask
<1>3. CASE env.key \notin TaskKeys
  BY <1>1, <1>3 DEF InTable, Accepted, AcceptsFact, FactFrom
<1> QED BY <1>2, <1>3

\* The steps of a loop leave the store running, as does everything that only the
\* store does while it runs.
LEMMA LogAgreesInductive ==
  SteadyDeadlines /\ InboundTypeOK /\ FactsReceived /\ LogAgrees /\ [InboundNext]_allVars => LogAgrees'
<1> SUFFICES ASSUME SteadyDeadlines, InboundTypeOK, FactsReceived, LogAgrees, [InboundNext]_allVars
             PROVE  LogAgrees'
  OBVIOUS
<1>0. /\ life \in Nat
      /\ \A l \in Loops : IsApplied(l) => held[l].env \in Received
      /\ \A x \in log : x.env \in Received /\ x.life \in Nat
  BY InboundAssumption DEF InboundTypeOK, IsApplied, Idle
<1>1. ASSUME NEW l \in Loops, NEW env \in Received, Take(l, env) PROVE LogAgrees'
  <2>1. UNCHANGED vars /\ UNCHANGED <<log, life>> /\ running
    BY <1>1 DEF Take
  <2>2. ASSUME NEW m \in Loops PROVE IsApplied(m)' => IsApplied(m) /\ held'[m] = held[m]
    BY <1>1 DEF Take, IsApplied, InboundTypeOK
  <2> QED BY <2>1, <2>2 DEF LogAgrees, InTable, vars, taskVars, factVars
<1>2. ASSUME NEW l \in Loops, NEW written \in BOOLEAN, Handle(l, written) PROVE LogAgrees'
  <2>1. running /\ held[l].env \in Received /\ UNCHANGED <<log, life>>
    BY <1>2, InboundAssumption DEF Handle, LogAgrees, InboundTypeOK, Idle
  <2>2. running' /\ (IsApplied(l)' => InTable(held[l].env)')
    <3>1. CASE Apply(held[l].env, written)
      <4>1. held'[l].env = held[l].env
        BY <1>2 DEF Handle, InboundTypeOK
      <4>2. PICK env \in Received : env = held[l].env
        BY <2>1
      <4>3. InTable(env)' /\ running'
        BY <3>1, <4>2, ApplyPutsIn DEF InboundTypeOK
      <4> QED BY <4>1, <4>2, <4>3 DEF InTable
    <3>2. ASSUME ~ Apply(held[l].env, written) PROVE UNCHANGED vars /\ ~ IsApplied(l)'
      BY <1>2, <3>2 DEF Handle, IsApplied, InboundTypeOK
    <3> QED BY <2>1, <3>1, <3>2 DEF vars
  <2>3. held'[l].env = held[l].env /\ \A m \in Loops \ {l} : held'[m] = held[m]
    BY <1>2 DEF Handle, InboundTypeOK
  <2>4. \A env \in Received : InTable(env) => InTable(env)'
    BY <2>1, <2>2, StaysInTable
  <2>5. ASSUME NEW m \in Loops, IsApplied(m)' PROVE InTable(held[m].env)' /\ held'[m].env = held[m].env
    BY <1>0, <2>2, <2>3, <2>4, <2>5 DEF LogAgrees, IsApplied
  <2> QED BY <1>0, <2>1, <2>2, <2>4, <2>5 DEF LogAgrees, InTable
<1>3. ASSUME NEW l \in Loops, NEW appended \in BOOLEAN, LogEvent(l, appended) PROVE LogAgrees'
  <2>1. UNCHANGED vars /\ life' = life /\ running
    BY <1>3 DEF LogEvent, LogAgrees, Idle
  <2>2. \A m \in Loops : IsApplied(m)' => IsApplied(m) /\ held'[m] = held[m]
    BY <1>3 DEF LogEvent, IsApplied, Idle, InboundTypeOK
  <2>3. ASSUME NEW x \in log', x \notin log
        PROVE  x.life = life /\ (x.outcome = "applied" => InTable(x.env))
    BY <1>3, <2>3 DEF LogEvent, LogAgrees, IsApplied
  <2> QED BY <1>0, <2>1, <2>2, <2>3 DEF LogAgrees, InTable, vars, taskVars, factVars
<1>4. CASE StopAll
  BY <1>0, <1>4 DEF StopAll, LogAgrees, IsApplied, Idle
<1>5. ASSUME UNCHANGED inVars, running, running' PROVE LogAgrees'
  <2>1. \A env \in Received : InTable(env) => InTable(env)'
    BY <1>5, StaysInTable
  <2> QED BY <1>0, <1>5, <2>1 DEF LogAgrees, InTable, inVars, IsApplied
<1>6. ASSUME UNCHANGED inVars, ~ running PROVE LogAgrees'
  BY <1>0, <1>6 DEF LogAgrees, inVars, IsApplied, Idle
<1>7. ASSUME Background PROVE UNCHANGED inVars /\ (running => running')
  BY <1>7 DEF Background, GCExpired, OpenStore, Tick
<1>8. CASE UNCHANGED allVars
  BY <1>5, <1>6, <1>8 DEF allVars, vars
<1> QED BY <1>1, <1>2, <1>3, <1>4, <1>5, <1>6, <1>7, <1>8 DEF InboundNext

LEMMA InboundReceives == InboundSpec => [](InboundTypeOK /\ FactsReceived)
<1>1. InboundInit => FactsReceived
  BY DEF InboundInit, Init, EmptyFacts, FactsReceived, CameIn
<1>2. InboundTypeOK /\ FactsReceived /\ [InboundNext]_allVars => FactsReceived'
  BY StoreStep, FactsReceivedInductive DEF InboundTypeOK
<1> QED BY <1>1, <1>2, InboundTypeCorrect, PTL DEF InboundSpec

\* In the life of a process the tables are never behind what its log says was
\* applied, in whatever order the loops log, when deadlines do not shrink.
THEOREM TableHoldsLog ==
  ASSUME SteadyDeadlines
  PROVE  InboundSpec => []TableNotBehindLog
<1>1. InboundInit => LogAgrees
  BY DEF InboundInit, LogAgrees, IsApplied, Idle
<1>2. InboundTypeOK /\ LogAgrees => TableNotBehindLog
  <2> SUFFICES ASSUME InboundTypeOK, LogAgrees, NEW x \in log, running, x.life = life, x.outcome = "applied"
               PROVE  \/ x.env.key \in TaskKeys /\ tasks[x.env.key].seq >= x.env.seq
                      \/ x.env.key \in FactKeys /\ (facts[x.env.key].seq >= x.env.seq \/ now > x.env.exp)
    BY DEF TableNotBehindLog
  <2>1. InTable(x.env) /\ x.env \in Received
    BY DEF LogAgrees, InboundTypeOK
  <2>2. x.env.seq \in Nat /\ (x.env.key \in FactKeys => facts[x.env.key].seq \in Nat)
    BY <2>1, Envelopes, StoreAssumption DEF InboundTypeOK, TypeOK, FactEntries
  <2> QED BY <2>1, <2>2 DEF InTable, FactFrom
<1>3. InboundTypeOK /\ FactsReceived /\ LogAgrees /\ [InboundNext]_allVars => LogAgrees'
  BY LogAgreesInductive
<1> QED BY <1>1, <1>2, <1>3, InboundReceives, PTL DEF InboundSpec

(***************************************************************************)
(* No envelope is applied twice in one life: when a loop applies it, no    *)
(* other loop has, or it would be in the table and refused.                *)
(***************************************************************************)
AppliedBefore(env) ==
  \/ \E l \in Loops : IsApplied(l) /\ held[l].env = env
  \/ \E x \in log : x.life = life /\ x.outcome = "applied" /\ x.env = env

Once ==
  /\ \A l, m \in Loops : IsApplied(l) /\ IsApplied(m) /\ held[l].env = held[m].env => l = m
  /\ \A l \in Loops, x \in log :
       ~ (IsApplied(l) /\ x.life = life /\ x.outcome = "applied" /\ x.env = held[l].env)
  /\ AppliedOnce

LEMMA OnceInductive == InboundTypeOK /\ LogAgrees /\ Once /\ [InboundNext]_allVars => Once'
<1> SUFFICES ASSUME InboundTypeOK, LogAgrees, Once, [InboundNext]_allVars PROVE Once'
  OBVIOUS
<1>1. ASSUME UNCHANGED <<log, life>>,
             \A m \in Loops : IsApplied(m)' => IsApplied(m) /\ held'[m] = held[m]
      PROVE  Once'
  BY <1>1 DEF Once, AppliedOnce
<1>2. ASSUME NEW l \in Loops, NEW env \in Received, Take(l, env) PROVE Once'
  <2>1. UNCHANGED <<log, life>>
    BY <1>2 DEF Take
  <2>2. \A m \in Loops : IsApplied(m)' => IsApplied(m) /\ held'[m] = held[m]
    BY <1>2 DEF Take, IsApplied, InboundTypeOK
  <2> QED BY <1>1, <2>1, <2>2
<1>3. ASSUME NEW l \in Loops, NEW written \in BOOLEAN, Handle(l, written) PROVE Once'
  <2>1. held[l].env \in Received /\ UNCHANGED <<log, life>> /\ ~ IsApplied(l)
    BY <1>3, InboundAssumption DEF Handle, InboundTypeOK, Idle, IsApplied
  <2>2. held'[l].env = held[l].env /\ \A m \in Loops \ {l} : held'[m] = held[m]
    BY <1>3 DEF Handle, InboundTypeOK
  <2>3. IsApplied(l)' => ~ AppliedBefore(held[l].env)
    <3>1. CASE Apply(held[l].env, written)
      <4>1. ~ InTable(held[l].env)
        BY <2>1, <3>1, ApplyPutsIn, InTableIsRefused DEF InboundTypeOK
      <4> QED BY <4>1 DEF AppliedBefore, LogAgrees
    <3>2. CASE ~ Apply(held[l].env, written)
      BY <1>3, <3>2 DEF Handle, IsApplied, InboundTypeOK
    <3> QED BY <3>1, <3>2
  <2> QED BY <2>1, <2>2, <2>3 DEF Once, AppliedOnce, AppliedBefore, IsApplied
<1>4. ASSUME NEW l \in Loops, NEW appended \in BOOLEAN, LogEvent(l, appended) PROVE Once'
  <2>1. life' = life /\ ~ IsApplied(l)' /\ \A m \in Loops \ {l} : held'[m] = held[m]
    BY <1>4 DEF LogEvent, InboundTypeOK, IsApplied, Idle
  <2>2. ASSUME NEW x \in log', x \notin log
        PROVE  x = [loop |-> l, life |-> life, env |-> held[l].env, outcome |-> held[l].outcome]
    BY <1>4, <2>2 DEF LogEvent
  <2>3. ASSUME NEW x \in log', x \notin log, x.outcome = "applied" PROVE IsApplied(l) /\ x.env = held[l].env
    BY <1>4, <2>2, <2>3 DEF LogEvent, IsApplied
  <2>4. \A x, y \in log' : x \notin log /\ y \notin log => x = y
    BY <2>2
  <2>5. \A x \in log' : x \notin log => x.life = life
    BY <2>2
  <2>6. AppliedOnce'
    <3> SUFFICES ASSUME NEW x \in log', NEW y \in log', x.outcome = "applied", y.outcome = "applied",
                        x.env = y.env, x.life = y.life
                 PROVE  x = y
      BY DEF AppliedOnce
    <3> QED BY <2>3, <2>4, <2>5 DEF Once, AppliedOnce
  <2>7. \A m \in Loops : IsApplied(m)' => m # l /\ IsApplied(m) /\ held'[m] = held[m]
    BY <2>1 DEF IsApplied
  <2> QED BY <2>1, <2>3, <2>6, <2>7 DEF Once
<1>5. CASE StopAll
  <2>1. \A l \in Loops : ~ IsApplied(l)'
    BY <1>5 DEF StopAll, IsApplied, Idle
  <2> QED BY <1>5, <2>1 DEF StopAll, Once, AppliedOnce
<1>6. CASE UNCHANGED inVars
  BY <1>1, <1>6 DEF inVars, IsApplied
<1> QED BY <1>2, <1>3, <1>4, <1>5, <1>6 DEF InboundNext, Background, allVars

\* An envelope that comes on several topics is applied once in the life of a
\* process, when deadlines do not shrink.
THEOREM OnceInALife ==
  ASSUME SteadyDeadlines
  PROVE  InboundSpec => []AppliedOnce
<1>1. InboundInit => LogAgrees /\ Once
  BY DEF InboundInit, LogAgrees, Once, AppliedOnce, IsApplied, Idle
<1>2. InboundTypeOK /\ FactsReceived /\ LogAgrees /\ [InboundNext]_allVars => LogAgrees'
  BY LogAgreesInductive
<1>3. Once => AppliedOnce
  BY DEF Once
<1> QED BY <1>1, <1>2, <1>3, InboundReceives, OnceInductive, PTL DEF InboundSpec

(***************************************************************************)
(* The limit.  The rate never counts more than the copies within the       *)
(* policy that were taken, so one of them is only refused when there are   *)
(* more of them than the limit.                                            *)
(***************************************************************************)
TakenCopies == {copy \in Loops \X Conforming : copy[2] \in Arrivals[copy[1]] \ waiting[copy[1]]}

OverLimit == Cardinality(TakenCopies) > Limit

IsRejected(l) == held[l].pc = "log" /\ held[l].outcome = "rejected"

RateCounts ==
  /\ \A l \in Loops : waiting[l] \subseteq Arrivals[l]
  /\ IsFiniteSet(TakenCopies)
  /\ rate.count <= Cardinality(TakenCopies)
  /\ \A l \in Loops : IsRejected(l) /\ held[l].env \in Conforming => OverLimit
  /\ \A x \in log : x.life <= life
  /\ \A x \in log : x.life = life /\ x.outcome = "rejected" /\ x.env \in Conforming => OverLimit

\* A loop that takes a copy within the policy makes them one more.
LEMMA OneMoreTaken ==
  ASSUME InboundTypeOK, RateCounts, NEW l \in Loops, NEW env \in Conforming, Take(l, env)
  PROVE  /\ IsFiniteSet(TakenCopies')
         /\ Cardinality(TakenCopies') = Cardinality(TakenCopies) + 1
<1>1. env \in waiting[l] /\ waiting[l] \subseteq Arrivals[l]
  BY DEF Take, RateCounts
<1>2. waiting' = [waiting EXCEPT ![l] = @ \ {env}] /\ waiting \in [Loops -> SUBSET Received]
  BY DEF Take, InboundTypeOK
<1>3. ASSUME NEW copy \in Loops \X Conforming
      PROVE  copy \in TakenCopies' <=> copy \in TakenCopies \/ copy = <<l, env>>
  <2>1. PICK m \in Loops, e \in Conforming : copy = <<m, e>>
    OBVIOUS
  <2>2. waiting'[m] = IF m = l THEN waiting[l] \ {env} ELSE waiting[m]
    BY <1>2
  <2>3. copy \in TakenCopies <=> e \in Arrivals[m] \ waiting[m]
    BY <2>1 DEF TakenCopies
  <2>4. copy \in TakenCopies' <=> e \in Arrivals[m] \ waiting'[m]
    BY <2>1 DEF TakenCopies
  <2> QED BY <1>1, <2>1, <2>2, <2>3, <2>4
<1>4. <<l, env>> \notin TakenCopies
  BY <1>1 DEF TakenCopies
<1>5. TakenCopies' = TakenCopies \cup {<<l, env>>}
  BY <1>3 DEF TakenCopies
<1>6. IsFiniteSet(TakenCopies)
  BY DEF RateCounts
<1> QED BY <1>4, <1>5, <1>6, FS_AddElement

\* A step that leaves the loops' input and the rate alone.
LEMMA NothingTaken ==
  ASSUME RateCounts, UNCHANGED <<waiting, rate, log, life>>,
         \A l \in Loops : IsRejected(l)' => IsRejected(l) /\ held'[l] = held[l]
  PROVE  RateCounts'
<1>1. TakenCopies' = TakenCopies
  BY DEF TakenCopies
<1> QED BY <1>1 DEF RateCounts, OverLimit

LEMMA RateCountsInductive == InboundTypeOK /\ RateCounts /\ [InboundNext]_allVars => RateCounts'
<1> SUFFICES ASSUME InboundTypeOK, RateCounts, [InboundNext]_allVars PROVE RateCounts'
  OBVIOUS
<1>0. /\ Cardinality(TakenCopies) \in Nat /\ Limit \in Nat /\ rate.count \in Nat /\ life \in Nat
      /\ \A x \in log : x.life \in Nat
  BY FS_CardinalityType, InboundAssumption DEF RateCounts, InboundTypeOK
<1>1. ASSUME NEW l \in Loops, NEW env \in Received, Take(l, env), env \in Conforming PROVE RateCounts'
  <2>1. IsFiniteSet(TakenCopies') /\ Cardinality(TakenCopies') = Cardinality(TakenCopies) + 1
    BY <1>1, OneMoreTaken
  <2>2. rate' = Counted(rate, now, Minute)
    BY <1>1 DEF Take, Counts
  <2>3. rate'.count <= rate.count + 1 /\ rate'.count \in Nat
    BY <1>0, <2>2 DEF Counted, InboundTypeOK
  <2>4. rate'.count <= Cardinality(TakenCopies')
    BY <1>0, <2>1, <2>3 DEF RateCounts
  <2>5. ~ Admitted(env) => OverLimit'
    BY <1>0, <1>1, <2>1, <2>3, <2>4 DEF Admitted, Within, OverLimit
  <2>6. OverLimit => OverLimit'
    BY <1>0, <2>1 DEF OverLimit
  <2>7. ASSUME NEW m \in Loops, IsRejected(m)', held'[m].env \in Conforming PROVE OverLimit'
    <3>1. CASE m = l
      <4>1. held'[l] = IF Admitted(env) THEN [pc |-> "apply", env |-> env]
                                        ELSE [pc |-> "log", env |-> env, outcome |-> "rejected"]
        BY <1>1 DEF Take, InboundTypeOK
      <4> QED BY <2>5, <2>7, <3>1, <4>1 DEF IsRejected
    <3>2. CASE m # l
      <4>1. held'[m] = held[m]
        BY <1>1, <3>2 DEF Take, InboundTypeOK
      <4> QED BY <2>6, <2>7, <4>1 DEF IsRejected, RateCounts
    <3> QED BY <3>1, <3>2
  <2>8. \A m \in Loops : waiting'[m] \subseteq Arrivals[m]
    BY <1>1 DEF Take, RateCounts, InboundTypeOK
  <2>9. log' = log /\ life' = life
    BY <1>1 DEF Take
  <2> QED BY <2>1, <2>4, <2>6, <2>7, <2>8, <2>9 DEF RateCounts
<1>2. ASSUME NEW l \in Loops, NEW env \in Received, Take(l, env), env \notin Conforming PROVE RateCounts'
  <2>1. rate' = rate /\ log' = log /\ life' = life /\ waiting' = [waiting EXCEPT ![l] = @ \ {env}]
    BY <1>2 DEF Take, Counts
  <2>2. TakenCopies' = TakenCopies
    <3>1. ASSUME NEW copy \in Loops \X Conforming PROVE copy \in TakenCopies' <=> copy \in TakenCopies
      <4>1. PICK m \in Loops, e \in Conforming : copy = <<m, e>>
        OBVIOUS
      <4>2. e \in waiting'[m] <=> e \in waiting[m]
        BY <1>2, <2>1 DEF InboundTypeOK
      <4> QED BY <4>1, <4>2 DEF TakenCopies
    <3> QED BY <3>1 DEF TakenCopies
  <2>3. ASSUME NEW m \in Loops, IsRejected(m)', held'[m].env \in Conforming PROVE OverLimit
    <3>1. m # l
      BY <1>2, <2>3 DEF Take, Admitted, InboundTypeOK
    <3>2. held'[m] = held[m]
      BY <1>2, <3>1 DEF Take, InboundTypeOK
    <3> QED BY <2>3, <3>2 DEF IsRejected, RateCounts
  <2>4. \A m \in Loops : waiting'[m] \subseteq Arrivals[m]
    BY <2>1 DEF RateCounts, InboundTypeOK
  <2> QED BY <2>1, <2>2, <2>3, <2>4 DEF RateCounts, OverLimit
<1>3. ASSUME NEW l \in Loops, NEW written \in BOOLEAN, Handle(l, written) PROVE RateCounts'
  <2>1. UNCHANGED <<waiting, rate, log, life>>
    BY <1>3 DEF Handle
  <2>2. \A m \in Loops : IsRejected(m)' => IsRejected(m) /\ held'[m] = held[m]
    BY <1>3 DEF Handle, IsRejected, InboundTypeOK
  <2> QED BY <2>1, <2>2, NothingTaken
<1>4. ASSUME NEW l \in Loops, NEW appended \in BOOLEAN, LogEvent(l, appended) PROVE RateCounts'
  <2>1. UNCHANGED <<waiting, rate, life>>
    BY <1>4 DEF LogEvent
  <2>2. TakenCopies' = TakenCopies
    BY <2>1 DEF TakenCopies
  <2>3. \A m \in Loops : IsRejected(m)' => IsRejected(m) /\ held'[m] = held[m]
    BY <1>4 DEF LogEvent, IsRejected, Idle, InboundTypeOK
  <2>4. ASSUME NEW x \in log', x \notin log
        PROVE  x.life = life /\ (x.outcome = "rejected" => IsRejected(l) /\ x.env = held[l].env)
    BY <1>4, <2>4 DEF LogEvent, IsRejected
  <2> QED BY <1>0, <2>1, <2>2, <2>3, <2>4 DEF RateCounts, OverLimit
<1>5. CASE StopAll
  <2>1. waiting' = Arrivals /\ rate'.count = 0 /\ log' = log /\ life' = life + 1
        /\ \A l \in Loops : ~ IsRejected(l)'
    BY <1>5 DEF StopAll, NoRate, IsRejected, Idle
  <2>2. TakenCopies' = {}
    BY <2>1 DEF TakenCopies
  <2>3. IsFiniteSet(TakenCopies') /\ Cardinality(TakenCopies') = 0
    BY <2>2, FS_EmptySet
  <2>4. \A x \in log' : x.life <= life' /\ x.life # life'
    BY <1>0, <2>1 DEF RateCounts
  <2> QED BY <2>1, <2>3, <2>4 DEF RateCounts
<1>6. CASE UNCHANGED inVars
  <2>1. UNCHANGED <<waiting, rate, log, life>> /\ held' = held
    BY <1>6 DEF inVars
  <2> QED BY <2>1, NothingTaken DEF IsRejected
<1> QED BY <1>1, <1>2, <1>3, <1>4, <1>5, <1>6 DEF InboundNext, Background, allVars

\* A publisher whose copies do not exceed the limit loses none of them to it,
\* whatever else arrives in its name.
THEOREM OnlyOverLimit == InboundSpec => []RefusedOnlyOverLimit
<1>1. InboundInit => RateCounts
  <2> SUFFICES ASSUME InboundInit PROVE RateCounts
    OBVIOUS
  <2>1. TakenCopies = {}
    BY DEF InboundInit, TakenCopies
  <2>2. IsFiniteSet(TakenCopies) /\ Cardinality(TakenCopies) = 0
    BY <2>1, FS_EmptySet
  <2> QED BY <2>2 DEF InboundInit, RateCounts, NoRate, IsRejected, Idle
<1>2. RateCounts => RefusedOnlyOverLimit
  BY DEF RateCounts, OverLimit, TakenCopies, ConformingTaken, RefusedOnlyOverLimit
<1> QED BY <1>1, <1>2, InboundTypeCorrect, RateCountsInductive, PTL DEF InboundSpec
=============================================================================
