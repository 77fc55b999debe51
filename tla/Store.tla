------------------------------- MODULE Store -------------------------------
(***************************************************************************)
(* One node's Store (internal/p2p/store.go): the tasks, the agent facts    *)
(* and the payloads, in memory and in tasks.json, facts.json and           *)
(* payloads.json.  Every method runs under s.mu, so each is one step; a    *)
(* method that changes a table sets the memory first and then rewrites the *)
(* table's whole file, and keeps the memory when the write fails.  Files   *)
(* are replaced by rename: a killed process leaves the old or the new one. *)
(*                                                                         *)
(* `now' is the wall clock, in units in which deadlines are whole numbers. *)
(* The peers, the negotiations and the rates of the Store are in the       *)
(* modules of the components that use them.                                *)
(***************************************************************************)
EXTENDS StoreTables

CONSTANTS TaskKeys,     \* taskKey(origin, id)
          FactKeys,     \* factKey(origin, id)
          Refs,         \* the detail_refs of payloads
          Bodies,
          MaxSeq,       \* bound: the largest sequence number an envelope carries
          MaxTime,      \* bound: the clock stops here
          FactEnvelopes \* the agent facts that may reach this store

ASSUME StoreAssumption ==
  /\ NoBody \notin Bodies
  /\ MaxSeq \in Nat
  /\ MaxTime \in Nat
  /\ FactEnvelopes \subseteq [key: FactKeys, seq: 1 .. MaxSeq, exp: 1 .. MaxTime, body: Bodies]

VARIABLES tasks, facts, payloads,                \* memory
          tasksFile, factsFile, payloadsFile,    \* disk
          running,                               \* the process is up
          now

taskVars    == <<tasks, tasksFile>>
factVars    == <<facts, factsFile>>
payloadVars == <<payloads, payloadsFile>>
vars == <<taskVars, factVars, payloadVars, running, now>>

Files == {"tasks", "facts", "payloads"}

TaskEntries    == [seq: 0 .. MaxSeq, status: TaskStatuses, exp: 0 .. MaxTime, body: Bodies \cup {NoBody}]
FactEntries    == [seq: 0 .. MaxSeq, exp: 0 .. MaxTime, body: Bodies \cup {NoBody}]
PayloadEntries == [exp: 0 .. MaxTime, body: Bodies \cup {NoBody}]

\* Task envelopes that passed ValidateSigned: a sequence number and an expiry.
TaskEnvelopes == [key: TaskKeys, op: Ops, seq: 1 .. MaxSeq, exp: 1 .. MaxTime, body: Bodies]

EmptyTasks    == [k \in TaskKeys |-> NoTask]
EmptyFacts    == [k \in FactKeys |-> NoFact]
EmptyPayloads == [r \in Refs |-> NoPayload]

Init ==
  /\ tasks = EmptyTasks       /\ tasksFile = EmptyTasks
  /\ facts = EmptyFacts       /\ factsFile = EmptyFacts
  /\ payloads = EmptyPayloads /\ payloadsFile = EmptyPayloads
  /\ running = FALSE
  /\ now = 0

----------------------------------------------------------------------------
\* A call that is refused (expired, terminal, replay_or_old) changes nothing.
\* `written' is whether persistLocked succeeds.
ApplyTask(env, written) ==
  /\ running
  /\ AcceptsTask(tasks[env.key], env, now)
  /\ tasks' = TasksWith(tasks, env)
  /\ tasksFile' = IF written THEN tasks' ELSE tasksFile
  /\ UNCHANGED <<factVars, payloadVars, running, now>>

ApplyFact(env, written) ==
  /\ running
  /\ AcceptsFact(facts[env.key], env, now)
  /\ facts' = FactsWith(facts, env)
  /\ factsFile' = IF written THEN facts' ELSE factsFile
  /\ UNCHANGED <<taskVars, payloadVars, running, now>>

UpsertPayload(ref, payload, written) ==
  /\ running
  /\ payloads' = [payloads EXCEPT ![ref] = payload]
  /\ payloadsFile' = IF written THEN payloads' ELSE payloadsFile
  /\ UNCHANGED <<taskVars, factVars, running, now>>

(***************************************************************************)
(* GCExpired, called every 30 seconds with the current time; `broken' is   *)
(* the set of files that cannot be written during this call.  A table with *)
(* nothing lapsed is not written.  A failed write returns at once: the     *)
(* tables after it are not swept by this call.                             *)
(***************************************************************************)
TasksLapse    == \E k \in TaskKeys : Lapsed(tasks[k], now)
FactsLapse    == \E k \in FactKeys : Lapsed(facts[k], now)
PayloadsLapse == \E r \in Refs : LapsedPayload(payloads[r], now)

GCTasks(broken) ==
  /\ tasks' = SweptTasks(tasks, now)
  /\ tasksFile' = IF TasksLapse /\ "tasks" \notin broken THEN tasks' ELSE tasksFile

GCFacts(broken) ==
  /\ facts' = SweptFacts(facts, now)
  /\ factsFile' = IF FactsLapse /\ "facts" \notin broken THEN facts' ELSE factsFile

GCPayloads(broken) ==
  /\ payloads' = SweptPayloads(payloads, now)
  /\ payloadsFile' = IF PayloadsLapse /\ "payloads" \notin broken THEN payloads' ELSE payloadsFile

StopsAtTasks(broken) == TasksLapse /\ "tasks" \in broken

StopsWithoutFacts(broken) == StopsAtTasks(broken) \/ ~ FactsLapse

StopsAtFacts(broken) == StopsAtTasks(broken) \/ (FactsLapse /\ "facts" \in broken)

GCExpired(broken) ==
  /\ running
  /\ GCTasks(broken)
  /\ IF StopsAtTasks(broken) THEN UNCHANGED factVars ELSE GCFacts(broken)
  /\ IF StopsAtFacts(broken) THEN UNCHANGED payloadVars ELSE GCPayloads(broken)
  /\ UNCHANGED <<running, now>>

(***************************************************************************)
(* The process ends, by Node.Close (which writes nothing) or a kill, and   *)
(* starts again on the same data directory.                                *)
(***************************************************************************)
Stop ==
  /\ running
  /\ running' = FALSE
  /\ tasks' = EmptyTasks
  /\ facts' = EmptyFacts
  /\ payloads' = EmptyPayloads
  /\ UNCHANGED <<tasksFile, factsFile, payloadsFile, now>>

OpenStore ==
  /\ ~ running
  /\ running' = TRUE
  /\ tasks' = tasksFile
  /\ facts' = factsFile
  /\ payloads' = payloadsFile
  /\ UNCHANGED <<tasksFile, factsFile, payloadsFile, now>>

Tick ==
  /\ now < MaxTime
  /\ now' = now + 1
  /\ UNCHANGED <<taskVars, factVars, payloadVars, running>>

Next ==
  \/ \E env \in TaskEnvelopes, written \in BOOLEAN : ApplyTask(env, written)
  \/ \E env \in FactEnvelopes, written \in BOOLEAN : ApplyFact(env, written)
  \/ \E ref \in Refs, exp \in 1 .. MaxTime, body \in Bodies, written \in BOOLEAN :
       UpsertPayload(ref, [exp |-> exp, body |-> body], written)
  \/ \E broken \in SUBSET Files : GCExpired(broken)
  \/ Stop
  \/ OpenStore
  \/ Tick

Spec == Init /\ [][Next]_vars

(***************************************************************************)
(* The ticker calls GCExpired for as long as the node runs, and sooner or  *)
(* later it meets a disk that can be written.                              *)
(***************************************************************************)
Fairness == WF_vars(GCExpired({}))

FairSpec == Spec /\ Fairness

----------------------------------------------------------------------------
\* Every table and file holds entries of its kind; a stopped node holds nothing.
TypeOK ==
  /\ tasks \in [TaskKeys -> TaskEntries]
  /\ tasksFile \in [TaskKeys -> TaskEntries]
  /\ facts \in [FactKeys -> FactEntries]
  /\ factsFile \in [FactKeys -> FactEntries]
  /\ payloads \in [Refs -> PayloadEntries]
  /\ payloadsFile \in [Refs -> PayloadEntries]
  /\ running \in BOOLEAN
  /\ now \in 0 .. MaxTime

Ledger == INSTANCE TaskLedger WITH ledger <- tasksFile

\* A later version of a fact never lapses before an earlier one, as when a
\* publisher keeps to one TTL.
SteadyDeadlines ==
  \A e, f \in FactEnvelopes : e.key = f.key /\ e.seq < f.seq => e.exp <= f.exp

\* A failed write leaves the memory ahead of the file, never the file ahead of
\* the memory and never the two on different histories: what tasks.json says of
\* a task is a past state of what the memory says (ApplyTask keeps the memory
\* when persistLocked fails; GCExpired may stop half-way).
TasksFileIsPast ==
  running => \A k \in TaskKeys : Follows(tasksFile[k], tasks[k], now)

\* The same of facts.json, whose entries GCExpired deletes, for deadlines that
\* do not shrink from one version to the next.
FactsFileIsPast ==
  SteadyDeadlines /\ running =>
    \A k \in FactKeys : FactFollows(factsFile[k], facts[k], now)

\* What is on disk of the tasks behaves as the ledger of module TaskLedger
\* across failed writes and restarts: it is never rolled back, and a completed
\* or withdrawn task that reached the disk stands until its deadline.
DiskIsLedger == Ledger!Spec

\* The fact on disk is replaced only by a younger one until it lapses: neither a
\* restart after failed writes nor the deletion by GCExpired of the entry that
\* ApplyFact compares sequence numbers with lets an older fact back in, as long
\* as deadlines do not shrink.
FactsOnDiskAdvance ==
  [][SteadyDeadlines => \A k \in FactKeys : FactFollows(factsFile[k], factsFile'[k], now)]_vars

\* Whatever lapses is swept while the node stays up: GCExpired gets to the
\* payloads although it gives up at the first table it cannot write.
LapsedIsSwept ==
  /\ \A k \in FactKeys : (running /\ Lapsed(facts[k], now)) ~> ~ (running /\ Lapsed(facts[k], now))
  /\ \A r \in Refs : (running /\ LapsedPayload(payloads[r], now)) ~> ~ (running /\ LapsedPayload(payloads[r], now))
=============================================================================
