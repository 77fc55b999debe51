---------------------------- MODULE StoreTables ----------------------------
(***************************************************************************)
(* The tables of internal/p2p/store.go as values, and what each Store      *)
(* method does to one of them: pure operators, shared by every module that *)
(* holds a Store.                                                          *)
(*                                                                         *)
(* A table is a function over its whole key set.  An absent key holds the  *)
(* entry of sequence number 0: every entry the program writes has a        *)
(* sequence number of at least 1 (NextTaskSeq, NextFactSeq; ValidateSigned *)
(* refuses seq = 0).                                                       *)
(*                                                                         *)
(* A body stands for what an envelope or a stored payload says (summary,   *)
(* detail, signature...): the properties only ask which body is where.     *)
(***************************************************************************)
EXTENDS Rates

CONSTANT NoBody       \* the body of an absent entry

Ops == {"UPSERT", "COMPLETE", "WITHDRAW"}

TaskStatuses == {"NONE", "ACTIVE", "COMPLETE", "WITHDRAW", "EXPIRED"}

NoTask    == [seq |-> 0, status |-> "NONE", exp |-> 0, body |-> NoBody]
NoFact    == [seq |-> 0, exp |-> 0, body |-> NoBody]
NoPayload == [exp |-> 0, body |-> NoBody]

Present(entry) == entry.seq > 0

LastSeqAgain(entry) == IF Present(entry) THEN entry.seq ELSE 1

\* NextTaskSeq and NextFactSeq: one more than the last, 1 for an absent key.
NextSeq(entry) == entry.seq + 1

(***************************************************************************)
(* ApplyTask and ApplyFact.                                                *)
(***************************************************************************)
Closed(task) == task.status \in {"COMPLETE", "WITHDRAW"}

StatusIsOp(op) == op

StatusOf(op) == CASE op = "COMPLETE" -> "COMPLETE"
                  [] op = "WITHDRAW" -> "WITHDRAW"
                  [] OTHER           -> "ACTIVE"

\* Faulty variants, here and below, are mistakes the properties must notice.
AcceptsReplayedTask(current, env, now) == now <= env.exp /\ ~ Closed(current)

AcceptsOnClosedTask(current, env, now) == now <= env.exp /\ env.seq > current.seq

AcceptsTask(current, env, now) ==
  /\ now <= env.exp                  \* else "expired"
  /\ ~ Closed(current)               \* else "terminal"
  /\ env.seq > current.seq           \* else "replay_or_old"

AcceptsFactAgain(current, env, now) == now <= env.exp /\ env.seq >= current.seq

AcceptsFact(current, env, now) ==
  /\ now <= env.exp
  /\ env.seq > current.seq

TaskFrom(env) ==
  [seq |-> env.seq, status |-> StatusOf(env.op), exp |-> env.exp, body |-> env.body]

FactFrom(env) == [seq |-> env.seq, exp |-> env.exp, body |-> env.body]

TasksWith(tasks, env) == [tasks EXCEPT ![env.key] = TaskFrom(env)]

FactsWith(facts, env) == [facts EXCEPT ![env.key] = FactFrom(env)]

(***************************************************************************)
(* GCExpired, table by table.  A task stays and turns EXPIRED whatever its *)
(* status was; a fact and a payload go.  A payload with the zero time as   *)
(* its expiry stays for ever.                                              *)
(***************************************************************************)
Lapsed(entry, now) == Present(entry) /\ now > entry.exp

LapsedPayload(payload, now) == payload.exp # 0 /\ now > payload.exp

ExpiredTask(task) == [task EXCEPT !.status = "EXPIRED"]

SweptTask(task, now) == IF Lapsed(task, now) THEN ExpiredTask(task) ELSE task

SweptFactEarly(fact, now) == IF now >= fact.exp THEN NoFact ELSE fact

SweptFact(fact, now) == IF Lapsed(fact, now) THEN NoFact ELSE fact

SweptPayloadEarly(payload, now) == IF now >= payload.exp THEN NoPayload ELSE payload

SweptPayload(payload, now) == IF LapsedPayload(payload, now) THEN NoPayload ELSE payload

SweptTasks(tasks, now)       == [k \in DOMAIN tasks |-> SweptTask(tasks[k], now)]
SweptFacts(facts, now)       == [k \in DOMAIN facts |-> SweptFact(facts[k], now)]
SweptPayloads(payloads, now) == [r \in DOMAIN payloads |-> SweptPayload(payloads[r], now)]

(***************************************************************************)
(* What the life of an entry looks like from outside, in one step or many, *)
(* of which the last is at time t (module TaskLedger).                     *)
(***************************************************************************)
Follows(a, b, t) ==
  \/ b = a
  \/ /\ b.seq > a.seq
     /\ Closed(a) => t > a.exp
  \/ /\ b = ExpiredTask(a)
     /\ Lapsed(a, t)

\* A fact may be deleted once it has lapsed.
FactFollows(a, b, t) == b = a \/ b.seq > a.seq \/ Lapsed(a, t)
=============================================================================
