------------------------------ MODULE Inbound ------------------------------
(***************************************************************************)
(* What a node does with the envelopes it receives (handleEnvelope and     *)
(* enforceEnvelopePolicy of internal/p2p/node.go), on top of module Store. *)
(*                                                                         *)
(* The read loop of each topic calls handleEnvelope for one envelope at a  *)
(* time; the loops run at once, and an envelope with several topics comes  *)
(* to several of them.  Policy, table and event log are three steps, and   *)
(* the log (AppendEvent) is written without the store's lock.              *)
(*                                                                         *)
(* All envelopes are of one publisher, another node (the read loop skips   *)
(* the messages of its own node), so there is one rate.                    *)
(***************************************************************************)
EXTENDS Store, FiniteSets

CONSTANTS Loops,
          Arrivals,    \* the envelopes that reach each loop, once per life
          Conforming,  \* those within the policy and properly signed
          Limit, Minute,
          MaxLives     \* bound: how often the process is started

Received == UNION {Arrivals[l] : l \in Loops}

ASSUME InboundAssumption ==
  /\ Arrivals \in [Loops -> SUBSET (TaskEnvelopes \cup FactEnvelopes)]
  /\ TaskKeys \cap FactKeys = {}
  /\ Conforming \subseteq Received
  /\ Limit \in Nat \ {0} /\ Minute \in Nat \ {0} /\ MaxLives \in Nat \ {0}

VARIABLES waiting,  \* what each loop has not taken yet
          held,     \* what each loop is handling
          log,      \* events.jsonl
          rate,     \* the publisher's
          life

inVars == <<waiting, held, log, rate, life>>
allVars == <<vars, inVars>>

Idle == [pc |-> "idle"]

InboundInit ==
  /\ Init
  /\ waiting = Arrivals
  /\ held = [l \in Loops |-> Idle]
  /\ log = {}
  /\ rate = NoRate
  /\ life = 1

----------------------------------------------------------------------------
CountsFirst(env) == rate' = Counted(rate, now, Minute)

\* AllowPeer is asked last, of an envelope that passed every other check.
Counts(env) == rate' = IF env \in Conforming THEN Counted(rate, now, Minute) ELSE rate

Admitted(env) == env \in Conforming /\ Within(rate', Limit)

\* enforceEnvelopePolicy.  An envelope it refuses is logged and not applied.
Take(l, env) ==
  /\ running
  /\ held[l] = Idle
  /\ env \in waiting[l]
  /\ Counts(env)
  /\ waiting' = [waiting EXCEPT ![l] = @ \ {env}]
  /\ held' = [held EXCEPT ![l] = IF Admitted(env)
                                   THEN [pc |-> "apply", env |-> env]
                                   ELSE [pc |-> "log", env |-> env, outcome |-> "rejected"]]
  /\ UNCHANGED <<vars, log, life>>

Accepted(env) ==
  IF env.key \in TaskKeys THEN AcceptsTask(tasks[env.key], env, now)
                          ELSE AcceptsFact(facts[env.key], env, now)

Apply(env, written) ==
  IF env.key \in TaskKeys THEN ApplyTask(env, written) ELSE ApplyFact(env, written)

\* ApplyTask or ApplyFact.  A failed write is reported, but as an applied one.
Handle(l, written) ==
  /\ held[l].pc = "apply"
  /\ LET env == held[l].env
         is(outcome) == held' = [held EXCEPT ![l] = [pc |-> "log", env |-> env, outcome |-> outcome]]
     IN  \/ Apply(env, written) /\ is("applied")
         \/ ~ Accepted(env) /\ UNCHANGED vars /\ is("refused")
  /\ UNCHANGED <<waiting, log, rate, life>>

\* AppendEvent, whose error is ignored.
LogEvent(l, appended) ==
  /\ held[l].pc = "log"
  /\ log' = IF appended
              THEN log \cup {[loop |-> l, life |-> life, env |-> held[l].env, outcome |-> held[l].outcome]}
              ELSE log
  /\ held' = [held EXCEPT ![l] = Idle]
  /\ UNCHANGED <<vars, waiting, rate, life>>

\* The loops, the rates and what they were doing go with the process; a new one
\* may receive everything again.
StopAll ==
  /\ Stop
  /\ life < MaxLives
  /\ life' = life + 1
  /\ waiting' = Arrivals
  /\ held' = [l \in Loops |-> Idle]
  /\ rate' = NoRate
  /\ UNCHANGED log

Background ==
  /\ (\E broken \in SUBSET Files : GCExpired(broken)) \/ OpenStore \/ Tick
  /\ UNCHANGED inVars

InboundNext ==
  \/ \E l \in Loops, env \in Received : Take(l, env)
  \/ \E l \in Loops, written \in BOOLEAN : Handle(l, written)
  \/ \E l \in Loops, appended \in BOOLEAN : LogEvent(l, appended)
  \/ StopAll
  \/ Background

InboundSpec == InboundInit /\ [][InboundNext]_allVars

----------------------------------------------------------------------------
InboundTypeOK ==
  /\ TypeOK
  /\ waiting \in [Loops -> SUBSET Received]
  /\ held \in [Loops -> {Idle} \cup [pc: {"apply"}, env: Conforming]
                       \cup [pc: {"log"}, env: Received, outcome: {"applied", "refused", "rejected"}]]
  /\ log \subseteq [loop: Loops, life: 1 .. MaxLives, env: Received,
                    outcome: {"applied", "refused", "rejected"}]
  /\ rate \in [start: 0 .. MaxTime, count: Nat]
  /\ life \in 1 .. MaxLives

\* An envelope that comes on several topics at a time is applied once in the life
\* of a process, so that events.jsonl does not report a change twice: ApplyTask
\* and ApplyFact compare and store under one lock, and what the sweep deletes has
\* lapsed for everyone as long as deadlines do not shrink.
AppliedOnce ==
  \A x, y \in log :
    x.outcome = "applied" /\ y.outcome = "applied" /\ x.env = y.env /\ x.life = y.life => x = y

\* The tables are never behind what the log says was applied, though loops log
\* in another order than they applied in, as long as deadlines do not shrink.
TableNotBehindLog ==
  \A x \in log : running /\ x.life = life /\ x.outcome = "applied" =>
    \/ x.env.key \in TaskKeys /\ tasks[x.env.key].seq >= x.env.seq
    \/ x.env.key \in FactKeys /\ (facts[x.env.key].seq >= x.env.seq \/ now > x.env.exp)

\* The copies of envelopes within the policy that were taken in this life.
ConformingTaken ==
  Cardinality({copy \in Loops \X Conforming : copy[2] \in Arrivals[copy[1]] \ waiting[copy[1]]})

\* A publisher whose copies, one for each topic that an envelope comes on, do not
\* exceed the limit loses none of them: no other sender uses up its rate with
\* envelopes in its name, nor does an envelope that is refused for other reasons
\* (enforceEnvelopePolicy asks AllowPeer last; its count dies with the process).
RefusedOnlyOverLimit ==
  \A x \in log :
    x.life = life /\ x.outcome = "rejected" /\ x.env \in Conforming => ConformingTaken > Limit
=============================================================================
