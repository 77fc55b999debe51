------------------------------ MODULE Publish ------------------------------
(***************************************************************************)
(* The publications of one node (PublishTask and PublishFact of            *)
(* internal/p2p/node.go, called by the HTTP handlers of cmd/agent.go, each *)
(* in a goroutine of its own), on top of module Store.                     *)
(*                                                                         *)
(* A publication takes no lock.  It reads the next sequence number, builds *)
(* the envelope and its detail_ref from it, and then calls the store       *)
(* twice and the gossip once; other publications, the sweep and the end of *)
(* the process come in between.  A sequence number is only taken by        *)
(* ApplyTask or ApplyFact, whose refusal does not stop the publication.    *)
(*                                                                         *)
(* A request is also the body of what it publishes.                        *)
(***************************************************************************)
EXTENDS Store

CONSTANTS Requests,
          TTLs,         \* the times to live that clients ask for, by object
          OneAtATime,   \* clients do not publish an object twice at a time
          KeepClosed    \* clients do not publish a task that they closed

ASSUME PublishAssumption ==
  /\ Requests = Bodies
  /\ TTLs \in [TaskKeys \cup FactKeys -> SUBSET (Nat \ {0})]
  /\ Refs = (TaskKeys \cup FactKeys) \X (1 .. MaxSeq)
  /\ TaskKeys \cap FactKeys = {}
  /\ OneAtATime \in BOOLEAN /\ KeepClosed \in BOOLEAN

VARIABLES pc,      \* how far each request is
          draft,   \* the envelope each request has built
          sent     \* the envelopes handed to the network

publishVars == <<pc, draft, sent>>
allVars == <<vars, publishVars>>

Keys == TaskKeys \cup FactKeys

Envelopes == [key: Keys, op: Ops, seq: 1 .. MaxSeq, exp: 1 .. MaxTime, body: Requests]

NoDraft == [key |-> NoBody, op |-> "UPSERT", seq |-> 0, exp |-> 0, body |-> NoBody]

DetailRef(env) == <<env.key, env.seq>>

\* What a fetch of a detail_ref is answered with.
Fetched(ref) == payloads[ref].body

Active(r) == pc[r] \in {"store", "apply", "gossip"}

PublishInit ==
  /\ Init
  /\ pc = [r \in Requests |-> "idle"]
  /\ draft = [r \in Requests |-> NoDraft]
  /\ sent = {}

----------------------------------------------------------------------------
Entry(key) == IF key \in TaskKeys THEN tasks[key] ELSE facts[key]

\* What the clients keep to.
ClientMay(key) ==
  /\ OneAtATime => \A r \in Requests : ~ (Active(r) /\ draft[r].key = key)
  /\ KeepClosed /\ key \in TaskKeys => ~ Closed(tasks[key])

\* NextTaskSeq or NextFactSeq, and the envelope built and signed with it.  A
\* request that fails here (invalid, or against the policy) changes nothing.
\* The clock is read right after the number (NewTaskSAE), here in the same step.
\* Bounds: MaxSeq and MaxTime.
Begin(r, key, op, ttl) ==
  /\ running
  /\ pc[r] = "idle"
  /\ ClientMay(key)
  /\ key \in FactKeys => op = "UPSERT"
  /\ NextSeq(Entry(key)) <= MaxSeq
  /\ now + ttl <= MaxTime
  /\ draft' = [draft EXCEPT ![r] = [key |-> key, op |-> op, seq |-> NextSeq(Entry(key)),
                                    exp |-> now + ttl, body |-> r]]
  /\ pc' = [pc EXCEPT ![r] = "store"]
  /\ UNCHANGED <<vars, sent>>

ProceedsAnyway(r, written, next) == pc' = [pc EXCEPT ![r] = next]

\* The request goes on to `next', or fails because a file was not written.
Proceeds(r, written, next) == pc' = [pc EXCEPT ![r] = IF written THEN next ELSE "failed"]

StoreAndSkipApply(r, written) ==
  /\ pc[r] = "store"
  /\ UpsertPayload(DetailRef(draft[r]), [exp |-> draft[r].exp, body |-> r], written)
  /\ Proceeds(r, written, "gossip")
  /\ UNCHANGED <<draft, sent>>

StoreDetail(r, written) ==
  /\ pc[r] = "store"
  /\ UpsertPayload(DetailRef(draft[r]), [exp |-> draft[r].exp, body |-> r], written)
  /\ Proceeds(r, written, "apply")
  /\ UNCHANGED <<draft, sent>>

Accepted(env) ==
  IF env.key \in TaskKeys THEN AcceptsTask(tasks[env.key], env, now)
                          ELSE AcceptsFact(facts[env.key], env, now)

Apply(env, written) ==
  IF env.key \in TaskKeys THEN ApplyTask(env, written) ELSE ApplyFact(env, written)

\* The envelope is applied, or refused without a word to the client.
ApplyLocally(r, written) ==
  /\ pc[r] = "apply"
  /\ \/ Apply(draft[r], written) /\ Proceeds(r, written, "gossip")
     \/ ~ Accepted(draft[r]) /\ Proceeds(r, TRUE, "gossip") /\ UNCHANGED vars
  /\ UNCHANGED <<draft, sent>>

\* The envelope goes out, or the gossip fails before it reached any topic.
GossipOut(r, out) ==
  /\ running
  /\ pc[r] = "gossip"
  /\ pc' = [pc EXCEPT ![r] = IF out THEN "done" ELSE "failed"]
  /\ sent' = IF out THEN sent \cup {draft[r]} ELSE sent
  /\ UNCHANGED <<vars, draft>>

\* A request that has ended is forgotten.  The end of the process ends them all.
StopAll ==
  /\ Stop
  /\ pc' = [r \in Requests |-> IF Active(r) THEN "failed" ELSE pc[r]]
  /\ UNCHANGED <<draft, sent>>

Background ==
  /\ (\E broken \in SUBSET Files : GCExpired(broken)) \/ OpenStore \/ Tick
  /\ UNCHANGED publishVars

PublishNext ==
  \/ \E r \in Requests, key \in Keys, op \in Ops : \E ttl \in TTLs[key] : Begin(r, key, op, ttl)
  \/ \E r \in Requests, written \in BOOLEAN : StoreDetail(r, written)
  \/ \E r \in Requests, written \in BOOLEAN : ApplyLocally(r, written)
  \/ \E r \in Requests, out \in BOOLEAN : GossipOut(r, out)
  \/ StopAll
  \/ Background

PublishSpec == PublishInit /\ [][PublishNext]_allVars

----------------------------------------------------------------------------
PublishTypeOK ==
  /\ TypeOK
  /\ pc \in [Requests -> {"idle", "store", "apply", "gossip", "done", "failed"}]
  /\ draft \in [Requests -> Envelopes \cup {NoDraft}]
  /\ sent \subseteq Envelopes

Current(env) == now <= env.exp

\* A detail_ref in circulation resolves to the detail it was published with,
\* through failed writes, sweeps, restarts and later publications: another
\* publication never stores its detail under the same reference, and the sweep
\* never takes it early (UpsertPayload, handleFetch).
SentIsFetchable ==
  \A env \in sent : running /\ Current(env) => Fetched(DetailRef(env)) = env.body

\* The sequence number of an envelope in circulation is on disk: the origin does
\* not hand it out again after a restart, nor after the sweep (ApplyTask and
\* ApplyFact write before PublishSAE is called).
SentIsRecorded ==
  \A env \in sent : Current(env) =>
     (IF env.key \in TaskKeys THEN tasksFile[env.key] ELSE factsFile[env.key]).seq >= env.seq

\* Receivers tell versions apart by their number alone: two envelopes of an
\* object in circulation never carry the same one.
OneEnvelopePerNumber ==
  \A e, f \in sent : Current(e) /\ Current(f) /\ DetailRef(e) = DetailRef(f) => e = f

\* P2P_CLI_OPERATOR_MANUAL.md: "`fetch` succeeds for a remote `detail_ref`".  It
\* may answer "not found" for clients that vary the TTL of a fact, that publish an
\* object twice at a time or that publish a task they closed: another envelope
\* with the same reference, and a shorter life, then replaces the payload.
FetchSucceeds ==
  \A env \in sent : running /\ Current(env) => payloads[DetailRef(env)] # NoPayload
=============================================================================
