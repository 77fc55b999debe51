# openclaw-P2P in TLA+

A TLA+ development of the agent network in `internal/p2p`, `internal/sae` and
`cmd`: what is modelled, what each model-checking run shows, what is proved.
Paths are relative to the repository.

## 1. The system

An `openagent` process is one node.  Agents on the same machine talk to it over
a loopback HTTP API (`cmd/agent.go`); nodes talk to each other over libp2p.  A
node publishes signed envelopes (SAE: a task or an agent fact) on the GossipSub
topics of the object's taxonomy; the envelope carries a `detail_ref` under which
any node fetches the full detail from the publisher; two agents then negotiate
over a request/response stream.

| Component | Source | State it keeps | Operations | What makes it correct |
|---|---|---|---|---|
| Store | `internal/p2p/store.go` | tasks, facts, payloads, peers, negotiations, rates in memory; one JSON file per table except the rates; `events.jsonl` | `ApplyTask`, `ApplyFact`, `UpsertPayload`, `RecordPeer`, `AllowPeer`, `RecordNegotiation`, `AppendEvent`, `GCExpired`, `OpenStore` | file never ahead of the memory; sequence numbers never go back; a closed task stays closed until its deadline; what lapses is swept |
| Publisher | `node.go` `PublishTask`, `PublishFact`, `marshalDetail`; `cmd/agent.go` | none of its own: a request's local variables between locked calls to the store | read the next sequence number, build and sign, store the payload, apply, subscribe, gossip | a `detail_ref` in circulation resolves to the detail it was published with; no two versions in circulation share a number |
| Gossip | `gossip.go` | joined topics, subscriptions, one read loop per subscription, each with the context of the caller that created it | `SubscribeTopics`, `PublishSAE`, `ensureTopic`, `readLoop`, `Close` | a subscribed topic is read, by one loop; no loop outlives `Close` |
| Inbound policy | `node.go` `handleEnvelope`, `enforceEnvelopePolicy`; `policy.go`; `store.go` `AllowPeer` | the rate of each publisher | admit or reject an envelope, apply it, log it | no more than the limit per minute; what is applied was admitted; the log agrees with the tables |
| Replication | the above on several nodes | none of its own | gossip delivers, loses, repeats and reorders envelopes | nodes that received the same last version of an object show the same; no node goes back |
| Negotiation | `rpc_negotiate.go`, `node.go` `SendNegotiation`, `handleNegotiate`; `store.go` `RecordNegotiation` | sessions with their frames, in memory and on disk | record, validate, send, receive, record, answer, record | a request that a peer recorded is on the sender's disk; an answered one is on both |
| Fetch | `rpc_fetch.go`, `node.go` `FetchRemoteDetail`, `handleFetch` | none | request a payload of a peer | a current `detail_ref` is answered with the detail it was published with; a fetch that is never answered does not keep the process |
| Discovery | `discovery.go`, `node.go` `onPeerDiscovered`, `registerConnectionTracing`; `store.go` `RecordPeer` | known peers, connections | mDNS notifications, a 10 second loop: bootstrap peers, advertise, find and connect | the loop keeps trying; every connection that the node notices is recorded |
| Node lifecycle | `node.go` `NewNode`, `Close`; `hosts.go`; `cmd/p2p.go` | the parts built so far, the API server; the identity file | start in ten steps, most of which may fail; shut the API down, close once | an identity is kept across restarts; callbacks find what they use before `NewNode` has returned; a signal ends the process, and gives the requests under way five seconds |
| Envelope | `internal/sae/*.go` | none | validate, sign, verify, encode, decode | a signature covers every field a receiver acts on |
| Topics | `node.go` `normalizeTopics`, `TopicsFromTaxonomy`; `gossip.go` `uniqueStrings` | none | derive and limit an envelope's topics | at least one topic, no duplicates, within the limit |
| Benchmark scripts | `scripts/*.py`, `scripts/*.sh` | manifest, result files, a lock file | resume missing runs, collect events | not modelled |
| Operator scripts | `openspec-worktree.sh`, `collect-p2p-cli-evidence.sh`, `connect-macmini.sh`, `ssh-askpass-macmini.sh` | none | ssh and git plumbing | not modelled |

How they interact.  Every table of the store is guarded by one mutex, so each
method is atomic, but nothing spans two methods: a publication is five store and
gossip calls in a row, an inbound envelope three, a negotiation two on each
side, and the sweep, other requests, other read loops, a failed write or the end
of the process may come between any two.  `AppendEvent` takes no lock.  Gossip
may lose, repeat and reorder; an envelope with several topics is delivered once
per topic, by different loops.

## 2. Plan

In the order of writing, and what each module composes.  Done:

1. `Rates` and `StoreTables` (values and pure operators), `TaskLedger` (abstract), `Store`
   (detailed, refines `TaskLedger`), `StoreProofs`.
2. `Publish`: requests between locked calls, on top of `Store`; `PublishProofs`.
3. `Gossip`: topics, subscriptions, read loops and their contexts; proved about in
   `LifecycleProofs`.
4. `RateLimit`: the window of `AllowPeer`; `Inbound`: admission, application and
   log over several read loops, on top of `Store` and with the same operators;
   `InboundProofs`.
5. `Negotiation`: two nodes, their records, lost answers and failed writes;
   `NegotiationProofs`.
6. `Discovery`: start, identity, bootstrap peers, the table of peers;
   `DiscoveryProofs`.
7. `Bulletin` (abstract), `Replication` (several nodes over a gossip that loses,
   repeats and reorders, refines `Bulletin`), `ReplicationProofs`.
8. `Wire`: topics, validation, signature, policy and detail references of one
   envelope; `PolicyProofs`, of `Wire` and `RateLimit`.
9. `Lifecycle`: start, API server, signal and close, on top of `Gossip`;
   `LifecycleProofs`.

10. The order and the round trips of `Negotiation`, the limit of `Inbound`, the
    last version of `Replication`, the bounds of `RateLimit`, and of `Wire` what
    does not rest on folds, in the proof modules of these.
11. What the folds of `Wire` compute, for lists of any length, in `PolicyProofs`.

To come: nothing of the code.  Every safety invariant is proved; what section 6
lists as model-checked only is liveness.

## 3. Modules and the code

| Module | What it is | Code |
|---|---|---|
| `Rates` | what `AllowPeer` does to the rate of a peer, without state | `store.go` `AllowPeer` |
| `StoreTables` | table entries and what each method of the store does to a table, without state | `store.go` |
| `TaskLedger` | abstract: what the tasks on disk may do | the promise of `store.go` |
| `Store` | tasks, facts and payloads in memory and on disk | `store.go` |
| `Publish` | `Store` with concurrent publications | `node.go` `PublishTask`, `PublishFact` |
| `Inbound` | `Store` with concurrent read loops, the policy, the rate and the log | `node.go` `handleEnvelope`, `enforceEnvelopePolicy` |
| `RateLimit` | the window of `AllowPeer` over time | `store.go` `AllowPeer` |
| `Gossip` | topics, subscriptions and read loops of one node | `gossip.go` |
| `Lifecycle` | `Gossip` with the phases of a process, its callbacks, the API's requests and the shutdown | `node.go` `NewNode`, `Close`; `cmd/p2p.go`, `cmd/agent.go`; `rpc_fetch.go` |
| `Negotiation` | sessions of several nodes, and the stream between them | `rpc_negotiate.go`, `node.go`, `store.go` `RecordNegotiation` |
| `Discovery` | start, identity, peers of one node | `discovery.go`, `hosts.go`, `node.go` |
| `Bulletin` | abstract: what the network promises about its objects | the promise of `node.go` and `store.go` |
| `Replication` | several nodes that publish, receive, sweep and fetch | `node.go`, `store.go`, `gossip.go` |
| `Wire` | one envelope from a client's request to its receivers | `internal/sae/envelope.go`, `policy.go`, `node.go`, `rpc_fetch.go` |
| `StoreProofs`, `PublishProofs`, `InboundProofs`, `NegotiationProofs`, `DiscoveryProofs`, `ReplicationProofs` | theorems about the module they are named for | |
| `LifecycleProofs` | theorems about `Gossip` and `Lifecycle` | |
| `PolicyProofs` | theorems about `RateLimit` and `Wire` | |
| `MC...` | constants for TLC | |

**Store.**  `tasks`, `facts` and `payloads` are the maps of the struct,
`tasksFile`... the JSON files.  A table is a function over all keys; an absent
key holds sequence number 0, which no entry of the program has.  Every exported
method holds the mutex throughout and is one action; its parameter `written`
(or `broken`, for the sweep) says which writes succeed, so that a failed write
leaves the memory ahead of the file as it does in the code.  `Stop` is
`Node.Close` or a kill, which are the same to the store; `OpenStore` reads the
files back.  Envelopes are those that passed `ValidateSigned`.  Time is a clock
in units in which deadlines are whole numbers.

**Publish.**  A request is an HTTP handler's goroutine: `Begin` reads the next
number and builds the envelope, `StoreDetail`, `ApplyLocally` and `GossipOut`
are the calls that follow, in the order of the code, each failing on its own.
`ApplyLocally` goes on when the store refuses, as the code does.  The two
constants `OneAtATime` and `KeepClosed` say what the clients keep to.

**Gossip.**  `Subscribe` is `ensureTopic` under `g.mu`; the loops of
`SubscribeTopics` and `PublishSAE` are one step per topic.  A read loop is a
record of its topic and of the caller whose context it got.  GossipSub is
external: a subscription with a bounded buffer that gets each message at most
once.  `Cancel` is a signal or the end of `Node.Close`, `Close` is
`Gossip.Close`; after both, `Usable` says what GossipSub may still do.

**Lifecycle.**  `main` is the phase of the main goroutine: the steps of
`NewNode`, `startAgentAPI`, waiting for a signal, the shutdown of the API and
the three parts of `Node.Close`.  `built` are the fields that have a value,
`open` the callbacks that other goroutines may start; `Opens` and `Uses` say
when each may first come and what it refers to.  `SubscribeTopics`, the
publications and the read loops are the steps of `Gossip`, the node's context is
its `cancelled`, and `CloseGossip` its `Close`.  A `fetch` waits for an answer
that need not come.  `watcher` is the goroutine of `startAgentAPI` that shuts the
server down next to the main one, and `elapsed` says whose five seconds are over.

**Inbound.**  A read loop handles one envelope at a time in three steps: `Take`
(the policy, with the rate), `Handle` (the table), `LogEvent`.  The policy's
checks on a single envelope are the constant `Conforming` (they are in `Wire`);
the order of the checks, which decides what is charged to the rate, is in
`Counts`.

**RateLimit.**  One action, `AllowPeer`, and a history of calls and answers.

**Negotiation.**  A session is the sequence of its frames.  A request goes
through `Send` (record at the sender), `Transmit` (validate, stream), `Receive`
(record at the receiver), `Reply` (record the answer), `GetReply` (record it at
the sender); `GiveUp` is every way in which the caller sees an error, after
which the frame may still arrive.

**Discovery.**  `Start` and `IdentityWritten` read or create the identity;
`CreateHost` is `libp2p.New`, from which on the host listens, and
`RegisterConnectionTracing` the registration of the callbacks: what connects in
between gives no notice (`PeerConnectsUnseen`).  `PassPeer`, `PassEnds`
and `PassFails` are `ensureConnectedPeers`, of the start and of the loop;
`FindPeers` and `FindAndConnect` are `findAndConnect`; `calls` are the calls of
`onPeerDiscovered`, by the loop or by mDNS, in their two steps; `notices` are the
`ConnectedF` callbacks that have not run yet.

**Replication.**  `table` is every node's tasks and facts, of which `Accepts` and
`EntryFrom` are the operators of `StoreTables`.  `Publish` is a publication as
far as the gossip, in one step (its parts are in `Publish`); `PublishOn` and
`PublishFails` are `PublishSAE`, topic by topic.  `network` is a set of
envelopes per topic that nothing leaves: delivery at any time, again, in any
order, or never.  `HandleEnvelope` is what a receiver does with an admitted
envelope, `GCExpired` the sweep of one node, `HandleFetch` the answer of an
owner.  Under the mapping a publication is a `Post` of `Bulletin`, an accepted
envelope a `See`, a sweep a `Lapse`.

**Wire.**  Pure operators for each conversion, and a state for each stage: what
the client asked for, what went out, and what came to another node in its place,
which may differ in up to two fields and be signed by someone else.  `Canonical`
is the list of fields that is signed; `Checks` and `Admits` are
`enforceEnvelopePolicy` at the publisher and at the receiver.  `ttlDuration`
multiplies in words, of which `Half` is half of the values; `Now` is the time at
which `NewTaskSAE` or `NewAgentFactSAE` reads the clock, and nothing reads it
again before the envelope has left.  `BuildDetailRef` and `ParseDetailRef`
split, clean and unescape paths as the code and `url.Parse` do, character by
character, because the property is about the characters.

Operators with names such as `AcceptsReplayedTask` or `StopsWithoutFacts` are
mistakes that code like this could contain.  No specification uses them; they
stand next to the definition they are variants of, to show which property would
notice.

## 4. What the runs show

| Run | Bounds | Shows |
|---|---|---|
| `store` | one task, fact, payload and body, two sequence numbers, three ticks | types; files are in the past of the memory; tasks on disk behave as `TaskLedger`; facts on disk only advance; the sweep reaches facts and payloads |
| `publish` | three requests, one task (TTL 1 or 2), one fact (TTL 1), two numbers, three ticks | what is in circulation can be fetched as published; its number is on disk; no two envelopes in circulation share a number |
| `publish_twice` | two requests for one task at once | **disagreement**: both take one number and one `detail_ref`; a fetch finds nothing |
| `gossip` | two topics, one configured; the node and a publication; an envelope, a message that does not decode, a buffer of two | one read loop per topic; configured topics are handled; no loop outlives `Close` |
| `gossip_request_topic` | the same without garbage | **disagreement**: a topic first subscribed to by a publication is not read after the HTTP request |
| `rate_limit` | eight calls in seven ticks, windows of three, limit two | at most twice the limit in any minute; who is refused had reached the limit in the minute before |
| `inbound` | two loops, a fact, its update on both, a forged task, two lives | an update on two topics is applied once in a life; the tables are never behind the log; only genuine envelopes charge the rate |
| `negotiation` | two nodes, two sessions, two requests in any directions, a supported op and another | the sender has on disk what the receiver knows; answered requests are on both disks and keep their order; an unsupported op reaches nobody else; the files only grow |
| `discovery` | two bootstrap peers, two keys | one identity; all bootstrap peers known once up; every connection recorded that came after the node began to watch them; peers in reach rejoined |
| `replication` | three nodes; a task on two topics, of which the two others read one each; a fact on one topic; three numbers, ticks and publications, TTL 1 | the nodes implement `Bulletin`; each shows the last version it received; what a node shows, its owner still has in that version |
| `wire` | all lists of up to three topics (blank, padded, twice) and taxonomies of up to three parts; ids of up to three characters of `a / . %`; sizes, confidences, 0 to 20 seconds in words of five bits; three policies; copies with up to two other fields | where envelopes go, that they are admitted as signed and in no other form, that none is made for longer than was asked for, and exactly which details can be asked for |
| `lifecycle` | a publication, a fetch, two topics, one configured | callbacks find what they use; requests get their five seconds; a signal ends the process |

Why these bounds are enough.  The store's rules compare two entries of one key,
so two sequence numbers give an old, an equal and a new envelope; two or three
ticks let an entry lapse, be swept and be written again.  `publish` needs a
third request to come after two versions of an object; with one tick of TTL a
fact lapses, is deleted, and is published again with number 1.  In `gossip` the
node and one publication already race for a subscription, and the buffer of two
overflows with three messages.  `rate_limit` covers more than two windows and a
burst of four on each side of a boundary.  Two requests on two nodes cross,
overtake and follow each other; two sessions show that a write of the file keeps
the other session.  In `inbound` every loop has something the other has, or that
outdates it; tasks are only seen refused there, their application is in `store`,
`publish` and `replication`.  `replication` has two receivers that miss
different topics, and three publications: of one object an old, a lapsed and a
reborn version, or a closing one, next to another object.  The words of `wire`
are small so that products of seconds overflow in both directions and hit zero.
One publication and one fetch already keep the two goroutines of the shutdown
waiting, each for itself.

Conditions on clients, which are not facts about the code:

- `publish`: `OneAtATime` (without it the run is `publish_twice`), `KeepClosed`,
  and one TTL for each fact.  Without the latter two the same property fails for
  sequential clients: `PublishTask` ignores that the store refused ("terminal"),
  so that each further publication of a closed task reuses the `detail_ref`; and
  a fact that was swept starts again at number 1 while an envelope with a longer
  TTL may circulate.
- `replication`: `ClientMay`, the same, and a lapsed object is published again
  only when every node has swept it.  Another node refuses it otherwise: a fact
  that starts at 1 again as `replay_or_old`, a new version of a task that it still
  holds closed as `terminal`.
- `store`, `inbound`: what is said of facts is under `SteadyDeadlines` (a later
  version never has the earlier deadline).  With shrinking deadlines the sweep
  deletes the number of the later version while the earlier one is current, and
  it is applied again: `AppliedOnce`, `TableNotBehindLog` and
  `FactsOnDiskAdvance` do not hold then.

Behaviours of the code that a reader may not expect, and that the models have:

- The sweep turns every lapsed task EXPIRED, whatever closed it, and `ApplyTask`
  does not treat that as terminal: a completed task can become active again
  after its deadline (`TaskLedger`, `Reopened` of `Bulletin`).  The test of
  terminal absorption in `store_test.go` does not sweep.
- `AllowPeer` counts from the first call, not over a sliding minute: up to twice
  the limit passes within one (`TwiceTheLimitAtMost`; the flag in
  `cmd/p2p.go` says "per peer per minute").
- A negotiation with an unsupported op is recorded at its sender before it is
  refused (`UnsupportedStaysHome`).
- An object id of dots, or with a percent sign that is not followed by two
  digits, gives a `detail_ref` that cannot be parsed (`PlainIdsAreFetchable`).
- A `ttl_sec` whose nanoseconds overflow gives another, shorter life, or the
  default (`NeverOutlivesRequest`).  It may be as short as a few hundred
  nanoseconds: the envelope has then expired when it leaves, and goes out all the
  same, since `PublishTask` and `PublishFact` look at the clock only once.
- The host listens from `CreateHost` on, and `registerConnectionTracing` comes
  later and asks nobody who is connected already: a peer that connects in between
  is not recorded, unless it is met again (`ConnectedIsKnown` leaves out just
  these connections, which the variable `unseen` remembers).
- A signal cancels the node's context, and with it the gossip's, before the API
  has drained: a publication that is still served may be told that it succeeded
  though nothing goes out any more.

## 5. Fairness

- `Store`: `WF(GCExpired({}))`.  The ticker of `NewNode` calls it every 30
  seconds for as long as the node runs; the disk is assumed to work again some
  time.  Nothing makes the node start or the clock tick.
- `Gossip`: weak fairness of each caller's and each read loop's next step (they
  are goroutines that hold no lock while they wait), and of `Cancel` once
  `Close` ran, since `Node.Close` does one after the other.
- `Discovery`: weak fairness of the one goroutine of the loop.  Dials return:
  libp2p bounds each of them.
- `Lifecycle`: weak fairness of the main goroutine's next step, whose calls
  return, and of the end of its five seconds (`context.WithTimeout`).  Nobody
  has to signal, to answer a fetch or to end a request, and the other goroutine
  of the shutdown need not move.
- The other modules have safety properties only and no fairness.

## 6. What is proved

Each theorem holds for any values of the constants that satisfy the module's
ASSUME, and for every bound.

**`StoreProofs`**, for any sets of keys, references and bodies:

- `TypeCorrect`: `Spec => []TypeOK`, one lemma per kind of entry.
- `MemoryAheadOfFile`: `Spec => []TasksFileIsPast`.  The invariant is inductive
  together with `TypeOK`: a successful write makes file and memory equal, a
  failed one moves the memory along `Follows`, which is transitive enough for
  the steps there are (`FollowsApply`, `FollowsSweep`, `FollowsLater`).
- `ImplementsLedger`: `Spec => DiskIsLedger`, the refinement.  A write takes the
  file from a past state to the memory, which by the invariant is one `Record`
  of the ledger, however many writes were missed.
- `FactsMemoryAheadOfFile` and `FactsAdvance`: the same for facts, which needs a
  second invariant, `FactsReceived` (what the tables hold came in an envelope),
  because only envelopes are known to keep to `SteadyDeadlines`.

**`PublishProofs`**, for any objects, requests and times to live:
`PublishTypeCorrect`, and, for `CarefulClients` (the conditions of section 4),
`NumbersReachDisk` (`SentIsRecorded`), `DetailsStay` (`SentIsFetchable`) and
`NumbersAreUnique` (`OneEnvelopePerNumber`).  None of them is inductive.
`PublishInv` adds:

- `Control`: one request under way per object, what was sent is the draft of a
  request that is done, and deadlines of a fact do not shrink from a request that
  is done to one under way (both were counted from the clock with one TTL).
- `Numbers`: a number that was handed out stays above the table's until it is
  applied (`Fresh`); from then on the table and its file cover it until its
  deadline (`IsRecorded`).  A write replaces the whole file by the memory, so the
  memory has to cover it too; the sweep deletes only what has lapsed; and of two
  requests for an object the later one has the later deadline.
- `Held`: from `StoreDetail` on, the detail is in memory and in the file under
  its reference.  Another request's `StoreDetail` writes elsewhere
  (`ReferencesDiffer`): it has another key, or its number is fresh and that of the
  current envelope is covered by the table.

Uniqueness follows from `Held`: two envelopes with one reference have the body
that the reference holds, and a body is the draft of one request.

**`InboundProofs`**, for any loops, arrivals, limits and lives:
`InboundTypeCorrect`, and under `SteadyDeadlines` `TableHoldsLog`
(`TableNotBehindLog`) and `OnceInALife` (`AppliedOnce`).  `LogAgrees` says that
what was applied in this life, logged or not yet, is in the table or outdated
there (`AppliedStays`, step by step of the store); the table then refuses it
(`InTableIsRefused`), so that no second loop applies it.

`OnlyOverLimit` (`RefusedOnlyOverLimit`) needs no assumption: by `RateCounts` the
rate never counts more than the copies within the policy that were taken in this
life, whatever else arrived in the publisher's name (`OneMoreTaken`).

**`NegotiationProofs`**, for any nodes, sessions, requests and ops, without
assumptions:

- `NegotiationTypeCorrect`: types, with the fact that a request that was made
  keeps its frame.
- `FilesOnlyGrow`: `Spec => DiskOnlyGrows`.  A step records one frame, starts or
  ends a node, or leaves the tables alone (`StepKinds`).  The property is not
  inductive by itself, since a write replaces the file with the memory: the
  invariant `MemoryAhead` says that the file of a running node is a prefix of its
  memory.
- `SenderFirst`: `Spec => []SenderHasItFirst`.  The inductive invariant adds that
  requests under way are on their sender's disk (`SentAreWritten`, because a
  failed record ends the request) and that whatever a node holds of another is
  (`HeldAreWritten`); what is on disk stays there by `FilesOnlyGrow`'s lemma.
- `RoundTripsAreRecorded` (`RoundTripIsRecorded`) and `UnsupportedStays`
  (`UnsupportedStaysHome`), by `RoundTripInv`: a held frame is that of its request
  or an answer to it, and answers, and other nodes' requests, have gone through a
  handler (`HeldAreKnown`); what arrived was validated by its sender
  (`ArrivedAreSupported`), and is on the receiver's disk once it was recorded
  (`HandledAreWritten`), which the failure of a later record does not undo.
  `NewOrHeld` says what a step may add to a session, and of which request.
- `AnswersOrder` (`AnsweredComesFirst`), by `OrderInv`: what was answered before a
  request was made has had its handler (`EarlierAreDone`), so that no step adds it
  to a session any more, behind the later one (`HeldInOrder`, in memory and file).

**`LifecycleProofs`**, of the gossip, for any topics, publications and messages:
`GossipTypeCorrect`, and `OneReader` (`OneReaderPerTopic`), with the invariant
that every topic that is read has an entry in `g.subs`, which never shrinks.  Of
the process, for the same and any fetches: `LifecycleTypeCorrect`;
`RequestsGetTheirTime` (`NotClosedUnderRequests`) by `Waited`: past the phase that
waits, either none is under way or the main goroutine's time is over, and
requests begin only while it serves (`InFlightGrowsServing`); `CallbacksFind`
(`CallbacksFindTheirParts`) by `BuiltSoFar`, what `NewNode` has built by each
phase.

**`DiscoveryProofs`**, for any peers, bootstrap list and keys:
`DiscoveryTypeCorrect`; `OneIdentity` (`IdentityKept`) by `OneKey`: no host was
created before the key was written, and all hosts had the key of the file;
`ConnectionsAreRecorded` (`ConnectedIsKnown`), which needs that there is no link
before a host and no call before the callbacks; `RunningKnows` (`RunningKnowsBootstrap`) by `StartPasses`: the
peers that the pass of the start is through with are known, or are the call
under way.

**`ReplicationProofs`**, for any nodes, topics, subscriptions, owners and
publications:

- `ReplicationTypeCorrect`.
- `NodesImplementBulletin`: `Spec => ImplementsBulletin`, the refinement: every
  step is one of the bulletin or a stutter (`StepIsBulletinStep`), because what
  `ApplyTask` or `ApplyFact` accepts the bulletin lets a node adopt
  (`AcceptedIsAdopted`), owners accept what they publish (`PublishIsAccepted`) and
  a sweep lets versions lapse (`SweepLapses`).
- `NodesShowTheLast` (`ShowsLastReceived`), if the clients of each fact keep to one
  TTL (`SteadyFacts`), by `LastInv`:
  an owner's entry leads its tasks (`OwnersLead`); what is published after a
  version that is still current has a higher number, and nothing comes after one
  that closes (`NumbersRise`); a node's entry came in an envelope that it received
  (`HoldsReceived`), and whatever was published after that can replace it
  (`LaterFollow`), in whatever order it arrives.  Without `SteadyFacts` this is
  false: a swept fact starts again at number 1 while another node may still show
  an earlier version with a longer life.
- `ShownCanBeFetched` (`ShownIsFetchable`), under `SteadyFacts` too: what a node
  shows it has received (`HoldsReceived`), so it was published, and by `Kept` the
  owner's table covers the number of every current envelope, and the payload under
  its reference is its own.

**`PolicyProofs`**, of `RateLimit`, for any peers, limits and calls:
`TwiceTheLimit` (`TwiceTheLimitAtMost`) and `RefusalsHaveCause`
(`RefusedForCause`).  Neither is inductive.  By `WindowOK` the count of a window is
that of its calls, all of a peer's calls came before the window ends, and neither
the window nor the minute before it let more than the limit through; a minute
that ends after the window has begun meets just these two (`TwoWindows`), and one
that ended before gets no more calls (`TwiceKept`).

Of `Wire`, for any requests, policies and altered copies: `SignatureCovers`
(`AdmittedIsAsSigned`), because a copy that verifies in the name of the publisher
has the publisher's signature (`OriginSigns`), which can only be the one of what was
sent, and equal canonical forms differ in blank and padded topics only
(`SameCanonical`).  The assumption on cryptography is part of `WireAssumption`:
what comes instead of a signature is none, or is made by the other peer.
`OverflowOnlyShortens` (`NeverOutlivesRequest`) holds for durations of any width:
only what asks for `Half` or more wraps, and what comes out is below `Half`
(`WrappedIs`), as is the default.
`AdmittedAsItLeft` (`SentIsAdmitted`): an envelope's topics are a list, and
policies compare integers (`NoStricterAdmits`).

The other three are about what `normalizeTopics`, `TopicsFromTaxonomy`,
`BuildDetailRef` and `ParseDetailRef` compute for lists of any length.  They are
folds, so the proofs are by induction on the number of elements:

- `LeastNatural`: a set of naturals that is not empty has a least element,
  because `<` is well-founded.  `UpTo` is induction with that: the formula is given
  as the set of the numbers that it holds of.
- A fold is defined by a `CHOOSE` of a function on sets of places.  `FoldExists`
  says that there is one (by `UpTo`, a place at a time), and `FoldSteps` what it
  gives for the first 0, 1, 2... places.  `FirstTopicsSteps`, `WordsSteps`,
  `SplitSteps` and `CleanSteps` apply them: each fold is the last of a run, which
  starts empty and takes one step for each element.
- `OutOnWhatWasAsked` (`GoesOutWhereAsked`): a topic's rank is one more than the
  number of different topics that come before its first mention (`RankIs`).
  After n elements the run has exactly the topics of a rank within the limit, each
  in the place of its rank (`HasSoFar`); one more element, blank, repeated, new
  or over the limit, leaves it so (`HasMore`).
- `BroadTopicsHear` (`NarrowReachesBroad`): the words of a taxonomy's first
  parts are the first of its words (`WordsOfFirstParts`), so that their topic is
  given in the place of their number, and its rank is no higher (`SoFarBounded`).
- `WhichDetailsAreFetchable` (`PlainIdsAreFetchable`): the path of a reference
  splits at its two slashes, however long the id is (`SplitsIntoThree`), and
  cleaning removes no part unless the id is made of dots (`CleansDotsOnly`).

The assumptions on requests are those of `WireAssumption`: lists are sequences,
an id that is not missing is not empty, and numbers are integers.

Model-checked only: liveness (`LapsedIsSwept`, `ConfiguredIsHandled`,
`ReadersEnd`, `BootstrapRejoined`, `SignalEnds`), which is out of the prover's
reach: it has no rules for fairness and `ENABLED`.

## 7. What is not modelled

- The benchmark scripts and the operator scripts: they drive the program from
  outside and share no state with it.
- Cryptography, JSON, libp2p, GossipSub, the DHT and mDNS, other than by what the
  code relies on them for.
- A policy with `RequireSignature` off, which `run` never configures.
- Power failures: files are renamed into place and not synced; a crash is the end
  of the process.
- What a failed start leaves open: its only caller ends the process.
- The addresses and times in the table of peers.
- Reads of the HTTP API and the command line: they change no state.
