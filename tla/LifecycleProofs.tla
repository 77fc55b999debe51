-------------------------- MODULE LifecycleProofs --------------------------
(***************************************************************************)
(* What modules Gossip and Lifecycle promise, for any topics,              *)
(* publications, fetches and messages: the gossip of a node first, by      *)
(* itself; then the process, of which every step is one of the gossip, or  *)
(* one of the main goroutine and its helpers.                              *)
(***************************************************************************)
EXTENDS Lifecycle, TLAPS

(***************************************************************************)
(* The gossip: type correctness.                                           *)
(***************************************************************************)

\* A subscription holds no more messages than its buffer.
LEMMA ReceivesTypes ==
  ASSUME GossipTypeOK, NEW t \in Topics, NEW message \in Messages, Receives(t, message)
  PROVE  /\ inbox' \in [Topics -> Seq(Messages)]
         /\ \A s \in Topics : Len(inbox'[s]) <= Buffer
         /\ seen' \subseteq Topics \X Messages
         /\ handled' = handled
<1>1. seen' \subseteq Topics \X Messages /\ handled' = handled
  BY DEF Receives, GossipTypeOK
<1>2. CASE Len(inbox[t]) < Buffer
  <2>1. inbox' = [inbox EXCEPT ![t] = Append(@, message)]
    BY <1>2 DEF Receives
  <2>2. inbox[t] \in Seq(Messages)
    BY DEF GossipTypeOK
  <2>3. Append(inbox[t], message) \in Seq(Messages) /\ Len(Append(inbox[t], message)) = Len(inbox[t]) + 1
    BY <2>2
  <2>4. Len(inbox[t]) \in Nat
    BY <2>2
  <2>5. Len(Append(inbox[t], message)) <= Buffer
    BY <2>3, <2>4, <1>2, GossipAssumption
  <2> QED BY <1>1, <2>1, <2>3, <2>5 DEF GossipTypeOK
<1>3. CASE ~ Len(inbox[t]) < Buffer
  BY <1>1, <1>3 DEF Receives, GossipTypeOK
<1> QED BY <1>2, <1>3

\* A step of a caller keeps the types.
LEMMA CallerTypes == ASSUME GossipTypeOK, NEW c \in Callers, CallerStep(c) PROVE GossipTypeOK'
<1>1. ASSUME NEW t \in Topics, Subscribe(c, t) PROVE GossipTypeOK'
  <2>1. readers' \subseteq [topic: Topics, ctx: Callers]
    BY <1>1 DEF Subscribe, StartsReader, GossipTypeOK
  <2> QED BY <1>1, <2>1 DEF Subscribe, GossipTypeOK, inboxVars, endVars
<1>2. ASSUME NEW t \in Topics, SubscribeFails(c, t) PROVE GossipTypeOK'
  BY <1>2 DEF SubscribeFails, GossipTypeOK, inboxVars
<1>3. ASSUME NEW t \in Topics, PublishOn(c, t) PROVE GossipTypeOK'
  <2>1. c \in Messages
    BY <1>3 DEF PublishOn, GossipTypeOK, Callers, Messages
  <2>2. /\ inbox' \in [Topics -> Seq(Messages)]
        /\ \A s \in Topics : Len(inbox'[s]) <= Buffer
        /\ seen' \subseteq Topics \X Messages
        /\ handled' = handled
    BY <1>3, <2>1, ReceivesTypes DEF PublishOn, inboxVars, GossipTypeOK
  <2> QED BY <1>3, <2>2 DEF PublishOn, GossipTypeOK, topicVars, endVars
<1>4. ASSUME NEW t \in Topics, PublishFails(c, t) PROVE GossipTypeOK'
  BY <1>4 DEF PublishFails, GossipTypeOK, topicVars, inboxVars, endVars
<1>5. CASE SubscribedAll(c)
  BY <1>5 DEF SubscribedAll, GossipTypeOK, topicVars, inboxVars, endVars
<1>6. CASE PublishedAll(c)
  BY <1>6 DEF PublishedAll, GossipTypeOK, topicVars, inboxVars, endVars
<1> QED BY <1>1, <1>2, <1>3, <1>4, <1>5, <1>6 DEF CallerStep

\* A step of a read loop keeps the types.
LEMMA ReaderTypes ==
  ASSUME GossipTypeOK, NEW reader \in [topic: Topics, ctx: Callers], ReaderStep(reader)
  PROVE  GossipTypeOK'
<1>1. CASE Read(reader)
  <2> DEFINE box == inbox[reader.topic]
  <2>1. box \in Seq(Messages) /\ box # <<>> /\ Len(box) <= Buffer
    BY <1>1 DEF Read, GossipTypeOK
  <2>2. Tail(box) \in Seq(Messages) /\ Len(Tail(box)) = Len(box) - 1 /\ Len(box) \in Nat
    BY <2>1
  <2>3. inbox' = [inbox EXCEPT ![reader.topic] = Tail(box)]
    BY <1>1 DEF Read
  <2>4. /\ inbox' \in [Topics -> Seq(Messages)]
        /\ \A t \in Topics : Len(inbox'[t]) <= Buffer
    <3>1. Len(Tail(box)) <= Buffer
      BY <2>1, <2>2, GossipAssumption
    <3> QED BY <2>2, <2>3, <3>1 DEF GossipTypeOK
  <2>5. handled' \subseteq Topics \X Envelopes /\ readers' = readers
    BY <1>1 DEF Read, Handles, GossipTypeOK
  <2> QED BY <1>1, <2>4, <2>5 DEF Read, GossipTypeOK, callVars, endVars
<1>2. CASE ReaderEnds(reader)
  BY <1>2 DEF ReaderEnds, GossipTypeOK, callVars, inboxVars, endVars
<1> QED BY <1>1, <1>2 DEF ReaderStep

\* A publication that begins and a message that comes in keep the types.
LEMMA PublishTypes ==
  ASSUME GossipTypeOK, NEW p \in Publications, NEW topics \in TopicSets, Publish(p, topics)
  PROVE  GossipTypeOK'
  BY GossipAssumption DEF Publish, GossipTypeOK, TopicSets, Callers, topicVars, inboxVars, endVars

LEMMA DeliverTypes ==
  ASSUME GossipTypeOK, NEW t \in Topics, NEW message \in Envelopes \cup Garbage, Deliver(t, message)
  PROVE  GossipTypeOK'
<1>1. /\ inbox' \in [Topics -> Seq(Messages)]
      /\ \A s \in Topics : Len(inbox'[s]) <= Buffer
      /\ seen' \subseteq Topics \X Messages
      /\ handled' = handled
  BY ReceivesTypes DEF Deliver, Messages
<1> QED BY <1>1 DEF Deliver, GossipTypeOK, callVars, topicVars, endVars

LEMMA InitTypes == Init => GossipTypeOK
<1> SUFFICES ASSUME Init PROVE GossipTypeOK
  OBVIOUS
<1>1. /\ inbox \in [Topics -> Seq(Messages)]
      /\ \A t \in Topics : Len(inbox[t]) <= Buffer
  BY GossipAssumption DEF Init
<1>2. /\ pc \in [Callers -> {"idle", "subscribe", "publish", "done", "failed"}]
      /\ pc[Node] = "subscribe"
  BY DEF Init, Callers
<1>3. todo \in [Callers -> SUBSET Topics] /\ want \in [Callers -> SUBSET Topics]
  BY GossipAssumption DEF Init
<1> QED BY <1>1, <1>2, <1>3 DEF Init, GossipTypeOK

\* No subscription holds more than its buffer, no loop reads a topic that was not
\* joined, and nothing but envelopes is handled: every state of the gossip is well
\* typed (internal/p2p/gossip.go).
THEOREM GossipTypeCorrect == Spec => []GossipTypeOK
<1>1. GossipTypeOK /\ [Next]_vars => GossipTypeOK'
  <2> SUFFICES ASSUME GossipTypeOK, [Next]_vars PROVE GossipTypeOK'
    OBVIOUS
  <2>1. CASE \E p \in Publications, topics \in TopicSets : Publish(p, topics)
    BY <2>1, PublishTypes
  <2>2. CASE \E c \in Callers : CallerStep(c)
    BY <2>2, CallerTypes
  <2>3. CASE \E t \in Topics, message \in Envelopes \cup Garbage : Deliver(t, message)
    BY <2>3, DeliverTypes
  <2>4. CASE \E reader \in [topic: Topics, ctx: Callers] : ReaderStep(reader)
    BY <2>4, ReaderTypes
  <2>5. CASE Cancel \/ Close
    BY <2>5 DEF Cancel, Close, GossipTypeOK, callVars, topicVars, inboxVars
  <2>6. CASE Finished \/ UNCHANGED vars
    BY <2>6 DEF Finished, GossipTypeOK, vars, callVars, topicVars, inboxVars, endVars
  <2> QED BY <2>1, <2>2, <2>3, <2>4, <2>5, <2>6 DEF Next
<1> QED BY <1>1, InitTypes, PTL DEF Spec

(***************************************************************************)
(* The gossip: one reader per topic.                                       *)
(***************************************************************************)

\* Why it holds: a topic that was ever read is in g.subs, which never shrinks.
ReadAreSubscribed == \A reader \in readers : reader.topic \in subscribed

Inv == OneReaderPerTopic /\ ReadAreSubscribed

\* ensureTopic starts a loop only for a topic that had none.
LEMMA SubscribeKeeps ==
  ASSUME Inv, NEW c, NEW t, Subscribe(c, t)
  PROVE  Inv'
<1>1. subscribed' = subscribed \cup {t}
  BY DEF Subscribe
<1>2. CASE t \in subscribed
  BY <1>1, <1>2 DEF Subscribe, StartsReader, Inv, OneReaderPerTopic, ReadAreSubscribed
<1>3. CASE t \notin subscribed
  <2>1. readers' = readers \cup {[topic |-> t, ctx |-> c]}
    BY <1>3 DEF Subscribe, StartsReader
  <2>2. \A reader \in readers : reader.topic # t
    BY <1>3 DEF Inv, ReadAreSubscribed
  <2> QED BY <1>1, <2>1, <2>2 DEF Inv, OneReaderPerTopic, ReadAreSubscribed
<1> QED BY <1>2, <1>3

\* Every other step starts no loop and keeps g.subs.
LEMMA OthersKeep ==
  ASSUME Inv, readers' \subseteq readers, subscribed \subseteq subscribed'
  PROVE  Inv'
  BY DEF Inv, OneReaderPerTopic, ReadAreSubscribed

\* A step of a caller keeps the invariant.
LEMMA CallerKeeps == ASSUME Inv, NEW c, CallerStep(c) PROVE Inv'
<1>1. CASE \E t \in Topics : Subscribe(c, t)
  BY <1>1, SubscribeKeeps
<1>2. CASE \E t \in Topics : SubscribeFails(c, t)
  BY <1>2, OthersKeep DEF SubscribeFails
<1>3. CASE \E t \in Topics : PublishOn(c, t)
  BY <1>3, OthersKeep DEF PublishOn, topicVars
<1>4. CASE \E t \in Topics : PublishFails(c, t)
  BY <1>4, OthersKeep DEF PublishFails, topicVars
<1>5. CASE SubscribedAll(c) \/ PublishedAll(c)
  BY <1>5, OthersKeep DEF SubscribedAll, PublishedAll, topicVars
<1> QED BY <1>1, <1>2, <1>3, <1>4, <1>5 DEF CallerStep

\* Every step of the node keeps the invariant.
LEMMA StepKeeps == Inv /\ [Next]_vars => Inv'
<1> SUFFICES ASSUME Inv, [Next]_vars PROVE Inv'
  OBVIOUS
<1>1. CASE \E p \in Publications, topics \in TopicSets : Publish(p, topics)
  BY <1>1, OthersKeep DEF Publish, topicVars
<1>2. CASE \E c \in Callers : CallerStep(c)
  BY <1>2, CallerKeeps
<1>3. CASE \E t \in Topics, message \in Envelopes \cup Garbage : Deliver(t, message)
  BY <1>3, OthersKeep DEF Deliver, topicVars
<1>4. CASE \E reader \in [topic: Topics, ctx: Callers] : ReaderStep(reader)
  <2>1. readers' \subseteq readers /\ subscribed' = subscribed
    BY <1>4 DEF ReaderStep, Read, ReaderEnds, Handles
  <2> QED BY <2>1, OthersKeep
<1>5. CASE Cancel \/ Close \/ Finished
  BY <1>5, OthersKeep DEF Cancel, Close, Finished, vars, topicVars
<1>6. CASE UNCHANGED vars
  BY <1>6, OthersKeep DEF vars, topicVars
<1> QED BY <1>1, <1>2, <1>3, <1>4, <1>5, <1>6 DEF Next

\* However many publications, and the node, subscribe to a topic at once, one
\* read loop at most reads it.
THEOREM OneReader == Spec => []OneReaderPerTopic
<1>1. Init => Inv
  BY DEF Init, Inv, OneReaderPerTopic, ReadAreSubscribed
<1>2. Inv => OneReaderPerTopic
  BY DEF Inv
<1> QED BY <1>1, <1>2, StepKeeps, PTL DEF Spec


(***************************************************************************)
(* The process: type correctness.                                          *)
(***************************************************************************)
LEMMA SameGossip == ASSUME GossipTypeOK, UNCHANGED vars PROVE GossipTypeOK'
  BY DEF GossipTypeOK, vars, callVars, topicVars, inboxVars, endVars

\* What the gossip does on behalf of requests, messages and read loops keeps its
\* types.
LEMMA GossipStepTypes == ASSUME GossipTypeOK, GossipStep PROVE GossipTypeOK'
<1>1. CASE \E p \in Publications, topics \in TopicSets : Publish(p, topics)
  BY <1>1, PublishTypes
<1>2. CASE \E p \in Publications : CallerStep(p)
  BY <1>2, CallerTypes DEF Callers
<1>3. CASE \E t \in Topics, message \in Envelopes \cup Garbage : Deliver(t, message)
  BY <1>3, DeliverTypes
<1>4. CASE \E reader \in [topic: Topics, ctx: Callers] : ReaderStep(reader)
  BY <1>4, ReaderTypes
<1> QED BY <1>1, <1>2, <1>3, <1>4 DEF GossipStep

\* The main goroutine reaches the phases in the order of After.
LEMMA AfterIsPhase ==
  ASSUME NEW phase \in BootPhases
  PROVE  /\ After[phase] \in Phases \ {"store", "exited", "shutdown", "close_gossip", "close_discovery", "close_host"}
         /\ Builds(phase) \subseteq {"store", "host", "identity", "gossip", "discovery"}
         /\ Opens(After[phase]) \subseteq Callbacks
  BY DEF BootPhases, After, Phases, Builds, Opens, Callbacks

\* The steps of the main goroutine keep the types.
LEMMA MainTypes == ASSUME LifecycleTypeOK, MainStep PROVE LifecycleTypeOK'
<1> USE DEF LifecycleTypeOK
<1>1. CASE BootStep
  <2>1. main \in BootPhases
    BY <1>1 DEF BootStep
  <2> QED BY <1>1, <2>1, AfterIsPhase, SameGossip DEF BootStep, Advance, apiVars
<1>2. CASE SubscribeTopics
  <2>1. CASE CallerStep(Node) /\ UNCHANGED nodeVars
    BY <1>2, <2>1, CallerTypes DEF SubscribeTopics, Callers, nodeVars, apiVars
  <2>2. CASE Advance /\ UNCHANGED vars
    <3>1. main \in BootPhases
      BY <1>2 DEF SubscribeTopics, BootPhases
    <3> QED BY <1>2, <2>2, <3>1, AfterIsPhase, SameGossip DEF SubscribeTopics, Advance, apiVars
  <2> QED BY <1>2, <2>1, <2>2 DEF SubscribeTopics
<1>3. CASE BootFails
  BY <1>3, SameGossip DEF BootFails, Phases, apiVars
<1>4. CASE StartAgentAPI
  <2>1. main \in BootPhases
    BY <1>4 DEF StartAgentAPI, BootPhases
  <2> QED BY <1>4, <2>1, AfterIsPhase, SameGossip DEF StartAgentAPI, Advance
<1>5. CASE MainWakes \/ ShutdownEnds
  BY <1>5, SameGossip DEF MainWakes, ShutdownEnds, Phases, apiVars
<1>6. CASE CloseGossip
  <2>1. GossipTypeOK'
    BY <1>6 DEF CloseGossip, Close, GossipTypeOK, callVars, topicVars, inboxVars
  <2> QED BY <1>6, <2>1 DEF CloseGossip, Phases, apiVars
<1>7. CASE CloseDiscovery \/ CloseHost
  BY <1>7, SameGossip DEF CloseDiscovery, CloseHost, Phases, apiVars
<1> QED BY <1>1, <1>2, <1>3, <1>4, <1>5, <1>6, <1>7 DEF MainStep

\* So do the requests, the signal, the watcher and the clock.
LEMMA OtherTypes ==
  ASSUME LifecycleTypeOK,
         \/ \E f \in Fetches : FetchBegins(f) \/ FetchEnds(f)
         \/ Signal \/ WatcherWakes \/ WatcherEnds
         \/ \E who \in {"main", "watcher"} : FiveSeconds(who)
  PROVE  LifecycleTypeOK'
<1> USE DEF LifecycleTypeOK
<1>1. CASE \E f \in Fetches : FetchBegins(f) \/ FetchEnds(f)
  BY <1>1, SameGossip DEF FetchBegins, FetchEnds, nodeVars
<1>2. CASE Signal
  <2>1. GossipTypeOK'
    BY <1>2 DEF Signal, GossipTypeOK, callVars, topicVars, inboxVars
  <2> QED BY <1>2, <2>1 DEF Signal, nodeVars, apiVars
<1>3. CASE WatcherWakes \/ WatcherEnds
  BY <1>3, SameGossip DEF WatcherWakes, WatcherEnds, nodeVars
<1>4. CASE \E who \in {"main", "watcher"} : FiveSeconds(who)
  BY <1>4, SameGossip DEF FiveSeconds, nodeVars
<1> QED BY <1>1, <1>2, <1>3, <1>4

LEMMA LifecycleTypeInductive == LifecycleTypeOK /\ [LifecycleNext]_allVars => LifecycleTypeOK'
<1> SUFFICES ASSUME LifecycleTypeOK, [LifecycleNext]_allVars PROVE LifecycleTypeOK'
  OBVIOUS
<1>1. CASE MainStep
  BY <1>1, MainTypes
<1>2. CASE GossipStep
  BY <1>2, GossipStepTypes DEF GossipStep, LifecycleTypeOK, nodeVars, apiVars
<1>3. CASE \/ \E f \in Fetches : FetchBegins(f) \/ FetchEnds(f)
           \/ Signal \/ WatcherWakes \/ WatcherEnds
           \/ \E who \in {"main", "watcher"} : FiveSeconds(who)
  BY <1>3, OtherTypes
<1>4. CASE UNCHANGED allVars
  BY <1>4, SameGossip DEF allVars, nodeVars, apiVars, LifecycleTypeOK
<1> QED BY <1>1, <1>2, <1>3, <1>4 DEF LifecycleNext

LEMMA LifecycleInitTypes == LifecycleInit => LifecycleTypeOK
  BY InitTypes DEF LifecycleInit, LifecycleTypeOK, Phases, BootPhases, Callbacks

\* Every state of a process, from its start to its exit, is well typed.
THEOREM LifecycleTypeCorrect == LifecycleSpec => []LifecycleTypeOK
  BY LifecycleInitTypes, LifecycleTypeInductive, PTL DEF LifecycleSpec

(***************************************************************************)
(* Requests under way.                                                     *)
(***************************************************************************)
\* Other steps than the begin of a request put none under way.
LEMMA CallerInFlight ==
  ASSUME LifecycleTypeOK, NEW c \in Callers, CallerStep(c), UNCHANGED fetch
  PROVE  InFlight' \subseteq InFlight
<1> DEFINE Busy == {p \in Publications : pc[p] \in {"subscribe", "publish"}}
<1>1. pc \in [Callers -> {"idle", "subscribe", "publish", "done", "failed"}] /\ Publications \subseteq Callers
  BY DEF LifecycleTypeOK, GossipTypeOK, Callers
<1>2. CASE UNCHANGED pc
  BY <1>2 DEF InFlight
<1>3. CASE \E state \in {"done", "failed"} : pc' = [pc EXCEPT ![c] = state]
  <2>1. Busy' \subseteq Busy
    BY <1>1, <1>3
  <2> QED BY <2>1 DEF InFlight
<1>4. CASE SubscribedAll(c)
  <2>1. pc[c] = "subscribe" /\ \E state : pc' = [pc EXCEPT ![c] = state]
    BY <1>4 DEF SubscribedAll
  <2>2. Busy' \subseteq Busy
    BY <1>1, <2>1
  <2> QED BY <2>2 DEF InFlight
<1> QED
  BY <1>2, <1>3, <1>4 DEF CallerStep, Subscribe, SubscribeFails, PublishOn, PublishFails, PublishedAll

\* Requests begin only while the main goroutine waits for a signal.
LEMMA InFlightGrowsServing ==
  ASSUME LifecycleTypeOK, [LifecycleNext]_allVars
  PROVE  InFlight' \subseteq InFlight \/ (main = "serve" /\ main' = "serve" /\ UNCHANGED <<open, built, readers, closed>>)
<1> USE DEF LifecycleTypeOK
<1>1. CASE MainStep
  <2>1. CASE SubscribeTopics
    <3>1. CASE CallerStep(Node)
      BY <2>1, <3>1, CallerInFlight DEF SubscribeTopics, Callers, apiVars
    <3>2. CASE UNCHANGED vars
      BY <2>1, <3>2 DEF SubscribeTopics, InFlight, vars, callVars, apiVars
    <3> QED BY <2>1, <3>1, <3>2 DEF SubscribeTopics
  <2>2. CASE CloseGossip
    BY <2>2 DEF CloseGossip, Close, InFlight, callVars, apiVars
  <2>3. CASE BootStep \/ BootFails \/ StartAgentAPI \/ MainWakes \/ ShutdownEnds \/ CloseDiscovery \/ CloseHost
    <3>1. UNCHANGED <<pc, fetch>>
      BY <2>3 DEF BootStep, BootFails, StartAgentAPI, MainWakes, ShutdownEnds, CloseDiscovery, CloseHost,
                  vars, callVars, apiVars
    <3> QED BY <3>1 DEF InFlight
  <2> QED BY <1>1, <2>1, <2>2, <2>3 DEF MainStep
<1>2. CASE GossipStep
  <2>1. CASE Serving /\ \E p \in Publications, topics \in TopicSets : Publish(p, topics)
    BY <1>2, <2>1 DEF GossipStep, Serving, Publish, nodeVars, topicVars, endVars
  <2>2. CASE \E p \in Publications : CallerStep(p)
    BY <1>2, <2>2, CallerInFlight DEF GossipStep, Callers, apiVars
  <2>3. CASE \E t \in Topics, message \in Envelopes \cup Garbage : Deliver(t, message)
    BY <1>2, <2>3 DEF GossipStep, Deliver, InFlight, callVars, apiVars
  <2>4. CASE \E reader \in [topic: Topics, ctx: Callers] : ReaderStep(reader)
    BY <1>2, <2>4 DEF GossipStep, ReaderStep, Read, ReaderEnds, InFlight, callVars, apiVars
  <2> QED BY <1>2, <2>1, <2>2, <2>3, <2>4 DEF GossipStep
<1>3. CASE \E f \in Fetches : FetchBegins(f)
  BY <1>3 DEF FetchBegins, Serving, nodeVars, vars, topicVars, endVars
<1>4. CASE \E f \in Fetches : FetchEnds(f)
  BY <1>4 DEF FetchEnds, InFlight, vars, callVars
<1>5. CASE Signal \/ WatcherWakes \/ WatcherEnds \/ (\E who \in {"main", "watcher"} : FiveSeconds(who)) \/ UNCHANGED allVars
  <2>1. UNCHANGED <<pc, fetch>>
    BY <1>5 DEF Signal, WatcherWakes, WatcherEnds, FiveSeconds, allVars, vars, callVars, apiVars
  <2> QED BY <2>1 DEF InFlight
<1> QED BY <1>1, <1>2, <1>3, <1>4, <1>5 DEF LifecycleNext

\* Why requests have their five seconds: the main goroutine leaves the phase that
\* waits for them only when none is under way or its own time is over, no request
\* begins from then on, and the gossip closes after that.
Waited ==
  /\ main \in {"close_gossip", "close_discovery", "close_host"} \/ closed
       => InFlight = {} \/ "main" \in elapsed
  /\ closed => main \in {"close_discovery", "close_host", "exited"}

\* The gossip is closed by one step of the main goroutine.
LEMMA ClosedByMain ==
  ASSUME LifecycleTypeOK, [LifecycleNext]_allVars
  PROVE  /\ closed' = closed \/ (main = "close_gossip" /\ main' = "close_discovery")
         /\ elapsed \subseteq elapsed'
         /\ main' \in {"close_gossip", "close_discovery", "close_host"} =>
              \/ main \in {"close_gossip", "close_discovery", "close_host"}
              \/ InFlight = {} \/ "main" \in elapsed
         /\ main \in {"close_discovery", "close_host", "exited"} => main' \in {"close_discovery", "close_host", "exited"}
<1> USE DEF LifecycleTypeOK
<1>1. CASE MainStep
  <2>1. CASE BootStep
    BY <2>1, AfterIsPhase DEF BootStep, BootPhases, Advance, vars, endVars, apiVars
  <2>2. CASE SubscribeTopics
    <3>1. CASE CallerStep(Node) /\ UNCHANGED nodeVars
      BY <2>2, <3>1 DEF SubscribeTopics, CallerStep, Subscribe, SubscribeFails, PublishOn, PublishFails,
                        SubscribedAll, PublishedAll, endVars, nodeVars, apiVars
    <3>2. CASE Advance /\ UNCHANGED vars
      BY <2>2, <3>2 DEF SubscribeTopics, Advance, After, vars, endVars, apiVars
    <3> QED BY <2>2, <3>1, <3>2 DEF SubscribeTopics
  <2>3. CASE BootFails \/ MainWakes \/ CloseDiscovery \/ CloseHost
    BY <2>3 DEF BootFails, MainWakes, CloseDiscovery, CloseHost, BootPhases, vars, endVars, apiVars
  <2>4. CASE StartAgentAPI
    BY <2>4 DEF StartAgentAPI, Advance, After, vars, endVars
  <2>5. CASE ShutdownEnds
    BY <2>5 DEF ShutdownEnds, WaitedEnough, vars, endVars, apiVars
  <2>6. CASE CloseGossip
    BY <2>6 DEF CloseGossip, Close, apiVars
  <2> QED BY <1>1, <2>1, <2>2, <2>3, <2>4, <2>5, <2>6 DEF MainStep
<1>2. CASE GossipStep
  BY <1>2 DEF GossipStep, Publish, CallerStep, Subscribe, SubscribeFails, PublishOn, PublishFails, SubscribedAll,
              PublishedAll, Deliver, ReaderStep, Read, ReaderEnds, endVars, nodeVars, apiVars
<1>3. CASE \E f \in Fetches : FetchBegins(f) \/ FetchEnds(f)
  BY <1>3 DEF FetchBegins, FetchEnds, nodeVars, vars, endVars
<1>4. CASE Signal \/ WatcherWakes \/ WatcherEnds \/ UNCHANGED allVars
  BY <1>4 DEF Signal, WatcherWakes, WatcherEnds, allVars, vars, endVars, nodeVars, apiVars
<1>5. CASE \E who \in {"main", "watcher"} : FiveSeconds(who)
  BY <1>5 DEF FiveSeconds, nodeVars, vars, endVars
<1> QED BY <1>1, <1>2, <1>3, <1>4, <1>5 DEF LifecycleNext

LEMMA WaitedInductive == LifecycleTypeOK /\ Waited /\ [LifecycleNext]_allVars => Waited'
<1> SUFFICES ASSUME LifecycleTypeOK, Waited, [LifecycleNext]_allVars PROVE Waited'
  OBVIOUS
<1>1. closed' => main' \in {"close_discovery", "close_host", "exited"}
  BY ClosedByMain DEF Waited
<1>2. ASSUME main' \in {"close_gossip", "close_discovery", "close_host"} \/ closed'
      PROVE  InFlight' = {} \/ "main" \in elapsed'
  <2>1. InFlight = {} \/ "main" \in elapsed
    BY <1>2, ClosedByMain DEF Waited
  <2>2. main' # "serve"
    BY <1>1, <1>2
  <2> QED BY <2>1, <2>2, InFlightGrowsServing, ClosedByMain
<1> QED BY <1>1, <1>2 DEF Waited

\* Node.Close does not run under a request before the main goroutine has waited
\* its own five seconds (shutdownServer, called by two goroutines).
THEOREM RequestsGetTheirTime == LifecycleSpec => []NotClosedUnderRequests
<1>1. LifecycleInit => LifecycleTypeOK /\ Waited
  BY LifecycleInitTypes DEF LifecycleInit, Init, Waited
<1>2. Waited => NotClosedUnderRequests
  BY DEF Waited, NotClosedUnderRequests
<1> QED BY <1>1, <1>2, LifecycleTypeInductive, WaitedInductive, PTL DEF LifecycleSpec

(***************************************************************************)
(* Callbacks find what they use.                                           *)
(***************************************************************************)
\* What NewNode has built by the phases it reaches.
BuiltSoFar ==
  /\ main \notin {"store", "exited"} => "store" \in built
  /\ main \notin {"store", "host", "exited"} => {"host", "identity"} \subseteq built
  /\ main \in {"event", "api", "serve", "shutdown", "close_gossip", "close_discovery", "close_host"}
       => {"gossip", "discovery"} \subseteq built

\* A phase of NewNode opens only what it and the phases before have built.
LEMMA AdvanceFinds ==
  ASSUME BuiltSoFar, main \in BootPhases, Advance
  PROVE  /\ BuiltSoFar'
         /\ built \subseteq built'
         /\ \A callback \in open' : callback \in open \/ Uses(callback) \subseteq built'
<1>1. main' = After[main] /\ built' = built \cup Builds(main) /\ open' = open \cup Opens(main')
  BY DEF Advance
<1>2. BuiltSoFar'
  BY <1>1 DEF BuiltSoFar, BootPhases, After, Builds
<1>3. \A callback \in Opens(main') : Uses(callback) \subseteq built'
  BY <1>1, <1>2 DEF BuiltSoFar, BootPhases, After, Opens, Uses
<1> QED BY <1>1, <1>2, <1>3

\* The other steps of the main goroutine open nothing.
LEMMA MainFinds ==
  ASSUME BuiltSoFar, LifecycleTypeOK, MainStep
  PROVE  /\ BuiltSoFar'
         /\ built \subseteq built'
         /\ \A callback \in open' : callback \in open \/ Uses(callback) \subseteq built'
<1>1. CASE Advance /\ main \in BootPhases
  BY <1>1, AdvanceFinds
<1>2. CASE BootFails \/ MainWakes \/ ShutdownEnds \/ CloseGossip \/ CloseDiscovery \/ CloseHost
  BY <1>2 DEF BootFails, MainWakes, ShutdownEnds, CloseGossip, CloseDiscovery, CloseHost, BuiltSoFar
<1>3. CASE UNCHANGED nodeVars
  BY <1>3 DEF nodeVars, BuiltSoFar
<1> QED
  BY <1>1, <1>2, <1>3 DEF MainStep, BootStep, SubscribeTopics, StartAgentAPI, BootPhases

\* Everybody else leaves the node's fields alone.
LEMMA OthersLeaveNode ==
  ASSUME [LifecycleNext]_allVars
  PROVE  MainStep \/ UNCHANGED nodeVars
  BY DEF LifecycleNext, GossipStep, FetchBegins, FetchEnds, Signal, WatcherWakes, WatcherEnds, FiveSeconds, allVars

\* A read loop starts when the node subscribes, or with a request.
LEMMA ReadersStart ==
  ASSUME LifecycleTypeOK, [LifecycleNext]_allVars
  PROVE  readers' \subseteq readers \/ main = "subscribe" \/ InFlight # {}
<1>1. CASE MainStep
  BY <1>1 DEF MainStep, BootStep, SubscribeTopics, BootFails, StartAgentAPI, MainWakes, ShutdownEnds, CloseGossip,
              CloseDiscovery, CloseHost, Close, vars, topicVars
<1>2. CASE GossipStep
  <2>1. ASSUME NEW p \in Publications, CallerStep(p) PROVE readers' \subseteq readers \/ InFlight # {}
    <3>1. CASE \E t \in Topics : Subscribe(p, t)
      BY <3>1 DEF Subscribe, InFlight
    <3> QED BY <2>1, <3>1 DEF CallerStep, SubscribeFails, PublishOn, PublishFails, SubscribedAll, PublishedAll, topicVars
  <2>2. CASE \E reader \in [topic: Topics, ctx: Callers] : ReaderStep(reader)
    BY <2>2 DEF ReaderStep, Read, ReaderEnds, Handles
  <2> QED BY <1>2, <2>1, <2>2 DEF GossipStep, Publish, Deliver, topicVars
<1>3. CASE \E f \in Fetches : FetchBegins(f) \/ FetchEnds(f)
  BY <1>3 DEF FetchBegins, FetchEnds, vars, topicVars
<1>4. CASE Signal \/ WatcherWakes \/ WatcherEnds \/ UNCHANGED allVars
  BY <1>4 DEF Signal, WatcherWakes, WatcherEnds, allVars, vars, topicVars
<1>5. CASE \E who \in {"main", "watcher"} : FiveSeconds(who)
  BY <1>5 DEF FiveSeconds, vars, topicVars
<1> QED BY <1>1, <1>2, <1>3, <1>4, <1>5 DEF LifecycleNext

LEMMA FindsInductive ==
  LifecycleTypeOK /\ BuiltSoFar /\ CallbacksFindTheirParts /\ [LifecycleNext]_allVars
    => BuiltSoFar' /\ CallbacksFindTheirParts'
<1> SUFFICES ASSUME LifecycleTypeOK, BuiltSoFar, CallbacksFindTheirParts, [LifecycleNext]_allVars
             PROVE  BuiltSoFar' /\ CallbacksFindTheirParts'
  OBVIOUS
<1>1. /\ BuiltSoFar'
      /\ built \subseteq built'
      /\ \A callback \in open' : callback \in open \/ Uses(callback) \subseteq built'
  <2>1. CASE MainStep
    BY <2>1, MainFinds
  <2>2. CASE UNCHANGED nodeVars
    BY <2>2 DEF nodeVars, BuiltSoFar
  <2> QED BY <2>1, <2>2, OthersLeaveNode
<1>2. \A callback \in open' : Uses(callback) \subseteq built'
  BY <1>1 DEF CallbacksFindTheirParts
<1>3. readers' # {} => Uses("envelope") \subseteq built'
  <2>1. CASE main = "subscribe"
    BY <2>1, <1>1 DEF BuiltSoFar, Uses
  <2>2. CASE InFlight # {}
    BY <2>2, <1>1 DEF CallbacksFindTheirParts, Uses
  <2>3. CASE readers' \subseteq readers
    BY <2>3, <1>1 DEF CallbacksFindTheirParts
  <2> QED BY <2>1, <2>2, <2>3, ReadersStart
<1>4. InFlight' # {} => Uses("request") \subseteq built'
  <2>1. CASE main = "serve"
    BY <2>1, <1>1 DEF BuiltSoFar, Uses
  <2>2. CASE InFlight' \subseteq InFlight
    BY <2>2, <1>1 DEF CallbacksFindTheirParts
  <2> QED BY <2>1, <2>2, InFlightGrowsServing
<1> QED BY <1>1, <1>2, <1>3, <1>4 DEF CallbacksFindTheirParts

\* Handlers, notices, read loops, the sweep and requests run while NewNode is not
\* through yet, and find every part of the node that they use.
THEOREM CallbacksFind == LifecycleSpec => []CallbacksFindTheirParts
<1>1. LifecycleInit => LifecycleTypeOK /\ BuiltSoFar /\ CallbacksFindTheirParts
  <2> SUFFICES ASSUME LifecycleInit PROVE BuiltSoFar /\ CallbacksFindTheirParts
    BY LifecycleInitTypes
  <2>1. \A p \in Publications : pc[p] = "idle"
    BY GossipAssumption DEF LifecycleInit, Init, Callers
  <2>2. InFlight = {}
    BY <2>1 DEF LifecycleInit, InFlight
  <2> QED BY <2>2 DEF LifecycleInit, Init, BuiltSoFar, CallbacksFindTheirParts
<1> QED BY <1>1, LifecycleTypeInductive, FindsInductive, PTL DEF LifecycleSpec
=============================================================================
